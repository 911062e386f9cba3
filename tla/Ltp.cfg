SPECIFICATION MCSpec
CONSTANTS
  Variants = 2
  Cases = 2
  Kids = {k1}
  MaxReports = 4
  Daemons = TRUE
  MaxFaults = 2
  MaxRuns = 2
  LoTests <- MCTests
  LoTexts <- MCTexts
  LoIntMax = 2
  LoMaxOptions = 2
  LoMaxClock = 4
  LoMaxRounds = 4
INVARIANTS StatusHonest ProcessesAccounted NothingLeft SetupHonest LoAsAsked
