SPECIFICATION FairSpec
CONSTANTS
  Dirs = {a, b, c}
  Roots = {a, b}
  FileSystems <- SmallGraphs
  Setups <- AllWays
  MaxTrouble = 1
INVARIANTS CyclesAreReal NothingMissed LeftAsEntered
PROPERTY WalkEnds
CHECK_DEADLOCK FALSE
