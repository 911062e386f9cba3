SPECIFICATION FairSpec
CONSTANTS
  NTests = 4
  PROCESSOR_COUNT = 2
INVARIANTS LoadBounded VerdictRight
PROPERTY ScriptEnds
CHECK_DEADLOCK FALSE
