SPECIFICATION FairSpec
CONSTANTS
  Variants = 2
  MaxRetries = 1
  MaxInterrupts = 1
  ForksChild = TRUE
  SlowFork = TRUE
  MayKillLib = TRUE
INVARIANTS WatchdogArmed OnlyNormalEndsPass NoLeftovers
PROPERTY NothingRunsOn
CHECK_DEADLOCK FALSE
