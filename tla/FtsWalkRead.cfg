SPECIFICATION Spec
CONSTANTS
  Dirs = {a, b, c}
  Roots = {a}
  FileSystems <- SmallGraphs
  Setups <- ReadErrors
  MaxTrouble = 1
INVARIANT ActiveExact
CHECK_DEADLOCK FALSE
