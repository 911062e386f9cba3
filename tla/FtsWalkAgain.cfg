SPECIFICATION Spec
CONSTANTS
  Dirs = {a, b, c}
  Roots = {a}
  FileSystems <- SmallGraphs
  Setups <- PostOrderSet
  MaxTrouble = 1
INVARIANT NeverAborts
CHECK_DEADLOCK FALSE
