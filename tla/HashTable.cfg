SPECIFICATION HtSpec
CONSTANTS
  Keys = {1, 2, 3, 4, 5, 6, 8}
  SmallestCandidate = 2
  GrowthThreshold = 8
  ShrinkThreshold = 3
  GrowthFactor = 1414
  ShrinkFactor = 500
  ChunkCells = 7
CONSTRAINT NotStrayed
INVARIANT CellsSound
PROPERTY ImplementsSet
CHECK_DEADLOCK FALSE
