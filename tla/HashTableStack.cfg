SPECIFICATION HtSpec
CONSTANTS
  Keys = {2, 3, 4, 5, 7, 8, 9, 10, 17, 34}
  SmallestCandidate = 10
  GrowthThreshold = 8
  ShrinkThreshold = 0
  GrowthFactor = 1414
  ShrinkFactor = 1000
  ChunkCells = 10
INVARIANT EntryStackHolds
CHECK_DEADLOCK FALSE
