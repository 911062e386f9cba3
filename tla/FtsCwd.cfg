SPECIFICATION MCSpec
CONSTANTS
    FcDirs <- MCDirs
    FcName <- MCName
    FcRoot = "r"
    FcTrees <- MCTrees
    I_RING_SIZE = 2
    FcMaxMoves = 3
INVARIANTS CwdIsListed CwdRingSound
