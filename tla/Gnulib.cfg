SPECIFICATION MCSpec
CONSTANTS
  Dirs = {d1, d2, d3}
  CounterLimit = 8
  MaxDepth = 6
  I_RING_SIZE = 4
  f1 = f1
  f2 = f2
  f3 = f3
  Values <- MCValues
  Default = Default
  GoArgvs <- MCArgvs
  GoSpecs <- MCSpecs
  GoMaxScans = 2
  TnTests = {t1, t2}
  TnDigits = {0, 1}
  TnLength = 2
  TnPower = 3
  TnAttempts = 2
  TnDirs <- MCTnDirs
  FlSetups <- MCSetups
  FlMaxEntries = 2
  FlThreshold = 1
  FlMaxTrouble = 3
INVARIANTS NoFalseAlarm GoSound TnExclusive FlAllFound FlListSound
PROPERTY ImplementsStack
