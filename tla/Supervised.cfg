SPECIFICATION MCSpec
CONSTANTS
  GlConfigs <- MCConfigs
  GlScripts <- MCScripts
  GlPipe = 1
  GlMaxFiles = 2
  GlMaxFaults = 1
  KhResults = {0, 1, 99, 256}
  KhMaxInts = 2
INVARIANTS GlReportsTrue GlFilesRemoved KhVerdictHonest
PROPERTIES GlEnds KernelTestEnds
