SPECIFICATION MCSpec
CONSTANTS
  CmGroups <- MCGroups
  CmSignals = {"FPE", "SEGV"}
  CmOutputs <- MCOutputs
  CmMaxFaults = 1
  CyOptions <- MCOptions
  CyEnvs <- MCEnvs
  CyModes = {"VERBOSE", "CONDENSE", "NOPASS", "DISCARD"}
  CyTotals = {1, 3}
  CyMaxLoops = 2
  CyMaxResults = 2
  GvMaxFiles = 4
  GvMaxTests = 2
  GvMaxCount = 3
  CoErrnos = {0, 1, 2}
  CoStrings = {"a", "b", "NULL"}
  CoSizes = {0, 1, 7, 8, 9, 16, 21}
  CoReseeds = {0, 8, 9, 12, 20}
  CoUnseeded = 100
  CoMaxChecks = 3
  ZkSuites <- MCSuites
  Cases <- MCCases
  HasCleanup = {"c2"}
  Heads <- MCHeads
  CommandLines <- MCCommandLines
  MaxFaults = 1
  MaxChecks = 1
INVARIANTS CmReportHonest CmContained CyAsAsked GvHelpersHold CoHelpersHold ZkAccounted
  FailuresContained ConfigReachesTests VerdictHonest
