SPECIFICATION ToolSpec
CONSTANTS
  WuRetry = 2
  WuCommands <- WuTestCommands
  WuMaxRecords = 2
  WuMaxFaults = 2
  TsCpus = {0,1,2}
  TsTopo <- TsTestTopo
  TsMsrs = 2
  TsModulus = 4
  TsSleeps = {1,3}
  TsMaxTime = 6
  TsMaxPlugs = 3
  HogThreads = 2
  HogRounds = 2
  HogRecords = 3
  HogForks = 2
INVARIANT WuOwnAnswer
INVARIANT WuLeavesMeter
INVARIANT TsTrue
INVARIANT HogSafe
PROPERTY ToolsEnd
\* the programs end
CHECK_DEADLOCK FALSE
