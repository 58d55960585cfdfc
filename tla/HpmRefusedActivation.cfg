SPECIFICATION CmdSpec
CONSTANTS
  SelMaxEvents = 4
  SelMaxFaults = 1
  SdrRecords <- SdrTestRecords
  SdrEnd = 65535
  SdrLimits = {6,255}
  SdrMaxRaw = 2
  SdrMaxCommands = 2
  SdrMaxFaults = 1
  HpmImages <- HpmTestImages
  HpmComponents = 2
  HpmLength = 5
  HpmBuf = 3
  HpmLimits = {2,9}
  HpmInaccess = 1
  HpmPolls = 1
  HpmResize = 1
  HpmMaxFaults = 2
  FruSize = 18
  FruAreas <- FruTestAreas
  FruMulti = 8
  FruRecs <- FruTestRecs
  FruHdr = 2
  FruChunk = 6
  FruRq = 5
  FruRqWords = 4
  FruRqMin = 2
  FruWr = 4
  FruLens = {3, 6}
  FruHeap = 2
  FruDevices <- FruTestDevices
  FruMaxFaults = 1
  FwTotal = 5
  FwBuffer = 3
  FwPage = 4
  FwSeqs = 4
  FwLimits = {2, 9}
  FwNoResponse = 2
  FwRetry = 1
  FwModulus = 7
  FwMaxFaults = 3
  SnSensors <- SnTestSensors
  SnRange = 16
  SnRaws = {0, 9, 15}
  SnAsked <- SnTestAsked
  SnMaxChanges = 1
  SnMaxFaults = 1
  CfCommands <- CfTestCommands
  CfLockRetry = 1
  CfRetry = 1
  CfMaxFaults = 1
  TbSlots = 3
  TbOem = 2
  TbMaxChanges = 2
  TbMaxFaults = 2
INVARIANT HpmReportTrue
CHECK_DEADLOCK FALSE
