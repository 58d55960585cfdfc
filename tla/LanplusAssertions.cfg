SPECIFICATION IfSpec
CONSTANTS
  LanRetry = 2
  LanSeqs = 5
  LanInSeqs = 4
  LanMaxCalls = 6
  LanMaxFaults = 2
  LpRetry = 3
  LpSeqs = 4
  LpSuites <- LpTestSuites
  LpMaxCalls = 7
  LpMaxFaults = 2
  SolRetry = 2
  SolSeqs = 4
  SolMaxTyped = 2
  SolMaxConsole = 2
  SolMaxFaults = 1
  OiMaxCalls = 5
  OiMaxFaults = 1
INVARIANT LpAssertionsHold
\* ipmitool ends
CHECK_DEADLOCK FALSE
