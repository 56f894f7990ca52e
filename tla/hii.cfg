SPECIFICATION MCSpec
CONSTANTS
  MaxPkg = 48
  MaxId = 16
  Base = 40
  SIG = 39
  HDR = 4
  MAX_DEPTH = 2
  StdName <- MCStdName
  NumericRange <- MCNumericRange
  STRIDE = 8
  FfsLimit = 33
  MaxCalls <- MCMaxCalls
  Images <- MCImages
  Requests <- MCRequests
  PeImages <- MCPeImages
  NewPackages <- MCNewPackages
  MaxFile = 20
CHECK_DEADLOCK FALSE
 
PROPERTIES RefusedLeavesImage RecordsInStep AddedAsAsked ChangedAsAsked OthersKept ReimportKeepsItems ResourcesGrow
