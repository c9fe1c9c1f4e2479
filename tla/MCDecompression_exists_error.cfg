SPECIFICATION Spec
CONSTANTS
  ArchiveOrder <- MCArchiveOrder
  Stored <- MCStored
  Requests <- MCRequests
  Outputs <- MCOutputs
  MaxSuffix <- MCMaxSuffix
  ExistsMayFail = TRUE
INVARIANT NoOutputLost
CHECK_DEADLOCK FALSE
