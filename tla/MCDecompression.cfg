SPECIFICATION FairSpec
CONSTANTS
  ArchiveOrder <- MCArchiveOrder
  Stored <- MCStored
  Requests <- MCRequests
  Outputs <- MCOutputs
  MaxSuffix <- MCMaxSuffix
  ExistsMayFail = FALSE
INVARIANTS TypeOK NoOutputLost CompleteOnSuccess
CHECK_DEADLOCK FALSE
PROPERTY
  Termination
