CONSTANTS
  Files = {1, 2, 3, 4}
  Templates = {"A", "B", "C"}
  Vars = {"x", "y"}
  TargetSegmentSize = 3
  MIN <- MCMIN
  Attr <- MCAttr
SPECIFICATION Spec
INVARIANTS
  TypeOK
  CommittedArchiveComplete
  SealedIdsResolve
CHECK_DEADLOCK FALSE
