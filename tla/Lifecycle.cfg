\* Start and Stop with three mounts that may be busy.
CONSTANTS
  u1 = u1
  u2 = u2
  Upload <- MCUpload
  Mounts = 3
  MayBeBusy = TRUE
SPECIFICATION Spec
INVARIANTS
  FailedStartLeavesNothing
  SyncBeforeClose
  QueuedFlushesSettled
PROPERTIES
  StartReturns
  StopReturns
\* The process ends.
CHECK_DEADLOCK FALSE
