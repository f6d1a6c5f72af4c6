\* The last step of a graceful shutdown.
CONSTANTS
  u1 = u1
  u2 = u2
  Upload <- MCUpload
  Mounts = 1
  MayBeBusy = FALSE
SPECIFICATION Spec
INVARIANTS
  CacheClosedAtEnd
\* The process ends.
CHECK_DEADLOCK FALSE
