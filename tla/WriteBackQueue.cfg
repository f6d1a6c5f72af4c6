\* Two workers, three uploads, Submit and Stop in every interleaving.
CONSTANTS
  w1 = w1
  w2 = w2
  u1 = u1
  u2 = u2
  u3 = u3
  None = None
  Worker <- MCWorker
  Upload <- MCUpload
  Routable <- MCRoutable
  QueueSize = 1
  MaxRetries = 1
SPECIFICATION Spec
INVARIANTS
  TypeOK
  HeldOnce
  BytesKept
  GiveUpJustified
  DrainLeavesOnlyLate
  StopSettles
PROPERTIES
  ImplementsPool
  AcceptedSettles
  StopCompletes
\* After Stop has returned and everything has been submitted nothing happens.
CHECK_DEADLOCK FALSE
