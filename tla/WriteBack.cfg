\* Write-back: one worker, a channel of two that overflows, a sole writer; requests
\* to S3 and operations on local files may fail.
CONSTANTS
  h1 = h1
  h2 = h2
  d1 = d1
  w1 = w1
  c1 = c1
  c2 = c2
  Nil = Nil
  Key = {k1}
  Chunk <- OneChunk
  Handle <- OneHandle
  Dir = {}
  Worker <- OneWorker
  MaxOps = 3
  UseQueue = TRUE
  SoleWriter = TRUE
  Faults = {"s3", "file"}
  QueueSize = 2
  MaxRetries = 1
SPECIFICATION Spec
INVARIANTS
  AckedSomewhere
PROPERTIES
  QueueKeepsOrder
