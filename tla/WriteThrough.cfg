\* Write-through: two handles of a key, an unlink and another writer; requests to S3
\* and transactions of the catalog may fail.
CONSTANTS
  h1 = h1
  h2 = h2
  d1 = d1
  w1 = w1
  c1 = c1
  c2 = c2
  Nil = Nil
  Key = {k1}
  Chunk <- MCChunks
  Handle <- MCHandles
  Dir <- MCDirs
  Worker <- OneWorker
  MaxOps = 3
  UseQueue = FALSE
  SoleWriter = FALSE
  Faults = {"s3", "catalog"}
  QueueSize = 1
  MaxRetries = 1
SPECIFICATION Spec
SYMMETRY Symmetry
INVARIANTS
  TypeOK
  AckedInS3
  CleanMeansSaved
  CacheFromBucket
PROPERTIES
  RealTimeOrder
