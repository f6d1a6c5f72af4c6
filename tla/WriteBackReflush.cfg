\* Flush, write, flush again, in write-back mode.
CONSTANTS
  h1 = h1
  h2 = h2
  d1 = d1
  w1 = w1
  c1 = c1
  c2 = c2
  Nil = Nil
  Key = {k1}
  Chunk <- MCChunks
  Handle <- OneHandle
  Dir = {}
  Worker <- OneWorker
  MaxOps = 2
  UseQueue = TRUE
  SoleWriter = TRUE
  Faults <- Nothing
  QueueSize = 2
  MaxRetries = 1
SPECIFICATION Spec
SYMMETRY Symmetry
INVARIANTS
  CleanMeansSaved
