\* A download and a flush of the same key on two handles.
CONSTANTS
  h1 = h1
  h2 = h2
  d1 = d1
  w1 = w1
  c1 = c1
  c2 = c2
  Nil = Nil
  Key = {k1}
  Chunk <- OneChunk
  Handle <- MCHandles
  Dir = {}
  Worker <- OneWorker
  MaxOps = 3
  UseQueue = FALSE
  SoleWriter = TRUE
  Faults <- Nothing
  QueueSize = 1
  MaxRetries = 1
SPECIFICATION Spec
SYMMETRY Symmetry
INVARIANTS
  CacheCurrent
