\* Two callers and the ticker's evictions in every interleaving, with faults.
CONSTANTS
  k1 = k1
  k2 = k2
  small = small
  large = large
  p1 = p1
  p2 = p2
  tick = tick
  Nil = Nil
  Key <- MCKeys
  Content <- MCContent
  Size <- MCSize
  MaxSize = 6
  BatchLimit = 1
  Caller <- TwoCallers
  Ticker = tick
  Triggered = {}
  Faults = TRUE
SPECIFICATION Spec
INVARIANTS
  TypeOK
  TagMatches
PROPERTIES
  PurgeOnlyPhantoms
  EvictionCatchesUp
