\* Two goroutines, requests or the sync loop, on the table and its caches.
CONSTANTS
  root = root
  d = d
  g = g
  c1 = c1
  c2 = c2
  Nil = Nil
  File <- MCFile
  Dir <- MCDir
  Root = root
  Parent <- MCParent
  Like <- MCLike
  Caller <- TwoCallers
  MaxWrites = 2
SPECIFICATION Spec
INVARIANT CacheErrorsExplained
PROPERTY CachesHeal
