\* Every interleaving of the cache's operations with the clock and the reaper.
CONSTANTS
  n1 = n1
  n2 = n2
  n3 = n3
  n4 = n4
  Name <- MCName
  Prefix <- MCPrefix
  TTL = 2
  MaxSize = 3
  MaxTime = 5
SPECIFICATION Spec
INVARIANTS
  TypeOK
  SameNames
  OldestFirst
  Truthful
PROPERTIES
  ExpiredGo
