\* The sync loop and a reader while the bucket changes and requests fail.
CONSTANTS
  root = root
  d = d
  g = g
  h = h
  p1 = p1
  File <- MCFile
  Dir <- MCDir
  Root = root
  Parent <- MCParent
  Like <- MCLike
  Rank <- MCRank
  Reader <- MCReader
  Loop = loop
  PageSize = 2
  MaxChanges = 2
  MaxFaults = 1
SPECIFICATION Spec
INVARIANTS
  TypeOK
  ListingComplete
  PassComplete
PROPERTY Discovered
CHECK_DEADLOCK FALSE
