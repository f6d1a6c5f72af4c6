\* Two requests on a small tree, with uploads and faults.
CONSTANTS
  root = root
  da = da
  db = db
  fa = fa
  fb = fb
  r1 = r1
  r2 = r2
  Nil = Nil
  File <- MCFile
  Dir <- MCDir
  Root = root
  Parent <- MCParent
  Like <- MCLike
  Path <- MCPath
  Made <- MCMade
  Edited <- MCEdited
  Request <- MCRequest
  MaxWrites = 2
  Faults = TRUE
SPECIFICATION Spec
INVARIANTS
  TypeOK
  NoFalseMissing
  VersionsKept
  RowsHaveObjects
SYMMETRY Symmetry
