------------------------------ MODULE MCDirOps ------------------------------
(***************************************************************************)
(* An instance of DirOps for TLC: directories da and db in the root that LIKE   *)
(* does not tell apart, as "x/" and "X/", with a file in each.               *)
(***************************************************************************)
EXTENDS DirOps, TLC

CONSTANTS root, da, db, fa, fb, r1, r2

MCFile    == {fa, fb}
MCDir     == {root, da, db}
MCParent  == (da :> root) @@ (db :> root) @@ (fa :> da) @@ (fb :> db)
MCLike    == [n \in MCDir |-> {da, db, fa, fb}]
MCMade    == {da}
MCEdited  == {fa}
MCPath    == {<<Nil, da>>, <<fa, Nil>>}
MCRequest == {r1, r2}

Symmetry == Permutations(MCRequest)
=============================================================================
