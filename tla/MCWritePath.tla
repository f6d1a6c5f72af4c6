---------------------------- MODULE MCWritePath -----------------------------
(***************************************************************************)
(* Instances of WritePath for TLC.                                         *)
(***************************************************************************)
EXTENDS WritePath, TLC

CONSTANTS h1, h2, d1, w1, c1, c2

MCHandles  == {h1, h2}
OneHandle  == {h1}
MCDirs     == {d1}
OneWorker  == {w1}
Nothing    == {}
OneChunk   == {c1}
MCChunks   == {c1, c2}

(* Handles are alike, and so are chunks. *)
Symmetry == Permutations(MCHandles) \union Permutations(MCChunks)
=============================================================================
