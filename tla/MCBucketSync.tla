---------------------------- MODULE MCBucketSync ----------------------------
(***************************************************************************)
(* An instance of BucketSync for TLC: a directory d with two files, which    *)
(* takes two pages with its marker.                                         *)
(***************************************************************************)
EXTENDS BucketSync, TLC

CONSTANTS root, d, g, h, p1

MCFile   == {g, h}
MCDir    == {root, d}
MCParent == (d :> root) @@ (g :> d) @@ (h :> d)
MCLike   == (root :> {d, g, h}) @@ (d :> {d, g, h})
MCRank   == (d :> 1) @@ (g :> 2) @@ (h :> 3)
MCReader == {p1}
=============================================================================
