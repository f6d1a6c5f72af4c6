----------------------------- MODULE MCCatalog ------------------------------
(***************************************************************************)
(* An instance of Catalog for TLC: a directory d and a file g in the root.    *)
(***************************************************************************)
EXTENDS Catalog, TLC

CONSTANTS root, d, g, c1, c2

MCFile   == {g}
MCDir    == {root, d}
MCParent == (d :> root) @@ (g :> root)
MCLike   == (root :> {d, g}) @@ (d :> {d})
TwoCallers == {c1, c2}
=============================================================================
