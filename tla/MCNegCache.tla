----------------------------- MODULE MCNegCache -----------------------------
(***************************************************************************)
(* An instance of NegCache for TLC: four names of which two share a prefix,  *)
(* a cache of three, and a clock that goes past two lifetimes.              *)
(***************************************************************************)
EXTENDS NegCache

CONSTANTS n1, n2, n3, n4

MCName   == {n1, n2, n3, n4}
MCPrefix == {{n1, n2}}
=============================================================================
