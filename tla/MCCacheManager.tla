--------------------------- MODULE MCCacheManager ---------------------------
(***************************************************************************)
(* Instances of CacheManager for TLC: two keys with contents of four and six *)
(* bytes.  A cache of six has its high-water mark at five and its target at   *)
(* four: a large file alone is over it, and two files take two rounds when a  *)
(* round sees one entry.                                                    *)
(***************************************************************************)
EXTENDS CacheManager

CONSTANTS k1, k2, small, large, p1, p2, tick

MCKeys == {k1, k2}
MCContent == {small, large}
MCSize == [c \in MCContent |-> IF c = small THEN 4 ELSE 6]
TwoCallers == {p1, p2}
=============================================================================
