----------------------------- MODULE Namespace ------------------------------
(***************************************************************************)
(* The names of a bucket as a tree, and the queries on them that the bucket  *)
(* (a delimited ListObjectsV2) and the catalog's table answer.              *)
(*                                                                         *)
(* A file is a key; a directory is a prefix, and as an object its marker     *)
(* "prefix/".  A set of objects is what a bucket holds, a set of rows what    *)
(* the table holds; the table may have a row for a directory that has no       *)
(* marker.                                                                 *)
(***************************************************************************)
CONSTANTS
  File,    \* keys of files
  Dir,     \* directories
  Root,    \* the one with the empty prefix
  Parent,  \* the directory of each name
  Like     \* the rows that "key LIKE prefix%" matches, for each directory

Name == (File \union Dir) \ {Root}

(* The directories above a name: its prefixes. *)
Above[n \in File \union Dir] ==
  IF n = Root THEN {} ELSE {Parent[n]} \union Above[Parent[n]]

(* The names that begin with a directory's prefix. *)
Under(d) == {n \in Name : n = d \/ d \in Above[n]}

(* "_" and "%" in a prefix are wildcards, and LIKE ignores case. *)
ASSUME NamespaceAssumption ==
  /\ File \intersect Dir = {}
  /\ Root \in Dir
  /\ Parent \in [Name -> Dir]
  /\ \A n \in Name : Parent[n] # n
  /\ Like \in [Dir -> SUBSET Name]
  /\ \A d \in Dir : Under(d) \subseteq Like[d]

(* ListDir of the table; HasDir asks if it is empty. *)
Children(rows, d) == {n \in rows : Parent[n] = d}

(* KnownDirs. *)
KnownDirs(rows) == rows \intersect Dir

(* The names that exist in a bucket: its files, and every prefix of an object *)
(* other than the root.                                                      *)
Existing(objects) ==
  {n \in Name : n \in objects \/ (n \in Dir /\ \E o \in objects : n \in Above[o])}

(* A listing with delimiter "/": the files of the directory and its common      *)
(* prefixes, without its own marker, which ListObjects filters out.             *)
Listing(objects, d) == Children(Existing(objects), d)
=============================================================================
