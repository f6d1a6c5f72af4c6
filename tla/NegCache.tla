------------------------------ MODULE NegCache ------------------------------
(***************************************************************************)
(* catalog/negcache.go: the names recently found not to exist, each with    *)
(* the time at which that knowledge expires, in a list from the oldest to   *)
(* the newest.  Every operation holds nc.mu throughout, so each is one step; *)
(* time passes between them.                                               *)
(*                                                                         *)
(* A name stands for a bucket and a key, and the map of maps is a function   *)
(* of the names held; a prefix is the set of the names that have it.         *)
(***************************************************************************)
EXTENDS Naturals, Sequences, FiniteSets

CONSTANTS
  Name,     \* buckets and keys
  Prefix,   \* sets of names
  TTL,      \* the time a name is kept
  MaxSize,  \* the number of names kept
  MaxTime   \* bound on the clock

ASSUME PrefixAssumption == Prefix \subseteq SUBSET Name
ASSUME BoundAssumption  == TTL \in Nat /\ MaxSize \in Nat \ {0} /\ MaxTime \in Nat

VARIABLES
  now,
  expires,  \* the expiry time of each name held
  lru,      \* the list, oldest first
  known     \* history: the names that were added and not removed, with the time

vars == <<now, expires, lru, known>>

Seqs == INSTANCE SequencesExt

Held == DOMAIN expires
Valid(n) == now < expires[n]

Init ==
  /\ now = 0
  /\ expires = <<>>
  /\ lru = <<>>
  /\ known = <<>>

-----------------------------------------------------------------------------

(* f without the names of S. *)
Without(f, S) == [n \in DOMAIN f \ S |-> f[n]]

(* The list s without the names of S, the others in their order. *)
Rest(s, S) ==
  LET kept   == {i \in 1..Len(s) : s[i] \notin S}
      nth(k) == CHOOSE i \in kept : Cardinality(kept \intersect 1..i) = k
  IN [k \in 1..Cardinality(kept) |-> s[nth(k)]]

(* removeLocked, of all the names of S. *)
Drop(S) ==
  /\ expires' = Without(expires, S)
  /\ lru' = Rest(lru, S)

Contains(n) ==
  /\ n \in Held
  /\ ~Valid(n)
  /\ Drop({n})
  /\ UNCHANGED <<now, known>>

(* A name that is held already moves to the back.  Then the front is removed  *)
(* until the list is no longer than MaxSize, which takes one removal.         *)

(* Mutant: a name that is held already keeps its place. *)
RefreshedInPlace(n) == IF n \in Held THEN lru ELSE Append(lru, n)

Refreshed(n) == Append(Rest(lru, {n}), n)

FitsOffByOne(s) == Len(s) <= MaxSize + 1  \* mutant

Fits(s) == Len(s) <= MaxSize

Add(n) ==
  LET list == Refreshed(n)
      out  == IF Fits(list) THEN {} ELSE {Head(list)} IN
  /\ expires' = [m \in (Held \union {n}) \ out |-> IF m = n THEN now + TTL ELSE expires[m]]
  /\ lru' = IF Fits(list) THEN list ELSE Tail(list)
  /\ known' = [m \in DOMAIN known \union {n} |-> IF m = n THEN now ELSE known[m]]
  /\ UNCHANGED now

(* Mutant: the entry leaves the list only. *)
RemoveFromList(n) ==
  /\ lru' = Rest(lru, {n})
  /\ known' = Without(known, {n})
  /\ UNCHANGED <<now, expires>>

(* Mutant: the entry is looked up in the wrong map, and stays. *)
RemoveNothing(n) ==
  /\ known' = Without(known, {n})
  /\ UNCHANGED <<now, expires, lru>>

Remove(n) ==
  /\ Drop({n})
  /\ known' = Without(known, {n})
  /\ UNCHANGED now

RemovePrefix(P) ==
  /\ Drop(P)
  /\ known' = Without(known, P)
  /\ UNCHANGED now

(* The reaper removes from the front until it meets a name that is valid. *)
Expired(k) == \A i \in 1..k : ~Valid(lru[i])

Reap ==
  \E k \in 1..Len(lru) :
    /\ Expired(k)
    /\ k < Len(lru) => Valid(lru[k + 1])
    /\ expires' = Without(expires, {lru[i] : i \in 1..k})
    /\ lru' = SubSeq(lru, k + 1, Len(lru))
    /\ UNCHANGED <<now, known>>

Tick ==
  /\ now < MaxTime
  /\ now' = now + 1
  /\ UNCHANGED <<expires, lru, known>>

-----------------------------------------------------------------------------

Next ==
  \/ \E n \in Name : Contains(n) \/ Add(n) \/ Remove(n)
  \/ \E P \in Prefix : RemovePrefix(P)
  \/ Reap
  \/ Tick

(* The reaper's ticker fires every 30 seconds. *)
Spec == Init /\ [][Next]_vars /\ WF_vars(Reap)

-----------------------------------------------------------------------------
(* Properties.                                                             *)

TypeOK ==
  /\ now \in 0..MaxTime
  /\ Held \subseteq Name
  /\ \A n \in Held : expires[n] \in 0..(MaxTime + TTL)
  /\ lru \in Seq(Name)
  /\ Len(lru) <= MaxSize

(* The map and the list hold the same names, each once: no operation forgets  *)
(* one of them (removeLocked, Add), so the size bound is the map's too.        *)
SameNames == Seqs!IsInjective(lru) /\ Seqs!ToSet(lru) = Held

(* The list is in the order in which the names expire: what makes it right    *)
(* that the reaper stops at the first valid name and that a full cache gives   *)
(* up its front.                                                             *)
OldestFirst ==
  \A i, j \in 1..Len(lru) : i < j => expires[lru[i]] <= expires[lru[j]]

(* A name is reported missing only for TTL after a lookup of it failed, and   *)
(* never after it was removed because it now exists.                         *)
Truthful ==
  \A n \in Held : Valid(n) => n \in DOMAIN known /\ now < known[n] + TTL

(* The reaper gets every expired name: none stays behind a valid one.          *)
ExpiredGo == \A n \in Name : (n \in Held /\ ~Valid(n)) ~> (n \notin Held \/ Valid(n))

=============================================================================
