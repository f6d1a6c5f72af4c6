------------------------- MODULE CacheManagerProofs -------------------------
(***************************************************************************)
(* What m.mu does protect, for any keys, contents, callers and evictors:   *)
(* an entry describes the file beside it, and Get deletes only entries      *)
(* without a file, although evictions take no lock.  The order of access    *)
(* and the entries agree.                                                  *)
(***************************************************************************)
EXTENDS CacheManager, FiniteSetTheorems, SequenceTheorems, TLAPS

Shape ==
  /\ disk \in [Key -> Content \union {Nil}]
  /\ meta \in [Key -> Content \union {Nil}]
  /\ readers \in SUBSET Caller
  /\ pc \in [Caller -> {"idle", "exists", "purge", "touch",
                        "putMeta", "putCheck", "invMeta"}]
  /\ arg \in [Caller -> Key \union {Nil}]
  /\ new \in [Caller -> Content \union {Nil}]
  /\ torn \in SUBSET Key

(* Who is inside an operation holds the lock it takes, and a writer is alone. *)
Locking ==
  /\ writer # Nil => readers = {}
  /\ \A p \in Caller :
       /\ pc[p] \in {"putMeta", "putCheck", "invMeta"} => writer = p
       /\ pc[p] \in {"exists", "purge", "touch"} => p \in readers
       /\ pc[p] # "idle" => arg[p] \in Key

(* Between its two writes a Put's file is its own, unless it was evicted. *)
PutHalfway ==
  \A p \in Caller :
    pc[p] = "putMeta" =>
      /\ arg[p] \in torn
      /\ new[p] \in Content
      /\ disk[arg[p]] \in {new[p], Nil}

(* No file appears under a Get that found none. *)
PurgeReady ==
  \A p \in Caller : pc[p] = "purge" => disk[arg[p]] = Nil

CInv == Shape /\ Locking /\ PutHalfway /\ PurgeReady /\ TagMatches

LEMMA CInit == Init => CInv
BY DEF Init, CInv, Shape, Locking, PutHalfway, PurgeReady, TagMatches

LEMMA CStep == CInv /\ [Next]_vars => CInv'
<1> SUFFICES ASSUME CInv, [Next]_vars
             PROVE  CInv'
  OBVIOUS
<1> USE NilAssumption DEF CInv, Shape
<1>1. ASSUME NEW p \in Caller, NEW k \in Key, GetEntry(p, k)
      PROVE  CInv'
  BY <1>1 DEF GetEntry, MayRead, Go, evictorVars,
     Locking, PutHalfway, PurgeReady, TagMatches
<1>2. ASSUME NEW p \in Caller, GetFound(p)
      PROVE  CInv'
  BY <1>2 DEF GetFound, Go, Return, RUnlock, evictorVars,
     Locking, PutHalfway, PurgeReady, TagMatches
<1>3. ASSUME NEW p \in Caller, GetMissing(p)
      PROVE  CInv'
  BY <1>3 DEF GetMissing, Go, evictorVars,
     Locking, PutHalfway, PurgeReady, TagMatches
<1>4. ASSUME NEW p \in Caller, GetPurge(p)
      PROVE  CInv'
  <2>1. Shape'
    BY <1>4 DEF GetPurge, MetaDelete, Go, Return, RUnlock, evictorVars, Locking, PutHalfway
  <2>2. Locking'
    BY <1>4 DEF GetPurge, MetaDelete, Go, Return, RUnlock, evictorVars, Locking
  <2>3. PutHalfway'
    BY <1>4 DEF GetPurge, MetaDelete, Go, Return, RUnlock, evictorVars, PutHalfway, Locking
  <2>4. PurgeReady'
    BY <1>4 DEF GetPurge, MetaDelete, Go, Return, RUnlock, evictorVars, PurgeReady, Locking
  <2>5. TagMatches'
    BY <1>4 DEF GetPurge, MetaDelete, Go, Return, RUnlock, evictorVars, TagMatches,
        PutHalfway, Locking
  <2> QED
    BY <2>1, <2>2, <2>3, <2>4, <2>5
<1>5. ASSUME NEW p \in Caller, GetTouch(p)
      PROVE  CInv'
  BY <1>5 DEF GetTouch, MetaTouch, Go, Return, RUnlock, evictorVars,
     Locking, PutHalfway, PurgeReady, TagMatches
<1>6. ASSUME NEW k \in Key, Touch(k)
      PROVE  CInv'
  BY <1>6 DEF Touch, MetaTouch, callerVars, evictorVars,
     Locking, PutHalfway, PurgeReady, TagMatches
<1>7. ASSUME NEW p \in Caller, NEW k \in Key, NEW c \in Content, PutFile(p, k, c)
      PROVE  CInv'
  <2>1. Shape'
    BY <1>7 DEF PutFile, MayWrite, Go, evictorVars, Locking, PutHalfway
  <2>2. Locking'
    BY <1>7 DEF PutFile, MayWrite, Go, evictorVars, Locking
  <2>3. PutHalfway'
    BY <1>7 DEF PutFile, MayWrite, Go, evictorVars, PutHalfway, Locking
  <2>4. PurgeReady'
    BY <1>7 DEF PutFile, MayWrite, Go, evictorVars, PurgeReady, Locking
  <2>5. TagMatches'
    BY <1>7 DEF PutFile, MayWrite, Go, evictorVars, TagMatches, PutHalfway, Locking
  <2> QED
    BY <2>1, <2>2, <2>3, <2>4, <2>5
<1>8. ASSUME NEW p \in Caller, PutMeta(p)
      PROVE  CInv'
  <2>1. Shape'
    BY <1>8 DEF PutMeta, MetaPut, Go, evictorVars, Locking, PutHalfway
  <2>2. Locking'
    BY <1>8 DEF PutMeta, MetaPut, Go, evictorVars, Locking
  <2>3. PutHalfway'
    BY <1>8 DEF PutMeta, MetaPut, Go, evictorVars, PutHalfway, Locking
  <2>4. PurgeReady'
    BY <1>8 DEF PutMeta, MetaPut, Go, evictorVars, PurgeReady, Locking
  <2>5. TagMatches'
    BY <1>8 DEF PutMeta, MetaPut, Go, evictorVars, TagMatches, PutHalfway, Locking
  <2> QED
    BY <2>1, <2>2, <2>3, <2>4, <2>5
<1>9. ASSUME NEW p \in Caller, PutMetaFails(p)
      PROVE  CInv'
  BY <1>9 DEF PutMetaFails, Go, Return, Unlock, evictorVars,
     Locking, PutHalfway, PurgeReady, TagMatches
<1>10. ASSUME NEW p \in Caller, PutCheck(p)
      PROVE  CInv'
  BY <1>10 DEF PutCheck, Go, Return, Unlock,
     Locking, PutHalfway, PurgeReady, TagMatches
<1>11. ASSUME NEW p \in Caller, NEW k \in Key, InvalidateFile(p, k)
      PROVE  CInv'
  <2>1. Shape'
    BY <1>11 DEF InvalidateFile, MayWrite, Go, evictorVars, Locking, PutHalfway
  <2>2. Locking'
    BY <1>11 DEF InvalidateFile, MayWrite, Go, evictorVars, Locking
  <2>3. PutHalfway'
    BY <1>11 DEF InvalidateFile, MayWrite, Go, evictorVars, PutHalfway, Locking
  <2>4. PurgeReady'
    BY <1>11 DEF InvalidateFile, MayWrite, Go, evictorVars, PurgeReady, Locking
  <2>5. TagMatches'
    BY <1>11 DEF InvalidateFile, MayWrite, Go, evictorVars, TagMatches, PutHalfway, Locking
  <2> QED
    BY <2>1, <2>2, <2>3, <2>4, <2>5
<1>12. ASSUME NEW p \in Caller, InvalidateMeta(p)
      PROVE  CInv'
  <2>1. Shape'
    BY <1>12 DEF InvalidateMeta, MetaDelete, Go, Return, Unlock, evictorVars, Locking,
        PutHalfway
  <2>2. Locking'
    BY <1>12 DEF InvalidateMeta, MetaDelete, Go, Return, Unlock, evictorVars, Locking
  <2>3. PutHalfway'
    BY <1>12 DEF InvalidateMeta, MetaDelete, Go, Return, Unlock, evictorVars,
        PutHalfway, Locking
  <2>4. PurgeReady'
    BY <1>12 DEF InvalidateMeta, MetaDelete, Go, Return, Unlock, evictorVars,
        PurgeReady, Locking
  <2>5. TagMatches'
    BY <1>12 DEF InvalidateMeta, MetaDelete, Go, Return, Unlock, evictorVars,
        TagMatches, PutHalfway, Locking
  <2> QED
    BY <2>1, <2>2, <2>3, <2>4, <2>5
<1>13. ASSUME NEW p \in Caller, InvalidateMetaFails(p)
      PROVE  CInv'
  BY <1>13 DEF InvalidateMetaFails, Go, Return, Unlock, evictorVars,
     Locking, PutHalfway, PurgeReady, TagMatches
<1>14. CASE Tick
  BY <1>14 DEF Tick, EGo, callerVars,
     Locking, PutHalfway, PurgeReady, TagMatches
<1>15. ASSUME NEW e \in Evictor, EvictTotal(e)
      PROVE  CInv'
  BY <1>15 DEF EvictTotal, EGo, callerVars,
     Locking, PutHalfway, PurgeReady, TagMatches
<1>16. ASSUME NEW e \in Evictor, EvictList(e)
      PROVE  CInv'
  BY <1>16 DEF EvictList, EGo, callerVars,
     Locking, PutHalfway, PurgeReady, TagMatches
<1>17. ASSUME NEW e \in Evictor, EvictEnd(e)
      PROVE  CInv'
  BY <1>17 DEF EvictEnd, EGo, callerVars,
     Locking, PutHalfway, PurgeReady, TagMatches
<1>18. ASSUME NEW e \in Evictor, EvictSkip(e)
      PROVE  CInv'
  BY <1>18 DEF EvictSkip, EGo, callerVars,
     Locking, PutHalfway, PurgeReady, TagMatches
<1>19. ASSUME NEW e \in Evictor, EvictFile(e)
      PROVE  CInv'
  BY <1>19 DEF EvictFile, EGo, callerVars,
     Locking, PutHalfway, PurgeReady, TagMatches
<1>20. ASSUME NEW e \in Evictor, EvictRow(e)
      PROVE  CInv'
  BY <1>20 DEF EvictRow, MetaDelete, EGo, callerVars,
     Locking, PutHalfway, PurgeReady, TagMatches
<1>21. ASSUME NEW e \in Evictor, EvictRowFails(e)
      PROVE  CInv'
  BY <1>21 DEF EvictRowFails, EGo, callerVars,
     Locking, PutHalfway, PurgeReady, TagMatches
<1>22. CASE StopEvictor
  BY <1>22 DEF StopEvictor, callerVars, evictorVars,
     Locking, PutHalfway, PurgeReady, TagMatches
<1>23. CASE Crash
  BY <1>23 DEF Crash,
     Locking, PutHalfway, PurgeReady, TagMatches
<1>24. CASE UNCHANGED vars
  BY <1>24 DEF vars, callerVars, evictorVars,
     Locking, PutHalfway, PurgeReady, TagMatches
<1> QED
  BY <1>1, <1>2, <1>3, <1>4, <1>5, <1>6, <1>7, <1>8, <1>9, <1>10, <1>11,
     <1>12, <1>13, <1>14, <1>15, <1>16, <1>17, <1>18, <1>19, <1>20, <1>21,
     <1>22, <1>23, <1>24
     DEF Next, CallerStart, CallerStep, EvictStep

(* An entry's ETag and size are those of the file beside it, except after a  *)
(* Put whose metadata transaction failed or was cut off.                     *)
THEOREM TagMatchesHolds == Spec => []TagMatches
<1>1. CInv => TagMatches
  BY DEF CInv
<1> QED
  BY <1>1, CInit, CStep, PTL DEF Spec

(* Get never deletes the entry of a file that is there. *)
THEOREM PurgeOnlyPhantomsHolds == Spec => PurgeOnlyPhantoms
<1>1. CInv /\ [Next]_vars => [\A p \in Caller : GetPurge(p) => disk[arg[p]] = Nil]_vars
  BY DEF CInv, PurgeReady, GetPurge
<1> QED
  BY <1>1, CInit, CStep, PTL DEF Spec, PurgeOnlyPhantoms

-----------------------------------------------------------------------------
(* The order of access.                                                    *)

(* Without an element it lists once, a list keeps the others once each. *)
LEMMA DroppedKey ==
  ASSUME NEW S, NEW s \in Seq(S), IsInjective(s), NEW k
  PROVE  /\ RemoveFirst(s, k) \in Seq(S)
         /\ IsInjective(RemoveFirst(s, k))
         /\ ToSet(RemoveFirst(s, k)) = ToSet(s) \ {k}
<1>1. CASE \A i \in 1..Len(s) : s[i] # k
  <2>1. RemoveFirst(s, k) = s
    BY <1>1 DEF RemoveFirst
  <2>2. DOMAIN s = 1..Len(s)
    OBVIOUS
  <2>3. k \notin ToSet(s)
    BY <1>1, <2>2 DEF ToSet
  <2> QED
    BY <2>1, <2>3
<1>2. CASE \E i \in 1..Len(s) : s[i] = k
  <2>1. PICK j \in 1..Len(s) : s[j] = k
    BY <1>2
  <2>2. {i \in 1..Len(s) : s[i] = k} = {j}
    BY <2>1 DEF IsInjective
  <2>3. Min({i \in 1..Len(s) : s[i] = k}) = j
    <3>1. \A x \in {j} : (\A y \in {j} : x =< y) <=> x = j
      BY <2>1
    <3> QED
      BY <2>2, <3>1 DEF Min
  <2>4. SelectInSeq(s, LAMBDA v : v = k) = j
    BY <2>2, <2>3 DEF SelectInSeq
  <2>5. RemoveFirst(s, k) = SubSeq(s, 1, j - 1) \o SubSeq(s, j + 1, Len(s))
    BY <1>2, <2>4 DEF RemoveFirst, RemoveAt
  <2> DEFINE t == RemoveFirst(s, k)
  <2>6. /\ t \in Seq(S)
        /\ Len(t) = Len(s) - 1
        /\ \A i \in 1..Len(t) : t[i] = IF i < j THEN s[i] ELSE s[i + 1]
    <3> DEFINE a == SubSeq(s, 1, j - 1)
               b == SubSeq(s, j + 1, Len(s))
    <3>1. a \in Seq(S) /\ Len(a) = j - 1 /\ \A i \in 1..(j - 1) : a[i] = s[i]
      BY <2>1
    <3>2. /\ b \in Seq(S)
          /\ Len(b) = Len(s) - j
          /\ \A i \in 1..(Len(s) - j) : b[i] = s[i + j]
      BY <2>1
    <3>3. t = a \o b
      BY <2>5
    <3> HIDE DEF a, b, t
    <3>4. /\ t \in Seq(S)
          /\ Len(t) = Len(a) + Len(b)
          /\ \A i \in 1..Len(t) : t[i] = IF i <= Len(a) THEN a[i] ELSE b[i - Len(a)]
      <4>1. Len(t) = Len(a) + Len(b) /\ t \in Seq(S)
        BY <3>1, <3>2, <3>3, ConcatProperties
      <4>2. \A i \in 1..Len(a) + Len(b) : t[i] = IF i <= Len(a) THEN a[i] ELSE b[i - Len(a)]
        BY <3>1, <3>2, <3>3, ConcatProperties
      <4> QED
        BY <4>1, <4>2
    <3>5. Len(t) = Len(s) - 1
      BY <3>1, <3>2, <3>4, <2>1
    <3>6. ASSUME NEW i \in 1..Len(t)
          PROVE  t[i] = IF i < j THEN s[i] ELSE s[i + 1]
      <4>1. CASE i < j
        <5>1. i \in 1..(j - 1) /\ i <= Len(a)
          BY <4>1, <3>1, <2>1
        <5> QED
          BY <5>1, <4>1, <3>1, <3>4
      <4>2. CASE i >= j
        <5>1. i - (j - 1) \in 1..(Len(s) - j) /\ ~(i <= Len(a)) /\ i - (j - 1) + j = i + 1
          BY <4>2, <3>1, <3>5, <2>1
        <5>2. b[i - (j - 1)] = s[i - (j - 1) + j]
          BY <5>1, <3>2
        <5> QED
          BY <5>1, <5>2, <4>2, <3>1, <3>4, <2>1
      <4> QED
        BY <4>1, <4>2, <3>5, <2>1
    <3> QED
      BY <3>4, <3>5, <3>6
  <2> HIDE DEF t
  <2>dom. /\ DOMAIN s = 1..Len(s)
        /\ DOMAIN t = 1..Len(t)
        /\ Len(s) \in Nat
    BY <2>6
  <2>inj. \A i, m \in 1..Len(s) : s[i] = s[m] => i = m
    BY <2>dom DEF IsInjective
  <2>7. IsInjective(t)
    <3> SUFFICES ASSUME NEW i \in 1..Len(t), NEW m \in 1..Len(t), t[i] = t[m]
                 PROVE  i = m
      BY <2>dom DEF IsInjective
    <3>1. /\ i \in 1..Len(s) /\ i + 1 \in 1..Len(s)
          /\ m \in 1..Len(s) /\ m + 1 \in 1..Len(s)
      BY <2>dom, <2>6
    <3>2. /\ t[i] = IF i < j THEN s[i] ELSE s[i + 1]
          /\ t[m] = IF m < j THEN s[m] ELSE s[m + 1]
      BY <2>6
    <3>3. CASE i < j /\ m < j
      BY <3>1, <3>2, <3>3, <2>inj
    <3>4. CASE ~(i < j) /\ ~(m < j)
      <4>1. s[i + 1] = s[m + 1]
        BY <3>2, <3>4
      <4>2. i + 1 = m + 1
        BY <4>1, <3>1, <2>inj
      <4> QED
        BY <4>2
    <3>5. CASE i < j /\ ~(m < j)
      <4>1. s[i] = s[m + 1]
        BY <3>2, <3>5
      <4>2. i = m + 1
        BY <4>1, <3>1, <2>inj
      <4> QED
        BY <4>2, <3>5, <2>1
    <3>6. CASE ~(i < j) /\ m < j
      <4>1. s[i + 1] = s[m]
        BY <3>2, <3>6
      <4>2. i + 1 = m
        BY <4>1, <3>1, <2>inj
      <4> QED
        BY <4>2, <3>6, <2>1
    <3> QED
      BY <3>1, <3>3, <3>4, <3>5, <3>6, <2>1
  <2>8. ASSUME NEW x \in ToSet(s), x # k
        PROVE  x \in ToSet(t)
    <3>1. PICK i \in 1..Len(s) : s[i] = x
      BY <2>8 DEF ToSet
    <3>2. CASE i < j
      BY <3>1, <3>2, <2>1, <2>6 DEF ToSet
    <3>3. CASE i > j
      <4>1. i - 1 \in 1..Len(t) /\ t[i - 1] = s[i]
        BY <3>1, <3>3, <2>1, <2>6
      <4> QED
        BY <4>1, <3>1, <2>6 DEF ToSet
    <3> QED
      BY <3>1, <3>2, <3>3, <2>1, <2>8
  <2>9. ASSUME NEW x \in ToSet(t)
        PROVE  x \in ToSet(s) /\ x # k
    <3>1. PICK i \in 1..Len(t) : t[i] = x
      BY <2>9, <2>6 DEF ToSet
    <3>2. CASE i < j
      BY <3>1, <3>2, <2>dom, <2>inj, <2>1, <2>6 DEF ToSet
    <3>3. CASE i >= j
      <4>1. i + 1 \in 1..Len(s) /\ t[i] = s[i + 1] /\ i + 1 # j
        BY <3>1, <3>3, <2>1, <2>6
      <4> QED
        BY <4>1, <3>1, <2>dom, <2>inj, <2>1 DEF ToSet
    <3> QED
      BY <3>1, <3>2, <3>3, <2>1, <2>6
  <2> QED
    BY <2>6, <2>7, <2>8, <2>9 DEF t
<1> QED
  BY <1>1, <1>2

(* A key that was not listed is, once appended, listed once. *)
LEMMA AppendedKey ==
  ASSUME NEW S, NEW s \in Seq(S), IsInjective(s), NEW k \in S, k \notin ToSet(s)
  PROVE  /\ Append(s, k) \in Seq(S)
         /\ IsInjective(Append(s, k))
         /\ ToSet(Append(s, k)) = ToSet(s) \union {k}
<1> DEFINE t == Append(s, k)
<1>1. /\ t \in Seq(S)
      /\ Len(t) = Len(s) + 1
      /\ t[Len(s) + 1] = k
      /\ \A i \in 1..Len(s) : t[i] = s[i]
  OBVIOUS
<1> HIDE DEF t
<1>2. \A i \in 1..Len(s) : s[i] # k
  BY DEF ToSet
<1>3. IsInjective(t)
  BY <1>1, <1>2 DEF IsInjective
<1>4. ASSUME NEW x \in ToSet(s) \union {k}
      PROVE  x \in ToSet(t)
  BY <1>1 DEF ToSet
<1>5. ASSUME NEW x \in ToSet(t)
      PROVE  x \in ToSet(s) \union {k}
  BY <1>1 DEF ToSet
<1> QED
  BY <1>1, <1>3, <1>4, <1>5 DEF t

Entries ==
  /\ meta \in [Key -> Content \union {Nil}]
  /\ lru \in Seq(Key) /\ IsInjective(lru) /\ ToSet(lru) = Listed

LEMMA PutOrders ==
  ASSUME Entries, NEW k \in Key, NEW c \in Content, MetaPut(k, c)
  PROVE  Entries'
<1>1. /\ RemoveFirst(lru, k) \in Seq(Key)
      /\ IsInjective(RemoveFirst(lru, k))
      /\ ToSet(RemoveFirst(lru, k)) = Listed \ {k}
  BY DroppedKey DEF Entries
<1>2. /\ lru' \in Seq(Key)
      /\ IsInjective(lru')
      /\ ToSet(lru') = Listed \union {k}
  BY <1>1, AppendedKey DEF MetaPut
<1>3. meta' \in [Key -> Content \union {Nil}] /\ Listed' = Listed \union {k}
  BY NilAssumption DEF MetaPut, Entries, Listed
<1> QED
  BY <1>2, <1>3 DEF Entries

LEMMA DeleteOrders ==
  ASSUME Entries, NEW k \in Key, MetaDelete(k)
  PROVE  Entries'
<1>1. /\ lru' \in Seq(Key)
      /\ IsInjective(lru')
      /\ ToSet(lru') = Listed \ {k}
  BY DroppedKey DEF Entries, MetaDelete
<1>2. meta' \in [Key -> Content \union {Nil}] /\ Listed' = Listed \ {k}
  BY DEF MetaDelete, Entries, Listed
<1> QED
  BY <1>1, <1>2 DEF Entries

LEMMA TouchOrders ==
  ASSUME Entries, NEW k \in Key, MetaTouch(k)
  PROVE  Entries'
<1>1. CASE meta[k] = Nil
  BY <1>1 DEF MetaTouch, Entries, Listed
<1>2. CASE meta[k] # Nil
  <2>1. /\ RemoveFirst(lru, k) \in Seq(Key)
        /\ IsInjective(RemoveFirst(lru, k))
        /\ ToSet(RemoveFirst(lru, k)) = Listed \ {k}
    BY DroppedKey DEF Entries
  <2>2. /\ lru' \in Seq(Key)
        /\ IsInjective(lru')
        /\ ToSet(lru') = Listed \union {k}
    BY <1>2, <2>1, AppendedKey DEF MetaTouch
  <2>3. meta' = meta /\ Listed' = Listed /\ k \in Listed
    BY <1>2 DEF MetaTouch, Listed
  <2> QED
    BY <2>2, <2>3 DEF Entries
<1> QED
  BY <1>1, <1>2

(* The entries are finitely many and their sizes add up to a number. *)
LEMMA TotalIsNumber ==
  ASSUME Entries
  PROVE  TotalSize \in Nat
<1>1. IsFiniteSet(Listed)
  <2>1. lru \in Surjection(1..Len(lru), Listed)
    BY DEF Entries, Surjection, ToSet
  <2>2. IsFiniteSet(1..Len(lru))
    BY FS_Interval DEF Entries
  <2> QED
    BY <2>1, <2>2, FS_Surjection
<1>2. ASSUME NEW k \in Listed
      PROVE  IsFiniteSet(BytesOf(k))
  <2>1. Size[meta[k]] \in Nat
    BY SizeAssumption DEF Entries, Listed
  <2>2. IsFiniteSet(1..Size[meta[k]])
    BY <2>1, FS_Interval
  <2>3. IsFiniteSet({k})
    BY FS_Singleton
  <2> QED
    BY <2>2, <2>3, FS_Product DEF BytesOf
<1> DEFINE T == {BytesOf(k) : k \in Listed}
<1>3. IsFiniteSet(T)
  <2> DEFINE f == [k \in Listed |-> BytesOf(k)]
  <2>1. f \in Surjection(Listed, T)
    BY DEF Surjection
  <2> QED
    BY <1>1, <2>1, FS_Surjection
<1>4. \A U \in T : IsFiniteSet(U)
  BY <1>2
<1>5. IsFiniteSet(UNION T)
  <2> HIDE DEF T
  <2> QED
    BY <1>3, <1>4, FS_UNION
<1> QED
  BY <1>5, FS_CardinalityType DEF TotalSize

(* What a round's list of entries may be. *)
Batch == Seq([key : Key, size : Nat])

LEMMA BatchFacts ==
  /\ <<>> \in Batch
  /\ \A b \in Batch :
       b # <<>> => /\ Head(b).key \in Key
                   /\ Head(b).size \in Nat
                   /\ Tail(b) \in Batch
<1>1. <<>> \in Batch
  BY DEF Batch
<1>2. ASSUME NEW b \in Batch, b # <<>>
      PROVE  Head(b) \in [key : Key, size : Nat] /\ Tail(b) \in Batch
  BY <1>2, HeadTailProperties DEF Batch
<1> QED
  BY <1>1, <1>2

(* The rest of the types. *)
Processes ==
  /\ disk \in [Key -> Content \union {Nil}]
  /\ writer \in Caller \union {Nil}
  /\ readers \in SUBSET Caller
  /\ pc \in [Caller -> {"idle", "exists", "purge", "touch",
                        "putMeta", "putCheck", "invMeta"}]
  /\ arg \in [Caller -> Key \union {Nil}]
  /\ new \in [Caller -> Content \union {Nil}]
  /\ epc \in [Evictor -> {"idle", "total", "list", "file", "row"}]
  /\ total \in [Evictor -> Int]
  /\ batch \in [Evictor -> Batch]
  /\ stopped \in BOOLEAN
  /\ torn \in SUBSET Key

(* An evictor about to delete an entry has one in its batch, whose head      *)
(* EvictRow takes.                                                           *)
Working == \A e \in Evictor : epc[e] = "row" => batch[e] # <<>>

TInv == Entries /\ Processes /\ Working

(* A round's snapshot lists entries of the metadata with their sizes. *)
LEMMA SnapshotType ==
  ASSUME Entries,
         NEW n \in Nat, n <= Len(lru)
  PROVE  [i \in 1..n |-> [key |-> lru[i], size |-> Size[meta[lru[i]]]]]
           \in Batch
<1>1. ASSUME NEW i \in 1..n
      PROVE  [key |-> lru[i], size |-> Size[meta[lru[i]]]] \in [key : Key, size : Nat]
  <2>1. lru[i] \in Key /\ lru[i] \in ToSet(lru)
    BY DEF Entries, ToSet
  <2>2. meta[lru[i]] \in Content
    BY <2>1 DEF Entries, Listed
  <2> QED
    BY <2>1, <2>2, SizeAssumption
<1> QED
  BY <1>1 DEF Batch

LEMMA TInit == Init => TInv
<1> SUFFICES ASSUME Init
             PROVE  TInv
  OBVIOUS
<1>1. Entries
  <2>1. lru = <<>> /\ Listed = {} /\ meta \in [Key -> Content \union {Nil}]
    BY DEF Init, Listed
  <2> QED
    BY <2>1 DEF Entries, IsInjective, ToSet
<1>2. Processes
  <2>1. batch \in [Evictor -> Batch]
    BY BatchFacts, Zenon DEF Init
  <2>2. /\ disk \in [Key -> Content \union {Nil}]
        /\ writer \in Caller \union {Nil}
        /\ readers \in SUBSET Caller
        /\ arg \in [Caller -> Key \union {Nil}]
        /\ new \in [Caller -> Content \union {Nil}]
        /\ stopped \in BOOLEAN
        /\ torn \in SUBSET Key
    BY DEF Init
  <2>3. pc \in [Caller -> {"idle", "exists", "purge", "touch",
                          "putMeta", "putCheck", "invMeta"}]
    BY DEF Init
  <2>4. epc \in [Evictor -> {"idle", "total", "list", "file", "row"}]
    BY DEF Init
  <2>5. total \in [Evictor -> Int]
    BY DEF Init
  <2> QED
    BY <2>1, <2>2, <2>3, <2>4, <2>5 DEF Processes
<1>3. Working
  BY DEF Init, Working
<1> QED
  BY <1>1, <1>2, <1>3 DEF TInv

LEMMA TStep == TInv /\ CInv /\ [Next]_vars => TInv'
<1> SUFFICES ASSUME TInv, CInv, [Next]_vars
             PROVE  TInv'
  OBVIOUS
<1> USE DEF TInv
<1>0. Batch' = Batch
  BY DEF Batch
<1>1. ASSUME NEW p \in Caller, NEW k \in Key, GetEntry(p, k)
      PROVE  TInv'
  <2>1. Entries'
    BY <1>1 DEF Entries, Listed, GetEntry
  <2>2. Processes'
    BY <1>1 DEF Processes, GetEntry, Go, evictorVars
  <2>3. Working'
    BY <1>1 DEF Working, Processes, GetEntry, EGo, callerVars, evictorVars, vars
  <2> QED
    BY <2>1, <2>2, <2>3
<1>2. ASSUME NEW p \in Caller, GetFound(p)
      PROVE  TInv'
  <2>1. Entries'
    BY <1>2 DEF Entries, Listed, GetFound
  <2>2. Processes'
    <3>1. CASE Go(p, "touch") /\ UNCHANGED <<readers, writer, arg, new>>
      BY <1>2, <3>1 DEF Processes, GetFound, Go, evictorVars
    <3>2. CASE Return(p) /\ RUnlock(p)
      BY <1>2, <3>2 DEF Processes, GetFound, Go, Return, RUnlock, evictorVars
    <3> QED
      BY <1>2, <3>1, <3>2 DEF GetFound
  <2>3. Working'
    BY <1>2 DEF Working, Processes, GetFound, EGo, callerVars, evictorVars, vars
  <2> QED
    BY <2>1, <2>2, <2>3
<1>3. ASSUME NEW p \in Caller, GetMissing(p)
      PROVE  TInv'
  <2>1. Entries'
    BY <1>3 DEF Entries, Listed, GetMissing
  <2>2. Processes'
    BY <1>3 DEF Processes, GetMissing, Go, evictorVars
  <2>3. Working'
    BY <1>3 DEF Working, Processes, GetMissing, EGo, callerVars, evictorVars, vars
  <2> QED
    BY <2>1, <2>2, <2>3
<1>4. ASSUME NEW p \in Caller, GetPurge(p)
      PROVE  TInv'
  <2>1. Entries'
    <3>1. arg[p] \in Key
      BY <1>4 DEF CInv, Locking, GetPurge
    <3>2. CASE MetaDelete(arg[p])
      BY <3>1, <3>2, DeleteOrders
    <3>3. CASE UNCHANGED <<meta, lru>>
      BY <3>3 DEF Entries, Listed
    <3> QED
      BY <1>4, <3>2, <3>3 DEF GetPurge
  <2>2. Processes'
    BY <1>4 DEF Processes, GetPurge, Go, Return, RUnlock, evictorVars
  <2>3. Working'
    BY <1>4 DEF Working, Processes, GetPurge, EGo, callerVars, evictorVars, vars
  <2> QED
    BY <2>1, <2>2, <2>3
<1>5. ASSUME NEW p \in Caller, GetTouch(p)
      PROVE  TInv'
  <2>1. Entries'
    <3>1. arg[p] \in Key
      BY <1>5 DEF CInv, Locking, GetTouch
    <3>2. CASE MetaTouch(arg[p])
      BY <3>1, <3>2, TouchOrders
    <3>3. CASE UNCHANGED <<meta, lru>>
      BY <3>3 DEF Entries, Listed
    <3> QED
      BY <1>5, <3>2, <3>3 DEF GetTouch
  <2>2. Processes'
    BY <1>5 DEF Processes, GetTouch, Go, Return, RUnlock, evictorVars
  <2>3. Working'
    BY <1>5 DEF Working, Processes, GetTouch, EGo, callerVars, evictorVars, vars
  <2> QED
    BY <2>1, <2>2, <2>3
<1>6. ASSUME NEW k \in Key, Touch(k)
      PROVE  TInv'
  <2>1. Entries'
    BY <1>6, TouchOrders DEF Touch
  <2>2. Processes'
    BY <1>6 DEF Processes, Touch, callerVars, evictorVars
  <2>3. Working'
    BY <1>6 DEF Working, Processes, Touch, EGo, callerVars, evictorVars, vars
  <2> QED
    BY <2>1, <2>2, <2>3
<1>7. ASSUME NEW p \in Caller, NEW k \in Key, NEW c \in Content, PutFile(p, k, c)
      PROVE  TInv'
  <2>1. Entries'
    BY <1>7 DEF Entries, Listed, PutFile
  <2>2. Processes'
    BY <1>7 DEF Processes, PutFile, Go, evictorVars
  <2>3. Working'
    BY <1>7 DEF Working, Processes, PutFile, EGo, callerVars, evictorVars, vars
  <2> QED
    BY <2>1, <2>2, <2>3
<1>8. ASSUME NEW p \in Caller, PutMeta(p)
      PROVE  TInv'
  <2>1. Entries'
    <3>1. arg[p] \in Key /\ new[p] \in Content
      BY <1>8 DEF CInv, Locking, PutHalfway, PutMeta
    <3>2. MetaPut(arg[p], new[p])
      BY <1>8 DEF PutMeta
    <3> QED
      BY <3>1, <3>2, PutOrders
  <2>2. Processes'
    BY <1>8 DEF Processes, PutMeta, Go, evictorVars
  <2>3. Working'
    BY <1>8 DEF Working, Processes, PutMeta, EGo, callerVars, evictorVars, vars
  <2> QED
    BY <2>1, <2>2, <2>3
<1>9. ASSUME NEW p \in Caller, PutMetaFails(p)
      PROVE  TInv'
  <2>1. Entries'
    BY <1>9 DEF Entries, Listed, PutMetaFails
  <2>2. Processes'
    BY <1>9 DEF Processes, PutMetaFails, Go, Return, Unlock, evictorVars
  <2>3. Working'
    BY <1>9 DEF Working, Processes, PutMetaFails, EGo, callerVars, evictorVars, vars
  <2> QED
    BY <2>1, <2>2, <2>3
<1>10. ASSUME NEW p \in Caller, PutCheck(p)
       PROVE  TInv'
  <2>1. Entries'
    BY <1>10 DEF Entries, Listed, PutCheck
  <2>2. Processes'
    BY <1>10 DEF Processes, PutCheck, Go, Return, Unlock
  <2>3. Working'
    BY <1>10 DEF Working, Processes, PutCheck
  <2> QED
    BY <2>1, <2>2, <2>3
<1>11. ASSUME NEW p \in Caller, NEW k \in Key, InvalidateFile(p, k)
       PROVE  TInv'
  <2>1. Entries'
    BY <1>11 DEF Entries, Listed, InvalidateFile
  <2>2. Processes'
    BY <1>11 DEF Processes, InvalidateFile, Go, evictorVars
  <2>3. Working'
    BY <1>11 DEF Working, Processes, InvalidateFile, EGo, callerVars, evictorVars, vars
  <2> QED
    BY <2>1, <2>2, <2>3
<1>12. ASSUME NEW p \in Caller, InvalidateMeta(p)
       PROVE  TInv'
  <2>1. Entries'
    <3>1. arg[p] \in Key
      BY <1>12 DEF CInv, Locking, InvalidateMeta
    <3>2. MetaDelete(arg[p])
      BY <1>12 DEF InvalidateMeta
    <3> QED
      BY <3>1, <3>2, DeleteOrders
  <2>2. Processes'
    BY <1>12 DEF Processes, InvalidateMeta, Go, Return, Unlock, evictorVars
  <2>3. Working'
    BY <1>12 DEF Working, Processes, InvalidateMeta, EGo, callerVars, evictorVars, vars
  <2> QED
    BY <2>1, <2>2, <2>3
<1>13. ASSUME NEW p \in Caller, InvalidateMetaFails(p)
       PROVE  TInv'
  <2>1. Entries'
    BY <1>13 DEF Entries, Listed, InvalidateMetaFails
  <2>2. Processes'
    BY <1>13 DEF Processes, InvalidateMetaFails, Go, Return, Unlock, evictorVars
  <2>3. Working'
    BY <1>13 DEF Working, Processes, InvalidateMetaFails, EGo, callerVars, evictorVars, vars
  <2> QED
    BY <2>1, <2>2, <2>3
<1>14. CASE Tick
  <2>1. Entries'
    BY <1>14 DEF Entries, Listed, Tick
  <2>2. Processes'
    BY <1>14 DEF Processes, Tick, EGo, callerVars, Evictor
  <2>3. Working'
    BY <1>14 DEF Working, Processes, Tick, EGo, callerVars, evictorVars, vars
  <2> QED
    BY <2>1, <2>2, <2>3
<1>15. ASSUME NEW e \in Evictor, EvictTotal(e)
       PROVE  TInv'
  <2>1. Entries'
    BY <1>15 DEF Entries, Listed, EvictTotal
  <2>2. Processes'
    <3>1. TotalSize \in Int
      BY TotalIsNumber
    <3>2. CASE EGo(e, "idle") /\ UNCHANGED total
      BY <1>15, <3>2 DEF Processes, EvictTotal, EGo, callerVars
    <3>3. CASE EGo(e, "list") /\ total' = [total EXCEPT ![e] = TotalSize]
      BY <1>15, <3>1, <3>3 DEF Processes, EvictTotal, EGo, callerVars
    <3> QED
      BY <1>15, <3>2, <3>3 DEF EvictTotal
  <2>3. Working'
    BY <1>15 DEF Working, Processes, EvictTotal, EGo, callerVars, evictorVars, vars
  <2> QED
    BY <2>1, <2>2, <2>3
<1>16. ASSUME NEW e \in Evictor, EvictList(e)
       PROVE  TInv'
  <2>1. Entries'
    BY <1>16 DEF Entries, Listed, EvictList
  <2>2. Processes'
    <3> DEFINE n == IF Len(lru) < BatchLimit THEN Len(lru) ELSE BatchLimit
               b == [i \in 1..n |-> [key |-> lru[i], size |-> Size[meta[lru[i]]]]]
    <3>1. n \in Nat /\ n <= Len(lru)
      BY BatchLimitAssumption DEF Entries
    <3>2. batch' = [batch EXCEPT ![e] = b]
      BY <1>16 DEF EvictList
    <3> HIDE DEF n
    <3>3. b \in Batch
      BY <3>1, SnapshotType
    <3> HIDE DEF b
    <3>4. epc' = [epc EXCEPT ![e] = "file"]
      BY <1>16 DEF EvictList, EGo
    <3>5. UNCHANGED <<disk, writer, readers, pc, arg, new, total, stopped, torn>>
      BY <1>16 DEF EvictList, callerVars
    <3> QED
      BY <3>2, <3>3, <3>4, <3>5, <1>0 DEF Processes
  <2>3. Working'
    BY <1>16 DEF Working, Processes, EvictList, EGo, callerVars, evictorVars, vars
  <2> QED
    BY <2>1, <2>2, <2>3
<1>17. ASSUME NEW e \in Evictor, EvictEnd(e)
       PROVE  TInv'
  <2>1. Entries'
    BY <1>17 DEF Entries, Listed, EvictEnd
  <2>2. Processes'
    BY <1>17, <1>0, BatchFacts DEF Processes, EvictEnd, EGo, callerVars
  <2>3. Working'
    BY <1>17 DEF Working, Processes, EvictEnd, EGo, callerVars, evictorVars, vars
  <2> QED
    BY <2>1, <2>2, <2>3
<1>18. ASSUME NEW e \in Evictor, EvictSkip(e)
       PROVE  TInv'
  <2>1. Entries'
    BY <1>18 DEF Entries, Listed, EvictSkip
  <2>2. Processes'
    BY <1>18, <1>0, BatchFacts DEF Working, Processes, EvictSkip, MoreToEvict, callerVars
  <2>3. Working'
    BY <1>18 DEF Working, Processes, EvictSkip, EGo, callerVars, evictorVars, vars
  <2> QED
    BY <2>1, <2>2, <2>3
<1>19. ASSUME NEW e \in Evictor, EvictFile(e)
       PROVE  TInv'
  <2>1. Entries'
    BY <1>19 DEF Entries, Listed, EvictFile
  <2>2. Processes'
    BY <1>19 DEF Processes, EvictFile, MoreToEvict, EGo, callerVars
  <2>3. Working'
    BY <1>19 DEF Working, Processes, EvictFile, MoreToEvict, EGo, callerVars, evictorVars, vars
  <2> QED
    BY <2>1, <2>2, <2>3
<1>20. ASSUME NEW e \in Evictor, EvictRow(e)
       PROVE  TInv'
  <2>0. /\ Head(batch[e]).key \in Key
        /\ Head(batch[e]).size \in Nat
        /\ Tail(batch[e]) \in Batch
    BY <1>20, BatchFacts DEF Processes, Working, EvictRow
  <2>1. Entries'
    <3>1. Head(batch[e]).key \in Key /\ MetaDelete(Head(batch[e]).key)
      BY <1>20, <2>0 DEF EvictRow
    <3> QED
      BY <3>1, DeleteOrders
  <2>2. Processes'
    BY <1>20, <1>0, <2>0 DEF Processes, EvictRow, EGo, callerVars
  <2>3. Working'
    BY <1>20 DEF Working, Processes, EvictRow, EGo, callerVars, evictorVars, vars
  <2> QED
    BY <2>1, <2>2, <2>3
<1>21. ASSUME NEW e \in Evictor, EvictRowFails(e)
       PROVE  TInv'
  <2>1. Entries'
    BY <1>21 DEF Entries, Listed, EvictRowFails
  <2>2. Processes'
    BY <1>21, <1>0, BatchFacts DEF Working, Processes, EvictRowFails, EGo, callerVars
  <2>3. Working'
    BY <1>21 DEF Working, Processes, EvictRowFails, EGo, callerVars, evictorVars, vars
  <2> QED
    BY <2>1, <2>2, <2>3
<1>22. CASE StopEvictor
  <2>1. Entries'
    BY <1>22 DEF Entries, Listed, StopEvictor
  <2>2. Processes'
    BY <1>22 DEF Processes, StopEvictor, callerVars, evictorVars
  <2>3. Working'
    BY <1>22 DEF Working, Processes, StopEvictor, EGo, callerVars, evictorVars, vars
  <2> QED
    BY <2>1, <2>2, <2>3
<1>23. CASE Crash
  <2>1. Entries'
    BY <1>23 DEF Entries, Listed, Crash
  <2>2. Processes'
    <3>1. batch' \in [Evictor -> Batch']
      BY <1>23, <1>0, BatchFacts, Zenon DEF Crash
    <3>2. /\ pc' \in [Caller -> {"idle", "exists", "purge", "touch",
                              "putMeta", "putCheck", "invMeta"}]
          /\ epc' \in [Evictor -> {"idle", "total", "list", "file", "row"}]
      BY <1>23 DEF Crash
    <3>3. /\ arg' \in [Caller -> Key \union {Nil}]
          /\ new' \in [Caller -> Content \union {Nil}]
          /\ total' \in [Evictor -> Int]
      BY <1>23 DEF Crash
    <3> QED
      BY <1>23, <3>1, <3>2, <3>3 DEF Processes, Crash
  <2>3. Working'
    BY <1>23 DEF Working, Processes, Crash, EGo, callerVars, evictorVars, vars
  <2> QED
    BY <2>1, <2>2, <2>3
<1>24. CASE UNCHANGED vars
  <2>1. Entries'
    BY <1>24 DEF Entries, Listed, vars
  <2>2. Processes'
    BY <1>24 DEF Processes, vars, callerVars, evictorVars
  <2>3. Working'
    BY <1>24 DEF Working, Processes, EGo, callerVars, evictorVars, vars
  <2> QED
    BY <2>1, <2>2, <2>3
<1> QED
  BY <1>1, <1>2, <1>3, <1>4, <1>5, <1>6, <1>7, <1>8, <1>9, <1>10, <1>11, <1>12,
     <1>13, <1>14, <1>15, <1>16, <1>17, <1>18, <1>19, <1>20, <1>21, <1>22, <1>23, <1>24
     DEF Next, CallerStart, CallerStep, EvictStep

(* Every variable keeps its type, the order of access lists the keys with an *)
(* entry once each, and a round's total stays a number.                      *)
THEOREM Typing == Spec => []TypeOK
<1>1. TInv => TypeOK
  BY DEF TInv, Entries, Processes, TypeOK, Batch
<1> QED
  BY <1>1, TInit, CInit, TStep, CStep, PTL DEF Spec
=============================================================================
