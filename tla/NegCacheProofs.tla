--------------------------- MODULE NegCacheProofs ---------------------------
(***************************************************************************)
(* The negative cache, for any names, prefixes, time to live and size: the     *)
(* map and the list agree, the list is in order of expiry, and no name is      *)
(* reported missing for longer than it may be.                               *)
(***************************************************************************)
EXTENDS NegCache, FiniteSetTheorems, SequenceTheorems, TLAPS

-----------------------------------------------------------------------------
(* A list without some of its names is the rest of it, in its order. *)

(* t is s without the names of S: at[k] is where the k-th of t is in s. *)
ThinnedBy(t, s, S, at) ==
  /\ at \in [1..Len(t) -> 1..Len(s)]
  /\ \A k \in 1..Len(t) : t[k] = s[at[k]] /\ s[at[k]] \notin S
  /\ \A j, k \in 1..Len(t) : j < k => at[j] < at[k]
  /\ \A i \in 1..Len(s) : s[i] \notin S => \E k \in 1..Len(t) : at[k] = i

LEMMA RestThins ==
  ASSUME NEW s \in Seq(Name), NEW S
  PROVE  /\ Rest(s, S) \in Seq(Name) /\ Len(Rest(s, S)) <= Len(s)
         /\ \E at : ThinnedBy(Rest(s, S), s, S, at)
<1> DEFINE kept   == {i \in 1..Len(s) : s[i] \notin S}
           upto(i) == kept \intersect 1..i
           size   == Cardinality(kept)
           place  == [i \in kept |-> Cardinality(upto(i))]
           nth(k) == CHOOSE i \in kept : Cardinality(upto(i)) = k
           at     == [k \in 1..size |-> nth(k)]
           t      == [k \in 1..size |-> s[nth(k)]]
<1>1. Rest(s, S) = t
  BY DEF Rest
<1>2. Len(s) \in Nat /\ IsFiniteSet(1..Len(s)) /\ Cardinality(1..Len(s)) = Len(s)
  <2>1. Len(s) \in Nat
    OBVIOUS
  <2> QED
    BY <2>1, FS_Interval
<1>3. IsFiniteSet(kept) /\ size \in Nat /\ size <= Len(s)
  <2>1. kept \in SUBSET (1..Len(s))
    OBVIOUS
  <2> QED
    BY <1>2, <2>1, FS_Subset, FS_CardinalityType
<1>4. ASSUME NEW i \in kept
      PROVE  IsFiniteSet(upto(i)) /\ Cardinality(upto(i)) \in 1..size
  <2>1. IsFiniteSet(upto(i)) /\ Cardinality(upto(i)) <= size
    <3>1. upto(i) \in SUBSET kept
      OBVIOUS
    <3> HIDE DEF upto, kept
    <3> QED
      BY <1>3, <3>1, FS_Subset
  <2>2. i \in upto(i)
    BY <1>2
  <2> HIDE DEF upto, kept
  <2>3. Cardinality(upto(i)) \in Nat /\ Cardinality(upto(i)) # 0
    BY <2>1, <2>2, FS_EmptySet, FS_CardinalityType
  <2> QED
    BY <1>3, <2>1, <2>3
<1>5. kept \subseteq Nat /\ \A i \in kept : s[i] \in Name /\ s[i] \notin S
  BY <1>2
<1>6. ASSUME NEW i \in kept, NEW j \in kept, i < j
      PROVE  Cardinality(upto(i)) < Cardinality(upto(j))
  <2>1. upto(i) \in SUBSET upto(j) /\ j \in upto(j) /\ j \notin upto(i)
    BY <1>2, <1>6
  <2>2. IsFiniteSet(upto(j)) /\ Cardinality(upto(i)) \in Nat /\ Cardinality(upto(j)) \in Nat
    <3>1. \A k \in 1..size : k \in Nat
      BY <1>3
    <3> HIDE DEF upto, kept, size
    <3> QED
      BY <1>4, <3>1
  <2> HIDE DEF upto, kept
  <2>3. Cardinality(upto(i)) <= Cardinality(upto(j)) /\ Cardinality(upto(i)) # Cardinality(upto(j))
    BY <2>1, <2>2, FS_Subset
  <2> QED
    BY <2>2, <2>3
<1>7. \A i, j \in kept : i < j => place[i] < place[j]
  BY <1>6
<1>8. place \in Injection(kept, 1..size)
  <2>1. place \in [kept -> 1..size]
    BY <1>4
  <2>2. ASSUME NEW i \in kept, NEW j \in kept, place[i] = place[j]
        PROVE  i = j
    <3>1. i \in Nat /\ j \in Nat /\ \A k \in 1..size : k \in Nat
      <4> HIDE DEF kept
      <4> QED
        BY <1>5, <1>3
    <3>2. place[i] = Cardinality(upto(i)) /\ place[j] = Cardinality(upto(j))
      OBVIOUS
    <3>3. place[i] \in Nat /\ place[j] \in Nat /\ place[i] = place[j]
      <4> HIDE DEF upto, kept, size, place
      <4> QED
        BY <1>4, <2>2, <3>1, <3>2
    <3>4. ~(i < j) /\ ~(j < i)
      <4> HIDE DEF upto, kept, size, place
      <4> QED
        BY <1>7, <3>1, <3>3
    <3> QED
      BY <3>1, <3>4
  <2> HIDE DEF place, kept, size
  <2> QED
    BY <2>1, <2>2 DEF Injection, IsInjective
<1>9. \A k \in 1..size : \E i \in kept : Cardinality(upto(i)) = k
  <2>1. IsFiniteSet(1..size) /\ Cardinality(1..size) = size
    <3> HIDE DEF size, kept
    <3> QED
      BY <1>3, FS_Interval
  <2>2. place \in Surjection(kept, 1..size)
    <3> HIDE DEF place, kept
    <3> QED
      BY <1>8, <2>1, FS_Injection
  <2>3. \A k \in 1..size : \E i \in kept : place[i] = k
    <3> HIDE DEF place, kept, size
    <3> QED
      BY <2>2 DEF Surjection
  <2> QED
    BY <2>3
<1>10. \A k \in 1..size : nth(k) \in kept /\ Cardinality(upto(nth(k))) = k
  <2> HIDE DEF upto, kept, size
  <2> QED
    BY <1>9
<1>11. \A i \in kept : nth(Cardinality(upto(i))) = i
  <2>1. ASSUME NEW i \in kept
        PROVE  nth(place[i]) = i
    <3>1. place[i] \in 1..size /\ place[nth(place[i])] = place[i] /\ nth(place[i]) \in kept
      BY <1>4, <1>10
    <3> HIDE DEF place, kept, size, nth
    <3> QED
      BY <1>8, <3>1 DEF Injection, IsInjective
  <2> QED
    BY <2>1
<1>12. t \in Seq(Name) /\ Len(t) = size
  <2>1. \A k \in 1..size : s[nth(k)] \in Name
    <3> HIDE DEF upto, kept, size, nth
    <3> QED
      BY <1>5, <1>10
  <2> HIDE DEF size, nth
  <2>2. t \in [1..size -> Name]
    BY <2>1
  <2> QED
    BY <1>3, <2>2
<1>13. ThinnedBy(t, s, S, at)
  <2>1. at \in [1..size -> 1..Len(s)]
    BY <1>10
  <2>2. \A k \in 1..size : t[k] = s[at[k]] /\ s[at[k]] \notin S
    BY <1>10
  <2>3. ASSUME NEW j \in 1..size, NEW k \in 1..size, j < k
        PROVE  at[j] < at[k]
    <3>1. /\ nth(j) \in kept /\ nth(k) \in kept /\ nth(j) \in Nat /\ nth(k) \in Nat
          /\ Cardinality(upto(nth(j))) = j /\ Cardinality(upto(nth(k))) = k
      <4> HIDE DEF upto, kept, size, nth
      <4> QED
        BY <1>5, <1>10
    <3>2. j \in Nat /\ k \in Nat
      <4> HIDE DEF size
      <4> QED
        BY <1>3
    <3>3. nth(j) # nth(k) /\ ~(nth(k) < nth(j))
      <4> HIDE DEF nth, upto, kept
      <4> QED
        BY <1>6, <2>3, <3>1, <3>2
    <3> HIDE DEF nth, upto, kept, size
    <3> QED
      BY <3>1, <3>3
  <2>4. ASSUME NEW i \in 1..Len(s), s[i] \notin S
        PROVE  \E k \in 1..size : at[k] = i
    <3>1. i \in kept
      BY <2>4
    <3>2. Cardinality(upto(i)) \in 1..size /\ nth(Cardinality(upto(i))) = i
      BY <1>4, <1>11, <3>1
    <3> HIDE DEF nth, upto, kept, size
    <3> QED
      BY <3>2
  <2>5. Len(t) = size
    BY <1>12
  <2> HIDE DEF at, t, size, kept
  <2> QED
    BY <2>1, <2>2, <2>3, <2>4, <2>5 DEF ThinnedBy
<1> HIDE DEF t, at
<1> QED
  BY <1>1, <1>3, <1>12, <1>13

(* The list without its first names is one thinned by them, for no name occurs twice. *)
LEMMA FrontThins ==
  ASSUME NEW s \in Seq(Name), Seqs!IsInjective(s), NEW k \in 1..Len(s)
  PROVE  /\ SubSeq(s, k + 1, Len(s)) \in Seq(Name)
         /\ Len(SubSeq(s, k + 1, Len(s))) = Len(s) - k
         /\ \E at : ThinnedBy(SubSeq(s, k + 1, Len(s)), s, {s[i] : i \in 1..k}, at)
<1> DEFINE t  == SubSeq(s, k + 1, Len(s))
           S  == {s[i] : i \in 1..k}
           at == [j \in 1..(Len(s) - k) |-> j + k]
<1>1. Len(s) \in Nat /\ k \in Nat /\ k <= Len(s) /\ DOMAIN s = 1..Len(s)
  OBVIOUS
<1>2. /\ t \in Seq(Name) /\ Len(t) = Len(s) - k
      /\ \A j \in 1..(Len(s) - k) : t[j] = s[j + k]
  <2>1. k + 1 \in Int /\ Len(s) \in Int /\ \A i \in (k + 1)..Len(s) : s[i] \in Name
    BY <1>1
  <2>2. /\ t \in Seq(Name)
        /\ Len(t) = IF k + 1 <= Len(s) THEN Len(s) - (k + 1) + 1 ELSE 0
        /\ \A j \in 1..(Len(s) - (k + 1) + 1) : t[j] = s[k + 1 + j - 1]
    BY <2>1, SubSeqProperties
  <2> HIDE DEF t
  <2>3. Len(t) = Len(s) - k /\ Len(s) - (k + 1) + 1 = Len(s) - k
    <3>1. Len(t) = IF k + 1 <= Len(s) THEN Len(s) - (k + 1) + 1 ELSE 0
      BY <2>2
    <3>2. \A a, b \in Nat : b <= a => /\ a - (b + 1) + 1 = a - b
                                     /\ (b + 1 <= a \/ a - b = 0)
      OBVIOUS
    <3>3. Len(s) - (k + 1) + 1 = Len(s) - k /\ (k + 1 <= Len(s) \/ Len(s) - k = 0)
      BY <1>1, <3>2
    <3> QED
      BY <3>1, <3>3
  <2>4. \A j \in 1..(Len(s) - k) : k + 1 + j - 1 = j + k
    BY <1>1
  <2> QED
    BY <2>2, <2>3, <2>4
<1>3. \A i, j \in 1..Len(s) : s[i] = s[j] => i = j
  BY <1>1 DEF Seqs!IsInjective
<1>4. \A i \in 1..Len(s) : s[i] \notin S <=> i > k
  BY <1>1, <1>3
<1> HIDE DEF t, S
<1>5. ThinnedBy(t, s, S, at)
  <2>1. at \in [1..Len(t) -> 1..Len(s)]
    BY <1>1, <1>2
  <2>2. \A j \in 1..Len(t) : t[j] = s[at[j]] /\ s[at[j]] \notin S
    BY <1>1, <1>2, <1>4
  <2>3. \A i, j \in 1..Len(t) : i < j => at[i] < at[j]
    BY <1>1, <1>2
  <2>4. ASSUME NEW i \in 1..Len(s), s[i] \notin S
        PROVE  \E j \in 1..Len(t) : at[j] = i
    <3>1. i - k \in 1..Len(t) /\ at[i - k] = i
      BY <1>1, <1>2, <1>4, <2>4
    <3> QED
      BY <3>1
  <2> QED
    BY <2>1, <2>2, <2>3, <2>4 DEF ThinnedBy
<1> QED
  BY <1>2, <1>5 DEF t, S

-----------------------------------------------------------------------------
(* A list that agrees with a map from names to times, and is in their order. *)

ListOf(s, times) ==
  /\ s \in Seq(Name)
  /\ \A n \in DOMAIN times : times[n] \in Nat
  /\ \A i, j \in 1..Len(s) : s[i] = s[j] => i = j
  /\ {s[i] : i \in 1..Len(s)} = DOMAIN times
  /\ \A i, j \in 1..Len(s) : i < j => times[s[i]] <= times[s[j]]

LEMMA ThinnedList ==
  ASSUME NEW s, NEW times, ListOf(s, times), NEW S, NEW t \in Seq(Name), NEW at, ThinnedBy(t, s, S, at)
  PROVE  ListOf(t, Without(times, S))
<1> DEFINE less == Without(times, S)
<1>1. DOMAIN less = DOMAIN times \ S /\ \A n \in DOMAIN less : less[n] = times[n]
  BY DEF Without
<1>2. /\ Len(s) \in Nat /\ Len(t) \in Nat
      /\ \A k \in 1..Len(t) : at[k] \in 1..Len(s) /\ at[k] \in Nat /\ t[k] = s[at[k]] /\ t[k] \notin S
  BY DEF ListOf, ThinnedBy
<1>3. \A n : n \in DOMAIN times <=> \E i \in 1..Len(s) : s[i] = n
  BY DEF ListOf
<1>4. \A k \in 1..Len(t) : t[k] \in DOMAIN times
  BY <1>2, <1>3
<1> HIDE DEF less
<1>5. ASSUME NEW j \in 1..Len(t), NEW k \in 1..Len(t), t[j] = t[k]
      PROVE  j = k
  <2>1. at[j] = at[k]
    BY <1>2, <1>5 DEF ListOf
  <2>2. ~(j < k) /\ ~(k < j)
    BY <1>2, <2>1 DEF ThinnedBy
  <2> QED
    BY <1>2, <2>2
<1>6. {t[k] : k \in 1..Len(t)} = DOMAIN less
  <2>1. ASSUME NEW n \in DOMAIN less
        PROVE  \E k \in 1..Len(t) : t[k] = n
    <3>1. PICK i \in 1..Len(s) : s[i] = n
      BY <1>1, <1>3
    <3>2. s[i] \notin S
      BY <1>1, <3>1
    <3>3. PICK k \in 1..Len(t) : at[k] = i
      BY <3>2 DEF ThinnedBy
    <3> QED
      BY <1>2, <3>1, <3>3
  <2>2. \A k \in 1..Len(t) : t[k] \in DOMAIN less
    BY <1>1, <1>2, <1>4
  <2> QED
    BY <2>1, <2>2
<1>7. \A j, k \in 1..Len(t) : j < k => less[t[j]] <= less[t[k]]
  <2>1. \A j, k \in 1..Len(t) : j < k => times[t[j]] <= times[t[k]]
    BY <1>2 DEF ListOf, ThinnedBy
  <2> QED
    BY <1>1, <1>2, <1>4, <2>1
<1> QED
  BY <1>1, <1>5, <1>6, <1>7 DEF ListOf, less

LEMMA AppendedList ==
  ASSUME NEW s, NEW times, ListOf(s, times), NEW n \in Name, n \notin DOMAIN times,
         NEW more, DOMAIN more = DOMAIN times \union {n}, more[n] \in Nat,
         \A m \in DOMAIN times : more[m] = times[m] /\ times[m] <= more[n]
  PROVE  ListOf(Append(s, n), more)
<1> DEFINE t == Append(s, n)
<1>1. /\ DOMAIN more = DOMAIN times \union {n}
      /\ \A m \in DOMAIN times : more[m] = times[m] /\ times[m] <= more[n]
  OBVIOUS
<1>2. /\ t \in Seq(Name) /\ Len(s) \in Nat /\ Len(t) = Len(s) + 1 /\ t[Len(s) + 1] = n
      /\ \A i \in 1..Len(s) : t[i] = s[i] /\ s[i] \in DOMAIN times
  BY DEF ListOf
<1>3. \A i \in 1..Len(t) : i \in 1..Len(s) \/ (i = Len(s) + 1 /\ t[i] = n)
  BY <1>2
<1> HIDE DEF t
<1>4. \A i, j \in 1..Len(t) : t[i] = t[j] => i = j
  BY <1>2, <1>3 DEF ListOf
<1>5. {t[i] : i \in 1..Len(t)} = DOMAIN more
  <2>1. \A i \in 1..Len(t) : t[i] \in DOMAIN more
    BY <1>1, <1>2, <1>3
  <2>2. 1..Len(s) \subseteq 1..Len(t) /\ Len(s) + 1 \in 1..Len(t)
    BY <1>2
  <2>3. \A m \in DOMAIN more : \E i \in 1..Len(t) : t[i] = m
    BY <1>1, <1>2, <2>2 DEF ListOf
  <2> QED
    BY <2>1, <2>3
<1>6. ASSUME NEW i \in 1..Len(t), NEW j \in 1..Len(t), i < j
      PROVE  more[t[i]] <= more[t[j]]
  <2>1. i \in 1..Len(s)
    BY <1>2, <1>6
  <2> QED
    BY <1>1, <1>2, <1>3, <1>6, <2>1 DEF ListOf
<1>7. \A m \in DOMAIN more : more[m] \in Nat
  BY <1>1 DEF ListOf
<1> QED
  BY <1>2, <1>4, <1>5, <1>6, <1>7 DEF ListOf, t

-----------------------------------------------------------------------------
(* The invariant. *)

(* A name that is held was added when TTL was left of its time, and not removed since. *)
Explained ==
  \A n \in Held : /\ n \in DOMAIN known
                  /\ known[n] \in Nat
                  /\ known[n] <= now
                  /\ expires[n] = known[n] + TTL

IInv ==
  /\ now \in 0..MaxTime
  /\ ListOf(lru, expires)
  /\ Len(lru) <= MaxSize
  /\ Explained

LEMMA Numbers ==
  ASSUME IInv
  PROVE  /\ now \in Nat /\ TTL \in Nat /\ MaxSize \in Nat \ {0}
         /\ lru \in Seq(Name) /\ Len(lru) \in Nat /\ Seqs!IsInjective(lru)
         /\ Held \subseteq Name
         /\ \A i \in 1..Len(lru) : lru[i] \in Held
         /\ \A n \in Held : \E i \in 1..Len(lru) : lru[i] = n
<1>1. now \in Nat /\ TTL \in Nat /\ MaxSize \in Nat \ {0}
  BY BoundAssumption DEF IInv
<1>2. lru \in Seq(Name) /\ Len(lru) \in Nat /\ DOMAIN lru = 1..Len(lru)
  BY DEF IInv, ListOf
<1>3. {lru[i] : i \in 1..Len(lru)} = Held /\ \A i, j \in 1..Len(lru) : lru[i] = lru[j] => i = j
  BY DEF IInv, ListOf, Held
<1>4. Seqs!IsInjective(lru)
  BY <1>2, <1>3 DEF Seqs!IsInjective
<1>5. \A i \in 1..Len(lru) : lru[i] \in Name
  BY <1>2
<1> QED
  BY <1>1, <1>2, <1>3, <1>4, <1>5

(* Names leave, and what is known of the others stays. *)
LEMMA NamesLeave ==
  ASSUME IInv, NEW S, NEW at, ThinnedBy(lru', lru, S, at),
         lru' \in Seq(Name), Len(lru') <= Len(lru), expires' = Without(expires, S), now' = now,
         known' = known \/ known' = Without(known, S)
  PROVE  IInv'
<1>1. ListOf(lru', expires')
  BY ThinnedList DEF IInv
<1>2. Len(lru') <= MaxSize
  <2>1. Len(lru') \in Nat
    OBVIOUS
  <2> QED
    BY <2>1, Numbers DEF IInv
<1>3. Held' = Held \ S /\ \A n \in Held' : expires'[n] = expires[n]
  BY DEF Held, Without
<1>4. \A n \in Held \ S : n \in DOMAIN known => n \in DOMAIN known' /\ known'[n] = known[n]
  BY DEF Without
<1>5. Explained'
  BY <1>3, <1>4 DEF IInv, Explained
<1> QED
  BY <1>1, <1>2, <1>5 DEF IInv

LEMMA DropPreserves ==
  ASSUME IInv, NEW S, Drop(S), now' = now, known' = known \/ known' = Without(known, S)
  PROVE  IInv'
<1>1. lru' = Rest(lru, S) /\ expires' = Without(expires, S)
  BY DEF Drop
<1>2. /\ lru' \in Seq(Name) /\ Len(lru') <= Len(lru)
      /\ \E at : ThinnedBy(lru', lru, S, at)
  BY <1>1, Numbers, RestThins
<1> QED
  BY <1>1, <1>2, NamesLeave

LEMMA ReapPreserves ==
  ASSUME IInv, Reap
  PROVE  IInv'
<1>1. PICK k \in 1..Len(lru) :
        /\ expires' = Without(expires, {lru[i] : i \in 1..k})
        /\ lru' = SubSeq(lru, k + 1, Len(lru))
        /\ now' = now /\ known' = known
  BY DEF Reap
<1>2. /\ lru' \in Seq(Name) /\ Len(lru') = Len(lru) - k
      /\ \E at : ThinnedBy(lru', lru, {lru[i] : i \in 1..k}, at)
  BY <1>1, Numbers, FrontThins
<1>3. Len(lru') <= Len(lru)
  BY <1>2, Numbers
<1> QED
  BY <1>1, <1>2, <1>3, NamesLeave

LEMMA AddPreserves ==
  ASSUME IInv, NEW n \in Name, Add(n)
  PROVE  IInv'
<1> DEFINE rest  == Rest(lru, {n})
           list  == Append(rest, n)
           times == Without(expires, {n})
           more  == [m \in DOMAIN times \union {n} |-> IF m = n THEN now + TTL ELSE times[m]]
<1>1. /\ now' = now /\ now + TTL \in Nat
      /\ known' = [m \in DOMAIN known \union {n} |-> IF m = n THEN now ELSE known[m]]
  BY Numbers DEF Add
<1>2. rest \in Seq(Name) /\ Len(rest) <= Len(lru) /\ Len(rest) \in Nat /\ ListOf(rest, times)
  <2>1. rest \in Seq(Name) /\ Len(rest) <= Len(lru) /\ \E at : ThinnedBy(rest, lru, {n}, at)
    BY Numbers, RestThins
  <2>2. ListOf(rest, times)
    BY <2>1, ThinnedList DEF IInv
  <2>3. Len(rest) \in Nat
    BY <2>1
  <2> QED
    BY <2>1, <2>2, <2>3
<1>3. /\ DOMAIN times = Held \ {n} /\ \A m \in DOMAIN times : times[m] = expires[m]
      /\ DOMAIN more = Held \union {n} /\ more[n] = now + TTL
      /\ \A m \in Held \ {n} : more[m] = expires[m]
  BY DEF Held, Without
<1> HIDE DEF rest, times
<1>4. n \notin DOMAIN times /\ \A m \in DOMAIN times : times[m] <= now + TTL
  <2>1. \A m \in Held : expires[m] <= now + TTL
    BY Numbers DEF IInv, Explained
  <2> QED
    BY <1>3, <2>1
<1> HIDE DEF more
<1>5. ListOf(list, more)
  <2>1. \A m \in DOMAIN times : more[m] = times[m] /\ times[m] <= more[n]
    BY <1>3, <1>4
  <2> QED
    BY <1>1, <1>2, <1>3, <1>4, <2>1, AppendedList
<1>6. /\ list \in Seq(Name) /\ Len(list) = Len(rest) + 1 /\ list # <<>>
      /\ Len(list) <= MaxSize + 1 /\ Len(list) \in Nat
  <2>1. list \in Seq(Name) /\ Len(list) = Len(rest) + 1 /\ list # <<>>
    BY <1>2
  <2> HIDE DEF list
  <2>2. Len(rest) <= MaxSize
    BY <1>2, Numbers DEF IInv
  <2> QED
    BY <1>2, <2>1, <2>2, Numbers
<1> HIDE DEF list
<1>7. ListOf(lru', expires') /\ Len(lru') <= MaxSize /\ Held' \subseteq Held \union {n}
      /\ \A m \in Held' : expires'[m] = more[m]
  <2>1. CASE Fits(list)
    <3>1. lru' = list
      BY <2>1 DEF Add, Refreshed, list, rest
    <3>2. expires' = more
      <4>1. expires' = [m \in Held \union {n} |-> IF m = n THEN now + TTL ELSE expires[m]]
        BY <2>1 DEF Add, Refreshed, list, rest
      <4> QED
        BY <1>3, <4>1 DEF more
    <3> QED
      BY <1>3, <1>5, <2>1, <3>1, <3>2 DEF Fits, Held
  <2>2. CASE ~Fits(list)
    <3>1. lru' = Tail(list)
      BY <2>2 DEF Add, Refreshed, list, rest
    <3>2. expires' = Without(more, {Head(list)})
      <4>1. expires' = [m \in (Held \union {n}) \ {Head(list)} |->
                          IF m = n THEN now + TTL ELSE expires[m]]
        BY <2>2 DEF Add, Refreshed, list, rest
      <4> QED
        BY <1>3, <4>1 DEF Without
    <3>3. /\ Tail(list) = SubSeq(list, 1 + 1, Len(list))
          /\ {list[i] : i \in 1..1} = {Head(list)} /\ 1 \in 1..Len(list)
      <4>1. Tail(list) = SubSeq(list, 2, Len(list))
        BY <1>6, TailIsSubSeq
      <4>2. Head(list) = list[1] /\ 1 \in 1..Len(list)
        BY <1>6
      <4> QED
        BY <4>1, <4>2
    <3>4. Seqs!IsInjective(list)
      BY <1>5, <1>6 DEF ListOf, Seqs!IsInjective
    <3>5. /\ lru' \in Seq(Name) /\ Len(lru') = Len(list) - 1
          /\ \E at : ThinnedBy(lru', list, {Head(list)}, at)
      BY <1>6, <3>1, <3>3, <3>4, FrontThins
    <3>6. ListOf(lru', expires')
      BY <1>5, <3>2, <3>5, ThinnedList
    <3>7. Len(lru') <= MaxSize
      BY <1>6, <3>5, Numbers
    <3> QED
      BY <1>3, <3>2, <3>6, <3>7 DEF Held, Without
  <2> QED
    BY <2>1, <2>2
<1>8. Explained'
  <2>1. \A m \in Held' : m # n => m \in Held /\ expires'[m] = expires[m]
                                 /\ (m \in DOMAIN known => m \in DOMAIN known' /\ known'[m] = known[m])
    BY <1>1, <1>3, <1>7
  <2>2. n \in Held' => expires'[n] = now + TTL /\ n \in DOMAIN known' /\ known'[n] = now
    BY <1>1, <1>3, <1>7
  <2> QED
    <3>1. ASSUME NEW m \in Held'
          PROVE  /\ m \in DOMAIN known' /\ known'[m] \in Nat /\ known'[m] <= now'
                 /\ expires'[m] = known'[m] + TTL
      <4>1. CASE m = n
        BY <1>1, <2>2, <4>1, Numbers
      <4>2. CASE m # n
        BY <1>1, <2>1, <4>2 DEF IInv, Explained
      <4> QED
        BY <4>1, <4>2
    <3> QED
      BY <3>1 DEF Explained
<1> QED
  BY <1>1, <1>7, <1>8 DEF IInv

LEMMA InitHolds == Init => IInv
<1> SUFFICES ASSUME Init
             PROVE  IInv
  OBVIOUS
<1>1. now = 0 /\ expires = <<>> /\ lru = <<>> /\ DOMAIN expires = {} /\ Len(lru) = 0
  BY DEF Init
<1>2. ListOf(lru, expires)
  BY <1>1 DEF ListOf
<1> QED
  BY <1>1, <1>2, BoundAssumption DEF IInv, Explained, Held

LEMMA Inductive ==
  ASSUME IInv, [Next]_vars
  PROVE  IInv'
<1>1. ASSUME NEW n \in Name, Contains(n)
      PROVE  IInv'
  BY <1>1, DropPreserves DEF Contains
<1>2. ASSUME NEW n \in Name, Remove(n)
      PROVE  IInv'
  BY <1>2, DropPreserves DEF Remove
<1>3. ASSUME NEW P \in Prefix, RemovePrefix(P)
      PROVE  IInv'
  BY <1>3, DropPreserves DEF RemovePrefix
<1>4. CASE Tick
  <2>1. now' = now + 1 /\ now < MaxTime /\ expires' = expires /\ lru' = lru /\ known' = known
    BY <1>4 DEF Tick
  <2>2. now' \in 0..MaxTime /\ now <= now'
    BY <2>1, BoundAssumption DEF IInv
  <2>3. Explained'
    BY <2>1, <2>2, Numbers DEF IInv, Explained, Held
  <2> QED
    BY <2>1, <2>2, <2>3 DEF IInv
<1>5. CASE UNCHANGED vars
  BY <1>5 DEF vars, IInv, Explained, Held
<1> QED
  BY <1>1, <1>2, <1>3, <1>4, <1>5, AddPreserves, ReapPreserves DEF Next

(* Every operation of the negative cache keeps the invariant. *)
THEOREM Invariance == Spec => []IInv
<1>1. Init => IInv
  BY InitHolds
<1>2. IInv /\ [Next]_vars => IInv'
  BY Inductive
<1> QED
  BY <1>1, <1>2, PTL DEF Spec

(* The map holds only names, with times up to TTL past the clock's last, and the list   *)
(* is never longer than max_size when Add has returned.                           *)
THEOREM Typing == Spec => []TypeOK
<1>1. IInv => TypeOK
  <2> SUFFICES ASSUME IInv
               PROVE  TypeOK
    OBVIOUS
  <2>1. \A n \in Held : expires[n] \in 0..(MaxTime + TTL)
    BY Numbers, BoundAssumption DEF IInv, Explained
  <2> QED
    BY <2>1, Numbers DEF IInv, TypeOK
<1> QED
  BY <1>1, Invariance, PTL

(* removeLocked, Add and the reaper change the map and the list alike: each holds the   *)
(* names of the other, once.                                                  *)
THEOREM NamesAgree == Spec => []SameNames
<1>1. IInv => SameNames
  <2> SUFFICES ASSUME IInv
               PROVE  SameNames
    OBVIOUS
  <2>1. DOMAIN lru = 1..Len(lru) /\ {lru[i] : i \in 1..Len(lru)} = Held
    BY DEF IInv, ListOf, Held
  <2> QED
    BY <2>1, Numbers DEF SameNames, Seqs!ToSet
<1> QED
  BY <1>1, Invariance, PTL

(* The list stays in the order in which its names expire, for a name that is added again  *)
(* goes to the back with a new time, which is the latest.                          *)
THEOREM InOrder == Spec => []OldestFirst
<1>1. IInv => OldestFirst
  BY DEF IInv, ListOf, OldestFirst
<1> QED
  BY <1>1, Invariance, PTL

(* Contains reports a name as missing only within TTL of the lookup that did not find it,  *)
(* and not after Remove or RemovePrefix of it.                                    *)
THEOREM TellsTruth == Spec => []Truthful
<1>1. IInv => Truthful
  BY DEF IInv, Explained, Truthful, Valid
<1> QED
  BY <1>1, Invariance, PTL

(* The reaper stops at the first name that has not expired, and so leaves none that has.  *)
ReapsAll == [][Reap => \A n \in Held' : now < expires'[n]]_vars

(* One pass of the reaper removes every expired name: those behind the first valid one     *)
(* expire later still.                                                        *)
THEOREM ReaperIsComplete == Spec => ReapsAll
<1>1. ASSUME IInv, IInv', Reap
      PROVE  \A n \in Held' : now < expires'[n]
  <2>1. PICK k \in 1..Len(lru) :
          /\ k < Len(lru) => Valid(lru[k + 1])
          /\ expires' = Without(expires, {lru[i] : i \in 1..k})
    BY <1>1 DEF Reap
  <2> SUFFICES ASSUME NEW n \in Held'
               PROVE  now < expires'[n]
    OBVIOUS
  <2>2. n \in Held /\ n \notin {lru[i] : i \in 1..k} /\ expires'[n] = expires[n]
    BY <2>1 DEF Held, Without
  <2>3. PICK j \in 1..Len(lru) : lru[j] = n
    BY <1>1, <2>2, Numbers
  <2>4. k + 1 <= j /\ k < Len(lru) /\ k + 1 \in 1..Len(lru)
    BY <1>1, <2>2, <2>3, Numbers
  <2>5. now < expires[lru[k + 1]]
    BY <2>1, <2>4 DEF Valid
  <2>6. expires[lru[k + 1]] <= expires[lru[j]]
    BY <1>1, <2>4 DEF IInv, ListOf
  <2>7. expires[lru[k + 1]] \in Nat /\ expires[lru[j]] \in Nat /\ now \in Nat
    BY <1>1, <2>4, Numbers DEF IInv, ListOf, Held
  <2> QED
    BY <2>2, <2>3, <2>5, <2>6, <2>7
<1>2. IInv /\ IInv' /\ [Next]_vars => [Reap => \A n \in Held' : now < expires'[n]]_vars
  BY <1>1
<1> QED
  BY <1>2, Invariance, PTL DEF Spec, ReapsAll
=============================================================================
