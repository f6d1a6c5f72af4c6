-------------------------- MODULE BucketSyncProofs --------------------------
(***************************************************************************)
(* Listings over several pages, for any tree, any order of its keys, any page  *)
(* size above one and any number of readers: none misses what stayed in the     *)
(* directory, and neither does the sync loop.                                  *)
(***************************************************************************)
EXTENDS BucketSync, FiniteSetTheorems, TLAPS

-----------------------------------------------------------------------------
(* The first and the last of a set of names. *)

LEMMA Greatest ==
  ASSUME NEW k \in Nat, NEW S \in SUBSET (0..k), S # {}
  PROVE  \E m \in S : \A n \in S : n <= m
<1> DEFINE Tails == {n..k : n \in S}
<1>1. IsWellFoundedOn(StrictSubsetOrdering(0..k), FiniteSubsetsOf(0..k))
  BY FS_StrictSubsetOrderingWellFounded
<1>2. Tails \subseteq FiniteSubsetsOf(0..k) /\ Tails # {}
  <2>1. \A n \in S : n \in Int /\ k \in Int /\ n..k \subseteq 0..k
    OBVIOUS
  <2>2. \A n \in S : IsFiniteSet(n..k)
    BY <2>1, FS_Interval
  <2>3. \A n \in S : n..k \in FiniteSubsetsOf(0..k)
    BY <2>1, <2>2 DEF FiniteSubsetsOf
  <2> QED
    BY <2>3
<1>3. PICK t \in Tails : \A u \in Tails : ~(<<u, t>> \in StrictSubsetOrdering(0..k))
  <2> HIDE DEF Tails
  <2> QED
    BY <1>1, <1>2, WFMin
<1>4. PICK m \in S : t = m..k
  OBVIOUS
<1>5. ASSUME NEW n \in S, m < n
      PROVE  FALSE
  <2>1. n..k \subseteq m..k /\ n..k # m..k /\ m..k \subseteq 0..k
    BY <1>5
  <2>2. <<n..k, m..k>> \in StrictSubsetOrdering(0..k)
    BY <2>1 DEF StrictSubsetOrdering
  <2> QED
    BY <1>3, <1>4, <2>2
<1> QED
  BY <1>5

LEMMA Ranks ==
  /\ Cardinality(Name) \in Nat
  /\ \A n \in Name : Rank[n] \in Nat /\ Rank[n] > 0 /\ Rank[n] <= Cardinality(Name)
  /\ PageSize \in Nat /\ PageSize > 1
BY SyncAssumption, FS_CardinalityType

LEMMA HighestRank ==
  ASSUME NEW S \in SUBSET Name, S # {}
  PROVE  \E n \in S : \A m \in S : Rank[m] <= Rank[n]
<1> DEFINE R == {Rank[n] : n \in S}
<1>1. R \in SUBSET (0..Cardinality(Name)) /\ R # {}
  BY Ranks
<1> HIDE DEF R
<1>2. PICK k \in R : \A j \in R : j <= k
  BY <1>1, Ranks, Greatest
<1> QED
  BY <1>2 DEF R

LEMMA LowestRank ==
  ASSUME NEW S \in SUBSET Name, S # {}
  PROVE  \E n \in S : \A m \in S : Rank[n] <= Rank[m]
<1> DEFINE R == {Cardinality(Name) - Rank[n] : n \in S}
<1>1. R \in SUBSET (0..Cardinality(Name)) /\ R # {}
  BY Ranks
<1> HIDE DEF R
<1>2. PICK k \in R : \A j \in R : j <= k
  BY <1>1, Ranks, Greatest
<1>3. PICK n \in S : k = Cardinality(Name) - Rank[n]
  BY <1>2 DEF R
<1>4. ASSUME NEW m \in S
      PROVE  Rank[n] <= Rank[m]
  <2>1. Cardinality(Name) - Rank[m] <= Cardinality(Name) - Rank[n]
    BY <1>2, <1>3 DEF R
  <2> QED
    BY <2>1, Ranks
<1> QED
  BY <1>4

LEMMA LastIs ==
  ASSUME NEW S \in SUBSET Name, S # {}
  PROVE  /\ Last(S) \in Nat
         /\ \E m \in S : Rank[m] = Last(S)
         /\ \A n \in S : Rank[n] <= Last(S)
<1> DEFINE c == CHOOSE n \in S : \A m \in S : Rank[m] <= Rank[n]
<1>1. c \in S /\ \A m \in S : Rank[m] <= Rank[c]
  BY HighestRank
<1> QED
  BY <1>1, Ranks DEF Last

-----------------------------------------------------------------------------
(* A page. *)

Before(S, n) == {m \in S : Rank[m] < Rank[n]}

LEMMA FewBefore ==
  ASSUME NEW S \in SUBSET Name, NEW n \in S
  PROVE  /\ IsFiniteSet(Before(S, n)) /\ Cardinality(Before(S, n)) \in Nat
         /\ n \in First(S) <=> Cardinality(Before(S, n)) < PageSize
<1>1. Before(S, n) \in SUBSET Name
  BY DEF Before
<1>2. IsFiniteSet(Before(S, n))
  BY <1>1, SyncAssumption, FS_Subset
<1> QED
  BY <1>2, FS_CardinalityType DEF First, Before

(* A page that is not the last has another name than the directory's own, and it  *)
(* has every name up to the token it gives.                                    *)
LEMMA Pages ==
  ASSUME NEW S \in SUBSET Name, First(S) # S, NEW d
  PROVE  /\ First(S) \subseteq S /\ First(S) \ {d} # {}
         /\ \A n \in S : Rank[n] <= Last(First(S)) => n \in First(S)
<1>1. First(S) \subseteq S
  BY DEF First
<1>2. PICK out \in S : out \notin First(S)
  BY <1>1
<1>3. ASSUME First(S) \subseteq {d}
      PROVE  FALSE
  <2>1. ASSUME NEW n \in S, Before(S, n) \subseteq {d}
        PROVE  n \in First(S)
    <3>1. Before(S, n) \in SUBSET {d} /\ IsFiniteSet({d}) /\ Cardinality({d}) = 1
      BY <2>1, FS_Singleton
    <3>2. Cardinality(Before(S, n)) <= 1
      BY <3>1, FS_Subset
    <3> QED
      BY <3>2, FewBefore, Ranks
  <2>2. CASE S \subseteq {d}
    BY <1>2, <2>1, <2>2 DEF Before
  <2>3. CASE ~(S \subseteq {d})
    <3>1. PICK n \in S \ {d} : \A m \in S \ {d} : Rank[n] <= Rank[m]
      BY <2>3, LowestRank
    <3>2. Before(S, n) \subseteq {d}
      BY <3>1, Ranks DEF Before
    <3> QED
      BY <1>3, <2>1, <3>1, <3>2
  <2> QED
    BY <2>2, <2>3
<1>4. First(S) # {} /\ First(S) \in SUBSET Name
  BY <1>1, <1>3
<1>5. PICK m \in First(S) : Rank[m] = Last(First(S))
  BY <1>4, LastIs
<1>6. ASSUME NEW n \in S, Rank[n] <= Rank[m]
      PROVE  n \in First(S)
  <2>1. Before(S, n) \in SUBSET Before(S, m)
    BY <1>1, <1>6, Ranks DEF Before
  <2>2. m \in S
    BY <1>1
  <2>3. Cardinality(Before(S, n)) <= Cardinality(Before(S, m))
    BY <2>1, <2>2, FewBefore, FS_Subset
  <2> QED
    BY <2>2, <2>3, FewBefore, Ranks
<1> QED
  BY <1>1, <1>3, <1>5, <1>6

-----------------------------------------------------------------------------
(* The invariant: what a process has not dropped exists, and is in the table or       *)
(* shown as far as its token.                                                 *)

Process == Reader \union {Loop}

Record ==
  [at : {"idle", "check", "list", "write", "known", "next", "ended", "relist", "stream", "shown"},
   dir : Dir, token : Nat, page : SUBSET Name, more : BOOLEAN, todo : SUBSET (Dir \ {Root}),
   kept : SUBSET Name, shown : SUBSET Name, cut : BOOLEAN]

InPlace(r) == r.page \union r.kept \union r.shown \subseteq Children(Name, r.dir)

Reaches(r, objects, table) ==
  /\ r.kept \subseteq Existing(objects)
  /\ r.at \in {"check", "list"} => \A n \in r.kept : Rank[n] <= r.token => n \in table
  /\ r.at \in {"known", "next"} /\ ~r.cut => r.kept \subseteq table
  /\ r.at = "write" => \A n \in r.kept : n \in table \union r.page \/ (r.more /\ Rank[n] > r.token)
  /\ r.at = "relist" => r.kept \subseteq table
  /\ r.at = "stream" => \A n \in r.kept : Rank[n] <= r.token => n \in r.shown
  /\ r.at = "shown" /\ ~r.cut => r.kept \subseteq r.shown

Sound(r, objects, table) ==
  /\ r \in Record
  /\ InPlace(r)
  /\ Reaches(r, objects, table)

Plain ==
  /\ bucket \subseteq Name
  /\ rows \subseteq Name
  /\ stop \in BOOLEAN
  /\ changes \in 0..MaxChanges /\ faults \in 0..MaxFaults

Processes ==
  /\ proc = [p \in Process |-> proc[p]]
  /\ \A p \in Process : Sound(proc[p], bucket, rows)

IInv == Plain /\ Processes

LEMMA Meaning ==
  ASSUME IInv
  PROVE  TypeOK /\ ListingComplete /\ PassComplete
<1>1. proc \in [Process -> Record]
  BY DEF IInv, Processes, Sound
<1>2. \A p \in Process : InPlace(proc[p])
  BY DEF IInv, Processes, Sound
<1>3. TypeOK
  BY <1>1, <1>2, Zenon DEF IInv, Plain, TypeOK, Process, Record, InPlace
<1>4. ListingComplete
  <2>1. ASSUME NEW p \in Reader
        PROVE  p \in Process
    BY DEF Process
  <2> QED
    BY <2>1, Zenon DEF IInv, Processes, Sound, Reaches, ListingComplete
<1>5. PassComplete
  <2>1. Loop \in Process
    BY DEF Process
  <2> QED
    BY <2>1, Zenon DEF IInv, Processes, Sound, Reaches, PassComplete
<1> QED
  BY <1>3, <1>4, <1>5

-----------------------------------------------------------------------------
(* What is in a directory. *)

LEMMA InDirectory ==
  ASSUME bucket \subseteq Name, NEW r \in Record, NEW d, d = r.dir
  PROVE  /\ Listing(bucket, d) \subseteq Children(Name, d)
         /\ InPlace(r) => \A n \in r.kept : n # d /\ Rank[n] > 0 /\ (n \in Existing(bucket) => n \in Listing(bucket, d))
BY NamespaceAssumption, Ranks DEF Listing, Children, Existing, InPlace

LEMMA RestIs ==
  ASSUME bucket \subseteq Name, NEW d, NEW token
  PROVE  Rest(d, token) \in SUBSET Name /\ Rest(d, token) \ {d} \subseteq Listing(bucket, d)
BY DEF Rest, Listing, Children, Existing

(* What a listing returns, for a process in any state. *)
LEMMA ListedIs ==
  ASSUME bucket \subseteq Name, NEW r \in Record, InPlace(r), NEW l, l = Listed(r)
  PROVE  /\ l \in Record
         /\ l.at = r.at /\ l.dir = r.dir /\ l.kept = r.kept /\ l.shown = r.shown
         /\ l.todo = r.todo /\ l.cut = r.cut
         /\ InPlace(l)
         /\ l.more => l.page # {}
         /\ \A n \in r.kept : n \in Existing(bucket) /\ Rank[n] > r.token
               => n \in l.page \/ (l.more /\ Rank[n] > l.token)
         /\ \A n \in r.kept : l.more /\ n \in Existing(bucket) /\ Rank[n] > r.token /\ Rank[n] <= l.token
               => n \in l.page
<1> DEFINE rest == Rest(r.dir, r.token)
           first == First(rest)
           page == first \ {r.dir}
           token == IF first # rest THEN Last(first) ELSE 0
<1>1. l = [r EXCEPT !.page = page, !.more = first # rest, !.token = token]
  BY DEF Listed, Received
<1>2. rest \in SUBSET Name /\ rest \ {r.dir} \subseteq Listing(bucket, r.dir)
  BY RestIs
<1>3. first \subseteq rest
  BY DEF First
<1>4. first # rest => page # {} /\ \A n \in rest : Rank[n] <= Last(first) => n \in first
  BY <1>2, Pages
<1>5. token \in Nat
  BY <1>2, <1>3, <1>4, LastIs
<1>6. \A n \in r.kept : n \in Existing(bucket) /\ Rank[n] > r.token => n \in rest /\ n # r.dir
  BY InDirectory DEF Rest
<1> HIDE DEF rest, first, token
<1>7. page \in SUBSET Name
  BY <1>2, <1>3
<1> HIDE DEF page
<1>8. /\ l \in Record
      /\ l.at = r.at /\ l.dir = r.dir /\ l.kept = r.kept /\ l.shown = r.shown
      /\ l.todo = r.todo /\ l.cut = r.cut
      /\ l.page = page /\ l.more = (first # rest) /\ l.token = token
  BY <1>1, <1>5, <1>7 DEF Record
<1>9. page \subseteq Listing(bucket, r.dir)
  BY <1>2, <1>3 DEF page
<1>10. InPlace(l)
  BY <1>8, <1>9, InDirectory DEF InPlace
<1>11. \A n \in r.kept : Rank[n] \in Nat
  BY Ranks DEF Record
<1>12. \A n \in r.kept : n \in Existing(bucket) /\ Rank[n] > r.token /\ ~(l.more /\ Rank[n] > l.token) => n \in first
  <2>1. CASE first = rest
    BY <1>6, <2>1
  <2>2. CASE first # rest
    <3>1. token = Last(first) /\ l.token = token /\ l.more
      BY <1>8, <2>2 DEF token
    <3>2. \A n \in rest : Rank[n] <= token => n \in first
      BY <1>4, <2>2, <3>1
    <3>3. \A n \in r.kept : ~(Rank[n] > token) => Rank[n] <= token
      BY <1>5, <1>11
    <3> QED
      BY <1>6, <3>1, <3>2, <3>3
  <2> QED
    BY <2>1, <2>2
<1>13. \A n \in r.kept : n \in Existing(bucket) /\ Rank[n] > r.token /\ ~(l.more /\ Rank[n] > l.token) => n \in page
  BY <1>6, <1>12 DEF page
<1>14. l.more => l.page # {}
  BY <1>4, <1>8 DEF page
<1>15. \A n \in r.kept : Rank[n] <= token => ~(Rank[n] > token)
  BY <1>5, <1>11
<1> QED
  BY <1>8, <1>10, <1>13, <1>14, <1>15

-----------------------------------------------------------------------------
(* Three ways for a step to keep the processes sound: one process moves, some     *)
(* names are dropped, and the bucket and the table only grow.                   *)

LEMMA MoreExists ==
  ASSUME NEW a, NEW b, a \subseteq b
  PROVE  Existing(a) \subseteq Existing(b)
BY DEF Existing

LEMMA Grown ==
  ASSUME NEW r, NEW b1, NEW b2, NEW t1, NEW t2, Sound(r, b1, t1), b1 \subseteq b2, t1 \subseteq t2
  PROVE  Sound(r, b2, t2)
<1>1. Existing(b1) \subseteq Existing(b2)
  BY MoreExists
<1>2. Reaches(r, b2, t2)
  BY <1>1 DEF Sound, Reaches
<1> QED
  BY <1>2 DEF Sound

LEMMA Dropped ==
  ASSUME NEW r, NEW S, NEW b1, NEW b2, NEW t1, NEW t2, Sound(r, b1, t1),
         Existing(b1) \intersect S \subseteq Existing(b2), t1 \intersect S \subseteq t2
  PROVE  Sound([r EXCEPT !.kept = @ \intersect S], b2, t2)
<1> DEFINE n == [r EXCEPT !.kept = r.kept \intersect S]
<1>1. /\ n \in Record
      /\ n.at = r.at /\ n.dir = r.dir /\ n.page = r.page /\ n.shown = r.shown
      /\ n.token = r.token /\ n.more = r.more /\ n.cut = r.cut
      /\ n.kept = r.kept \intersect S
  BY DEF Sound, Record
<1> HIDE DEF n
<1>2. InPlace(n)
  BY <1>1 DEF Sound, InPlace
<1>3. Reaches(n, b2, t2)
  BY <1>1 DEF Reaches, Sound
<1>4. Sound(n, b2, t2)
  BY <1>1, <1>2, <1>3 DEF Sound
<1> QED
  BY <1>4 DEF n

LEMMA OneMoves ==
  ASSUME IInv, NEW p \in Process, NEW n, proc' = [proc EXCEPT ![p] = n],
         bucket' = bucket, rows \subseteq rows', Sound(n, bucket, rows')
  PROVE  Processes'
<1>1. proc' = [q \in Process |-> proc'[q]] /\ proc'[p] = n
  BY DEF IInv, Processes
<1>2. ASSUME NEW q \in Process
      PROVE  Sound(proc'[q], bucket', rows')
  <2>1. Sound(proc[q], bucket, rows')
    BY Grown DEF IInv, Processes
  <2>2. CASE q = p
    BY <1>1, <2>2
  <2>3. CASE q # p
    <3>1. proc'[q] = proc[q]
      BY <2>3 DEF IInv, Processes
    <3> QED
      BY <2>1, <3>1
  <2> QED
    BY <2>2, <2>3
<1> QED
  BY <1>1, <1>2 DEF Processes

LEMMA NoneMoves ==
  ASSUME IInv, proc' = proc, bucket \subseteq bucket', rows \subseteq rows'
  PROVE  Processes'
<1>1. ASSUME NEW q \in Process
      PROVE  Sound(proc[q], bucket', rows')
  BY Grown DEF IInv, Processes
<1> QED
  BY <1>1 DEF IInv, Processes

LEMMA SomeDrop ==
  ASSUME IInv, NEW S, Keep(S),
         Existing(bucket) \intersect S \subseteq Existing(bucket'), rows \intersect S \subseteq rows'
  PROVE  Processes'
<1>1. DOMAIN proc = Process
  BY DEF IInv, Processes
<1>2. proc' = [q \in Process |-> [proc[q] EXCEPT !.kept = @ \intersect S]]
  BY <1>1, Zenon DEF Keep
<1>3. ASSUME NEW q \in Process
      PROVE  Sound(proc'[q], bucket', rows')
  <2>1. proc'[q] = [proc[q] EXCEPT !.kept = @ \intersect S]
    BY <1>2
  <2>2. Sound([proc[q] EXCEPT !.kept = @ \intersect S], bucket', rows')
    BY Dropped DEF IInv, Processes
  <2> QED
    BY <2>1, <2>2
<1>4. proc' = [q \in Process |-> proc'[q]]
  BY <1>2
<1> QED
  BY <1>3, <1>4 DEF Processes

(* A step that leaves the table and the bucket and only moves a process. *)
LEMMA Moves ==
  ASSUME IInv, NEW p \in Process, NEW n, proc' = [proc EXCEPT ![p] = n], bucket' = bucket, rows' = rows,
         stop' \in BOOLEAN, changes' \in 0..MaxChanges, faults' \in 0..MaxFaults,
         Sound(n, bucket, rows)
  PROVE  IInv'
<1>1. Processes'
  BY OneMoves
<1> QED
  BY <1>1 DEF IInv, Plain

-----------------------------------------------------------------------------
(* The steps of a process. *)

Quiet == bucket' = bucket /\ rows' = rows /\ stop' = stop /\ UNCHANGED environment

LEMMA QuietMoves ==
  ASSUME IInv, NEW p \in Process, NEW n, proc' = [proc EXCEPT ![p] = n], Quiet,
         Sound(n, bucket, rows)
  PROVE  IInv'
<1>1. stop' \in BOOLEAN /\ changes' \in 0..MaxChanges /\ faults' \in 0..MaxFaults
  BY DEF IInv, Plain, Quiet, environment
<1> QED
  BY <1>1, Moves DEF Quiet

LEMMA FailureTypes ==
  ASSUME IInv, Fails
  PROVE  changes' \in 0..MaxChanges /\ faults' \in 0..MaxFaults
BY SyncAssumption DEF IInv, Plain, Fails

LEMMA At ==
  ASSUME IInv, NEW p \in Process
  PROVE  /\ Sound(proc[p], bucket, rows)
         /\ proc[p] \in Record /\ InPlace(proc[p]) /\ bucket \subseteq Name /\ rows \subseteq Name
BY DEF IInv, Processes, Plain, Sound

LEMMA Resting ==
  ASSUME NEW d \in Dir, NEW n, NEW objects, NEW table,
         n \in Record, n.dir = d, n.page = {}, n.kept = {}, n.shown = {}
  PROVE  Sound(n, objects, table)
BY DEF Sound, InPlace, Reaches

(* The listing of a directory begins. *)
LEMMA Beginning ==
  ASSUME bucket \subseteq Name, NEW d \in Dir, NEW n \in Record, n.dir = d, n.page = {}, n.shown = {},
         n.kept = Listing(bucket, d), n.token = 0, n.at \in {"check", "list"}
  PROVE  Sound(n, bucket, rows)
<1>1. Listing(bucket, d) \subseteq Name /\ Listing(bucket, d) \subseteq Existing(bucket)
  BY DEF Listing, Children, Existing
<1>2. InPlace(n)
  BY InDirectory DEF InPlace
<1>3. \A m \in n.kept : ~(Rank[m] <= 0)
  BY <1>1, Ranks
<1> QED
  BY <1>1, <1>2, <1>3 DEF Sound, Reaches

LEMMA IdleIs ==
  /\ Idle \in Record
  /\ Idle.dir = Root /\ Idle.page = {} /\ Idle.kept = {} /\ Idle.shown = {}
  /\ Root \in Dir
BY NamespaceAssumption DEF Idle, Record

LEMMA LoopGoesOn ==
  ASSUME NEW r, NEW n \in Record, NEW objects, NEW table, Sound(r, objects, table),
         n.dir = r.dir, n.page \subseteq r.page, n.kept = r.kept, n.shown = r.shown,
         \/ n.at = "list" /\ r.at = "check" /\ n.token = r.token
         \/ n.at \in {"known", "next"} /\ n.cut
         \/ n.at = "next" /\ r.at = "known" /\ n.cut = r.cut
  PROVE  Sound(n, objects, table)
<1>1. InPlace(n)
  BY DEF Sound, InPlace
<1>2. Reaches(n, objects, table)
  BY DEF Sound, Reaches
<1> QED
  BY <1>1, <1>2 DEF Sound

LEMMA ListPreserves ==
  ASSUME IInv, NEW p \in Process, List(p)
  PROVE  IInv'
<1> DEFINE l == Listed(proc[p])
           n == [l EXCEPT !.at = "write"]
<1> HIDE DEF l
<1>1. proc[p].at = "list" /\ proc' = [proc EXCEPT ![p] = n] /\ Quiet
  BY DEF List, Go, Quiet, l
<1>2. /\ l \in Record
      /\ l.at = proc[p].at /\ l.dir = proc[p].dir /\ l.kept = proc[p].kept /\ l.shown = proc[p].shown
      /\ InPlace(l)
      /\ \A m \in proc[p].kept : m \in Existing(bucket) /\ Rank[m] > proc[p].token
            => m \in l.page \/ (l.more /\ Rank[m] > l.token)
  BY At, ListedIs DEF l
<1>3. /\ n \in Record /\ n.at = "write" /\ n.dir = l.dir /\ n.kept = l.kept /\ n.shown = l.shown
      /\ n.page = l.page /\ n.more = l.more /\ n.token = l.token
  BY <1>2 DEF Record
<1> HIDE DEF n
<1>4. Reaches(n, bucket, rows)
  <2>1. proc[p].kept \subseteq Existing(bucket)
    BY At DEF Sound, Reaches
  <2>2. \A m \in proc[p].kept : Rank[m] <= proc[p].token => m \in rows
    BY <1>1, At DEF Sound, Reaches
  <2>3. \A m \in proc[p].kept : Rank[m] <= proc[p].token \/ Rank[m] > proc[p].token
    BY At, Ranks DEF Record
  <2> QED
    BY <1>2, <1>3, <2>1, <2>2, <2>3 DEF Reaches
<1>5. InPlace(n)
  BY <1>2, <1>3 DEF InPlace
<1>6. Sound(n, bucket, rows)
  BY <1>3, <1>4, <1>5, At DEF Sound
<1> QED
  BY <1>1, <1>6, QuietMoves

LEMMA WritePreserves ==
  ASSUME IInv, NEW p \in Process, WritePage(p)
  PROVE  IInv'
<1> DEFINE r == proc[p]
           then == IF ~r.more THEN Finished(p) ELSE IF p = Loop THEN "check" ELSE "list"
           n == [r EXCEPT !.at = then, !.page = {}]
<1>1. /\ r.at = "write" /\ proc' = [proc EXCEPT ![p] = n] /\ rows' = rows \union r.page
      /\ bucket' = bucket /\ stop' = stop /\ changes' = changes /\ faults' = faults
  BY DEF WritePage, Go, environment
<1>2. then \in IF r.more THEN {"list", "check"} ELSE {"relist", "known", "next"}
  BY At DEF Finished, Record
<1>3. r \in Record /\ Sound(r, bucket, rows) /\ rows \subseteq Name
  BY At
<1> HIDE DEF r, then
<1>4. /\ n \in Record /\ n.at = then /\ n.dir = r.dir /\ n.kept = r.kept /\ n.shown = r.shown
      /\ n.page = {} /\ n.more = r.more /\ n.token = r.token
  BY <1>2, <1>3 DEF Record
<1> HIDE DEF n
<1>5. Reaches(n, bucket, rows')
  <2>1. r.kept \subseteq Existing(bucket) /\ \A m \in r.kept : m \in rows' \/ (r.more /\ Rank[m] > r.token)
    BY <1>1, <1>3 DEF Reaches, Sound
  <2>2. \A m \in r.kept : Rank[m] > r.token => ~(Rank[m] <= r.token)
    BY <1>3, Ranks DEF Record
  <2> QED
    BY <1>2, <1>4, <2>1, <2>2 DEF Reaches
<1>6. InPlace(n)
  BY <1>3, <1>4 DEF InPlace, Sound
<1>7. Sound(n, bucket, rows')
  BY <1>3, <1>4, <1>5, <1>6 DEF Sound
<1>8. Processes'
  BY <1>1, <1>7, OneMoves
<1>9. rows' \subseteq Name
  BY <1>1, <1>3 DEF Record
<1> QED
  BY <1>1, <1>8, <1>9 DEF IInv, Plain

LEMMA SyncFailsPreserves ==
  ASSUME IInv, NEW p \in Process, SyncFails(p)
  PROVE  IInv'
<1> DEFINE r == proc[p]
           n == IF p # Loop THEN [r EXCEPT !.at = "stream", !.token = 0, !.page = {}]
                ELSE IF r.dir = Root THEN Idle
                ELSE [r EXCEPT !.at = "next", !.page = {}, !.cut = TRUE]
<1>1. proc' = [proc EXCEPT ![p] = n] /\ bucket' = bucket /\ rows' = rows /\ stop' = stop /\ Fails
  BY DEF SyncFails
<1>2. r \in Record /\ Sound(r, bucket, rows)
  BY At
<1> HIDE DEF r
<1>3. Sound(n, bucket, rows)
  <2>1. CASE p # Loop
    <3>1. /\ n \in Record /\ n.at = "stream" /\ n.dir = r.dir /\ n.kept = r.kept /\ n.shown = r.shown
          /\ n.page = {} /\ n.token = 0
      BY <1>2, <2>1 DEF Record
    <3> HIDE DEF n
    <3>2. \A m \in r.kept : ~(Rank[m] <= 0)
      BY <1>2, Ranks DEF Record
    <3>3. Reaches(n, bucket, rows)
      BY <1>2, <2>1, <3>1, <3>2 DEF Reaches, Sound
    <3> QED
      BY <1>2, <3>1, <3>3 DEF Sound, InPlace
  <2>2. CASE p = Loop /\ r.dir = Root
    BY <2>2, IdleIs, Resting
  <2>3. CASE p = Loop /\ r.dir # Root
    <3>1. /\ n \in Record /\ n.at = "next" /\ n.dir = r.dir /\ n.kept = r.kept /\ n.shown = r.shown
          /\ n.page = {} /\ n.cut
      BY <1>2, <2>3 DEF Record
    <3> HIDE DEF n
    <3> QED
      BY <1>2, <2>3, <3>1, LoopGoesOn
  <2> QED
    BY <2>1, <2>2, <2>3
<1>4. stop' \in BOOLEAN
  BY <1>1 DEF IInv, Plain
<1> HIDE DEF n
<1> QED
  BY <1>1, <1>3, <1>4, FailureTypes, Moves

(* Any other step of the loop keeps what it has, or begins anew. *)
LEMMA LoopPreserves ==
  ASSUME IInv, Tick \/ Check \/ Known \/ NextDir \/ LoopEnds
  PROVE  IInv'
<1> DEFINE r == proc[Loop]
<1>1. Loop \in Process /\ r \in Record /\ rows \subseteq Name /\ bucket \subseteq Name
      /\ Sound(r, bucket, rows) /\ stop \in BOOLEAN
  BY At DEF Process, IInv, Plain
<1>2. KnownDirs(rows) \in SUBSET (Dir \ {Root})
  BY <1>1 DEF KnownDirs, Name
<1>3. ASSUME NEW d \in Dir, NEW todo \in SUBSET (Dir \ {Root}), Quiet,
             proc' = [proc EXCEPT ![Loop] = Begin(d, todo)]
      PROVE  IInv'
  <2> DEFINE n == Begin(d, todo)
  <2>1. Listing(bucket, d) \subseteq Name
    BY DEF Listing, Children, Existing
  <2>2. /\ n \in Record /\ n.at = "check" /\ n.dir = d /\ n.page = {} /\ n.shown = {}
        /\ n.kept = Listing(bucket, d) /\ n.token = 0
    BY <1>3, <2>1, IdleIs DEF Record, Idle, Begin
  <2> HIDE DEF n
  <2>3. Sound(n, bucket, rows)
    BY <1>1, <2>2, Beginning
  <2>4. proc' = [proc EXCEPT ![Loop] = n]
    BY <1>3 DEF n
  <2> QED
    BY <1>1, <1>3, <2>3, <2>4, QuietMoves
<1>4. ASSUME NEW n \in Record, n.dir = Root, n.page = {}, n.kept = {}, n.shown = {},
             proc' = [proc EXCEPT ![Loop] = n], Quiet
      PROVE  IInv'
  BY <1>1, <1>4, IdleIs, Resting, QuietMoves
<1>5. CASE Tick
  BY <1>3, <1>5, IdleIs DEF Tick, Go, Quiet
<1>6. CASE Check
  <2> DEFINE n == [r EXCEPT !.at = IF stop THEN Finished(Loop) ELSE "list", !.cut = stop]
  <2>1. Finished(Loop) \in {"known", "next"}
    BY DEF Finished
  <2>2. r.at = "check" /\ proc' = [proc EXCEPT ![Loop] = n] /\ Quiet
    BY <1>6 DEF Check, Go, Quiet
  <2> HIDE DEF r
  <2>3. /\ n \in Record /\ n.dir = r.dir /\ n.page = r.page /\ n.kept = r.kept /\ n.shown = r.shown
        /\ n.token = r.token /\ n.cut = stop
        /\ n.at \in IF stop THEN {"known", "next"} ELSE {"list"}
    BY <1>1, <2>1 DEF Record
  <2> HIDE DEF n
  <2>4. Sound(n, bucket, rows)
    BY <1>1, <2>2, <2>3, LoopGoesOn
  <2> QED
    BY <1>1, <2>2, <2>4, QuietMoves
<1>7. CASE Known
  <2>1. r.at = "known"
    BY <1>7 DEF Known, Go
  <2>2. PICK n : /\ n = [r EXCEPT !.at = "next", !.todo = KnownDirs(rows)] \/ n = [r EXCEPT !.at = "next"]
                 /\ proc' = [proc EXCEPT ![Loop] = n]
    BY <1>7 DEF Known, Go
  <2>3. bucket' = bucket /\ rows' = rows /\ stop' \in BOOLEAN
    BY <1>1, <1>7 DEF Known
  <2>4. changes' \in 0..MaxChanges /\ faults' \in 0..MaxFaults
    BY <1>7, FailureTypes DEF Known, IInv, Plain, environment
  <2> HIDE DEF r
  <2>5. /\ n \in Record /\ n.dir = r.dir /\ n.page = r.page /\ n.kept = r.kept /\ n.shown = r.shown
        /\ n.at = "next" /\ n.cut = r.cut
    BY <1>1, <1>2, <2>2 DEF Record
  <2>6. Sound(n, bucket, rows)
    BY <1>1, <2>1, <2>5, LoopGoesOn
  <2> QED
    BY <1>1, <2>2, <2>3, <2>4, <2>6, Moves
<1>8. CASE NextDir
  <2>1. Quiet
    BY <1>8 DEF NextDir, Quiet
  <2>2. ASSUME NEW d \in r.todo, proc' = [proc EXCEPT ![Loop] = Begin(d, r.todo \ {d})]
        PROVE  IInv'
    <3>1. d \in Dir /\ r.todo \ {d} \in SUBSET (Dir \ {Root})
      BY <1>1 DEF Record
    <3> QED
      BY <1>3, <2>1, <2>2, <3>1
  <2>3. CASE proc' = [proc EXCEPT ![Loop] = Idle]
    BY <1>4, <2>1, <2>3, IdleIs
  <2> QED
    BY <1>8, <2>2, <2>3 DEF NextDir, Go
<1>9. CASE LoopEnds
  <2> DEFINE n == [Idle EXCEPT !.at = "ended"]
  <2>1. n \in Record /\ n.dir = Root /\ n.page = {} /\ n.kept = {} /\ n.shown = {}
    BY IdleIs DEF Record
  <2>2. proc' = [proc EXCEPT ![Loop] = n] /\ Quiet
    BY <1>9 DEF LoopEnds, Go, Quiet
  <2> HIDE DEF n
  <2> QED
    BY <1>4, <2>1, <2>2, IdleIs
<1> QED
  BY <1>5, <1>6, <1>7, <1>8, <1>9

LEMMA ReaddirPreserves ==
  ASSUME IInv, NEW p \in Reader, NEW d \in Dir, Readdir(p, d)
  PROVE  IInv'
<1> DEFINE n == [Idle EXCEPT !.at = "list", !.dir = d, !.kept = Listing(bucket, d)]
<1>1. proc' = [proc EXCEPT ![p] = n] /\ Quiet /\ p \in Process /\ bucket \subseteq Name
  BY At DEF Readdir, Go, Quiet, Process
<1>2. Listing(bucket, d) \subseteq Name
  BY DEF Listing, Children, Existing
<1>3. /\ n \in Record /\ n.at = "list" /\ n.dir = d /\ n.kept = Listing(bucket, d)
      /\ n.page = {} /\ n.shown = {} /\ n.token = 0
  BY <1>2, IdleIs DEF Record, Idle
<1> HIDE DEF n
<1>4. Sound(n, bucket, rows)
  BY <1>1, <1>3, Beginning
<1> QED
  BY <1>1, <1>4, QuietMoves

LEMMA RelistPreserves ==
  ASSUME IInv, NEW p \in Reader, Relist(p)
  PROVE  IInv'
<1> DEFINE r == proc[p]
<1>1. p \in Process /\ r \in Record /\ rows \subseteq Name
      /\ Sound(r, bucket, rows)
  BY At DEF Process
<1>2. Quiet /\ r.at = "relist"
  BY DEF Relist, Go, Quiet
<1>3. CASE proc' = [proc EXCEPT ![p] = [r EXCEPT !.at = "shown", !.shown = Children(rows, r.dir)]]
  <2> DEFINE n == [r EXCEPT !.at = "shown", !.shown = Children(rows, r.dir)]
  <2>1. proc' = [proc EXCEPT ![p] = n]
    BY <1>3
  <2>2. Children(rows, r.dir) \subseteq Children(Name, r.dir) /\ Children(rows, r.dir) \subseteq Name
    BY <1>1 DEF Children
  <2>3. /\ n \in Record /\ n.at = "shown" /\ n.dir = r.dir /\ n.page = r.page /\ n.kept = r.kept
        /\ n.shown = Children(rows, r.dir)
    BY <1>1, <2>2 DEF Record
  <2> HIDE DEF n
  <2>4. r.kept \subseteq Children(rows, r.dir) /\ r.kept \subseteq Existing(bucket)
    BY <1>1, <1>2 DEF Sound, InPlace, Reaches, Children
  <2>5. Sound(n, bucket, rows)
    BY <1>1, <2>2, <2>3, <2>4 DEF Sound, InPlace, Reaches
  <2> QED
    BY <1>1, <1>2, <2>1, <2>5, QuietMoves
<1>4. CASE proc' = [proc EXCEPT ![p] = [r EXCEPT !.at = "shown", !.cut = TRUE]]
  <2> DEFINE n == [r EXCEPT !.at = "shown", !.cut = TRUE]
  <2>1. proc' = [proc EXCEPT ![p] = n]
    BY <1>4
  <2>2. /\ n \in Record /\ n.at = "shown" /\ n.dir = r.dir /\ n.page = r.page /\ n.kept = r.kept
        /\ n.shown = r.shown /\ n.cut
    BY <1>1 DEF Record
  <2> HIDE DEF n
  <2>3. Sound(n, bucket, rows)
    BY <1>1, <2>2 DEF Sound, InPlace, Reaches
  <2> QED
    BY <1>1, <1>2, <2>1, <2>3, QuietMoves
<1> QED
  BY <1>3, <1>4 DEF Relist, Go

LEMMA StreamPreserves ==
  ASSUME IInv, NEW p \in Reader, Stream(p)
  PROVE  IInv'
<1> DEFINE r == proc[p]
           l == Listed(r)
           n == [l EXCEPT !.at = IF l.more /\ l.page # {} THEN "stream" ELSE "shown",
                          !.shown = l.shown \union l.page, !.page = {}]
<1>1. p \in Process /\ r \in Record /\ bucket \subseteq Name
      /\ Sound(r, bucket, rows)
  BY At DEF Process
<1> HIDE DEF l
<1>2. r.at = "stream" /\ proc' = [proc EXCEPT ![p] = n] /\ Quiet
  BY DEF Stream, Go, Quiet, l
<1>3. InPlace(r) /\ Reaches(r, bucket, rows)
  BY <1>1 DEF Sound
<1> HIDE DEF r
<1>4. /\ l \in Record
      /\ l.dir = r.dir /\ l.kept = r.kept /\ l.shown = r.shown
      /\ InPlace(l)
      /\ l.more => l.page # {}
      /\ \A m \in r.kept : m \in Existing(bucket) /\ Rank[m] > r.token
            => m \in l.page \/ (l.more /\ Rank[m] > l.token)
  BY <1>1, <1>3, ListedIs DEF l
<1>5. /\ n \in Record /\ n.at = (IF l.more THEN "stream" ELSE "shown") /\ n.dir = r.dir /\ n.kept = r.kept
      /\ n.shown = r.shown \union l.page /\ n.page = {} /\ n.token = l.token
  BY <1>4 DEF Record
<1> HIDE DEF n
<1>6. InPlace(n)
  BY <1>4, <1>5 DEF InPlace
<1>7. \A m \in r.kept : m \in n.shown \/ (l.more /\ Rank[m] > l.token)
  <2>1. \A m \in r.kept : Rank[m] <= r.token \/ Rank[m] > r.token
    BY <1>1, Ranks DEF Record
  <2> QED
    BY <1>2, <1>3, <1>4, <1>5, <2>1 DEF Reaches
<1>8. \A m \in r.kept : Rank[m] > l.token => ~(Rank[m] <= l.token)
  BY <1>1, <1>4, Ranks DEF Record
<1>9. Reaches(n, bucket, rows)
  BY <1>3, <1>5, <1>7, <1>8 DEF Reaches
<1>10. Sound(n, bucket, rows)
  BY <1>5, <1>6, <1>9 DEF Sound
<1> QED
  BY <1>1, <1>2, <1>10, QuietMoves

LEMMA EndPreserves ==
  ASSUME IInv, NEW p \in Reader, StreamFails(p) \/ Close(p)
  PROVE  IInv'
<1> DEFINE r == proc[p]
<1>1. p \in Process /\ r \in Record /\ Sound(r, bucket, rows)
  BY At DEF Process
<1>2. Quiet
  BY DEF StreamFails, Close, Quiet
<1>3. CASE StreamFails(p)
  <2> DEFINE n == [r EXCEPT !.at = "shown", !.cut = TRUE]
  <2>1. proc' = [proc EXCEPT ![p] = n]
    BY <1>3 DEF StreamFails, Go
  <2>2. /\ n \in Record /\ n.at = "shown" /\ n.dir = r.dir /\ n.page = r.page /\ n.kept = r.kept
        /\ n.shown = r.shown /\ n.cut
    BY <1>1 DEF Record
  <2> HIDE DEF n
  <2>3. Sound(n, bucket, rows)
    BY <1>1, <2>2 DEF Sound, InPlace, Reaches
  <2> QED
    BY <1>1, <1>2, <2>1, <2>3, QuietMoves
<1>4. CASE Close(p)
  <2>1. proc' = [proc EXCEPT ![p] = Idle]
    BY <1>4 DEF Close, Go
  <2> QED
    BY <1>1, <1>2, <2>1, IdleIs, Resting, QuietMoves
<1> QED
  BY <1>3, <1>4

-----------------------------------------------------------------------------
(* The steps of others. *)

LEMMA ChangeTypes ==
  ASSUME IInv, Change
  PROVE  changes' \in 0..MaxChanges /\ faults' \in 0..MaxFaults
BY SyncAssumption DEF IInv, Plain, Change

LEMMA BucketPreserves ==
  ASSUME IInv, NEW o \in Name, ObjectPut(o) \/ ObjectDeleted(o)
  PROVE  IInv'
<1>1. CASE ObjectPut(o)
  <2>1. Processes'
    BY <1>1, NoneMoves DEF ObjectPut
  <2>2. Plain'
    BY <1>1, ChangeTypes DEF ObjectPut, IInv, Plain
  <2> QED
    BY <2>1, <2>2 DEF IInv
<1>2. CASE ObjectDeleted(o)
  <2>1. Processes'
    BY <1>2, SomeDrop DEF ObjectDeleted
  <2>2. Plain'
    BY <1>2, ChangeTypes DEF ObjectDeleted, IInv, Plain
  <2> QED
    BY <2>1, <2>2 DEF IInv
<1> QED
  BY <1>1, <1>2

LEMMA RowsPreserve ==
  ASSUME IInv, (\E n \in Name : RowPut(n)) \/ (\E S \in SUBSET Name : RowsDeleted(S))
  PROVE  IInv'
<1>1. ASSUME NEW n \in Name, RowPut(n)
      PROVE  IInv'
  <2>1. Processes'
    BY <1>1, NoneMoves DEF RowPut
  <2>2. Plain'
    BY <1>1, ChangeTypes DEF RowPut, IInv, Plain
  <2> QED
    BY <2>1, <2>2 DEF IInv
<1>2. ASSUME NEW S \in SUBSET Name, RowsDeleted(S)
      PROVE  IInv'
  <2>1. rows \intersect (Name \ S) \subseteq rows'
    BY <1>2, At DEF RowsDeleted
  <2>2. Processes'
    BY <1>2, <2>1, SomeDrop DEF RowsDeleted
  <2>3. Plain'
    BY <1>2, ChangeTypes DEF RowsDeleted, IInv, Plain
  <2> QED
    BY <2>2, <2>3 DEF IInv
<1> QED
  BY <1>1, <1>2

LEMMA StopPreserves ==
  ASSUME IInv, Stop \/ UNCHANGED vars
  PROVE  IInv'
BY DEF Stop, vars, environment, IInv, Plain, Processes

-----------------------------------------------------------------------------

LEMMA Initially ==
  ASSUME Init
  PROVE  IInv
<1>1. \A q \in Process : Sound(proc[q], bucket, rows)
  BY IdleIs, Resting DEF Init, Process
<1>2. proc = [q \in Process |-> proc[q]]
  BY DEF Init, Process
<1>3. 0 \in 0..MaxChanges /\ 0 \in 0..MaxFaults
  BY SyncAssumption
<1>4. Plain
  BY <1>3 DEF Init, Plain
<1> QED
  BY <1>1, <1>2, <1>4 DEF IInv, Processes

LEMMA Inductive ==
  ASSUME IInv, [Next]_vars
  PROVE  IInv'
<1>1. Loop \in Process /\ Reader \subseteq Process
  BY DEF Process
<1>2. CASE LoopStep
  BY <1>1, <1>2, ListPreserves, WritePreserves, SyncFailsPreserves, LoopPreserves DEF LoopStep
<1>3. CASE Stop \/ UNCHANGED vars
  BY <1>3, StopPreserves
<1>4. ASSUME NEW p \in Reader, ReaderStep(p)
      PROVE  IInv'
  BY <1>1, <1>4, ListPreserves, WritePreserves, SyncFailsPreserves, RelistPreserves, StreamPreserves,
     EndPreserves DEF ReaderStep
<1>5. ASSUME NEW p \in Reader, NEW d \in Dir, Readdir(p, d)
      PROVE  IInv'
  BY <1>5, ReaddirPreserves
<1>6. ASSUME NEW n \in Name, ObjectPut(n) \/ ObjectDeleted(n) \/ RowPut(n) \/ RowsDeleted({n})
      PROVE  IInv'
  <2>1. {n} \in SUBSET Name
    OBVIOUS
  <2> QED
    BY <1>6, <2>1, BucketPreserves, RowsPreserve
<1>7. ASSUME NEW d \in Dir \ {Root}, RowsDeleted(Like[d])
      PROVE  IInv'
  <2>1. Like[d] \in SUBSET Name
    BY NamespaceAssumption
  <2> QED
    BY <1>7, <2>1, RowsPreserve
<1> QED
  BY <1>2, <1>3, <1>4, <1>5, <1>6, <1>7 DEF Next

(* The invariant holds in every state of the sync, the readers and the others.  *)
THEOREM Invariance == Spec => []IInv
<1>1. Init => IInv
  BY Initially
<1>2. IInv /\ [Next]_vars => IInv'
  BY Inductive
<1> QED
  BY <1>1, <1>2, PTL DEF Spec

(* Every variable keeps its type, and what a process has in hand or shows is of    *)
(* the directory it lists: ListObjects leaves out the directory's own marker.    *)
THEOREM Typing == Spec => []TypeOK
<1>1. IInv => TypeOK
  BY Meaning
<1> QED
  BY <1>1, Invariance, PTL

(* No reader misses a name that stayed in the directory while SyncPrefix, or the   *)
(* stream after it failed, listed it, however many pages that took and whatever    *)
(* was put in the bucket or the table or deleted from them meanwhile.           *)
THEOREM ListingMissesNothing == Spec => []ListingComplete
<1>1. IInv => ListingComplete
  BY Meaning
<1> QED
  BY <1>1, Invariance, PTL

(* The sync loop misses none either: what stayed in a directory while the loop       *)
(* listed it is in the table when the loop goes on to the next, unless a request       *)
(* failed or the gateway is stopping.                                          *)
THEOREM PassMissesNothing == Spec => []PassComplete
<1>1. IInv => PassComplete
  BY Meaning
<1> QED
  BY <1>1, Invariance, PTL
=============================================================================
