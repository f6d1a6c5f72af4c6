------------------------------ MODULE Catalog -------------------------------
(***************************************************************************)
(* catalog/catalog.go with dircache.go and store.go: the table of names in   *)
(* SQLite, the two caches in front of it and the singleflight group that      *)
(* shares its reads.                                                        *)
(*                                                                         *)
(* A call is a sequence of steps, each of which is atomic in the code: a       *)
(* query or a transaction on the table, or an operation of a cache under its   *)
(* mutex.  A row is the number of the write it comes from, which stands for     *)
(* its size, ETag and time.  An answer is a set of rows with their names.  The   *)
(* directory cache holds answers to "list" questions; the negative cache holds  *)
(* the empty answer to "name" questions.  An entry of either may expire at any  *)
(* time: NegCache has the clock.                                             *)
(***************************************************************************)
EXTENDS Namespace, Naturals, SequencesExt

CONSTANTS
  Caller,     \* goroutines: FUSE requests, and the sync loop's for the bucket
  MaxWrites,  \* bound on the number of writes to the table
  Nil

ASSUME CatalogAssumption == Nil \notin Caller /\ MaxWrites \in Nat \ {0}

VARIABLES
  table,   \* the row of each name, 0 for none
  cached,  \* the answer in a cache to each question, or Nil
  flight,  \* the call that reads the table for each question, or Nil
  call,    \* the calls
  writes,  \* the number of writes so far
  excused  \* history: the questions whose cached answer was wrong when it was
           \* cached, or made wrong by a call that does not drop it

vars == <<table, cached, flight, call, writes, excused>>

NameQ(n) == <<"name", n>>
ListQ(d) == <<"list", d>>
Question == {NameQ(n) : n \in Name} \union {ListQ(d) : d \in Dir}
AllLists == {ListQ(d) : d \in Dir}

(* owed: the answers the call has yet to drop from the caches, in order. *)
Idle == [at |-> "idle", q |-> Nil, answer |-> {}, owed |-> <<>>]

(* The table is on disk: it starts with what the last process left. *)
Init ==
  /\ table \in [Name -> 0..1]
  /\ cached = [q \in Question |-> Nil]
  /\ flight = [q \in Question |-> Nil]
  /\ call = [c \in Caller |-> Idle]
  /\ writes = 1
  /\ excused = {}

(* Store.Lookup and Store.ListDir. *)
Answer(q) ==
  LET present == {n \in Name : table[n] # 0} IN
  {<<n, table[n]>> : n \in IF q[1] = "list" THEN Children(present, q[2])
                           ELSE present \intersect {q[2]}}

Step(c, from, to) ==
  /\ call[c].at = from
  /\ call' = [call EXCEPT ![c] = IF to = "idle" THEN Idle ELSE [@ EXCEPT !.at = to]]

Held == {q \in Question : cached[q] # Nil}

Cache(q, answer) ==
  /\ cached' = [cached EXCEPT ![q] = answer]
  /\ excused' = IF answer = Answer(q) THEN excused \ {q} ELSE excused \union {q}

-----------------------------------------------------------------------------
(* Lookup and ListDir. *)

(* A hit in the negative cache, or in the directory cache for a listing, ends  *)
(* the call and changes nothing.                                             *)
Ask(c, q) ==
  /\ call[c].at = "idle"
  /\ cached[q] = Nil
  /\ call' = [call EXCEPT ![c] = [Idle EXCEPT !.at = IF q[1] = "list" THEN "fly" ELSE "parent",
                                              !.q = q]]
  /\ UNCHANGED <<table, cached, flight, writes, excused>>

(* The cached listing of the parent answers a Lookup if it has the name. *)
ListedInParent(n) ==
  /\ cached[ListQ(Parent[n])] # Nil
  /\ \E row \in cached[ListQ(Parent[n])] : row[1] = n

LookParent(c) ==
  /\ Step(c, "parent", IF ListedInParent(call[c].q[2]) THEN "idle" ELSE "fly")
  /\ UNCHANGED <<table, cached, flight, writes, excused>>

(* singleflight.Do: the first call reads, and those that come before its         *)
(* function has returned wait for its answer.                                   *)
Lead(c) ==
  /\ Step(c, "fly", "read")
  /\ flight[call[c].q] = Nil
  /\ flight' = [flight EXCEPT ![call[c].q] = c]
  /\ UNCHANGED <<table, cached, writes, excused>>

Join(c) ==
  /\ Step(c, "fly", "wait")
  /\ flight[call[c].q] # Nil
  /\ UNCHANGED <<table, cached, flight, writes, excused>>

Read(c) ==
  /\ call[c].at = "read"
  /\ call' = [call EXCEPT ![c].at = IF call[c].q[1] = "list" THEN "set" ELSE "land",
                          ![c].answer = Answer(call[c].q)]
  /\ UNCHANGED <<table, cached, flight, writes, excused>>

(* Only ListDir caches inside the function that is shared. *)
SetListing(c) ==
  /\ Step(c, "set", "land")
  /\ Cache(call[c].q, call[c].answer)
  /\ UNCHANGED <<table, flight, writes>>

(* The function returns: its answer is that of all who wait. *)
Sharing(c) == {b \in DOMAIN call : b = c \/ (call[b].at = "wait" /\ call[b].q = call[c].q)}

Land(c) ==
  /\ call[c].at = "land"
  /\ call' = [b \in DOMAIN call |->
                IF b \notin Sharing(c) THEN call[b]
                ELSE [call[b] EXCEPT !.at = "answer", !.answer = call[c].answer]]
  /\ flight' = [flight EXCEPT ![call[c].q] = Nil]
  /\ UNCHANGED <<table, cached, writes, excused>>

(* Every Lookup that found nothing says so to the negative cache. *)
Return(c) ==
  LET q == call[c].q IN
  /\ Step(c, "answer", "idle")
  /\ IF q[1] = "name" /\ call[c].answer = {} THEN Cache(q, {}) ELSE UNCHANGED <<cached, excused>>
  /\ UNCHANGED <<table, flight, writes>>

-----------------------------------------------------------------------------
(* Changes of the table. *)

Write(names) ==
  /\ writes < MaxWrites
  /\ writes' = writes + 1
  /\ table' = [n \in Name |-> IF n \in names THEN writes + 1 ELSE table[n]]

(* Mutant: the parent is looked up among the names. *)
OwedForNames(s) == [i \in 1..Len(s) |-> {NameQ(s[i])}]

(* What PutBatch drops from the caches for entries of one directory: each name,   *)
(* and the directory's listing when it first comes to it.                       *)
OwedFor(s) ==
  <<{NameQ(s[1])}, {ListQ(Parent[s[1]])}>> \o [i \in 1..(Len(s) - 1) |-> {NameQ(s[i + 1])}]

Owing(c, owed) == [Idle EXCEPT !.at = IF owed = <<>> THEN "idle" ELSE "forget", !.owed = owed]

(* Put is a PutBatch of one. *)
PutBatch(c, s) ==
  /\ call[c].at = "idle"
  /\ Write(ToSet(s))
  /\ call' = [call EXCEPT ![c] = Owing(c, OwedFor(s))]
  /\ UNCHANGED <<cached, flight, excused>>

(* Delete looks for the entry first, to know whether there is a listing to      *)
(* drop.  A look that fails has found nothing.                                 *)
DeleteLook(c, n) ==
  /\ call[c].at = "idle"
  /\ \E answer \in {Answer(NameQ(n)), {}} :
       call' = [call EXCEPT ![c] = [Idle EXCEPT !.at = "delete", !.q = NameQ(n), !.answer = answer]]
  /\ UNCHANGED <<table, cached, flight, writes, excused>>

DeleteRow(c) ==
  LET q == call[c].q
      l == ListQ(Parent[q[2]])
      found == call[c].answer # {} IN
  /\ call[c].at = "delete"
  /\ table' = [table EXCEPT ![q[2]] = 0]
  /\ call' = [call EXCEPT ![c] = Owing(c, <<{q}>> \o IF found THEN <<{l}>> ELSE <<>>)]
  /\ excused' = IF found THEN excused ELSE excused \union ({l} \intersect Held)
  /\ UNCHANGED <<cached, flight, writes>>

NamesUnder(d) == {NameQ(n) : n \in Under(d)}

DeletePrefix(c, d) ==
  /\ call[c].at = "idle"
  /\ table' = [n \in Name |-> IF n \in Like[d] THEN 0 ELSE table[n]]
  /\ call' = [call EXCEPT ![c] = Owing(c, <<NamesUnder(d), AllLists>>)]
  /\ UNCHANGED <<cached, flight, writes, excused>>

(* The sync writes the table by itself, page by page, and drops answers at the  *)
(* end: SyncPrefix those of its directory, the loop all listings and no name.    *)
(* A call that fails on a later page, or is stopped, drops none.                *)
SyncPrefix(c, d) ==
  /\ call[c].at = "idle"
  /\ call' = [call EXCEPT ![c] = [Idle EXCEPT !.at = "sync",
                                              !.owed = <<{ListQ(d)}, NamesUnder(d)>>]]
  /\ UNCHANGED <<table, cached, flight, writes, excused>>

SyncBucket(c) ==
  /\ call[c].at = "idle"
  /\ \A b \in Caller : call[b].at = "sync" => call[b].owed # <<AllLists>>
  /\ call' = [call EXCEPT ![c] = [Idle EXCEPT !.at = "sync", !.owed = <<AllLists>>]]
  /\ UNCHANGED <<table, cached, flight, writes, excused>>

Owed(c) == UNION ToSet(call[c].owed)

Touches(names) == {NameQ(n) : n \in names} \union {ListQ(Parent[n]) : n \in names}

SyncPage(c, names) ==
  /\ call[c].at = "sync"
  /\ \E d \in Dir : ListQ(d) \in Owed(c) /\ names \subseteq Children(Name, d)
  /\ Write(names)
  /\ excused' = excused \union ((Touches(names) \intersect Held) \ Owed(c))
  /\ UNCHANGED <<cached, flight, call>>

SyncEnds(c) ==
  /\ Step(c, "sync", "forget")
  /\ UNCHANGED <<table, cached, flight, writes, excused>>

SyncFails(c) ==
  /\ Step(c, "sync", "idle")
  /\ excused' = excused \union (Owed(c) \intersect Held)
  /\ UNCHANGED <<table, cached, flight, writes>>

(* negCache.Remove and RemovePrefix, dirCache.Invalidate and InvalidateAll. *)
Forget(c) ==
  LET out == Head(call[c].owed) IN
  /\ call[c].at = "forget"
  /\ call' = [call EXCEPT ![c] = Owing(c, Tail(@.owed))]
  /\ cached' = [q \in Question |-> IF q \in out THEN Nil ELSE cached[q]]
  /\ excused' = excused \ out
  /\ UNCHANGED <<table, flight, writes>>

(* Mutant: listings have no expiry. *)
ExpireNames(q) ==
  /\ cached[q] # Nil /\ q[1] = "name"
  /\ cached' = [cached EXCEPT ![q] = Nil]
  /\ excused' = excused \ {q}
  /\ UNCHANGED <<table, flight, call, writes>>

Expire(q) ==
  /\ cached[q] # Nil
  /\ cached' = [cached EXCEPT ![q] = Nil]
  /\ excused' = excused \ {q}
  /\ UNCHANGED <<table, flight, call, writes>>

-----------------------------------------------------------------------------

(* A request puts one name, or what it listed of a directory: prefixes first. *)
Batches ==
  {<<n>> : n \in Name} \union
  {<<m, n>> : m \in Dir \ {Root}, n \in File}

OfOneDirectory(s) == \A i \in DOMAIN s : Parent[s[i]] = Parent[s[1]]

Begin(c) ==
  \/ \E q \in Question : Ask(c, q)
  \/ \E s \in Batches : OfOneDirectory(s) /\ PutBatch(c, s)
  \/ \E n \in Name : DeleteLook(c, n)
  \/ \E d \in Dir \ {Root} : DeletePrefix(c, d)
  \/ \E d \in Dir : SyncPrefix(c, d)
  \/ SyncBucket(c)

Continue(c) ==
  \/ LookParent(c) \/ Lead(c) \/ Join(c) \/ Read(c) \/ SetListing(c) \/ Land(c) \/ Return(c)
  \/ DeleteRow(c)
  \/ SyncEnds(c) \/ SyncFails(c)
  \/ Forget(c)

Next ==
  \/ \E c \in Caller :
       Begin(c) \/ Continue(c) \/ \E names \in SUBSET Name \ {{}} : SyncPage(c, names)
  \/ \E q \in Question : Expire(q)

(* A call that has begun goes on, and what is cached expires. *)
Fairness ==
  /\ \A c \in Caller : WF_vars(Continue(c))
  /\ \A q \in Question : WF_vars(Expire(q))

Spec == Init /\ [][Next]_vars /\ Fairness

-----------------------------------------------------------------------------
(* Properties.                                                             *)

TypeOK ==
  /\ table \in [Name -> 0..MaxWrites]
  /\ writes \in 0..MaxWrites
  /\ cached \in [Question -> {Nil} \union SUBSET (Name \X (1..MaxWrites))]
  /\ \A n \in Name : cached[NameQ(n)] \in {Nil, {}}
  /\ flight \in [Question -> Caller \union {Nil}]
  /\ call \in [Caller -> [at : {"idle", "parent", "fly", "wait", "read", "set", "land", "answer",
                                "delete", "sync", "forget"},
                          q : Question \union {Nil},
                          answer : SUBSET (Name \X (1..MaxWrites)),
                          owed : Seq(SUBSET Question)]]
  /\ excused \subseteq Question

(* What the caches say is what the table says, but for what a call is about     *)
(* to drop and for the answers in excused: those that were read before a write    *)
(* and cached after it, those a Delete did not know to be there, names found by  *)
(* the sync loop, and those of a sync that failed half way.                     *)
CacheErrorsExplained ==
  \A q \in Question :
    cached[q] \notin {Nil, Answer(q)} =>
      q \in excused \/ \E c \in Caller : q \in Owed(c)

(* One read of the table at a time for a question, and it answers everyone      *)
(* who waits.                                                                *)
OneFlight ==
  \A c \in Caller :
    /\ call[c].at \in {"read", "set", "land"} => flight[call[c].q] = c
    /\ call[c].at = "wait" => flight[call[c].q] # Nil

(* A wrong answer does not stay: once the table is left alone the caches come    *)
(* to agree with it for good.                                                 *)
CachesHeal == <>[](\A q \in Question : cached[q] \in {Nil, Answer(q)})

=============================================================================
