--------------------------- MODULE CatalogProofs ----------------------------
(***************************************************************************)
(* The caches of the catalog, for any tree of names and any callers: every   *)
(* way in which a cached answer can differ from the table is one that          *)
(* CacheErrorsExplained names, and a question is read by one call at a time.    *)
(***************************************************************************)
EXTENDS Catalog, TLAPS

CallType ==
  [at : {"idle", "parent", "fly", "wait", "read", "set", "land", "answer",
         "delete", "sync", "forget"},
   q : Question \union {Nil},
   answer : SUBSET (Name \X (1..MaxWrites)),
   owed : Seq(SUBSET Question)]

(* A call has a question while it looks for an answer, and answers to drop only   *)
(* after it has written.                                                      *)
CallOK(r) ==
  /\ r.at \in {"sync", "forget"} <=> r.owed # <<>>
  /\ r.at \in {"parent", "fly", "wait", "read", "set", "land", "answer", "delete"} =>
       r.q \in Question
  /\ r.at = "set" => r.q[1] = "list"
  /\ r.at \in {"parent", "delete"} => r.q[1] = "name"

Calls == \A c \in Caller : CallOK(call[c])

(* Who reads, and who waits, does so in the flight of its question. *)
InFlight(c, r) ==
  /\ r.at \in {"read", "set", "land"} => flight[r.q] = c
  /\ r.at = "wait" => flight[r.q] # Nil

CInv == TypeOK /\ Calls /\ OneFlight /\ CacheErrorsExplained

-----------------------------------------------------------------------------
(* Questions and answers. *)

LEMMA QuestionKinds ==
  ASSUME NEW q \in Question
  PROVE  /\ q[1] = "name" => q[2] \in Name /\ q = NameQ(q[2])
         /\ q[1] = "list" => q[2] \in Dir /\ q = ListQ(q[2])
         /\ q[1] \in {"name", "list"}
BY DEF Question, NameQ, ListQ

LEMMA TwoKinds ==
  ASSUME NEW n, NEW d
  PROVE  NameQ(n) # ListQ(d) /\ NameQ(n)[1] = "name" /\ ListQ(d)[1] = "list"
         /\ NameQ(n)[2] = n /\ ListQ(d)[2] = d
BY DEF NameQ, ListQ

LEMMA ParentIsDir ==
  ASSUME NEW n \in Name
  PROVE  Parent[n] \in Dir /\ NameQ(n) \in Question /\ ListQ(Parent[n]) \in Question
BY NamespaceAssumption DEF Question

LEMMA AnswerType ==
  ASSUME table \in [Name -> 0..MaxWrites], MaxWrites \in Nat, NEW q
  PROVE  Answer(q) \in SUBSET (Name \X (1..MaxWrites))
BY DEF Answer, Children

(* A write of some names changes the answers only to the questions it touches. *)
LEMMA AnswerFrame ==
  ASSUME NEW names, NEW q \in Question, q \notin Touches(names), names \subseteq Name,
         \A n \in Name \ names : table'[n] = table[n]
  PROVE  Answer(q)' = Answer(q)
<1>1. CASE q[1] = "name"
  <2>1. q[2] \in Name /\ q[2] \notin names
    BY <1>1, QuestionKinds DEF Touches
  <2> QED
    BY <1>1, <2>1 DEF Answer
<1>2. CASE q[1] = "list"
  <2>1. \A n \in names : Parent[n] # q[2]
    BY <1>2, QuestionKinds DEF Touches
  <2> QED
    BY <1>2, <2>1 DEF Answer, Children
<1> QED
  BY <1>1, <1>2, QuestionKinds

(* Answers depend on the table alone. *)
LEMMA AnswerSame ==
  ASSUME UNCHANGED table, NEW q
  PROVE  Answer(q)' = Answer(q)
BY DEF Answer

-----------------------------------------------------------------------------
(* What a call owes. *)

LEMMA OwedHeadTail ==
  ASSUME NEW s \in Seq(SUBSET Question), s # <<>>
  PROVE  /\ Head(s) \in SUBSET Question
         /\ Tail(s) \in Seq(SUBSET Question)
         /\ UNION ToSet(s) \subseteq Head(s) \union UNION ToSet(Tail(s))
         /\ UNION ToSet(Tail(s)) \subseteq UNION ToSet(s)
<1>1. /\ Len(s) \in Nat /\ Len(s) > 0
      /\ DOMAIN s = 1..Len(s) /\ \A i \in 1..Len(s) : s[i] \in SUBSET Question
      /\ Head(s) = s[1]
  OBVIOUS
<1>2. /\ Tail(s) \in Seq(SUBSET Question) /\ DOMAIN Tail(s) = 1..(Len(s) - 1)
      /\ \A i \in 1..(Len(s) - 1) : Tail(s)[i] = s[i + 1]
  BY <1>1
<1>3. ASSUME NEW i \in 1..Len(s), NEW q \in s[i]
      PROVE  q \in Head(s) \union UNION ToSet(Tail(s))
  <2>1. CASE i = 1
    BY <1>1, <1>3, <2>1
  <2>2. CASE i # 1
    <3>1. i - 1 \in DOMAIN Tail(s) /\ Tail(s)[i - 1] = s[i]
      BY <1>1, <1>2, <2>2
    <3> QED
      BY <1>3, <3>1 DEF ToSet
  <2> QED
    BY <2>1, <2>2
<1>4. ASSUME NEW i \in 1..(Len(s) - 1), NEW q \in Tail(s)[i]
      PROVE  q \in UNION ToSet(s)
  <2>1. i + 1 \in DOMAIN s /\ q \in s[i + 1]
    BY <1>1, <1>2, <1>4
  <2> QED
    BY <2>1 DEF ToSet
<1> QED
  BY <1>1, <1>2, <1>3, <1>4 DEF ToSet

LEMMA OwedOne ==
  ASSUME NEW A \in SUBSET Question
  PROVE  /\ <<A>> \in Seq(SUBSET Question)
         /\ UNION ToSet(<<A>>) = A
BY DEF ToSet

LEMMA OwedTwo ==
  ASSUME NEW A \in SUBSET Question, NEW B \in SUBSET Question
  PROVE  /\ <<A, B>> \in Seq(SUBSET Question)
         /\ UNION ToSet(<<A, B>>) = A \union B
BY DEF ToSet

(* PutBatch owes every question that its entries touch. *)
LEMMA BatchOwes ==
  ASSUME NEW s \in Seq(Name), s # <<>>, OfOneDirectory(s)
  PROVE  /\ OwedFor(s) \in Seq(SUBSET Question)
         /\ OwedFor(s) # <<>>
         /\ Touches(ToSet(s)) \subseteq UNION ToSet(OwedFor(s))
<1> DEFINE first == <<{NameQ(s[1])}, {ListQ(Parent[s[1]])}>>
           rest  == [i \in 1..(Len(s) - 1) |-> {NameQ(s[i + 1])}]
<1>1. Len(s) \in Nat /\ Len(s) > 0 /\ \A i \in 1..Len(s) : s[i] \in Name
  OBVIOUS
<1>2. first \in Seq(SUBSET Question)
  BY <1>1, ParentIsDir
<1>3. rest \in Seq(SUBSET Question) /\ Len(rest) = Len(s) - 1
  BY <1>1, ParentIsDir
<1>4. /\ OwedFor(s) = first \o rest
      /\ OwedFor(s) \in Seq(SUBSET Question)
      /\ Len(OwedFor(s)) = Len(s) + 1
      /\ OwedFor(s)[1] = {NameQ(s[1])} /\ OwedFor(s)[2] = {ListQ(Parent[s[1]])}
      /\ \A i \in 2..Len(s) : OwedFor(s)[i + 1] = {NameQ(s[i])}
  <2>1. OwedFor(s) = first \o rest
    BY DEF OwedFor
  <2>2. Len(first) = 2 /\ first[1] = {NameQ(s[1])} /\ first[2] = {ListQ(Parent[s[1]])}
    OBVIOUS
  <2>3. \A i \in 2..Len(s) : rest[i - 1] = {NameQ(s[i])}
    BY <1>1
  <2>4. \A i \in 2..Len(s) : (first \o rest)[i + 1] = rest[i - 1]
    BY <1>1, <1>2, <1>3, <2>2
  <2>5. /\ first \o rest \in Seq(SUBSET Question) /\ Len(first \o rest) = Len(s) + 1
        /\ (first \o rest)[1] = first[1] /\ (first \o rest)[2] = first[2]
    BY <1>1, <1>2, <1>3, <2>2
  <2> HIDE DEF first, rest
  <2> QED
    BY <2>1, <2>2, <2>3, <2>4, <2>5
<1> HIDE DEF first, rest
<1>5. ASSUME NEW i \in 1..Len(s)
      PROVE  NameQ(s[i]) \in UNION ToSet(OwedFor(s)) /\ ListQ(Parent[s[i]]) \in UNION ToSet(OwedFor(s))
  <2>1. Parent[s[i]] = Parent[s[1]]
    BY DEF OfOneDirectory
  <2>2. 1 \in DOMAIN OwedFor(s) /\ 2 \in DOMAIN OwedFor(s) /\ i + 1 \in DOMAIN OwedFor(s)
    BY <1>1, <1>4
  <2>3. ListQ(Parent[s[i]]) \in OwedFor(s)[2]
    BY <1>4, <2>1
  <2>4. CASE i = 1
    BY <1>4, <2>2, <2>3, <2>4 DEF ToSet
  <2>5. CASE i # 1
    <3>1. i \in 2..Len(s)
      BY <1>1, <2>5
    <3>2. OwedFor(s)[i + 1] = {NameQ(s[i])}
      BY <1>4, <3>1
    <3> QED
      BY <3>2, <2>2, <2>3 DEF ToSet
  <2> QED
    BY <2>4, <2>5
<1>6. \A n \in ToSet(s) : \E i \in 1..Len(s) : n = s[i]
  BY <1>1 DEF ToSet
<1>7. Touches(ToSet(s)) \subseteq UNION ToSet(OwedFor(s))
  BY <1>5, <1>6 DEF Touches
<1>8. OwedFor(s) # <<>>
  BY <1>1, <1>4
<1> QED
  BY <1>4, <1>7, <1>8

-----------------------------------------------------------------------------
(* Steps that change neither the table nor a cache. *)

LEMMA OwedFrame ==
  ASSUME NEW c \in Caller, call'[c].owed = call[c].owed
  PROVE  Owed(c)' = Owed(c)
BY DEF Owed

LEMMA CacheFrame ==
  ASSUME CacheErrorsExplained, UNCHANGED <<table, cached>>, excused \subseteq excused',
         \A c \in Caller : \A q \in Owed(c) : q \in Owed(c)' \/ q \in excused' \/ cached[q] = Nil
  PROVE  CacheErrorsExplained'
<1> SUFFICES ASSUME NEW q \in Question, cached'[q] \notin {Nil, Answer(q)'}
             PROVE  q \in excused' \/ \E c \in Caller : q \in Owed(c)'
  BY DEF CacheErrorsExplained
<1>1. cached[q] \notin {Nil, Answer(q)}
  BY AnswerSame
<1>2. q \in excused \/ \E c \in Caller : q \in Owed(c)
  BY <1>1 DEF CacheErrorsExplained
<1> QED
  BY <1>1, <1>2

(* A step of one call, which becomes r. *)
LEMMA OneCall ==
  ASSUME TypeOK, Calls, NEW c \in Caller, NEW r \in CallType, CallOK(r),
         call' = [call EXCEPT ![c] = r]
  PROVE  /\ call' \in [Caller -> CallType] /\ Calls'
         /\ call'[c] = r /\ \A b \in Caller \ {c} : call'[b] = call[b]
<1>1. call \in [Caller -> CallType]
  BY DEF TypeOK, CallType
<1>2. /\ call' \in [Caller -> CallType]
      /\ call'[c] = r /\ \A b \in Caller \ {c} : call'[b] = call[b]
  BY <1>1
<1>3. ASSUME NEW b \in Caller
      PROVE  CallOK(call'[b])
  BY <1>2 DEF Calls
<1>4. Calls'
  BY <1>3 DEF Calls, CallOK
<1> QED
  BY <1>2, <1>4

LEMMA FlightFrame ==
  ASSUME OneFlight, NEW c \in Caller, UNCHANGED flight, InFlight(c, call'[c]),
         \A b \in Caller \ {c} : call'[b] = call[b]
  PROVE  OneFlight'
BY DEF OneFlight, InFlight

(* What Step makes of a call. *)
LEMMA StepTo ==
  ASSUME TypeOK, NEW c \in Caller, NEW from, NEW to, Step(c, from, to), CallOK(call[c]),
         to \in {"idle", "fly", "read", "wait", "land", "forget"}
  PROVE  \E r \in CallType :
           /\ call' = [call EXCEPT ![c] = r]
           /\ to = "idle" => r = Idle
           /\ to # "idle" => r = [call[c] EXCEPT !.at = to]
           /\ call[c].at = from
<1>1. call[c] \in CallType
  BY DEF TypeOK, CallType
<1>2. Idle \in CallType
  BY DEF Idle, CallType
<1>3. to # "idle" => [call[c] EXCEPT !.at = to] \in CallType
  BY <1>1 DEF CallType
<1>4. CASE to = "idle"
  BY <1>2, <1>4 DEF Step
<1>5. CASE to # "idle"
  BY <1>3, <1>5 DEF Step
<1> QED
  BY <1>4, <1>5

LEMMA QuietSteps ==
  ASSUME CInv, NEW c \in Caller,
         \/ \E q \in Question : Ask(c, q)
         \/ LookParent(c) \/ Lead(c) \/ Join(c) \/ Read(c) \/ Land(c)
         \/ \E n \in Name : DeleteLook(c, n)
  PROVE  CInv'
<1> USE CatalogAssumption DEF CInv
<1>1. UNCHANGED <<table, cached, writes, excused>>
  BY DEF Ask, LookParent, Lead, Join, Read, Land, DeleteLook
<1>2. call \in [Caller -> CallType] /\ CallOK(call[c]) /\ Idle \in CallType
  BY DEF TypeOK, CallType, Calls, Idle
<1> DEFINE Goal ==
      /\ call' \in [Caller -> CallType] /\ Calls' /\ OneFlight'
      /\ flight' \in [Question -> Caller \union {Nil}]
      /\ \A b \in Caller : call'[b].owed = call[b].owed
<1>3. Goal
  <2>1. ASSUME NEW r \in CallType, CallOK(r), InFlight(c, r), call' = [call EXCEPT ![c] = r],
               r.owed = call[c].owed, UNCHANGED flight
        PROVE  Goal
    <3>1. /\ call' \in [Caller -> CallType] /\ Calls'
          /\ call'[c] = r /\ \A b \in Caller \ {c} : call'[b] = call[b]
      BY <2>1, OneCall
    <3>2. OneFlight'
      BY <2>1, <3>1, FlightFrame
    <3> QED
      BY <2>1, <3>1, <3>2 DEF TypeOK
  <2>2. ASSUME NEW q \in Question, Ask(c, q)
        PROVE  Goal
    <3> DEFINE r == [Idle EXCEPT !.at = IF q[1] = "list" THEN "fly" ELSE "parent", !.q = q]
    <3>1. r \in CallType /\ CallOK(r) /\ InFlight(c, r) /\ r.owed = <<>>
      BY <1>2, QuestionKinds DEF Idle, CallType, CallOK, InFlight
    <3>2. call' = [call EXCEPT ![c] = r] /\ call[c].owed = <<>> /\ UNCHANGED flight
      BY <1>2, <2>2 DEF Ask, CallOK
    <3> HIDE DEF r
    <3> QED
      BY <2>1, <3>1, <3>2
  <2>3. ASSUME NEW n \in Name, DeleteLook(c, n)
        PROVE  Goal
    <3>0. PICK answer \in {Answer(NameQ(n)), {}} :
            call' = [call EXCEPT ![c] = [Idle EXCEPT !.at = "delete", !.q = NameQ(n), !.answer = answer]]
      BY <2>3 DEF DeleteLook
    <3> DEFINE r == [Idle EXCEPT !.at = "delete", !.q = NameQ(n), !.answer = answer]
    <3>1. answer \in SUBSET (Name \X (1..MaxWrites))
      BY <3>0, AnswerType DEF TypeOK
    <3>2. r \in CallType /\ CallOK(r) /\ InFlight(c, r) /\ r.owed = <<>>
      BY <1>2, <3>1, ParentIsDir, TwoKinds DEF Idle, CallType, CallOK, InFlight
    <3>3. call' = [call EXCEPT ![c] = r] /\ call[c].owed = <<>> /\ UNCHANGED flight
      BY <1>2, <2>3, <3>0 DEF DeleteLook, CallOK
    <3> HIDE DEF r
    <3> QED
      BY <2>1, <3>2, <3>3
  <2>4. CASE LookParent(c)
    <3>1. PICK r \in CallType :
            /\ call' = [call EXCEPT ![c] = r]
            /\ r = Idle \/ r = [call[c] EXCEPT !.at = "fly"]
            /\ call[c].at = "parent" /\ UNCHANGED flight
      BY <1>2, <2>4, StepTo DEF LookParent
    <3>2. CallOK(r) /\ InFlight(c, r) /\ r.owed = call[c].owed
      BY <1>2, <3>1 DEF Idle, CallOK, InFlight, CallType
    <3> QED
      BY <2>1, <3>1, <3>2
  <2>5. CASE Join(c)
    <3>1. PICK r \in CallType :
            /\ call' = [call EXCEPT ![c] = r]
            /\ r = [call[c] EXCEPT !.at = "wait"]
            /\ call[c].at = "fly" /\ flight[call[c].q] # Nil /\ UNCHANGED flight
      BY <1>2, <2>5, StepTo DEF Join
    <3>2. CallOK(r) /\ InFlight(c, r) /\ r.owed = call[c].owed
      BY <1>2, <3>1 DEF CallOK, InFlight, CallType
    <3> QED
      BY <2>1, <3>1, <3>2
  <2>6. CASE Read(c)
    <3> DEFINE r == [call[c] EXCEPT !.at = IF call[c].q[1] = "list" THEN "set" ELSE "land",
                                    !.answer = Answer(call[c].q)]
    <3>1. Answer(call[c].q) \in SUBSET (Name \X (1..MaxWrites))
      BY AnswerType DEF TypeOK
    <3>2. call[c].at = "read" /\ flight[call[c].q] = c
      BY <2>6 DEF Read, OneFlight
    <3>3. r \in CallType /\ CallOK(r) /\ InFlight(c, r) /\ r.owed = call[c].owed
      BY <1>2, <3>1, <3>2 DEF CallType, CallOK, InFlight
    <3>4. call' = [call EXCEPT ![c] = r] /\ UNCHANGED flight
      BY <1>2, <2>6 DEF Read, CallType
    <3> HIDE DEF r
    <3> QED
      BY <2>1, <3>3, <3>4
  <2>7. CASE Lead(c)
    <3>1. PICK r \in CallType :
            /\ call' = [call EXCEPT ![c] = r]
            /\ r = [call[c] EXCEPT !.at = "read"]
            /\ call[c].at = "fly" /\ flight[call[c].q] = Nil
            /\ flight' = [flight EXCEPT ![call[c].q] = c]
      BY <1>2, <2>7, StepTo DEF Lead
    <3>2. CallOK(r) /\ r.owed = call[c].owed /\ r.at = "read" /\ r.q = call[c].q /\ r.q \in Question
      BY <1>2, <3>1 DEF CallOK, CallType
    <3>3. /\ call' \in [Caller -> CallType] /\ Calls'
          /\ call'[c] = r /\ \A b \in Caller \ {c} : call'[b] = call[b]
      BY <3>1, <3>2, OneCall
    <3>4. flight' \in [Question -> Caller \union {Nil}]
      BY <3>1, <3>2 DEF TypeOK
    <3>5. OneFlight'
      BY <3>1, <3>2, <3>3 DEF OneFlight, TypeOK
    <3> QED
      BY <3>2, <3>3, <3>4, <3>5
  <2>8. CASE Land(c)
    <3>1. ASSUME NEW b \in Caller
          PROVE  /\ call'[b] = call[b] \/ call'[b] = [call[b] EXCEPT !.at = "answer", !.answer = call[c].answer]
                 /\ b \in Sharing(c) => call'[b].at = "answer"
                 /\ b \notin Sharing(c) => call'[b] = call[b]
                 /\ call'[b].owed = call[b].owed
                 /\ call'[b] \in CallType
                 /\ CallOK(call'[b])
      <4>1. call[b] \in CallType /\ CallOK(call[b])
        BY <1>2 DEF Calls
      <4>2. call'[b] = IF b \notin Sharing(c) THEN call[b]
                       ELSE [call[b] EXCEPT !.at = "answer", !.answer = call[c].answer]
        BY <1>2, <2>8 DEF Land
      <4>3. b \in Sharing(c) => call[b].at \in {"land", "wait"}
        BY <2>8 DEF Sharing, Land
      <4>4. [call[b] EXCEPT !.at = "answer", !.answer = call[c].answer] \in CallType
        BY <1>2, <4>1 DEF CallType
      <4> QED
        BY <4>1, <4>2, <4>3, <4>4 DEF CallOK, CallType
    <3>2. call' \in [Caller -> CallType]
      BY <1>2, <2>8, <3>1 DEF Land
    <3>3. Calls'
      BY <3>1 DEF Calls, CallOK
    <3>4. call[c].q \in Question /\ flight' = [flight EXCEPT ![call[c].q] = Nil]
      BY <1>2, <2>8 DEF Land, CallOK
    <3>5. OneFlight'
      <4> SUFFICES ASSUME NEW b \in Caller, b \notin Sharing(c)
                   PROVE  /\ call[b].at \in {"read", "set", "land"} => flight'[call[b].q] = b
                          /\ call[b].at = "wait" => flight'[call[b].q] # Nil
        BY <3>1 DEF OneFlight
      <4>1. call[b].at \in {"read", "set", "land", "wait"} => call[b].q \in Question
        BY DEF Calls, CallOK
      <4>2. call[c].at = "land" /\ flight[call[c].q] = c
        BY <2>8 DEF Land, OneFlight
      <4>3. call[b].at \in {"read", "set", "land", "wait"} => call[b].q # call[c].q
        BY <1>2, <4>2 DEF OneFlight, Sharing
      <4> QED
        BY <3>4, <4>1, <4>3 DEF OneFlight, TypeOK
    <3>6. flight' \in [Question -> Caller \union {Nil}]
      BY <3>4 DEF TypeOK
    <3> QED
      BY <3>1, <3>2, <3>3, <3>5, <3>6
  <2> QED
    BY <2>2, <2>3, <2>4, <2>5, <2>6, <2>7, <2>8
<1>4. TypeOK'
  BY <1>1, <1>3 DEF TypeOK, CallType
<1>5. CacheErrorsExplained'
  BY <1>1, <1>3, OwedFrame, CacheFrame
<1> QED
  BY <1>3, <1>4, <1>5

-----------------------------------------------------------------------------
(* Steps that change the table or a cache. *)

LEMMA OneStep ==
  ASSUME CInv, NEW c \in Caller, NEW r \in CallType, CallOK(r), InFlight(c, r),
         UNCHANGED flight, call' = [call EXCEPT ![c] = r]
  PROVE  /\ call' \in [Caller -> CallType] /\ Calls' /\ OneFlight'
         /\ \A b \in Caller \ {c} : Owed(b)' = Owed(b)
         /\ Owed(c)' = UNION ToSet(r.owed)
<1>1. /\ call' \in [Caller -> CallType] /\ Calls'
      /\ call'[c] = r /\ \A b \in Caller \ {c} : call'[b] = call[b]
  BY OneCall DEF CInv
<1>2. OneFlight'
  BY <1>1, FlightFrame DEF CInv
<1>3. \A b \in Caller \ {c} : Owed(b)' = Owed(b)
  BY <1>1, OwedFrame
<1>4. Owed(c)' = UNION ToSet(r.owed)
  BY <1>1 DEF Owed
<1> QED
  BY <1>1, <1>2, <1>3, <1>4

(* A call that owes what it has written. *)
LEMMA OwingCall ==
  ASSUME NEW c \in Caller, NEW owed \in Seq(SUBSET Question)
  PROVE  /\ Owing(c, owed) \in CallType /\ CallOK(Owing(c, owed)) /\ InFlight(c, Owing(c, owed))
         /\ Owing(c, owed).owed = owed
<1>1. <<>> \in Seq(SUBSET Question)
  OBVIOUS
<1> QED
  BY <1>1 DEF Owing, Idle, CallType, CallOK, InFlight

LEMMA SyncCall ==
  ASSUME NEW c \in Caller, NEW owed \in Seq(SUBSET Question), owed # <<>>,
         NEW r, r = [Idle EXCEPT !.at = "sync", !.owed = owed]
  PROVE  r \in CallType /\ CallOK(r) /\ InFlight(c, r) /\ r.owed = owed
BY DEF Idle, CallType, CallOK, InFlight

(* A question stays explained if it is answered right, is excused, is owed, or if   *)
(* nothing about it changes.                                                  *)
Explained(q) ==
  \/ cached[q] \in {Nil, Answer(q)}
  \/ q \in excused
  \/ \E c \in Caller : q \in Owed(c)

LEMMA ExplainedAll == CacheErrorsExplained <=> \A q \in Question : Explained(q)
BY DEF CacheErrorsExplained, Explained

LEMMA StaysExplained ==
  ASSUME NEW q \in Question, Explained(q), cached'[q] = cached[q], Answer(q)' = Answer(q),
         q \in excused => q \in excused',
         \A c \in Caller : q \in Owed(c) => q \in Owed(c)'
  PROVE  Explained(q)'
BY DEF Explained

(* What a write may leave behind. *)
LEMMA WriteExplained ==
  ASSUME CInv, NEW names, names \subseteq Name, \A n \in Name \ names : table'[n] = table[n],
         UNCHANGED cached, excused \subseteq excused',
         \A b \in Caller : Owed(b) \subseteq Owed(b)',
         \A q \in Question : q \in Touches(names) => Explained(q)'
  PROVE  CacheErrorsExplained'
<1> SUFFICES ASSUME NEW q \in Question, q \notin Touches(names)
             PROVE  Explained(q)'
  BY ExplainedAll DEF CacheErrorsExplained, Explained
<1>1. Answer(q)' = Answer(q)
  BY AnswerFrame
<1>2. Explained(q)
  BY ExplainedAll DEF CInv
<1> QED
  BY <1>1, <1>2, StaysExplained

LEMMA WriteType ==
  ASSUME CInv, NEW names \in SUBSET Name, Write(names)
  PROVE  /\ table' \in [Name -> 0..MaxWrites] /\ writes' \in 0..MaxWrites
         /\ \A n \in Name \ names : table'[n] = table[n]
BY CatalogAssumption DEF Write, CInv, TypeOK

(* Caching an answer. *)
LEMMA CacheStep ==
  ASSUME CInv, NEW q \in Question, NEW answer \in SUBSET (Name \X (1..MaxWrites)),
         Cache(q, answer), q[1] = "name" => answer = {}, UNCHANGED table,
         \A b \in Caller : Owed(b)' = Owed(b)
  PROVE  /\ CacheErrorsExplained'
         /\ cached' \in [Question -> {Nil} \union SUBSET (Name \X (1..MaxWrites))]
         /\ \A n \in Name : cached'[NameQ(n)] \in {Nil, {}}
         /\ excused' \subseteq Question
<1> USE DEF CInv
<1>1. /\ cached' = [cached EXCEPT ![q] = answer]
      /\ excused' \subseteq Question
      /\ answer # Answer(q) => q \in excused'
      /\ excused \ {q} \subseteq excused'
  BY DEF Cache, TypeOK
<1>2. cached' \in [Question -> {Nil} \union SUBSET (Name \X (1..MaxWrites))]
  BY <1>1 DEF TypeOK
<1>3. ASSUME NEW n \in Name
      PROVE  cached'[NameQ(n)] \in {Nil, {}}
  BY <1>1, ParentIsDir, TwoKinds DEF TypeOK
<1>4. ASSUME NEW p \in Question
      PROVE  Explained(p)'
  <2>1. CASE p = q
    BY <1>1, <2>1, AnswerSame DEF Explained, TypeOK
  <2>2. CASE p # q
    <3>1. cached'[p] = cached[p] /\ (p \in excused => p \in excused') /\ Answer(p)' = Answer(p)
      BY <1>1, <2>2, AnswerSame DEF TypeOK
    <3>2. Explained(p)
      BY ExplainedAll
    <3> QED
      BY <3>1, <3>2, StaysExplained
  <2> QED
    BY <2>1, <2>2
<1>5. CacheErrorsExplained'
  BY <1>4 DEF CacheErrorsExplained, Explained
<1> QED
  BY <1>1, <1>2, <1>3, <1>5

LEMMA CacheSteps ==
  ASSUME CInv, NEW c \in Caller, SetListing(c) \/ Return(c)
  PROVE  CInv'
<1> USE CatalogAssumption DEF CInv
<1>1. call \in [Caller -> CallType] /\ CallOK(call[c]) /\ Idle \in CallType
  BY DEF TypeOK, CallType, Calls, Idle
<1>2. PICK r \in CallType :
        /\ call' = [call EXCEPT ![c] = r]
        /\ CallOK(r) /\ InFlight(c, r) /\ r.owed = <<>> /\ call[c].owed = <<>>
  <2>1. CASE SetListing(c)
    <3>1. PICK r \in CallType :
            call' = [call EXCEPT ![c] = r] /\ r = [call[c] EXCEPT !.at = "land"] /\ call[c].at = "set"
      BY <1>1, <2>1, StepTo DEF SetListing
    <3>2. CallOK(r) /\ InFlight(c, r) /\ r.owed = <<>> /\ call[c].owed = <<>>
      BY <1>1, <3>1 DEF CallOK, InFlight, CallType, OneFlight
    <3> QED
      BY <3>1, <3>2
  <2>2. CASE Return(c)
    <3>1. PICK r \in CallType :
            call' = [call EXCEPT ![c] = r] /\ r = Idle /\ call[c].at = "answer"
      BY <1>1, <2>2, StepTo DEF Return
    <3>2. CallOK(r) /\ InFlight(c, r) /\ r.owed = <<>> /\ call[c].owed = <<>>
      BY <1>1, <3>1 DEF CallOK, InFlight, Idle
    <3> QED
      BY <3>1, <3>2
  <2> QED
    BY <2>1, <2>2
<1>3. UNCHANGED <<table, flight, writes>>
  BY DEF SetListing, Return
<1>4. /\ call' \in [Caller -> CallType] /\ Calls' /\ OneFlight'
      /\ \A b \in Caller : Owed(b)' = Owed(b)
  BY <1>2, <1>3, OneStep DEF Owed
<1>5. \/ UNCHANGED <<cached, excused>>
      \/ /\ Cache(call[c].q, call[c].answer)
         /\ call[c].q \in Question /\ call[c].answer \in SUBSET (Name \X (1..MaxWrites))
         /\ call[c].q[1] = "name" => call[c].answer = {}
  <2>1. CASE SetListing(c)
    BY <1>1, <2>1 DEF SetListing, Step, CallOK, CallType
  <2>2. CASE Return(c)
    BY <1>1, <2>2 DEF Return, Step, CallOK, CallType
  <2> QED
    BY <2>1, <2>2
<1>6. CASE UNCHANGED <<cached, excused>>
  <2>1. CacheErrorsExplained'
    BY <1>3, <1>4, <1>6, CacheFrame
  <2> QED
    BY <1>3, <1>4, <1>6, <2>1 DEF TypeOK, CallType
<1>7. CASE ~ UNCHANGED <<cached, excused>>
  <2>1. /\ CacheErrorsExplained'
        /\ cached' \in [Question -> {Nil} \union SUBSET (Name \X (1..MaxWrites))]
        /\ \A n \in Name : cached'[NameQ(n)] \in {Nil, {}}
        /\ excused' \subseteq Question
    BY <1>3, <1>4, <1>5, <1>7, CacheStep
  <2> QED
    BY <1>3, <1>4, <2>1 DEF TypeOK, CallType
<1> QED
  BY <1>6, <1>7

LEMMA WriteSteps ==
  ASSUME CInv, NEW c \in Caller,
         \/ \E s \in Batches : OfOneDirectory(s) /\ PutBatch(c, s)
         \/ DeleteRow(c)
         \/ \E d \in Dir \ {Root} : DeletePrefix(c, d)
  PROVE  CInv'
<1> USE CatalogAssumption DEF CInv
<1>1. call \in [Caller -> CallType] /\ CallOK(call[c])
  BY DEF TypeOK, CallType, Calls
<1>2. ASSUME NEW names \in SUBSET Name, NEW owed \in Seq(SUBSET Question),
             UNCHANGED <<cached, flight>>, call' = [call EXCEPT ![c] = Owing(c, owed)],
             call[c].owed = <<>>, excused \subseteq excused', excused' \subseteq Question,
             table' \in [Name -> 0..MaxWrites], writes' \in 0..MaxWrites,
             \A n \in Name \ names : table'[n] = table[n],
             \A q \in Touches(names) : q \notin UNION ToSet(owed) => Explained(q)'
      PROVE  CInv'
  <2>1. /\ call' \in [Caller -> CallType] /\ Calls' /\ OneFlight'
        /\ \A b \in Caller \ {c} : Owed(b)' = Owed(b)
        /\ Owed(c)' = UNION ToSet(owed)
    <3> DEFINE r == Owing(c, owed)
    <3>1. r \in CallType /\ CallOK(r) /\ InFlight(c, r) /\ r.owed = owed
      BY OwingCall
    <3>2. call' = [call EXCEPT ![c] = r] /\ UNCHANGED flight
      BY <1>2
    <3> HIDE DEF r
    <3> QED
      BY <3>1, <3>2, OneStep
  <2>2. Owed(c) = {}
    BY <1>2 DEF Owed, ToSet
  <2>3. \A q \in Question : q \in Touches(names) => Explained(q)'
    BY <1>2, <2>1 DEF Explained
  <2>4. CacheErrorsExplained'
    BY <1>2, <2>1, <2>2, <2>3, WriteExplained
  <2> QED
    BY <1>2, <2>1, <2>4 DEF TypeOK, CallType
<1>3. ASSUME NEW s \in Batches, OfOneDirectory(s), PutBatch(c, s)
      PROVE  CInv'
  <2>1. s \in Seq(Name) /\ s # <<>> /\ ToSet(s) \in SUBSET Name
    <3>1. CASE \E n \in Name : s = <<n>>
      BY <3>1 DEF ToSet
    <3>2. CASE \E m \in Dir \ {Root}, n \in File : s = <<m, n>>
      <4>1. PICK m \in Name, n \in Name : s = <<m, n>>
        BY <3>2, NamespaceAssumption DEF Name
      <4> QED
        BY <4>1 DEF ToSet
    <3> QED
      BY <1>3, <3>1, <3>2 DEF Batches
  <2>2. /\ OwedFor(s) \in Seq(SUBSET Question)
        /\ Touches(ToSet(s)) \subseteq UNION ToSet(OwedFor(s))
    BY <1>3, <2>1, BatchOwes
  <2>3. /\ table' \in [Name -> 0..MaxWrites] /\ writes' \in 0..MaxWrites
        /\ \A n \in Name \ ToSet(s) : table'[n] = table[n]
    BY <1>3, <2>1, WriteType DEF PutBatch
  <2>4. /\ UNCHANGED <<cached, flight, excused>> /\ call' = [call EXCEPT ![c] = Owing(c, OwedFor(s))]
        /\ call[c].owed = <<>>
    BY <1>1, <1>3 DEF PutBatch, CallOK
  <2> QED
    BY <1>2, <2>1, <2>2, <2>3, <2>4 DEF TypeOK
<1>4. CASE DeleteRow(c)
  <2> DEFINE q == call[c].q
             l == ListQ(Parent[q[2]])
             owed == <<{q}>> \o IF call[c].answer # {} THEN <<{l}>> ELSE <<>>
  <2>1. q \in Question /\ q[2] \in Name /\ q = NameQ(q[2]) /\ l \in Question /\ call[c].owed = <<>>
    BY <1>1, <1>4, QuestionKinds, ParentIsDir DEF DeleteRow, CallOK
  <2>2. /\ owed \in Seq(SUBSET Question)
        /\ UNION ToSet(owed) = {q} \union IF call[c].answer # {} THEN {l} ELSE {}
    <3>1. CASE call[c].answer # {}
      <4>1. owed = <<{q}>> \o <<{l}>>
        BY <3>1
      <4> HIDE DEF owed, q, l
      <4>2. {q} \in SUBSET Question /\ {l} \in SUBSET Question
        BY <2>1
      <4>3. owed = <<{q}, {l}>>
        <5>1. <<{q}>> \in Seq(SUBSET Question) /\ <<{l}>> \in Seq(SUBSET Question)
          BY <4>2
        <5>2. /\ owed \in Seq(SUBSET Question) /\ Len(owed) = 2
              /\ owed[1] = {q} /\ owed[2] = {l}
          BY <4>1, <5>1
        <5> QED
          BY <5>2
      <4>4. owed \in Seq(SUBSET Question) /\ UNION ToSet(owed) = {q} \union {l}
        BY <4>2, <4>3, OwedTwo
      <4> QED
        BY <3>1, <4>4
    <3>2. CASE call[c].answer = {}
      <4>1. owed = <<{q}>>
        BY <3>2
      <4> QED
        BY <2>1, <3>2, <4>1, OwedOne
    <3> QED
      BY <3>1, <3>2
  <2>3. /\ UNCHANGED <<cached, flight, writes>> /\ call' = [call EXCEPT ![c] = Owing(c, owed)]
        /\ table' = [table EXCEPT ![q[2]] = 0]
        /\ excused' = IF call[c].answer # {} THEN excused ELSE excused \union ({l} \intersect Held)
    BY <1>4 DEF DeleteRow
  <2>4. /\ table' \in [Name -> 0..MaxWrites] /\ writes' \in 0..MaxWrites
        /\ \A n \in Name \ {q[2]} : table'[n] = table[n]
    BY <2>1, <2>3 DEF TypeOK
  <2>5. Touches({q[2]}) = {q, l}
    BY <2>1 DEF Touches
  <2>6. ASSUME NEW p \in Touches({q[2]}), p \notin UNION ToSet(owed)
        PROVE  Explained(p)'
    BY <2>1, <2>2, <2>3, <2>5, <2>6 DEF Explained, Held
  <2>7. excused \subseteq excused' /\ excused' \subseteq Question
    BY <2>1, <2>3 DEF TypeOK
  <2> HIDE DEF q, l, owed
  <2>8. {q[2]} \in SUBSET Name
    BY <2>1
  <2> QED
    BY <1>2, <2>1, <2>2, <2>3, <2>4, <2>6, <2>7, <2>8
<1>5. ASSUME NEW d \in Dir \ {Root}, DeletePrefix(c, d)
      PROVE  CInv'
  <2>1. NamesUnder(d) \in SUBSET Question /\ AllLists \in SUBSET Question /\ Like[d] \in SUBSET Name
    BY NamespaceAssumption DEF NamesUnder, Under, Question, AllLists
  <2>2. /\ <<NamesUnder(d), AllLists>> \in Seq(SUBSET Question)
        /\ UNION ToSet(<<NamesUnder(d), AllLists>>) = NamesUnder(d) \union AllLists
    BY <2>1, OwedTwo
  <2>3. /\ UNCHANGED <<cached, flight, writes, excused>> /\ call[c].owed = <<>>
        /\ call' = [call EXCEPT ![c] = Owing(c, <<NamesUnder(d), AllLists>>)]
        /\ table' = [n \in Name |-> IF n \in Like[d] THEN 0 ELSE table[n]]
    BY <1>1, <1>5 DEF DeletePrefix, CallOK
  <2>4. /\ table' \in [Name -> 0..MaxWrites] /\ writes' \in 0..MaxWrites
        /\ \A n \in Name \ Like[d] : table'[n] = table[n]
    BY <2>3 DEF TypeOK
  <2>5. ASSUME NEW p \in Touches(Like[d]), p \notin NamesUnder(d) \union AllLists
        PROVE  Explained(p)'
    <3>1. PICK n \in Like[d] : p = NameQ(n)
      BY <2>1, <2>5, ParentIsDir, NamespaceAssumption DEF Touches, AllLists
    <3>2. n \in Name /\ table'[n] = 0 /\ cached'[p] \in {Nil, {}}
      BY <2>1, <2>3, <3>1 DEF TypeOK
    <3>3. Answer(p)' = {}
      <4>1. p[1] = "name" /\ p[2] = n
        BY <3>1, TwoKinds
      <4> QED
        BY <3>2, <4>1 DEF Answer
    <3> QED
      BY <3>2, <3>3 DEF Explained
  <2>6. excused' = excused /\ excused' \subseteq Question
    BY <2>3 DEF TypeOK
  <2> QED
    BY <1>2, <2>1, <2>2, <2>3, <2>4, <2>5, <2>6
<1> QED
  BY <1>3, <1>4, <1>5

LEMMA SyncSteps ==
  ASSUME CInv, NEW c \in Caller,
         \/ \E d \in Dir : SyncPrefix(c, d)
         \/ SyncBucket(c) \/ SyncEnds(c) \/ SyncFails(c)
         \/ \E names \in SUBSET Name : SyncPage(c, names)
  PROVE  CInv'
<1> USE CatalogAssumption DEF CInv
<1>1. call \in [Caller -> CallType] /\ CallOK(call[c]) /\ Idle \in CallType
  BY DEF TypeOK, CallType, Calls, Idle
<1>2. ASSUME NEW owed \in Seq(SUBSET Question), owed # <<>>,
             UNCHANGED <<table, cached, flight, writes, excused>>, call[c].owed = <<>>,
             call' = [call EXCEPT ![c] = [Idle EXCEPT !.at = "sync", !.owed = owed]]
      PROVE  CInv'
  <2> DEFINE r == [Idle EXCEPT !.at = "sync", !.owed = owed]
  <2>1. r \in CallType /\ CallOK(r) /\ InFlight(c, r)
    BY <1>2, SyncCall
  <2>2. call' = [call EXCEPT ![c] = r] /\ UNCHANGED flight
    BY <1>2
  <2> HIDE DEF r
  <2>3. /\ call' \in [Caller -> CallType] /\ Calls' /\ OneFlight'
        /\ \A b \in Caller \ {c} : Owed(b)' = Owed(b)
    BY <2>1, <2>2, OneStep
  <2>4. Owed(c) = {}
    BY <1>2 DEF Owed, ToSet
  <2>5. CacheErrorsExplained'
    BY <1>2, <2>3, <2>4, CacheFrame
  <2> QED
    BY <1>2, <2>3, <2>5 DEF TypeOK, CallType
<1>3. ASSUME NEW d \in Dir, SyncPrefix(c, d)
      PROVE  CInv'
  <2>1. {ListQ(d)} \in SUBSET Question /\ NamesUnder(d) \in SUBSET Question
    BY DEF NamesUnder, Under, Question
  <2>2. <<{ListQ(d)}, NamesUnder(d)>> \in Seq(SUBSET Question)
    BY <2>1, OwedTwo
  <2> QED
    BY <1>1, <1>2, <1>3, <2>2 DEF SyncPrefix, CallOK
<1>4. CASE SyncBucket(c)
  <2>1. AllLists \in SUBSET Question
    BY DEF AllLists, Question
  <2>2. <<AllLists>> \in Seq(SUBSET Question)
    BY <2>1, OwedOne
  <2> QED
    BY <1>1, <1>2, <1>4, <2>2 DEF SyncBucket, CallOK
<1>5. CASE SyncEnds(c)
  <2>1. PICK r \in CallType :
          call' = [call EXCEPT ![c] = r] /\ r = [call[c] EXCEPT !.at = "forget"] /\ call[c].at = "sync"
    BY <1>1, <1>5, StepTo DEF SyncEnds
  <2>2. CallOK(r) /\ InFlight(c, r) /\ r.owed = call[c].owed /\ UNCHANGED <<table, cached, flight, writes, excused>>
    BY <1>1, <1>5, <2>1 DEF SyncEnds, CallOK, InFlight, CallType
  <2>3. /\ call' \in [Caller -> CallType] /\ Calls' /\ OneFlight'
        /\ \A b \in Caller : Owed(b)' = Owed(b)
    BY <2>1, <2>2, OneStep DEF Owed
  <2>4. CacheErrorsExplained'
    BY <2>2, <2>3, CacheFrame
  <2> QED
    BY <2>2, <2>3, <2>4 DEF TypeOK, CallType
<1>6. CASE SyncFails(c)
  <2>1. /\ call' = [call EXCEPT ![c] = Idle] /\ UNCHANGED <<table, cached, flight, writes>>
        /\ excused' = excused \union (Owed(c) \intersect Held)
    BY <1>1, <1>6, StepTo DEF SyncFails
  <2>2. CallOK(Idle) /\ InFlight(c, Idle)
    BY DEF Idle, CallOK, InFlight
  <2>3. /\ call' \in [Caller -> CallType] /\ Calls' /\ OneFlight'
        /\ \A b \in Caller \ {c} : Owed(b)' = Owed(b)
    BY <1>1, <2>1, <2>2, OneStep
  <2>4. Held \subseteq Question /\ excused' \subseteq Question
    BY <2>1 DEF Held, TypeOK
  <2>5. \A q \in Owed(c) : q \in Held \/ cached[q] = Nil
    <3>1. Owed(c) \subseteq Question
      BY <1>1 DEF Owed, ToSet, CallType
    <3> QED
      BY <3>1 DEF Held
  <2>6. CacheErrorsExplained'
    BY <2>1, <2>3, <2>5, CacheFrame
  <2> QED
    BY <2>1, <2>3, <2>4, <2>6 DEF TypeOK, CallType
<1>7. ASSUME NEW names \in SUBSET Name, SyncPage(c, names)
      PROVE  CInv'
  <2>1. /\ UNCHANGED <<cached, flight, call>>
        /\ excused' = excused \union ((Touches(names) \intersect Held) \ Owed(c))
    BY <1>7 DEF SyncPage
  <2>2. /\ table' \in [Name -> 0..MaxWrites] /\ writes' \in 0..MaxWrites
        /\ \A n \in Name \ names : table'[n] = table[n]
    BY <1>7, WriteType DEF SyncPage
  <2>3. \A b \in Caller : Owed(b)' = Owed(b)
    BY <2>1, OwedFrame
  <2>4. ASSUME NEW q \in Question, q \in Touches(names)
        PROVE  Explained(q)'
    BY <2>1, <2>3, <2>4 DEF Explained, Held
  <2>5. CacheErrorsExplained'
    BY <2>1, <2>2, <2>3, <2>4, WriteExplained
  <2>6. Calls' /\ OneFlight' /\ excused' \subseteq Question
    BY <2>1 DEF Calls, CallOK, OneFlight, Held, TypeOK
  <2> QED
    BY <2>1, <2>2, <2>5, <2>6 DEF TypeOK
<1> QED
  BY <1>3, <1>4, <1>5, <1>6, <1>7

LEMMA ForgetSteps ==
  ASSUME CInv, (\E c \in Caller : Forget(c)) \/ (\E q \in Question : Expire(q))
  PROVE  CInv'
<1> USE CatalogAssumption DEF CInv
<1>1. call \in [Caller -> CallType] /\ Calls
  BY DEF TypeOK, CallType
(* Nothing cached is wrong that is not there any more. *)
<1>2. ASSUME NEW out \in SUBSET Question, UNCHANGED table, excused' = excused \ out,
             cached' = [q \in Question |-> IF q \in out THEN Nil ELSE cached[q]],
             \A b \in Caller : Owed(b) \subseteq Owed(b)' \union out
      PROVE  /\ CacheErrorsExplained'
             /\ cached' \in [Question -> {Nil} \union SUBSET (Name \X (1..MaxWrites))]
             /\ \A n \in Name : cached'[NameQ(n)] \in {Nil, {}}
             /\ excused' \subseteq Question
  <2>1. ASSUME NEW q \in Question
        PROVE  Explained(q)'
    <3>1. CASE q \in out
      BY <1>2, <3>1 DEF Explained
    <3>2. CASE q \notin out
      <4>1. cached'[q] = cached[q] /\ (q \in excused => q \in excused') /\ Answer(q)' = Answer(q)
        BY <1>2, <3>2, AnswerSame
      <4>2. \A b \in Caller : q \in Owed(b) => q \in Owed(b)'
        BY <1>2, <3>2
      <4>3. Explained(q)
        BY ExplainedAll
      <4> QED
        BY <4>1, <4>2, <4>3, StaysExplained
    <3> QED
      BY <3>1, <3>2
  <2>2. CacheErrorsExplained'
    BY <2>1 DEF CacheErrorsExplained, Explained
  <2> QED
    BY <1>2, <2>2, ParentIsDir DEF TypeOK
<1>3. ASSUME NEW c \in Caller, Forget(c)
      PROVE  CInv'
  <2> DEFINE out == Head(call[c].owed)
             rest == Tail(call[c].owed)
  <2>1. call[c] \in CallType /\ call[c].owed # <<>> /\ call[c].owed \in Seq(SUBSET Question)
    BY <1>1, <1>3 DEF Calls, CallOK, CallType, Forget
  <2>2. /\ out \in SUBSET Question /\ rest \in Seq(SUBSET Question)
        /\ Owed(c) \subseteq out \union UNION ToSet(rest)
    BY <2>1, OwedHeadTail DEF Owed
  <2>3. /\ call' = [call EXCEPT ![c] = Owing(c, rest)] /\ UNCHANGED <<table, flight, writes>>
        /\ cached' = [q \in Question |-> IF q \in out THEN Nil ELSE cached[q]]
        /\ excused' = excused \ out
    BY <1>1, <1>3 DEF Forget
  <2> HIDE DEF out, rest
  <2>4. /\ Owing(c, rest) \in CallType /\ CallOK(Owing(c, rest)) /\ InFlight(c, Owing(c, rest))
        /\ Owing(c, rest).owed = rest
    BY <2>2, OwingCall
  <2>5. /\ call' \in [Caller -> CallType] /\ Calls' /\ OneFlight'
        /\ \A b \in Caller \ {c} : Owed(b)' = Owed(b)
        /\ Owed(c)' = UNION ToSet(rest)
    <3> DEFINE r == Owing(c, rest)
    <3>1. r \in CallType /\ CallOK(r) /\ InFlight(c, r) /\ r.owed = rest
          /\ call' = [call EXCEPT ![c] = r] /\ UNCHANGED flight
      BY <2>3, <2>4
    <3> HIDE DEF r
    <3> QED
      BY <3>1, OneStep
  <2>6. \A b \in Caller : Owed(b) \subseteq Owed(b)' \union out
    BY <2>2, <2>5
  <2> QED
    BY <1>2, <2>2, <2>3, <2>5, <2>6 DEF TypeOK, CallType
<1>4. ASSUME NEW q \in Question, Expire(q)
      PROVE  CInv'
  <2>1. /\ UNCHANGED <<table, flight, call, writes>> /\ excused' = excused \ {q}
        /\ cached' = [p \in Question |-> IF p \in {q} THEN Nil ELSE cached[p]]
    BY <1>4 DEF Expire, TypeOK
  <2>2. \A b \in Caller : Owed(b)' = Owed(b)
    BY <2>1, OwedFrame
  <2>3. Calls' /\ OneFlight'
    BY <2>1 DEF Calls, CallOK, OneFlight
  <2>4. {q} \in SUBSET Question /\ \A b \in Caller : Owed(b) \subseteq Owed(b)' \union {q}
    BY <2>2
  <2>5. /\ CacheErrorsExplained'
        /\ cached' \in [Question -> {Nil} \union SUBSET (Name \X (1..MaxWrites))]
        /\ \A n \in Name : cached'[NameQ(n)] \in {Nil, {}}
        /\ excused' \subseteq Question
    BY <1>2, <2>1, <2>4
  <2> QED
    BY <2>1, <2>3, <2>5 DEF TypeOK
<1> QED
  BY <1>3, <1>4

-----------------------------------------------------------------------------

LEMMA CInit == Init => CInv
<1> SUFFICES ASSUME Init
             PROVE  CInv
  OBVIOUS
<1> USE CatalogAssumption DEF Init
<1>1. Idle \in CallType /\ CallOK(Idle)
  BY DEF Idle, CallType, CallOK
<1>2. TypeOK
  <2>1. table \in [Name -> 0..MaxWrites]
    OBVIOUS
  <2> QED
    BY <1>1, <2>1, ParentIsDir DEF TypeOK, CallType
<1>3. Calls /\ OneFlight
  BY <1>1 DEF Calls, OneFlight, Idle
<1>4. CacheErrorsExplained
  BY DEF CacheErrorsExplained
<1> QED
  BY <1>2, <1>3, <1>4 DEF CInv

LEMMA CStep == CInv /\ [Next]_vars => CInv'
<1> SUFFICES ASSUME CInv, [Next]_vars
             PROVE  CInv'
  OBVIOUS
<1>1. ASSUME NEW c \in Caller, Begin(c) \/ Continue(c) \/ \E names \in SUBSET Name \ {{}} : SyncPage(c, names)
      PROVE  CInv'
  <2>1. \A names \in SUBSET Name \ {{}} : names \in SUBSET Name
    OBVIOUS
  <2> QED
    BY <1>1, <2>1, QuietSteps, CacheSteps, WriteSteps, SyncSteps, ForgetSteps DEF Begin, Continue
<1>2. CASE UNCHANGED vars
  BY <1>2, AnswerSame, OwedFrame
     DEF vars, CInv, TypeOK, Calls, CallOK, OneFlight, CacheErrorsExplained
<1> QED
  BY <1>1, <1>2, ForgetSteps DEF Next

(* Every variable has its type, and the negative cache holds only absences. *)
THEOREM Typing == Spec => []TypeOK
<1>1. CInv => TypeOK
  BY DEF CInv
<1> QED
  BY <1>1, CInit, CStep, PTL DEF Spec

(* singleflight: one call at a time reads the table for a question, whoever waits  *)
(* waits for a call that is under way, and none is left waiting when it returns.    *)
THEOREM OneReader == Spec => []OneFlight
<1>1. CInv => OneFlight
  BY DEF CInv
<1> QED
  BY <1>1, CInit, CStep, PTL DEF Spec

(* The caches in front of the table are wrong only in the ways named: for any      *)
(* tree, any number of requests and of syncs, and any length of listing.          *)
THEOREM CachesExplained == Spec => []CacheErrorsExplained
<1>1. CInv => CacheErrorsExplained
  BY DEF CInv
<1> QED
  BY <1>1, CInit, CStep, PTL DEF Spec
=============================================================================
