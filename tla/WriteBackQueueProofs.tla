------------------------ MODULE WriteBackQueueProofs ------------------------
(***************************************************************************)
(* Safety of the write-back queue for any number of workers, uploads and   *)
(* retries and any channel size, and that it implements UploadPool.        *)
(***************************************************************************)
EXTENDS WriteBackQueue, TLAPS

(* What each worker's program counter says about the job it holds. *)
WorkerPhase ==
  \A w \in Worker :
    /\ job[w] # None <=> Busy(w)
    /\ pc[w] = "ack" => job[w] \in stored
    /\ pc[w] = "exited" => draining[w]
    /\ draining[w] => stopCh

(* The number of returned calls of upload() follows the loop variable. *)
TriesCounted ==
  /\ \A w \in Worker : Busy(w) => tries[job[w]] = attempt[w]
  /\ \A w \in Worker : pc[w] = "backoff" => attempt[w] > 0
  /\ \A u \in Upload : outcome[u] \in {"new", "refused"} \/ u \in Queued
                         => tries[u] = 0

(* The caller of Stop. *)
StopPhase ==
  /\ stopper # "idle" <=> stopCh
  /\ stopper = "returned" => \A w \in Worker : pc[w] = "exited"

IInv ==
  /\ TypeOK
  /\ WorkerPhase
  /\ StopPhase
  /\ HeldOnce
  /\ BytesKept
  /\ TriesCounted
  /\ GiveUpJustified
  /\ DrainLeavesOnlyLate

-----------------------------------------------------------------------------
(* The channel as a sequence: what a send and a receive do to its elements. *)

LEMMA SendFacts ==
  ASSUME NEW S, NEW q \in Seq(S), NEW x \in S
  PROVE  /\ Append(q, x) \in Seq(S)
         /\ Len(Append(q, x)) = Len(q) + 1
         /\ ToSet(Append(q, x)) = ToSet(q) \union {x}
         /\ IsInjective(q) /\ x \notin ToSet(q) => IsInjective(Append(q, x))
<1>1. /\ Append(q, x) \in Seq(S)
      /\ Len(Append(q, x)) = Len(q) + 1
      /\ DOMAIN Append(q, x) = DOMAIN q \union {Len(q) + 1}
      /\ \A i \in DOMAIN q : Append(q, x)[i] = q[i]
      /\ Append(q, x)[Len(q) + 1] = x
  OBVIOUS
<1>2. ToSet(Append(q, x)) = ToSet(q) \union {x}
  BY <1>1 DEF ToSet
<1>3. IsInjective(q) /\ x \notin ToSet(q) => IsInjective(Append(q, x))
  BY <1>1 DEF ToSet, IsInjective
<1> QED
  BY <1>1, <1>2, <1>3

LEMMA ReceiveFacts ==
  ASSUME NEW S, NEW q \in Seq(S), q # <<>>
  PROVE  /\ Head(q) \in S
         /\ Head(q) \in ToSet(q)
         /\ Tail(q) \in Seq(S)
         /\ Len(Tail(q)) = Len(q) - 1
         /\ IsInjective(q) => /\ IsInjective(Tail(q))
                             /\ ToSet(Tail(q)) = ToSet(q) \ {Head(q)}
<1>1. /\ Len(q) \in Nat \ {0}
      /\ DOMAIN q = 1..Len(q)
      /\ Head(q) = q[1]
      /\ \A i \in 1..Len(q) : q[i] \in S
  OBVIOUS
<1>2. /\ Tail(q) \in Seq(S)
      /\ Len(Tail(q)) = Len(q) - 1
      /\ DOMAIN Tail(q) = 1..(Len(q) - 1)
      /\ \A i \in 1..(Len(q) - 1) : Tail(q)[i] = q[i + 1]
  OBVIOUS
<1>3. Head(q) \in S /\ Head(q) \in ToSet(q)
  BY <1>1 DEF ToSet
<1>4. ASSUME IsInjective(q)
      PROVE  IsInjective(Tail(q))
  <2> SUFFICES ASSUME NEW a \in 1..(Len(q) - 1), NEW b \in 1..(Len(q) - 1),
                      Tail(q)[a] = Tail(q)[b]
               PROVE  a = b
    BY <1>2 DEF IsInjective
  <2>1. q[a + 1] = q[b + 1]
    BY <1>2
  <2>2. a + 1 \in DOMAIN q /\ b + 1 \in DOMAIN q
    BY <1>1
  <2>3. a + 1 = b + 1
    BY <2>1, <2>2, <1>4 DEF IsInjective
  <2> QED
    BY <2>3, <1>1
<1>5. ASSUME IsInjective(q)
      PROVE  ToSet(Tail(q)) = ToSet(q) \ {Head(q)}
  <2>1. ASSUME NEW i \in 1..(Len(q) - 1)
        PROVE  Tail(q)[i] \in ToSet(q) \ {Head(q)}
    <3>1. i + 1 \in DOMAIN q /\ i + 1 # 1 /\ 1 \in DOMAIN q
      BY <1>1
    <3>2. q[i + 1] # q[1]
      BY <3>1, <1>5 DEF IsInjective
    <3> QED
      BY <3>1, <3>2, <1>1, <1>2 DEF ToSet
  <2>2. ASSUME NEW y \in ToSet(q), y # Head(q)
        PROVE  y \in ToSet(Tail(q))
    <3>1. PICK i \in 1..Len(q) : q[i] = y
      BY <1>1 DEF ToSet
    <3>2. i # 1
      BY <3>1, <2>2, <1>1
    <3>3. i - 1 \in 1..(Len(q) - 1) /\ (i - 1) + 1 = i
      BY <3>2, <1>1
    <3> QED
      BY <3>1, <3>3, <1>2 DEF ToSet
  <2>3. ToSet(Tail(q)) \subseteq ToSet(q) \ {Head(q)}
    BY <2>1, <1>2 DEF ToSet
  <2> QED
    BY <2>2, <2>3
<1> QED
  BY <1>2, <1>3, <1>4, <1>5

-----------------------------------------------------------------------------
(* Type correctness.                                                       *)

LEMMA TypeInit == Init => TypeOK
<1>1. <<>> \in Seq(Upload) /\ Len(<<>>) = 0
  OBVIOUS
<1>2. 0 <= QueueSize /\ 0 \in 0..MaxRetries
  BY QueueSizeAssumption, MaxRetriesAssumption
<1>3. ASSUME Init
      PROVE  jobs \in Seq(Upload) /\ Len(jobs) <= QueueSize
  BY <1>1, <1>2, <1>3 DEF Init
<1>4. ASSUME Init
      PROVE  /\ pc \in [Worker -> {"receive", "put", "ack", "backoff", "exited"}]
             /\ draining \in [Worker -> BOOLEAN]
             /\ job \in [Worker -> Upload \union {None}]
             /\ attempt \in [Worker -> 0..MaxRetries]
             /\ outcome \in [Upload -> Outcome]
             /\ tries \in [Upload -> Nat]
  BY <1>2, <1>4 DEF Init, Outcome
<1>5. ASSUME Init
      PROVE  /\ stopCh \in BOOLEAN
             /\ stopper \in {"idle", "waiting", "returned"}
             /\ staging \in SUBSET Upload
             /\ stored \in SUBSET Upload
             /\ late \in SUBSET Upload
  BY <1>5 DEF Init
<1> QED
  BY <1>3, <1>4, <1>5 DEF TypeOK

LEMMA TypeStep == TypeOK /\ WorkerPhase /\ [Next]_vars => TypeOK'
<1> SUFFICES ASSUME TypeOK, WorkerPhase, [Next]_vars
             PROVE  TypeOK'
  OBVIOUS
<1> USE QueueSizeAssumption, MaxRetriesAssumption DEF TypeOK, Outcome
<1>0. \A w \in Worker : Busy(w) => job[w] \in Upload
  BY DEF WorkerPhase
<1>1. ASSUME NEW u \in Upload, Accept(u)
      PROVE  TypeOK'
  BY <1>1, SendFacts DEF Accept, HasRoom, workerVars
<1>2. ASSUME NEW u \in Upload, Refuse(u)
      PROVE  TypeOK'
  BY <1>2 DEF Refuse, HasRoom, workerVars
<1>3. ASSUME NEW w \in Worker, Receive(w)
      PROVE  TypeOK'
  <2>1. Head(jobs) \in Upload /\ jobs' \in Seq(Upload) /\ Len(jobs') <= QueueSize
    <3>1. jobs # <<>> /\ jobs' = Tail(jobs)
      BY <1>3 DEF Receive, TakeJob
    <3>2. Len(jobs) \in Nat
      OBVIOUS
    <3> QED
      BY <3>1, <3>2, ReceiveFacts
  <2> QED
    BY <1>3, <2>1 DEF Receive, TakeJob, historyVars
<1>4. ASSUME NEW w \in Worker, Discard(w)
      PROVE  TypeOK'
  <2>1. jobs' \in Seq(Upload) /\ Len(jobs') <= QueueSize
    <3>1. jobs # <<>> /\ jobs' = Tail(jobs)
      BY <1>4 DEF Discard, TakeJob
    <3>2. Len(jobs) \in Nat
      OBVIOUS
    <3> QED
      BY <3>1, <3>2, ReceiveFacts
  <2> QED
    BY <1>4, <2>1 DEF Discard, TakeJob, workerVars
<1>5. ASSUME NEW w \in Worker, NoticeStop(w)
      PROVE  TypeOK'
  BY <1>5 DEF NoticeStop, historyVars
<1>6. ASSUME NEW w \in Worker, Drained(w)
      PROVE  TypeOK'
  BY <1>6 DEF Drained, historyVars
<1>7. ASSUME NEW w \in Worker, PutLands(w)
      PROVE  TypeOK'
  BY <1>7, <1>0 DEF PutLands, Busy
<1>8. ASSUME NEW w \in Worker, UploadSucceeds(w)
      PROVE  TypeOK'
  BY <1>8, <1>0 DEF UploadSucceeds, Done, Tried, Busy
<1>9. ASSUME NEW w \in Worker, UploadFails(w)
      PROVE  TypeOK'
  BY <1>9, <1>0 DEF UploadFails, MoreAttempts, Tried, Busy
<1>10. ASSUME NEW w \in Worker, Exhausts(w)
       PROVE  TypeOK'
  BY <1>10, <1>0 DEF Exhausts, MoreAttempts, Done, Tried, Busy
<1>11. ASSUME NEW w \in Worker, BackoffElapsed(w)
       PROVE  TypeOK'
  BY <1>11 DEF BackoffElapsed, historyVars
<1>12. ASSUME NEW w \in Worker, BackoffAborted(w)
       PROVE  TypeOK'
  BY <1>12 DEF BackoffAborted, Done
<1>13. CASE BeginStop
  BY <1>13 DEF BeginStop, workerVars, historyVars
<1>14. CASE StopReturns
  BY <1>14 DEF StopReturns, AllExited, workerVars, historyVars
<1>15. CASE UNCHANGED vars
  BY <1>15 DEF vars, workerVars, historyVars
<1> QED
  BY <1>1, <1>2, <1>3, <1>4, <1>5, <1>6, <1>7, <1>8, <1>9, <1>10, <1>11,
     <1>12, <1>13, <1>14, <1>15
     DEF Next, WorkerStep





-----------------------------------------------------------------------------
(* The inductive invariant.                                                *)

LEMMA InvInit == Init => IInv
<1> SUFFICES ASSUME Init
             PROVE  IInv
  OBVIOUS
<1>1. TypeOK
  BY TypeInit
<1>2. jobs = <<>> /\ Queued = {}
  BY DEF Init, Queued, ToSet
<1>3. WorkerPhase /\ StopPhase /\ BytesKept /\ TriesCounted /\ GiveUpJustified
      /\ DrainLeavesOnlyLate
  BY <1>2 DEF Init, WorkerPhase, StopPhase, BytesKept, TriesCounted, GiveUpJustified,
              DrainLeavesOnlyLate, Busy
<1>4. HeldOnce
  BY <1>2, NoneAssumption DEF Init, HeldOnce, IsInjective
<1> QED
  BY <1>1, <1>3, <1>4 DEF IInv

LEMMA InvStep == IInv /\ [Next]_vars => IInv'
<1> SUFFICES ASSUME IInv, [Next]_vars
             PROVE  IInv'
  OBVIOUS
<1> USE NoneAssumption, MaxRetriesAssumption
<1>0. TypeOK /\ TypeOK'
  BY TypeStep DEF IInv
<1>1. ASSUME NEW u \in Upload, Accept(u)
      PROVE  IInv'
  <2> USE <1>1, <1>0 DEF IInv, TypeOK
  <2>0. /\ u \notin Queued
        /\ Queued' = Queued \union {u}
        /\ IsInjective(jobs')
    <3>1. jobs' = Append(jobs, u) /\ u \notin Queued /\ IsInjective(jobs)
      BY DEF Accept, HasRoom, HeldOnce
    <3> QED
      BY <3>1, SendFacts DEF Queued
  <2>1. WorkerPhase'
    BY <2>0 DEF Accept, HasRoom, workerVars, WorkerPhase, Busy
  <2>2. StopPhase'
    BY <2>0 DEF Accept, HasRoom, workerVars, StopPhase, WorkerPhase
  <2>3. HeldOnce'
    <3>1. job' = job /\ outcome' = [outcome EXCEPT ![u] = "pending"] /\ outcome[u] = "new"
      BY DEF Accept, HasRoom, workerVars
    <3>2. \A v \in Worker : job[v] # None => job[v] # u
      BY <3>1 DEF HeldOnce
    <3>3. \A v \in Worker : job'[v] # None => job'[v] \notin Queued'
      BY <2>0, <3>1, <3>2 DEF HeldOnce
    <3>4. \A x \in Upload :
            outcome'[x] = "pending" <=> x \in Queued' \/ \E v \in Worker : job'[v] = x
      BY <2>0, <3>1 DEF HeldOnce
    <3> QED
      BY <2>0, <3>1, <3>3, <3>4 DEF HeldOnce
  <2>4. BytesKept'
    BY <2>0 DEF Accept, HasRoom, workerVars, BytesKept, HeldOnce, WorkerPhase, Busy
  <2>5. TriesCounted'
    BY <2>0 DEF Accept, HasRoom, workerVars, TriesCounted, HeldOnce, WorkerPhase, Busy
  <2>6. GiveUpJustified'
    BY <2>0 DEF Accept, HasRoom, workerVars, GiveUpJustified, TriesCounted, HeldOnce,
        WorkerPhase, Busy
  <2>7. DrainLeavesOnlyLate'
    BY <2>0 DEF Accept, HasRoom, workerVars, DrainLeavesOnlyLate, WorkerPhase
  <2> QED
    BY <2>1, <2>2, <2>3, <2>4, <2>5, <2>6, <2>7
<1>2. ASSUME NEW u \in Upload, Refuse(u)
      PROVE  IInv'
  BY <1>2, <1>0 DEF IInv, TypeOK, Refuse, workerVars,
     WorkerPhase, Busy, StopPhase, HeldOnce, BytesKept, TriesCounted,
     GiveUpJustified, DrainLeavesOnlyLate, Queued
<1>3. ASSUME NEW w \in Worker, Receive(w)
      PROVE  IInv'
  <2> USE <1>3, <1>0 DEF IInv, TypeOK
  <2>0. /\ Head(jobs) \in Upload
        /\ Head(jobs) \in Queued
        /\ Queued' = Queued \ {Head(jobs)}
        /\ IsInjective(jobs')
    <3>1. jobs' = Tail(jobs) /\ jobs # <<>> /\ IsInjective(jobs)
      BY DEF Receive, TakeJob, HeldOnce
    <3> QED
      BY <3>1, ReceiveFacts DEF Queued
  <2>1. WorkerPhase'
    BY <2>0 DEF Receive, TakeJob, historyVars, WorkerPhase, Busy
  <2>2. StopPhase'
    BY <2>0 DEF Receive, TakeJob, historyVars, StopPhase, WorkerPhase
  <2>3. HeldOnce'
    <3>1. job' = [job EXCEPT ![w] = Head(jobs)] /\ outcome' = outcome /\ job[w] = None
      BY DEF Receive, TakeJob, historyVars, WorkerPhase, Busy
    <3>2. \A v \in Worker : job[v] # Head(jobs)
      BY <2>0 DEF HeldOnce
    <3>3. \A v \in Worker : job'[v] = IF v = w THEN Head(jobs) ELSE job[v]
      BY <3>1
    <3>4. \A v \in Worker : job'[v] # None => job'[v] \notin Queued'
      BY <2>0, <3>3 DEF HeldOnce
    <3>5. \A v, x \in Worker : job'[v] = job'[x] /\ job'[v] # None => v = x
      BY <3>2, <3>3 DEF HeldOnce
    <3>6. \A x \in Upload :
            outcome'[x] = "pending" <=> x \in Queued' \/ \E v \in Worker : job'[v] = x
      BY <2>0, <3>1, <3>3 DEF HeldOnce
    <3> QED
      BY <2>0, <3>4, <3>5, <3>6 DEF HeldOnce
  <2>4. BytesKept'
    BY <2>0 DEF Receive, TakeJob, historyVars, BytesKept, HeldOnce, WorkerPhase, Busy
  <2>5. TriesCounted'
    BY <2>0 DEF Receive, TakeJob, historyVars, TriesCounted, HeldOnce, WorkerPhase, Busy
  <2>6. GiveUpJustified'
    BY <2>0 DEF Receive, TakeJob, historyVars, GiveUpJustified, TriesCounted, HeldOnce,
        WorkerPhase, Busy
  <2>7. DrainLeavesOnlyLate'
    BY <2>0 DEF Receive, TakeJob, historyVars, DrainLeavesOnlyLate, WorkerPhase
  <2> QED
    BY <2>1, <2>2, <2>3, <2>4, <2>5, <2>6, <2>7
<1>4. ASSUME NEW w \in Worker, Discard(w)
      PROVE  IInv'
  <2> USE <1>4, <1>0 DEF IInv, TypeOK
  <2>0. /\ Head(jobs) \in Upload
        /\ Head(jobs) \in Queued
        /\ Queued' = Queued \ {Head(jobs)}
        /\ IsInjective(jobs')
    <3>1. jobs' = Tail(jobs) /\ jobs # <<>> /\ IsInjective(jobs)
      BY DEF Discard, TakeJob, HeldOnce
    <3> QED
      BY <3>1, ReceiveFacts DEF Queued
  <2>1. WorkerPhase'
    BY <2>0 DEF Discard, TakeJob, workerVars, WorkerPhase, Busy
  <2>2. StopPhase'
    BY <2>0 DEF Discard, TakeJob, workerVars, StopPhase, WorkerPhase
  <2>3. HeldOnce'
    BY <2>0 DEF Discard, TakeJob, workerVars, HeldOnce, WorkerPhase, Busy
  <2>4. BytesKept'
    BY <2>0 DEF Discard, TakeJob, workerVars, BytesKept, HeldOnce, WorkerPhase, Busy
  <2>5. TriesCounted'
    BY <2>0 DEF Discard, TakeJob, workerVars, TriesCounted, HeldOnce, WorkerPhase, Busy
  <2>6. GiveUpJustified'
    BY <2>0 DEF Discard, TakeJob, workerVars, GiveUpJustified, TriesCounted, HeldOnce,
        WorkerPhase, Busy
  <2>7. DrainLeavesOnlyLate'
    BY <2>0 DEF Discard, TakeJob, workerVars, DrainLeavesOnlyLate, WorkerPhase
  <2> QED
    BY <2>1, <2>2, <2>3, <2>4, <2>5, <2>6, <2>7
<1>5. ASSUME NEW w \in Worker, NoticeStop(w)
      PROVE  IInv'
  BY <1>5, <1>0 DEF IInv, TypeOK, NoticeStop, historyVars,
     WorkerPhase, Busy, StopPhase, HeldOnce, BytesKept, TriesCounted,
     GiveUpJustified, DrainLeavesOnlyLate, Queued
<1>6. ASSUME NEW w \in Worker, Drained(w)
      PROVE  IInv'
  <2> USE <1>6, <1>0 DEF IInv, TypeOK
  <2>0. Queued = {} /\ Queued' = {}
    BY DEF Drained, Queued, ToSet
  <2>1. WorkerPhase'
    BY <2>0 DEF Drained, historyVars, WorkerPhase, Busy
  <2>2. StopPhase'
    BY <2>0 DEF Drained, historyVars, StopPhase, WorkerPhase
  <2>3. HeldOnce'
    BY <2>0 DEF Drained, historyVars, HeldOnce, WorkerPhase, Busy
  <2>4. BytesKept'
    BY <2>0 DEF Drained, historyVars, BytesKept, HeldOnce, WorkerPhase, Busy
  <2>5. TriesCounted'
    BY <2>0 DEF Drained, historyVars, TriesCounted, HeldOnce, WorkerPhase, Busy
  <2>6. GiveUpJustified'
    BY <2>0 DEF Drained, historyVars, GiveUpJustified, TriesCounted, HeldOnce,
        WorkerPhase, Busy
  <2>7. DrainLeavesOnlyLate'
    BY <2>0 DEF Drained, historyVars, DrainLeavesOnlyLate, WorkerPhase
  <2> QED
    BY <2>1, <2>2, <2>3, <2>4, <2>5, <2>6, <2>7
<1>7. ASSUME NEW w \in Worker, PutLands(w)
      PROVE  IInv'
  <2> USE <1>7, <1>0 DEF IInv, TypeOK
  <2>1. WorkerPhase'
    BY DEF PutLands, WorkerPhase, Busy
  <2>2. StopPhase'
    BY DEF PutLands, StopPhase, WorkerPhase
  <2>3. HeldOnce'
    BY DEF PutLands, HeldOnce, Queued, WorkerPhase, Busy
  <2>4. BytesKept'
    BY DEF PutLands, BytesKept, HeldOnce, WorkerPhase, Busy
  <2>5. TriesCounted'
    BY DEF PutLands, TriesCounted, HeldOnce, Queued, WorkerPhase, Busy
  <2>6. GiveUpJustified'
    BY DEF PutLands, GiveUpJustified, TriesCounted, HeldOnce, WorkerPhase, Busy
  <2>7. DrainLeavesOnlyLate'
    BY DEF PutLands, DrainLeavesOnlyLate, Queued, WorkerPhase
  <2> QED
    BY <2>1, <2>2, <2>3, <2>4, <2>5, <2>6, <2>7
<1>8. ASSUME NEW w \in Worker, UploadSucceeds(w)
      PROVE  IInv'
  <2> USE <1>8, <1>0 DEF IInv, TypeOK
  <2>1. WorkerPhase'
    BY DEF UploadSucceeds, Done, Tried, WorkerPhase, Busy
  <2>2. StopPhase'
    BY DEF UploadSucceeds, Done, Tried, StopPhase, WorkerPhase
  <2>3. HeldOnce'
    BY DEF UploadSucceeds, Done, Tried, HeldOnce, Queued, WorkerPhase, Busy
  <2>4. BytesKept'
    BY DEF UploadSucceeds, Done, Tried, BytesKept, HeldOnce, WorkerPhase, Busy
  <2>5. TriesCounted'
    BY DEF UploadSucceeds, Done, Tried, TriesCounted, HeldOnce, Queued, WorkerPhase, Busy
  <2>6. GiveUpJustified'
    BY DEF UploadSucceeds, Done, Tried, GiveUpJustified, TriesCounted, HeldOnce,
        WorkerPhase, Busy
  <2>7. DrainLeavesOnlyLate'
    BY DEF UploadSucceeds, Done, Tried, DrainLeavesOnlyLate, Queued, WorkerPhase
  <2> QED
    BY <2>1, <2>2, <2>3, <2>4, <2>5, <2>6, <2>7
<1>9. ASSUME NEW w \in Worker, UploadFails(w)
      PROVE  IInv'
  <2> USE <1>9, <1>0 DEF IInv, TypeOK
  <2>1. WorkerPhase'
    BY DEF UploadFails, MoreAttempts, Tried, WorkerPhase, Busy
  <2>2. StopPhase'
    BY DEF UploadFails, MoreAttempts, Tried, StopPhase, WorkerPhase
  <2>3. HeldOnce'
    BY DEF UploadFails, MoreAttempts, Tried, HeldOnce, Queued, WorkerPhase, Busy
  <2>4. BytesKept'
    BY DEF UploadFails, MoreAttempts, Tried, BytesKept, HeldOnce, WorkerPhase, Busy
  <2>5. TriesCounted'
    BY DEF UploadFails, MoreAttempts, Tried, TriesCounted, HeldOnce, Queued, WorkerPhase, Busy
  <2>6. GiveUpJustified'
    BY DEF UploadFails, MoreAttempts, Tried, GiveUpJustified, TriesCounted, HeldOnce,
        WorkerPhase, Busy
  <2>7. DrainLeavesOnlyLate'
    BY DEF UploadFails, MoreAttempts, Tried, DrainLeavesOnlyLate, Queued, WorkerPhase
  <2> QED
    BY <2>1, <2>2, <2>3, <2>4, <2>5, <2>6, <2>7
<1>10. ASSUME NEW w \in Worker, Exhausts(w)
      PROVE  IInv'
  <2> USE <1>10, <1>0 DEF IInv, TypeOK
  <2>1. WorkerPhase'
    BY DEF Exhausts, MoreAttempts, Done, Tried, WorkerPhase, Busy
  <2>2. StopPhase'
    BY DEF Exhausts, MoreAttempts, Done, Tried, StopPhase, WorkerPhase
  <2>3. HeldOnce'
    BY DEF Exhausts, MoreAttempts, Done, Tried, HeldOnce, Queued, WorkerPhase, Busy
  <2>4. BytesKept'
    BY DEF Exhausts, MoreAttempts, Done, Tried, BytesKept, HeldOnce, WorkerPhase, Busy
  <2>5. TriesCounted'
    BY DEF Exhausts, MoreAttempts, Done, Tried, TriesCounted, HeldOnce, Queued,
        WorkerPhase, Busy
  <2>6. GiveUpJustified'
    BY DEF Exhausts, MoreAttempts, Done, Tried, GiveUpJustified, TriesCounted, HeldOnce,
        WorkerPhase, Busy
  <2>7. DrainLeavesOnlyLate'
    BY DEF Exhausts, MoreAttempts, Done, Tried, DrainLeavesOnlyLate, Queued, WorkerPhase
  <2> QED
    BY <2>1, <2>2, <2>3, <2>4, <2>5, <2>6, <2>7
<1>11. ASSUME NEW w \in Worker, BackoffElapsed(w)
      PROVE  IInv'
  BY <1>11, <1>0 DEF IInv, TypeOK, BackoffElapsed, historyVars,
     WorkerPhase, Busy, StopPhase, HeldOnce, BytesKept, TriesCounted,
     GiveUpJustified, DrainLeavesOnlyLate, Queued
<1>12. ASSUME NEW w \in Worker, BackoffAborted(w)
      PROVE  IInv'
  <2> USE <1>12, <1>0 DEF IInv, TypeOK
  <2>1. WorkerPhase'
    BY DEF BackoffAborted, Done, WorkerPhase, Busy
  <2>2. StopPhase'
    BY DEF BackoffAborted, Done, StopPhase, WorkerPhase
  <2>3. HeldOnce'
    BY DEF BackoffAborted, Done, HeldOnce, Queued, WorkerPhase, Busy
  <2>4. BytesKept'
    BY DEF BackoffAborted, Done, BytesKept, HeldOnce, WorkerPhase, Busy
  <2>5. TriesCounted'
    BY DEF BackoffAborted, Done, TriesCounted, HeldOnce, Queued, WorkerPhase, Busy
  <2>6. GiveUpJustified'
    BY DEF BackoffAborted, Done, GiveUpJustified, TriesCounted, HeldOnce, WorkerPhase, Busy
  <2>7. DrainLeavesOnlyLate'
    BY DEF BackoffAborted, Done, DrainLeavesOnlyLate, Queued, WorkerPhase
  <2> QED
    BY <2>1, <2>2, <2>3, <2>4, <2>5, <2>6, <2>7
<1>13. CASE BeginStop
  BY <1>13, <1>0 DEF IInv, TypeOK, BeginStop, workerVars, historyVars,
     WorkerPhase, Busy, StopPhase, HeldOnce, BytesKept, TriesCounted,
     GiveUpJustified, DrainLeavesOnlyLate, Queued
<1>14. CASE StopReturns
  BY <1>14, <1>0 DEF IInv, TypeOK, StopReturns, AllExited, workerVars, historyVars,
     WorkerPhase, Busy, StopPhase, HeldOnce, BytesKept, TriesCounted,
     GiveUpJustified, DrainLeavesOnlyLate, Queued
<1>15. CASE UNCHANGED vars
  BY <1>15, <1>0 DEF IInv, TypeOK, vars, workerVars, historyVars,
     WorkerPhase, Busy, StopPhase, HeldOnce, BytesKept, TriesCounted,
     GiveUpJustified, DrainLeavesOnlyLate, Queued
<1> QED
  BY <1>1, <1>2, <1>3, <1>4, <1>5, <1>6, <1>7, <1>8, <1>9, <1>10, <1>11, <1>12, <1>13,
      <1>14, <1>15 DEF Next, WorkerStep

-----------------------------------------------------------------------------
(* The theorems.                                                           *)

(* Every variable keeps its type: the channel never exceeds its capacity and *)
(* the loop variable of process() never exceeds MaxRetries.                  *)
THEOREM TypeCorrect == Spec => []TypeOK
<1>1. Init => IInv
  BY InvInit
<1>2. IInv /\ [Next]_vars => IInv'
  BY InvStep
<1>3. IInv => TypeOK
  BY DEF IInv
<1> QED
  BY <1>1, <1>2, <1>3, PTL DEF Spec

(* The inductive invariant holds of every reachable state. *)
THEOREM Invariance == Spec => []IInv
BY InvInit, InvStep, PTL DEF Spec

(* No accepted job is lost, duplicated or held by two workers. *)
THEOREM HeldOnceHolds == Spec => []HeldOnce
<1>1. IInv => HeldOnce
  BY DEF IInv
<1> QED
  BY <1>1, Invariance, PTL

(* Accepted bytes stay on disk until a PUT of them has reached the bucket. *)
THEOREM BytesKeptHolds == Spec => []BytesKept
<1>1. IInv => BytesKept
  BY DEF IInv
<1> QED
  BY <1>1, Invariance, PTL

(* process() gives up only after all its attempts, on shutdown, or when the  *)
(* bucket has no client.                                                     *)
THEOREM GiveUpJustifiedHolds == Spec => []GiveUpJustified
<1>1. IInv => GiveUpJustified
  BY DEF IInv
<1> QED
  BY <1>1, Invariance, PTL

(* A worker leaves drain() only when every job accepted before the stop has  *)
(* been taken from the channel.                                              *)
THEOREM DrainLeavesOnlyLateHolds == Spec => []DrainLeavesOnlyLate
<1>1. IInv => DrainLeavesOnlyLate
  BY DEF IInv
<1> QED
  BY <1>1, Invariance, PTL

LEMMA ReturnedSettles == IInv => StopSettles
<1> SUFFICES ASSUME IInv, stopper = "returned",
                    NEW u \in Upload, outcome[u] = "pending"
             PROVE  u \in late
  BY DEF StopSettles
<1>1. \A w \in Worker : pc[w] = "exited" /\ job[w] = None
  BY DEF IInv, StopPhase, WorkerPhase, Busy
<1>2. u \in Queued
  BY <1>1, NoneAssumption DEF IInv, HeldOnce
<1>3. Queued \subseteq late
  BY <1>1, WorkerAssumption DEF IInv, DrainLeavesOnlyLate
<1> QED
  BY <1>2, <1>3

(* After Stop has returned only uploads submitted during or after it can be  *)
(* pending.                                                                  *)
THEOREM StopSettlesHolds == Spec => []StopSettles
BY ReturnedSettles, Invariance, PTL

-----------------------------------------------------------------------------
(* Refinement.                                                             *)

LEMMA PoolInit == Init => Pool!Init
BY DEF Init, Pool!Init, PoolStatus, PoolCopies, PoolGate

(* Giving up an upload, for whichever reason, is the pool's Abandon. *)
LEMMA AbandonStep ==
  ASSUME TypeOK, NEW u \in Upload, outcome[u] = "pending", PoolGate # "closed",
         NEW result \in {"aborted", "exhausted", "unroutable"},
         outcome' = [outcome EXCEPT ![u] = result],
         UNCHANGED <<stopper, staging, stored, late>>
  PROVE  Pool!Abandon(u)
<1>1. [z \in Upload |-> PoolStatus(z)]'
        = [[z \in Upload |-> PoolStatus(z)] EXCEPT ![u] = "abandoned"]
  BY DEF PoolStatus, TypeOK
<1>2. [z \in Upload |-> PoolCopies(z)]' = [z \in Upload |-> PoolCopies(z)]
  BY DEF PoolCopies
<1>3. PoolGate' = PoolGate
  BY DEF PoolGate
<1>4. [z \in Upload |-> PoolStatus(z)][u] = "pending"
  BY DEF PoolStatus
<1> QED
  BY <1>1, <1>2, <1>3, <1>4 DEF Pool!Abandon

LEMMA PoolStep == IInv /\ [Next]_vars => [Pool!Next]_(Pool!vars)
<1> SUFFICES ASSUME IInv, [Next]_vars
             PROVE  [Pool!Next]_(Pool!vars)
  OBVIOUS
<1> USE DEF IInv, TypeOK, Outcome
<1>0. ASSUME NEW w \in Worker, pc[w] # "exited"
      PROVE  /\ PoolGate # "closed"
             /\ Busy(w) => job[w] \in Upload /\ outcome[job[w]] = "pending"
             /\ pc[w] = "ack" => job[w] \in stored
  <2>1. stopper # "returned"
    BY <1>0 DEF StopPhase
  <2> QED
    BY <1>0, <2>1, NoneAssumption DEF PoolGate, WorkerPhase, HeldOnce
<1>1. ASSUME NEW u \in Upload, Accept(u)
      PROVE  Pool!Accept(u)
  <2>1. /\ outcome[u] = "new" /\ outcome' = [outcome EXCEPT ![u] = "pending"]
        /\ staging' = staging \union {u} /\ u \notin stored /\ stored' = stored
        /\ late' = IF stopCh THEN late \union {u} ELSE late
        /\ PoolGate' = PoolGate
    BY <1>1 DEF Accept, HasRoom, BytesKept, PoolGate
  <2>2. [z \in Upload |-> PoolStatus(z)]'
          = [[z \in Upload |-> PoolStatus(z)] EXCEPT ![u] = "pending"]
    BY <2>1 DEF PoolStatus
  <2>3. [z \in Upload |-> PoolCopies(z)]'
          = [[z \in Upload |-> PoolCopies(z)] EXCEPT ![u] = {"staging"}]
    BY <2>1 DEF PoolCopies
  <2>4. PoolGate = "open" <=> ~stopCh
    BY DEF PoolGate, StopPhase
  <2>5. [z \in Upload |-> PoolStatus(z)][u] = "new"
    BY <2>1 DEF PoolStatus
  <2> QED
    BY <2>1, <2>2, <2>3, <2>4, <2>5 DEF Pool!Accept
<1>2. ASSUME NEW u \in Upload, Refuse(u)
      PROVE  Pool!Refuse(u)
  BY <1>2 DEF Refuse, HasRoom, workerVars, Pool!Refuse, PoolStatus, PoolCopies, PoolGate
<1>3. ASSUME NEW w \in Worker, Receive(w)
      PROVE  UNCHANGED Pool!vars
  BY <1>3 DEF Receive, TakeJob, historyVars, Pool!vars, PoolStatus, PoolCopies, PoolGate
<1>4. ASSUME NEW w \in Worker, Discard(w)
      PROVE  \E u \in Upload : Pool!Abandon(u)
  <2>1. jobs # <<>> /\ pc[w] # "exited"
    BY <1>4 DEF Discard, TakeJob
  <2>2. Head(jobs) \in Upload /\ outcome[Head(jobs)] = "pending"
    BY <2>1, ReceiveFacts DEF Queued, HeldOnce
  <2> QED
    BY <1>4, <1>0, <2>1, <2>2, AbandonStep DEF Discard, TakeJob
<1>5. ASSUME NEW w \in Worker, NoticeStop(w)
      PROVE  UNCHANGED Pool!vars
  BY <1>5 DEF NoticeStop, historyVars, Pool!vars, PoolStatus, PoolCopies, PoolGate
<1>6. ASSUME NEW w \in Worker, Drained(w)
      PROVE  UNCHANGED Pool!vars
  BY <1>6 DEF Drained, historyVars, Pool!vars, PoolStatus, PoolCopies, PoolGate
<1>7. ASSUME NEW w \in Worker, PutLands(w)
      PROVE  \E u \in Upload : Pool!Land(u)
  <2> DEFINE u == job[w]
  <2>1. /\ u \in Upload /\ outcome[u] = "pending" /\ PoolGate # "closed"
        /\ outcome' = outcome /\ staging' = staging
        /\ stored' = stored \union {u} /\ late' = late
        /\ PoolGate' = PoolGate
    BY <1>7, <1>0 DEF PutLands, Busy, PoolGate
  <2> HIDE DEF u
  <2>2. [z \in Upload |-> PoolStatus(z)]' = [z \in Upload |-> PoolStatus(z)]
    BY <2>1 DEF PoolStatus
  <2>3. [z \in Upload |-> PoolCopies(z)]'
          = [[z \in Upload |-> PoolCopies(z)] EXCEPT ![u] = @ \union {"bucket"}]
    BY <2>1 DEF PoolCopies
  <2>4. [z \in Upload |-> PoolStatus(z)][u] = "pending"
    BY <2>1 DEF PoolStatus
  <2> QED
    BY <2>1, <2>2, <2>3, <2>4 DEF Pool!Land
<1>8. ASSUME NEW w \in Worker, UploadSucceeds(w)
      PROVE  \E u \in Upload : Pool!Finish(u)
  <2> DEFINE u == job[w]
  <2>1. /\ u \in Upload /\ outcome[u] = "pending" /\ PoolGate # "closed"
        /\ outcome' = [outcome EXCEPT ![u] = "uploaded"]
        /\ staging' \in {staging, staging \ {u}} /\ stored' = stored /\ u \in stored
        /\ late' = late /\ PoolGate' = PoolGate
    BY <1>8, <1>0 DEF UploadSucceeds, Done, Busy, PoolGate
  <2> HIDE DEF u
  <2>2. [z \in Upload |-> PoolStatus(z)]'
          = [[z \in Upload |-> PoolStatus(z)] EXCEPT ![u] = "uploaded"]
    BY <2>1 DEF PoolStatus
  <2>3. [z \in Upload |-> PoolCopies(z)]'
          \in {[z \in Upload |-> PoolCopies(z)],
               [[z \in Upload |-> PoolCopies(z)] EXCEPT ![u] = @ \ {"staging"}]}
    <3>1. CASE staging' = staging
      <4>1. [z \in Upload |-> PoolCopies(z)]' = [z \in Upload |-> PoolCopies(z)]
        BY <2>1, <3>1 DEF PoolCopies
      <4> QED
        BY <4>1
    <3>2. CASE staging' = staging \ {u}
      <4>1. [z \in Upload |-> PoolCopies(z)]'
              = [[z \in Upload |-> PoolCopies(z)] EXCEPT ![u] = @ \ {"staging"}]
        BY <2>1, <3>2 DEF PoolCopies
      <4> QED
        BY <4>1
    <3> QED
      BY <2>1, <3>1, <3>2
  <2>4. /\ [z \in Upload |-> PoolStatus(z)][u] = "pending"
        /\ "bucket" \in [z \in Upload |-> PoolCopies(z)][u]
    BY <2>1 DEF PoolStatus, PoolCopies
  <2> QED
    BY <2>1, <2>2, <2>3, <2>4 DEF Pool!Finish
<1>9. ASSUME NEW w \in Worker, UploadFails(w)
      PROVE  UNCHANGED Pool!vars
  BY <1>9 DEF UploadFails, MoreAttempts, Pool!vars, PoolStatus, PoolCopies, PoolGate
<1>10. ASSUME NEW w \in Worker, Exhausts(w)
       PROVE  \E u \in Upload : Pool!Abandon(u)
  BY <1>10, <1>0, AbandonStep DEF Exhausts, MoreAttempts, Done, Busy
<1>11. ASSUME NEW w \in Worker, BackoffElapsed(w)
       PROVE  UNCHANGED Pool!vars
  BY <1>11 DEF BackoffElapsed, historyVars, Pool!vars, PoolStatus, PoolCopies, PoolGate
<1>12. ASSUME NEW w \in Worker, BackoffAborted(w)
       PROVE  \E u \in Upload : Pool!Abandon(u)
  BY <1>12, <1>0, AbandonStep DEF BackoffAborted, Done, Busy
<1>13. ASSUME BeginStop
       PROVE  Pool!BeginClose
  BY <1>13 DEF BeginStop, workerVars, historyVars, Pool!BeginClose, PoolStatus,
      PoolCopies, PoolGate
<1>14. ASSUME StopReturns
       PROVE  Pool!Close
  <2>1. \A u \in Upload : outcome[u] = "pending" => u \in late
    <3>1. \A w \in Worker : pc[w] = "exited" /\ job[w] = None
      BY <1>14 DEF StopReturns, AllExited, WorkerPhase, Busy
    <3>2. Queued \subseteq late
      BY <3>1, WorkerAssumption DEF DrainLeavesOnlyLate
    <3> QED
      BY <3>1, <3>2, NoneAssumption DEF HeldOnce
  <2>2. \A u \in Upload : PoolStatus(u) = "pending" => outcome[u] = "pending"
    BY DEF PoolStatus
  <2>3. stopper = "waiting" /\ stopper' = "returned"
    BY <1>14 DEF StopReturns, AllExited
  <2>4. PoolGate = "closing" /\ PoolGate' = "closed"
    BY <2>3 DEF PoolGate
  <2>5. /\ [z \in Upload |-> PoolStatus(z)]' = [z \in Upload |-> PoolStatus(z)]
        /\ [z \in Upload |-> PoolCopies(z)]' = [z \in Upload |-> PoolCopies(z)]
        /\ late' = late
    BY <1>14 DEF StopReturns, AllExited, historyVars, PoolStatus, PoolCopies
  <2> QED
    BY <2>1, <2>2, <2>4, <2>5 DEF Pool!Close
<1>15. ASSUME UNCHANGED vars
       PROVE  UNCHANGED Pool!vars
  BY <1>15 DEF vars, workerVars, historyVars, Pool!vars, PoolStatus, PoolCopies, PoolGate
<1> QED
  BY <1>1, <1>2, <1>3, <1>4, <1>5, <1>6, <1>7, <1>8, <1>9, <1>10, <1>11, <1>12,
     <1>13, <1>14, <1>15
     DEF Next, WorkerStep, Pool!Next

(* The queue implements the abstract pool: every step is one of its steps or *)
(* changes nothing it can see.                                               *)
THEOREM QueueImplementsPool == Spec => ImplementsPool
<1>1. Init => Pool!Init
  BY PoolInit
<1>2. IInv /\ [Next]_vars => [Pool!Next]_(Pool!vars)
  BY PoolStep
<1> QED
  BY <1>1, <1>2, Invariance, PTL DEF Spec, ImplementsPool, Pool!Spec
=============================================================================
