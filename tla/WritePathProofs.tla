--------------------------- MODULE WritePathProofs ---------------------------
(***************************************************************************)
(* The way of a file's bytes to the bucket, for any keys, handles, requests,   *)
(* workers and operations: what was acknowledged is not lost, and in           *)
(* write-through mode it is in the bucket, in order.  What WriteBackQueue       *)
(* promises is taken from its proofs.                                       *)
(***************************************************************************)
EXTENDS WritePath, FiniteSetTheorems, TLAPS

QueueProofs == INSTANCE WriteBackQueueProofs WITH Upload <- Op, Routable <- Op, None <- Nil

-----------------------------------------------------------------------------
(* The invariant. *)

(* A flush is under way. *)
Flushing(r) == r.at \in {"catalog", "cache", "submit", "put", "ack", "record", "fput", "fack"}

Decided == acked \union rejected

Entry == [kind : {"put", "delete"}, key : Key, data : SUBSET Chunk, before : SUBSET Op]

HandleRecord ==
  [at : {"closed", "idle", "catalog", "cache", "submit", "put", "ack", "record",
         "fput", "fack", "get", "fill", "broken"},
   key : Key \union {Nil}, tmp : SUBSET Chunk, dirty : BOOLEAN, cur : Nat, wrote : SUBSET Chunk]

UnlinkRecord == [at : {"idle", "delete", "invalidate", "forget"}, op : Nat]

(* What was done before an operation was acknowledged, and what was accepted by    *)
(* the queue is.                                                             *)
History ==
  /\ log \in Seq(Entry) /\ Len(log) <= MaxOps
  /\ direct \union Decided \subseteq DOMAIN log
  /\ acked \intersect rejected = {}
  /\ \A n \in DOMAIN log : log[n].before \subseteq acked /\ n \notin log[n].before
  /\ \A n \in Op : outcome[n] \notin {"new", "refused"} => n \in acked

Stores ==
  /\ s3 \in [Key -> 0..Len(log)]
  /\ cache \in [Key -> Version \union {Nil}]
  /\ catalog \in [Key -> Version \union {Nil}]
  /\ \A k \in Key : s3[k] \in Landed \union {0}

(* The operation of a handle's flush is its own and undecided; a download is of     *)
(* something that was written.                                                *)
HandleOK(r, entries, decided, done) ==
  /\ r \in HandleRecord
  /\ r.cur \in 0..Len(entries)
  /\ r.at # "closed" => r.key \in Key
  /\ Flushing(r) => /\ r.cur \in DOMAIN entries /\ r.cur \notin decided
                    /\ entries[r.cur].kind = "put" /\ entries[r.cur].key = r.key
  /\ r.at \in {"ack", "record", "fack"} => r.cur \in done
  /\ r.at = "fill" => r.cur \in DOMAIN entries

Handles ==
  /\ handle = [h \in Handle |-> handle[h]]
  /\ \A h \in Handle : HandleOK(handle[h], log, Decided, direct)
  /\ \A g, h \in Handle :
       Flushing(handle[g]) /\ Flushing(handle[h]) /\ handle[g].cur = handle[h].cur => g = h

UnlinkOK(r, entries, decided, done) ==
  /\ r \in UnlinkRecord
  /\ r.op \in 0..Len(entries)
  /\ r.at # "idle" => /\ r.op \in DOMAIN entries /\ r.op \notin decided
                      /\ entries[r.op].kind = "delete"
  /\ r.at \in {"invalidate", "forget"} => r.op \in done

Unlinks ==
  /\ unlink = [d \in Dir |-> unlink[d]]
  /\ \A d \in Dir : UnlinkOK(unlink[d], log, Decided, direct)
  /\ \A c, d \in Dir :
       unlink[c].at # "idle" /\ unlink[d].at # "idle" /\ unlink[c].op = unlink[d].op => c = d

(* In write-through mode nothing is staged, a handle's file has all that was       *)
(* written, and the cache has what is in the bucket.                           *)
ThroughOK(r, entries, done, landed) ==
  /\ r.at \notin {"catalog", "cache", "submit", "fput", "fack", "broken"}
  /\ r.tmp = r.wrote
  /\ Flushing(r) => entries[r.cur].data = r.wrote
  /\ ~r.dirty /\ r.wrote # {} =>
       \E n \in done : entries[n].key = r.key /\ entries[n].data = r.wrote
  /\ r.at = "fill" => r.cur \in landed \union {0}

Through ==
  /\ \A h \in Handle : ThroughOK(handle[h], log, acked, direct)
  /\ \A k \in Key : cache[k] # Nil => cache[k].ver \in direct \union {0}
  /\ jobs = <<>> /\ staging = {} /\ stored = {}
  /\ \A w \in Worker : pc[w] = "receive" /\ ~draining[w]
  /\ ~stopCh

(* The channel has no upload that was acknowledged before one ahead of it began,   *)
(* nor before one that a worker has or has stored; with one worker, nor has it.     *)
Ordered ==
  /\ \A i, j \in DOMAIN jobs : i < j => jobs[j] \notin log[jobs[i]].before
  /\ \A i \in DOMAIN jobs : \A w \in Worker : job[w] # Nil => jobs[i] \notin log[job[w]].before
  /\ \A i \in DOMAIN jobs : \A m \in stored : jobs[i] \notin log[m].before
  /\ (\A v, w \in Worker : v = w) =>
       \A w \in Worker : \A m \in stored : job[w] # Nil => job[w] \notin log[m].before

IInv ==
  /\ QueueProofs!IInv
  /\ History
  /\ Stores
  /\ Handles
  /\ Unlinks
  /\ ~UseQueue => Through
  /\ AckedSomewhere
  /\ Ordered

-----------------------------------------------------------------------------
(* The queue.  Every step of the composition is a step of it, or leaves it alone. *)

QueueNext == QueueProofs!Next
QueueVars == QueueProofs!vars

LEMMA QueueAssumed ==
  /\ QueueProofs!WorkerAssumption /\ QueueProofs!RoutableAssumption
  /\ QueueProofs!QueueSizeAssumption /\ QueueProofs!MaxRetriesAssumption
  /\ QueueProofs!NoneAssumption
BY QueueAssumption
   DEF QueueProofs!WorkerAssumption, QueueProofs!RoutableAssumption, QueueProofs!QueueSizeAssumption,
       QueueProofs!MaxRetriesAssumption, QueueProofs!NoneAssumption

LEMMA QueueKeeps ==
  ASSUME QueueProofs!IInv, [QueueNext]_QueueVars
  PROVE  QueueProofs!IInv'
BY QueueProofs!InvStep, QueueAssumed DEF QueueProofs!InvStep, QueueNext, QueueVars

LEMMA QueueInit == Queue!Init => QueueProofs!IInv
<1>1. Queue!Init => QueueProofs!Init
  BY DEF Queue!Init, QueueProofs!Init
<1> QED
  BY <1>1, QueueProofs!InvInit, QueueAssumed DEF QueueProofs!InvInit

LEMMA SameOperations ==
  /\ \A n \in Op : Queue!Accept(n) \/ Queue!Refuse(n) => QueueNext
  /\ \A w \in Worker :
       \/ Queue!Receive(w) \/ Queue!NoticeStop(w) \/ Queue!Drained(w) \/ Queue!PutLands(w)
       \/ Queue!UploadSucceeds(w) \/ Queue!UploadFails(w) \/ Queue!Exhausts(w)
       \/ Queue!BackoffElapsed(w) \/ Queue!BackoffAborted(w)
       => QueueNext
  /\ Queue!BeginStop \/ Queue!StopReturns => QueueNext
<1>1. ASSUME NEW n \in Op, Queue!Accept(n) \/ Queue!Refuse(n)
      PROVE  QueueNext
  <2>1. QueueProofs!Accept(n) \/ QueueProofs!Refuse(n)
    BY <1>1 DEF Queue!Accept, Queue!Refuse, QueueProofs!Accept, QueueProofs!Refuse,
                Queue!HasRoom, QueueProofs!HasRoom, Queue!workerVars, QueueProofs!workerVars
  <2> QED
    BY <2>1 DEF QueueNext, QueueProofs!Next
<1>2. ASSUME NEW w \in Worker,
             \/ Queue!Receive(w) \/ Queue!NoticeStop(w) \/ Queue!Drained(w) \/ Queue!PutLands(w)
             \/ Queue!UploadSucceeds(w) \/ Queue!UploadFails(w) \/ Queue!Exhausts(w)
             \/ Queue!BackoffElapsed(w) \/ Queue!BackoffAborted(w)
      PROVE  QueueNext
  <2> USE DEF Queue!historyVars, QueueProofs!historyVars
  <2>1. CASE Queue!Receive(w)
    BY <2>1 DEF Queue!Receive, QueueProofs!Receive, Queue!TakeJob, QueueProofs!TakeJob,
                QueueNext, QueueProofs!Next, QueueProofs!WorkerStep
  <2>2. CASE Queue!NoticeStop(w) \/ Queue!Drained(w)
    BY <2>2 DEF Queue!NoticeStop, Queue!Drained, QueueProofs!NoticeStop, QueueProofs!Drained,
                QueueNext, QueueProofs!Next, QueueProofs!WorkerStep
  <2>3. CASE Queue!PutLands(w)
    BY <2>3 DEF Queue!PutLands, QueueProofs!PutLands, QueueNext, QueueProofs!Next, QueueProofs!WorkerStep
  <2>4. CASE Queue!UploadSucceeds(w)
    <3>1. QueueProofs!UploadSucceeds(w)
      BY <2>4 DEF Queue!UploadSucceeds, Queue!Tried, Queue!Done,
                  QueueProofs!UploadSucceeds, QueueProofs!Tried, QueueProofs!Done
    <3> QED
      BY <3>1 DEF QueueNext, QueueProofs!Next, QueueProofs!WorkerStep
  <2>5. CASE Queue!UploadFails(w)
    <3>1. QueueProofs!UploadFails(w)
      BY <2>5 DEF Queue!UploadFails, Queue!MoreAttempts, Queue!Tried,
                  QueueProofs!UploadFails, QueueProofs!MoreAttempts, QueueProofs!Tried
    <3> QED
      BY <3>1 DEF QueueNext, QueueProofs!Next, QueueProofs!WorkerStep
  <2>6. CASE Queue!Exhausts(w)
    <3>1. QueueProofs!Exhausts(w)
      BY <2>6 DEF Queue!Exhausts, Queue!MoreAttempts, Queue!Tried, Queue!Done,
                  QueueProofs!Exhausts, QueueProofs!MoreAttempts, QueueProofs!Tried, QueueProofs!Done
    <3> QED
      BY <3>1 DEF QueueNext, QueueProofs!Next, QueueProofs!WorkerStep
  <2>7. CASE Queue!BackoffElapsed(w)
    BY <2>7 DEF Queue!BackoffElapsed, QueueProofs!BackoffElapsed,
                QueueNext, QueueProofs!Next, QueueProofs!WorkerStep
  <2>8. CASE Queue!BackoffAborted(w)
    <3>1. QueueProofs!BackoffAborted(w)
      BY <2>8 DEF Queue!BackoffAborted, Queue!Done, QueueProofs!BackoffAborted, QueueProofs!Done
    <3> QED
      BY <3>1 DEF QueueNext, QueueProofs!Next, QueueProofs!WorkerStep
  <2> QED
    BY <1>2, <2>1, <2>2, <2>3, <2>4, <2>5, <2>6, <2>7, <2>8
<1>3. ASSUME Queue!BeginStop \/ Queue!StopReturns
      PROVE  QueueNext
  <2>1. QueueProofs!BeginStop \/ QueueProofs!StopReturns
    BY <1>3 DEF Queue!BeginStop, Queue!StopReturns, Queue!AllExited, Queue!workerVars, Queue!historyVars,
                QueueProofs!BeginStop, QueueProofs!StopReturns, QueueProofs!AllExited,
                QueueProofs!workerVars, QueueProofs!historyVars
  <2> QED
    BY <2>1 DEF QueueNext, QueueProofs!Next
<1> QED
  BY <1>1, <1>2, <1>3

LEMMA QueueAlone ==
  ASSUME UNCHANGED queue
  PROVE  [QueueNext]_QueueVars
BY DEF queue, QueueVars, QueueProofs!vars, QueueProofs!workerVars, QueueProofs!historyVars

Untouched(n) == outcome[n] \in {"new", "refused"}

LEMMA QueueState ==
  ASSUME QueueProofs!IInv
  PROVE  /\ stopCh \in BOOLEAN /\ jobs \in Seq(Op) /\ staging \in SUBSET Op /\ stored \in SUBSET Op
         /\ pc \in [Worker -> {"receive", "put", "ack", "backoff", "exited"}]
         /\ job \in [Worker -> Op \union {Nil}]
         /\ outcome \in [Op -> Queue!Outcome]
         /\ \A w \in Worker : job[w] # Nil <=> pc[w] \in {"put", "ack", "backoff"}
         /\ \A w \in Worker : pc[w] = "ack" => job[w] \in stored
         /\ \A i \in DOMAIN jobs : jobs[i] \in Op /\ ~Untouched(jobs[i])
         /\ \A w \in Worker : job[w] # Nil => job[w] \in Op /\ ~Untouched(job[w])
         /\ \A n \in Op : Untouched(n) => n \notin stored /\ n \notin staging
         /\ Queue!TypeOK
<1>1. QueueProofs!TypeOK /\ QueueProofs!WorkerPhase /\ QueueProofs!HeldOnce /\ QueueProofs!BytesKept
  BY DEF QueueProofs!IInv
<1>2. Queue!TypeOK
  BY <1>1 DEF QueueProofs!TypeOK, Queue!TypeOK, QueueProofs!Outcome, Queue!Outcome
<1>3. /\ stopCh \in BOOLEAN /\ jobs \in Seq(Op) /\ staging \in SUBSET Op /\ stored \in SUBSET Op
      /\ pc \in [Worker -> {"receive", "put", "ack", "backoff", "exited"}]
      /\ job \in [Worker -> Op \union {Nil}]
      /\ outcome \in [Op -> Queue!Outcome]
  BY <1>2 DEF Queue!TypeOK
<1>4. /\ \A w \in Worker : job[w] # Nil <=> pc[w] \in {"put", "ack", "backoff"}
      /\ \A w \in Worker : pc[w] = "ack" => job[w] \in stored
  BY <1>1 DEF QueueProofs!WorkerPhase, QueueProofs!Busy
<1>5. \A n \in Op : Untouched(n) => n \notin stored /\ n \notin staging
  BY <1>1 DEF QueueProofs!BytesKept, Untouched
<1>6. \A n \in Op : outcome[n] = "pending" <=> n \in QueueProofs!Queued \/ \E w \in Worker : job[w] = n
  BY <1>1 DEF QueueProofs!HeldOnce
<1>7. \A i \in DOMAIN jobs : jobs[i] \in Op /\ jobs[i] \in QueueProofs!Queued
  BY <1>3 DEF QueueProofs!Queued, QueueProofs!ToSet
<1>8. \A i \in DOMAIN jobs : jobs[i] \in Op /\ ~Untouched(jobs[i])
  BY <1>6, <1>7 DEF Untouched
<1>9. \A w \in Worker : job[w] # Nil => job[w] \in Op /\ ~Untouched(job[w])
  BY <1>3, <1>6 DEF Untouched
<1> QED
  BY <1>2, <1>3, <1>4, <1>5, <1>8, <1>9

(* What a worker does, other than a PUT that reaches the bucket. *)
WorkerAct(w) ==
  \/ Queue!Receive(w) \/ Queue!NoticeStop(w) \/ Queue!Drained(w)
  \/ Queue!UploadSucceeds(w) \/ Queue!UploadFails(w) \/ Queue!Exhausts(w)
  \/ Queue!BackoffElapsed(w) \/ Queue!BackoffAborted(w)

LEMMA WorkerEffect ==
  ASSUME QueueProofs!IInv, NEW w \in Worker, WorkerAct(w)
  PROVE  /\ stored' = stored /\ staging \ staging' \subseteq stored
         /\ \A n \in Op : Untouched(n) => outcome'[n] = outcome[n]
         /\ \/ jobs' = jobs /\ \A v \in Worker : job'[v] = job[v] \/ job'[v] = Nil
            \/ jobs # <<>> /\ jobs' = Tail(jobs) /\ job' = [job EXCEPT ![w] = Head(jobs)]
         /\ jobs # <<>> \/ pc[w] # "receive" \/ draining[w] \/ stopCh
<1> USE QueueState DEF Queue!historyVars, Untouched
<1>1. CASE Queue!Receive(w)
  BY <1>1 DEF Queue!Receive, Queue!TakeJob
<1>2. CASE Queue!NoticeStop(w) \/ Queue!Drained(w) \/ Queue!BackoffElapsed(w)
  BY <1>2 DEF Queue!NoticeStop, Queue!Drained, Queue!BackoffElapsed
<1>3. CASE Queue!UploadFails(w)
  BY <1>3 DEF Queue!UploadFails
<1>4. ASSUME NEW result, Queue!Done(w, result), pc[w] \in {"put", "ack", "backoff"}
      PROVE  /\ \A n \in Op : Untouched(n) => outcome'[n] = outcome[n]
             /\ jobs' = jobs /\ \A v \in Worker : job'[v] = job[v] \/ job'[v] = Nil
             /\ stored' = stored
  BY <1>4 DEF Queue!Done
<1>5. CASE Queue!UploadSucceeds(w)
  BY <1>4, <1>5 DEF Queue!UploadSucceeds
<1>6. CASE Queue!Exhausts(w)
  BY <1>4, <1>6 DEF Queue!Exhausts
<1>7. CASE Queue!BackoffAborted(w)
  BY <1>4, <1>7 DEF Queue!BackoffAborted
<1> QED
  BY <1>1, <1>2, <1>3, <1>5, <1>6, <1>7 DEF WorkerAct

-----------------------------------------------------------------------------
(* The parts of the invariant, one by one.  An operation that begins is added to   *)
(* the log, which otherwise stays.                                             *)

Extends ==
  /\ log' \in Seq(Entry) /\ Len(log') <= MaxOps
  /\ Len(log) <= Len(log') /\ DOMAIN log \subseteq DOMAIN log'
  /\ \A n \in DOMAIN log : log'[n] = log[n]
  /\ \A n \in DOMAIN log' : n \notin DOMAIN log => log'[n].before = acked

LEMMA SameLog ==
  ASSUME History, log' = log
  PROVE  Extends
BY DEF History, Extends

LEMMA Begins ==
  ASSUME History, NEW kind \in {"put", "delete"}, NEW k \in Key, NEW data \in SUBSET Chunk,
         Begin(kind, k, data)
  PROVE  /\ Extends /\ Len(log) + 1 \in DOMAIN log' /\ Len(log) + 1 \notin DOMAIN log
         /\ Len(log') = Len(log) + 1
         /\ log'[Len(log) + 1] = [kind |-> kind, key |-> k, data |-> data, before |-> acked]
<1> DEFINE e == [kind |-> kind, key |-> k, data |-> data, before |-> acked]
<1>1. DOMAIN log = 1..Len(log) /\ Len(log) \in Nat /\ MaxOps \in Nat
  BY ModeAssumption DEF History
<1>2. acked \subseteq Op
  BY <1>1 DEF History, Decided, Op
<1>3. e \in Entry
  BY <1>2 DEF Entry
<1>4. log' = Append(log, e) /\ Len(log) < MaxOps /\ log \in Seq(Entry) /\ e.before = acked
  BY DEF Begin, History
<1> HIDE DEF e
<1>5. /\ Append(log, e) \in Seq(Entry) /\ Len(Append(log, e)) = Len(log) + 1
      /\ DOMAIN Append(log, e) = 1..(Len(log) + 1)
      /\ \A n \in 1..Len(log) : Append(log, e)[n] = log[n]
      /\ Append(log, e)[Len(log) + 1] = e
  BY <1>3, <1>4
<1>6. Extends
  BY <1>1, <1>4, <1>5 DEF Extends
<1> QED
  BY <1>1, <1>4, <1>5, <1>6 DEF e

LEMMA Numbers ==
  ASSUME History
  PROVE  /\ Len(log) \in Nat /\ DOMAIN log = 1..Len(log) /\ DOMAIN log \subseteq Op /\ Op \subseteq Nat
         /\ acked \subseteq DOMAIN log /\ rejected \subseteq DOMAIN log /\ direct \subseteq DOMAIN log
         /\ 0 \notin Op
         /\ \A n \in DOMAIN log : log[n] \in Entry
BY ModeAssumption DEF History, Decided, Op

LEMMA HistoryKeeps ==
  ASSUME IInv, Extends, acked \subseteq acked',
         acked' \union rejected' \union direct' \subseteq DOMAIN log', acked' \intersect rejected' = {},
         \A n \in Op : Untouched(n) => outcome'[n] \in {"new", "refused"} \/ n \in acked'
  PROVE  History'
<1>1. History
  BY DEF IInv
<1>2. \A n \in DOMAIN log' : log'[n].before \subseteq acked' /\ n \notin log'[n].before
  <2>1. \A n \in DOMAIN log : log'[n].before \subseteq acked /\ n \notin log'[n].before
    BY <1>1 DEF History, Extends
  <2>2. \A n \in DOMAIN log' : n \notin DOMAIN log => log'[n].before = acked /\ n \notin acked
    BY <1>1, Numbers DEF Extends
  <2> QED
    BY <2>1, <2>2
<1>3. \A n \in Op : outcome'[n] \notin {"new", "refused"} => n \in acked'
  BY <1>1 DEF History, Untouched
<1> QED
  BY <1>2, <1>3 DEF History, Decided, Extends

LEMMA HandleKeeps ==
  ASSUME History, Extends, NEW r, NEW decided, NEW done, direct \subseteq done,
         HandleOK(r, log, Decided, direct), Flushing(r) => r.cur \notin decided
  PROVE  HandleOK(r, log', decided, done)
<1>1. Len(log) \in Nat /\ Len(log') \in Nat
  BY DEF History, Extends
<1>2. 0..Len(log) \subseteq 0..Len(log')
  BY <1>1 DEF Extends
<1> QED
  BY <1>2 DEF HandleOK, Extends

LEMMA HandlesKeep ==
  ASSUME IInv, Extends, direct \subseteq direct', handle' = handle,
         \A g \in Handle : Flushing(handle[g]) => handle[g].cur \notin Decided'
  PROVE  Handles'
<1>1. \A g \in Handle : HandleOK(handle[g], log', Decided', direct')
  BY HandleKeeps DEF IInv, Handles
<1> QED
  BY <1>1 DEF IInv, Handles

LEMMA HandleMoves ==
  ASSUME IInv, Extends, direct \subseteq direct', NEW h \in Handle, NEW n,
         handle' = [handle EXCEPT ![h] = n], HandleOK(n, log', Decided', direct'),
         \A g \in Handle \ {h} : Flushing(handle[g]) => handle[g].cur \notin Decided',
         Flushing(n) => n.cur \notin DOMAIN log \/ (Flushing(handle[h]) /\ n.cur = handle[h].cur)
  PROVE  Handles'
<1>1. \A g \in Handle \ {h} : HandleOK(handle[g], log', Decided', direct')
  BY HandleKeeps DEF IInv, Handles
<1>2. handle' = [g \in Handle |-> handle'[g]] /\ handle'[h] = n
      /\ \A g \in Handle \ {h} : handle'[g] = handle[g]
  BY DEF IInv, Handles
<1>3. \A g \in Handle : HandleOK(handle'[g], log', Decided', direct')
  BY <1>1, <1>2
<1>4. \A g \in Handle \ {h} : Flushing(n) /\ Flushing(handle[g]) => n.cur # handle[g].cur
  BY DEF IInv, Handles, HandleOK
<1>5. \A f, g \in Handle \ {h} :
        Flushing(handle[f]) /\ Flushing(handle[g]) /\ handle[f].cur = handle[g].cur => f = g
  BY DEF IInv, Handles
<1>6. \A f, g \in Handle :
        Flushing(handle'[f]) /\ Flushing(handle'[g]) /\ handle'[f].cur = handle'[g].cur => f = g
  BY <1>2, <1>4, <1>5
<1> QED
  BY <1>2, <1>3, <1>6 DEF Handles

LEMMA UnlinkKeeps ==
  ASSUME History, Extends, NEW r, NEW decided, NEW done, direct \subseteq done,
         UnlinkOK(r, log, Decided, direct), r.at # "idle" => r.op \notin decided
  PROVE  UnlinkOK(r, log', decided, done)
<1>1. Len(log) \in Nat /\ Len(log') \in Nat
  BY DEF History, Extends
<1>2. 0..Len(log) \subseteq 0..Len(log')
  BY <1>1 DEF Extends
<1> QED
  BY <1>2 DEF UnlinkOK, Extends

LEMMA UnlinksKeep ==
  ASSUME IInv, Extends, direct \subseteq direct', unlink' = unlink,
         \A c \in Dir : unlink[c].at # "idle" => unlink[c].op \notin Decided'
  PROVE  Unlinks'
<1>1. \A c \in Dir : UnlinkOK(unlink[c], log', Decided', direct')
  BY UnlinkKeeps DEF IInv, Unlinks
<1> QED
  BY <1>1 DEF IInv, Unlinks

LEMMA UnlinkMoves ==
  ASSUME IInv, Extends, direct \subseteq direct', NEW d \in Dir, NEW n,
         unlink' = [unlink EXCEPT ![d] = n], UnlinkOK(n, log', Decided', direct'),
         \A c \in Dir \ {d} : unlink[c].at # "idle" => unlink[c].op \notin Decided',
         n.at # "idle" => n.op \notin DOMAIN log \/ (unlink[d].at # "idle" /\ n.op = unlink[d].op)
  PROVE  Unlinks'
<1>1. \A c \in Dir \ {d} : UnlinkOK(unlink[c], log', Decided', direct')
  BY UnlinkKeeps DEF IInv, Unlinks
<1>2. unlink' = [c \in Dir |-> unlink'[c]] /\ unlink'[d] = n
      /\ \A c \in Dir \ {d} : unlink'[c] = unlink[c]
  BY DEF IInv, Unlinks
<1>3. \A c \in Dir : UnlinkOK(unlink'[c], log', Decided', direct')
  BY <1>1, <1>2
<1>4. \A c \in Dir \ {d} : n.at # "idle" /\ unlink[c].at # "idle" => n.op # unlink[c].op
  BY DEF IInv, Unlinks, UnlinkOK
<1>5. \A b, c \in Dir \ {d} :
        unlink[b].at # "idle" /\ unlink[c].at # "idle" /\ unlink[b].op = unlink[c].op => b = c
  BY DEF IInv, Unlinks
<1>6. \A b, c \in Dir :
        unlink'[b].at # "idle" /\ unlink'[c].at # "idle" /\ unlink'[b].op = unlink'[c].op => b = c
  BY <1>2, <1>4, <1>5
<1> QED
  BY <1>2, <1>3, <1>6 DEF Unlinks

LEMMA ThroughKeeps ==
  ASSUME History, Extends, acked \subseteq acked', direct \subseteq direct', NEW r,
         HandleOK(r, log, Decided, direct), ThroughOK(r, log, acked, direct)
  PROVE  ThroughOK(r, log', acked', direct')
<1>1. Flushing(r) => log'[r.cur] = log[r.cur]
  BY DEF HandleOK, Extends
<1>2. \A n \in acked : log'[n] = log[n]
  BY Numbers DEF Extends
<1>3. ~r.dirty /\ r.wrote # {} =>
        \E n \in acked' : log'[n].key = r.key /\ log'[n].data = r.wrote
  BY <1>2 DEF ThroughOK
<1> QED
  BY <1>1, <1>3 DEF ThroughOK

CacheFromDone(done) == \A k \in Key : cache[k] # Nil => cache[k].ver \in done \union {0}

LEMMA ThroughStays ==
  ASSUME IInv, ~UseQueue, Extends, acked \subseteq acked', direct \subseteq direct', handle' = handle,
         CacheFromDone(direct)', UNCHANGED queue
  PROVE  Through'
<1>1. \A h \in Handle : ThroughOK(handle[h], log', acked', direct')
  BY ThroughKeeps DEF IInv, Through, Handles
<1> QED
  BY <1>1 DEF IInv, Through, CacheFromDone, queue

LEMMA ThroughMoves ==
  ASSUME IInv, ~UseQueue, Extends, acked \subseteq acked', direct \subseteq direct',
         NEW h \in Handle, NEW n, handle' = [handle EXCEPT ![h] = n],
         ThroughOK(n, log', acked', direct'), CacheFromDone(direct)', UNCHANGED queue
  PROVE  Through'
<1>1. \A g \in Handle : ThroughOK(handle[g], log', acked', direct')
  BY ThroughKeeps DEF IInv, Through, Handles
<1>2. \A g \in Handle : handle'[g] = IF g = h THEN n ELSE handle[g]
  BY DEF IInv, Handles
<1>3. \A g \in Handle : ThroughOK(handle'[g], log', acked', direct')
  BY <1>1, <1>2
<1> QED
  BY <1>3 DEF IInv, Through, CacheFromDone, queue

LEMMA OrderedKeeps ==
  ASSUME IInv, Extends, jobs' = jobs, job' = job, stored' = stored
  PROVE  Ordered'
<1>1. \A n \in Op : ~Untouched(n) => log'[n] = log[n]
  BY Numbers DEF IInv, History, Untouched, Extends
<1>2. \A i \in DOMAIN jobs : log'[jobs[i]] = log[jobs[i]]
  BY <1>1, QueueState DEF IInv
<1>3. \A w \in Worker : job[w] # Nil => log'[job[w]] = log[job[w]]
  BY <1>1, QueueState DEF IInv
<1>4. \A m \in stored : log'[m] = log[m]
  BY <1>1, QueueState DEF IInv
<1> QED
  BY <1>2, <1>3, <1>4 DEF IInv, Ordered

LEMMA StoresKeep ==
  ASSUME IInv, Extends, s3' = s3, direct \subseteq direct', stored \subseteq stored',
         cache' \in [Key -> Version \union {Nil}], catalog' \in [Key -> Version \union {Nil}]
  PROVE  Stores'
<1>1. 0..Len(log) \subseteq 0..Len(log')
  BY Numbers DEF Extends, IInv
<1> QED
  BY <1>1 DEF IInv, Stores, Landed

LEMMA Typed ==
  ASSUME IInv
  PROVE  /\ cache \in [Key -> Version \union {Nil}] /\ catalog \in [Key -> Version \union {Nil}]
         /\ ~UseQueue => CacheFromDone(direct)
         /\ History
BY DEF IInv, Stores, Through, CacheFromDone

-----------------------------------------------------------------------------
(* The steps of a handle that decide nothing and leave the bucket alone. *)

Local ==
  /\ UNCHANGED <<log, s3, unlink, fates, queue>>
  /\ cache' \in [Key -> Version \union {Nil}] /\ catalog' \in [Key -> Version \union {Nil}]
  /\ ~UseQueue => CacheFromDone(direct)'

LEMMA LocalMoves ==
  ASSUME IInv, Local, NEW h \in Handle, NEW n, handle' = [handle EXCEPT ![h] = n],
         HandleOK(n, log, Decided, direct), ~UseQueue => ThroughOK(n, log, acked, direct),
         Flushing(n) => Flushing(handle[h]) /\ n.cur = handle[h].cur
  PROVE  IInv'
<1>1. /\ log' = log /\ acked' = acked /\ rejected' = rejected /\ direct' = direct /\ unlink' = unlink
      /\ Decided' = Decided /\ UNCHANGED queue
  BY DEF Local, fates, Decided
<1>2. Extends
  BY <1>1, SameLog DEF IInv
<1>3. \A g \in Handle : Flushing(handle[g]) => handle[g].cur \notin Decided'
  BY <1>1 DEF IInv, Handles, HandleOK
<1>4. Handles'
  BY <1>1, <1>2, <1>3, HandleMoves
<1>5. \A c \in Dir : unlink[c].at # "idle" => unlink[c].op \notin Decided'
  BY <1>1 DEF IInv, Unlinks, UnlinkOK
<1>6. Unlinks'
  BY <1>1, <1>2, <1>5, UnlinksKeep
<1>7. ~UseQueue => Through'
  BY <1>1, <1>2, ThroughMoves DEF Local
<1>8. Ordered' /\ AckedSomewhere' /\ Stores'
  <2>1. Ordered'
    BY <1>1, <1>2, OrderedKeeps DEF queue
  <2>2. AckedSomewhere'
    BY <1>1 DEF IInv, AckedSomewhere, Landed, queue
  <2>3. Stores'
    BY <1>1, <1>2, StoresKeep DEF Local, queue
  <2> QED
    BY <2>1, <2>2, <2>3
<1>9. History'
  BY <1>1 DEF IInv, History, Decided, queue
<1>10. QueueProofs!IInv'
  BY <1>1, QueueAlone, QueueKeeps DEF IInv
<1> QED
  BY <1>4, <1>6, <1>7, <1>8, <1>9, <1>10 DEF IInv

LEMMA AtHandle ==
  ASSUME IInv, NEW h \in Handle
  PROVE  /\ handle[h] \in HandleRecord /\ HandleOK(handle[h], log, Decided, direct)
         /\ ~UseQueue => ThroughOK(handle[h], log, acked, direct)
BY DEF IInv, Handles, HandleOK, Through

LEMMA CachePuts ==
  ASSUME IInv, NEW n \in DOMAIN log, NEW tag \in 0..MaxOps, CachePut(n, tag)
  PROVE  /\ cache' \in [Key -> Version \union {Nil}]
         /\ \A done : CacheFromDone(done) /\ n \in done =>
              \A k \in Key : cache'[k] # Nil => cache'[k].ver \in done \union {0}
<1> DEFINE k == log[n].key
<1>1. k \in Key /\ n \in 0..MaxOps
  BY Numbers, Typed, ModeAssumption DEF Entry, Op
<1>2. [ver |-> n, tag |-> tag] \in Version
  BY <1>1 DEF Version
<1>3. cache \in [Key -> Version \union {Nil}]
  BY Typed
<1> HIDE DEF k
<1>4. ASSUME NEW v \in Version \union {Nil}, cache' = [cache EXCEPT ![k] = v], v # Nil => v.ver = n
      PROVE  /\ cache' \in [Key -> Version \union {Nil}]
             /\ \A done : CacheFromDone(done) /\ n \in done =>
                  \A j \in Key : cache'[j] # Nil => cache'[j].ver \in done \union {0}
  BY <1>1, <1>3, <1>4 DEF CacheFromDone
<1>5. CASE cache' = [cache EXCEPT ![k] = [ver |-> n, tag |-> tag]]
  BY <1>2, <1>4, <1>5
<1>6. CASE cache' = cache
  BY <1>3, <1>6 DEF CacheFromDone
<1>7. CASE cache[k] # Nil /\ cache' = [cache EXCEPT ![k].ver = n]
  <2> DEFINE v == [cache[k] EXCEPT !.ver = n]
  <2>1. v \in Version /\ v.ver = n
    BY <1>1, <1>3, <1>7 DEF Version
  <2>2. cache' = [cache EXCEPT ![k] = v]
    BY <1>7
  <2> HIDE DEF v
  <2> QED
    BY <1>4, <2>1, <2>2
<1> QED
  BY <1>5, <1>6, <1>7 DEF CachePut, k

LEMMA CatalogPuts ==
  ASSUME IInv, NEW k \in Key, NEW n \in 0..MaxOps, NEW tag \in 0..MaxOps, CatalogPut(k, n, tag)
  PROVE  catalog' \in [Key -> Version \union {Nil}]
<1>1. [ver |-> n, tag |-> tag] \in Version
  BY DEF Version
<1> QED
  BY <1>1, Typed DEF CatalogPut

LEMMA OpenPreserves ==
  ASSUME IInv, NEW h \in Handle, NEW k \in Key, Open(h, k) \/ Create(h, k)
  PROVE  IInv'
<1>1. PICK dirty \in BOOLEAN : OpenAs(h, k, dirty) /\ (dirty \/ UNCHANGED catalog)
      /\ catalog' \in [Key -> Version \union {Nil}]
  <2>1. 0 \in 0..MaxOps
    BY ModeAssumption
  <2> QED
    BY <2>1, CatalogPuts, Typed DEF Open, Create, NoTag
<1> DEFINE n == [Closed EXCEPT !.at = "idle", !.key = k, !.dirty = dirty]
<1>2. handle' = [handle EXCEPT ![h] = n] /\ Local
  <2>1. handle' = [handle EXCEPT ![h] = n]
    BY <1>1 DEF OpenAs
  <2>2. UNCHANGED <<log, s3, cache, unlink, fates, queue>>
    BY <1>1 DEF OpenAs
  <2> QED
    BY <1>1, <2>1, <2>2, Typed DEF Local, CacheFromDone, fates
<1>3. n \in HandleRecord /\ n.at = "idle" /\ n.key = k /\ n.cur = 0 /\ n.tmp = {} /\ n.wrote = {}
  BY DEF Closed, HandleRecord
<1> HIDE DEF n
<1>4. HandleOK(n, log, Decided, direct) /\ ~Flushing(n)
  BY <1>3, Numbers, Typed DEF HandleOK, Flushing
<1>5. ThroughOK(n, log, acked, direct)
  BY <1>3, <1>4 DEF ThroughOK
<1> QED
  BY <1>2, <1>4, <1>5, LocalMoves

(* The stores stay as they are. *)
LEMMA QuietStep ==
  ASSUME IInv, UNCHANGED <<log, stores, unlink, fates, queue>>
  PROVE  Local
BY Typed DEF Local, CacheFromDone, stores, fates

LEMMA WritePreserves ==
  ASSUME IInv, NEW h \in Handle, NEW c \in Chunk, Write(h, c)
  PROVE  IInv'
<1> DEFINE r == handle[h]
           n == [r EXCEPT !.tmp = r.tmp \union {c}, !.wrote = r.wrote \union {c}, !.dirty = TRUE]
<1>1. r.at = "idle" /\ handle' = [handle EXCEPT ![h] = n] /\ Local
  BY QuietStep DEF Write
<1>2. r \in HandleRecord /\ HandleOK(r, log, Decided, direct)
      /\ (~UseQueue => ThroughOK(r, log, acked, direct))
  BY AtHandle
<1>3. /\ n \in HandleRecord /\ n.at = r.at /\ n.key = r.key /\ n.cur = r.cur /\ n.dirty
      /\ n.tmp = r.tmp \union {c} /\ n.wrote = r.wrote \union {c}
  BY <1>2 DEF HandleRecord
<1> HIDE DEF n, r
<1>4. HandleOK(n, log, Decided, direct) /\ ~Flushing(n)
  BY <1>1, <1>2, <1>3 DEF HandleOK, Flushing
<1>5. ~UseQueue => ThroughOK(n, log, acked, direct)
  BY <1>1, <1>2, <1>3, <1>4 DEF ThroughOK
<1> QED
  BY <1>1, <1>4, <1>5, LocalMoves

LEMMA ReleasePreserves ==
  ASSUME IInv, NEW h \in Handle, Release(h)
  PROVE  IInv'
<1>1. handle' = [handle EXCEPT ![h] = Closed] /\ Local
  BY QuietStep DEF Release
<1>2. Closed \in HandleRecord /\ Closed.at = "closed" /\ Closed.cur = 0 /\ Closed.tmp = {} /\ Closed.wrote = {}
  BY DEF Closed, HandleRecord
<1>3. HandleOK(Closed, log, Decided, direct) /\ ~Flushing(Closed) /\ ThroughOK(Closed, log, acked, direct)
  BY <1>2, Numbers, Typed DEF HandleOK, Flushing, ThroughOK
<1> QED
  BY <1>1, <1>3, LocalMoves

LEMMA LosesFilePreserves ==
  ASSUME IInv, NEW h \in Handle, FlushLosesFile(h)
  PROVE  IInv'
<1> DEFINE r == handle[h]
           n == [r EXCEPT !.at = "broken", !.tmp = {}]
<1>1. UseQueue /\ r.at = "idle" /\ handle' = [handle EXCEPT ![h] = n] /\ Local
  BY QuietStep DEF FlushLosesFile
<1>2. r \in HandleRecord /\ HandleOK(r, log, Decided, direct)
  BY AtHandle
<1>3. n \in HandleRecord /\ n.at = "broken" /\ n.key = r.key /\ n.cur = r.cur
  BY <1>2 DEF HandleRecord
<1> HIDE DEF n, r
<1>4. HandleOK(n, log, Decided, direct) /\ ~Flushing(n)
  BY <1>1, <1>2, <1>3 DEF HandleOK, Flushing
<1> QED
  BY <1>1, <1>4, LocalMoves

LEMMA NoNumber ==
  ASSUME IInv
  PROVE  0 \in 0..Len(log)
<1>1. Len(log) \in Nat
  BY Numbers, Typed
<1> QED
  BY <1>1

(* A handle that only goes on: to the next step of its flush, or to and from a     *)
(* download.                                                                 *)
LEMMA GoesOn ==
  ASSUME IInv, NEW h \in Handle, NEW from, NEW to, Step(h, from, to), Local,
         to \in {"cache", "submit", "record", "idle", "get"},
         to \in {"cache", "submit", "record"} =>
           Flushing(handle[h]) /\ (~UseQueue => to = "record"),
         to = "record" => handle[h].at = "ack",
         handle[h].at # "closed"
  PROVE  IInv'
<1> DEFINE r == handle[h]
           n == [r EXCEPT !.at = to, !.cur = IF to = "idle" THEN 0 ELSE @]
<1>1. handle' = [handle EXCEPT ![h] = n]
  BY DEF Step
<1>2. r \in HandleRecord /\ HandleOK(r, log, Decided, direct)
      /\ (~UseQueue => ThroughOK(r, log, acked, direct))
  BY AtHandle
<1>3. /\ n \in HandleRecord /\ n.at = to /\ n.key = r.key /\ n.dirty = r.dirty
      /\ (to = "idle" => n.cur = 0) /\ (to # "idle" => n.cur = r.cur)
      /\ n.tmp = r.tmp /\ n.wrote = r.wrote
  BY <1>2 DEF HandleRecord
<1>4. /\ Flushing(n) => Flushing(r) /\ n.cur = r.cur
      /\ n.cur \in 0..Len(log)
  BY <1>2, <1>3, NoNumber DEF Flushing, HandleOK
<1> HIDE DEF n
<1>5. HandleOK(n, log, Decided, direct)
  BY <1>2, <1>3, <1>4 DEF HandleOK
<1>6. ~UseQueue => ThroughOK(n, log, acked, direct)
  BY <1>2, <1>3, <1>4 DEF ThroughOK
<1> QED
  BY <1>1, <1>3, <1>4, <1>5, <1>6, LocalMoves

LEMMA StepPreserves ==
  ASSUME IInv, NEW h \in Handle,
         \/ StagedCatalog(h) \/ StagedCache(h) \/ SyncCache(h)
         \/ FetchStart(h) \/ FetchFails(h) \/ FetchFill(h)
  PROVE  IInv'
<1> DEFINE r == handle[h]
<1>1. r \in HandleRecord /\ HandleOK(r, log, Decided, direct)
      /\ (~UseQueue => ThroughOK(r, log, acked, direct))
  BY AtHandle
<1>2. /\ Flushing(r) => r.cur \in DOMAIN log /\ r.cur \in 0..MaxOps /\ r.key \in Key
      /\ r.at = "fill" => r.cur \in DOMAIN log /\ r.cur \in 0..MaxOps
      /\ 0 \in 0..MaxOps
  BY <1>1, Numbers, Typed, ModeAssumption DEF HandleOK, Flushing, Op
<1> HIDE DEF r
<1>3. CASE StagedCatalog(h)
  <2>1. r.at = "catalog" /\ Step(h, {"catalog"}, "cache")
        /\ CatalogPut(r.key, r.cur, NoTag) /\ UNCHANGED <<log, s3, cache, unlink, fates, queue>>
    BY <1>3 DEF StagedCatalog, Step, r
  <2>2. Flushing(r) /\ UseQueue
    BY <1>1, <2>1 DEF Flushing, ThroughOK
  <2>3. Local
    BY <1>2, <2>1, <2>2, CatalogPuts, Typed DEF Local, NoTag
  <2> QED
    BY <2>1, <2>2, <2>3, GoesOn DEF r
<1>4. CASE StagedCache(h)
  <2>1. r.at = "cache" /\ Step(h, {"cache"}, "submit")
        /\ CachePut(r.cur, NoTag) /\ UNCHANGED <<log, s3, catalog, unlink, fates, queue>>
    BY <1>4 DEF StagedCache, Step, r
  <2>2. Flushing(r) /\ UseQueue
    BY <1>1, <2>1 DEF Flushing, ThroughOK
  <2>3. Local
    BY <1>2, <2>1, <2>2, CachePuts, Typed DEF Local, NoTag
  <2> QED
    BY <2>1, <2>2, <2>3, GoesOn DEF r
<1>5. CASE SyncCache(h)
  <2>1. r.at = "ack" /\ Step(h, {"ack"}, "record")
        /\ CachePut(r.cur, r.cur) /\ UNCHANGED <<log, s3, catalog, unlink, fates, queue>>
    BY <1>5 DEF SyncCache, Step, r
  <2>2. Flushing(r) /\ r.cur \in direct
    BY <1>1, <2>1 DEF Flushing, HandleOK
  <2>3. /\ cache' \in [Key -> Version \union {Nil}]
        /\ CacheFromDone(direct) => \A k \in Key : cache'[k] # Nil => cache'[k].ver \in direct \union {0}
    BY <1>2, <2>1, <2>2, CachePuts
  <2>4. Local
    BY <2>1, <2>3, Typed DEF Local, CacheFromDone, fates
  <2> QED
    BY <2>1, <2>2, <2>4, GoesOn DEF r
<1>6. CASE FetchStart(h)
  <2>1. r.at = "idle" /\ Step(h, {"idle"}, "get") /\ Local
    BY <1>6, QuietStep DEF FetchStart, Step, r
  <2> QED
    BY <2>1, GoesOn DEF r
<1>7. CASE FetchFails(h)
  <2>1. r.at = "get" /\ Step(h, {"get"}, "idle") /\ Local
    BY <1>7, QuietStep DEF FetchFails, Step, r
  <2> QED
    BY <2>1, GoesOn DEF r
<1>8. CASE FetchFill(h)
  <2>1. r.at = "fill" /\ Step(h, {"fill"}, "idle")
        /\ CachePut(r.cur, r.cur) /\ UNCHANGED <<log, s3, catalog, unlink, fates, queue>>
    BY <1>8 DEF FetchFill, Step, r
  <2>2. /\ cache' \in [Key -> Version \union {Nil}]
        /\ CacheFromDone(direct) /\ r.cur \in direct =>
             \A k \in Key : cache'[k] # Nil => cache'[k].ver \in direct \union {0}
    BY <1>2, <2>1, CachePuts
  <2>3. ~UseQueue => r.cur \in direct
    BY <1>1, <1>2, <2>1, Numbers, Typed DEF ThroughOK
  <2>4. Local
    BY <2>1, <2>2, <2>3, Typed DEF Local, CacheFromDone, fates
  <2> QED
    BY <2>1, <2>4, GoesOn DEF r
<1> QED
  BY <1>3, <1>4, <1>5, <1>6, <1>7, <1>8

LEMMA FetchGetPreserves ==
  ASSUME IInv, NEW h \in Handle, FetchGet(h)
  PROVE  IInv'
<1> DEFINE r == handle[h]
           n == [r EXCEPT !.at = "fill", !.cur = s3[r.key]]
<1>1. r.at = "get" /\ ~Absent(r.key) /\ handle' = [handle EXCEPT ![h] = n] /\ Local
  BY QuietStep DEF FetchGet
<1>2. r \in HandleRecord /\ HandleOK(r, log, Decided, direct)
      /\ (~UseQueue => ThroughOK(r, log, acked, direct))
  BY AtHandle
<1>3. r.key \in Key /\ s3[r.key] \in DOMAIN log /\ s3[r.key] \in Nat /\ s3[r.key] \in 0..Len(log)
  BY <1>1, <1>2, Numbers, Typed DEF Absent, HandleOK, IInv, Stores
<1>4. /\ n \in HandleRecord /\ n.at = "fill" /\ n.key = r.key /\ n.cur = s3[r.key] /\ n.dirty = r.dirty
      /\ n.tmp = r.tmp /\ n.wrote = r.wrote
  BY <1>2, <1>3 DEF HandleRecord
<1> HIDE DEF n, r
<1>5. HandleOK(n, log, Decided, direct) /\ ~Flushing(n)
  BY <1>2, <1>3, <1>4 DEF HandleOK, Flushing
<1>6. ~UseQueue => s3[r.key] \in direct \union {0}
  BY <1>3 DEF IInv, Stores, Through, Landed
<1>7. ~UseQueue => ThroughOK(n, log, acked, direct)
  BY <1>2, <1>4, <1>5, <1>6 DEF ThroughOK
<1> QED
  BY <1>1, <1>5, <1>7, LocalMoves

-----------------------------------------------------------------------------
(* The beginning of a flush. *)

LEMMA QueueRests ==
  ASSUME IInv, Extends, UNCHANGED queue
  PROVE  /\ QueueProofs!IInv' /\ Ordered'
         /\ outcome' = outcome /\ stored' = stored /\ staging' = staging
         /\ \A n \in Op : Untouched(n) => outcome'[n] \in {"new", "refused"} \/ n \in acked'
<1>1. Ordered'
  BY OrderedKeeps DEF queue
<1>2. QueueProofs!IInv'
  BY QueueAlone, QueueKeeps DEF IInv
<1> QED
  BY <1>1, <1>2 DEF queue, Untouched

LEMMA FlushPreserves ==
  ASSUME IInv, NEW h \in Handle, NEW next \in {"put", "catalog"}, NEW rest \in SUBSET Chunk,
         Flush(h, next, rest), ~UseQueue => next = "put" /\ rest = handle[h].tmp
  PROVE  IInv'
<1> DEFINE r == handle[h]
           m == Len(log) + 1
           n == [r EXCEPT !.at = next, !.cur = m, !.tmp = rest]
<1>1. /\ r.at = "idle" /\ r.dirty /\ Begin("put", r.key, r.tmp) /\ handle' = [handle EXCEPT ![h] = n]
      /\ s3' = s3 /\ cache' = cache /\ catalog' = catalog /\ unlink' = unlink
      /\ direct' = direct /\ acked' = acked /\ rejected' = rejected /\ UNCHANGED queue
  BY DEF Flush, stores, fates
<1>2. r \in HandleRecord /\ HandleOK(r, log, Decided, direct)
      /\ (~UseQueue => ThroughOK(r, log, acked, direct))
  BY AtHandle
<1>3. r.key \in Key /\ r.tmp \in SUBSET Chunk /\ m \in Nat
      /\ (~UseQueue => next = "put" /\ rest = r.tmp)
  BY <1>1, <1>2, Numbers, Typed DEF HandleOK, HandleRecord
<1>4. /\ n \in HandleRecord /\ n.at = next /\ n.key = r.key /\ n.cur = m /\ n.dirty = r.dirty
      /\ n.tmp = rest /\ n.wrote = r.wrote
  BY <1>2, <1>3 DEF HandleRecord
<1> HIDE DEF n, r
<1>5. /\ Extends /\ m \in DOMAIN log' /\ m \notin DOMAIN log /\ Len(log') = m
      /\ log'[m] = [kind |-> "put", key |-> r.key, data |-> r.tmp, before |-> acked]
  BY <1>1, <1>3, Begins, Typed
<1> HIDE DEF m
<1>6. /\ Decided' = Decided /\ m \notin Decided /\ Decided \subseteq DOMAIN log
      /\ log'[m].kind = "put" /\ log'[m].key = r.key /\ log'[m].data = r.tmp
  BY <1>1, <1>5, Numbers, Typed DEF Decided
<1>7. HandleOK(n, log', Decided', direct')
  <2>1. n.cur \in 0..Len(log')
    BY <1>3, <1>4, <1>5
  <2> QED
    BY <1>3, <1>4, <1>5, <1>6, <2>1 DEF HandleOK
<1>8. \A g \in Handle : Flushing(handle[g]) => handle[g].cur \notin Decided'
  BY <1>6 DEF IInv, Handles, HandleOK
<1>9. Handles'
  BY <1>1, <1>4, <1>5, <1>7, <1>8, HandleMoves
<1>10. \A c \in Dir : unlink[c].at # "idle" => unlink[c].op \notin Decided'
  BY <1>6 DEF IInv, Unlinks, UnlinkOK
<1>11. Unlinks'
  BY <1>1, <1>5, <1>10, UnlinksKeep
<1>12. ASSUME ~UseQueue
       PROVE  Through'
  <2>1. ThroughOK(n, log', acked', direct')
    BY <1>1, <1>2, <1>3, <1>4, <1>6, <1>12 DEF ThroughOK
  <2>2. CacheFromDone(direct)'
    BY <1>1, <1>12, Typed DEF CacheFromDone
  <2> QED
    BY <1>1, <1>5, <1>12, <2>1, <2>2, ThroughMoves
<1>13. QueueProofs!IInv' /\ Ordered' /\ stored' = stored /\ staging' = staging
       /\ \A j \in Op : Untouched(j) => outcome'[j] \in {"new", "refused"} \/ j \in acked'
  BY <1>1, <1>5, QueueRests
<1>14. History'
  <2>1. acked' \union rejected' \union direct' \subseteq DOMAIN log' /\ acked' \intersect rejected' = {}
    BY <1>1, <1>5, Numbers, Typed DEF History
  <2> QED
    BY <1>1, <1>5, <1>13, <2>1, HistoryKeeps
<1>15. Stores'
  BY <1>1, <1>5, <1>13, StoresKeep, Typed
<1>16. AckedSomewhere'
  BY <1>1, <1>13 DEF IInv, AckedSomewhere, Landed
<1> QED
  BY <1>9, <1>11, <1>12, <1>13, <1>14, <1>15, <1>16 DEF IInv

LEMMA FlushesPreserve ==
  ASSUME IInv, NEW h \in Handle, FlushSync(h) \/ FlushStaged(h) \/ FlushRenameFails(h)
  PROVE  IInv'
<1>1. handle[h].tmp \in SUBSET Chunk
  BY AtHandle DEF HandleRecord
<1> QED
  BY <1>1, FlushPreserves DEF FlushSync, FlushStaged, FlushRenameFails

-----------------------------------------------------------------------------
(* The end of a flush, and its PUT. *)

(* The flush of a handle is decided, or its object changes; the log stays. *)
LEMMA FlushMoves ==
  ASSUME IInv, NEW h \in Handle, Flushing(handle[h]), NEW n,
         handle' = [handle EXCEPT ![h] = n],
         log' = log, unlink' = unlink, [QueueNext]_QueueVars,
         Stores', Ordered', AckedSomewhere',
         acked' \in {acked, acked \union {handle[h].cur}},
         rejected' \in {rejected, rejected \union {handle[h].cur}},
         acked' = acked \/ rejected' = rejected,
         direct' \in {direct, direct \union {handle[h].cur}},
         HandleOK(n, log, Decided', direct'), Flushing(n) => n.cur = handle[h].cur,
         ~UseQueue => ThroughOK(n, log, acked', direct') /\ CacheFromDone(direct)' /\ UNCHANGED queue,
         \A j \in Op : Untouched(j) => outcome'[j] \in {"new", "refused"} \/ j \in acked'
  PROVE  IInv'
<1> DEFINE m == handle[h].cur
<1>1. m \in DOMAIN log /\ m \notin Decided /\ log[m].kind = "put"
  BY AtHandle DEF HandleOK
<1>2. Extends
  BY SameLog, Typed
<1>3. Decided' \subseteq Decided \union {m} /\ direct \subseteq direct' /\ acked \subseteq acked'
  BY DEF Decided
<1>4. \A g \in Handle \ {h} : Flushing(handle[g]) => handle[g].cur \notin Decided'
  BY <1>3 DEF IInv, Handles, HandleOK
<1>5. Handles'
  BY <1>2, <1>3, <1>4, HandleMoves
<1>6. \A c \in Dir : unlink[c].at # "idle" => unlink[c].op \notin Decided'
  BY <1>1, <1>3 DEF IInv, Unlinks, UnlinkOK
<1>7. Unlinks'
  BY <1>2, <1>3, <1>6, UnlinksKeep
<1>8. ~UseQueue => Through'
  BY <1>2, <1>3, ThroughMoves
<1>9. History'
  <2>1. acked' \union rejected' \union direct' \subseteq DOMAIN log' /\ acked' \intersect rejected' = {}
    BY <1>1, Numbers, Typed DEF History, Decided
  <2> QED
    BY <1>2, <1>3, <2>1, HistoryKeeps
<1>10. QueueProofs!IInv'
  BY QueueKeeps DEF IInv
<1> QED
  BY <1>5, <1>7, <1>8, <1>9, <1>10 DEF IInv

LEMMA Settled ==
  ASSUME IInv, log' = log, s3' = s3, direct' = direct, UNCHANGED queue,
         cache' \in [Key -> Version \union {Nil}], catalog' \in [Key -> Version \union {Nil}]
  PROVE  Stores' /\ Ordered' /\ [QueueNext]_QueueVars /\ stored' = stored /\ staging' = staging
         /\ \A j \in Op : Untouched(j) => outcome'[j] \in {"new", "refused"} \/ j \in acked'
<1>1. Extends
  BY SameLog, Typed
<1> QED
  BY <1>1, QueueRests, QueueAlone, StoresKeep

LEMMA PutFailsPreserves ==
  ASSUME IInv, NEW h \in Handle, PutFails(h)
  PROVE  IInv'
<1> DEFINE r == handle[h]
           n == [r EXCEPT !.at = "idle", !.cur = 0]
<1>1. /\ r.at \in {"put", "fput", "ack", "fack"} /\ handle' = [handle EXCEPT ![h] = n]
      /\ log' = log /\ s3' = s3 /\ cache' = cache /\ catalog' = catalog /\ unlink' = unlink
      /\ direct' = direct /\ acked' = acked /\ rejected' = rejected \union {r.cur} /\ UNCHANGED queue
  BY DEF PutFails, Step, Reject, stores
<1>2. r \in HandleRecord /\ HandleOK(r, log, Decided, direct)
      /\ (~UseQueue => ThroughOK(r, log, acked, direct))
  BY AtHandle
<1>3. /\ n \in HandleRecord /\ n.at = "idle" /\ n.key = r.key /\ n.cur = 0 /\ n.dirty = r.dirty
      /\ n.tmp = r.tmp /\ n.wrote = r.wrote
  BY <1>2 DEF HandleRecord
<1> HIDE DEF n
<1>4. ~Flushing(n) /\ Flushing(r)
  BY <1>1, <1>3 DEF Flushing
<1>5. HandleOK(n, log, Decided', direct')
  BY <1>1, <1>2, <1>3, <1>4, NoNumber DEF HandleOK
<1>6. ~UseQueue => ThroughOK(n, log, acked', direct') /\ CacheFromDone(direct)'
  BY <1>1, <1>2, <1>3, <1>4, Typed DEF ThroughOK, CacheFromDone
<1>7. AckedSomewhere'
  BY <1>1 DEF IInv, AckedSomewhere, Landed, queue
<1> QED
  BY <1>1, <1>4, <1>5, <1>6, <1>7, Settled, Typed, FlushMoves

LEMMA FallbackDonePreserves ==
  ASSUME IInv, NEW h \in Handle, FallbackDone(h)
  PROVE  IInv'
<1> DEFINE r == handle[h]
           n == [r EXCEPT !.at = "idle", !.cur = 0]
<1>1. /\ r.at = "fack" /\ handle' = [handle EXCEPT ![h] = n]
      /\ log' = log /\ s3' = s3 /\ cache' = cache /\ catalog' = catalog /\ unlink' = unlink
      /\ direct' = direct /\ acked' = acked \union {r.cur} /\ rejected' = rejected /\ UNCHANGED queue
  BY DEF FallbackDone, Step, Acknowledge, stores
<1>2. r \in HandleRecord /\ HandleOK(r, log, Decided, direct)
      /\ (~UseQueue => ThroughOK(r, log, acked, direct))
  BY AtHandle
<1>3. /\ n \in HandleRecord /\ n.at = "idle" /\ n.key = r.key /\ n.cur = 0
  BY <1>2 DEF HandleRecord
<1> HIDE DEF n
<1>4. ~Flushing(n) /\ Flushing(r) /\ r.cur \in direct /\ UseQueue
  BY <1>1, <1>2, <1>3, ModeAssumption DEF Flushing, HandleOK, ThroughOK
<1>5. HandleOK(n, log, Decided', direct')
  BY <1>1, <1>2, <1>3, <1>4, NoNumber DEF HandleOK
<1>6. AckedSomewhere'
  BY <1>1, <1>4 DEF IInv, AckedSomewhere, Landed, queue
<1> QED
  BY <1>1, <1>4, <1>5, <1>6, Settled, Typed, FlushMoves

LEMMA SyncDonePreserves ==
  ASSUME IInv, NEW h \in Handle, SyncDone(h)
  PROVE  IInv'
<1> DEFINE r == handle[h]
           n == [r EXCEPT !.at = "idle", !.dirty = FALSE, !.cur = 0]
<1>1. /\ r.at = "record" /\ handle' = [handle EXCEPT ![h] = n] /\ CatalogPut(r.key, r.cur, r.cur)
      /\ log' = log /\ s3' = s3 /\ cache' = cache /\ unlink' = unlink
      /\ direct' = direct /\ acked' = acked \union {r.cur} /\ rejected' = rejected /\ UNCHANGED queue
  BY DEF SyncDone, Clean, Acknowledge
<1>2. r \in HandleRecord /\ HandleOK(r, log, Decided, direct)
      /\ (~UseQueue => ThroughOK(r, log, acked, direct))
  BY AtHandle
<1>3. /\ n \in HandleRecord /\ n.at = "idle" /\ n.key = r.key /\ n.cur = 0
      /\ n.tmp = r.tmp /\ n.wrote = r.wrote
  BY <1>2 DEF HandleRecord
<1> HIDE DEF n
<1>4. ~Flushing(n) /\ Flushing(r) /\ r.cur \in direct /\ r.key \in Key /\ r.cur \in DOMAIN log
      /\ log[r.cur].key = r.key
  BY <1>1, <1>2, <1>3 DEF Flushing, HandleOK
<1>5. HandleOK(n, log, Decided', direct')
  BY <1>1, <1>2, <1>3, <1>4, NoNumber DEF HandleOK
<1>6. ~UseQueue => ThroughOK(n, log, acked', direct') /\ CacheFromDone(direct)'
  <2>1. ~UseQueue => log[r.cur].data = r.wrote
    BY <1>2, <1>4 DEF ThroughOK
  <2>2. ~UseQueue => ThroughOK(n, log, acked', direct')
    BY <1>1, <1>2, <1>3, <1>4, <2>1 DEF ThroughOK
  <2> QED
    BY <1>1, <2>2, Typed DEF CacheFromDone
<1>7. AckedSomewhere'
  BY <1>1, <1>4 DEF IInv, AckedSomewhere, Landed, queue
<1>8. catalog' \in [Key -> Version \union {Nil}]
  <2>1. r.cur \in 0..MaxOps
    BY <1>4, Numbers, Typed, ModeAssumption DEF Op
  <2> QED
    BY <1>1, <1>4, <2>1, CatalogPuts
<1> QED
  BY <1>1, <1>4, <1>5, <1>6, <1>7, <1>8, Settled, Typed, FlushMoves

(* What the queue has or had was acknowledged, so that no operation in it began     *)
(* after an undecided one was done.                                           *)
LEMMA QueueKnows ==
  ASSUME IInv, NEW m, m \notin acked
  PROVE  /\ \A n \in DOMAIN log : m \notin log[n].before
         /\ \A i \in DOMAIN jobs : jobs[i] \in DOMAIN log /\ jobs[i] \in acked
         /\ \A w \in Worker : job[w] # Nil => job[w] \in DOMAIN log /\ job[w] \in acked
         /\ \A n \in stored : n \in DOMAIN log /\ n \in acked
<1>1. \A n \in Op : ~Untouched(n) => n \in acked /\ n \in DOMAIN log
  BY Numbers DEF IInv, History, Untouched
<1>2. \A i \in DOMAIN jobs : jobs[i] \in Op /\ ~Untouched(jobs[i])
  BY QueueState DEF IInv
<1>3. \A w \in Worker : job[w] # Nil => job[w] \in Op /\ ~Untouched(job[w])
  BY QueueState DEF IInv
<1>4. \A n \in stored : n \in Op /\ ~Untouched(n)
  BY QueueState DEF IInv
<1>5. \A n \in DOMAIN log : m \notin log[n].before
  BY DEF IInv, History
<1> QED
  BY <1>1, <1>2, <1>3, <1>4, <1>5

LEMMA SubmittedPreserves ==
  ASSUME IInv, NEW h \in Handle, Submitted(h)
  PROVE  IInv'
<1> DEFINE r == handle[h]
           n == [r EXCEPT !.at = "idle", !.dirty = FALSE, !.cur = 0]
           m == r.cur
<1>1. /\ r.at = "submit" /\ handle' = [handle EXCEPT ![h] = n] /\ Queue!Accept(m)
      /\ log' = log /\ s3' = s3 /\ cache' = cache /\ catalog' = catalog /\ unlink' = unlink
      /\ direct' = direct /\ acked' = acked \union {m} /\ rejected' = rejected
  BY DEF Submitted, Clean, Acknowledge, stores
<1>2. r \in HandleRecord /\ HandleOK(r, log, Decided, direct)
      /\ (~UseQueue => ThroughOK(r, log, acked, direct))
  BY AtHandle
<1>3. n \in HandleRecord /\ n.at = "idle" /\ n.key = r.key /\ n.cur = 0
  BY <1>2 DEF HandleRecord
<1> HIDE DEF n
<1>4. /\ ~Flushing(n) /\ Flushing(r) /\ m \in DOMAIN log /\ m \notin acked /\ UseQueue
  BY <1>1, <1>2, <1>3, ModeAssumption DEF Flushing, HandleOK, ThroughOK, Decided
<1>5. HandleOK(n, log, Decided', direct')
  BY <1>1, <1>2, <1>3, <1>4, NoNumber DEF HandleOK
<1> HIDE DEF m
<1>6. /\ jobs' = Append(jobs, m) /\ job' = job /\ stored' = stored
      /\ staging' = staging \union {m} /\ outcome' = [outcome EXCEPT ![m] = "pending"]
  BY <1>1 DEF Queue!Accept, Queue!workerVars
<1>7. m \in Op /\ Extends /\ History
  BY <1>1, <1>4, SameLog, Numbers, Typed
<1>8. [QueueNext]_QueueVars
  BY <1>1, <1>7, SameOperations
<1>9. Stores'
  BY <1>1, <1>6, <1>7, StoresKeep, Typed
<1>10. AckedSomewhere'
  BY <1>1, <1>6 DEF IInv, AckedSomewhere, Landed
<1>11. Ordered'
  <2>1. /\ DOMAIN jobs = 1..Len(jobs) /\ DOMAIN jobs' = 1..(Len(jobs) + 1) /\ Len(jobs) \in Nat
        /\ \A i \in DOMAIN jobs : jobs'[i] = jobs[i]
        /\ jobs'[Len(jobs) + 1] = m
    BY <1>6, <1>7, QueueState DEF IInv
  <2>2. ASSUME NEW i \in DOMAIN jobs', NEW j \in DOMAIN jobs', i < j
        PROVE  jobs'[j] \notin log[jobs'[i]].before
    <3>1. i \in DOMAIN jobs
      BY <2>1, <2>2
    <3> QED
      BY <1>4, <2>1, <2>2, <3>1, QueueKnows DEF IInv, Ordered
  <2>3. \A i \in DOMAIN jobs' : i \notin DOMAIN jobs => jobs'[i] = m
    BY <2>1
  <2>4. \A i \in DOMAIN jobs' : \A w \in Worker : job[w] # Nil => jobs'[i] \notin log[job[w]].before
    BY <1>4, <2>1, <2>3, QueueKnows DEF IInv, Ordered
  <2>5. \A i \in DOMAIN jobs' : \A k \in stored : jobs'[i] \notin log[k].before
    BY <1>4, <2>1, <2>3, QueueKnows DEF IInv, Ordered
  <2> QED
    BY <1>1, <1>6, <2>2, <2>4, <2>5 DEF IInv, Ordered
<1>12. \A j \in Op : Untouched(j) => outcome'[j] \in {"new", "refused"} \/ j \in acked'
  BY <1>1, <1>6, <1>7, QueueState DEF IInv, Untouched
<1> QED
  BY <1>1, <1>4, <1>5, <1>8, <1>9, <1>10, <1>11, <1>12, FlushMoves DEF m

LEMMA QueueFullPreserves ==
  ASSUME IInv, NEW h \in Handle, QueueFull(h)
  PROVE  IInv'
<1> DEFINE r == handle[h]
           n == [r EXCEPT !.at = "fput", !.dirty = FALSE]
           m == r.cur
<1>1. /\ r.at = "submit" /\ handle' = [handle EXCEPT ![h] = n] /\ Queue!Refuse(m)
      /\ log' = log /\ s3' = s3 /\ cache' = cache /\ catalog' = catalog /\ unlink' = unlink
      /\ direct' = direct /\ acked' = acked /\ rejected' = rejected
  BY DEF QueueFull, Clean, stores, fates
<1>2. r \in HandleRecord /\ HandleOK(r, log, Decided, direct)
      /\ (~UseQueue => ThroughOK(r, log, acked, direct))
  BY AtHandle
<1>3. n \in HandleRecord /\ n.at = "fput" /\ n.key = r.key /\ n.cur = m
  BY <1>2 DEF HandleRecord
<1> HIDE DEF n
<1>4. /\ Flushing(r) /\ m \in DOMAIN log /\ UseQueue
  BY <1>1, <1>2, <1>3, ModeAssumption DEF Flushing, HandleOK, ThroughOK
<1>5. HandleOK(n, log, Decided', direct')
  BY <1>1, <1>2, <1>3, <1>4 DEF HandleOK, Decided
<1> HIDE DEF m
<1>6. /\ jobs' = jobs /\ job' = job /\ stored' = stored
      /\ staging' = staging /\ outcome' = [outcome EXCEPT ![m] = "refused"]
  BY <1>1 DEF Queue!Refuse, Queue!workerVars
<1>7. m \in Op /\ Extends /\ History
  BY <1>1, <1>4, SameLog, Numbers, Typed
<1>8. [QueueNext]_QueueVars
  BY <1>1, <1>7, SameOperations
<1>9. Stores'
  BY <1>1, <1>6, <1>7, StoresKeep, Typed
<1>10. AckedSomewhere'
  BY <1>1, <1>6 DEF IInv, AckedSomewhere, Landed
<1>11. Ordered'
  BY <1>6, <1>7, OrderedKeeps
<1>12. \A j \in Op : Untouched(j) => outcome'[j] \in {"new", "refused"} \/ j \in acked'
  BY <1>6, <1>7, QueueState DEF IInv, Untouched
<1> QED
  BY <1>1, <1>3, <1>4, <1>5, <1>8, <1>9, <1>10, <1>11, <1>12, FlushMoves DEF m

LEMMA Lands ==
  ASSUME IInv, NEW m \in DOMAIN log, Land(m), log' = log, cache' = cache, catalog' = catalog,
         UNCHANGED queue
  PROVE  /\ Stores' /\ Ordered' /\ Extends
         /\ s3' = [s3 EXCEPT ![log[m].key] = m] /\ direct' = direct \union {m}
<1>1. /\ s3' = [s3 EXCEPT ![log[m].key] = m] /\ direct' = direct \union {m} /\ stored' = stored
  BY DEF Land, queue
<1>2. Extends /\ Ordered'
  BY SameLog, Typed, QueueRests
<1>3. log[m].key \in Key /\ m \in 0..Len(log)
  BY Numbers, Typed DEF Entry
<1>4. s3' \in [Key -> 0..Len(log)]
  BY <1>1, <1>3 DEF IInv, Stores
<1>5. \A k \in Key : s3'[k] \in Landed' \union {0}
  BY <1>1, <1>3 DEF IInv, Stores, Landed
<1>6. Stores'
  BY <1>4, <1>5, Typed DEF Stores
<1> QED
  BY <1>1, <1>2, <1>6

LEMMA PutLandsPreserves ==
  ASSUME IInv, NEW h \in Handle, PutLands(h)
  PROVE  IInv'
<1> DEFINE r == handle[h]
           m == r.cur
<1>1. PICK to \in {"ack", "fack"} :
        /\ to = "ack" => r.at = "put"
        /\ to = "fack" => r.at = "fput"
        /\ handle' = [handle EXCEPT ![h].at = to]
  BY DEF PutLands, Step
<1> DEFINE n == [r EXCEPT !.at = to]
<1>2. /\ handle' = [handle EXCEPT ![h] = n] /\ Land(m)
      /\ log' = log /\ cache' = cache /\ catalog' = catalog /\ unlink' = unlink
      /\ acked' = acked /\ rejected' = rejected /\ UNCHANGED queue
  BY <1>1 DEF PutLands
<1>3. r \in HandleRecord /\ HandleOK(r, log, Decided, direct)
      /\ (~UseQueue => ThroughOK(r, log, acked, direct))
  BY AtHandle
<1>4. /\ n \in HandleRecord /\ n.at = to /\ n.key = r.key /\ n.cur = m /\ n.dirty = r.dirty
      /\ n.tmp = r.tmp /\ n.wrote = r.wrote
  BY <1>3 DEF HandleRecord
<1> HIDE DEF n
<1>5. Flushing(r) /\ Flushing(n) /\ m \in DOMAIN log
  BY <1>1, <1>3, <1>4 DEF Flushing, HandleOK
<1>6. Stores' /\ Ordered' /\ direct' = direct \union {m}
  BY <1>2, <1>5, Lands
<1>7. HandleOK(n, log, Decided', direct')
  <2>1. Decided' = Decided
    BY <1>2 DEF Decided
  <2>2. r.key \in Key
    BY <1>1, <1>3 DEF HandleOK
  <2> QED
    BY <1>3, <1>4, <1>5, <1>6, <2>1, <2>2 DEF HandleOK
<1>8. AckedSomewhere' /\ stored' = stored /\ outcome' = outcome
  BY <1>2, <1>6 DEF IInv, AckedSomewhere, Landed, queue
<1>9. ~UseQueue => ThroughOK(n, log, acked', direct') /\ CacheFromDone(direct)'
  <2>1. ~UseQueue => ThroughOK(n, log, acked', direct')
    BY <1>1, <1>2, <1>3, <1>4, <1>5, <1>6 DEF ThroughOK
  <2> QED
    BY <1>2, <1>6, <2>1, Typed DEF CacheFromDone
<1>10. [QueueNext]_QueueVars
  BY <1>2, QueueAlone
<1> QED
  BY <1>2, <1>4, <1>5, <1>6, <1>7, <1>8, <1>9, <1>10, FlushMoves DEF Untouched

-----------------------------------------------------------------------------
(* Unlink. *)

LEMMA UnlinkPreserves ==
  ASSUME IInv, NEW d \in Dir, NEW k \in Key, Unlink(d, k)
  PROVE  IInv'
<1> DEFINE m == Len(log) + 1
           n == [at |-> "delete", op |-> m]
<1>1. /\ unlink[d].at = "idle" /\ Begin("delete", k, {}) /\ unlink' = [unlink EXCEPT ![d] = n]
      /\ s3' = s3 /\ cache' = cache /\ catalog' = catalog /\ handle' = handle
      /\ direct' = direct /\ acked' = acked /\ rejected' = rejected /\ UNCHANGED queue
  BY DEF Unlink, stores, fates
<1>2. m \in Nat
  BY Numbers, Typed
<1>3. /\ Extends /\ m \in DOMAIN log' /\ m \notin DOMAIN log /\ Len(log') = m
      /\ log'[m] = [kind |-> "delete", key |-> k, data |-> {}, before |-> acked]
  <2>1. Begin("delete", k, {}) /\ History /\ "delete" \in {"put", "delete"} /\ {} \in SUBSET Chunk
    BY <1>1, Typed
  <2> QED
    BY <2>1, Begins
<1>4. n \in UnlinkRecord /\ n.at = "delete" /\ n.op = m
  BY <1>2 DEF UnlinkRecord
<1> HIDE DEF n, m
<1>5. Decided' = Decided /\ m \notin Decided /\ Decided \subseteq DOMAIN log /\ log'[m].kind = "delete"
  BY <1>1, <1>3, Numbers, Typed DEF Decided
<1>6. UnlinkOK(n, log', Decided', direct')
  <2>1. n.op \in 0..Len(log')
    BY <1>2, <1>3, <1>4
  <2> QED
    BY <1>3, <1>4, <1>5, <2>1 DEF UnlinkOK
<1>7. \A c \in Dir : unlink[c].at # "idle" => unlink[c].op \notin Decided'
  BY <1>5 DEF IInv, Unlinks, UnlinkOK
<1>8. Unlinks'
  BY <1>1, <1>3, <1>4, <1>6, <1>7, UnlinkMoves
<1>9. \A g \in Handle : Flushing(handle[g]) => handle[g].cur \notin Decided'
  BY <1>5 DEF IInv, Handles, HandleOK
<1>10. Handles'
  BY <1>1, <1>3, <1>9, HandlesKeep
<1>11. ASSUME ~UseQueue
       PROVE  Through'
  <2>1. CacheFromDone(direct)'
    BY <1>1, <1>11, Typed DEF CacheFromDone
  <2> QED
    BY <1>1, <1>3, <1>11, <2>1, ThroughStays
<1>12. QueueProofs!IInv' /\ Ordered' /\ stored' = stored /\ staging' = staging
       /\ \A j \in Op : Untouched(j) => outcome'[j] \in {"new", "refused"} \/ j \in acked'
  BY <1>1, <1>3, QueueRests
<1>13. History'
  <2>1. acked' \union rejected' \union direct' \subseteq DOMAIN log' /\ acked' \intersect rejected' = {}
    BY <1>1, <1>3, Numbers, Typed DEF History
  <2> QED
    BY <1>1, <1>3, <1>12, <2>1, HistoryKeeps
<1>14. Stores'
  BY <1>1, <1>3, <1>12, StoresKeep, Typed
<1>15. AckedSomewhere'
  BY <1>1, <1>12 DEF IInv, AckedSomewhere, Landed
<1> QED
  BY <1>8, <1>10, <1>11, <1>12, <1>13, <1>14, <1>15 DEF IInv

(* An unlink goes on: its operation is decided, or its object is deleted. *)
LEMMA UnlinkGoesOn ==
  ASSUME IInv, NEW d \in Dir, unlink[d].at # "idle", NEW n, unlink' = [unlink EXCEPT ![d] = n],
         log' = log, handle' = handle, UNCHANGED queue, Stores',
         acked' \in {acked, acked \union {unlink[d].op}},
         rejected' \in {rejected, rejected \union {unlink[d].op}},
         acked' = acked \/ rejected' = rejected,
         direct' \in {direct, direct \union {unlink[d].op}},
         acked' = acked \/ unlink[d].op \in direct,
         UnlinkOK(n, log, Decided', direct'), n.at # "idle" => n.op = unlink[d].op,
         ~UseQueue => CacheFromDone(direct)'
  PROVE  IInv'
<1> DEFINE m == unlink[d].op
<1>1. m \in DOMAIN log /\ m \notin Decided /\ log[m].kind = "delete"
  BY DEF IInv, Unlinks, UnlinkOK
<1>2. Extends
  BY SameLog, Typed
<1>3. Decided' \subseteq Decided \union {m} /\ direct \subseteq direct' /\ acked \subseteq acked'
  BY DEF Decided
<1>4. \A c \in Dir \ {d} : unlink[c].at # "idle" => unlink[c].op \notin Decided'
  BY <1>3 DEF IInv, Unlinks, UnlinkOK
<1>5. Unlinks'
  BY <1>2, <1>3, <1>4, UnlinkMoves
<1>6. \A g \in Handle : Flushing(handle[g]) => handle[g].cur \notin Decided'
  BY <1>1, <1>3 DEF IInv, Handles, HandleOK
<1>7. Handles'
  BY <1>2, <1>3, <1>6, HandlesKeep
<1>8. ~UseQueue => Through'
  BY <1>2, <1>3, ThroughStays
<1>9. QueueProofs!IInv' /\ Ordered' /\ stored' = stored /\ staging' = staging
       /\ \A j \in Op : Untouched(j) => outcome'[j] \in {"new", "refused"} \/ j \in acked'
  BY <1>2, QueueRests
<1>10. History'
  <2>1. acked' \union rejected' \union direct' \subseteq DOMAIN log' /\ acked' \intersect rejected' = {}
    BY <1>1, Numbers, Typed DEF History, Decided
  <2> QED
    BY <1>2, <1>3, <1>9, <2>1, HistoryKeeps
<1>11. AckedSomewhere'
  BY <1>3, <1>9 DEF IInv, AckedSomewhere, Landed
<1> QED
  BY <1>5, <1>7, <1>8, <1>9, <1>10, <1>11 DEF IInv

LEMMA UnlinkStepPreserves ==
  ASSUME IInv, NEW d \in Dir,
         DeleteLands(d) \/ DeleteFails(d) \/ UnlinkCache(d) \/ UnlinkCatalog(d)
  PROVE  IInv'
<1> DEFINE r == unlink[d]
           m == r.op
<1>1. r \in UnlinkRecord /\ UnlinkOK(r, log, Decided, direct)
  BY DEF IInv, Unlinks, UnlinkOK
<1>2. r.at # "idle" => m \in DOMAIN log /\ log[m].key \in Key /\ m \notin Decided
  BY <1>1, Numbers, Typed DEF UnlinkOK, Entry
<1>3. PICK to \in {"idle", "invalidate", "forget"} :
        /\ unlink' = [unlink EXCEPT ![d].at = to, ![d].op = IF to = "idle" THEN 0 ELSE @] /\ r.at # "idle"
        /\ \/ to = "invalidate" /\ DeleteLands(d)
           \/ to = "forget" /\ UnlinkCache(d)
           \/ to = "idle" /\ (DeleteFails(d) \/ UnlinkCatalog(d))
        /\ log' = log /\ handle' = handle /\ UNCHANGED queue
  BY DEF DeleteLands, DeleteFails, UnlinkCache, UnlinkCatalog, UnlinkStep
<1> DEFINE n == [r EXCEPT !.at = to, !.op = IF to = "idle" THEN 0 ELSE @]
<1>4. unlink' = [unlink EXCEPT ![d] = n]
  BY <1>3
<1>5. n \in UnlinkRecord /\ n.at = to /\ (to = "idle" => n.op = 0) /\ (to # "idle" => n.op = m)
  BY <1>1 DEF UnlinkRecord
<1> HIDE DEF n
<1>6. CASE to = "invalidate" /\ DeleteLands(d)
  <2>1. Land(m) /\ cache' = cache /\ catalog' = catalog /\ acked' = acked /\ rejected' = rejected
    BY <1>6 DEF DeleteLands
  <2>2. Stores' /\ direct' = direct \union {m} /\ Decided' = Decided
    BY <1>2, <1>3, <2>1, Lands DEF Decided
  <2>3. UnlinkOK(n, log, Decided', direct')
    BY <1>1, <1>3, <1>5, <1>6, <2>2 DEF UnlinkOK
  <2>4. ~UseQueue => CacheFromDone(direct)'
    BY <2>1, <2>2, Typed DEF CacheFromDone
  <2> QED
    BY <1>3, <1>4, <1>5, <2>1, <2>2, <2>3, <2>4, UnlinkGoesOn
<1>7. CASE to = "idle" /\ DeleteFails(d)
  <2>1. s3' = s3 /\ cache' = cache /\ catalog' = catalog /\ direct' = direct
        /\ acked' = acked /\ rejected' = rejected \union {m}
    BY <1>7 DEF DeleteFails, stores
  <2>2. Stores'
    BY <1>3, <2>1, Typed, Settled
  <2>3. UnlinkOK(n, log, Decided', direct')
    BY <1>1, <1>5, <1>7, <2>1, NoNumber DEF UnlinkOK
  <2>4. ~UseQueue => CacheFromDone(direct)'
    BY <2>1, Typed DEF CacheFromDone
  <2> QED
    BY <1>3, <1>4, <1>5, <2>1, <2>2, <2>3, <2>4, UnlinkGoesOn
<1>8. CASE to = "forget" /\ UnlinkCache(d)
  <2>1. /\ r.at = "invalidate" /\ s3' = s3 /\ catalog' = catalog /\ direct' = direct
        /\ acked' = acked /\ rejected' = rejected /\ cache' = [cache EXCEPT ![log[m].key] = Nil]
    BY <1>8 DEF UnlinkCache, UnlinkStep, Target, fates
  <2>2. cache' \in [Key -> Version \union {Nil}] /\ (~UseQueue => CacheFromDone(direct)')
    BY <1>2, <1>3, <2>1, Typed DEF CacheFromDone
  <2>3. Stores'
    BY <1>3, <2>1, <2>2, Typed, Settled
  <2>4. Decided' = Decided /\ m \in direct
    BY <1>1, <2>1 DEF Decided, UnlinkOK
  <2>5. UnlinkOK(n, log, Decided', direct')
    BY <1>1, <1>3, <1>5, <1>8, <2>1, <2>4 DEF UnlinkOK
  <2> QED
    BY <1>3, <1>4, <1>5, <2>1, <2>2, <2>3, <2>5, UnlinkGoesOn
<1>9. CASE to = "idle" /\ UnlinkCatalog(d)
  <2>1. /\ r.at = "forget" /\ s3' = s3 /\ cache' = cache /\ direct' = direct
        /\ acked' = acked \union {m} /\ rejected' = rejected
        /\ catalog' \in {catalog, [catalog EXCEPT ![log[m].key] = Nil]}
    BY <1>9 DEF UnlinkCatalog, UnlinkStep, Target
  <2>2. catalog' \in [Key -> Version \union {Nil}] /\ (~UseQueue => CacheFromDone(direct)')
    BY <1>2, <1>3, <2>1, Typed DEF CacheFromDone
  <2>3. Stores' /\ m \in direct
    BY <1>1, <1>3, <2>1, <2>2, Typed, Settled DEF UnlinkOK
  <2>4. UnlinkOK(n, log, Decided', direct')
    BY <1>1, <1>5, <1>9, <2>1, NoNumber DEF UnlinkOK
  <2> QED
    BY <1>3, <1>4, <1>5, <2>1, <2>2, <2>3, <2>4, UnlinkGoesOn
<1> QED
  BY <1>3, <1>6, <1>7, <1>8, <1>9

-----------------------------------------------------------------------------
(* The evictor, the queue's workers and Stop, and other writers. *)

LEMMA BackgroundMoves ==
  ASSUME IInv, [QueueNext]_QueueVars, log' = log, handle' = handle, unlink' = unlink, UNCHANGED fates,
         Stores', Ordered', AckedSomewhere', ~UseQueue => Through',
         \A j \in Op : Untouched(j) => outcome'[j] \in {"new", "refused"}
  PROVE  IInv'
<1>1. /\ acked' = acked /\ rejected' = rejected /\ direct' = direct /\ Decided' = Decided
  BY DEF fates, Decided
<1>2. Extends
  BY SameLog, Typed
<1>3. Handles'
  BY <1>1, <1>2, HandlesKeep DEF IInv, Handles, HandleOK
<1>4. Unlinks'
  BY <1>1, <1>2, UnlinksKeep DEF IInv, Unlinks, UnlinkOK
<1>5. History'
  BY <1>1, <1>2, HistoryKeeps, Numbers, Typed DEF History
<1>6. QueueProofs!IInv'
  BY QueueKeeps DEF IInv
<1> QED
  BY <1>3, <1>4, <1>5, <1>6 DEF IInv

LEMMA EvictPreserves ==
  ASSUME IInv, NEW k \in Key, Evict(k)
  PROVE  IInv'
<1>1. /\ cache' = [cache EXCEPT ![k] = Nil] /\ log' = log /\ s3' = s3 /\ catalog' = catalog
      /\ handle' = handle /\ unlink' = unlink /\ UNCHANGED fates /\ UNCHANGED queue
      /\ direct' = direct /\ acked' = acked
  BY DEF Evict, fates
<1>2. cache' \in [Key -> Version \union {Nil}] /\ (~UseQueue => CacheFromDone(direct)')
  BY <1>1, Typed DEF CacheFromDone
<1>3. Stores' /\ Ordered' /\ [QueueNext]_QueueVars /\ stored' = stored /\ staging' = staging
  BY <1>1, <1>2, Typed, Settled
<1>4. AckedSomewhere'
  BY <1>1, <1>3 DEF IInv, AckedSomewhere, Landed
<1>5. ~UseQueue => Through'
  BY <1>1, <1>2, SameLog, Typed, ThroughStays
<1>6. \A j \in Op : Untouched(j) => outcome'[j] \in {"new", "refused"}
  BY <1>1 DEF queue, Untouched
<1> QED
  BY <1>1, <1>3, <1>4, <1>5, <1>6, BackgroundMoves

LEMMA WorkerPutLandsPreserves ==
  ASSUME IInv, NEW w \in Worker, WorkerPutLands(w)
  PROVE  IInv'
<1> DEFINE m == job[w]
<1>1. /\ Queue!PutLands(w) /\ s3' = [s3 EXCEPT ![log[m].key] = m]
      /\ log' = log /\ cache' = cache /\ catalog' = catalog
      /\ handle' = handle /\ unlink' = unlink /\ UNCHANGED fates /\ acked' = acked /\ direct' = direct
  BY DEF WorkerPutLands, fates
<1>2. /\ pc[w] = "put" /\ stored' = stored \union {m}
      /\ jobs' = jobs /\ job' = job /\ staging' = staging /\ outcome' = outcome
  BY <1>1 DEF Queue!PutLands
<1>3. m # Nil /\ m \in DOMAIN log /\ m \in Nat /\ log[m].key \in Key /\ m \in 0..Len(log)
  <2>1. m # Nil /\ m \in Op /\ ~Untouched(m)
    BY <1>2, QueueState DEF IInv
  <2> QED
    BY <2>1, Numbers, Typed DEF Untouched, Entry, IInv, History
<1>4. UseQueue
  BY <1>2 DEF IInv, Through
<1>5. Stores'
  <2>1. s3' \in [Key -> 0..Len(log)]
    BY <1>1, <1>3 DEF IInv, Stores
  <2>2. \A k \in Key : s3'[k] \in Landed' \union {0}
    BY <1>1, <1>2, <1>3 DEF IInv, Stores, Landed
  <2> QED
    BY <1>1, <2>1, <2>2, Typed DEF Stores
<1>6. Ordered'
  <2>1. m \notin log[m].before
    BY <1>3 DEF IInv, History
  <2>2. \A i \in DOMAIN jobs : m # Nil => jobs[i] \notin log[m].before
    BY DEF IInv, Ordered
  <2>3. \A i \in DOMAIN jobs : \A n \in stored' : jobs[i] \notin log[n].before
    BY <1>2, <1>3, <2>2 DEF IInv, Ordered
  <2>4. (\A u, v \in Worker : u = v) =>
          \A v \in Worker : \A n \in stored' : job[v] # Nil => job[v] \notin log[n].before
    BY <1>2, <1>3, <2>1 DEF IInv, Ordered
  <2>5. /\ \A i, j \in DOMAIN jobs : i < j => jobs[j] \notin log[jobs[i]].before
        /\ \A i \in DOMAIN jobs : \A v \in Worker : job[v] # Nil => jobs[i] \notin log[job[v]].before
    BY DEF IInv, Ordered
  <2> QED
    BY <1>1, <1>2, <2>3, <2>4, <2>5 DEF Ordered
<1>7. AckedSomewhere'
  BY <1>1, <1>2 DEF IInv, AckedSomewhere, Landed
<1>8. [QueueNext]_QueueVars
  BY <1>1, SameOperations
<1>9. \A j \in Op : Untouched(j) => outcome'[j] \in {"new", "refused"}
  BY <1>2 DEF Untouched
<1> QED
  BY <1>1, <1>4, <1>5, <1>6, <1>7, <1>8, <1>9, BackgroundMoves

LEMMA WorkerMovesPreserves ==
  ASSUME IInv, NEW w \in Worker, WorkerMoves(w)
  PROVE  IInv'
<1>1. /\ WorkerAct(w) /\ QueueNext /\ log' = log /\ s3' = s3 /\ cache' = cache /\ catalog' = catalog
      /\ handle' = handle /\ unlink' = unlink /\ UNCHANGED fates /\ acked' = acked /\ direct' = direct
  BY SameOperations DEF WorkerMoves, WorkerFails, WorkerAct, stores, fates
<1>2. /\ stored' = stored /\ staging \ staging' \subseteq stored
      /\ \A n \in Op : Untouched(n) => outcome'[n] = outcome[n]
      /\ \/ jobs' = jobs /\ \A v \in Worker : job'[v] = job[v] \/ job'[v] = Nil
         \/ jobs # <<>> /\ jobs' = Tail(jobs) /\ job' = [job EXCEPT ![w] = Head(jobs)]
      /\ jobs # <<>> \/ pc[w] # "receive" \/ draining[w] \/ stopCh
  BY <1>1, WorkerEffect DEF IInv
<1>3. UseQueue
  BY <1>2 DEF IInv, Through
<1>4. Stores'
  BY <1>1, <1>2, StoresKeep, SameLog, Typed
<1>5. AckedSomewhere'
  BY <1>1, <1>2 DEF IInv, AckedSomewhere, Landed
<1>6. Ordered'
  <2>1. CASE jobs' = jobs /\ \A v \in Worker : job'[v] = job[v] \/ job'[v] = Nil
    BY <1>1, <1>2, <2>1 DEF IInv, Ordered
  <2>2. CASE jobs # <<>> /\ jobs' = Tail(jobs) /\ job' = [job EXCEPT ![w] = Head(jobs)]
    <3>1. jobs \in Seq(Op) /\ job \in [Worker -> Op \union {Nil}]
      BY QueueState DEF IInv
    <3>2. /\ Head(jobs) = jobs[1] /\ 1 \in DOMAIN jobs
          /\ \A i \in DOMAIN jobs' : i \in Nat \ {0} /\ i + 1 \in DOMAIN jobs /\ jobs'[i] = jobs[i + 1]
      BY <2>2, <3>1
    <3>3. \A v \in Worker : job'[v] = IF v = w THEN jobs[1] ELSE job[v]
      BY <2>2, <3>1, <3>2
    <3>4. ASSUME NEW i \in DOMAIN jobs', NEW j \in DOMAIN jobs', i < j
          PROVE  jobs'[j] \notin log[jobs'[i]].before
      <4>1. i + 1 < j + 1
        BY <3>2, <3>4
      <4> QED
        BY <3>2, <4>1 DEF IInv, Ordered
    <3>5. ASSUME NEW i \in DOMAIN jobs', NEW v \in Worker, job'[v] # Nil
          PROVE  jobs'[i] \notin log[job'[v]].before
      <4>1. 1 < i + 1
        BY <3>2
      <4>2. jobs[i + 1] \notin log[jobs[1]].before
        BY <3>2, <4>1 DEF IInv, Ordered
      <4> QED
        BY <3>2, <3>3, <3>5, <4>2 DEF IInv, Ordered
    <3>6. \A i \in DOMAIN jobs' : \A m \in stored : jobs'[i] \notin log[m].before
      BY <3>2 DEF IInv, Ordered
    <3>7. ASSUME \A u, v \in Worker : u = v, NEW v \in Worker, NEW m \in stored, job'[v] # Nil
          PROVE  job'[v] \notin log[m].before
      <4>1. job'[v] = jobs[1]
        BY <3>3, <3>7
      <4> QED
        BY <3>2, <4>1 DEF IInv, Ordered
    <3> QED
      BY <1>1, <1>2, <3>4, <3>5, <3>6, <3>7 DEF Ordered
  <2> QED
    BY <1>2, <2>1, <2>2
<1>7. \A j \in Op : Untouched(j) => outcome'[j] \in {"new", "refused"}
  BY <1>2 DEF Untouched
<1> QED
  BY <1>1, <1>3, <1>4, <1>5, <1>6, <1>7, BackgroundMoves

LEMMA StopQueuePreserves ==
  ASSUME IInv, StopQueue
  PROVE  IInv'
<1>1. /\ Queue!BeginStop \/ Queue!StopReturns
      /\ UseQueue /\ log' = log /\ s3' = s3 /\ cache' = cache /\ catalog' = catalog
      /\ handle' = handle /\ unlink' = unlink /\ UNCHANGED fates /\ acked' = acked /\ direct' = direct
  BY DEF StopQueue, stores, fates
<1>2. jobs' = jobs /\ job' = job /\ stored' = stored /\ staging' = staging /\ outcome' = outcome
  BY <1>1 DEF Queue!BeginStop, Queue!StopReturns, Queue!workerVars, Queue!historyVars
<1>3. Extends
  BY <1>1, SameLog, Typed
<1>4. Stores' /\ Ordered' /\ AckedSomewhere'
  BY <1>1, <1>2, <1>3, StoresKeep, OrderedKeeps, Typed DEF IInv, AckedSomewhere, Landed
<1>5. QueueNext
  BY <1>1, SameOperations
<1>6. \A j \in Op : Untouched(j) => outcome'[j] \in {"new", "refused"}
  BY <1>2 DEF Untouched
<1> QED
  BY <1>1, <1>4, <1>5, <1>6, BackgroundMoves

LEMMA OtherWriterPreserves ==
  ASSUME IInv, NEW k \in Key, OtherWriterPuts(k)
  PROVE  IInv'
<1> DEFINE m == Len(log) + 1
<1>1. /\ Begin("put", k, {}) /\ s3' = [s3 EXCEPT ![k] = m]
      /\ direct' = direct \union {m} /\ acked' = acked \union {m} /\ rejected' = rejected
      /\ cache' = cache /\ catalog' = catalog /\ handle' = handle /\ unlink' = unlink /\ UNCHANGED queue
  BY DEF OtherWriterPuts
<1>2. /\ Extends /\ m \in DOMAIN log' /\ m \notin DOMAIN log /\ Len(log') = m
  <2>1. Begin("put", k, {}) /\ History /\ "put" \in {"put", "delete"} /\ {} \in SUBSET Chunk
    BY <1>1, Typed
  <2> QED
    BY <2>1, Begins
<1>3. m \in Nat /\ Len(log) \in Nat
  BY Numbers, Typed
<1>4. 0..Len(log) \subseteq 0..Len(log') /\ m \in 0..Len(log')
  BY <1>2, <1>3
<1> HIDE DEF m
<1>5. Decided' = Decided \union {m} /\ Decided \subseteq DOMAIN log
  BY <1>1, Numbers, Typed DEF Decided
<1>6. \A g \in Handle : Flushing(handle[g]) => handle[g].cur \notin Decided'
  BY <1>2, <1>5 DEF IInv, Handles, HandleOK
<1>7. Handles'
  BY <1>1, <1>2, <1>6, HandlesKeep
<1>8. \A c \in Dir : unlink[c].at # "idle" => unlink[c].op \notin Decided'
  BY <1>2, <1>5 DEF IInv, Unlinks, UnlinkOK
<1>9. Unlinks'
  BY <1>1, <1>2, <1>8, UnlinksKeep
<1>10. ASSUME ~UseQueue
       PROVE  Through'
  <2>1. CacheFromDone(direct)'
    BY <1>1, <1>10, Typed DEF CacheFromDone
  <2> QED
    BY <1>1, <1>2, <1>10, <2>1, ThroughStays
<1>11. QueueProofs!IInv' /\ Ordered' /\ stored' = stored /\ staging' = staging
       /\ \A j \in Op : Untouched(j) => outcome'[j] \in {"new", "refused"} \/ j \in acked'
  BY <1>1, <1>2, QueueRests
<1>12. History'
  <2>1. acked' \union rejected' \union direct' \subseteq DOMAIN log'
    BY <1>1, <1>2, Numbers, Typed DEF Extends
  <2>2. acked' \intersect rejected' = {}
    BY <1>1, <1>2, Numbers, Typed DEF History
  <2> QED
    BY <1>1, <1>2, <1>11, <2>1, <2>2, HistoryKeeps
<1>13. Stores'
  <2>1. s3' \in [Key -> 0..Len(log')]
    BY <1>1, <1>4 DEF IInv, Stores
  <2>2. \A j \in Key : s3'[j] \in Landed' \union {0}
    BY <1>1, <1>11 DEF IInv, Stores, Landed
  <2> QED
    BY <1>1, <2>1, <2>2, Typed DEF Stores
<1>14. AckedSomewhere'
  BY <1>1, <1>11 DEF IInv, AckedSomewhere, Landed
<1> QED
  BY <1>7, <1>9, <1>10, <1>11, <1>12, <1>13, <1>14 DEF IInv

-----------------------------------------------------------------------------
(* The invariant holds. *)

LEMMA InitHolds == Init => IInv
<1> SUFFICES ASSUME Init
             PROVE  IInv
  OBVIOUS
<1>1. /\ log = <<>> /\ Len(log) = 0 /\ DOMAIN log = {} /\ s3 = [k \in Key |-> 0]
      /\ cache = [k \in Key |-> Nil] /\ catalog = [k \in Key |-> Nil]
      /\ handle = [h \in Handle |-> Closed] /\ unlink = [d \in Dir |-> [at |-> "idle", op |-> 0]]
      /\ direct = {} /\ acked = {} /\ rejected = {}
  BY DEF Init
<1>2. /\ stopCh = FALSE /\ jobs = <<>> /\ DOMAIN jobs = {} /\ stored = {} /\ staging = {}
      /\ \A w \in Worker : pc[w] = "receive" /\ draining[w] = FALSE /\ job[w] = Nil
      /\ \A n \in Op : outcome[n] = "new"
  BY DEF Init, Queue!Init
<1>3. QueueProofs!IInv
  BY QueueInit DEF Init
<1>4. History
  BY <1>1, <1>2, ModeAssumption DEF History, Decided
<1>5. Stores
  BY <1>1 DEF Stores
<1>6. Handles
  <2>1. Closed \in HandleRecord /\ Closed.at = "closed" /\ Closed.cur = 0
    BY DEF Closed, HandleRecord
  <2>2. HandleOK(Closed, log, Decided, direct) /\ ~Flushing(Closed)
    BY <1>1, <2>1 DEF HandleOK, Flushing
  <2> QED
    BY <1>1, <2>2 DEF Handles
<1>7. Unlinks
  <2> DEFINE r == [at |-> "idle", op |-> 0]
  <2>1. r \in UnlinkRecord /\ r.at = "idle" /\ r.op = 0
    BY DEF UnlinkRecord
  <2> HIDE DEF r
  <2>2. UnlinkOK(r, log, Decided, direct)
    BY <1>1, <2>1 DEF UnlinkOK
  <2>3. unlink = [d \in Dir |-> r]
    BY <1>1 DEF r
  <2> QED
    BY <2>1, <2>2, <2>3 DEF Unlinks
<1>8. Through
  <2>1. Closed.at = "closed" /\ Closed.tmp = {} /\ Closed.wrote = {} /\ ~Flushing(Closed)
    BY DEF Closed, Flushing
  <2>2. ThroughOK(Closed, log, acked, direct)
    BY <2>1 DEF ThroughOK
  <2> QED
    BY <1>1, <1>2, <2>2 DEF Through
<1>9. AckedSomewhere /\ Ordered
  BY <1>1, <1>2 DEF AckedSomewhere, Ordered
<1> QED
  BY <1>3, <1>4, <1>5, <1>6, <1>7, <1>8, <1>9 DEF IInv

LEMMA StutterKeeps ==
  ASSUME IInv, UNCHANGED vars
  PROVE  IInv'
<1>1. /\ log' = log /\ UNCHANGED stores /\ handle' = handle /\ unlink' = unlink /\ UNCHANGED fates
      /\ UNCHANGED queue
  BY DEF vars
<1>2. Extends /\ s3' = s3 /\ cache' = cache /\ catalog' = catalog /\ acked' = acked /\ direct' = direct
  BY <1>1, SameLog, Typed DEF stores, fates
<1>3. Stores' /\ Ordered' /\ [QueueNext]_QueueVars /\ stored' = stored /\ staging' = staging
  BY <1>1, <1>2, Typed, Settled
<1>4. AckedSomewhere' /\ (~UseQueue => Through')
  BY <1>1, <1>2, <1>3, ThroughStays, Typed DEF IInv, AckedSomewhere, Landed, CacheFromDone
<1>5. \A j \in Op : Untouched(j) => outcome'[j] \in {"new", "refused"}
  BY <1>1 DEF queue, Untouched
<1> QED
  BY <1>1, <1>3, <1>4, <1>5, BackgroundMoves

LEMMA Inductive ==
  ASSUME IInv, [Next]_vars
  PROVE  IInv'
<1>1. ASSUME NEW h \in Handle, HandleStep(h)
      PROVE  IInv'
  <2>1. CASE \E k \in Key : Open(h, k) \/ Create(h, k)
    BY <2>1, OpenPreserves
  <2>2. CASE (\E c \in Chunk : Write(h, c)) \/ Release(h)
    BY <2>2, WritePreserves, ReleasePreserves
  <2>3. CASE FlushSync(h) \/ FlushStaged(h) \/ FlushRenameFails(h) \/ FlushLosesFile(h)
    BY <2>3, FlushesPreserve, LosesFilePreserves
  <2>4. CASE StagedCatalog(h) \/ StagedCache(h) \/ SyncCache(h)
             \/ FetchStart(h) \/ FetchFails(h) \/ FetchFill(h)
    BY <2>4, StepPreserves
  <2>5. CASE Submitted(h) \/ QueueFull(h) \/ PutLands(h) \/ PutFails(h)
    BY <2>5, SubmittedPreserves, QueueFullPreserves, PutLandsPreserves, PutFailsPreserves
  <2>6. CASE FallbackDone(h) \/ SyncDone(h) \/ FetchGet(h)
    BY <2>6, FallbackDonePreserves, SyncDonePreserves, FetchGetPreserves
  <2> QED
    BY <1>1, <2>1, <2>2, <2>3, <2>4, <2>5, <2>6 DEF HandleStep
<1>2. ASSUME NEW d \in Dir, DirStep(d)
      PROVE  IInv'
  BY <1>2, UnlinkPreserves, UnlinkStepPreserves DEF DirStep
<1>3. ASSUME NEW k \in Key, Evict(k) \/ OtherWriterPuts(k)
      PROVE  IInv'
  BY <1>3, EvictPreserves, OtherWriterPreserves
<1>4. ASSUME NEW w \in Worker, WorkerPutLands(w) \/ WorkerMoves(w)
      PROVE  IInv'
  BY <1>4, WorkerPutLandsPreserves, WorkerMovesPreserves
<1> QED
  BY <1>1, <1>2, <1>3, <1>4, StopQueuePreserves, StutterKeeps DEF Next

(* Every handler of fuse/handle.go, Unlink, the queue's workers and Stop keep the    *)
(* invariant, whatever fails and in either mode of write_back.enabled.           *)
THEOREM Invariance == Spec => []IInv
<1>1. Init => IInv
  BY InitHolds
<1>2. IInv /\ [Next]_vars => IInv'
  BY Inductive
<1> QED
  BY <1>1, <1>2, PTL DEF Spec

(* The stores, the handles, the unlinks and the queue have the types of TypeOK, and  *)
(* no operation is reported both as done and as failed.                        *)
THEOREM Typing == Spec => []TypeOK
<1>1. IInv => TypeOK
  <2> SUFFICES ASSUME IInv
               PROVE  TypeOK
    OBVIOUS
  <2>1. /\ log \in Seq(Entry) /\ Len(log) <= MaxOps /\ acked \intersect rejected = {}
        /\ direct \subseteq Op /\ acked \subseteq Op /\ rejected \subseteq Op
    BY Numbers DEF IInv, History
  <2>2. \A h \in Handle : handle[h] \in
          [at : {"closed", "idle", "catalog", "cache", "submit", "put", "ack", "record",
                 "fput", "fack", "get", "fill", "broken"},
           key : Key \union {Nil}, tmp : SUBSET Chunk, dirty : BOOLEAN,
           cur : 0..Len(log), wrote : SUBSET Chunk]
    BY AtHandle DEF HandleOK, HandleRecord
  <2>3. \A d \in Dir : unlink[d] \in
          [at : {"idle", "delete", "invalidate", "forget"}, op : 0..Len(log)]
    BY DEF IInv, Unlinks, UnlinkOK, UnlinkRecord
  <2>4. handle = [h \in Handle |-> handle[h]] /\ unlink = [d \in Dir |-> unlink[d]]
    BY DEF IInv, Handles, Unlinks
  <2>5. Queue!TypeOK
    BY QueueState DEF IInv
  <2> QED
    BY <2>1, <2>2, <2>3, <2>4, <2>5 DEF TypeOK, IInv, Stores, Entry
<1> QED
  BY <1>1, Invariance, PTL

(* What flush() and Unlink reported as done has reached the bucket or is in a         *)
(* staging file: the queue removes one only when its PUT is in the bucket, and a      *)
(* flush is acknowledged when the queue has its file or the bucket its object.     *)
THEOREM AckedIsKept == Spec => []AckedSomewhere
<1>1. IInv => AckedSomewhere
  BY DEF IInv
<1> QED
  BY <1>1, Invariance, PTL

(* With write_back.enabled false, what flush() and Unlink reported as done is in the   *)
(* bucket: the error of PutObject or DeleteObject is returned before.             *)
THEOREM AckedThrough == ~UseQueue => (Spec => []AckedInS3)
<1> SUFFICES ASSUME ~UseQueue
             PROVE  Spec => []AckedInS3
  OBVIOUS
<1>1. IInv => AckedInS3
  BY DEF IInv, AckedSomewhere, AckedInS3, Through, Landed
<1> QED
  BY <1>1, Invariance, PTL

(* With write_back.enabled false, a clean handle's file was acknowledged whole: the     *)
(* dirty flag is reset at the end of a flush of the temporary file, which has all      *)
(* that was written, and by no flush that failed.                               *)
THEOREM CleanIsSaved == ~UseQueue => (Spec => []CleanMeansSaved)
<1> SUFFICES ASSUME ~UseQueue
             PROVE  Spec => []CleanMeansSaved
  OBVIOUS
<1>1. IInv => CleanMeansSaved
  BY DEF IInv, Through, ThroughOK, CleanMeansSaved
<1> QED
  BY <1>1, Invariance, PTL

(* With write_back.enabled false, the cache holds no version that the bucket has not     *)
(* had, also after a PUT that failed: flush() fills it after the PUT, and a download    *)
(* with what it was answered.                                                 *)
THEOREM CacheOfBucket == ~UseQueue => (Spec => []CacheFromBucket)
<1> SUFFICES ASSUME ~UseQueue
             PROVE  Spec => []CacheFromBucket
  OBVIOUS
<1>1. IInv => CacheFromBucket
  <2>1. IInv => 0 \notin rejected
    BY Numbers DEF IInv
  <2> QED
    BY <2>1 DEF IInv, Through, CacheFromBucket, Landed
<1> QED
  BY <1>1, Invariance, PTL

-----------------------------------------------------------------------------
(* The order in which objects change. *)

(* An object is changed by an operation that is not yet acknowledged, or by a worker    *)
(* with an upload that is.                                                    *)
LEMMA Changes ==
  ASSUME IInv, [Next]_vars, NEW k \in Key, s3'[k] # s3[k]
  PROVE  s3'[k] \notin acked \/ \E w \in Worker : job[w] # Nil /\ s3'[k] = job[w]
<1>1. /\ s3 \in [Key -> 0..Len(log)]
      /\ \A m \in DOMAIN log : log[m].key \in Key
      /\ Len(log) + 1 \notin acked
  BY Numbers, Typed DEF IInv, Stores, Entry
<1>2. ASSUME NEW h \in Handle, HandleStep(h)
      PROVE  PutLands(h)
  <2>1. s3' = s3 \/ PutLands(h)
    BY <1>2 DEF HandleStep, Open, Create, OpenAs, Write, Release, FlushSync, FlushStaged,
                FlushRenameFails, Flush, FlushLosesFile, StagedCatalog, StagedCache, Submitted,
                QueueFull, PutFails, FallbackDone, SyncCache, SyncDone, FetchStart, FetchGet,
                FetchFails, FetchFill, stores
  <2> QED
    BY <2>1
<1>3. ASSUME NEW h \in Handle, PutLands(h)
      PROVE  s3'[k] \notin acked
  <2>1. /\ Flushing(handle[h]) /\ s3' = [s3 EXCEPT ![log[handle[h].cur].key] = handle[h].cur]
    BY <1>3 DEF PutLands, Step, Land, Flushing
  <2>2. handle[h].cur \notin Decided
    BY <2>1, AtHandle DEF HandleOK
  <2> QED
    BY <1>1, <2>1, <2>2 DEF Decided
<1>4. ASSUME NEW d \in Dir, DirStep(d)
      PROVE  s3'[k] \notin acked
  <2>1. DeleteLands(d)
    BY <1>4 DEF DirStep, Unlink, DeleteFails, UnlinkCache, UnlinkCatalog, stores
  <2>2. unlink[d].at = "delete" /\ s3' = [s3 EXCEPT ![log[unlink[d].op].key] = unlink[d].op]
    BY <2>1 DEF DeleteLands, UnlinkStep, Land
  <2>3. unlink[d].op \notin Decided
    BY <2>2 DEF IInv, Unlinks, UnlinkOK
  <2> QED
    BY <1>1, <2>2, <2>3 DEF Decided
<1>5. ASSUME NEW j \in Key, Evict(j) \/ OtherWriterPuts(j)
      PROVE  s3'[k] \notin acked
  BY <1>1, <1>5 DEF Evict, OtherWriterPuts
<1>6. ASSUME NEW w \in Worker, WorkerPutLands(w) \/ WorkerMoves(w)
      PROVE  job[w] # Nil /\ s3'[k] = job[w]
  <2>1. Queue!PutLands(w) /\ s3' = [s3 EXCEPT ![log[job[w]].key] = job[w]]
    BY <1>6 DEF WorkerPutLands, WorkerMoves, stores
  <2>2. job[w] # Nil
    BY <2>1, QueueState DEF Queue!PutLands, IInv
  <2> QED
    BY <1>1, <2>1, <2>2
<1> QED
  BY <1>2, <1>3, <1>4, <1>5, <1>6 DEF Next, StopQueue, stores, vars

(* With write_back.enabled false, an object is changed by no operation that was reported  *)
(* as done before another one began that has changed it: the request is over when an   *)
(* operation is reported as done.                                              *)
THEOREM BucketInOrder == ~UseQueue => (Spec => RealTimeOrder)
<1> SUFFICES ASSUME ~UseQueue
             PROVE  Spec => RealTimeOrder
  OBVIOUS
<1>1. ASSUME IInv, [Next]_vars
      PROVE  \A k \in Key : s3'[k] # s3[k] =>
               \A m \in Landed : log[m].key = k => s3'[k] \notin log[m].before
  <2> SUFFICES ASSUME NEW k \in Key, s3'[k] # s3[k], NEW m \in Landed
               PROVE  s3'[k] \notin log[m].before
    OBVIOUS
  <2>1. stored = {} /\ \A w \in Worker : pc[w] = "receive"
    BY <1>1 DEF IInv, Through
  <2>2. \A w \in Worker : job[w] = Nil
    BY <1>1, <2>1, QueueState DEF IInv
  <2>3. s3'[k] \notin acked
    BY <1>1, <2>2, Changes
  <2>4. m \in DOMAIN log
    BY <1>1, <2>1, Numbers, Typed DEF Landed
  <2> QED
    BY <1>1, <2>3, <2>4, QueueKnows
<1>2. IInv /\ [Next]_vars =>
        [\A k \in Key : s3'[k] # s3[k] =>
           \A m \in Landed : log[m].key = k => s3'[k] \notin log[m].before]_vars
  BY <1>1
<1> QED
  BY <1>2, Invariance, PTL DEF Spec, RealTimeOrder

(* With one worker, what comes through the queue keeps its order, in either mode: the   *)
(* channel is first in, first out, a retry blocks the worker, and an upload past the    *)
(* queue is of a flush that is not yet acknowledged.                            *)
THEOREM QueueInOrder == Spec => QueueKeepsOrder
<1>1. ASSUME IInv, [Next]_vars, Cardinality(Worker) = 1
      PROVE  \A k \in Key : s3'[k] # s3[k] =>
               \A m \in stored : log[m].key = k => s3'[k] \notin log[m].before
  <2> SUFFICES ASSUME NEW k \in Key, s3'[k] # s3[k], NEW m \in stored
               PROVE  s3'[k] \notin log[m].before
    OBVIOUS
  <2>1. \A v, w \in Worker : v = w
    <3>1. PICK u : Worker = {u}
      BY <1>1, QueueAssumption, FS_Singleton
    <3> QED
      BY <3>1
  <2>2. CASE s3'[k] \notin acked
    BY <1>1, <2>2, QueueKnows
  <2>3. CASE \E w \in Worker : job[w] # Nil /\ s3'[k] = job[w]
    BY <1>1, <2>1, <2>3 DEF IInv, Ordered
  <2> QED
    BY <1>1, <2>2, <2>3, Changes
<1>2. IInv /\ [Next]_vars =>
        [Cardinality(Worker) = 1 =>
           \A k \in Key : s3'[k] # s3[k] =>
             \A m \in stored : log[m].key = k => s3'[k] \notin log[m].before]_vars
  BY <1>1
<1> QED
  BY <1>2, Invariance, PTL DEF Spec, QueueKeepsOrder

-----------------------------------------------------------------------------
(* The queue in the composition. *)

(* Every step of a request, a worker or Stop is a step of the queue or leaves it alone. *)
LEMMA QueueSteps ==
  ASSUME IInv, [Next]_vars
  PROVE  [QueueNext]_QueueVars
<1>1. ASSUME NEW h \in Handle, HandleStep(h)
      PROVE  [QueueNext]_QueueVars
  <2>1. UNCHANGED queue \/ Submitted(h) \/ QueueFull(h)
    BY <1>1 DEF HandleStep, Open, Create, OpenAs, Write, Release, FlushSync, FlushStaged,
                FlushRenameFails, Flush, FlushLosesFile, StagedCatalog, StagedCache,
                PutLands, PutFails, FallbackDone, SyncCache, SyncDone, FetchStart, FetchGet,
                FetchFails, FetchFill
  <2>2. CASE Submitted(h) \/ QueueFull(h)
    <3>1. /\ Queue!Accept(handle[h].cur) \/ Queue!Refuse(handle[h].cur)
          /\ Flushing(handle[h])
      BY <2>2 DEF Submitted, QueueFull, Clean, Flushing
    <3>2. handle[h].cur \in Op
      BY <3>1, AtHandle, Numbers, Typed DEF HandleOK
    <3> QED
      BY <3>1, <3>2, SameOperations
  <2> QED
    BY <2>1, <2>2, QueueAlone
<1>2. ASSUME NEW d \in Dir, DirStep(d)
      PROVE  [QueueNext]_QueueVars
  BY <1>2, QueueAlone DEF DirStep, Unlink, DeleteLands, DeleteFails, UnlinkCache, UnlinkCatalog, UnlinkStep
<1>3. ASSUME NEW k \in Key, Evict(k) \/ OtherWriterPuts(k)
      PROVE  [QueueNext]_QueueVars
  BY <1>3, QueueAlone DEF Evict, OtherWriterPuts
<1>4. ASSUME NEW w \in Worker, WorkerPutLands(w) \/ WorkerMoves(w)
      PROVE  [QueueNext]_QueueVars
  BY <1>4, SameOperations DEF WorkerPutLands, WorkerMoves, WorkerFails
<1>5. CASE StopQueue
  BY <1>5, SameOperations DEF StopQueue
<1>6. CASE UNCHANGED vars
  BY <1>6, QueueAlone DEF vars
<1> QED
  BY <1>1, <1>2, <1>3, <1>4, <1>5, <1>6 DEF Next

(* The flushes, the workers and Stop use the queue as its own specification says, so     *)
(* that what is proved of the queue holds of it here: a flush submits an upload that is   *)
(* new, and nothing else touches the queue's state.                             *)
THEOREM ComposesQueue == Spec => QueueProofs!Init /\ [][QueueNext]_QueueVars
<1>1. Init => QueueProofs!Init
  BY DEF Init, Queue!Init, QueueProofs!Init
<1>2. IInv /\ [Next]_vars => [QueueNext]_QueueVars
  BY QueueSteps
<1> QED
  BY <1>1, <1>2, Invariance, PTL DEF Spec

(* To the handles the queue is the pool of UploadPool: what flush() submits is     *)
(* refused or accepted, an accepted upload is in a staging file or in the bucket   *)
(* until it is given up, and Stop returns when none from before it is pending.     *)
THEOREM UploadsArePooled == Spec => QueueProofs!ImplementsPool
<1>1. Init => QueueProofs!Pool!Init
  <2>1. Init => QueueProofs!Init
    BY DEF Init, Queue!Init, QueueProofs!Init
  <2> QED
    BY <2>1, QueueProofs!PoolInit, QueueAssumed DEF QueueProofs!PoolInit
<1>2. IInv /\ [Next]_vars => [QueueProofs!Pool!Next]_(QueueProofs!Pool!vars)
  <2>1. IInv /\ [Next]_vars => QueueProofs!IInv /\ [QueueNext]_QueueVars
    BY QueueSteps DEF IInv
  <2> QED
    BY <2>1, QueueProofs!PoolStep, QueueAssumed DEF QueueProofs!PoolStep, QueueNext, QueueVars
<1> QED
  BY <1>1, <1>2, Invariance, PTL DEF Spec, QueueProofs!ImplementsPool, QueueProofs!Pool!Spec
=============================================================================
