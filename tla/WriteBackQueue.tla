--------------------------- MODULE WriteBackQueue ---------------------------
(***************************************************************************)
(* catalog/writeback.go: a bounded channel of upload jobs and a fixed set  *)
(* of worker goroutines that PUT the staging file of each job, retry with a *)
(* delay, and drain the channel when the queue is stopped.                 *)
(*                                                                         *)
(* A job is a member of Upload: every Submit makes a new one, so each is    *)
(* submitted at most once.  The steps of a worker are the points at which   *)
(* it can be interleaved with a Submit, with Stop or with another worker:   *)
(* the selects, the arrival of the PUT at the bucket and its return.        *)
(***************************************************************************)
EXTENDS Naturals, Sequences, SequencesExt

CONSTANTS
  Worker,      \* the goroutines Start launches
  Upload,      \* the jobs that may be submitted
  Routable,    \* the jobs whose bucket has a client (getClient is not nil)
  QueueSize,   \* capacity of the channel
  MaxRetries,  \* attempts after the first
  None         \* the job of a worker that has none

\* The configuration is validated: workers and queue_size are positive and
\* max_retries is not negative.
ASSUME WorkerAssumption     == Worker # {}
ASSUME RoutableAssumption   == Routable \subseteq Upload
ASSUME QueueSizeAssumption  == QueueSize \in Nat \ {0}
ASSUME MaxRetriesAssumption == MaxRetries \in Nat
ASSUME NoneAssumption       == None \notin Upload

VARIABLES
  stopCh,    \* has stopCh been closed
  stopper,   \* the caller of Stop: "idle", "waiting" in wg.Wait, "returned"
  jobs,      \* the channel
  pc,        \* where each worker is
  draining,  \* is the worker inside drain()
  job,       \* the job a worker is processing
  attempt,   \* its loop variable in process()
  staging,   \* the uploads whose staging file is on disk
  \* history variables
  outcome,   \* what became of each upload
  stored,    \* the uploads of which a PUT has reached the bucket
  tries,     \* how many calls of upload() have returned, per upload
  late       \* the uploads accepted after stopCh was closed

workerVars  == <<pc, draining, job, attempt>>
historyVars == <<outcome, stored, tries, late>>
vars == <<stopCh, stopper, jobs, workerVars, staging, historyVars>>

Outcome == {"new", "refused", "pending",
            "uploaded", "aborted", "exhausted", "unroutable"}

Queued == ToSet(jobs)

Busy(w) == pc[w] \in {"put", "ack", "backoff"}

TypeOK ==
  /\ stopCh \in BOOLEAN
  /\ stopper \in {"idle", "waiting", "returned"}
  /\ jobs \in Seq(Upload)
  /\ Len(jobs) <= QueueSize
  /\ pc \in [Worker -> {"receive", "put", "ack", "backoff", "exited"}]
  /\ draining \in [Worker -> BOOLEAN]
  /\ job \in [Worker -> Upload \union {None}]
  /\ attempt \in [Worker -> 0..MaxRetries]
  /\ staging \in SUBSET Upload
  /\ outcome \in [Upload -> Outcome]
  /\ stored \in SUBSET Upload
  /\ tries \in [Upload -> Nat]
  /\ late \in SUBSET Upload

Init ==
  /\ stopCh = FALSE
  /\ stopper = "idle"
  /\ jobs = <<>>
  /\ pc = [w \in Worker |-> "receive"]
  /\ draining = [w \in Worker |-> FALSE]
  /\ job = [w \in Worker |-> None]
  /\ attempt = [w \in Worker |-> 0]
  /\ staging = {}
  /\ outcome = [u \in Upload |-> "new"]
  /\ stored = {}
  /\ tries = [u \in Upload |-> 0]
  /\ late = {}

-----------------------------------------------------------------------------
(* Submit never blocks: a full channel refuses the job.  The caller renamed *)
(* the file into the staging directory before; a refused one stays its own. *)

HasRoomOffByOne == Len(jobs) <= QueueSize  \* mutant

HasRoom == Len(jobs) < QueueSize

Accept(u) ==
  /\ outcome[u] = "new"
  /\ HasRoom
  /\ jobs' = Append(jobs, u)
  /\ staging' = staging \union {u}
  /\ outcome' = [outcome EXCEPT ![u] = "pending"]
  /\ late' = IF stopCh THEN late \union {u} ELSE late
  /\ UNCHANGED <<stopCh, stopper, workerVars, stored, tries>>

Refuse(u) ==
  /\ outcome[u] = "new"
  /\ ~HasRoom
  /\ outcome' = [outcome EXCEPT ![u] = "refused"]
  /\ UNCHANGED <<stopCh, stopper, jobs, workerVars, staging, stored, tries, late>>

-----------------------------------------------------------------------------
(* The loops of worker() and drain().  A select with both cases ready takes *)
(* either, so a job may still be received here after stopCh is closed.      *)

PeekJob == jobs # <<>> /\ UNCHANGED jobs  \* mutant

TakeJob == jobs # <<>> /\ jobs' = Tail(jobs)

Receive(w) ==
  /\ pc[w] = "receive"
  /\ TakeJob
  /\ Head(jobs) \in Routable
  /\ pc' = [pc EXCEPT ![w] = "put"]
  /\ job' = [job EXCEPT ![w] = Head(jobs)]
  /\ attempt' = [attempt EXCEPT ![w] = 0]
  /\ UNCHANGED <<stopCh, stopper, draining, staging, historyVars>>

(* process() returns at once when the bucket has no client. *)
Discard(w) ==
  /\ pc[w] = "receive"
  /\ TakeJob
  /\ Head(jobs) \notin Routable
  /\ outcome' = [outcome EXCEPT ![Head(jobs)] = "unroutable"]
  /\ UNCHANGED <<stopCh, stopper, workerVars, staging, stored, tries, late>>

NoticeStop(w) ==
  /\ pc[w] = "receive"
  /\ ~draining[w]
  /\ stopCh
  /\ draining' = [draining EXCEPT ![w] = TRUE]
  /\ UNCHANGED <<stopCh, stopper, jobs, pc, job, attempt, staging, historyVars>>

(* Mutant: the worker returns on stopCh without draining. *)
DrainSkipped(w) ==
  /\ pc[w] = "receive"
  /\ draining[w]
  /\ pc' = [pc EXCEPT ![w] = "exited"]
  /\ UNCHANGED <<stopCh, stopper, jobs, draining, job, attempt, staging, historyVars>>

(* Mutant: the loop of worker() goes on after drain(). *)
DrainedNoReturn(w) ==
  /\ pc[w] = "receive"
  /\ draining[w]
  /\ jobs = <<>>
  /\ draining' = [draining EXCEPT ![w] = FALSE]
  /\ UNCHANGED <<stopCh, stopper, jobs, pc, job, attempt, staging, historyVars>>

Drained(w) ==
  /\ pc[w] = "receive"
  /\ draining[w]
  /\ jobs = <<>>
  /\ pc' = [pc EXCEPT ![w] = "exited"]
  /\ UNCHANGED <<stopCh, stopper, jobs, draining, job, attempt, staging, historyVars>>

-----------------------------------------------------------------------------
(* process() and upload().  A PUT that reached the bucket may still come    *)
(* back as an error (its answer was lost), and is then tried again.         *)

PutLands(w) ==
  /\ pc[w] = "put"
  /\ stored' = stored \union {job[w]}
  /\ pc' = [pc EXCEPT ![w] = "ack"]
  /\ UNCHANGED <<stopCh, stopper, jobs, draining, job, attempt, staging,
                 outcome, tries, late>>

(* The worker is done with its job, which ends as result. *)
Done(w, result) ==
  /\ pc' = [pc EXCEPT ![w] = "receive"]
  /\ job' = [job EXCEPT ![w] = None]
  /\ outcome' = [outcome EXCEPT ![job[w]] = result]
  /\ UNCHANGED <<stopCh, stopper, jobs, draining, attempt, stored, late>>

Tried(w) == tries' = [tries EXCEPT ![job[w]] = @ + 1]

(* Mutant: the error of PutObject is not looked at. *)
UploadSucceedsUnchecked(w) ==
  /\ pc[w] \in {"put", "ack"}
  /\ staging' \in {staging, staging \ {job[w]}}
  /\ Tried(w)
  /\ Done(w, "uploaded")

(* The error of os.Remove is ignored: the staging file may stay for good. *)
UploadSucceeds(w) ==
  /\ pc[w] = "ack"
  /\ staging' \in {staging, staging \ {job[w]}}
  /\ Tried(w)
  /\ Done(w, "uploaded")

MoreAttemptsOffByOne(w) == attempt[w] + 1 < MaxRetries  \* mutant

MoreAttempts(w) == attempt[w] < MaxRetries

(* Mutant: a job that failed goes to the end of the channel, if there is room. *)
UploadFailsRequeues(w) ==
  /\ pc[w] \in {"put", "ack"}
  /\ MoreAttempts(w)
  /\ HasRoom
  /\ jobs' = Append(jobs, job[w])
  /\ pc' = [pc EXCEPT ![w] = "receive"]
  /\ job' = [job EXCEPT ![w] = None]
  /\ UNCHANGED <<stopCh, stopper, draining, attempt, staging, historyVars>>

UploadFails(w) ==
  /\ pc[w] \in {"put", "ack"}
  /\ MoreAttempts(w)
  /\ attempt' = [attempt EXCEPT ![w] = @ + 1]
  /\ pc' = [pc EXCEPT ![w] = "backoff"]
  /\ Tried(w)
  /\ UNCHANGED <<stopCh, stopper, jobs, draining, job, staging, outcome, stored, late>>

(* Mutant: the staging file is removed at every return of process(). *)
ExhaustsRemoving(w) ==
  /\ pc[w] \in {"put", "ack"}
  /\ ~MoreAttempts(w)
  /\ staging' = staging \ {job[w]}
  /\ Tried(w)
  /\ Done(w, "exhausted")

(* The last attempt failed: the staging file is left behind. *)
Exhausts(w) ==
  /\ pc[w] \in {"put", "ack"}
  /\ ~MoreAttempts(w)
  /\ Tried(w)
  /\ Done(w, "exhausted")
  /\ UNCHANGED staging

BackoffElapsed(w) ==
  /\ pc[w] = "backoff"
  /\ pc' = [pc EXCEPT ![w] = "put"]
  /\ UNCHANGED <<stopCh, stopper, jobs, draining, job, attempt, staging, historyVars>>

BackoffAborted(w) ==
  /\ pc[w] = "backoff"
  /\ stopCh
  /\ Done(w, "aborted")
  /\ UNCHANGED <<staging, tries>>

-----------------------------------------------------------------------------
(* Stop() closes stopCh and waits for the workers. *)

BeginStop ==
  /\ stopper = "idle"
  /\ stopCh' = TRUE
  /\ stopper' = "waiting"
  /\ UNCHANGED <<jobs, workerVars, staging, historyVars>>

SomeExited == \E w \in Worker : pc[w] = "exited"  \* mutant

AllExited == \A w \in Worker : pc[w] = "exited"

StopReturns ==
  /\ stopper = "waiting"
  /\ AllExited
  /\ stopper' = "returned"
  /\ UNCHANGED <<stopCh, jobs, workerVars, staging, historyVars>>

-----------------------------------------------------------------------------

WorkerStep(w) ==
  \/ Receive(w) \/ Discard(w) \/ NoticeStop(w) \/ Drained(w)
  \/ PutLands(w) \/ UploadSucceeds(w) \/ UploadFails(w) \/ Exhausts(w)
  \/ BackoffElapsed(w) \/ BackoffAborted(w)

Next ==
  \/ \E u \in Upload : Accept(u) \/ Refuse(u)
  \/ \E w \in Worker : WorkerStep(w)
  \/ BeginStop
  \/ StopReturns

(* Goroutines are scheduled, wg.Wait wakes up, and every PUT is answered or   *)
(* fails in the end; the last is an assumption on the network, for the S3      *)
(* client sets no timeout.  Nothing obliges anyone to submit or to stop.      *)
Fairness ==
  /\ \A w \in Worker : WF_vars(WorkerStep(w))
  /\ WF_vars(StopReturns)

Spec == Init /\ [][Next]_vars /\ Fairness

-----------------------------------------------------------------------------
(* Properties.                                                             *)

Holders(u) == {w \in Worker : job[w] = u}

(* A pending upload is in exactly one place, once in the channel or in the   *)
(* hands of one worker, and nothing else is in either: no job is lost or     *)
(* processed twice (Submit, the receives of worker() and drain(), and every   *)
(* return of process()).                                                     *)
HeldOnce ==
  /\ IsInjective(jobs)
  /\ \A v, w \in Worker : job[v] = job[w] /\ job[v] # None => v = w
  /\ \A w \in Worker : job[w] # None => job[w] \notin Queued
  /\ \A u \in Upload :
       outcome[u] = "pending" <=> u \in Queued \/ \E w \in Worker : job[w] = u

(* The bytes of an accepted upload are on disk or in the bucket whatever     *)
(* happens to it: process() removes its staging file after its PUT and at no *)
(* other return.  Nothing is uploaded that was not accepted.                 *)
BytesKept ==
  \A u \in Upload :
    /\ outcome[u] \in {"new", "refused"} => u \notin staging \union stored
    /\ outcome[u] \in {"pending", "aborted", "exhausted", "unroutable"} => u \in staging
    /\ outcome[u] = "uploaded" => u \in stored

(* process() gives a job up only for the reasons it has: all of its attempts *)
(* were made, or the queue is stopping, or its bucket has no client.         *)
GiveUpJustified ==
  \A u \in Upload :
    /\ outcome[u] = "exhausted" => tries[u] = MaxRetries + 1
    /\ outcome[u] = "aborted" => stopCh /\ tries[u] \in 1..MaxRetries
    /\ outcome[u] = "unroutable" => u \notin Routable

(* When one worker has left drain(), whatever the channel holds was          *)
(* submitted after the stop began: no worker leaves work behind.             *)
DrainLeavesOnlyLate ==
  (\E w \in Worker : pc[w] = "exited") => Queued \subseteq late

(* When Stop returns, everything accepted before it was called is settled.   *)
StopSettles ==
  stopper = "returned" =>
    \A u \in Upload : outcome[u] = "pending" => u \in late

(* Every upload accepted before the stop is settled in the end, and Stop     *)
(* returns: the retry loop of process() and drain() terminate.               *)
AcceptedSettles ==
  \A u \in Upload :
    (outcome[u] = "pending" /\ u \notin late) ~> (outcome[u] # "pending")

StopCompletes == (stopper = "waiting") ~> (stopper = "returned")

-----------------------------------------------------------------------------
(* The queue implements the pool of UploadPool.                            *)

PoolStatus(u) ==
  IF outcome[u] \in {"aborted", "exhausted", "unroutable"} THEN "abandoned"
  ELSE outcome[u]

PoolCopies(u) == {c \in {"staging", "bucket"} :
                    \/ c = "staging" /\ u \in staging
                    \/ c = "bucket" /\ u \in stored}

PoolGate == CASE stopper = "idle" -> "open"
              [] stopper = "waiting" -> "closing"
              [] stopper = "returned" -> "closed"

Pool == INSTANCE UploadPool WITH
          status <- [u \in Upload |-> PoolStatus(u)],
          copies <- [u \in Upload |-> PoolCopies(u)],
          gate   <- PoolGate

(* Every step of the queue is a step of the abstract pool or leaves it as it *)
(* was: in particular nothing is uploaded after Stop has returned, and Stop  *)
(* returns only when the jobs accepted before it are settled.                *)
ImplementsPool == Pool!Spec

=============================================================================
