----------------------- MODULE GatewayLifecycleProofs -----------------------
(***************************************************************************)
(* What a failed Start and a Stop leave behind, for any number of mounts and *)
(* of flushes.  The invariant says for each place of Start and Stop what is    *)
(* still there; Failing tells a Stop from the end of a failed Start, which     *)
(* stop the same parts in another order.                                     *)
(***************************************************************************)
EXTENDS GatewayLifecycle, TLAPS

Quiet == \A u \in Upload : status[u] # "pending"

(* An upload is late only once the queue was told to stop, and a closed queue   *)
(* has settled the others.  Without a queue nothing is ever pending.           *)
Queueing ==
  /\ gate = "open" => late = {}
  /\ gate = "closed" => \A u \in Upload : status[u] = "pending" => u \in late
  /\ ~queue => Quiet

Both == {"catalog", "cache"}

(* Start: the parts that are up, and the queue has not been told to stop. *)
StartPhase ==
  /\ main \in {"openCache", "openCatalog"} => waiters = {} /\ next = 1 /\ Quiet
  /\ main = "openCache" => open = {}
  /\ main = "openCatalog" => open = {"cache"}
  /\ main \in {"openCache", "openCatalog", "mounting", "undoing"} =>
       sync = "off" /\ ~evictor /\ gate = "open"
  /\ main \in {"mounting", "undoing"} => open = Both
  /\ main = "mounting" => next > 0

(* A failed Start has waited for every mount before it stops anything. *)
FailPhase ==
  /\ Failing /\ main \in {"stopQueue", "stopCatalog"} =>
       waiters = {} /\ open = Both /\ sync \in {"off", "stopped"}
  /\ Failing /\ main = "stopQueue" => late = {}
  /\ Failing /\ main = "stopCatalog" => Quiet
  /\ ~evictor /\ main = "closeCache" =>
       waiters = {} /\ open = {"cache"} /\ sync \in {"off", "stopped"} /\ Quiet
  /\ main = "failed" => waiters = {} /\ open = {} /\ sync \in {"off", "stopped"} /\ Quiet

(* A Stop has stopped the sync before the catalog, and the queue before the      *)
(* evictor.                                                                   *)
StopPhase ==
  /\ main \in {"serving", "stopCatalog", "stopQueue", "stopEvictor"} => ~evictor
  /\ main \in {"serving", "stopEvictor"} => next = Mounts + 1
  /\ main \in {"unmounting", "panicked"} => evictor
  /\ ~Failing /\ main \in {"stopCatalog", "stopQueue"} => next = Mounts + 1
  /\ main = "serving" \/ (main = "stopCatalog" /\ ~Failing) => open = Both /\ gate = "open"
  /\ main = "serving" => sync = "running"
  /\ main = "stopCatalog" /\ ~Failing => sync # "off"
  /\ (main = "stopQueue" /\ ~Failing) \/ main \in {"stopEvictor", "unmounting", "panicked"}
       \/ (main = "closeCache" /\ evictor) => sync = "stopped"
  /\ main \in {"stopEvictor", "unmounting", "panicked"} \/ (main = "closeCache" /\ evictor)
       => (queue => gate = "closed")

LInv == TypeOK /\ Queueing /\ StartPhase /\ FailPhase /\ StopPhase

LEMMA LInit == Init => LInv
<1> SUFFICES ASSUME Init
             PROVE  LInv
  OBVIOUS
<1> USE MountsAssumption DEF Init, Pool!Init
<1>1. TypeOK
  <2>1. status \in [Upload -> Pool!Status] /\ copies \in [Upload -> SUBSET {"staging", "bucket"}]
    BY DEF Pool!Status
  <2>2. {evictor, queue} \subseteq BOOLEAN
    OBVIOUS
  <2>3. /\ next \in 0..(Mounts + 1)
        /\ mounted \subseteq waiters /\ waiters \subseteq Mount
        /\ open \subseteq {"catalog", "cache"}
        /\ late \subseteq Upload
    OBVIOUS
  <2> QED
    BY <2>1, <2>2, <2>3 DEF TypeOK
<1>2. Queueing /\ StartPhase
  BY DEF Queueing, Quiet, StartPhase
<1>3. FailPhase /\ StopPhase
  BY DEF FailPhase, StopPhase, Failing
<1> QED
  BY <1>1, <1>2, <1>3 DEF LInv

(* The steps of a request or of the queue change nothing else. *)
LEMMA PoolStep ==
  ASSUME LInv, NEW u \in Upload, FlushQueued(u) \/ FlushDirect(u) \/ QueueWorks(u)
  PROVE  LInv'
<1> USE DEF LInv, TypeOK, Pool!Status, components, Ended
<1>1. CASE FlushQueued(u)
  BY <1>1 DEF FlushQueued, Pool!Accept, Queueing, Quiet, Failing, StartPhase, FailPhase, StopPhase
<1>2. CASE FlushDirect(u)
  BY <1>2 DEF FlushDirect, Pool!Refuse, Queueing, Quiet, Failing, StartPhase, FailPhase, StopPhase
<1>3. CASE QueueWorks(u)
  <2>1. TypeOK' /\ gate # "closed" /\ UNCHANGED <<gate, late, queue, main, next, mounted,
             waiters, sync, open, evictor>>
    BY <1>3 DEF QueueWorks, Pool!Land, Pool!Finish, Pool!Abandon
  <2>2. \A w \in Upload : status'[w] = "pending" => status[w] = "pending"
    BY <1>3 DEF QueueWorks, Pool!Land, Pool!Finish, Pool!Abandon
  <2> QED
    BY <2>1, <2>2 DEF Queueing, Quiet, Failing, StartPhase, FailPhase, StopPhase
<1> QED
  BY <1>1, <1>2, <1>3

LEMMA StartStep ==
  ASSUME LInv, Starting
  PROVE  LInv'
<1> USE MountsAssumption DEF LInv, TypeOK, Pool!Status, components, poolVars, Goto, Mount, Both,
    Queueing, Quiet, Failing, StartPhase, FailPhase, StopPhase
<1>1. CASE OpenCache
  BY <1>1 DEF OpenCache
<1>2. CASE OpenCatalog
  BY <1>2 DEF OpenCatalog
<1>3. CASE OpenFails
  BY <1>3 DEF OpenFails
<1>4. CASE MountNext
  BY <1>4 DEF MountNext
<1>5. CASE MountFails
  BY <1>5 DEF MountFails
<1>6. CASE Started
  BY <1>6 DEF Started
<1>7. CASE Waited
  BY <1>7 DEF Waited
<1> QED
  BY <1>1, <1>2, <1>3, <1>4, <1>5, <1>6, <1>7 DEF Starting

LEMMA StopStep ==
  ASSUME LInv, Stopping
  PROVE  LInv'
<1> USE MountsAssumption DEF LInv, TypeOK, Pool!Status, components, poolVars, Goto, Mount, Both,
    Queueing, Quiet, Failing, StartPhase, FailPhase, StopPhase
<1>1. CASE StopMount
  BY <1>1 DEF StopMount, Unmounting
<1>2. CASE StopMountFails
  BY <1>2 DEF StopMountFails, Unmounting
<1>3. CASE AllStopped
  BY <1>3 DEF AllStopped
<1>4. CASE StopSync
  BY <1>4 DEF StopSync
<1>5. CASE CatalogCloses
  BY <1>5 DEF CatalogCloses
<1>6. CASE NoQueue
  BY <1>6 DEF NoQueue, AfterQueue
<1>7. CASE BeginStopQueue
  BY <1>7 DEF BeginStopQueue, Pool!BeginClose
<1>8. CASE QueueStopped
  BY <1>8 DEF QueueStopped, Pool!Close, AfterQueue
<1>9. CASE StopEvictor
  BY <1>9 DEF StopEvictor
<1>10. CASE CacheCloses
  BY <1>10 DEF CacheCloses
<1>11. CASE CachePanics
  BY <1>11 DEF CachePanics
<1> QED
  BY <1>1, <1>2, <1>3, <1>4, <1>5, <1>6, <1>7, <1>8, <1>9, <1>10, <1>11 DEF Stopping

LEMMA LStep == LInv /\ [Next]_vars => LInv'
<1> SUFFICES ASSUME LInv, [Next]_vars
             PROVE  LInv'
  OBVIOUS
<1> USE DEF LInv, TypeOK, Pool!Status, components, poolVars, Goto, Mount,
    Queueing, Quiet, Failing, StartPhase, FailPhase, StopPhase
<1>1. CASE Signal
  BY <1>1, MountsAssumption DEF Signal, Both
<1>2. CASE SyncLoopReturns
  BY <1>2 DEF SyncLoopReturns, Ended
<1>3. ASSUME NEW b \in Mount, Detached(b)
      PROVE  LInv'
  BY <1>3 DEF Detached, Ended
<1>4. ASSUME NEW b \in Mount, WaiterReturns(b)
      PROVE  LInv'
  BY <1>4 DEF WaiterReturns, Ended
<1>5. CASE UNCHANGED vars
  BY <1>5 DEF vars
<1> QED
  BY <1>1, <1>2, <1>3, <1>4, <1>5, StartStep, StopStep, PoolStep DEF Next

(* Every variable has its type, for any number of mounts; a mount that serves    *)
(* has its Wait goroutine.                                                     *)
THEOREM Typing == Spec => []TypeOK
<1>1. LInv => TypeOK
  BY DEF LInv
<1> QED
  BY <1>1, LInit, LStep, PTL DEF Spec

(* A Start that returns an error leaves no mount, no goroutine, no open database  *)
(* and no flush unsettled, wherever it failed.                                  *)
THEOREM FailedStartClean == Spec => []FailedStartLeavesNothing
<1>1. LInv => FailedStartLeavesNothing
  BY DEF LInv, TypeOK, FailPhase, Quiet, FailedStartLeavesNothing
<1> QED
  BY <1>1, LInit, LStep, PTL DEF Spec

(* The sync loop never writes to a catalog that Stop has closed. *)
THEOREM SyncMeetsOpenCatalog == Spec => []SyncBeforeClose
<1>1. LInv => SyncBeforeClose
  BY DEF LInv, TypeOK, StartPhase, FailPhase, StopPhase, Both, SyncBeforeClose
<1> QED
  BY <1>1, LInit, LStep, PTL DEF Spec

(* What the queue had accepted before it was stopped is settled when the process  *)
(* ends, however it ends.                                                      *)
THEOREM FlushesSettledAtEnd == Spec => []QueuedFlushesSettled
<1>1. LInv => QueuedFlushesSettled
  BY DEF LInv, FailPhase, StopPhase, Queueing, Quiet, Ended, QueuedFlushesSettled
<1> QED
  BY <1>1, LInit, LStep, PTL DEF Spec
=============================================================================
