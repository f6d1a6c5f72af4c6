-------------------------- MODULE GatewayLifecycle --------------------------
(***************************************************************************)
(* Start and Stop of the process: gateway/gateway.go, gateway/bucket.go and  *)
(* cmd/s3gw/main.go, against the requests its mounts serve meanwhile.  The    *)
(* write-back queue is the abstract UploadPool it implements; every flush     *)
(* that a mount serves is an upload.                                        *)
(***************************************************************************)
EXTENDS Naturals

CONSTANTS
  Mounts,    \* how many buckets are configured; mount b is the b-th of them
  Upload,    \* flushes that the applications may ask for
  MayBeBusy  \* may the kernel refuse to unmount

ASSUME MountsAssumption == Mounts \in Nat \ {0}
ASSUME ModeAssumption == MayBeBusy \in BOOLEAN

Mount == 1..Mounts

VARIABLES
  main,     \* where Start or Stop is
  next,     \* the mount it is at
  mounted,  \* the mounts that serve requests
  waiters,  \* the mounts whose Wait goroutine is running
  sync,     \* the loop of the sync manager: "off", "running", "stopping", "stopped"
  open,     \* the databases in use: "catalog", "cache"
  evictor,  \* has the evictor's stopCh been closed
  queue,    \* is there a write-back queue
  \* the variables of the pool of uploads
  status, copies, gate, late

components == <<mounted, waiters, sync, open, evictor>>
poolVars == <<queue, status, copies, gate, late>>
vars == <<main, next, components, poolVars>>

Pool == INSTANCE UploadPool

Ended == main \in {"failed", "panicked"}

Init ==
  /\ main = "openCache"
  /\ next = 1
  /\ mounted = {}
  /\ waiters = {}
  /\ sync = "off"
  /\ open = {}
  /\ evictor = FALSE
  /\ queue \in BOOLEAN
  /\ Pool!Init

Goto(from, to) == main = from /\ main' = to

-----------------------------------------------------------------------------
(* Start opens the cache and the catalog, starts the queue and mounts the     *)
(* buckets one after the other.                                             *)

OpenCache ==
  /\ Goto("openCache", "openCatalog")
  /\ open' = {"cache"}
  /\ UNCHANGED <<next, mounted, waiters, sync, evictor, poolVars>>

OpenCatalog ==
  /\ Goto("openCatalog", "mounting")
  /\ open' = open \union {"catalog"}
  /\ UNCHANGED <<next, mounted, waiters, sync, evictor, poolVars>>

OpenFails ==
  /\ Goto("openCache", "failed") \/ Goto("openCatalog", "closeCache")
  /\ UNCHANGED <<next, components, poolVars>>

MountNext ==
  /\ main = "mounting"
  /\ next <= Mounts
  /\ mounted' = mounted \union {next}
  /\ waiters' = waiters \union {next}
  /\ next' = next + 1
  /\ UNCHANGED <<main, sync, open, evictor, poolVars>>

(* When one fails those before it are unmounted, the last one first. *)
MountFails ==
  /\ next <= Mounts
  /\ Goto("mounting", "undoing")
  /\ next' = next - 1
  /\ UNCHANGED <<components, poolVars>>

Started ==
  /\ next > Mounts
  /\ Goto("mounting", "serving")
  /\ sync' = "running"
  /\ UNCHANGED <<next, mounted, waiters, open, evictor, poolVars>>

-----------------------------------------------------------------------------
(* BucketMount.Stop, of mount next: nothing when there is no server; when the *)
(* kernel refuses to unmount it is logged, and the mount goes on serving.     *)

Unmounting == main \in {"undoing", "unmounting"} /\ next > 0

StopMount ==
  /\ Unmounting
  /\ next \in mounted
  /\ mounted' = mounted \ {next}
  /\ next' = next - 1
  /\ UNCHANGED <<main, waiters, sync, open, evictor, poolVars>>

StopMountFails ==
  /\ Unmounting
  /\ next \notin mounted \/ MayBeBusy
  /\ next' = next - 1
  /\ UNCHANGED <<main, components, poolVars>>

(* An administrator unmounts the file system. *)
Detached(b) ==
  /\ ~Ended
  /\ b \in mounted
  /\ mounted' = mounted \ {b}
  /\ UNCHANGED <<main, next, waiters, sync, open, evictor, poolVars>>

(* Mutant: the goroutine returns without wg.Done. *)
WaiterNotDone(b) ==
  /\ ~Ended
  /\ b \in waiters \ mounted
  /\ UNCHANGED vars

(* server.Wait returns in the goroutine that Start made. *)
WaiterReturns(b) ==
  /\ ~Ended
  /\ b \in waiters \ mounted
  /\ waiters' = waiters \ {b}
  /\ UNCHANGED <<main, next, mounted, sync, open, evictor, poolVars>>

-----------------------------------------------------------------------------
(* The rest of a failed Start: wg.Wait, then the queue, the catalog and the    *)
(* cache are stopped.                                                       *)

(* Mutant: the failed Start does not wait. *)
NotWaited ==
  /\ next = 0
  /\ Goto("undoing", "stopQueue")
  /\ UNCHANGED <<next, components, poolVars>>

Waited ==
  /\ next = 0
  /\ waiters = {}
  /\ Goto("undoing", "stopQueue")
  /\ UNCHANGED <<next, components, poolVars>>

(* Stop begins with the catalog: the sync loop ends its pass, then the store   *)
(* is closed.                                                               *)
Signal ==
  /\ Goto("serving", "stopCatalog")
  /\ UNCHANGED <<next, components, poolVars>>

StopSync ==
  /\ main = "stopCatalog"
  /\ sync \in {"off", "running"}
  /\ sync' = IF sync = "running" THEN "stopping" ELSE "stopped"
  /\ UNCHANGED <<main, next, mounted, waiters, open, evictor, poolVars>>

(* Mutant: the loop does not look at stopCh. *)
SyncLoopGoesOn ==
  /\ ~Ended
  /\ sync = "stopping"
  /\ UNCHANGED vars

SyncLoopReturns ==
  /\ ~Ended
  /\ sync = "stopping"
  /\ sync' = "stopped"
  /\ UNCHANGED <<main, next, mounted, waiters, open, evictor, poolVars>>

(* Is this the Stop after a failed Start? *)
Failing == next = 0 /\ ~evictor

(* Mutant: Stop does not wait for the sync loop. *)
CatalogClosedEarly ==
  /\ sync \in {"stopping", "stopped"}
  /\ Goto("stopCatalog", IF Failing THEN "closeCache" ELSE "stopQueue")
  /\ open' = open \ {"catalog"}
  /\ UNCHANGED <<next, mounted, waiters, sync, evictor, poolVars>>

CatalogCloses ==
  /\ sync = "stopped"
  /\ Goto("stopCatalog", IF Failing THEN "closeCache" ELSE "stopQueue")
  /\ open' = open \ {"catalog"}
  /\ UNCHANGED <<next, mounted, waiters, sync, evictor, poolVars>>

AfterQueue == IF Failing THEN "stopCatalog" ELSE "stopEvictor"

NoQueue ==
  /\ ~queue
  /\ Goto("stopQueue", AfterQueue)
  /\ UNCHANGED <<next, components, poolVars>>

BeginStopQueue ==
  /\ queue
  /\ main = "stopQueue"
  /\ Pool!BeginClose
  /\ UNCHANGED <<main, next, components, queue>>

(* Mutant: Stop closes the channel and does not wait for the workers. *)
QueueNotWaited ==
  /\ gate = "closing"
  /\ Goto("stopQueue", AfterQueue)
  /\ UNCHANGED <<next, components, poolVars>>

QueueStopped ==
  /\ Pool!Close
  /\ Goto("stopQueue", AfterQueue)
  /\ UNCHANGED <<next, components, queue>>

StopEvictor ==
  /\ Goto("stopEvictor", "unmounting")
  /\ evictor' = TRUE
  /\ next' = Mounts
  /\ UNCHANGED <<mounted, waiters, sync, open, poolVars>>

AllStopped ==
  /\ next = 0
  /\ Goto("unmounting", "closeCache")
  /\ UNCHANGED <<next, components, poolVars>>

(* Manager.Close stops the evictor: a second close of stopCh panics. *)
CacheCloses ==
  /\ ~evictor
  /\ Goto("closeCache", "failed")
  /\ evictor' = TRUE
  /\ open' = open \ {"cache"}
  /\ UNCHANGED <<next, mounted, waiters, sync, poolVars>>

CachePanics ==
  /\ evictor
  /\ Goto("closeCache", "panicked")
  /\ UNCHANGED <<next, components, poolVars>>

-----------------------------------------------------------------------------
(* A mount serves a flush as long as it is mounted.                          *)

FlushQueued(u) ==
  /\ queue /\ ~Ended /\ mounted # {}
  /\ Pool!Accept(u)
  /\ UNCHANGED <<main, next, components, queue>>

FlushDirect(u) ==
  /\ ~Ended /\ mounted # {}
  /\ Pool!Refuse(u)
  /\ UNCHANGED <<main, next, components, queue>>

QueueWorks(u) ==
  /\ ~Ended
  /\ Pool!Land(u) \/ Pool!Finish(u) \/ Pool!Abandon(u)
  /\ UNCHANGED <<main, next, components, queue>>

-----------------------------------------------------------------------------

Starting == OpenCache \/ OpenCatalog \/ OpenFails \/ MountNext \/ MountFails
            \/ Started \/ Waited

Stopping ==
  \/ StopMount \/ StopMountFails \/ AllStopped
  \/ StopSync \/ CatalogCloses \/ NoQueue \/ BeginStopQueue \/ QueueStopped
  \/ StopEvictor \/ CacheCloses \/ CachePanics

Next ==
  \/ Starting \/ Stopping \/ Signal \/ SyncLoopReturns
  \/ \E b \in Mount : Detached(b) \/ WaiterReturns(b)
  \/ \E u \in Upload : FlushQueued(u) \/ FlushDirect(u) \/ QueueWorks(u)

(* The goroutines of the process run; a sync pass ends, and an upload is       *)
(* settled, because every S3 request is assumed to end (the client sets no      *)
(* timeout).  Nothing obliges anyone to signal, unmount or flush.            *)
Spec ==
  /\ Init /\ [][Next]_vars
  /\ WF_vars(Starting \/ Stopping)
  /\ WF_vars(SyncLoopReturns)
  /\ \A b \in Mount : WF_vars(WaiterReturns(b))
  /\ \A u \in Upload : WF_vars(QueueWorks(u))

-----------------------------------------------------------------------------
(* Properties.                                                             *)

TypeOK ==
  /\ main \in {"openCache", "openCatalog", "mounting", "undoing", "serving",
               "stopCatalog", "stopQueue", "stopEvictor", "unmounting",
               "closeCache", "failed", "panicked"}
  /\ next \in 0..(Mounts + 1)
  /\ mounted \subseteq waiters /\ waiters \subseteq Mount
  /\ sync \in {"off", "running", "stopping", "stopped"}
  /\ open \subseteq {"catalog", "cache"}
  /\ {evictor, queue} \subseteq BOOLEAN
  /\ status \in [Upload -> Pool!Status]
  /\ copies \in [Upload -> SUBSET {"staging", "bucket"}]
  /\ gate \in {"open", "closing", "closed"}
  /\ late \subseteq Upload

(* A Start that returns an error leaves nothing behind: no mount serves, no    *)
(* Wait goroutine is left, both databases are closed, and what was flushed      *)
(* meanwhile is settled.                                                     *)
FailedStartLeavesNothing ==
  main = "failed" =>
    /\ mounted = {} /\ waiters = {} /\ open = {}
    /\ \A u \in Upload : status[u] # "pending"

(* The sync loop never meets a closed catalog: SyncManager.Stop waits for it.   *)
SyncBeforeClose == sync \in {"running", "stopping"} => "catalog" \in open

(* What a flush had handed to the queue before it was told to stop has been    *)
(* uploaded, or given up after its retries, when the process ends.  One that   *)
(* comes between the stop of the queue and the unmount is late.               *)
QueuedFlushesSettled ==
  Ended => \A u \in Upload : status[u] = "pending" => u \in late

(* A failed Start returns unless a mount that the kernel refused to unmount    *)
(* stays: it waits for the goroutines in Wait and for nothing else.           *)
StartReturns ==
  <>[](mounted = {}) => (main = "undoing") ~> (main = "failed")

(* Stop comes to its end, even when mounts are busy: BucketMount.Stop waits    *)
(* for a server only after it was unmounted.                                 *)
StopReturns == (main = "stopCatalog") ~> Ended

(* The process ends with the database of the cache closed. *)
CacheClosedAtEnd == Ended => "cache" \notin open

=============================================================================
