----------------------------- MODULE WritePath ------------------------------
(***************************************************************************)
(* The way of a file's bytes from an open handle to the bucket             *)
(* (fuse/handle.go, and Create and Unlink of fuse/dir.go), composed with    *)
(* the upload queue of WriteBackQueue.  The cache and the catalog are       *)
(* reduced to what they hold for a key; CacheManager has the cache's steps.  *)
(*                                                                         *)
(* Every flush of a dirty handle, every unlink and every write by another   *)
(* writer of the bucket is an operation with the next number in log, and     *)
(* the bucket, the cache and the catalog refer to what they hold by that      *)
(* number.  h.mu lets one operation at a time work on a handle; the steps    *)
(* of operations of different handles, of the workers and of unlinks         *)
(* interleave.                                                             *)
(***************************************************************************)
EXTENDS Integers, SequencesExt

CONSTANTS
  Key,         \* object keys of one bucket
  Chunk,       \* the data of a Write
  Handle,      \* open handles
  Dir,         \* requests that unlink
  MaxOps,      \* bound on the number of operations
  UseQueue,    \* write_back.enabled
  SoleWriter,  \* sole_writer of the bucket
  Faults,      \* what may fail: "s3" requests, operations on local "file"s (the
               \* cache is among them), transactions of the "catalog"
  Worker, QueueSize, MaxRetries, Nil

Op == 1..MaxOps

ASSUME ModeAssumption == /\ {UseQueue, SoleWriter} \subseteq BOOLEAN
                         /\ Faults \subseteq {"s3", "file", "catalog"}
                         /\ MaxOps \in Nat
ASSUME QueueAssumption == /\ Worker # {} /\ IsFiniteSet(Worker)
                          /\ QueueSize \in Nat \ {0}
                          /\ MaxRetries \in Nat
                          /\ Nil \notin Op

VARIABLES
  log,      \* history: the operations, in the order they began
  s3,       \* the last operation to change each object, 0 for none
  cache,    \* the cached version of each key with its ETag, or Nil
  catalog,  \* the catalog's entry for each key with its ETag, or Nil
  handle,   \* the open handles
  unlink,   \* the unlinks: where each is and its operation
  direct,   \* history: operations that changed the bucket, uploads by workers apart
  acked,    \* history: operations reported as done
  rejected, \* history: operations reported as failed
  \* the variables of the queue
  stopCh, stopper, jobs, pc, draining, job, attempt, staging,
  outcome, stored, tries, late

stores == <<s3, cache, catalog>>
fates  == <<direct, acked, rejected>>
queue  == <<stopCh, stopper, jobs, pc, draining, job, attempt, staging,
            outcome, stored, tries, late>>
vars == <<log, stores, handle, unlink, fates, queue>>

Queue == INSTANCE WriteBackQueue WITH Upload <- Op, Routable <- Op, None <- Nil

Landed == direct \union stored

(* "" is the ETag of an object the bucket has not confirmed. *)
NoTag == 0

(* Is there no object: was the last operation on it none, or a delete? *)
Absent(k) == s3[k] \notin {n \in DOMAIN log : log[n].kind = "put"}

(* Does a lookup of the name find it: in the catalog, or else in the bucket? *)
Known(k) == catalog[k] # Nil \/ ~Absent(k)

(* A handle: where its operation is, the data in its temporary file, the      *)
(* operation of its flush or the version its read fetches, and, as history,    *)
(* the data written since it was opened.                                     *)
Closed == [at |-> "closed", key |-> Nil, tmp |-> {}, dirty |-> FALSE,
           cur |-> 0, wrote |-> {}]

Init ==
  /\ log = <<>>
  /\ s3 = [k \in Key |-> 0]
  /\ cache = [k \in Key |-> Nil]
  /\ catalog = [k \in Key |-> Nil]
  /\ handle = [h \in Handle |-> Closed]
  /\ unlink = [d \in Dir |-> [at |-> "idle", op |-> 0]]
  /\ direct = {}
  /\ acked = {}
  /\ rejected = {}
  /\ Queue!Init

-----------------------------------------------------------------------------
(* Operations and what they do to the stores. *)

(* The operation knows which operations had been reported done before it. *)
Begin(kind, k, data) ==
  /\ Len(log) < MaxOps
  /\ log' = Append(log, [kind |-> kind, key |-> k, data |-> data, before |-> acked])

Land(n) ==
  /\ s3' = [s3 EXCEPT ![log[n].key] = n]
  /\ direct' = direct \union {n}

(* Manager.Put moves the data into place and then records it.  Its callers    *)
(* only log that it failed: the cache is as it was, or has the new data under  *)
(* the old ETag.                                                             *)
CachePut(n, tag) ==
  LET k == log[n].key IN
  \/ cache' = [cache EXCEPT ![k] = [ver |-> n, tag |-> tag]]
  \/ "file" \in Faults /\ UNCHANGED cache
  \/ "file" \in Faults /\ cache[k] # Nil /\ cache' = [cache EXCEPT ![k].ver = n]

(* Nobody looks at the error of the catalog's Put. *)
CatalogPut(k, n, tag) ==
  \/ catalog' = [catalog EXCEPT ![k] = [ver |-> n, tag |-> tag]]
  \/ "catalog" \in Faults /\ UNCHANGED catalog

-----------------------------------------------------------------------------
(* Handles. *)

OpenAs(h, k, dirty) ==
  /\ handle[h].at = "closed"
  /\ handle' = [handle EXCEPT ![h] = [Closed EXCEPT !.at = "idle", !.key = k, !.dirty = dirty]]
  /\ UNCHANGED <<log, s3, cache, unlink, fates, queue>>

(* FileNode.Open: a fresh, empty temporary file. *)
Open(h, k) == Known(k) /\ OpenAs(h, k, FALSE) /\ UNCHANGED catalog

(* DirNode.Create: the handle is dirty from the start and the catalog lists  *)
(* an empty object.                                                          *)
Create(h, k) == catalog[k] = Nil /\ OpenAs(h, k, TRUE) /\ CatalogPut(k, 0, NoTag)

Write(h, c) ==
  /\ handle[h].at = "idle"
  /\ handle' = [handle EXCEPT ![h].tmp = @ \union {c}, ![h].wrote = @ \union {c},
                              ![h].dirty = TRUE]
  /\ UNCHANGED <<log, stores, unlink, fates, queue>>

Release(h) ==
  /\ handle[h].at \in {"idle", "broken"}
  /\ handle' = [handle EXCEPT ![h] = Closed]
  /\ UNCHANGED <<log, stores, unlink, fates, queue>>

-----------------------------------------------------------------------------
(* Flush and Fsync.  A clean handle has nothing to do.  In write-back mode    *)
(* the temporary file is renamed to a staging file and replaced by an empty   *)
(* one; when the rename fails the upload is synchronous.                     *)

Flush(h, next, rest) ==
  /\ handle[h].at = "idle"
  /\ handle[h].dirty
  /\ Begin("put", handle[h].key, handle[h].tmp)
  /\ handle' = [handle EXCEPT ![h].at = next, ![h].cur = Len(log) + 1, ![h].tmp = rest]
  /\ UNCHANGED <<stores, unlink, fates, queue>>

FlushSync(h) == ~UseQueue /\ Flush(h, "put", handle[h].tmp)

FlushStaged(h) == UseQueue /\ Flush(h, "catalog", {})

FlushRenameFails(h) == UseQueue /\ "file" \in Faults /\ Flush(h, "put", handle[h].tmp)

(* No new temporary file can be made (the staging file is then removed), or   *)
(* the old one cannot be opened again: the handle is of no more use.          *)
FlushLosesFile(h) ==
  /\ UseQueue
  /\ "file" \in Faults
  /\ handle[h].at = "idle"
  /\ handle[h].dirty
  /\ handle' = [handle EXCEPT ![h].at = "broken", ![h].tmp = {}]
  /\ UNCHANGED <<log, stores, unlink, fates, queue>>

(* The handle goes on from one step of its operation to the next; when the         *)
(* operation is over nothing of it is left.                                    *)
Step(h, from, to) ==
  /\ handle[h].at \in from
  /\ handle' = [handle EXCEPT ![h].at = to, ![h].cur = IF to = "idle" THEN 0 ELSE @]

StagedCatalog(h) ==
  /\ Step(h, {"catalog"}, "cache")
  /\ CatalogPut(handle[h].key, handle[h].cur, NoTag)
  /\ UNCHANGED <<log, s3, cache, unlink, fates, queue>>

StagedCache(h) ==
  /\ Step(h, {"cache"}, "submit")
  /\ CachePut(handle[h].cur, NoTag)
  /\ UNCHANGED <<log, s3, catalog, unlink, fates, queue>>

(* The flush is over: it returns 0, or EIO. *)
Acknowledge(h) == acked' = acked \union {handle[h].cur} /\ UNCHANGED rejected
Reject(h)      == rejected' = rejected \union {handle[h].cur} /\ UNCHANGED acked

(* The handle is clean, and its flush goes on to next. *)
Clean(h, from, next) ==
  /\ handle[h].at = from
  /\ handle' = [handle EXCEPT ![h].at = next, ![h].dirty = FALSE,
                              ![h].cur = IF next = "idle" THEN 0 ELSE @]

Submitted(h) ==
  /\ Clean(h, "submit", "idle")
  /\ Queue!Accept(handle[h].cur)
  /\ Acknowledge(h)
  /\ UNCHANGED <<log, stores, unlink, direct>>

(* Mutant: the error of Submit is dropped. *)
SubmitUnchecked(h) ==
  /\ Clean(h, "submit", "idle")
  /\ Queue!Refuse(handle[h].cur)
  /\ Acknowledge(h)
  /\ UNCHANGED <<log, stores, unlink, direct>>

(* The queue is full: the handle, clean already, uploads the staging file     *)
(* itself (syncUploadFromPath).                                              *)
QueueFull(h) ==
  /\ Clean(h, "submit", "fput")
  /\ Queue!Refuse(handle[h].cur)
  /\ UNCHANGED <<log, stores, unlink, fates>>

(* Mutant: the PUT goes on in the background after the flush has returned. *)
PutLandsLate(h) ==
  /\ \/ Step(h, {"put"}, "ack") /\ Land(handle[h].cur)
     \/ \E n \in acked : log[n].kind = "put" /\ Land(n) /\ UNCHANGED handle
  /\ UNCHANGED <<log, cache, catalog, unlink, acked, rejected, queue>>

PutLands(h) ==
  /\ Step(h, {"put"}, "ack") \/ Step(h, {"fput"}, "fack")
  /\ Land(handle[h].cur)
  /\ UNCHANGED <<log, cache, catalog, unlink, acked, rejected, queue>>

(* Mutant: the error of PutObject is not looked at. *)
PutUnchecked(h) ==
  /\ "s3" \in Faults
  /\ Step(h, {"put"}, "ack")
  /\ UNCHANGED <<log, stores, unlink, fates, queue>>

(* Mutant: the handle is clean after a failed PUT. *)
PutFailsClean(h) ==
  /\ "s3" \in Faults
  /\ Clean(h, "put", "idle")
  /\ Reject(h)
  /\ UNCHANGED <<log, stores, unlink, direct, queue>>

(* Mutant: the error is logged, and the flush goes on. *)
PutFailsNoReturn(h) ==
  /\ "s3" \in Faults
  /\ Step(h, {"put", "ack"}, "ack")
  /\ Reject(h)
  /\ UNCHANGED <<log, stores, unlink, direct, queue>>

(* The PUT fails, or its answer is lost.  A synchronous flush leaves the      *)
(* handle dirty, with its data.                                              *)
PutFails(h) ==
  /\ "s3" \in Faults
  /\ Step(h, {"put", "fput", "ack", "fack"}, "idle")
  /\ Reject(h)
  /\ UNCHANGED <<log, stores, unlink, direct, queue>>

FallbackDone(h) ==
  /\ Step(h, {"fack"}, "idle")
  /\ Acknowledge(h)
  /\ UNCHANGED <<log, stores, unlink, direct, queue>>

(* Mutant: the copy of the temporary file goes into the cache before the PUT. *)
SyncCacheEarly(h) ==
  /\ Step(h, {"put"}, "put") \/ Step(h, {"ack"}, "record")
  /\ CachePut(handle[h].cur, handle[h].cur)
  /\ UNCHANGED <<log, s3, catalog, unlink, fates, queue>>

SyncCache(h) ==
  /\ Step(h, {"ack"}, "record")
  /\ CachePut(handle[h].cur, handle[h].cur)
  /\ UNCHANGED <<log, s3, catalog, unlink, fates, queue>>

SyncDone(h) ==
  /\ Clean(h, "record", "idle")
  /\ CatalogPut(handle[h].key, handle[h].cur, handle[h].cur)
  /\ Acknowledge(h)
  /\ UNCHANGED <<log, s3, cache, unlink, direct, queue>>

-----------------------------------------------------------------------------
(* Read.  A read that is served from the temporary file or from the cache     *)
(* changes nothing here; one that is not downloads the object into the cache. *)
(* Concurrent downloads of a key are one (singleflight).                     *)

(* The ETag an expired entry is compared with: the catalog's, or S3's. *)
RemoteTag(k) ==
  IF catalog[k] # Nil /\ catalog[k].tag # NoTag THEN catalog[k].tag
  ELSE IF Absent(k) THEN NoTag ELSE s3[k]

(* May the object have to be downloaded?  The sole writer's cached entry is    *)
(* valid whatever its age; another's may have expired (at any time), and then  *)
(* serves if its ETag is the remote one.  A cached file may be unreadable.     *)
NeedsFetch(k) ==
  \/ cache[k] = Nil
  \/ "file" \in Faults
  \/ ~SoleWriter /\ cache[k] # Nil /\ (RemoteTag(k) = NoTag \/ RemoteTag(k) # cache[k].tag)

FetchStart(h) ==
  /\ Step(h, {"idle"}, "get")
  /\ ~handle[h].dirty
  /\ NeedsFetch(handle[h].key)
  /\ \A g \in Handle : handle[g].key = handle[h].key => handle[g].at \notin {"get", "fill"}
  /\ UNCHANGED <<log, stores, unlink, fates, queue>>

FetchGet(h) ==
  /\ handle[h].at = "get"
  /\ ~Absent(handle[h].key)
  /\ handle' = [handle EXCEPT ![h].at = "fill", ![h].cur = s3[handle[h].key]]
  /\ UNCHANGED <<log, stores, unlink, fates, queue>>

FetchFails(h) ==
  /\ Step(h, {"get"}, "idle")
  /\ Absent(handle[h].key) \/ "s3" \in Faults
  /\ UNCHANGED <<log, stores, unlink, fates, queue>>

(* The download is put into the cache whole. *)
FetchFill(h) ==
  /\ Step(h, {"fill"}, "idle")
  /\ CachePut(handle[h].cur, handle[h].cur)
  /\ UNCHANGED <<log, s3, catalog, unlink, fates, queue>>

(* The evictor may take any cached file at any time. *)
Evict(k) ==
  /\ cache[k] # Nil
  /\ cache' = [cache EXCEPT ![k] = Nil]
  /\ UNCHANGED <<log, s3, catalog, handle, unlink, fates, queue>>

-----------------------------------------------------------------------------
(* Unlink: the object, then the cache's entry, then the catalog's. *)

Unlink(d, k) ==
  /\ unlink[d].at = "idle"
  /\ Known(k)
  /\ Begin("delete", k, {})
  /\ unlink' = [unlink EXCEPT ![d] = [at |-> "delete", op |-> Len(log) + 1]]
  /\ UNCHANGED <<stores, handle, fates, queue>>

UnlinkStep(d, from, to) ==
  /\ unlink[d].at \in from
  /\ unlink' = [unlink EXCEPT ![d].at = to, ![d].op = IF to = "idle" THEN 0 ELSE @]
  /\ UNCHANGED <<log, handle, queue>>

Target(d) == log[unlink[d].op].key

DeleteLands(d) ==
  /\ UnlinkStep(d, {"delete"}, "invalidate")
  /\ Land(unlink[d].op)
  /\ UNCHANGED <<cache, catalog, acked, rejected>>

DeleteFails(d) ==
  /\ "s3" \in Faults
  /\ UnlinkStep(d, {"delete", "invalidate"}, "idle")
  /\ rejected' = rejected \union {unlink[d].op}
  /\ UNCHANGED <<stores, direct, acked>>

(* Invalidate removes the file and its entry; one without the other is not served. *)
UnlinkCache(d) ==
  /\ UnlinkStep(d, {"invalidate"}, "forget")
  /\ cache' = [cache EXCEPT ![Target(d)] = Nil]
  /\ UNCHANGED <<s3, catalog, fates>>

(* The error of the catalog's Delete is not looked at. *)
UnlinkCatalog(d) ==
  /\ UnlinkStep(d, {"forget"}, "idle")
  /\ \/ catalog' = [catalog EXCEPT ![Target(d)] = Nil]
     \/ "catalog" \in Faults /\ UNCHANGED catalog
  /\ acked' = acked \union {unlink[d].op}
  /\ UNCHANGED <<s3, cache, direct, rejected>>

-----------------------------------------------------------------------------
(* The queue's workers and Stop, and the bucket's other writers. *)

WorkerPutLands(w) ==
  /\ Queue!PutLands(w)
  /\ s3' = [s3 EXCEPT ![log[job[w]].key] = job[w]]
  /\ UNCHANGED <<log, cache, catalog, handle, unlink, fates>>

WorkerFails(w) == "s3" \in Faults /\ (Queue!UploadFails(w) \/ Queue!Exhausts(w))

WorkerMoves(w) ==
  /\ \/ Queue!Receive(w) \/ Queue!NoticeStop(w) \/ Queue!Drained(w)
     \/ Queue!UploadSucceeds(w) \/ WorkerFails(w)
     \/ Queue!BackoffElapsed(w) \/ Queue!BackoffAborted(w)
  /\ UNCHANGED <<log, stores, handle, unlink, fates>>

StopQueue ==
  /\ UseQueue
  /\ Queue!BeginStop \/ Queue!StopReturns
  /\ UNCHANGED <<log, stores, handle, unlink, fates>>

OtherWriterPuts(k) ==
  LET n == Len(log) + 1 IN
  /\ ~SoleWriter
  /\ Begin("put", k, {})
  /\ s3' = [s3 EXCEPT ![k] = n]
  /\ direct' = direct \union {n}
  /\ acked' = acked \union {n}
  /\ UNCHANGED <<cache, catalog, handle, unlink, rejected, queue>>

-----------------------------------------------------------------------------

HandleStep(h) ==
  \/ \E k \in Key : Open(h, k) \/ Create(h, k)
  \/ \E c \in Chunk : Write(h, c)
  \/ Release(h)
  \/ FlushSync(h) \/ FlushStaged(h) \/ FlushRenameFails(h) \/ FlushLosesFile(h)
  \/ StagedCatalog(h) \/ StagedCache(h) \/ Submitted(h) \/ QueueFull(h)
  \/ PutLands(h) \/ PutFails(h) \/ FallbackDone(h) \/ SyncCache(h) \/ SyncDone(h)
  \/ FetchStart(h) \/ FetchGet(h) \/ FetchFails(h) \/ FetchFill(h)

DirStep(d) ==
  \/ \E k \in Key : Unlink(d, k)
  \/ DeleteLands(d) \/ DeleteFails(d) \/ UnlinkCache(d) \/ UnlinkCatalog(d)

Next ==
  \/ \E h \in Handle : HandleStep(h)
  \/ \E d \in Dir : DirStep(d)
  \/ \E k \in Key : Evict(k) \/ OtherWriterPuts(k)
  \/ \E w \in Worker : WorkerPutLands(w) \/ WorkerMoves(w)
  \/ StopQueue

Spec == Init /\ [][Next]_vars

-----------------------------------------------------------------------------
(* Properties.                                                             *)

Version == [ver : 0..MaxOps, tag : 0..MaxOps]

TypeOK ==
  /\ log \in Seq([kind : {"put", "delete"}, key : Key, data : SUBSET Chunk,
                  before : SUBSET Op])
  /\ Len(log) <= MaxOps
  /\ s3 \in [Key -> 0..Len(log)]
  /\ cache \in [Key -> Version \union {Nil}]
  /\ catalog \in [Key -> Version \union {Nil}]
  /\ handle \in [Handle ->
       [at : {"closed", "idle", "catalog", "cache", "submit", "put", "ack", "record",
              "fput", "fack", "get", "fill", "broken"},
        key : Key \union {Nil}, tmp : SUBSET Chunk, dirty : BOOLEAN,
        cur : 0..Len(log), wrote : SUBSET Chunk]]
  /\ unlink \in [Dir -> [at : {"idle", "delete", "invalidate", "forget"}, op : 0..Len(log)]]
  /\ direct \subseteq Op /\ acked \subseteq Op /\ rejected \subseteq Op
  /\ acked \intersect rejected = {}
  /\ Queue!TypeOK

(* What the application was told is done has changed the bucket: the          *)
(* write-through guarantee of Flush and Unlink.                              *)
AckedInS3 == acked \subseteq Landed

(* The weaker one of write-back mode: the data of an acknowledged flush has   *)
(* reached the bucket or is in a staging file, whatever was refused by the     *)
(* full queue, retried, given up or stopped.                                 *)
AckedSomewhere == acked \subseteq Landed \union staging

(* A clean handle has saved its file: one acknowledged flush holds everything  *)
(* that was written through the handle.                                      *)
CleanMeansSaved ==
  \A h \in Handle :
    handle[h].at = "idle" /\ ~handle[h].dirty /\ handle[h].wrote # {} =>
      \E n \in acked : log[n].key = handle[h].key /\ log[n].data = handle[h].wrote

(* The bucket never goes back: an operation that was reported done before     *)
(* another one began does not change the object after it.                    *)
RealTimeOrder ==
  [][\A k \in Key : s3'[k] # s3[k] =>
       \A m \in Landed : log[m].key = k => s3'[k] \notin log[m].before]_vars

(* What comes through a queue with one worker keeps its order, retries and    *)
(* uploads past the queue notwithstanding: no worker changes an object after   *)
(* the upload of a flush that began when the worker's was acknowledged.       *)
QueueKeepsOrder ==
  [][Cardinality(Worker) = 1 =>
       \A k \in Key : s3'[k] # s3[k] =>
         \A m \in stored : log[m].key = k => s3'[k] \notin log[m].before]_vars

(* The cache holds nothing the bucket has not had or is not about to have:    *)
(* after a rejected write its data is not served.                            *)
CacheFromBucket ==
  \A k \in Key : cache[k] # Nil /\ cache[k].ver \in rejected => cache[k].ver \in Landed

(* With one writer and nothing under way, what is cached is what the bucket   *)
(* has, unless the bucket has a write whose answer was lost.                 *)
Quiet(k) ==
  /\ \A h \in Handle : handle[h].key = k => handle[h].at \in {"idle", "broken"}
  /\ \A d \in Dir : unlink[d].at = "idle"
  /\ \A n \in DOMAIN log : log[n].key = k => outcome[n] # "pending"

CacheCurrent ==
  SoleWriter =>
    \A k \in Key :
      Quiet(k) /\ cache[k] # Nil => cache[k].ver = s3[k] \/ s3[k] \in rejected

=============================================================================
