---------------------------- MODULE CacheManager ----------------------------
(***************************************************************************)
(* The local cache: cache/manager.go with the disk store (store.go), the   *)
(* BoltDB metadata (metadata.go) and the evictor (evictor.go).             *)
(*                                                                         *)
(* A file and its metadata entry are two stores, written one after the      *)
(* other.  The callers' operations hold m.mu; the evictor's rounds, the      *)
(* ticker's and those TriggerEviction starts, do not.  Every access to a     *)
(* store is a step of its own (a rename, an unlink, one Bolt transaction).   *)
(*                                                                         *)
(* An entry is represented by the content it was written for, which fixes    *)
(* its ETag and its size; the LastAccessed times by the order they give.     *)
(***************************************************************************)
EXTENDS Integers, FiniteSets, SequencesExt

CONSTANTS
  Key,         \* <bucket>/<key>
  Content,     \* what an object may hold
  Size,        \* bytes of each content
  MaxSize,     \* max_cache_size
  BatchLimit,  \* the argument of ListByLastAccessed (100 in the code)
  Caller,      \* FUSE requests inside the manager
  Ticker,      \* the evictor goroutine of Start
  Triggered,   \* slots for goroutines of TriggerEviction (bounds their number)
  Faults,      \* may Bolt transactions and removals fail, and the process crash
  Nil

ASSUME SizeAssumption == Size \in [Content -> Nat]
ASSUME MaxSizeAssumption == MaxSize \in Nat \ {0}
ASSUME BatchLimitAssumption == BatchLimit \in Nat \ {0}
ASSUME NilAssumption == Nil \notin Content /\ Nil \notin Key /\ Nil \notin Caller
ASSUME EvictorAssumption == Ticker \notin Triggered
ASSUME FaultsAssumption == Faults \in BOOLEAN

Evictor == {Ticker} \union Triggered

VARIABLES
  disk,     \* the file of each key, or Nil
  meta,     \* the metadata entry of each key, or Nil
  lru,      \* the keys with an entry, least recently accessed first
  writer,   \* who holds m.mu for writing, or Nil
  readers,  \* who holds it for reading
  pc,       \* where each caller is
  arg,      \* the key it works on
  new,      \* the content it is putting
  epc,      \* where each evictor goroutine is
  total,    \* its local variable total
  batch,    \* the rest of its list of entries
  stopped,  \* has evictor.Stop returned
  torn      \* history: keys whose last PutFile has no PutMeta (yet, or at all)

callerVars  == <<pc, arg, new>>
evictorVars == <<epc, total, batch>>
vars == <<disk, meta, lru, writer, readers, callerVars, evictorVars, stopped, torn>>

HighWater  == (MaxSize * 9) \div 10
TargetMark == (MaxSize * 8) \div 10

Listed == {k \in Key : meta[k] # Nil}

(* The sum of the entries' sizes, as the number of the bytes they name. *)
BytesOf(k) == {k} \X (1..Size[meta[k]])
TotalSize == Cardinality(UNION {BytesOf(k) : k \in Listed})

Init ==
  /\ disk = [k \in Key |-> Nil]
  /\ meta = [k \in Key |-> Nil]
  /\ lru = <<>>
  /\ writer = Nil
  /\ readers = {}
  /\ pc = [p \in Caller |-> "idle"]
  /\ arg = [p \in Caller |-> Nil]
  /\ new = [p \in Caller |-> Nil]
  /\ epc = [e \in Evictor |-> "idle"]
  /\ total = [e \in Evictor |-> 0]
  /\ batch = [e \in Evictor |-> <<>>]
  /\ stopped = FALSE
  /\ torn = {}

-----------------------------------------------------------------------------
(* The metadata store.  Put and Touch make the entry the latest accessed.   *)

(* Mutant: an overwritten entry keeps its old place as well. *)
MetaPutAppends(k, c) ==
  /\ meta' = [meta EXCEPT ![k] = c]
  /\ lru' = Append(lru, k)

MetaPut(k, c) ==
  /\ meta' = [meta EXCEPT ![k] = c]
  /\ lru' = Append(RemoveFirst(lru, k), k)

MetaDelete(k) ==
  /\ meta' = [meta EXCEPT ![k] = Nil]
  /\ lru' = RemoveFirst(lru, k)

MetaTouch(k) ==
  /\ lru' = IF meta[k] = Nil THEN lru ELSE Append(RemoveFirst(lru, k), k)
  /\ UNCHANGED meta

-----------------------------------------------------------------------------
(* m.mu *)

MayAlways == TRUE  \* mutant: no lock is taken

MayRead  == writer = Nil
MayWrite == writer = Nil /\ readers = {}

Go(p, label) == pc' = [pc EXCEPT ![p] = label]

Return(p) ==
  /\ Go(p, "idle")
  /\ arg' = [arg EXCEPT ![p] = Nil]
  /\ new' = [new EXCEPT ![p] = Nil]

RUnlock(p) == readers' = readers \ {p} /\ UNCHANGED writer
Unlock == writer' = Nil /\ UNCHANGED readers

-----------------------------------------------------------------------------
(* Get.  A miss at once changes nothing.                                    *)

GetEntry(p, k) ==
  /\ pc[p] = "idle"
  /\ MayRead
  /\ meta[k] # Nil
  /\ readers' = readers \union {p}
  /\ Go(p, "exists")
  /\ arg' = [arg EXCEPT ![p] = k]
  /\ UNCHANGED <<disk, meta, lru, writer, new, evictorVars, stopped, torn>>

(* The file is there: the entry is touched when it is valid (within its TTL, *)
(* or the bucket has a sole writer), and returned as it is when it is not.   *)
GetFound(p) ==
  /\ pc[p] = "exists"
  /\ disk[arg[p]] # Nil
  /\ \/ Go(p, "touch") /\ UNCHANGED <<readers, writer, arg, new>>
     \/ Return(p) /\ RUnlock(p)
  /\ UNCHANGED <<disk, meta, lru, evictorVars, stopped, torn>>

(* Mutant: the read lock is released before the entry is deleted. *)
GetMissingUnlocks(p) ==
  /\ pc[p] = "exists"
  /\ disk[arg[p]] = Nil
  /\ Go(p, "purge")
  /\ RUnlock(p)
  /\ UNCHANGED <<disk, meta, lru, arg, new, evictorVars, stopped, torn>>

GetMissing(p) ==
  /\ pc[p] = "exists"
  /\ disk[arg[p]] = Nil
  /\ Go(p, "purge")
  /\ UNCHANGED <<disk, meta, lru, writer, readers, arg, new, evictorVars, stopped, torn>>

(* The entry without a file is deleted, still under the read lock.  An error of    *)
(* this, or of the touch, is not looked at.                                   *)
GetPurge(p) ==
  /\ pc[p] = "purge"
  /\ MetaDelete(arg[p]) \/ (Faults /\ UNCHANGED <<meta, lru>>)
  /\ Return(p)
  /\ RUnlock(p)
  /\ UNCHANGED <<disk, evictorVars, stopped, torn>>

GetTouch(p) ==
  /\ pc[p] = "touch"
  /\ MetaTouch(arg[p]) \/ (Faults /\ UNCHANGED <<meta, lru>>)
  /\ Return(p)
  /\ RUnlock(p)
  /\ UNCHANGED <<disk, evictorVars, stopped, torn>>

(* Manager.Touch, which a handle calls when S3 still has the entry's ETag,   *)
(* takes no lock.                                                            *)
Touch(k) ==
  /\ meta[k] # Nil
  /\ MetaTouch(k)
  /\ UNCHANGED <<disk, writer, readers, callerVars, evictorVars, stopped, torn>>

-----------------------------------------------------------------------------
(* Put: the file first, by rename, then the entry.  A failing write leaves   *)
(* everything as it was.                                                     *)

PutFile(p, k, c) ==
  /\ pc[p] = "idle"
  /\ MayWrite
  /\ writer' = p
  /\ disk' = [disk EXCEPT ![k] = c]
  /\ torn' = torn \union {k}
  /\ Go(p, "putMeta")
  /\ arg' = [arg EXCEPT ![p] = k]
  /\ new' = [new EXCEPT ![p] = c]
  /\ UNCHANGED <<meta, lru, readers, evictorVars, stopped>>

PutMeta(p) ==
  /\ pc[p] = "putMeta"
  /\ MetaPut(arg[p], new[p])
  /\ torn' = torn \ {arg[p]}
  /\ Go(p, "putCheck")
  /\ UNCHANGED <<disk, writer, readers, arg, new, evictorVars, stopped>>

PutMetaFails(p) ==
  /\ Faults
  /\ pc[p] = "putMeta"
  /\ Return(p)
  /\ Unlock
  /\ UNCHANGED <<disk, meta, lru, evictorVars, stopped, torn>>

(* TriggerEviction starts a goroutine, stopped evictor or not. *)
PutCheck(p) ==
  /\ pc[p] = "putCheck"
  /\ IF TotalSize > HighWater /\ \E e \in Triggered : epc[e] = "idle"
     THEN \E e \in Triggered : epc[e] = "idle" /\ epc' = [epc EXCEPT ![e] = "total"]
     ELSE UNCHANGED epc
  /\ Return(p)
  /\ Unlock
  /\ UNCHANGED <<disk, meta, lru, total, batch, stopped, torn>>

-----------------------------------------------------------------------------
(* Invalidate: the file first (its error is ignored), then the entry.        *)

InvalidateFile(p, k) ==
  /\ pc[p] = "idle"
  /\ MayWrite
  /\ writer' = p
  /\ disk' = [disk EXCEPT ![k] = Nil] \/ (Faults /\ UNCHANGED disk)
  /\ Go(p, "invMeta")
  /\ arg' = [arg EXCEPT ![p] = k]
  /\ UNCHANGED <<meta, lru, readers, new, evictorVars, stopped, torn>>

InvalidateMeta(p) ==
  /\ pc[p] = "invMeta"
  /\ MetaDelete(arg[p])
  /\ Return(p)
  /\ Unlock
  /\ UNCHANGED <<disk, evictorVars, stopped, torn>>

InvalidateMetaFails(p) ==
  /\ Faults
  /\ pc[p] = "invMeta"
  /\ Return(p)
  /\ Unlock
  /\ UNCHANGED <<disk, meta, lru, evictorVars, stopped, torn>>

-----------------------------------------------------------------------------
(* evictOnce, in the ticker's goroutine or a triggered one.                  *)

EGo(e, label) == epc' = [epc EXCEPT ![e] = label]

Tick ==
  /\ epc[Ticker] = "idle"
  /\ ~stopped
  /\ EGo(Ticker, "total")
  /\ UNCHANGED <<disk, meta, lru, writer, readers, callerVars, total, batch, stopped, torn>>

EvictTotal(e) ==
  /\ epc[e] = "total"
  /\ IF TotalSize <= HighWater
     THEN EGo(e, "idle") /\ UNCHANGED total
     ELSE EGo(e, "list") /\ total' = [total EXCEPT ![e] = TotalSize]
  /\ UNCHANGED <<disk, meta, lru, writer, readers, callerVars, batch, stopped, torn>>

(* A snapshot of the oldest entries, with the sizes they have now. *)
EvictList(e) ==
  /\ epc[e] = "list"
  /\ batch' = [batch EXCEPT ![e] =
                 [i \in 1..(IF Len(lru) < BatchLimit THEN Len(lru) ELSE BatchLimit) |->
                    [key |-> lru[i], size |-> Size[meta[lru[i]]]]]]
  /\ EGo(e, "file")
  /\ UNCHANGED <<disk, meta, lru, writer, readers, callerVars, total, stopped, torn>>

(* Mutant: the loop of evictOnce tests the wrong side of the mark. *)
MoreToEvictInverted(e) == batch[e] # <<>> /\ total[e] <= TargetMark

MoreToEvict(e) == batch[e] # <<>> /\ total[e] > TargetMark

EvictEnd(e) ==
  /\ epc[e] = "file"
  /\ ~MoreToEvict(e)
  /\ EGo(e, "idle")
  /\ batch' = [batch EXCEPT ![e] = <<>>]
  /\ total' = [total EXCEPT ![e] = 0]
  /\ UNCHANGED <<disk, meta, lru, writer, readers, callerVars, stopped, torn>>

(* Removing a file that is not there is an error, as is a removal that fails,    *)
(* and the loop continues with the next entry.                                *)
EvictSkip(e) ==
  /\ epc[e] = "file"
  /\ MoreToEvict(e)
  /\ disk[Head(batch[e]).key] = Nil \/ Faults
  /\ batch' = [batch EXCEPT ![e] = Tail(@)]
  /\ UNCHANGED <<disk, meta, lru, writer, readers, callerVars, epc, total, stopped, torn>>

EvictFile(e) ==
  /\ epc[e] = "file"
  /\ MoreToEvict(e)
  /\ disk[Head(batch[e]).key] # Nil
  /\ disk' = [disk EXCEPT ![Head(batch[e]).key] = Nil]
  /\ EGo(e, "row")
  /\ UNCHANGED <<meta, lru, writer, readers, callerVars, total, batch, stopped, torn>>

EvictRow(e) ==
  /\ epc[e] = "row"
  /\ MetaDelete(Head(batch[e]).key)
  /\ total' = [total EXCEPT ![e] = @ - Head(batch[e]).size]
  /\ batch' = [batch EXCEPT ![e] = Tail(@)]
  /\ EGo(e, "file")
  /\ UNCHANGED <<disk, writer, readers, callerVars, stopped, torn>>

EvictRowFails(e) ==
  /\ Faults
  /\ epc[e] = "row"
  /\ batch' = [batch EXCEPT ![e] = Tail(@)]
  /\ EGo(e, "file")
  /\ UNCHANGED <<disk, meta, lru, writer, readers, callerVars, total, stopped, torn>>

(* StopEvictor waits for the ticker's goroutine, and for no other. *)
StopEvictor ==
  /\ ~stopped
  /\ epc[Ticker] = "idle"
  /\ stopped' = TRUE
  /\ UNCHANGED <<disk, meta, lru, writer, readers, callerVars, evictorVars, torn>>

(* A crash and a restart: both stores are on disk and stay as they are. *)
Crash ==
  /\ Faults
  /\ writer' = Nil
  /\ readers' = {}
  /\ pc' = [p \in Caller |-> "idle"]
  /\ arg' = [p \in Caller |-> Nil]
  /\ new' = [p \in Caller |-> Nil]
  /\ epc' = [e \in Evictor |-> "idle"]
  /\ total' = [e \in Evictor |-> 0]
  /\ batch' = [e \in Evictor |-> <<>>]
  /\ stopped' = FALSE
  /\ UNCHANGED <<disk, meta, lru, torn>>

-----------------------------------------------------------------------------

CallerStep(p) ==
  \/ GetFound(p) \/ GetMissing(p) \/ GetPurge(p) \/ GetTouch(p)
  \/ PutMeta(p) \/ PutMetaFails(p) \/ PutCheck(p)
  \/ InvalidateMeta(p) \/ InvalidateMetaFails(p)

CallerStart(p) ==
  \E k \in Key :
    \/ GetEntry(p, k)
    \/ \E c \in Content : PutFile(p, k, c)
    \/ InvalidateFile(p, k)

EvictStep(e) ==
  \/ EvictTotal(e) \/ EvictList(e) \/ EvictEnd(e) \/ EvictSkip(e)
  \/ EvictFile(e) \/ EvictRow(e) \/ EvictRowFails(e)

Next ==
  \/ \E p \in Caller : CallerStart(p) \/ CallerStep(p)
  \/ \E k \in Key : Touch(k)
  \/ Tick
  \/ \E e \in Evictor : EvictStep(e)
  \/ StopEvictor
  \/ Crash

(* Goroutines are scheduled and the ticker ticks while the evictor runs.     *)
(* Nothing obliges a caller to begin an operation.                           *)
Fairness ==
  /\ WF_vars(Tick)
  /\ \A e \in Evictor : WF_vars(EvictStep(e))
  /\ \A p \in Caller : WF_vars(CallerStep(p))

Spec == Init /\ [][Next]_vars /\ Fairness

-----------------------------------------------------------------------------
(* Properties.                                                             *)

(* Types, and the order of access lists exactly the keys with an entry. *)
TypeOK ==
  /\ disk \in [Key -> Content \union {Nil}]
  /\ meta \in [Key -> Content \union {Nil}]
  /\ lru \in Seq(Key) /\ IsInjective(lru) /\ ToSet(lru) = Listed
  /\ writer \in Caller \union {Nil}
  /\ readers \in SUBSET Caller
  /\ pc \in [Caller -> {"idle", "exists", "purge", "touch",
                        "putMeta", "putCheck", "invMeta"}]
  /\ arg \in [Caller -> Key \union {Nil}]
  /\ new \in [Caller -> Content \union {Nil}]
  /\ epc \in [Evictor -> {"idle", "total", "list", "file", "row"}]
  /\ total \in [Evictor -> Int]
  /\ batch \in [Evictor -> Seq([key : Key, size : Nat])]
  /\ stopped \in BOOLEAN
  /\ torn \in SUBSET Key

(* An entry describes the file beside it, whatever Puts, Invalidates, Gets   *)
(* and unlocked evictions overlap; the exception is a Put whose metadata      *)
(* transaction failed or was cut off by a crash.  The ETag of a stale entry   *)
(* would let a revalidation serve the wrong bytes (Put, manager.go:92-110).   *)
TagMatches ==
  \A k \in Key \ torn :
    meta[k] # Nil /\ disk[k] # Nil => meta[k] = disk[k]

(* Get deletes an entry only while its file is missing (manager.go:70-73):   *)
(* the read lock it still holds keeps a Put of the key out.                  *)
PurgeOnlyPhantoms ==
  [][\A p \in Caller : GetPurge(p) => disk[arg[p]] = Nil]_vars

(* When Puts, crashes and failing removals cease, the evictor still runs and      *)
(* every entry has its file, the metadata's total comes back under the high-water mark.  An   *)
(* entry that an eviction in the middle of a Put left without its file is      *)
(* skipped in every round and counted until a Get of the key purges it.       *)
Overfull == TotalSize > HighWater
Phantom  == \E k \in Key : meta[k] # Nil /\ disk[k] = Nil
Disturb  == \/ Crash
            \/ \E p \in Caller, k \in Key, c \in Content : PutFile(p, k, c)
            \/ \E e \in Evictor : EvictSkip(e) /\ disk[Head(batch[e]).key] # Nil

EvictionCatchesUp ==
  <>[][~Disturb]_vars => []<>(~Overfull \/ Phantom \/ stopped)

=============================================================================
