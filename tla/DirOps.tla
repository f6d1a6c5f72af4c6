------------------------------- MODULE DirOps -------------------------------
(***************************************************************************)
(* The directory operations of fuse/dir.go on the bucket and the catalog:    *)
(* Lookup with its fall back to S3, Create, Mkdir, Unlink, Rmdir and Rename,  *)
(* among the flushes of handles, which write the bucket and the catalog too.    *)
(*                                                                         *)
(* A request to S3 takes effect in one step, and so does a call of the         *)
(* catalog: Catalog has its steps.  What the caches in front of the table do   *)
(* to a lookup is that it may miss a name the table has.  Of a flush there are   *)
(* the steps that touch the bucket or the table, in the order of each mode;      *)
(* WritePath has the others.  A name has a key as a file and a key as a           *)
(* directory; what no object can have is Nil.                                 *)
(***************************************************************************)
EXTENDS Namespace, Naturals

CONSTANTS
  Path,       \* names: the key each has as a file, and as a directory
  Made,       \* the directories that mkdir and rmdir are called for
  Edited,     \* the files that are opened for writing, one handle at a time each
  Request,    \* concurrent requests
  MaxWrites,  \* bound on the number of PUTs of files
  Faults,     \* may requests and transactions fail?
  Nil

ASSUME DirOpsAssumption ==
  /\ Path \subseteq (File \union {Nil}) \X ((Dir \ {Root}) \union {Nil})
  /\ Made \subseteq Dir \ {Root}
  /\ Edited \subseteq File
  /\ Nil \notin File \union Dir \union Request
  /\ Faults \in BOOLEAN
  /\ MaxWrites \in Nat \ {0}

VARIABLES
  bucket,   \* the version of each object, 0 for none; markers are all alike
  rows,     \* the names in the catalog's table
  flight,   \* the request that asks S3 for each name (s3SF), or Nil
  req,
  handle,   \* the handle of each edited file
  queued,   \* files with a staging file that is to be uploaded
  writes,   \* the number of PUTs so far
  gone,     \* history: versions that were overwritten or unlinked
  excused   \* history: files removed while their row was on its way, or whose row
            \* was left because a step failed, until it goes

vars == <<bucket, rows, flight, req, handle, queued, writes, gone, excused>>
handles == <<handle, queued, writes>>
history == <<gone, excused>>

Objects(b) == {n \in Name : b[n] # 0}
Contents(b, d) == IF d = Nil THEN {} ELSE Listing(Objects(b), d)

(* Files, and directories with something in them. *)
Alive(b) == {n \in Name : IF n \in File THEN b[n] # 0 ELSE Contents(b, n) # {}}

(* The request's name (or source) f and d, target g, listing and answer; the      *)
(* version it copied; and, as history, which of f and d were alive all the time.     *)
Idle == [at |-> "idle", f |-> Nil, d |-> Nil, g |-> Nil, page |-> {}, res |-> "none",
         ver |-> 0, kept |-> {}]

Init ==
  /\ bucket = [n \in Name |-> 0]
  /\ rows = {}
  /\ flight = [p \in Path |-> Nil]
  /\ req = [r \in Request |-> Idle]
  /\ handle = [f \in Edited |-> "closed"]
  /\ queued = {}
  /\ writes = 0
  /\ gone = {} /\ excused = {}

Go(r, from, next) ==
  /\ req[r].at = from
  /\ req' = [req EXCEPT ![r] = next]

To(r, at) == [req[r] EXCEPT !.at = at]

(* The row of f is on its way: a lookup has found f, or a flush has uploaded it. *)
InHand(f) ==
  \/ f \in Edited /\ handle[f] = "landed"
  \/ \E r \in Request :
       \/ f \in req[r].page
       \/ req[r].at \in {"land", "put"} /\ req[r].res = "file" /\ req[r].f = f

(* A step that should have put f's object, or dropped its row, will never come. *)
Excuse(f) == excused' = IF bucket[f] = 0 THEN excused \union {f} ELSE excused

(* catalog.Put and PutBatch, whose error is at most logged, and the deletes. *)
Put(names)    == rows' = rows \union names \/ (Faults /\ UNCHANGED rows)
Delete(names) == /\ rows' = rows \ names
                 /\ excused' = {f \in excused : f \in names => InHand(f)}

(* The bucket changes to b under request r, whose state is next. *)
Change(b, r, next) ==
  /\ bucket' = b
  /\ req' = [q \in Request |->
               LET now == IF q = r THEN next ELSE req[q] IN
               [now EXCEPT !.kept = @ \intersect Alive(b)]]
  /\ excused' = {f \in File : b[f] = 0 /\ (f \in excused \/ (bucket[f] # 0 /\ InHand(f)))}

-----------------------------------------------------------------------------
(* Lookup asks the catalog for the directory, for a row in it and for the file.   *)
(* Catalog.Lookup changes nothing: a name that is found ends the request, and one  *)
(* that is not may be in the table all the same, for the negative cache may have    *)
(* it.  No cache answers HasDir.                                              *)

Lookup(r, p) ==
  /\ Go(r, "idle", [Idle EXCEPT !.at = "has", !.f = p[1], !.d = p[2],
                               !.kept = Alive(bucket) \intersect {p[1], p[2]}])
  /\ UNCHANGED <<bucket, rows, flight, handles, history>>

(* Mutant: what the catalog has not does not exist. *)
HasDirOnly(r) ==
  /\ req[r].at = "has"
  /\ req' = [req EXCEPT ![r].at = "land", ![r].res = "missing"]
  /\ flight' = [flight EXCEPT ![<<req[r].f, req[r].d>>] = r]
  /\ UNCHANGED <<bucket, rows, handles, history>>

HasDir(r) ==
  /\ Go(r, "has", IF req[r].d # Nil /\ Children(rows, req[r].d) # {} THEN Idle ELSE To(r, "fly"))
  /\ UNCHANGED <<bucket, rows, flight, handles, history>>

(* Then it asks S3, once for all requests that look for the name. *)
PathOf(r) == <<req[r].f, req[r].d>>

Lead(r) ==
  /\ Go(r, "fly", To(r, "list"))
  /\ flight[PathOf(r)] = Nil
  /\ flight' = [flight EXCEPT ![PathOf(r)] = r]
  /\ UNCHANGED <<bucket, rows, handles, history>>

Join(r) ==
  /\ Go(r, "fly", To(r, "wait"))
  /\ flight[PathOf(r)] # Nil
  /\ UNCHANGED <<bucket, rows, flight, handles, history>>

(* Mutant: the marker counts as content. *)
ListS3Marker(r) ==
  LET page == Contents(bucket, req[r].d)
      empty == page = {} /\ (req[r].d = Nil \/ bucket[req[r].d] = 0) IN
  /\ Go(r, "list", [req[r] EXCEPT !.at = IF empty THEN "head" ELSE "ingest", !.page = page])
  /\ UNCHANGED <<bucket, rows, flight, handles, history>>

ListS3(r) ==
  LET page == Contents(bucket, req[r].d) IN
  /\ Go(r, "list", [req[r] EXCEPT !.at = IF page = {} THEN "head" ELSE "ingest", !.page = page])
  /\ UNCHANGED <<bucket, rows, flight, handles, history>>

Land(r, from, res) == Go(r, from, [req[r] EXCEPT !.at = "land", !.page = {}, !.res = res])

(* ingestListResult. *)
Ingest(r) ==
  /\ Land(r, "ingest", "dir")
  /\ Put(req[r].page)
  /\ UNCHANGED <<bucket, flight, handles, history>>

HeadS3(r) ==
  /\ Land(r, "head", IF req[r].f # Nil /\ bucket[req[r].f] # 0 THEN "file" ELSE "missing")
  /\ UNCHANGED <<bucket, rows, flight, handles, history>>

LookupFails(r) ==
  /\ Faults
  /\ Land(r, "list", "error") \/ Land(r, "head", "error")
  /\ UNCHANGED <<bucket, rows, flight, handles, history>>

(* Everyone who waits gets the answer. *)
Answer(r) ==
  /\ req[r].at = "land"
  /\ flight' = [flight EXCEPT ![PathOf(r)] = Nil]
  /\ req' = [q \in Request |->
       IF q # r /\ (req[q].at # "wait" \/ PathOf(q) # PathOf(r)) THEN req[q]
       ELSE IF req[r].res = "file" THEN [req[q] EXCEPT !.at = "put", !.res = "file"]
       ELSE Idle]
  /\ UNCHANGED <<bucket, rows, handles, history>>

PutFound(r) ==
  /\ Go(r, "put", Idle)
  /\ Put({req[r].f})
  /\ UNCHANGED <<bucket, flight, handles, history>>

-----------------------------------------------------------------------------
(* The operations that change a directory.  The kernel holds its lock for        *)
(* them, and for rmdir that of the victim too; lookups that revalidate a name      *)
(* hold none.                                                                *)

Locked(r) ==
  LET q == req[r] IN
  CASE q.at \in {"source", "clear", "target"} -> {Parent[q.f], Parent[q.g]}
    [] q.at = "forget" -> {Parent[q.f]}
    [] q.at = "mkrow" -> {Parent[q.d]}
    [] q.at \in {"rmdir", "prune"} -> {q.d, Parent[q.d]}
    [] OTHER -> {}

Free(dirs) == \A r \in Request : Locked(r) \intersect dirs = {}

(* Create opens a handle, dirty from the start, and puts the row; the object comes    *)
(* with its flush.                                                           *)
Create(r, f) ==
  /\ req[r].at = "idle"
  /\ Free({Parent[f]})
  /\ handle[f] = "closed"
  /\ handle' = [handle EXCEPT ![f] = "dirty"]
  /\ Put({f})
  /\ UNCHANGED <<bucket, flight, req, queued, writes, history>>

(* Each of the others begins with its first request to S3; one that fails there   *)
(* has done nothing, and is left out.                                         *)
Mkdir(r, d) ==
  /\ req[r].at = "idle"
  /\ Free({Parent[d]})
  /\ Change([bucket EXCEPT ![d] = 1], r, [Idle EXCEPT !.at = "mkrow", !.d = d])
  /\ UNCHANGED <<rows, flight, handles, gone>>

MkdirRow(r) ==
  /\ Go(r, "mkrow", Idle)
  /\ Put({req[r].d})
  /\ UNCHANGED <<bucket, flight, handles, history>>

Unlink(r, f) ==
  /\ req[r].at = "idle"
  /\ Free({Parent[f]})
  /\ Change([bucket EXCEPT ![f] = 0], r, [Idle EXCEPT !.at = "forget", !.f = f])
  /\ gone' = gone \union ({bucket[f]} \ {0})
  /\ UNCHANGED <<rows, flight, handles>>

UnlinkRow(r) ==
  /\ Go(r, "forget", Idle)
  /\ Delete({req[r].f})
  /\ UNCHANGED <<bucket, flight, handles, gone>>

(* Rmdir: the directory is listed, and if that is empty its marker deleted and    *)
(* with DeletePrefix its rows.                                                *)
RmdirBegin(r, d) ==
  /\ req[r].at = "idle"
  /\ Free({d, Parent[d]})
  /\ Contents(bucket, d) = {}
  /\ req' = [req EXCEPT ![r] = [Idle EXCEPT !.at = "rmdir", !.d = d]]
  /\ UNCHANGED <<bucket, rows, flight, handles, history>>

Rmdir(r) ==
  /\ req[r].at = "rmdir"
  /\ Change([bucket EXCEPT ![req[r].d] = 0], r, To(r, "prune"))
  /\ UNCHANGED <<rows, flight, handles, gone>>

RmdirRows(r) ==
  /\ Go(r, "prune", Idle)
  /\ Delete(Like[req[r].d])
  /\ UNCHANGED <<bucket, flight, handles, gone>>

(* Rename copies the object and deletes the source; that the delete failed is     *)
(* only logged.  Then both names leave the catalog.                            *)

(* Mutant: that the copy failed is only logged too. *)
RenameUnchecked(r, f, g) ==
  /\ req[r].at = "idle"
  /\ f # g /\ Free({Parent[f], Parent[g]})
  /\ bucket[f] # 0
  /\ req' = [req EXCEPT ![r] = [Idle EXCEPT !.at = "source", !.f = f, !.g = g, !.ver = bucket[f]]]
  /\ UNCHANGED <<bucket, rows, flight, handles, history>>

Rename(r, f, g) ==
  /\ req[r].at = "idle"
  /\ f # g /\ Free({Parent[f], Parent[g]})
  /\ bucket[f] # 0
  /\ Change([bucket EXCEPT ![g] = bucket[f]], r,
            [Idle EXCEPT !.at = "source", !.f = f, !.g = g, !.ver = bucket[f]])
  /\ gone' = gone \union ({bucket[g]} \ {0})
  /\ UNCHANGED <<rows, flight, handles>>

RenameDelete(r) ==
  LET f == req[r].f IN
  /\ req[r].at = "source"
  /\ Change([bucket EXCEPT ![f] = 0], r, To(r, "clear"))
  /\ gone' = gone \union ({bucket[f]} \ {0, req[r].ver})
  /\ UNCHANGED <<rows, flight, handles>>

RenameDeleteFails(r) ==
  /\ Faults
  /\ Go(r, "source", To(r, "clear"))
  /\ UNCHANGED <<bucket, rows, flight, handles, history>>

RenameSourceRow(r) ==
  /\ Go(r, "clear", To(r, "target"))
  /\ Delete({req[r].f}) \/ (Faults /\ Excuse(req[r].f) /\ UNCHANGED rows)
  /\ UNCHANGED <<bucket, flight, handles, gone>>

RenameTargetRow(r) ==
  /\ Go(r, "target", Idle)
  /\ Delete({req[r].g})
  /\ UNCHANGED <<bucket, flight, handles, gone>>

(* The answer of the last request to S3 is lost, or the next fails, and the       *)
(* operation with it.  That the catalog's Delete failed has the same outcome:      *)
(* nobody looks at its error.                                                 *)
OperationFails(r) ==
  /\ Faults
  /\ req[r].at \in {"mkrow", "forget", "rmdir", "prune", "source", "target"}
  /\ req' = [req EXCEPT ![r] = Idle]
  /\ IF req[r].at = "forget" THEN Excuse(req[r].f) ELSE UNCHANGED excused
  /\ UNCHANGED <<bucket, rows, flight, handles, gone>>

-----------------------------------------------------------------------------
(* Handles, which hold no lock of a directory.                                 *)

HandleGoes(f, from, to) ==
  /\ handle[f] = from
  /\ handle' = [handle EXCEPT ![f] = to]

(* An inode may be opened after its name has gone; that is like a handle that was     *)
(* opened before and kept.                                                   *)
Open(f) ==
  /\ HandleGoes(f, "closed", "clean")
  /\ f \in rows \/ bucket[f] # 0
  /\ UNCHANGED <<bucket, rows, flight, req, queued, writes, history>>

Write(f) ==
  /\ HandleGoes(f, "clean", "dirty")
  /\ UNCHANGED <<bucket, rows, flight, req, queued, writes, history>>

(* A PUT of f reaches the bucket. *)
PutLands(f) ==
  /\ writes < MaxWrites
  /\ writes' = writes + 1
  /\ Change([bucket EXCEPT ![f] = writes + 1], Nil, Nil)
  /\ gone' = gone \union ({bucket[f]} \ {0})
  /\ UNCHANGED <<rows, flight>>

(* syncUpload: the object, and unless the PUT has failed all the same, its row. *)
SyncPut(f) ==
  /\ HandleGoes(f, "dirty", "landed") \/ (Faults /\ HandleGoes(f, "dirty", "dirty"))
  /\ PutLands(f)
  /\ UNCHANGED queued

SyncRow(f) ==
  /\ HandleGoes(f, "landed", "clean")
  /\ Put({f})
  /\ UNCHANGED <<bucket, flight, req, queued, writes, history>>

(* A write-back flush: the row, and then the staging file is for a worker to       *)
(* upload, or when the queue is full for the flush itself.                      *)
StageRow(f) ==
  /\ HandleGoes(f, "dirty", "staged")
  /\ Put({f})
  /\ UNCHANGED <<bucket, flight, req, queued, writes, history>>

(* Mutant: the error of Submit is dropped. *)
SubmitUnchecked(f) ==
  /\ HandleGoes(f, "staged", "clean")
  /\ UNCHANGED <<bucket, rows, flight, req, queued, writes, history>>

Submit(f) ==
  /\ HandleGoes(f, "staged", "clean")
  /\ queued' = queued \union {f}
  /\ UNCHANGED <<bucket, rows, flight, req, writes, history>>

(* It is uploaded; its answer may be lost, and others of the file may be waiting. *)
QueuedPut(f) ==
  /\ f \in queued
  /\ PutLands(f)
  /\ queued' \in {queued, queued \ {f}}
  /\ UNCHANGED handle

(* The workers give up, or the fallback fails. *)
GiveUp(f) ==
  /\ Faults
  /\ f \in queued
  /\ queued' = queued \ {f}
  /\ Excuse(f)
  /\ UNCHANGED <<bucket, rows, flight, req, handle, writes, gone>>

(* Release of a handle, which is dirty still when its flush has failed. *)
Release(f) ==
  /\ \/ HandleGoes(f, "clean", "closed") /\ UNCHANGED excused
     \/ Faults /\ HandleGoes(f, "dirty", "closed") /\ Excuse(f)
  /\ UNCHANGED <<bucket, rows, flight, req, queued, writes, gone>>

-----------------------------------------------------------------------------

HandleStep(f) ==
  \/ Open(f) \/ Write(f) \/ Release(f)
  \/ SyncPut(f) \/ SyncRow(f)
  \/ StageRow(f) \/ Submit(f) \/ QueuedPut(f) \/ GiveUp(f)

LookupStep(r) ==
  \/ HasDir(r) \/ Lead(r) \/ Join(r) \/ ListS3(r) \/ Ingest(r)
  \/ HeadS3(r) \/ LookupFails(r) \/ Answer(r) \/ PutFound(r)

ChangeStep(r) ==
  \/ MkdirRow(r) \/ UnlinkRow(r) \/ Rmdir(r) \/ RmdirRows(r)
  \/ RenameDelete(r) \/ RenameDeleteFails(r) \/ RenameSourceRow(r) \/ RenameTargetRow(r)
  \/ OperationFails(r)

Next ==
  \/ \E r \in Request :
       \/ \E p \in Path : Lookup(r, p)
       \/ \E f \in Edited : Create(r, f)
       \/ \E f \in File : Unlink(r, f) \/ \E g \in File : Rename(r, f, g)
       \/ \E d \in Made : Mkdir(r, d) \/ RmdirBegin(r, d)
       \/ LookupStep(r) \/ ChangeStep(r)
  \/ \E f \in Edited : HandleStep(f)

Spec == Init /\ [][Next]_vars

-----------------------------------------------------------------------------
(* Properties.                                                             *)

TypeOK ==
  /\ bucket \in [Name -> 0..MaxWrites]
  /\ rows \subseteq Name
  /\ flight \in [Path -> Request \union {Nil}]
  /\ req \in [Request -> [at : {"idle", "has", "fly", "wait", "list", "ingest", "head", "land", "put",
                                "mkrow", "forget", "rmdir", "prune", "source", "clear", "target"},
                          f : File \union {Nil}, d : (Dir \ {Root}) \union {Nil}, g : File \union {Nil},
                          page : SUBSET Name,
                          res : {"none", "dir", "file", "missing", "error"},
                          ver : 0..MaxWrites,
                          kept : SUBSET Name]]
  /\ \A r \in Request : req[r].at = "ingest" => req[r].page # {}
  /\ handle \in [Edited -> {"closed", "clean", "dirty", "landed", "staged"}]
  /\ queued \subseteq Edited
  /\ writes \in 0..MaxWrites
  /\ gone \subseteq 0..MaxWrites
  /\ excused \subseteq File

(* Whatever the catalog has lost or got wrong, a lookup that says a name is       *)
(* missing did not miss a file, or a directory with something in it, that was     *)
(* in the bucket all the time the lookup took.  For those who share its answer     *)
(* that is the time of the lookup that asked, which may be before they began.      *)
NoFalseMissing ==
  \A r \in Request :
    req[r].at = "land" /\ req[r].res = "missing" => {req[r].f, req[r].d} \intersect req[r].kept = {}

(* Rename loses no data, whichever of its steps fails: an uploaded version that    *)
(* was not overwritten or unlinked, or written to the source after it was copied,  *)
(* is in the bucket under some name.                                          *)
VersionsKept == \A v \in 1..writes : v \notin gone => \E f \in File : bucket[f] = v

(* The catalog has a file that the bucket has not only while there is a handle to    *)
(* flush or a staging file to upload that will bring the object, or a request that    *)
(* will drop the row.  What else can leave such a row is that the object went while    *)
(* a lookup that had found it, or its flush, was about to put the row, and that an      *)
(* upload or the delete of the row has failed for good.                          *)
RowsHaveObjects ==
  \A f \in rows \intersect File :
    \/ bucket[f] # 0
    \/ f \in Edited /\ handle[f] \in {"dirty", "staged"}
    \/ f \in queued
    \/ \E r \in Request : req[r].at \in {"forget", "clear"} /\ req[r].f = f
    \/ f \in excused

=============================================================================
