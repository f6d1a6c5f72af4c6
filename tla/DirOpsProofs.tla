---------------------------- MODULE DirOpsProofs ----------------------------
(***************************************************************************)
(* The directory operations for any tree, any number of requests, of handles    *)
(* and of uploads: a lookup misses nothing that was there, a rename loses no      *)
(* version, and a file is in the catalog without an object only while something    *)
(* is going to mend that, or because a step failed for good.                    *)
(*                                                                         *)
(* That a rename loses nothing rests on the kernel's locks of directories: two   *)
(* renames that exchange names would each delete the other's copy.             *)
(***************************************************************************)
EXTENDS DirOps, TLAPS

ReqType ==
  [at : {"idle", "has", "fly", "wait", "list", "ingest", "head", "land", "put",
         "mkrow", "forget", "rmdir", "prune", "source", "clear", "target"},
   f : File \union {Nil}, d : (Dir \ {Root}) \union {Nil}, g : File \union {Nil},
   page : SUBSET Name,
   res : {"none", "dir", "file", "missing", "error"},
   ver : 0..MaxWrites,
   kept : SUBSET Name]

(* What a request is about. *)
ReqOK(q) ==
  /\ q.at \in {"has", "fly", "wait", "list", "ingest", "head", "land", "put"} => <<q.f, q.d>> \in Path
  /\ q.at = "ingest" => q.page # {}
  /\ q.at = "put" => q.res = "file"
  /\ q.at = "put" \/ (q.at = "land" /\ q.res = "file") => q.f \in File
  /\ q.at \in {"forget", "source", "clear", "target"} => q.f \in File
  /\ q.at \in {"source", "clear", "target"} => q.g \in File /\ q.g # q.f
  /\ q.at \in {"mkrow", "rmdir", "prune"} => q.d \in Dir \ {Root}

(* What was alive all the time is alive, and a lookup has not passed it by. *)
KeptOK(q) ==
  /\ q.kept \subseteq Alive(bucket)
  /\ q.at = "head" => q.d \notin q.kept
  /\ q.at = "land" /\ q.res = "missing" => {q.f, q.d} \intersect q.kept = {}

(* Until the source is deleted the copy is there, or what overwrote it is known. *)
CopyOK(q) ==
  q.at = "source" => q.ver # 0 /\ (q.ver \in gone \/ bucket[q.g] = q.ver)

Requests == \A r \in Request : ReqOK(req[r]) /\ KeptOK(req[r]) /\ CopyOK(req[r])

Locks == \A r, q \in Request : r # q => Locked(r) \intersect Locked(q) = {}

(* A row that is on its way has its object, unless the object was removed. *)
Hands == \A f \in File : InHand(f) => bucket[f] # 0 \/ f \in excused

(* An object is to come: there is a handle to flush or a staging file to upload. *)
Coming(f) == (f \in Edited /\ handle[f] \in {"dirty", "staged"}) \/ f \in queued

Stage == {"closed", "clean", "dirty", "landed", "staged"}

DInv == TypeOK /\ Requests /\ Locks /\ Hands /\ VersionsKept /\ RowsHaveObjects

-----------------------------------------------------------------------------
(* Names. *)

LEMMA Names ==
  /\ File \subseteq Name /\ Dir \ {Root} \subseteq Name
  /\ Nil \notin Name
  /\ \A f \in File : f \notin Dir /\ Parent[f] \in Dir
  /\ \A d \in Dir \ {Root} : d \notin File /\ Parent[d] \in Dir
BY NamespaceAssumption, DirOpsAssumption DEF Name

(* Only a file's object makes it exist. *)
LEMMA ListedFiles ==
  ASSUME NEW d, NEW f \in File, f \in Contents(bucket, d)
  PROVE  bucket[f] # 0
BY Names DEF Contents, Listing, Children, Existing, Objects

LEMMA ContentsType ==
  ASSUME NEW b, NEW d
  PROVE  Contents(b, d) \subseteq Name
BY DEF Contents, Listing, Children, Existing

LEMMA AliveNames ==
  ASSUME NEW b
  PROVE  /\ Alive(b) \subseteq Name
         /\ \A f \in File : f \in Alive(b) <=> b[f] # 0
         /\ \A d \in Dir \ {Root} : d \in Alive(b) <=> Contents(b, d) # {}
BY Names DEF Alive

-----------------------------------------------------------------------------
(* Locks and rows on their way, as functions of a request. *)

LockedBy(q) ==
  IF q.at \in {"source", "clear", "target"} THEN {Parent[q.f], Parent[q.g]}
  ELSE IF q.at = "forget" THEN {Parent[q.f]}
  ELSE IF q.at = "mkrow" THEN {Parent[q.d]}
  ELSE IF q.at \in {"rmdir", "prune"} THEN {q.d, Parent[q.d]}
  ELSE {}

LEMMA LockedIs ==
  ASSUME NEW r
  PROVE  Locked(r) = LockedBy(req[r]) /\ Locked(r)' = LockedBy(req'[r])
BY DEF Locked, LockedBy

HandOf(q, f) == f \in q.page \/ (q.at \in {"land", "put"} /\ q.res = "file" /\ q.f = f)

LEMMA InHandIs ==
  ASSUME NEW f
  PROVE  /\ InHand(f) <=> (f \in Edited /\ handle[f] = "landed") \/ \E r \in Request : HandOf(req[r], f)
         /\ InHand(f)' <=> (f \in Edited /\ handle'[f] = "landed") \/ \E r \in Request : HandOf(req'[r], f)
BY DEF InHand, HandOf

(* Locks stay apart when a request takes only what is free, or nothing new. *)
LEMMA LocksStay ==
  ASSUME Locks, NEW r \in Request, \A q \in Request \ {r} : LockedBy(req'[q]) = LockedBy(req[q]),
         LockedBy(req'[r]) \subseteq LockedBy(req[r]) \/ Free(LockedBy(req'[r]))
  PROVE  Locks'
<1>1. \A q \in Request \ {r} : LockedBy(req'[r]) \intersect LockedBy(req[q]) = {}
  BY LockedIs DEF Locks, Free
<1> QED
  BY <1>1, LockedIs DEF Locks

-----------------------------------------------------------------------------
(* Steps of one request that leave the bucket alone; the request becomes n. *)

LEMMA RequestStep ==
  ASSUME DInv, NEW r \in Request, NEW n \in ReqType, ReqOK(n), KeptOK(n), CopyOK(n),
         req' = [req EXCEPT ![r] = n], UNCHANGED <<bucket, handles, gone>>,
         flight' \in [Path -> Request \union {Nil}], rows' \subseteq Name,
         excused' \subseteq File, \A f \in excused \ excused' : f \notin rows' /\ ~InHand(f),
         LockedBy(n) \subseteq LockedBy(req[r]) \/ Free(LockedBy(n)),
         \A f \in File : HandOf(n, f) => HandOf(req[r], f) \/ bucket[f] # 0,
         \A f \in rows' \intersect File : f \in rows \/ HandOf(req[r], f),
         req[r].at \in {"forget", "clear"} =>
           \/ n.at \in {"forget", "clear"} /\ n.f = req[r].f
           \/ req[r].f \notin rows' \/ req[r].f \in excused' \/ bucket[req[r].f] # 0
  PROVE  DInv'
<1> USE DEF DInv, handles
<1>1. /\ req' \in [Request -> ReqType]
      /\ req'[r] = n /\ \A q \in Request \ {r} : req'[q] = req[q]
  BY DEF TypeOK, ReqType
<1>2. TypeOK'
  BY <1>1 DEF TypeOK, ReqType, ReqOK
<1>3. Requests'
  BY <1>1 DEF Requests, ReqOK, KeptOK, CopyOK, Alive, Contents, Objects
<1>4. Locks'
  BY <1>1, LocksStay
<1>5. \A f \in File : InHand(f)' => InHand(f) \/ bucket[f] # 0
  BY <1>1, InHandIs
<1>6. Hands'
  BY <1>5 DEF Hands
<1>7. VersionsKept'
  BY DEF VersionsKept
<1>8. RowsHaveObjects'
  <2> SUFFICES ASSUME NEW f \in rows' \intersect File, bucket[f] = 0, ~Coming(f), f \notin excused'
               PROVE  \E q \in Request : req'[q].at \in {"forget", "clear"} /\ req'[q].f = f
    BY DEF RowsHaveObjects, Coming
  <2>1. f \in rows /\ f \notin excused
    BY InHandIs DEF Hands
  <2>2. PICK q \in Request : req[q].at \in {"forget", "clear"} /\ req[q].f = f
    BY <2>1 DEF RowsHaveObjects, Coming
  <2> QED
    BY <1>1, <2>2
<1> QED
  BY <1>2, <1>3, <1>4, <1>6, <1>7, <1>8

LEMMA Typed ==
  ASSUME DInv, NEW r \in Request
  PROVE  /\ req \in [Request -> ReqType] /\ req[r] \in ReqType /\ Idle \in ReqType
         /\ ReqOK(req[r]) /\ KeptOK(req[r]) /\ CopyOK(req[r])
         /\ ReqOK(Idle) /\ KeptOK(Idle) /\ CopyOK(Idle) /\ LockedBy(Idle) = {}
         /\ \A f : ~HandOf(Idle, f)
         /\ flight \in [Path -> Request \union {Nil}] /\ rows \subseteq Name /\ excused \subseteq File
BY DirOpsAssumption DEF DInv, TypeOK, Requests, ReqType, Idle, ReqOK, KeptOK, CopyOK, LockedBy, HandOf

(* The steps of a lookup. *)
LEMMA LookupSteps ==
  ASSUME DInv, NEW r \in Request,
         \/ \E p \in Path : Lookup(r, p)
         \/ HasDir(r) \/ Lead(r) \/ Join(r) \/ ListS3(r) \/ HeadS3(r) \/ LookupFails(r)
  PROVE  DInv'
<1> DEFINE Becomes(n) ==
      /\ req' = [req EXCEPT ![r] = n] /\ ReqOK(n) /\ KeptOK(n) /\ CopyOK(n) /\ LockedBy(n) = {}
      /\ \A f \in File : HandOf(n, f) => HandOf(req[r], f) \/ bucket[f] # 0
      /\ flight' \in [Path -> Request \union {Nil}]
      /\ UNCHANGED <<bucket, rows, handles, history>>
      /\ req[r].at \notin {"forget", "clear"}
<1>1. \E n \in ReqType : Becomes(n)
  <2> USE Typed
  <2>1. ASSUME NEW p \in Path, Lookup(r, p)
        PROVE  \E n \in ReqType : Becomes(n)
    <3> DEFINE n == [Idle EXCEPT !.at = "has", !.f = p[1], !.d = p[2],
                                 !.kept = Alive(bucket) \intersect {p[1], p[2]}]
    <3>1. p[1] \in File \union {Nil} /\ p[2] \in (Dir \ {Root}) \union {Nil} /\ p = <<p[1], p[2]>>
      BY DirOpsAssumption
    <3>2. Alive(bucket) \subseteq Name
      BY AliveNames
    <3>3. n \in ReqType /\ n.page = {} /\ n.at = "has" /\ n.res = "none" /\ n.f = p[1] /\ n.d = p[2]
          /\ n.kept \subseteq Alive(bucket)
      BY <3>1, <3>2, DirOpsAssumption DEF Idle, ReqType
    <3>4. req' = [req EXCEPT ![r] = n] /\ UNCHANGED <<bucket, rows, flight, handles, history>>
          /\ req[r].at = "idle"
      BY <2>1 DEF Lookup, Go
    <3> HIDE DEF n
    <3>5. ReqOK(n) /\ KeptOK(n) /\ CopyOK(n) /\ LockedBy(n) = {} /\ \A f \in File : ~HandOf(n, f)
      BY <3>1, <3>3 DEF ReqOK, KeptOK, CopyOK, LockedBy, HandOf
    <3> QED
      BY <3>3, <3>4, <3>5
  <2>2. ASSUME NEW at \in {"fly", "list", "wait"}, Go(r, "has", To(r, at)) \/ Go(r, "fly", To(r, at)),
               flight' \in [Path -> Request \union {Nil}], UNCHANGED <<bucket, rows, handles, history>>
        PROVE  \E n \in ReqType : Becomes(n)
    <3> DEFINE n == To(r, at)
    <3>1. n = [req[r] EXCEPT !.at = at] /\ req' = [req EXCEPT ![r] = n] /\ req[r].at \in {"has", "fly"}
      BY <2>2 DEF Go, To
    <3>2. n \in ReqType /\ n.at = at /\ n.f = req[r].f /\ n.d = req[r].d /\ n.page = req[r].page
          /\ n.kept = req[r].kept
      BY <3>1 DEF ReqType
    <3> HIDE DEF n
    <3>3. ReqOK(n) /\ KeptOK(n) /\ CopyOK(n) /\ LockedBy(n) = {}
          /\ \A f \in File : HandOf(n, f) => HandOf(req[r], f)
      BY <3>1, <3>2 DEF ReqOK, KeptOK, CopyOK, LockedBy, HandOf
    <3> QED
      BY <2>2, <3>1, <3>2, <3>3
  <2>3. CASE HasDir(r)
    <3>1. CASE Go(r, "has", Idle)
      BY <2>3, <3>1 DEF HasDir, Go
    <3>2. CASE Go(r, "has", To(r, "fly"))
      BY <2>2, <2>3, <3>2 DEF HasDir
    <3> QED
      BY <2>3, <3>1, <3>2 DEF HasDir
  <2>4. CASE Lead(r)
    BY <2>2, <2>4 DEF Lead
  <2>5. CASE Join(r)
    BY <2>2, <2>5 DEF Join
  <2>6. CASE ListS3(r)
    <3> DEFINE page == Contents(bucket, req[r].d)
               n == [req[r] EXCEPT !.at = IF page = {} THEN "head" ELSE "ingest", !.page = page]
    <3>1. page \subseteq Name
      BY ContentsType
    <3>2. req[r].at = "list" /\ req' = [req EXCEPT ![r] = n]
          /\ UNCHANGED <<bucket, rows, flight, handles, history>>
      BY <2>6 DEF ListS3, Go
    <3>3. n \in ReqType /\ n.f = req[r].f /\ n.d = req[r].d /\ n.page = page /\ n.kept = req[r].kept
          /\ (page = {} => n.at = "head") /\ (page # {} => n.at = "ingest")
      BY <3>1 DEF ReqType
    <3>4. page = {} => n.d \notin n.kept
      <4>1. n.d \in Dir \ {Root} => (n.d \in Alive(bucket) <=> page # {})
        BY <3>3, AliveNames
      <4>2. n.kept \subseteq Alive(bucket) /\ n.kept \subseteq Name
        BY <3>3, AliveNames DEF KeptOK
      <4> QED
        BY <3>3, <4>1, <4>2, Names DEF ReqType
    <3>5. \A f \in File : f \in page => bucket[f] # 0
      BY ListedFiles
    <3> HIDE DEF n, page
    <3>6. ReqOK(n) /\ KeptOK(n) /\ CopyOK(n) /\ LockedBy(n) = {}
          /\ \A f \in File : HandOf(n, f) => bucket[f] # 0
      BY <3>2, <3>3, <3>4, <3>5 DEF ReqOK, KeptOK, CopyOK, LockedBy, HandOf
    <3> QED
      BY <3>2, <3>3, <3>6
  <2>7. ASSUME NEW from \in {"list", "head"}, NEW res \in {"file", "missing", "error"}, Land(r, from, res),
               UNCHANGED <<bucket, rows, flight, handles, history>>,
               res = "file" => req[r].f \in File /\ bucket[req[r].f] # 0,
               res = "missing" => from = "head" /\ (req[r].f = Nil \/ bucket[req[r].f] = 0)
        PROVE  \E n \in ReqType : Becomes(n)
    <3> DEFINE n == [req[r] EXCEPT !.at = "land", !.page = {}, !.res = res]
    <3>1. req[r].at = from /\ req' = [req EXCEPT ![r] = n]
      BY <2>7 DEF Land, Go
    <3>2. n \in ReqType /\ n.at = "land" /\ n.f = req[r].f /\ n.d = req[r].d /\ n.page = {}
          /\ n.kept = req[r].kept /\ n.res = res
      BY DEF ReqType
    <3>3. res = "missing" => {n.f, n.d} \intersect n.kept = {}
      <4>1. n.kept \subseteq Alive(bucket) /\ n.kept \subseteq Name
        BY <3>2, AliveNames DEF KeptOK
      <4>2. n.f \in File \union {Nil}
        BY <3>2 DEF ReqType
      <4>3. res = "missing" => n.f \notin n.kept
        BY <2>7, <3>2, <4>1, <4>2, AliveNames, Names
      <4>4. res = "missing" => n.d \notin n.kept
        BY <2>7, <3>1, <3>2 DEF KeptOK
      <4> QED
        BY <4>3, <4>4
    <3> HIDE DEF n
    <3>4. ReqOK(n) /\ KeptOK(n) /\ CopyOK(n) /\ LockedBy(n) = {}
          /\ \A f \in File : HandOf(n, f) => bucket[f] # 0
      BY <2>7, <3>1, <3>2, <3>3 DEF ReqOK, KeptOK, CopyOK, LockedBy, HandOf
    <3> QED
      BY <2>7, <3>1, <3>2, <3>4
  <2>8. CASE HeadS3(r)
    BY <2>7, <2>8 DEF HeadS3, ReqType
  <2>9. CASE LookupFails(r)
    BY <2>7, <2>9 DEF LookupFails
  <2> QED
    BY <2>1, <2>3, <2>4, <2>5, <2>6, <2>8, <2>9
<1>2. PICK n \in ReqType : Becomes(n)
  BY <1>1
<1>3. rows' \subseteq Name /\ excused' \subseteq File
  BY <1>2, Typed DEF history
<1> QED
  BY <1>2, <1>3, RequestStep DEF history

(* A request that ends. *)
LEMMA EndStep ==
  ASSUME DInv, NEW r \in Request, req' = [req EXCEPT ![r] = Idle],
         UNCHANGED <<bucket, flight, handles, gone>>,
         rows' \subseteq Name, excused' \subseteq File,
         \A f \in excused \ excused' : f \notin rows' /\ ~InHand(f),
         \A f \in rows' \intersect File : f \in rows \/ HandOf(req[r], f),
         req[r].at \in {"forget", "clear"} =>
           req[r].f \notin rows' \/ req[r].f \in excused' \/ bucket[req[r].f] # 0
  PROVE  DInv'
<1>1. /\ flight' \in [Path -> Request \union {Nil}] /\ Idle \in ReqType
      /\ ReqOK(Idle) /\ KeptOK(Idle) /\ CopyOK(Idle) /\ LockedBy(Idle) = {}
      /\ \A f : ~HandOf(Idle, f)
  BY Typed
<1> QED
  BY <1>1, RequestStep

(* The steps that write or drop rows. *)
LEMMA RowSteps ==
  ASSUME DInv, NEW r \in Request,
         \/ Ingest(r) \/ PutFound(r) \/ MkdirRow(r) \/ UnlinkRow(r) \/ RmdirRows(r)
         \/ RenameTargetRow(r) \/ OperationFails(r)
  PROVE  DInv'
<1> USE Typed
<1>1. CASE Ingest(r)
  <2> DEFINE n == [req[r] EXCEPT !.at = "land", !.page = {}, !.res = "dir"]
  <2>1. /\ req[r].at = "ingest" /\ req' = [req EXCEPT ![r] = n] /\ UNCHANGED <<bucket, flight, handles, history>>
        /\ rows' \in {rows, rows \union req[r].page}
    BY <1>1 DEF Ingest, Land, Go, Put
  <2>2. n \in ReqType /\ n.at = "land" /\ n.f = req[r].f /\ n.d = req[r].d /\ n.page = {}
        /\ n.kept = req[r].kept /\ n.res = "dir"
    BY DEF ReqType
  <2> HIDE DEF n
  <2>3. ReqOK(n) /\ KeptOK(n) /\ CopyOK(n) /\ LockedBy(n) = {} /\ \A f \in File : ~HandOf(n, f)
    BY <2>1, <2>2 DEF ReqOK, KeptOK, CopyOK, LockedBy, HandOf
  <2>4. rows' \subseteq Name /\ \A f \in rows' : f \in rows \/ HandOf(req[r], f)
    BY <2>1 DEF HandOf, ReqType
  <2> QED
    BY <2>1, <2>2, <2>3, <2>4, RequestStep DEF history
<1>2. CASE PutFound(r)
  <2>1. /\ req[r].at = "put" /\ req' = [req EXCEPT ![r] = Idle] /\ UNCHANGED <<bucket, flight, handles, history>>
        /\ rows' \in {rows, rows \union {req[r].f}} /\ req[r].f \in File /\ req[r].res = "file"
    BY <1>2 DEF PutFound, Go, Put, ReqOK
  <2>2. rows' \subseteq Name /\ \A f \in rows' : f \in rows \/ HandOf(req[r], f)
    BY <2>1, Names DEF HandOf
  <2> QED
    BY <2>1, <2>2, EndStep DEF history
<1>3. CASE MkdirRow(r)
  <2>1. /\ req[r].at = "mkrow" /\ req' = [req EXCEPT ![r] = Idle] /\ UNCHANGED <<bucket, flight, handles, history>>
        /\ rows' \in {rows, rows \union {req[r].d}} /\ req[r].d \in Dir \ {Root}
    BY <1>3 DEF MkdirRow, Go, Put, ReqOK
  <2>2. rows' \subseteq Name /\ \A f \in rows' \intersect File : f \in rows
    BY <2>1, Names
  <2> QED
    BY <2>1, <2>2, EndStep DEF history
<1>4. CASE UnlinkRow(r)
  BY <1>4, EndStep DEF UnlinkRow, Go, Delete
<1>5. CASE RmdirRows(r)
  BY <1>5, EndStep DEF RmdirRows, Go, Delete
<1>6. CASE RenameTargetRow(r)
  BY <1>6, EndStep DEF RenameTargetRow, Go, Delete
<1>7. CASE OperationFails(r)
  <2>1. /\ req' = [req EXCEPT ![r] = Idle] /\ UNCHANGED <<bucket, rows, flight, handles, gone>>
        /\ req[r].at # "clear" /\ (req[r].at = "forget" => req[r].f \in File)
        /\ IF req[r].at = "forget" THEN Excuse(req[r].f) ELSE UNCHANGED excused
    BY <1>7 DEF OperationFails, ReqOK
  <2>2. excused \subseteq excused' /\ excused' \subseteq File
    BY <2>1 DEF Excuse
  <2>3. req[r].at = "forget" => req[r].f \in excused' \/ bucket[req[r].f] # 0
    BY <2>1 DEF Excuse
  <2> QED
    BY <2>1, <2>2, <2>3, EndStep
<1> QED
  BY <1>1, <1>2, <1>3, <1>4, <1>5, <1>6, <1>7

(* What begins or goes on without a request to S3 that succeeds. *)
LEMMA QuietSteps ==
  ASSUME DInv, NEW r \in Request,
         (\E d \in Made : RmdirBegin(r, d)) \/ RenameDeleteFails(r) \/ RenameSourceRow(r)
  PROVE  DInv'
<1> USE Typed
<1>1. ASSUME NEW d \in Made, RmdirBegin(r, d)
      PROVE  DInv'
  <2> DEFINE n == [Idle EXCEPT !.at = "rmdir", !.d = d]
  <2>1. /\ req[r].at = "idle" /\ req' = [req EXCEPT ![r] = n] /\ UNCHANGED <<bucket, rows, flight, handles, history>>
        /\ Free({d, Parent[d]})
    BY <1>1 DEF RmdirBegin
  <2>2. n \in ReqType /\ n.at = "rmdir" /\ n.d = d /\ n.page = {} /\ n.kept = {} /\ d \in Dir \ {Root}
    BY DirOpsAssumption DEF ReqType, Idle
  <2> HIDE DEF n
  <2>3. ReqOK(n) /\ KeptOK(n) /\ CopyOK(n) /\ LockedBy(n) = {d, Parent[d]} /\ \A f \in File : ~HandOf(n, f)
    BY <2>2 DEF ReqOK, KeptOK, CopyOK, LockedBy, HandOf
  <2>4. /\ LockedBy(n) \subseteq LockedBy(req[r]) \/ Free(LockedBy(n))
        /\ flight' \in [Path -> Request \union {Nil}] /\ rows' \subseteq Name /\ excused' \subseteq File
        /\ UNCHANGED <<bucket, handles, gone, excused>>
    BY <2>1, <2>3 DEF history
  <2> QED
    BY <2>1, <2>2, <2>3, <2>4, RequestStep DEF history
<1>2. ASSUME NEW from \in {"source", "clear"}, NEW at \in {"clear", "target"}, Go(r, from, To(r, at)),
             from = "source" => at = "clear",
             UNCHANGED <<bucket, flight, handles, gone>>, rows' \subseteq rows,
             excused' \subseteq File, \A f \in excused \ excused' : f \notin rows' /\ ~InHand(f),
             from = "clear" => req[r].f \notin rows' \/ req[r].f \in excused' \/ bucket[req[r].f] # 0
      PROVE  DInv'
  <2> DEFINE n == To(r, at)
  <2>1. n = [req[r] EXCEPT !.at = at] /\ req' = [req EXCEPT ![r] = n] /\ req[r].at = from
    BY <1>2 DEF Go, To
  <2>2. n \in ReqType /\ n.at = at /\ n.f = req[r].f /\ n.g = req[r].g /\ n.page = req[r].page
        /\ n.kept = req[r].kept
    BY <2>1 DEF ReqType
  <2> HIDE DEF n
  <2>3. /\ ReqOK(n) /\ KeptOK(n) /\ CopyOK(n) /\ LockedBy(n) = LockedBy(req[r])
        /\ \A f \in File : HandOf(n, f) => HandOf(req[r], f)
    BY <2>1, <2>2 DEF ReqOK, KeptOK, CopyOK, LockedBy, HandOf
  <2> QED
    BY <1>2, <2>1, <2>2, <2>3, RequestStep
<1>3. CASE RenameDeleteFails(r)
  BY <1>2, <1>3 DEF RenameDeleteFails, history
<1>4. CASE RenameSourceRow(r)
  <2>1. req[r].f \in File
    BY <1>4 DEF RenameSourceRow, Go, ReqOK
  <2> QED
    BY <1>2, <1>4, <2>1 DEF RenameSourceRow, Delete, Excuse
<1> QED
  BY <1>1, <1>3, <1>4

LEMMA SameBucket ==
  ASSUME UNCHANGED bucket
  PROVE  Alive(bucket)' = Alive(bucket)
BY DEF Alive, Contents, Objects

(* Everyone who waits has the name of the one who asked. *)
LEMMA AnswerStep ==
  ASSUME DInv, NEW r \in Request, Answer(r)
  PROVE  DInv'
<1> USE DEF DInv
<1> DEFINE n(q) == [req[q] EXCEPT !.at = "put", !.res = "file"]
           Told(q) == q = r \/ (req[q].at = "wait" /\ PathOf(q) = PathOf(r))
<1>1. /\ req[r].at = "land" /\ UNCHANGED <<bucket, rows, handles, history>>
      /\ flight' \in [Path -> Request \union {Nil}]
      /\ \A q \in Request : ~Told(q) => req'[q] = req[q]
      /\ \A q \in Request : Told(q) => req'[q] = IF req[r].res = "file" THEN n(q) ELSE Idle
      /\ DOMAIN req' = Request /\ req' = [q \in Request |-> req'[q]]
  BY Typed DEF Answer
<1>2. ASSUME NEW q \in Request
      PROVE  /\ req'[q] \in ReqType /\ ReqOK(req'[q]) /\ KeptOK(req'[q]) /\ CopyOK(req'[q])
             /\ LockedBy(req'[q]) = LockedBy(req[q])
             /\ \A f \in File : HandOf(req'[q], f) => HandOf(req[q], f) \/ HandOf(req[r], f)
             /\ req[q].at \in {"forget", "clear"} => req'[q] = req[q]
  <2>1. CASE ~Told(q)
    BY <1>1, <2>1, Typed
  <2>2. CASE Told(q) /\ req[r].res # "file"
    <3>1. req'[q] = Idle /\ req[q].at \in {"wait", "land"}
      BY <1>1, <2>2
    <3> QED
      BY <3>1, Typed DEF LockedBy
  <2>3. CASE Told(q) /\ req[r].res = "file"
    <3>1. req'[q] = n(q) /\ req[q].at \in {"wait", "land"} /\ req[q].f = req[r].f /\ req[r].f \in File
      BY <1>1, <2>3, Typed DEF PathOf, ReqOK
    <3>2. /\ n(q) \in ReqType /\ n(q).at = "put" /\ n(q).res = "file" /\ n(q).f = req[q].f
          /\ n(q).d = req[q].d /\ n(q).page = req[q].page /\ n(q).kept = req[q].kept
      BY Typed DEF ReqType
    <3> HIDE DEF n
    <3>3. ReqOK(req[q]) /\ KeptOK(req[q])
      BY Typed
    <3>4. ReqOK(n(q)) /\ KeptOK(n(q)) /\ CopyOK(n(q)) /\ LockedBy(n(q)) = {} /\ LockedBy(req[q]) = {}
      BY <3>1, <3>2, <3>3 DEF ReqOK, KeptOK, CopyOK, LockedBy
    <3>5. \A f \in File : HandOf(n(q), f) => HandOf(req[q], f) \/ HandOf(req[r], f)
      BY <1>1, <2>3, <3>1, <3>2 DEF HandOf
    <3> QED
      BY <3>1, <3>2, <3>4, <3>5
  <2> QED
    BY <2>1, <2>2, <2>3
<1> HIDE DEF n, Told
<1>3. TypeOK'
  BY <1>1, <1>2 DEF TypeOK, ReqType, ReqOK, handles, history
<1>4. Requests'
  <2>1. UNCHANGED <<bucket, gone>> /\ Alive(bucket)' = Alive(bucket)
    BY <1>1, SameBucket DEF history
  <2> QED
    BY <1>2, <2>1 DEF Requests, ReqOK, KeptOK, CopyOK
<1>5. Locks'
  BY <1>2, LockedIs DEF Locks
<1>6. Hands'
  BY <1>1, <1>2, InHandIs DEF Hands, handles, history
<1>7. VersionsKept'
  BY <1>1 DEF VersionsKept, handles, history
<1>8. RowsHaveObjects'
  BY <1>1, <1>2 DEF RowsHaveObjects, handles, history
<1> QED
  BY <1>3, <1>4, <1>5, <1>6, <1>7, <1>8

(* Steps of a handle that leave the bucket alone: it becomes h. *)
LEMMA HandleStage ==
  ASSUME DInv, NEW f \in Edited, NEW h \in Stage, handle' = [handle EXCEPT ![f] = h],
         UNCHANGED <<bucket, flight, req, writes, gone>>, rows' \in {rows, rows \union {f}},
         queued' \subseteq Edited, queued \ {f} \subseteq queued',
         excused \subseteq excused', excused' \subseteq File,
         h = "landed" => handle[f] = "landed",
         \/ h \in {"dirty", "staged"} \/ f \in queued' \/ bucket[f] # 0 \/ f \in excused'
         \/ rows' = rows /\ ~Coming(f)
  PROVE  DInv'
<1> USE DEF DInv
<1>1. f \in File /\ f \in Name /\ handle' \in [Edited -> Stage]
      /\ handle'[f] = h /\ \A g \in Edited \ {f} : handle'[g] = handle[g]
  BY Names, DirOpsAssumption DEF TypeOK, Stage
<1>2. TypeOK'
  BY <1>1 DEF TypeOK, Stage
<1>3. Requests'
  BY SameBucket DEF Requests, ReqOK, KeptOK, CopyOK
<1>4. Locks' /\ VersionsKept'
  BY DEF Locks, Locked, VersionsKept
<1>5. \A g \in File : InHand(g)' => InHand(g)
  BY <1>1, InHandIs
<1>6. Hands'
  BY <1>5 DEF Hands
<1>7. \A g \in File \ {f} : Coming(g) => Coming(g)'
  BY <1>1 DEF Coming
<1>8. Coming(f)' \/ bucket[f] # 0 \/ f \in excused' \/ (rows' = rows /\ ~Coming(f))
  BY <1>1 DEF Coming
<1>9. RowsHaveObjects'
  <2> SUFFICES ASSUME NEW g \in rows' \intersect File, bucket[g] = 0, ~Coming(g)', g \notin excused'
               PROVE  \E q \in Request : req[q].at \in {"forget", "clear"} /\ req[q].f = g
    BY DEF RowsHaveObjects, Coming
  <2>1. g \in rows /\ ~Coming(g)
    BY <1>7, <1>8
  <2> QED
    BY <2>1 DEF RowsHaveObjects, Coming
<1> QED
  BY <1>2, <1>3, <1>4, <1>6, <1>9

(* Create's row has a handle that will upload it, an upload's row an object, and a  *)
(* row of a write-back flush its staging file.                                  *)
LEMMA HandleSteps ==
  ASSUME DInv, NEW f \in Edited,
         \/ \E r \in Request : Create(r, f)
         \/ Open(f) \/ Write(f) \/ SyncRow(f) \/ StageRow(f) \/ Submit(f) \/ GiveUp(f) \/ Release(f)
  PROVE  DInv'
<1>1. /\ queued \subseteq Edited /\ excused \subseteq File /\ f \in File
      /\ handle \in [Edited -> Stage] /\ Hands
  BY DirOpsAssumption DEF DInv, TypeOK, Stage
<1> USE <1>1 DEF HandleGoes, history
<1>2. CASE \E r \in Request : Create(r, f)
  <2>1. handle' = [handle EXCEPT ![f] = "dirty"] /\ rows' \in {rows, rows \union {f}}
        /\ UNCHANGED <<bucket, flight, req, queued, writes, gone, excused>>
    BY <1>2 DEF Create, Put
  <2> QED
    BY <2>1, HandleStage DEF Stage
<1>3. CASE Open(f)
  <2>1. f \in queued \/ ~Coming(f)
    BY <1>3 DEF Open, Coming
  <2> QED
    BY <1>3, <2>1, HandleStage DEF Open, Stage
<1>4. CASE Write(f)
  BY <1>4, HandleStage DEF Write, Stage
<1>5. CASE SyncRow(f)
  <2>1. bucket[f] # 0 \/ f \in excused
    BY <1>5 DEF SyncRow, Hands, InHand
  <2> QED
    BY <1>5, <2>1, HandleStage DEF SyncRow, Put, Stage
<1>6. CASE StageRow(f)
  BY <1>6, HandleStage DEF StageRow, Put, Stage
<1>7. CASE Submit(f)
  BY <1>7, HandleStage DEF Submit, Stage
<1>8. CASE GiveUp(f)
  <2>1. handle' = [handle EXCEPT ![f] = handle[f]] /\ handle[f] \in Stage
    BY <1>8 DEF GiveUp
  <2> QED
    BY <1>8, <2>1, HandleStage DEF GiveUp, Excuse
<1>9. CASE Release(f)
  <2>1. CASE handle[f] = "clean"
    <3>1. f \in queued \/ ~Coming(f)
      BY <2>1 DEF Coming
    <3> QED
      BY <1>9, <2>1, <3>1, HandleStage DEF Release, Stage
  <2>2. CASE handle[f] = "dirty"
    BY <1>9, <2>2, HandleStage DEF Release, Excuse, Stage
  <2> QED
    BY <1>9, <2>1, <2>2 DEF Release
<1> QED
  BY <1>2, <1>3, <1>4, <1>5, <1>6, <1>7, <1>8, <1>9

-----------------------------------------------------------------------------
(* Steps that change the bucket to b, under request r, which becomes n, or under   *)
(* a handle.                                                                 *)

(* The request's new state fits what it holds. *)
Becomes(r, n, b) ==
  /\ n \in ReqType /\ ReqOK(n) /\ KeptOK(n)
  /\ LockedBy(n) \subseteq LockedBy(req[r]) \/ Free(LockedBy(n))
  /\ \A f \in File : HandOf(n, f) => HandOf(req[r], f)
  /\ req[r].at \notin {"forget", "clear"}
  /\ n.at = "source" => n.ver # 0 /\ b[n.g] = n.ver

(* Copies that others have made stay, or are known to be gone, and an object       *)
(* that goes is one the request will take from the catalog.                      *)
Spares(r, n, b) ==
  /\ \A q \in Request : q # r /\ req[q].at = "source" /\ b[req[q].g] # bucket[req[q].g]
                       => req[q].ver \in gone'
  /\ gone \subseteq gone'
  /\ \A f \in File : b[f] = 0 /\ bucket[f] # 0 =>
       r \in Request /\ n.at \in {"forget", "clear"} /\ n.f = f

HandlesOK(b) ==
  /\ handle' \in [Edited -> Stage] /\ queued' \subseteq Edited
  /\ \A f \in Edited : handle'[f] = "landed" => handle[f] = "landed" \/ b[f] # 0
  /\ \A f : Coming(f) => Coming(f)' \/ b[f] # 0
  /\ writes' \in 0..MaxWrites /\ gone' \subseteq 0..MaxWrites

LEMMA BucketStep ==
  ASSUME DInv, NEW r \in Request \union {Nil}, NEW n, NEW b \in [Name -> 0..MaxWrites],
         Change(b, r, n), UNCHANGED <<rows, flight>>,
         r \in Request => Becomes(r, n, b), Spares(r, n, b), HandlesOK(b), VersionsKept'
  PROVE  DInv'
<1> USE DEF DInv, Becomes, Spares, HandlesOK
<1> DEFINE Now(q) == IF q = r THEN n ELSE req[q]
<1>1. /\ bucket' = b /\ Alive(bucket)' = Alive(b) /\ Alive(b) \subseteq Name
      /\ req' = [q \in Request |-> [Now(q) EXCEPT !.kept = @ \intersect Alive(b)]]
      /\ excused' = {f \in File : b[f] = 0 /\ (f \in excused \/ (bucket[f] # 0 /\ InHand(f)))}
  BY AliveNames DEF Change, Alive, Contents, Objects
<1>2. ASSUME NEW q \in Request
      PROVE  Now(q) \in ReqType /\ ReqOK(Now(q)) /\ KeptOK(Now(q))
             /\ (Now(q).at = "source" => Now(q).ver # 0 /\ (Now(q).ver \in gone' \/ b[Now(q).g] = Now(q).ver))
  BY Typed DEF CopyOK
<1>3. ASSUME NEW q \in Request
      PROVE  /\ req'[q] \in ReqType /\ req'[q].kept = Now(q).kept \intersect Alive(b)
             /\ req'[q].at = Now(q).at /\ req'[q].f = Now(q).f /\ req'[q].d = Now(q).d
             /\ req'[q].g = Now(q).g /\ req'[q].page = Now(q).page /\ req'[q].res = Now(q).res
             /\ req'[q].ver = Now(q).ver
  BY <1>1, <1>2 DEF ReqType
<1> HIDE DEF Now
<1>11. ASSUME NEW q \in Request
       PROVE  /\ ReqOK(req'[q])
              /\ req'[q].kept \subseteq Alive(b)
              /\ req'[q].at = "head" => req'[q].d \notin req'[q].kept
              /\ req'[q].at = "land" /\ req'[q].res = "missing" => {req'[q].f, req'[q].d} \intersect req'[q].kept = {}
              /\ req'[q].at = "source" => req'[q].ver # 0 /\ (req'[q].ver \in gone' \/ b[req'[q].g] = req'[q].ver)
  <2>1. ReqOK(Now(q)) /\ KeptOK(Now(q))
    BY <1>2
  <2>2. ReqOK(req'[q])
    BY <1>3, <2>1 DEF ReqOK
  <2>3. /\ req'[q].at = "head" => req'[q].d \notin req'[q].kept
        /\ req'[q].at = "land" /\ req'[q].res = "missing" => {req'[q].f, req'[q].d} \intersect req'[q].kept = {}
    BY <1>3, <2>1 DEF KeptOK
  <2> QED
    BY <1>2, <1>3, <2>2, <2>3
<1>4. TypeOK'
  <2>1. req' \in [Request -> ReqType]
    BY <1>1, <1>3
  <2>2. \A q \in Request : req'[q].at = "ingest" => req'[q].page # {}
    BY <1>11 DEF ReqOK
  <2> QED
    BY <1>1, <2>1, <2>2 DEF TypeOK, ReqType, Stage
<1>5. Requests'
  BY <1>1, <1>11 DEF Requests, ReqOK, KeptOK, CopyOK
<1>6. ASSUME NEW q \in Request
      PROVE  LockedBy(req'[q]) = LockedBy(Now(q)) /\ \A f : HandOf(req'[q], f) <=> HandOf(Now(q), f)
  BY <1>3 DEF LockedBy, HandOf
<1>7. Locks'
  <2>1. CASE r \in Request
    BY <1>6, <2>1, LocksStay DEF Now
  <2>2. CASE r \notin Request
    BY <1>6, <2>2, LockedIs DEF Now, Locks
  <2> QED
    BY <2>1, <2>2
<1>8. \A f \in File : InHand(f)' => InHand(f) \/ b[f] # 0
  BY <1>6, InHandIs DEF Now
<1>9. Hands'
  BY <1>1, <1>8 DEF Hands
<1>10. RowsHaveObjects'
  <2> SUFFICES ASSUME NEW f \in rows \intersect File, b[f] = 0, ~Coming(f)', f \notin excused'
               PROVE  \E q \in Request : req'[q].at \in {"forget", "clear"} /\ req'[q].f = f
    BY <1>1 DEF RowsHaveObjects, Coming
  <2>1. CASE bucket[f] # 0
    BY <1>3, <2>1 DEF Now
  <2>2. CASE bucket[f] = 0
    <3>1. ~Coming(f) /\ f \notin excused
      BY <1>1
    <3>2. PICK q \in Request : req[q].at \in {"forget", "clear"} /\ req[q].f = f
      BY <2>2, <3>1 DEF RowsHaveObjects, Coming
    <3> QED
      BY <1>3, <3>2 DEF Now
  <2> QED
    BY <2>1, <2>2
<1> QED
  BY <1>4, <1>5, <1>7, <1>9, <1>10

LEMMA Known ==
  ASSUME DInv
  PROVE  /\ bucket \in [Name -> 0..MaxWrites] /\ writes \in 0..MaxWrites /\ MaxWrites \in Nat \ {0}
         /\ gone \subseteq 0..MaxWrites /\ handle \in [Edited -> Stage]
         /\ queued \subseteq Edited /\ Edited \subseteq File
         /\ File \subseteq Name /\ Dir \ {Root} \subseteq Name /\ File \intersect Dir = {}
         /\ Nil \notin Request /\ Made \subseteq Dir \ {Root}
         /\ VersionsKept
         /\ \A q \in Request : req[q].at = "source" =>
              /\ req[q].f \in File /\ req[q].g \in File /\ req[q].g # req[q].f
              /\ req[q].ver # 0 /\ (req[q].ver \in gone \/ bucket[req[q].g] = req[q].ver)
<1>1. /\ bucket \in [Name -> 0..MaxWrites] /\ writes \in 0..MaxWrites /\ MaxWrites \in Nat \ {0}
      /\ gone \subseteq 0..MaxWrites /\ handle \in [Edited -> Stage]
      /\ queued \subseteq Edited /\ Edited \subseteq File /\ VersionsKept
  BY DirOpsAssumption DEF DInv, TypeOK, Stage
<1>2. ASSUME NEW q \in Request, req[q].at = "source"
      PROVE  /\ req[q].f \in File /\ req[q].g \in File /\ req[q].g # req[q].f
             /\ req[q].ver # 0 /\ (req[q].ver \in gone \/ bucket[req[q].g] = req[q].ver)
  BY <1>2, Typed DEF ReqOK, CopyOK
<1> QED
  BY <1>1, <1>2, Names, DirOpsAssumption

LEMMA UploadStep ==
  ASSUME DInv, NEW f \in Edited, SyncPut(f) \/ QueuedPut(f)
  PROVE  DInv'
<1> DEFINE b == [bucket EXCEPT ![f] = writes + 1]
<1>1. /\ Change(b, Nil, Nil) /\ writes' = writes + 1 /\ writes < MaxWrites
      /\ gone' = gone \union ({bucket[f]} \ {0}) /\ UNCHANGED <<rows, flight>>
  BY DEF SyncPut, QueuedPut, PutLands
<1>2. /\ b \in [Name -> 0..MaxWrites] /\ b[f] = writes + 1 /\ b[f] # 0
      /\ \A n \in Name \ {f} : b[n] = bucket[n]
  BY Known, <1>1
<1>3. bucket' = b
  BY <1>1 DEF Change
<1> HIDE DEF b
<1>4. VersionsKept'
  BY Known, <1>1, <1>2, <1>3 DEF VersionsKept
<1>5. writes' \in 0..MaxWrites
  BY Known, <1>1
<1>6. bucket[f] \in 0..MaxWrites
  BY Known
<1>7. gone' \subseteq 0..MaxWrites
  BY Known, <1>1, <1>6
<1>8. Spares(Nil, Nil, b)
  BY Known, <1>1, <1>2 DEF Spares
<1>9. /\ handle' \in [Edited -> Stage] /\ queued' \subseteq Edited
      /\ \A g \in Edited \ {f} : handle'[g] = handle[g] /\ (g \in queued' <=> g \in queued)
  BY Known DEF SyncPut, QueuedPut, HandleGoes, Stage
<1>10. \A g : Coming(g) => Coming(g)' \/ b[g] # 0
  BY Known, <1>2, <1>9 DEF Coming
<1>11. HandlesOK(b)
  BY <1>2, <1>5, <1>7, <1>9, <1>10 DEF HandlesOK
<1> QED
  BY Known, <1>1, <1>2, <1>4, <1>8, <1>11, BucketStep

LEMMA BucketSteps ==
  ASSUME DInv, NEW r \in Request,
         \/ \E f \in File : Unlink(r, f) \/ \E g \in File : Rename(r, f, g)
         \/ \E d \in Made : Mkdir(r, d)
         \/ Rmdir(r) \/ RenameDelete(r)
  PROVE  DInv'
<1>1. /\ req[r] \in ReqType /\ Idle \in ReqType
      /\ ReqOK(req[r]) /\ KeptOK(req[r]) /\ CopyOK(req[r])
      /\ ReqOK(Idle) /\ KeptOK(Idle) /\ CopyOK(Idle) /\ LockedBy(Idle) = {}
      /\ \A f : ~HandOf(Idle, f)
  BY Typed
<1>2. ASSUME NEW d \in Made, Mkdir(r, d)
      PROVE  DInv'
  <2> DEFINE b == [bucket EXCEPT ![d] = 1]
             n == [Idle EXCEPT !.at = "mkrow", !.d = d]
  <2>1. /\ Change(b, r, n) /\ req[r].at = "idle" /\ Free({Parent[d]})
        /\ UNCHANGED <<rows, flight, handle, queued, writes, gone>>
    BY <1>2 DEF Mkdir, handles
  <2>2. /\ b \in [Name -> 0..MaxWrites] /\ \A f \in File : b[f] = bucket[f]
    BY Known
  <2>3. /\ n \in ReqType /\ n.at = "mkrow" /\ n.d = d /\ n.page = {} /\ n.kept = {}
    BY Known, <1>1 DEF ReqType, Idle
  <2>4. bucket' = b
    BY <2>1 DEF Change
  <2> HIDE DEF b, n
  <2>5. ReqOK(n) /\ KeptOK(n) /\ LockedBy(n) = {Parent[d]} /\ \A f \in File : ~HandOf(n, f)
    BY Known, <2>3 DEF ReqOK, KeptOK, LockedBy, HandOf
  <2>6. VersionsKept'
    BY Known, <2>1, <2>2, <2>4 DEF VersionsKept
  <2>7. Becomes(r, n, b)
    BY <2>1, <2>3, <2>5 DEF Becomes
  <2>8. Spares(r, n, b) /\ HandlesOK(b)
    BY Known, <2>1, <2>2 DEF Spares, HandlesOK, Coming
  <2> QED
    BY <2>1, <2>2, <2>6, <2>7, <2>8, BucketStep
<1>3. ASSUME NEW f \in File, Unlink(r, f)
      PROVE  DInv'
  <2> DEFINE b == [bucket EXCEPT ![f] = 0]
             n == [Idle EXCEPT !.at = "forget", !.f = f]
  <2>1. /\ Change(b, r, n) /\ req[r].at = "idle" /\ Free({Parent[f]})
        /\ gone' = gone \union ({bucket[f]} \ {0})
        /\ UNCHANGED <<rows, flight, handle, queued, writes>>
    BY <1>3 DEF Unlink, handles
  <2>2. /\ b \in [Name -> 0..MaxWrites] /\ \A h \in Name \ {f} : b[h] = bucket[h]
    BY Known
  <2>3. /\ n \in ReqType /\ n.at = "forget" /\ n.f = f /\ n.page = {} /\ n.kept = {}
    BY Known, <1>1 DEF ReqType, Idle
  <2>4. bucket' = b
    BY <2>1 DEF Change
  <2> HIDE DEF b, n
  <2>5. ReqOK(n) /\ KeptOK(n) /\ LockedBy(n) = {Parent[f]} /\ \A h \in File : ~HandOf(n, h)
    BY Known, <2>3 DEF ReqOK, KeptOK, LockedBy, HandOf
  <2>6. VersionsKept'
    BY Known, <2>1, <2>2, <2>4 DEF VersionsKept
  <2>7. Becomes(r, n, b)
    BY <2>1, <2>3, <2>5 DEF Becomes
  <2>8. Spares(r, n, b)
    BY Known, <2>1, <2>2, <2>3 DEF Spares
  <2>9. HandlesOK(b)
    BY Known, <2>1 DEF HandlesOK, Coming
  <2> QED
    BY <2>1, <2>2, <2>6, <2>7, <2>8, <2>9, BucketStep
<1>4. ASSUME NEW f \in File, NEW g \in File, Rename(r, f, g)
      PROVE  DInv'
  <2> DEFINE b == [bucket EXCEPT ![g] = bucket[f]]
             n == [Idle EXCEPT !.at = "source", !.f = f, !.g = g, !.ver = bucket[f]]
  <2>1. /\ Change(b, r, n) /\ req[r].at = "idle" /\ f # g /\ Free({Parent[f], Parent[g]})
        /\ bucket[f] # 0 /\ gone' = gone \union ({bucket[g]} \ {0})
        /\ UNCHANGED <<rows, flight, handle, queued, writes>>
    BY <1>4 DEF Rename, handles
  <2>2. /\ b \in [Name -> 0..MaxWrites] /\ b[g] = bucket[f] /\ \A h \in Name \ {g} : b[h] = bucket[h]
    BY Known
  <2>3. /\ n \in ReqType /\ n.at = "source" /\ n.f = f /\ n.g = g /\ n.ver = bucket[f]
        /\ n.page = {} /\ n.kept = {}
    BY Known, <1>1 DEF ReqType, Idle
  <2>4. bucket' = b
    BY <2>1 DEF Change
  <2> HIDE DEF b, n
  <2>5. ReqOK(n) /\ KeptOK(n) /\ LockedBy(n) = {Parent[f], Parent[g]} /\ \A h \in File : ~HandOf(n, h)
    BY Known, <2>1, <2>3 DEF ReqOK, KeptOK, LockedBy, HandOf
  <2>6. VersionsKept'
    BY Known, <2>1, <2>2, <2>4 DEF VersionsKept
  <2>7. Becomes(r, n, b)
    BY Known, <2>1, <2>2, <2>3, <2>5 DEF Becomes
  <2>8. Spares(r, n, b)
    BY Known, <2>1, <2>2 DEF Spares
  <2>9. HandlesOK(b)
    BY Known, <2>1 DEF HandlesOK, Coming
  <2> QED
    BY <2>1, <2>2, <2>6, <2>7, <2>8, <2>9, BucketStep
<1>5. CASE Rmdir(r)
  <2> DEFINE d == req[r].d
             b == [bucket EXCEPT ![d] = 0]
             n == [req[r] EXCEPT !.at = "prune"]
  <2>1. /\ Change(b, r, n) /\ req[r].at = "rmdir" /\ d \in Dir \ {Root}
        /\ UNCHANGED <<rows, flight, handle, queued, writes, gone>>
    BY <1>1, <1>5 DEF Rmdir, To, handles, ReqOK
  <2>2. /\ b \in [Name -> 0..MaxWrites] /\ \A f \in File : b[f] = bucket[f]
    BY Known, <2>1
  <2>3. /\ n \in ReqType /\ n.at = "prune" /\ n.d = d /\ n.page = req[r].page /\ n.kept = req[r].kept
    BY <1>1 DEF ReqType
  <2>4. bucket' = b
    BY <2>1 DEF Change
  <2> HIDE DEF b, n
  <2>5. ReqOK(n) /\ KeptOK(n) /\ LockedBy(n) = LockedBy(req[r]) /\ \A f \in File : HandOf(n, f) => HandOf(req[r], f)
    BY <1>1, <2>1, <2>3 DEF ReqOK, KeptOK, LockedBy, HandOf
  <2>6. VersionsKept'
    BY Known, <2>1, <2>2, <2>4 DEF VersionsKept
  <2>7. Becomes(r, n, b)
    BY <2>1, <2>3, <2>5 DEF Becomes
  <2>8. Spares(r, n, b) /\ HandlesOK(b)
    BY Known, <2>1, <2>2 DEF Spares, HandlesOK, Coming
  <2> QED
    BY <2>1, <2>2, <2>6, <2>7, <2>8, BucketStep
<1>6. CASE RenameDelete(r)
  <2> DEFINE f == req[r].f
             g == req[r].g
             b == [bucket EXCEPT ![f] = 0]
             n == [req[r] EXCEPT !.at = "clear"]
  <2>1. /\ Change(b, r, n) /\ req[r].at = "source" /\ gone' = gone \union ({bucket[f]} \ {0, req[r].ver})
        /\ UNCHANGED <<rows, flight, handle, queued, writes>>
    BY <1>6 DEF RenameDelete, To, handles
  <2>2. f \in File /\ g \in File /\ g # f /\ (req[r].ver \in gone \/ bucket[g] = req[r].ver)
    BY Known, <2>1
  <2>3. /\ b \in [Name -> 0..MaxWrites] /\ b[f] = 0 /\ \A h \in Name \ {f} : b[h] = bucket[h]
    BY Known, <2>2
  <2>4. /\ n \in ReqType /\ n.at = "clear" /\ n.f = f /\ n.g = g /\ n.page = req[r].page /\ n.kept = req[r].kept
    BY <1>1 DEF ReqType
  <2>5. bucket' = b
    BY <2>1 DEF Change
  <2> HIDE DEF b, n
  <2>6. /\ ReqOK(n) /\ KeptOK(n) /\ LockedBy(n) = LockedBy(req[r])
        /\ \A h \in File : HandOf(n, h) => HandOf(req[r], h)
    BY <1>1, <2>1, <2>2, <2>4 DEF ReqOK, KeptOK, LockedBy, HandOf
  <2>7. VersionsKept'
    BY Known, <2>1, <2>2, <2>3, <2>5 DEF VersionsKept
  <2>8. Becomes(r, n, b)
    BY <2>1, <2>4, <2>6 DEF Becomes
  (* Who copied to f would hold the lock that r holds. *)
  <2>9. ASSUME NEW q \in Request, q # r, req[q].at = "source"
        PROVE  req[q].g # f
    <3>1. Parent[f] \in LockedBy(req[r]) /\ Parent[req[q].g] \in LockedBy(req[q])
      BY <2>1, <2>9 DEF LockedBy
    <3>2. LockedBy(req[r]) \intersect LockedBy(req[q]) = {}
      BY <2>9, LockedIs DEF DInv, Locks
    <3> QED
      BY <3>1, <3>2
  <2>10. Spares(r, n, b)
    BY Known, <2>1, <2>2, <2>3, <2>4, <2>9 DEF Spares
  <2>11. bucket[f] \in 0..MaxWrites
    BY Known, <2>2
  <2>12. HandlesOK(b)
    BY Known, <2>1, <2>11 DEF HandlesOK, Coming
  <2> QED
    BY <2>1, <2>3, <2>7, <2>8, <2>10, <2>12, BucketStep
<1> QED
  BY <1>2, <1>3, <1>4, <1>5, <1>6

-----------------------------------------------------------------------------
(* The invariant.                                                            *)

LEMMA InvInit == Init => DInv
<1> SUFFICES ASSUME Init PROVE DInv
  OBVIOUS
<1>1. /\ req = [r \in Request |-> Idle] /\ Idle \in ReqType /\ Idle.at = "idle" /\ Idle.page = {}
      /\ Idle.kept = {}
  BY DirOpsAssumption DEF Init, Idle, ReqType
<1>2. TypeOK
  BY <1>1, DirOpsAssumption DEF Init, TypeOK, ReqType
<1>3. Requests
  BY <1>1 DEF Requests, ReqOK, KeptOK, CopyOK
<1>4. Locks
  BY <1>1 DEF Locks, Locked
<1>5. Hands
  BY <1>1 DEF Init, Hands, InHand
<1>6. VersionsKept /\ RowsHaveObjects
  BY DEF Init, VersionsKept, RowsHaveObjects
<1> QED
  BY <1>2, <1>3, <1>4, <1>5, <1>6 DEF DInv

LEMMA InvStep == DInv /\ [Next]_vars => DInv'
<1> SUFFICES ASSUME DInv, [Next]_vars PROVE DInv'
  OBVIOUS
<1>1. CASE UNCHANGED vars
  <2>1. UNCHANGED <<bucket, rows, flight, req, handle, queued, writes, gone, excused>>
    BY <1>1 DEF vars
  <2>2. TypeOK' /\ VersionsKept' /\ RowsHaveObjects'
    BY <2>1 DEF DInv, TypeOK, VersionsKept, RowsHaveObjects
  <2>3. Requests'
    BY <2>1, SameBucket DEF DInv, Requests, ReqOK, KeptOK, CopyOK
  <2>4. Locks'
    BY <2>1, LockedIs DEF DInv, Locks
  <2>5. Hands'
    BY <2>1 DEF DInv, Hands, InHand
  <2> QED
    BY <2>2, <2>3, <2>4, <2>5 DEF DInv
<1>2. ASSUME NEW f \in Edited, HandleStep(f)
      PROVE  DInv'
  BY <1>2, UploadStep, HandleSteps DEF HandleStep
<1>3. ASSUME NEW r \in Request,
             \/ \E p \in Path : Lookup(r, p)
             \/ \E f \in Edited : Create(r, f)
             \/ \E f \in File : Unlink(r, f) \/ \E g \in File : Rename(r, f, g)
             \/ \E d \in Made : Mkdir(r, d) \/ RmdirBegin(r, d)
             \/ LookupStep(r) \/ ChangeStep(r)
      PROVE  DInv'
  <2>1. CASE LookupStep(r)
    BY <2>1, LookupSteps, RowSteps, AnswerStep DEF LookupStep
  <2>2. CASE ChangeStep(r)
    BY <2>2, RowSteps, QuietSteps, BucketSteps DEF ChangeStep
  <2>3. CASE \E p \in Path : Lookup(r, p)
    BY <2>3, LookupSteps
  <2>4. CASE \E f \in File : Unlink(r, f) \/ \E g \in File : Rename(r, f, g)
    BY <2>4, BucketSteps
  <2>6. CASE \E f \in Edited : Create(r, f)
    BY <2>6, HandleSteps
  <2>5. CASE \E d \in Made : Mkdir(r, d) \/ RmdirBegin(r, d)
    BY <2>5, BucketSteps, QuietSteps
  <2> QED
    BY <1>3, <2>1, <2>2, <2>3, <2>4, <2>5, <2>6
<1> QED
  BY <1>1, <1>2, <1>3 DEF Next

LEMMA Invariant == Spec => []DInv
BY InvInit, InvStep, PTL DEF Spec

(* Every request has the fields its stage needs, for any tree of names.          *)
THEOREM Typing == Spec => []TypeOK
<1>1. DInv => TypeOK
  BY DEF DInv
<1> QED
  BY <1>1, Invariant, PTL

(* A lookup that answers ENOENT did not miss what was in the bucket all along,     *)
(* whatever the catalog and the other lookups and operations did meanwhile.       *)
THEOREM LookupsSeeTheBucket == Spec => []NoFalseMissing
<1>1. DInv => NoFalseMissing
  BY DEF DInv, Requests, KeptOK, NoFalseMissing
<1> QED
  BY <1>1, Invariant, PTL

(* Rename copies before it deletes, and the kernel's locks keep two renames from   *)
(* deleting each other's copies: no version is lost that nobody overwrote.        *)
THEOREM RenameLosesNothing == Spec => []VersionsKept
<1>1. DInv => VersionsKept
  BY DEF DInv
<1> QED
  BY <1>1, Invariant, PTL

(* A row without an object is one whose object a flush, a fallback or a worker is   *)
(* still to bring, or which a request is to drop: in both modes of writing, with     *)
(* reopened files and flushes of unlinked ones.  For ever stay only the rows of     *)
(* which an upload or a delete failed for good, and those that lost a race.        *)
THEOREM RowsExplained == Spec => []RowsHaveObjects
<1>1. DInv => RowsHaveObjects
  BY DEF DInv
<1> QED
  BY <1>1, Invariant, PTL
=============================================================================
