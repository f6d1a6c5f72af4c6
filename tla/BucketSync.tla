----------------------------- MODULE BucketSync -----------------------------
(***************************************************************************)
(* How names get from the bucket into the catalog and to a reader of a       *)
(* directory: the loop of catalog/sync.go, Readdir of fuse/dir.go with its    *)
(* SyncPrefix, and the stream of fuse/dirstream.go it falls back to.         *)
(*                                                                         *)
(* All three list a directory page by page while the bucket changes.  A page   *)
(* is read from the bucket in one step, and written to the table or shown in    *)
(* a later one.  The caches in front of the table are Catalog's.               *)
(***************************************************************************)
EXTENDS Namespace, Naturals, FiniteSets

CONSTANTS
  Reader,      \* requests that read a directory
  Loop,        \* the goroutine of the sync loop
  Rank,        \* the order of the keys
  PageSize,    \* MaxKeys of a listing
  MaxChanges,  \* bound on changes of the bucket and of rows by other requests
  MaxFaults    \* bound on failing requests and transactions of the sync

ASSUME SyncAssumption ==
  /\ Loop \notin Reader
  /\ IsFiniteSet(Name)
  /\ Rank \in [Name -> 1..Cardinality(Name)]
  /\ \A m, n \in Name : Rank[m] = Rank[n] => m = n
  /\ \A n \in Name : \A d \in Above[n] \ {Root} : Rank[d] < Rank[n]
  (* A full page has more than the directory's own marker. *)
  /\ PageSize \in Nat \ {0, 1}
  /\ MaxChanges \in Nat /\ MaxFaults \in Nat

VARIABLES
  bucket,   \* the objects
  rows,     \* the names in the catalog's table
  proc,     \* the loop and the readers
  stop,     \* SyncManager.stopCh is closed
  changes, faults

environment == <<changes, faults>>
vars == <<bucket, rows, proc, stop, environment>>

(* kept, as history: what the directory has had since its listing began, and     *)
(* what no other request has dropped from the table.  cut, as history: the          *)
(* listing was given up, or the reader was given an older one of the table.      *)
Idle == [at |-> "idle", dir |-> Root, token |-> 0, page |-> {}, more |-> FALSE,
         todo |-> {}, kept |-> {}, shown |-> {}, cut |-> FALSE]

Init ==
  /\ bucket \in SUBSET Name
  /\ rows = {}
  /\ proc = [p \in Reader \union {Loop} |-> Idle]
  /\ stop = FALSE
  /\ changes = 0 /\ faults = 0

Go(p, from, next) == proc[p].at = from /\ proc' = [proc EXCEPT ![p] = next]

-----------------------------------------------------------------------------
(* ListObjects: the page of a directory after a token.  The directory's own     *)
(* marker has a place in the page and is left out of the result.               *)

Rest(d, token) == {n \in Listing(bucket, d) \union ({d} \intersect bucket) : Rank[n] > token}
First(S) == {n \in S : Cardinality({m \in S : Rank[m] < Rank[n]}) < PageSize}

(* Mutant: the next page begins one key too late. *)
OneAfterLast(S) == 1 + Rank[CHOOSE n \in S : \A m \in S : Rank[m] <= Rank[n]]

Last(S) == Rank[CHOOSE n \in S : \A m \in S : Rank[m] <= Rank[n]]

Received(r, rest, page) ==
  [r EXCEPT !.page = page, !.more = First(rest) # rest,
            !.token = IF First(rest) # rest THEN Last(First(rest)) ELSE 0]

(* Mutant: the marker is not left out. *)
ListedRaw(r) == LET rest == Rest(r.dir, r.token) IN Received(r, rest, First(rest))

Listed(r) == LET rest == Rest(r.dir, r.token) IN Received(r, rest, First(rest) \ {r.dir})

(* Where a process goes when the listing of its directory is over. *)
Finished(p) == IF p # Loop THEN "relist" ELSE IF proc[p].dir = Root THEN "known" ELSE "next"

Fails == faults < MaxFaults /\ faults' = faults + 1 /\ UNCHANGED changes

List(p) ==
  /\ Go(p, "list", [Listed(proc[p]) EXCEPT !.at = "write"])
  /\ UNCHANGED <<bucket, rows, stop, environment>>

(* PutBatch of the page. *)
WritePage(p) ==
  LET r == proc[p]
      then == IF ~r.more THEN Finished(p) ELSE IF p = Loop THEN "check" ELSE "list" IN
  /\ Go(p, "write", [r EXCEPT !.at = then, !.page = {}])
  /\ rows' = rows \union r.page
  /\ UNCHANGED <<bucket, stop, environment>>

(* Mutant: that a page could not be written is only logged. *)
SyncFailsLogged(p) ==
  /\ proc[p].at = "write"
  /\ Fails
  /\ proc' = [proc EXCEPT ![p].at = IF proc[p].more THEN "check" ELSE Finished(p),
                          ![p].page = {}]
  /\ UNCHANGED <<bucket, rows, stop>>

(* A failed listing, transaction or query: the root's ends the loop's pass,      *)
(* another directory is skipped, and a reader falls back to the stream.         *)
SyncFails(p) ==
  /\ proc[p].at \in {"list", "write", "relist"}
  /\ Fails
  /\ proc' = [proc EXCEPT ![p] =
       IF p # Loop THEN [@ EXCEPT !.at = "stream", !.token = 0, !.page = {}]
       ELSE IF @.dir = Root THEN Idle
       ELSE [@ EXCEPT !.at = "next", !.page = {}, !.cut = TRUE]]
  /\ UNCHANGED <<bucket, rows, stop>>

-----------------------------------------------------------------------------
(* The loop: a pass lists the root and then each directory that is known.      *)

Begin(d, todo) ==
  [Idle EXCEPT !.at = "check", !.dir = d, !.todo = todo, !.kept = Listing(bucket, d)]

Tick ==
  /\ Go(Loop, "idle", Begin(Root, {}))
  /\ UNCHANGED <<bucket, rows, stop, environment>>

Check ==
  /\ Go(Loop, "check", [proc[Loop] EXCEPT !.at = IF stop THEN Finished(Loop) ELSE "list",
                                          !.cut = stop])
  /\ UNCHANGED <<bucket, rows, stop, environment>>

(* Mutant: a directory is refreshed only if it has a marker object. *)
KnownMarked ==
  /\ Go(Loop, "known", [proc[Loop] EXCEPT !.at = "next", !.todo = KnownDirs(rows \intersect bucket)])
  /\ UNCHANGED <<bucket, rows, stop, environment>>

Known ==
  /\ \/ Go(Loop, "known", [proc[Loop] EXCEPT !.at = "next", !.todo = KnownDirs(rows)])
        /\ UNCHANGED environment
     \/ Go(Loop, "known", [proc[Loop] EXCEPT !.at = "next"]) /\ Fails
  /\ UNCHANGED <<bucket, rows, stop>>

NextDir ==
  /\ \/ \E d \in proc[Loop].todo :
          ~stop /\ Go(Loop, "next", Begin(d, proc[Loop].todo \ {d}))
     \/ (stop \/ proc[Loop].todo = {}) /\ Go(Loop, "next", Idle)
  /\ UNCHANGED <<bucket, rows, stop, environment>>

LoopEnds ==
  /\ stop
  /\ Go(Loop, "idle", [Idle EXCEPT !.at = "ended"])
  /\ UNCHANGED <<bucket, rows, stop, environment>>

Stop ==
  /\ ~stop
  /\ stop' = TRUE
  /\ UNCHANGED <<bucket, rows, proc, environment>>

-----------------------------------------------------------------------------
(* Readdir.  A directory of which ListDir has anything is shown as it is there;  *)
(* such a call changes nothing and is left out.  Another is listed by SyncPrefix   *)
(* first.  The table may have something all the same, for an empty listing that     *)
(* is out of date may be cached: hence no condition on rows.                     *)

Readdir(p, d) ==
  /\ Go(p, "idle", [Idle EXCEPT !.at = "list", !.dir = d, !.kept = Listing(bucket, d)])
  /\ UNCHANGED <<bucket, rows, stop, environment>>

(* The second ListDir.  The cache or the flight it joins may have what another    *)
(* request had read of the table before the pages were written: Catalog has how.  *)
Relist(p) ==
  /\ \/ Go(p, "relist", [proc[p] EXCEPT !.at = "shown", !.shown = Children(rows, proc[p].dir)])
     \/ Go(p, "relist", [proc[p] EXCEPT !.at = "shown", !.cut = TRUE])
  /\ UNCHANGED <<bucket, rows, stop, environment>>

(* HasNext fetches a page when it has shown the last one, and ends the listing   *)
(* when the page it fetched is the last or has nothing to show.                *)
Stream(p) ==
  LET r == Listed(proc[p]) IN
  /\ Go(p, "stream",
        [r EXCEPT !.at = IF r.more /\ r.page # {} THEN "stream" ELSE "shown",
                  !.shown = r.shown \union r.page, !.page = {}])
  /\ UNCHANGED <<bucket, rows, stop, environment>>

StreamFails(p) ==
  /\ Go(p, "stream", [proc[p] EXCEPT !.at = "shown", !.cut = TRUE])
  /\ UNCHANGED <<bucket, rows, stop, environment>>

Close(p) ==
  /\ Go(p, "shown", Idle)
  /\ UNCHANGED <<bucket, rows, stop, environment>>

-----------------------------------------------------------------------------
(* What else changes the bucket and the table: other writers, the requests of     *)
(* DirOps and the uploads.  They write the bucket and the table at different       *)
(* times, in either order, and may fail between the two.                        *)

Change == changes < MaxChanges /\ changes' = changes + 1 /\ UNCHANGED faults

(* The kept names after a change of the bucket, or without some rows. *)
Keep(S) == proc' = [p \in DOMAIN proc |-> [proc[p] EXCEPT !.kept = @ \intersect S]]

ObjectPut(o) ==
  /\ Change
  /\ o \notin bucket
  /\ bucket' = bucket \union {o}
  /\ UNCHANGED <<rows, proc, stop>>

ObjectDeleted(o) ==
  /\ Change
  /\ o \in bucket
  /\ bucket' = bucket \ {o}
  /\ Keep(Existing(bucket'))
  /\ UNCHANGED <<rows, stop>>

(* Create and a write-back Flush put a row before there is an object, a lookup      *)
(* or an upload after it, when it may be gone again.                            *)
RowPut(n) ==
  /\ Change
  /\ n \notin rows
  /\ rows' = rows \union {n}
  /\ UNCHANGED <<bucket, proc, stop>>

(* Unlink, Rename and Rmdir drop the rows of a name or of all that LIKE matches.      *)
(* That the delete fails, which nobody looks at, is that nothing happens.          *)
RowsDeleted(S) ==
  /\ Change
  /\ S \intersect rows # {}
  /\ rows' = rows \ S
  /\ Keep(Name \ S)
  /\ UNCHANGED <<bucket, stop>>

-----------------------------------------------------------------------------

LoopStep ==
  \/ List(Loop) \/ WritePage(Loop) \/ SyncFails(Loop)
  \/ Tick \/ Check \/ Known \/ NextDir \/ LoopEnds

ReaderStep(p) ==
  \/ List(p) \/ WritePage(p) \/ SyncFails(p)
  \/ Relist(p) \/ Stream(p) \/ StreamFails(p) \/ Close(p)

Next ==
  \/ LoopStep
  \/ Stop
  \/ \E p \in Reader : ReaderStep(p) \/ \E d \in Dir : Readdir(p, d)
  \/ \E n \in Name : ObjectPut(n) \/ ObjectDeleted(n) \/ RowPut(n) \/ RowsDeleted({n})
  \/ \E d \in Dir \ {Root} : RowsDeleted(Like[d])

(* The loop's ticker fires and its requests are answered. *)
Spec == Init /\ [][Next]_vars /\ WF_vars(LoopStep)

-----------------------------------------------------------------------------
(* Properties.                                                             *)

TypeOK ==
  /\ bucket \subseteq Name
  /\ rows \subseteq Name
  /\ stop \in BOOLEAN
  /\ changes \in 0..MaxChanges /\ faults \in 0..MaxFaults
  /\ proc \in [Reader \union {Loop} ->
                [at : {"idle", "check", "list", "write", "known", "next", "ended",
                       "relist", "stream", "shown"},
                 dir : Dir, token : Nat, page : SUBSET Name, more : BOOLEAN,
                 todo : SUBSET (Dir \ {Root}), kept : SUBSET Name, shown : SUBSET Name,
                 cut : BOOLEAN]]
  /\ \A p \in Reader \union {Loop} :
       proc[p].page \union proc[p].kept \union proc[p].shown \subseteq Children(Name, proc[p].dir)

(* A reader whose directory was not in the table is shown everything that was   *)
(* in the directory all the time it read, over any number of pages, in the         *)
(* middle of other changes, and when the sync failed and the stream took over --   *)
(* unless the stream failed too, which nobody is told, or another reader's older    *)
(* listing was in the way.                                                    *)
ListingComplete ==
  \A p \in Reader : proc[p].at = "shown" /\ ~proc[p].cut => proc[p].kept \subseteq proc[p].shown

(* So is the table by the loop: when it goes on from a directory, and was not       *)
(* stopped nor met a failure there, all that stayed in the directory while it        *)
(* listed it is in the table, whatever came, went or was dropped meanwhile.        *)
PassComplete ==
  proc[Loop].at \in {"known", "next"} /\ ~proc[Loop].cut => proc[Loop].kept \subseteq rows

(* What stays in the bucket is in the catalog in the end and stays there: a pass   *)
(* learns a directory from its parent and lists it, whatever fails or is dropped    *)
(* in between.                                                               *)
Discovered ==
  \A n \in Name : <>[](n \in Existing(bucket)) /\ []~stop => <>[](n \in rows)

=============================================================================
