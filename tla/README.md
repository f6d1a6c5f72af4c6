# A TLA+ model of the S3 gateway

The gateway (`src/cmd/s3gw`) mounts buckets as FUSE file systems. Every request
of an application goes through a local file cache, a catalog of names and, in
write-back mode, an upload queue before it reaches S3. This directory holds
TLA+ modules translated from the Go code, TLC configurations that check them on
small instances, and proofs checked by TLAPS.

## 1. Inventory

### Components, their state and operations

| Component (source under `src/internal`) | State | Operations that change it | Module |
|---|---|---|---|
| write-back queue (`catalog/writeback.go`) | channel of jobs, `stopCh`, worker goroutines, staging files | `Submit`; `worker`, `drain`, `process`, `upload`; `Stop` | `WriteBackQueue`, abstract `UploadPool` |
| cache (`cache/*.go`) | files on disk, BoltDB entries with access times, `m.mu`, evictor goroutines | `Get`, `Put`, `Invalidate`, `Touch`; `evictOnce` by ticker or `TriggerEviction`; `StopEvictor`, `Close` | `CacheManager` |
| file handles (`fuse/handle.go`, `fuse/file.go`) | temporary file, `dirty`, `h.mu`; size, ETag and time shown | `Open`, `Read`, `Write`, `Flush`, `Fsync`, `Release`, `Setattr` | `WritePath` |
| directory nodes (`fuse/dir.go`, `fuse/root.go`) | none of their own: bucket, catalog, cache | `Lookup`, `Create`, `Mkdir`, `Unlink`, `Rmdir`, `Rename`; `Readdir` | `DirOps`; `BucketSync` (`Readdir`); `WritePath` (`Create` and `Unlink` with handles) |
| negative cache (`catalog/negcache.go`) | names with expiry times, in a list | `Contains`, `Add`, `Remove`, `RemovePrefix`, reaper | `NegCache` |
| catalog (`catalog/catalog.go`, `store.go`, `dircache.go`) | SQLite table, directory cache, singleflight groups | `ListDir`, `Lookup`, `HasDir`, `Put`, `PutBatch`, `Delete`, `DeletePrefix` | `Catalog` over `Namespace` |
| bucket sync (`catalog/sync.go`) | position in the paged listing | `syncAll`, `syncBucket`, `SyncPrefix`, `Stop` | `BucketSync`; its writes against the caches in `Catalog`, its end in `GatewayLifecycle` |
| S3 directory stream (`fuse/dirstream.go`) | page, token, position | `HasNext`, `Next`, `fetchPage` | `BucketSync` |
| lifecycle (`gateway/*.go`, `cmd/s3gw/main.go`) | mounts, wait group, what is open | `Start`, `Stop`, `Wait` | `GatewayLifecycle` |
| S3 client (`s3client/*.go`) | none | requests, error translation | requests where they are made |
| configuration, logging | none after start | parsing, validation | the ASSUMEs |

### How they interact

* FUSE requests run concurrently. A handle serialises its own with `h.mu`; two
  handles of a key, an unlink, the workers and the evictor share the bucket,
  the cache and the catalog, which are updated one after the other with no lock
  across them.
* `Flush` hands a renamed temporary file to the queue, or uploads it itself:
  in write-through mode, when the rename fails, and when the queue is full.
* The cache's callers hold `m.mu`; the evictor's goroutines do not.
* The sync loop writes the catalog's table directly; requests go through the
  catalog, which also maintains the negative and the directory cache. A
  directory nobody has read is listed by the request itself (`SyncPrefix`), and
  if that fails by a stream of S3's own pages.
* `Lookup` asks the catalog and then S3, once for all who look for a name; what
  it finds it puts in the catalog. The directory operations change the bucket
  first and then the catalog, with only the kernel's directory locks around.
* `Gateway.Stop` stops the catalog, the queue and the evictor, then unmounts,
  then closes the cache; the mounts serve requests up to the third step.

### What is hard here

The hazards are listed with their lines in `PROJECT.json`. In short: steps of
several requests between updates of several stores; uploads of one key in the
hands of different workers; a failure after one of several updates; what the
queue and the evictor do during and after a stop; a full channel; entries of a
cache that no longer describe anything; a listing of several pages, written to
the catalog or shown while the bucket changes; a read of the catalog's table
that reaches a cache after a write has cleared it; a rename or rmdir that fails
half way.

### What makes each component correct

* Queue: no accepted job is lost, doubled or given up without cause; its bytes
  are on disk until they are in the bucket; a stop settles what came before it.
* Cache: an entry describes the file beside it; every file is counted; usage
  comes back under its mark; nothing is evicted after the stop.
* Handles: what is acknowledged is saved, whole; what is rejected is not
  served; the bucket never goes back to an older write; the cache follows.
* Negative cache: absence is reported only while it is known and recent.
* Lifecycle: a failed start leaves nothing behind, a stop ends and settles what
  was acknowledged before it, and the sync loop does not use a closed catalog.
  (The mounts do: `Stop` closes it at gateway.go:112 and unmounts at 120-122,
  and a request served in between gets the store's error.)
* Catalog: a cache may be wrong about the table only for a reason that can be
  named, and not for ever.
* Sync and streams: a listing over several pages misses nothing that stays,
  neither for the reader nor for the table; what stays in the bucket is
  catalogued in the end.
* Directory operations and the flushes among them: no lookup reports missing
  what was there; no version is lost by a rename; a name without an object will
  get one or lose its row, or a race or a failure that can be named has left it.

## 2. The modules

### `UploadPool` and `WriteBackQueue`

`UploadPool` is the promise of the queue to its users: an upload is refused or
accepted; an accepted one is pending until it is uploaded or abandoned, its
bytes are never in neither place, and the pool closes only when nothing
accepted before the close began is pending.

`WriteBackQueue` is `writeback.go`. Its variables are the fields of the struct
(`jobs`, `stopCh`), the local variables of the goroutines (`pc`, `draining`,
`job`, `attempt`), the staging directory, and the history that the properties
need (`outcome`, `stored`, `tries`, `late`). A worker's steps are the points at
which it can be interleaved: the selects (`Receive`, `NoticeStop`, `Drained`,
`BackoffElapsed`, `BackoffAborted`), the arrival of a PUT at the bucket
(`PutLands`) and its return (`UploadSucceeds`, `UploadFails`, `Exhausts`). A PUT
that landed may still return an error, and the removal of a staging file after an
upload, whose error nobody looks at, may leave it. A select whose cases are both ready takes
either, as in Go. `ImplementsPool` is the refinement: `status`, `copies` and
`gate` are computed from the variables of the queue.

### `CacheManager`

Each access to a store is a step: a rename or removal in the cache directory
(`disk`), a BoltDB transaction (`meta`, `lru`). `writer` and `readers` are
`m.mu`. `Get` is `GetEntry`, `GetFound` or `GetMissing`, then `GetTouch` or
`GetPurge`; `Put` is `PutFile`, `PutMeta` and `PutCheck`; `Invalidate` is two
steps. `evictOnce` is `EvictTotal`, `EvictList`, and per entry `EvictFile` and
`EvictRow`, in the goroutine of the ticker or in one that `PutCheck` started.
An entry is represented by the content it was written for, which fixes ETag and
size; access times by the order they give. `Crash` loses what is in memory. A
removal of a file, a touch and a purge may fail, which the code ignores or skips.
`TotalSize`, a sum in the code, is the number of elements of a set with as many
elements as the entries have bytes.

### `WritePath`

The handles, `Create` and `Unlink`, with `WriteBackQueue` as an instance: an
operation of the handle is an upload of the queue. Every flush of a dirty
handle, every unlink and every PUT of another writer gets the next number in
`log`, which also notes what had been acknowledged when it began; the bucket,
the cache and the catalog hold these numbers, so that "older" and "newer" mean
something. `handle[h].at` is the place in `Flush` or `Read` where `h.mu` is
held; what the code does between two accesses to a shared store is one step.
The cache is reduced to the version it has of a key: its own steps are
`CacheManager`'s. `Faults` says what may fail: S3 requests ("s3"), with or
without their effect, operations on local files ("file"), and transactions of
the catalog ("catalog"), whose errors the handles and `Unlink` ignore.

### `NegCache`

Each operation is atomic under `nc.mu`, so the module has one action for each,
and a clock. A prefix is the set of names that have it. `Rest` is the list
without the elements an operation removes, in their order.

### `GatewayLifecycle`

`Start` and `Stop` as one control variable `main`, with the index of the loop
over the mounts. A mount can fail to mount, be refused to unmount, or be
unmounted by an administrator; each has a goroutine in `Wait`. While a mount is
up it serves flushes, which are uploads of an `UploadPool`: this is the
abstract queue, not the detailed one, which is what makes the composition small.

### `Namespace`

The tree of names that the next three modules share: `Parent` and `Above` for
the prefixes of a key, `Listing` for what a delimited listing of S3 returns,
`Children` for `ListDir`, and `Like` for the rows that `DeletePrefix` drops,
which `LIKE` makes a superset of `Under` (`_` and `%` are wildcards and case is
ignored). A file and a directory never share a base name.

### `Catalog`

A call of the catalog is a process: `Ask`, `LookParent`, `Lead` or `Join`,
`Read`, `SetListing`, `Land` (the flight ends for all who wait) and `Return` for
a `Lookup` or a `ListDir`; a write of the table followed by one `Forget` per
cache entry it drops for the others. A row is the number of the write that made
it; an answer is a set of rows. The two caches are one function `cached` from
questions to answers: the negative cache holds empty answers to "name"
questions, the directory cache answers to "list" questions. `call[c].owed` is
what a call has yet to drop, in the code's order. `excused` is history: the
questions a cache has a wrong answer to that no call will drop.

### `BucketSync`

The sync loop (`Tick`, `Check`, `List`, `WritePage`, `Known`, `NextDir`,
`LoopEnds`) and readers of a directory (`Readdir`, then `List` and `WritePage`
of `SyncPrefix`, `Relist`, or `Stream`) list pages of `PageSize` names in the
order of the keys, marker included, and go on from a token. The bucket and the
rows change under them, at times of their own and in either order, by other
writers, by the flushes and by the other requests: `ObjectPut`, `ObjectDeleted`,
`RowPut` (a create or a write-back flush puts a row with no object, a lookup one
whose object may be gone) and `RowsDeleted`; a delete of a row that fails is one
that does not happen. `kept` is what a listing must find: what was in the
directory when it began, less what has been deleted or had its row dropped since.
The caches of `Catalog` are abstracted to what they can do here: a reader may
find nothing cached of a directory that has rows, and may be given an older
listing after its sync (`cut`).

### `DirOps`

A request is a process through the requests to S3 and the calls of the catalog
of one operation of `dir.go`. A call of the catalog is one step, which may fail
where the code ignores or returns that; that a name is not found although it has
a row (the negative cache) is `HasDir` going on to S3. `Locked` and `Free` are
the kernel's: it holds a directory's inode lock for create, mkdir, unlink, rmdir
and rename (and the victim's for rmdir), and none for a lookup that
revalidates. A file in `Edited` has a handle (`handle`), which holds no such
lock: it is opened or created, written, flushed and released any number of
times. Of a flush there are the steps that change the bucket or the table, in the
order of each mode: `SyncPut` and `SyncRow` when it uploads itself; `StageRow`,
`Submit` and then, at any time, `QueuedPut` when the staging file is handed over,
where the worker and the fallback of a full queue are alike. `GiveUp` is an upload
that fails for good. Every flush takes either way: the fallback of a rename that
fails is a synchronous flush in write-back mode. `gone`, `kept` and `excused` are
there for the properties; `excused` has the files that `RowsHaveObjects` excepts,
each put there by the race or the failure and for as long as its row or its
absence lasts, and no file merely for having been created.

`PROJECT.json` maps each definition to its lines.

### Mutants

A definition with a comment `Mutant:` is no behaviour of the code: it is a wrong
version of the definition after it (a dropped guard, a missing reset), not used
by any action. Replacing the right one by it must violate the property named in
`PROJECT.json`, which shows that the property depends on that piece of code.

## 3. The runs

### Runs that pass

| Run | Instance | What it shows |
|---|---|---|
| `wbq` | 2 workers, channel of 1, 3 uploads of which one has no client, 1 retry | the invariants of the queue and the refinement in every interleaving with `Stop`; accepted uploads are settled and `Stop` returns |
| `cache` | 2 keys, contents of 4 and 6 bytes, a cache of 6, 2 callers, the ticker with batches of 1, faults, crashes | `TagMatches`, `PurgeOnlyPhantoms`; usage comes back under the mark (`EvictionCatchesUp`) |
| `write_through` | 2 handles of a key, 2 chunks to write, an unlinker, another writer, 3 operations, failing requests and catalog transactions | `AckedInS3`, `CleanMeansSaved`, `CacheFromBucket`, `RealTimeOrder` |
| `write_back` | 1 handle, 1 worker, channel of 2 that overflows, 3 operations, 1 retry, failing requests and local files | `AckedSomewhere`, `QueueKeepsOrder` |
| `negcache` | 4 names in a cache of 3, lifetime 2, clock to 5 | the invariants; expired names go |
| `catalog` | 2 callers, requests or syncs, a directory and a file, every initial table, 2 writes | `CacheErrorsExplained`; wrong answers do not stay (`CachesHeal`) |
| `sync` | the loop and a reader, a directory of two files and a marker, pages of 2, 2 changes of objects or rows, 1 fault, a stop | `ListingComplete`, `PassComplete`; what stays is found (`Discovered`) |
| `directory` | 2 requests, two directories `LIKE` does not tell apart with a file each, a handle and a queue for one of them, 2 PUTs, every fault | `NoFalseMissing`, `VersionsKept`, `RowsHaveObjects` |
| `lifecycle` | 3 mounts that may be busy, 2 flushes, with and without a queue | the safety of `Start` and `Stop`; both end |

### Runs that end in a violation

Each checks one statement of the repository's documentation or comments and
shows a behaviour of the code that contradicts it; the findings in
`PROJECT.json` quote the statement.

| Run | Property | The behaviour |
|---|---|---|
| `write_back_reflush` | `CleanMeansSaved` | the second flush of a handle uploads only what came after the first |
| `write_through_race` | `CacheCurrent` | two handles of a key: the cache keeps a version the bucket has not |
| `lifecycle_panic` | `CacheClosedAtEnd` | the evictor is stopped twice |

`CleanMeansSaved` holds in write-through mode, where `write_through` checks it.
Other places where the code departs from its documentation have no run of their
own; a passing run checks what does hold there:

* An eviction between the two writes of a `Put` leaves a file without an entry,
  which nothing counts or evicts (docs/architecture.md:249 says eviction is safe
  beside requests); `TagMatches` and `PurgeOnlyPhantoms` hold all the same.
* An entry whose file is gone is skipped in every round and still counted, so
  that the cache can stay over its mark (README.md:161); `EvictionCatchesUp`
  holds when there is none.
* A flush between the stop of the queue and the unmount is accepted by a queue
  nobody works for (README.md:315); `QueuedFlushesSettled` excepts it.
* Write-back acknowledges before the upload (README.md:33); `AckedSomewhere`.
* A triggered eviction may outlive `StopEvictor` (README.md:313), a sole
  writer's entry never expires (README.md:206), and a failed start waits for a
  mount the kernel refused to unmount (`StartReturns` excepts it).
* The sync descends into every directory, not only those users touched
  (comments at sync.go:106 and at `KnownDirs`): the pass over a prefix records
  its sub-prefixes, which are then known. `Discovered` relies on it.
* The sync loop clears no entry of the negative cache and a sync that fails on
  a later page clears nothing: `CacheErrorsExplained` names both, and
  `CachesHeal` shows that they expire.
* A sync only adds, and nothing else looks for rows that have lost their object.
  The table keeps, until an unlink or a rename of the name or an `Rmdir` that
  matches it: names another writer deleted; rows put for what was seen before an
  unlink, by a page of the sync (sync.go:198), a lookup (dir.go:117) or a flush
  (handle.go:308); rows whose delete failed, which `Unlink`
  and `Rename` ignore (dir.go:302, 363); and names created or flushed in
  write-back mode whose upload never succeeded (dir.go:273, handle.go:224).
  `RowsHaveObjects` of `DirOps` shows that its requests and flushes leave no
  others; what the sync and other writers add has no such property.
* A directory of which the table has some rows is shown as it is there
  (dir.go:202-205), although the rest has not been synced: a lookup or a create in
  a directory nobody has read makes its listing incomplete until the loop has
  passed. `ListingComplete` is of the directories of which `ListDir` finds nothing.

### Bounds, and why they are enough

* Two workers, handles or callers give every pairwise race; the code treats
  them alike and no step looks at more than one other. A third adds no new
  kind of step.
* One retry distinguishes the first and the last attempt: the loop has attempts
  0 and 1 and gives up after the second.
* A channel of one is full as soon as one job waits. `write_back` has a channel
  of two, so that an upload waits behind another while a third is refused.
* One key: no step of a handle looks at two keys, and keys meet only in the
  cache's size, which `CacheManager` models with two keys. `MaxOps` bounds
  `log`: three operations are enough for a write, one that overtakes it and one
  that observes. Two chunks tell an earlier write of a handle from a later one;
  the queue does not look at them, and `write_back` has one.
* The kinds of failure are split over the runs: `write_through` has failing
  requests and catalog transactions (its local files are read only after the PUT),
  `write_back` failing requests and local files, on which its fallbacks depend.
  The theorems hold for any of them together.
* A cache of six bytes is over its mark (5) with one large file or with two
  files, and two files take two rounds that see one entry each. `Triggered`
  bounds how many triggered goroutines exist at once.
* `MaxTime` and `TTL`: two whole lifetimes of a name.
* Three mounts: the failing one, one before the last to be undone, one more.

* `catalog`: two callers give every race between a read and a write of one
  answer and between two readers of a flight; `MaxWrites` of 2 lets the table
  change once from an initial state with or without each row, between any two
  steps of the other call. Deletes are not bounded.
* `sync`: a page has two names and the directory three with its marker, so a
  listing ends on the second page, on the first when something is gone, and may
  need a third when something appears. Two changes are a delete before and one
  behind the token, a change and its undoing, or an object and a row that go one
  after the other; one fault fails one page.
* `directory`: two requests, a handle and the queue meet in every order, and two
  PUTs give a version to overwrite and one to keep. Two handles of a file would
  add a second row or object, which is what a flush and a queued upload are to
  each other already. The two directories are matched
  by each other's `LIKE`.

`CHECK_DEADLOCK FALSE` is set where the system really stops: after the queue's
`Stop` with nothing left to submit, at the end of the process, and in `sync`
when the loop has ended and the changes are used up. Symmetry is used in the
runs of `WritePath` and `DirOps` only, which have no liveness property.

### Fairness

Weak fairness of every goroutine's steps (workers, the evictor, callers already
inside an operation, `Start` and `Stop`, the sync loop) and of the tickers: the
Go scheduler runs what can run. No fairness is given to what applications or
administrators may do: submit, write, signal, unmount. The fairness of a
worker's step, of an upload and of a sync pass assumes that every S3 request is
answered or fails in the end; the code itself sets no deadline on them. Callers
in the cache need no assumption of this kind. A back-off is over when its
`time.After` fires. In `Catalog` a call that has begun goes on and a cached
answer expires (the reapers' tickers), but nobody is made to ask or write; in
`BucketSync` only the loop is fair, and `Discovered` needs no reader.

## 4. The proofs

`WriteBackQueueProofs`, from the assumptions of `WriteBackQueue` alone (at least
one worker, a positive channel, any sets of uploads, of routable ones and any
number of retries, which configuration validation guarantees):

* The inductive invariant `IInv` is the type invariant, the four safety
  properties and three facts that are in no run: `WorkerPhase` (a worker has a
  job exactly while it is busy; after `ack` its PUT has landed; who has exited
  was draining, and who drains has seen the stop), `TriesCounted` (the loop
  variable counts the returned attempts, and a job in the channel has none) and
  `StopPhase`. They are needed because, for instance, `GiveUpJustified` speaks
  of `tries` while `process()` decides on `attempt`, and `BytesKept` of a
  finished upload follows only if an answered PUT has landed.
  `DrainLeavesOnlyLate` is inductive because a worker exits on an empty channel
  and what is sent afterwards is late.
* From it: `TypeCorrect`, `HeldOnceHolds`, `BytesKeptHolds`,
  `GiveUpJustifiedHolds`, `DrainLeavesOnlyLateHolds`, and `StopSettlesHolds`
  (all workers have exited, so what is pending is in the channel, hence late).
* `QueueImplementsPool`: initial states map to initial states, and each action
  to the action of `UploadPool` of its kind or to a stutter, under `IInv`.
  `UploadSucceeds` needs that the PUT landed, `StopReturns` that nothing early
  is pending, and worker steps that the pool is not closed while one works.

`CacheManagerProofs`, from sizes that are natural numbers, a positive batch and `Nil` being
neither a key, a content nor a caller:

* `TagMatchesHolds` and `PurgeOnlyPhantomsHolds`. The invariant `CInv` adds
  `Locking` (who is inside an operation holds the lock, and a writer is alone),
  `PutHalfway` (between its two writes the file of a `Put` is its own or evicted)
  and `PurgeReady` (no file appears under a `Get` that found none). What it shows
  is that the missing lock of the evictor is harmless for these two properties.
* `Typing`: the order of access lists the keys with an entry, once each. `Put`
  and `Touch` take a key out of it and append it (`DroppedKey`, `AppendedKey`), and a round
  deletes a row only with an entry in its batch (`Working`). That the total is a
  number (`TotalIsNumber`) rests on there being finitely many entries, which the
  list shows.

`GatewayLifecycleProofs`, for any number of mounts: `FailedStartClean`,
`SyncMeetsOpenCatalog` and `FlushesSettledAtEnd`. The invariant says at each
stage of `Start` and `Stop` what is open, mounted, waited for and pending; the
three properties are its last lines.

`CatalogProofs`, for any tree and any callers: `CachesExplained` and `OneReader`.
`CInv` adds `Calls` (a call has a question while it looks for an answer, and
owes something exactly while it syncs or forgets). The lemmas on `Answer` say
which questions a write touches, and those on `OwedFor` that a batch owes them
all; this is where a forgotten invalidation would show.

`DirOpsProofs`, for any tree, requests and edited files: `LookupsSeeTheBucket`,
`RenameLosesNothing` and `RowsExplained`. `DInv` adds to the properties, per
request, `KeptOK` (what was alive all along is alive and has not been passed by)
and `CopyOK` (until the source is deleted the copy is there or is known to be
overwritten), and across requests `Locks` (no directory is held twice) and
`Hands` (a row on its way, in a request or after a synchronous flush has uploaded,
has its object, unless that was removed meanwhile). `RowsExplained` has two ways
for a row to lose its reason: a step of the bucket (`BucketStep`), which excuses
the rows in hand, and a step of a handle or of the queue (`HandleStage`), which
must leave the object, another step to come (`Coming`) or an excuse.
`Locks` is what `RenameLosesNothing` needs: two renames that exchange names
would each delete the other's copy.

`BucketSyncProofs`, for any tree of finitely many names, any order of their keys,
any page size above one and any number of readers: `ListingMissesNothing`,
`PassMissesNothing` and `Typing`.

* The token of a page is its largest key. That a finite set of numbers has one
  (`Greatest`) rests on the library's theorem that strict inclusion of finite
  subsets is well-founded. From it `Pages`: a page that is not the last has every
  name up to its token, and a name besides the directory's own marker, so that a
  reader goes on from where it was and the stream does not take a page of a
  marker alone for the end. Hence the assumption `PageSize > 1`.
* `IInv` adds, per process, `InPlace` (what it has in hand is of its directory)
  and `Reaches`: what has stayed exists and is, up to the token, in the table (or
  in the page in hand) while a directory is listed, and in what was shown while
  the stream runs. Other requests may drop rows that were written already: these
  leave `kept`, and `SomeDrop` shows that nothing else does.

`WritePathProofs`, for any keys, handles, unlinkers, workers, chunks and number
of operations. The queue's proofs are used as an instance (`QueueProofs`):
`QueueAssumption` gives its assumptions, each step of the composition is a step
of the queue or leaves it alone (`ComposesQueue`), and so its `IInv` is the first
part of this one. The other parts:

* `History`: an operation is acknowledged or rejected, not both, and began after
  those it notes as acknowledged; what the queue accepted is acknowledged.
* `Handles` and `Unlinks`: the operation in the hands of a request is its own,
  of its key and undecided. Without this an acknowledgement could be of what
  another one uploaded.
* `Stores`: the bucket has nothing but what landed there.
* `AckedSomewhere`, which is inductive only with `BytesKept` of the queue.
* `Ordered`: nothing in the channel was acknowledged before what is ahead of it,
  held by a worker or stored began.
* `Through`, when `UseQueue` is false: nothing is staged, a handle's temporary
  file has all that was written, a clean handle's write has an acknowledged
  operation with just these bytes, the cache has what reached the bucket.

From it, in both modes: `Typing`, `AckedIsKept` (`AckedSomewhere`),
`QueueInOrder` (`QueueKeepsOrder`, which speaks of one worker) and
`UploadsArePooled`: behind the handles, too, the queue implements `UploadPool`,
which is what `GatewayLifecycle` composes with in its place. In write-through
mode (`~UseQueue`): `AckedThrough` (`AckedInS3`), `CleanIsSaved`
(`CleanMeansSaved`), `CacheOfBucket` (`CacheFromBucket`) and `BucketInOrder`
(`RealTimeOrder`). The hypothesis is needed: in write-back mode the run
`write_back_reflush` refutes `CleanMeansSaved`, and an upload is acknowledged
before it is in the bucket.

`NegCacheProofs`, for any names, prefixes, lifetime and size: `Typing`,
`NamesAgree`, `InOrder`, `TellsTruth` and `ReaperIsComplete`. The list and the
map are one invariant, `ListOf`: the list has each name of the map once, in the
order in which they expire. `RestThins` and `FrontThins` say that what `Rest` and
the reaper leave of a list keeps its order, and `ThinnedList` that it is then
still the list of what is left of the map; `Explained` says that an entry's
expiry is `TTL` after the time it was added. `ReaperIsComplete`, which no run
checks, is the reason for the order: a reaper that stops at the first valid name
leaves none that has expired.

Every safety invariant and action property of the passing runs, and the
refinement, has a theorem. What stays with TLC is liveness (`AcceptedSettles`,
`StopCompletes`, `EvictionCatchesUp`, `ExpiredGo`, `StartReturns`, `StopReturns`,
`CachesHeal`, `Discovered`), because TLAPS does not reason about fairness and
`ENABLED`. `Rest` and `TotalSize` are stated without a recursive definition
(`SelectSeq`, a fold over a set), about which the provers can show nothing without
an induction whose hypothesis is an operator.

## 5. Not modelled

* Offsets within a file: a write adds a chunk to a set. `Setattr` changes the
  size a node shows and neither the temporary file nor the object.
* Node attributes and kernel caching: no step of the code reads them back.
* Key syntax (`SplitKeyExported`): `Parent` and `Above` are given. A file and a
  directory of the same base name do not occur.
* In `Catalog`: the columns of a row, the flight of `HasDir`, which no cache
  answers, and the sync cursor, which is written and never read.
* In `Catalog`: operations whose transaction fails, which change neither the
  table nor a cache and are left out. The failing lookup in `Delete`, which goes
  on all the same, is there (`DeleteLook`).
* Requests of mounts that meet the closed catalog during `Stop`; they fail.
* In `BucketSync` and `DirOps`: the steps of a cache or of an upload, which
  `Catalog` and `WritePath` have, and more than one bucket, which share nothing.
* A marker is an object without content; that a lookup does not see a directory
  that has a marker alone is in `DirOps` (`ListS3`) as the code has it.
* A crash in `WritePath`: a restart loses the handles and the queue, and the
  staging files stay behind with nothing to find them.
* Requests that never end.
* Building S3 requests, error translation, configuration parsing, logging:
  pure functions.

## 6. What is left

1. Crash and restart in `WritePath`; `CacheCurrent` with failing local files;
   requests of mounts whose catalog has been closed.
2. Proofs: more of `GatewayLifecycle` than its three properties (what is open
   at each stage of a stop).
