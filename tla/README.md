# Verification of slatedb-cloudflare

This directory holds TLA+ models of the two SlateDB deployments of this repository, the TLC
configurations that check them, and proofs that TLAPS checks. The repository runs the SlateDB
storage engine over Cloudflare R2 in two ways: compiled to WebAssembly inside a Durable Object
(`durable-object/`), and natively inside a container whose R2 traffic passes through a bridge in
its supervising Worker (`container/`). The code that is the repository's own is the glue: the
lifecycle of the one open database, the adapters from `object_store` to R2, and the cache in
Durable Object storage. That glue is what is modelled. Paths below are relative to the repository.

## Inventory

| Component | State | Operations | Interacts with | Hard behaviour |
|---|---|---|---|---|
| `SlateDbObject` (`durable-object/src/lib.rs`) | `active`: the open Db, behind an async mutex | `database`, `reopen`, the routes of `handle` | the engine; the cache; R2 through the engine | requests interleave at every await; open and close are awaited under the mutex and can fail; the object is evicted with R2 requests in flight |
| SlateDB (external crate) | WAL in R2, memtable, writer epoch | build, put, get, flush, close | the object stores below | fencing of an older writer; durability waits |
| `R2Store` writes (`durable-object/src/r2_store.rs`) | none of their own; R2 holds the objects | `put_opts`, `copy_opts`, `delete_stream` | R2 binding | conditional writes whose answers are lost |
| `BindingStore` writes (`container/src/binding_store.rs`) and bridge (`container/worker/index.ts`) | none; requests and responses in transit | the same over HTTP | Worker, R2 | each hop can fail, before or after R2 acted |
| Multipart uploads (both adapters) | `next_part`, `finished`, uploaded parts | `put_part`, `complete`, `abort` | R2 | parts in flight together, in any order; dropped futures |
| `DoCacheStorage` (`durable-object/src/do_cache.rs`) | head and parts of each cached object | `save_head`, `save_part`, `read_head`, `read_part`, `delete`, `clear` | Durable Object storage; SlateDB's cached reads | fills race deletions; storage errors are ignored |
| Listings (both adapters, bridge) | cursor, buffered page | `list`, `list_with_delimiter` | R2 | the listing changes between pages |
| Conditional and ranged reads (both adapters, bridge) | none | `get_opts` | R2, bridge | the object is replaced or deleted during the call; 304 or 412 guessed from headers; dates cut to seconds; range arithmetic at the end of the object |
| Scan assembly (`lib.rs`, `main.rs`) | none | the scan route | the engine's iterator | truncation when exactly the limit, or one more, is left |
| Container service (`container/src/main.rs`) | `active`, cache directory | as `SlateDbObject`, `clear_cache`, shutdown | engine, file system | cancelled handlers; shutdown races requests |
| Worker routing (both) | none | token check, name check, name to object | the objects | none: stateless |
| Counters, block cache, benchmark, smoke test, patches | counters | | | none that the program decides on |

What makes each correct: an acknowledged write is never lost and is seen by later reads; one
database has one writer; a conditional write takes effect at most once and its answer is true; a
multipart object appears whole or not at all; the cache serves what the object holds, and its
entries go when their object does.

`PROJECT.json` lists the components with what is left out and why, and the hazards, each at the
line where it bites with the properties that watch it.

## Modules

```
SlateDb <- SlateDbObject <- ScanRoute <- MCSlateDbObject
                ^     ^         ^
                |     |         `---- SlateDbDataProofs -> SlateDbObjectProofs
                |     |                      ^
                |     `-- ContainerService <-+- ContainerServiceProofs
                |                ^---------- MCContainerService
                `-- SlateDbObjectProofs
WriteLog                                (implemented by SlateDbObject, ContainerService)

PutCalls <- ConditionalStore            (implemented by R2Store, BindingStore, MultipartUpload)
   ^  ^--- R2Store ------.
   `------ BindingStore <- Stores <- MCStores, StoresProofs
MultipartUpload <- MultipartUploadProofs

DoCache <- MCDoCache, DoCacheProofs
ListPager <- ListPagerProofs      ObjectReads <- ObjectReadsProofs
```

**SlateDb** is the engine as `lib.rs` drives it: the log of WAL objects of a database, each written
once by the conditional create the repository supplies (`Created`), the life of a Db (building,
open, closing, closed, failed), its buffer of accepted writes, flushing, fencing, and failures
whose R2 request may have been applied. It is external except for that create and for
`BuildStart`; compaction, manifests and block caches rearrange durable data and are left out.

**SlateDbObject** is `lib.rs`. `active` and `lock` are the mutex and what it guards; `pc[r]` is the
await at which request `r` stands; `held[r]` its clone of the Db. `database()` is
`DatabaseWrongName`, `DatabaseOpen` and `DatabaseOpening`; `reopen()` is `Reopen`, `ReopenClosed`
and `ReopenCloseErr`; both end in `Installed` or `OpenErr`. Each route has its action: `Put` (puts
and deletes, which both wait for durability) then `DurableOk`, `Get` (gets and scans),
`BenchPut`/`BenchOk`/`BenchErr` for the streams of a batch, `FlushCall`, `Stats`. `Evict` loses the
object: pending requests are lost, and the Dbs become `orphans` whose R2 requests may still land.

**WriteLog** is what the callers of either service see of their writes, and all they may rely on: a
database is a log of objects, each a set of writes; a write enters the log it was addressed to at
most once, after its request came, and stays; an ok of a put says that it has entered. An error, the
ok of a batch and a lost request promise nothing: their writes may enter later. Dbs, buffers, the
mutex and fences are no part of it. `LogKept` maps the object to it, `ServiceLogKept` the container:
the log is the log of WAL objects with the writers' names left out (`Logs`), the answer is where a
request ended (`Answers`; one whose handler was dropped or whose process is gone is lost).

**ScanRoute** is how both scan routes cut their answer from what the engine's iterator yields: the
limit of the query (`Limit`), the loop that reads one item more than the limit (`ReadsOn`,
`Collected`) and the answer with its `truncated` (`ScanResponse`). These are operators; when a scan
runs and on which Db is `Get` of SlateDbObject, so the property speaks of every scan that can be
asked in a state of that module: for every set of keys that its prefix may match, the answered writes
among them are listed, or come after what a truncated answer lists.

**ContainerService** is `container/src/main.rs`, on the handlers of SlateDbObject: `database()`,
`reopen` and the routes are line for line those of `lib.rs`, so each route is an action of that
module, named here for the container's handler. New are `ClearCache`, `ClearClosed` and `Removed`
(the thread that removes the directory), `Dropped` (a handler's future dropped at an await, with its
guard), `ShutdownSignal`, `CloseActive` and `Exit` (the end of `main()`), and `Replaced`, which is
to the process what `Evict` is to the object. A Db whose `open` or `close` was dropped is forgotten:
it joins the `orphans`, may still flush, and a later request may open another beside it.

**PutCalls** is what the stores share: calls, objects, answers, and what a caller may rely on.
**ConditionalStore** is the promise: a call takes effect at most once, in one step in which its
condition holds, and a refusal is true; any other error leaves it open. **R2Store** is the Worker
adapter (`PutConditional`, `Stored`, `FailedPutPrecondition`, `Generic`). **BindingStore** is the
container's adapter and the bridge: `PutOpts` sets the headers, `HandlePut` and `HandleThrows` are
`handleR2`, and the client's answer is `Succeeded`, `PreconditionFailed` or `Failed`. Both state
`KeepsPromise == Promise!Spec`, a refinement with the same variables. R2's ETag follows the
content, so an object is its own ETag: writing the same content twice gives the same ETag, a case
the properties allow for. **Stores** puts the two adapters beside each other: the callers of a
bucket all use the one or all the other, as in the two deployments, and those of the Worker's
binding name the ETag of an update (`NamesETag`), as SlateDB does; without that the Worker's adapter
overwrites (`r2_etagless`). Its history `applied` is the order in which R2 applied the requests to
each path: `OneCreator` and `OneUpdater` say what must have been applied between two calls that both
succeeded (`Between`). MCStores adds symmetry.

**ObjectReads** is one `get_opts` of either adapter while the object changes. `GetOpts` refuses what
is not sent; `R2Head` and `R2Get` are the R2 call with the bridge around it; `R2RangeErr` and `Fails`
are errors; `WorkerAnswers` and `BridgeAnswers` check the conditions again (`Checked`) on the
metadata that came back. R2 is external: `OnlyIf` lets it decide either way at the very date it was
told, as its documentation does not say; the bridge tells it whole seconds (`AsSent`). A body is the
interval of bytes R2 selects, a returned range what `returned_range` computes from the size. The ETag
of an object stands for its content, and so for its size. `ReadTypeOK` holds a returned range, and
its bytes, to the object returned with them (`InObject`).

**MultipartUpload** is one upload (`R2MultipartUpload`; `BindingMultipartUpload` is the same
machine over the bridge), its caller and R2. Part `i` is the data of the `i`-th `put_part`. A part
has its request at R2 (`part`) and its answer (`partAnswer`), which need not agree; so have
`complete` and `abort`. `UploadIsPut` maps an upload to one unconditional put of ConditionalStore,
made when `complete` sends its list.

**DoCache** is the cache of immutable objects. An entry is an object and a part size; its keys begin
with `EntryPrefix`, the pair of the two, so the model can mix up entries that share a location or a
part size (two `MUTANT`s do). `head` and `part` are kept by prefix; the tasks of SlateDB that fill
and read (external, `task`), a deletion step by step (`deleting`), and `Clear` work on them. Each
storage call is one step that may fail before or after it took effect. `Served` is what a cached read
answers in a state. `Evict` ends the tasks and the deletion between two steps; the storage stays.

**ListPager** is one listing of either adapter: the stream that `list` unfolds (`PageYields`,
`EmptyPage`, `Yield`, `StreamEnds`) and the loop of `list_with_delimiter` (`PageGathered`), over a
bucket that changes at any time. R2 (`PageEnd`, external) ends a page where it likes, but goes
further with each truncated page, and lists what is on it in order (`Objects`).

## Runs

| Run | Question | Bounds |
|---|---|---|
| `object_durability` | Are acknowledged writes durable, seen by reads and by complete scans, in order; is there one writer and one live Db? | 3 requests: enough for a writer, the Db that fences it and a reader, and for a reopen between two puts; a default limit of 1 and a maximum of 2, so that scans find fewer, as many and more keys than the limit |
| `object_drain` | Does an acknowledged flush drain what batches left in memory? Can writes reach another database's log when one object serves two names? | 3 requests: a batch, a flush, a reopen between; 2 names |
| `object_routes` | Is every request answered? Is the object, as its callers see it, one log per database? | 2 requests of every kind, 2 streams, 2 names: a write, and what fences, reads or races it, under the same name or the other |
| `conditional_put` | Do both adapters keep the conditional store's promise; do two creators, or two updaters of one ETag, both win only when something was applied between them; is a refusal final? | 3 callers, 1 path, 2 contents: two racers and one that changes the object between; over the bridge also updates without an ETag |
| `r2_etagless` | (violation) Does an update that succeeds always name an ETag? | the Durable Object's adapter alone, asked for such updates |
| `object_reads` | Is what a read returns one version of the object, with the bytes of the range it names; is every refusal and error true? | contents of 0 and 2 bytes, ranges from and to bytes 0, 1 and 3 (inside, at and past the end), 3 times with 2 to a second (a date in the same second as an upload), the object in 2 states during the call (`MaxSeen`): enough for metadata and body of different versions |
| `multipart_upload` | Does an object appear once, in order, and whole; is an abort final? | 4 parts against a limit of 3, so that the limit is met and parts overtake each other |
| `container_service` | With handlers dropped anywhere, shutdowns and replacements: is the process the log of writes that the object is, are acknowledged writes seen, is there one running Db, is the cache directory removed under none? | 3 requests: a put, a clear and a put after it |
| `container_shutdown` | Are requests answered, does SIGTERM end the process, and does a clean end leave no batch behind? | 2 requests of every kind |
| `list_pages` | Is a listing of a changing bucket true and complete, and does it end? | 4 keys, 2 of them nested, cut into pages in every way |
| `cache_entry` | Is what is served what was asked; does a clean delete leave nothing? | an object of size 3 under part sizes 1 and 2 (a short last part) and one of size 1 under part size 2, chunks of 2 (two chunks), 2 tasks: entries that share their location, or their part size |
| `cache_orphans` | (violation) Does a delete beside which no entry was filled leave no part without the head that a later delete needs? | as above |

Paths are independent in every store, so one path suffices for the races; a copy within one path is
still a read followed by a put. Requests, tasks and callers are used once each, so their number is
the bound on the length of a behaviour. The number of states an object goes through during a read
(`MaxSeen`) is the one bound of another kind. Symmetry is used in runs that
check safety only. Deadlock is checked everywhere except in `multipart_upload`: the caller of an
upload may stop at any time. Where every call may have been answered, a step that changes nothing
(`Quiescent`, `AllEnded`, `Over`, `Returned`) says that stopping is right.

Fairness is assumed in `object_routes`, `container_shutdown` and `list_pages`. In the last it is
that the consumer reads on and R2 answers. In the first two it is weak fairness of each request's
handler, because the isolate polls every task that can run, and of the engine's own steps while its
object lives. Nothing is promised of R2 requests of an evicted object; a Db that a dropped handler
of the container forgot keeps its tasks running while another handler waits on it. A handler that
waits for the mutex needs only weak fairness here because each request passes the mutex once.

Every property has a mutant in `PROJECT.json`: an operator beside the definition it replaces, marked
`MUTANT`, that changes the code's behaviour as a plausible bug would, and that TLC finds.

What the object's runs check of the shared handlers (types, durability, order, the drain) is not
checked again on the container by a run of its own; its proofs state each of them for the container
as well, and `ServiceLogKept` implies durability.

The container's properties are stated without what they cannot promise. A dropped `reopen` or
`clear_cache` may leave a Db running beside the next one: it harms no acknowledged write, because
fencing decides, but batches it buffered may be lost (`ShutdownDrains` exempts it). A dropped
`clear_cache` does not stop `remove_dir_all`, so the directory may vanish under the next Db, which
then reads from R2. Listings send the prefix without a trailing slash
(`durable-object/src/r2_store.rs:144`): R2 then also matches longer siblings of the path, where
object_store compares segments; ListPager counts the keys that R2 matches.

### Findings

* `r2_etagless`: `put_conditional` refuses an update without an ETag only if it carries a version;
  with neither it overwrites unconditionally (`durable-object/src/r2_store.rs:487`), against its own
  message "R2 conditional update requires an ETag" and the container's adapter. SlateDB always
  passes the ETag it was given.
* `cache_orphans`: `delete()` takes an error of `read_head` for a missing head
  (`durable-object/src/do_cache.rs:196`), deletes the head and no part. The trace saves a head and a
  part, and deletes with such an error: the part stays, and a later deletion, which counts the parts
  from the head, does not find it unless the object is cached again.
  `durable-object/README.md:228` says entries remain until SlateDB deletes the SST. The cost is
  storage only: a part that stays holds the bytes of its immutable object (`ServedIsAsked`). The same
  is left by a `delete_multiple` that fails (the error is ignored too), by an eviction after the head
  is deleted, and by a task that fills the entry beside the deletion.

## Proofs

TLAPS proves these for every number of requests, callers, names, paths, contents and parts. The
assumptions are the named `ASSUME`s of the modules: `None` is none of the other values (a kind of
put neither, `NoPutAssumption`), `OneClient` is a client, limits, `Second`, `Chunk` and the part
sizes are positive, and sizes and the numbers of keys and parts are natural.

* `SlateDbObjectProofs` starts with the engine's inductive invariant `EngineInv`. Its core is that a
  Db that has built wrote the object before its next one (`BuiltIsFenced`); if its next number is still free
  that object is the newest, so no other Db could have written since, and appending keeps
  `WritersContiguous`. A Db that has not built has nothing in any log (`UnbuiltIsAbsent`).
  To it the module adds what a request knows (`CallInv`: a request that waits for a call holds
  a built Db of the name it asked for, and a put waits for its own write) and proves `TypeCorrect`,
  `SingleWriter`, `AcknowledgedWritesSurvive` and `NothingIsRewritten`. `OneLiveDb` needs what the
  mutex orders (`MutexInv`): who holds it opens or closes a Db, with none installed, and every Db
  that runs is installed, or the holder's, or of a lost object; and that what is installed did open
  (`InstalledBuilt`). Its lemmas about one handler assume
  only `Shared`, so the container uses them as they are.
* `SlateDbDataProofs` proves what the object promises about its data, most of it from one
  invariant, `LogInv`: a write is handed to one Db of the name its request asked for, once, and is
  remembered by its request (`want`, `held`); so it is in no other buffer, while its Db can still
  write it is in no log, and the log it reaches is that of its name. `LogInv` speaks of no mutex and
  of no living object, so it holds of Dbs that were evicted, fenced or forgotten, and the container
  uses it as it stands. From it follow `DatabasesNeverMix` and `ObjectKeepsLog`, the refinement of
  WriteLog. `LogFollowsRealTime` (`PastInv`) is then an argument about that log alone: an answered
  put is in it, and it takes no write twice, so what begins later lands behind it.
  `AnsweredWritesAreRead` (`ReadInv`) does need the mutex: among the Dbs of
  the living object an open one has seen as much of the log as any other of its name, and with it
  every answered put (`Newest`); and no request of that object holds a Db of a lost one (`Current`).
  `ScansSeeAnsweredWrites` follows from the reads and the arithmetic of the loop, for every limit
  and any finite number of matching keys: an open Db that a request is about to read holds every
  answered write in its view, so those under the prefix are among the keys found; what is collected
  is all of these or one item more than the limit (`CollectedIs`), so a scan that does not say
  truncated lists them all.
  `FlushDrains` (`DrainInv`): what a batch wrote is buffered by its Db or in
  the log (`Placed`), a closed Db buffers nothing, and the one running Db is the one a flush drains.
* `ContainerServiceProofs` proves of the container's process `ServiceTypeCorrect`,
  `ServiceAcksSurvive`, `ServiceSingleWriter`, `OneServiceDb`, `CacheRemovedAlone` and
  `ShutdownSaves`, with handlers dropped at any await. The handlers of the object are used through
  `Shared`; the steps of its own leave a request as it is, end it, or turn a `clear_cache` to the
  next await (`Still`, `Turns`). `ProcessInv` says that while handlers run the mutex orders them,
  and that once `main()` closes the Db no handler runs and no other Db of the process does;
  `BatchInv` is the `Placed` of the drain, so a Db that closed leaves its batches in the log.
  The reads need more than in the object, because a Db that a dropped handler forgot may be open
  beside the next one (`ServedInv`): a Db is held only if it was installed once, an open one held by
  a request that reads is the one installed, and the one installed last has seen what any
  before it had answered. From it follow `ServiceReadsAreFresh` and `ServiceScansAreFresh`.
  `ServiceKeepsLog` (the refinement of WriteLog), `ServiceNamesNeverMix` and
  `ServiceFollowsRealTime` rest on the object's `LogInv` and `PastInv`: a dropped handler hands over
  no write and forgets no answer. `ServiceFlushDrains` has the object's argument (`DrainGoesOn`) with `ServedInv` for the
  mutex's: an open Db that a flush holds is the installed one, so a batch's Db that still runs is
  the same, or was forgotten. `ServiceRewritesNothing` says that no step, of a lost process either,
  removes or rewrites an object of a log.
* `StoresProofs` proves an invariant of each adapter. The bridge's: a request under way carries
  exactly the condition of its call, and a response tells the truth. The Worker's (`WInv`): what is
  sent is what `put_conditional` makes of the call, for callers that name the ETag of an update; an
  update without one is the finding `r2_etagless`. From them follow `BindingTypeCorrect` and
  `StoresKeepPromise`: initial states map to initial states and every step is a step of
  ConditionalStore or leaves its variables alone.
  `OneCreatorEver`, `OneUpdaterEver` and `RefusalsAreFinal` are what fencing needs. They use no step
  of an adapter, only that each is one of ConditionalStore (`FenceInvariance`), so they hold of any
  store that keeps the promise. `AppliedInv` says of the history `applied` that it holds every stored
  call, that a path holds what the last call applied to it left there, and that each conditional
  call found its condition true where it was applied; so between the earlier and the later of two
  creates something emptied the path, and between two updates of one ETag that content came back
  (`FoundBetween`).
* `ObjectReadsProofs` proves all four invariants of ObjectReads for any sizes, ranges, dates and
  length of a second. Its invariant says that a reply under way is of a version seen during the
  call, and that its body is what `returned_range` will compute from that version's size; the
  arithmetic it rests on is that dropping the fraction of a second keeps the order of two dates.
* `ListPagerProofs` proves `ListTypeOK`, `ListingIsTrue` and `ListingIsComplete` for any number of
  keys and any pages. Listed keys lie below buffered ones and both below the cursor (`Ordered`,
  `CursorInv`), and each key below the cursor that stayed is listed, buffered or rolled up
  (`CoverInv`), so nothing is lost where a page ends.
* `MultipartUploadProofs` proves `CompletedObjectIsWhole` and `AbortIsFinal` for any number of
  parts and any limit. Until the upload is finished or full its next part number is that of the next
  call, so part `i` carries number `i` and R2 holds under number `n` the data of call `n` or
  nothing; `complete` and `abort` never both have a request; and a `complete` that waited sent the
  numbers `1..k` of its `k` stored parts, in order (`InOrderInterval` is the sort).
  `UploadTypes` and `UploadKeepsPromise` hold for a caller that did not wait, too: any finite set of
  numbers has one increasing list (`InOrderIs`, by counting how many are below each), so what
  `complete` sends is increasing, and as R2 holds under number `n` the data of call `n`, the object
  is that list.
* `DoCacheProofs` proves the three invariants of the cache, for any objects, part sizes and chunks.
  Different entries have different keys (`PrefixesDiffer`), so a step on one leaves the others alone.
  A stored part holds the bytes its key names and a stored head the object's size (`EntryInv`), so a
  range of a part is the range of the object (`PieceShape`, `RangeServed`). A task knows the entry
  it works on (`TaskInv`). A clean deletion has met no task of its entry, and what is still stored of
  it is still to be deleted (`DeleteInv`); the steps of the other tasks leave that so (`TasksLeave`).

Every invariant, action property and refinement that a passing run checks is also proved. Model-checked
only are the liveness properties (`EveryRequestAnswered`, `ServiceAnswers`, `ShutdownEnds`,
`ListingEnds`): they need fairness and ENABLED, which are out of the prover's reach. That the loop of
a sort or of a scan ends is not the prover's either: both are given by what they compute.

## Not modelled

* The text of keys and prefixes: which keys R2 matches to a prefix (see above) is not ListPager's;
  `authorized`, `route_segments` and `validate_database_name` are
  stateless checks of strings, and SlateDB's names are values of `Names`.
* In ObjectReads: lists of ETags in one header, and the last 0 bytes (`Suffix(0)`), whose meaning is
  R2's. A body that breaks off after the headers reaches the caller as an error of the stream, which
  is not part of what `get_opts` returned.
* The counters (`perf.rs` and the atomics of `binding_store.rs`) and the read-only reports built
  from them: nothing decides on their values. The benchmark, smoke test and vendoring scripts
  measure or build the program and are no part of it.
* The decoded block cache (`db_cache.rs`) hands each call to `quick_cache` and keeps no state.
* SlateDB beyond what `lib.rs` relies on: compaction, manifests and block caches rearrange data that
  is durable already.
* A reopen under another name through the disk cache: the cache sits above the prefix of the name,
  and the Worker gives each name an object of its own (`durable-object/src/lib.rs:160`), so the
  program does not meet it and no run composes DoCache with two names.

## Plan

What is left are the liveness properties: they could be reduced to lemmas about single steps (what
makes a handler's step possible), which are non-temporal and so within the prover's reach. Eight
modules hold proofs; these belong in the existing ones.
