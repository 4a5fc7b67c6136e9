# Miscreant in TLA+

TLA+ models of the miscreant git server (`src/`), their TLC configurations, and
TLAPS proofs of what matters most about them. Source paths below are relative
to `src/src/`.

Contents: [the system](#the-system), [modules](#modules-and-the-code),
[runs](#runs), [proofs](#proofs), [findings](#findings),
[what is not modelled](#what-is-not-modelled), [plan](#plan).

## The system

Miscreant serves git's smart HTTP protocol. All state is in one object store:
SlateDB (an LSM key-value store with a write-ahead log) for records, and blob
bodies longer than `inline_threshold` as objects of their own beside it. One
server process runs all requests as async tasks; between two awaits a task runs
alone, at an await any other task may run. There are no locks over the stored
data: correctness rests on the order of writes and on transactions.

| Component | State | Operations | Correct means |
|---|---|---|---|
| Push (`protocol/receive_pack.rs`, `git/ingest.rs`, `git/promote.rs`) | the request's commands, its staged pack, the traversal's stack, the plan | parse, ingest (thin bases from storage), validate, promote in three phases, flush, update refs, report | storage holds only objects whose closure is present, now and after a crash; `ok` means durable; no lost update |
| Object database (`storage/objectdb.rs`, `blobs.rs`) | object records, bodies | `put`, `get`, `read_compressed`, `exists` | a pointer record is never found without its body |
| Store (`storage/store.rs`) | object, ref, commit-graph, metadata segments | relaxed and awaited puts, `flush`, `update_refs`, `create_repo`, lookups | ref batches are serializable compare-and-swaps, with bounded retries |
| Commit graph (`git/walk.rs`, `promote.rs` phase 3, `rebuild-graph`) | one derived record (generation, tree, parents) per commit | `get_commit_info` with lazy backfill, extension by pushes, bulk rebuild | each record exact; gaps only towards the tips; rebuild repairs |
| Registry (`store.rs`) | `repo:<name>` to id, id counter | `lookup_repo`, `create_repo` | names and ids one to one; data under an id belongs to its name |
| Fetch discovery (`git/walk.rs`) | marks, generation-keyed frontier, pending set | `partition_wants`, `select_commits`, `collect`, filters | the client gets exactly what it lacks, or more, never less |
| Fetch protocol (`upload_pack.rs`, `upload_pack_v0.rs`) | one request, or stateless rounds | `ls-refs`, `fetch`, v0 negotiation, `object-info` | acknowledgements agree with the pack sent |
| Pack streaming (`upload_pack.rs`, `git/pack_out.rs`) | bounded channels between feeder, writer and response; delta window | `plan_pack`, `feed_objects`, `write_pack`, `stream_pack` | every party ends when any one does; a delta's base precedes it; a broken stream never looks complete |
| Part cache (`storage/part_cache/`, vendored from SlateDB with changes) | part files, tracked sizes, flights in progress, handles | cached reads, single flight, atomic writes, eviction, scan | reads agree with the store; the tracked size agrees with the files |
| Encodings (`keys.rs`, `values.rs`, `zlib.rs`) | none | encode, decode | injective, order preserving, round trip |
| HTTP, configuration, telemetry, errors | none | routing, classification | |

Interaction: `receive_pack` resolves the repository in the registry, reads
thin bases from the object database, writes objects through it, asks the walker
for the generations of older parents, flushes, and commits refs through the
store. A fetch reads refs, commit-graph records (writing the ones it misses) and
objects, at different moments and outside any transaction. Every read and write
of the object store may go through the part cache.

What is hard: pushes and fetches interleave at each await over shared records;
a push relies on what another push wrote but has not made durable, and may never
finish; a crash keeps a prefix of the writes of all of them; ref and creation
transactions conflict and retry a bounded number of times; derived records are
relaxed and may be lost, and several writers compute the same one. On the fetch
side, a listing or a negotiation spans several reads or requests while refs and
commits change; a walk trusts recorded generations that may be wrong; three
tasks hand a pack on through bounded channels, any of which may fail or go away
in the middle. The part cache keeps a book of its files apart from the files,
and shares one upstream request among callers that may be cancelled. The
`hazards` list in `PROJECT.json` has each of these at its line.

## Modules and the code

### Push

`Push.tla` models one repository and any set `Pushes` of concurrent
receive-pack requests, from a parsed request to its answer. A request is its
command list, the objects its pack carries and the thin bases the pack needs; an
object is its kind and the ordered ids its body names. Object ids are hashes, so
links are acyclic (`AcyclicAssumption`, witnessed by `Depth`).

Storage is what `store.rs` uses of SlateDB:

- `visObjs`, `visRefs`: what a read returns. Every write is visible once it is
  submitted.
- `queue`: the writes submitted and not yet durable, in submission order.
  `WalFlush` persists the head. (The log is flushed by one sequential task and
  replayed in order, as the comment at `promote.rs:204` relies on.)
- `durObjs`, `durRefs`: what recovery finds. `Crash` drops the queue, restarts
  from these and loses every request in flight. Since `WalFlush` and `Crash`
  interleave freely, any prefix can survive.
- `blobs`: offloaded bodies; an upload is durable when it returns.
- `owed[p]`: how many queue entries push `p` still waits for, in `Store::flush`
  or in the awaited commit of its ref transaction.

| Action | Code |
|---|---|
| `Ingest`, `IngestRejected` | `ingest_pack`: thin bases are read from visible records; a base found nowhere rejects the pack |
| `Settled`, `Descend`, `Disconnected`, `Emit`, `Validated` | one iteration of `validate`'s loop each. The code's stack of `Enter` and `Emit` steps is kept as `path` (objects with a pending `Emit`) and `at` (children of each already entered); `None` at the bottom stands for the list of tips |
| `PutExisting`, `PutAbsent`, `UploadBlob`, `PutRecord` | `ObjectDb::put` with its awaits: existence check, upload, record. `NextPut` is the order of phase 2: grouped by kind, post-order inside a group |
| `PutsDone`, `StartFlush`, `Flushed` | end of phase 2, phase 3 (whose writes nothing here reads), the flush barrier |
| `BeginTxn`, `ApplyCommand`, `Commit`, `Retry`, `GiveUp`, `Report` | `update_refs`: snapshot, one command at a time against the transaction's own view, commit, one retry, then `conflict` for all |
| `Fail` | an error or a dropped request at any await; what was submitted stays |

A transaction conflicts when a ref it read was committed by another since its
snapshot (`stale`). Whether SlateDB also refuses a transaction that wrote
nothing is left open: both outcomes are allowed (`MayCommit`).

`WellTypedPush.tla` adds the one assumption under which grouping by kind keeps
children first: no object names one of a later kind.

`Repository.tla` is the abstract promise: a closed object set that only grows,
and refs that move one whole push at a time, each push at most once, its
commands as compare-and-swaps in order. `DurableHistory` says that what recovery
would find (`durObjs`, `durRefs`, `landed`) implements it.

### CommitGraph

`CommitGraph.tla` models commits only. An actor is a fetch's `get_commit_info`
call (`Walkers`), a push (`Pushes`, phases 2 and 3 for its commits), or the
`rebuild-graph` command (`Rebuilder`, which runs while nothing else does, as it
opens the store offline). `LookupHit` to `BackfillMissing` are `get_commit_info`
and `backfill_commit_info`, one action per branch of the loop and a state per
await (`lookup`, `read`, `parse`, `put`); the rebuild shares `Resolved`,
`ReadMiss`, `Parse` and `PutRecord`, and differs in trusting no record. The
memo `parsed` is left out: it holds immutable bodies. A record is its
generation, 0 meaning none. Records may be missing or wrong at the start
(`Recorded`): relaxed writes get lost, and the rebuild exists for wrong ones.

### Registry

`Registry.tla` models `lookup_repo`, `get_or_create_repo` and `create_repo` and
one write (`Use`) of each request under the id it resolved. A creation is one
transaction over the id counter and the mapping, so it conflicts with any
creation since its snapshot. The id space is finite with `saturating_add`, and
larger than the number of names. `created` remembers which requests created a
repository, to state how the retry budget can be spent.

### Fetch: what to send

`Discovery.tla` is `Walker::select_commits`. `disc` is `struct Discovery`: the
mark of each commit, the frontier and the pending set. `MarkHaves` and
`MarkWants` are the two loops before the walk, `DrainLevel` pops one generation
off the heap (and fails over a parent's record that cannot be read), `Visit`
hands one commit's mark on to its parents, `Selected` ends the walk. The order
inside a level is left open (the code's is by object id). Records may be
missing, and generations wrong: `Resolves` says which commits `get_commit_info`
can answer.

`Selection.tla` is the abstract promise in one step: of the commits below the
wants, exactly those not below a recognised have, and whether the haves bounded
the walk.

`FetchPlan.tla` extends `Discovery` to `plan_pack`: `Partition`, `Peel`, then
`Discover` (a step of `Discovery`), then Phase II: `ExpandHaves` over the trees
of the recognised haves, `Classify`, `CollectNext` and `WalkTree` (one tree
depth, with `admit_blobs`' filter), `AddDirect`. Objects are ids; a tree is the
set of its entries, gitlinks included and dropped where `read_tree` drops them.
`ImplementsSelection` states that the walk, alone or within a plan, implements
`Selection` with the peeled wants, while the repository is intact; what the
planner does afterwards keeps the answer.

### Fetch: the protocol

`Requests.tla` reads bodies packet by packet through the three
`parse_request` functions (`ReadV2`, `ReadV0`, `ReadPush`), then dispatches.
Packets come from small sets of data lines plus flush, delimiter, response end
and undecodable bytes, and the body may end anywhere.

`LsRefs.tla` covers `ls-refs` and the two advertisements. `ListRefs` reads the
refs at once (`gather_refs`: one read per prefix, overlaid), `Hop` is one read of
`resolve_ref`, `Advertise` with `PeelRef` writes the line, and `PushRef` lets
pushes move, create and delete refs in between.

`Negotiation.tla` puts the server's rounds against a client as git's documented
protocol describes it (external): stateless requests that repeat all haves,
messages that get lost, commits that arrive at the server between rounds. The
server's walk is `Selection` (an `INSTANCE`), so that the two levels compose:
`Discovery` implements what `Negotiation` uses.

### Fetch: the pack

`PackStream.tla` has the tasks of `stream_pack_response`: look-ahead lookups and
`feed_objects` (`StartLookup` to `FeederEnds`), the blocking `stream_pack` with
`BandWriter` or `RawWriter`, and the response body. A pack is a sequence of
symbols: header, object positions, checksum.

`PackOut.tla` is `schedule_for_ofs` and `write_pack_with_options`: one action
per entry (`WriteVerbatim`, `WriteFull`, `WriteDelta`, `CorruptZlib`) and the
`DeltaCandidates` window. How well a delta compresses is an arbitrary size; what
the instructions are is `Delta.tla`, one step per turn of `make_delta`'s loop,
with the block index, the rolling hash and the encoded instructions. Word,
digit and limits are parameters scaled down for TLC. `Apply` decodes a delta as
git does.

### Part cache

`SingleFlight.tla`: `Call` joins or opens the cell of a key under the map's lock;
`Await` queues for the cell (tokio's `OnceCell`: one runs, the others wait in
turn); `Succeed`, `Fail`, `Wake` and `Cancel` end the wait; `Drop` is the guard.

`PartCache.tla`: folder, handle cache, evictor queue, and the in-memory book
(`size`, `index`, `keys`, `bytes`, and for access times the order `lru`). A path
names an inode, and an open handle keeps one after its path is renamed over or
removed. `atomic_write` reports, creates a temporary file (which the scan can
find and a failed write leaves behind), renames it and invalidates in separate
steps (`BeginWrite`, `CreateTmp`, `Rename`, `EndWrite`); any number of writes of
one path overlap, and the future that was to invalidate may be dropped after
its blocking task was started (`DropCaller`). A read takes the mutex of the handle
cache (`BeginRead`), opens and caches a file if it has no valid handle
(`OpenFile`, `PushHandle`), and reads and reports without the mutex
(`FinishRead`). Removals, too, invalidate in a step of their own. The evictor and
the scanner share `track_lock` (`Track`, `EvictStep`); an access time is taken
before the lock, so what the scanner books meanwhile may be younger (`later`). A
restart keeps the files and forgets the book.

`CachedStore.tla`: reads of one object through the cache. `HeadHit`,
`HeadMiss`, `Prefetch`, `SaveGetResult`, `PlanParts`, `PartHit` and `PartMiss`
follow `cached_get_opts`; ranges go through `CanonicalizeRange`, `AlignRange`
and `SplitRangeIntoParts` with u64 width `Word`. A byte is its offset, so wrong
bytes show. Evictions, failures, a put and a delete may come at any point.

### Faulty variants

Some definitions are preceded by a variant marked `(Mutant of ...)`: the same
definition with a plausible mistake. No specification uses them. Replacing the
definition by its variant must break the property that `PROJECT.json` pairs it
with; this shows that the property depends on that code.

## Runs

`tlc -config X.cfg Module`. Every run allows deadlock: the requests are finitely
many and the system stops once they are answered.

`MCPartCache`, `MCEndpoints` and `MCPackOut` each check three components that
share no state here. In a behaviour one of them, `running`, takes all steps and
the other two stay where they started, so that a run is the union of three state
spaces and not their product. Where a component needs several bounds, its
constant is a function from names to bounds (`Bounds`, `CacheLoads`,
`StoreLoads`, `Bodies`), and `Init` chooses one of them.

| Run | Checks | Shows |
|---|---|---|
| `push` (`MCPush`, `MCPush.cfg`) | `TypeOK`, `EveryPrefixClosed`, `EveryPrefixResolves`, `VisibleComplete`, `PointersBacked`, `ReportedIsDurable`, `SelfContainedAccepted`, `RefsMoveByCas`, `DurableHistory` | crash safety, no lost update and refinement of `Repository` for three pushes |
| `push_ends` (`MCPush`, `MCPushLive.cfg`) | `EveryPushEnds` | two racing pushes are always answered |
| `push_ill_typed` (`MCPushIllTyped`) | `EveryPrefixClosed`, violated | finding 2 |
| `commit_graph` (`MCCommitGraph`) | `GraphTypeOK`, `GenerationsExact`, `RecordsGrounded`, `EveryCallEnds` | a push, a fetch and a rebuild keep the graph exact across a crash, and the explicit-stack loops end |
| `rebuild` (`MCCommitGraph`, `MCRebuild.cfg`) | `RebuildCorrects` | a completed rebuild repairs records that were wrong and had spread |
| `backfill_race` (`MCCommitGraph`, `MCBackfillRace.cfg`) | `NoneMissing`, violated | finding 1 |
| `registry` (`MCRegistry`) | `RegistryTypeOK`, `OneIdPerName`, `ResolvedIsMapped`, `DataHasOwner`, `ContentionNeedsCreators` | creation races, and ids that a crash takes back |
| `fetch_plan` (`MCFetchPlan`) | `DiscoveryComplete`, `PlanExact`, `FailuresExplained`, `ImplementsSelection`, `PlanningEnds` | a fetch gets what it lacks and nothing it has; errors only for missing objects; refinement of `Selection` |
| `endpoints` (`MCEndpoints`) | `ServedIsWhatWasAsked`, `ListingTrue`, `NegotiationSound`, `EndpointsEnd` | parsers, advertisements and negotiation under cut bodies, moving refs, lost messages |
| `pack_out` (`MCPackOut`) | `ResponseHonest`, `ResponseEnds`, `PackWellFormed`, `Reconstructs`, `NoMissedBlock` | streaming never blocks or lies; packs and deltas decode to what was planned |
| `part_cache` (`MCPartCache`) | `SingleFlightInv`, `EvictorInv`, `EvictionReachesTarget`, `HandlesKeepUp`, `CachedReadsExact`, `CacheSettles` | one fetch per key; an exact book; handles that keep up with the folder; cached reads equal uncached ones |
| `cached_store_suffix` (`MCPartCache`, `MCCachedStoreSuffix.cfg`) | `EveryRangeMatches`, violated | finding 3 |

The properties in words:

- `EveryPrefixClosed`: whatever prefix of the submitted writes survives, every
  object found has its children.
- `EveryPrefixResolves`: whatever prefix survives, a ref found names an object
  found. This follows from the order of submission; removing the flush barrier
  would not break it. The barrier makes a write error surface in the push that
  caused it.
- `VisibleComplete`: a fetch at any moment finds refs that resolve, over a
  closed set.
- `PointersBacked`: a pointer record found, before or after a crash, has its
  body.
- `ReportedIsDurable`: a push that answered `ok` for a command survives a crash.
- `SelfContainedAccepted`: a pack with the whole closure of its tips is never
  rejected for connectivity, whatever other pushes write or lose meanwhile.
- `RefsMoveByCas`: a ref changes only in the commit of a push whose accepted
  command expected the value it held.
- `GenerationsExact`, `RecordsGrounded`: each record that can be read or
  recovered equals the topological generation, and has its commit object and its
  parents' records.
- `RebuildCorrects`: when the rebuild returns, every commit below a ref has an
  exact and durable record.
- `OneIdPerName`, `ResolvedIsMapped`, `DataHasOwner`: no id for two names, no
  request with another name's id, and after any crash no data under an id that
  belongs to another name or to none.
- `ContentionNeedsCreators`: `CreateContention` is only answered after as many
  other creations as there are attempts.
- `DiscoveryComplete`: the walk never stalls, and a selection together with any
  parent-closed set that has the recognised haves holds the wants and all their
  ancestors, whatever generations are recorded (`NeverStalls`, `NoGap`).
- `PlanExact`: the pack completes the client (`PackCompletesClient`), wants are
  never filtered out (`WantsAreServed`), nothing of the haves' snapshots is sent
  again (`SnapshotsNotResent`), and with exact generations no commit the client
  has (`NothingCommonSent`).
- `FailuresExplained`: an unknown have is dropped, a hole below a have or a want
  is an error (`HolesSurface`), and nothing but a missing or unpeelable object
  is (`FailuresHaveCause`).
- `ServedIsWhatWasAsked`: a body that is served was complete and its request is
  what the packets say; so no proper prefix of a v2 or push body is served.
- `ListingTrue`: an advertised value was the end of the ref's chain, each hop at
  some moment of the request (`LinesWereTrue`); each ref that exists, was asked
  for and has a symref chain nobody touches is shown with the end of that chain,
  whatever pushes do to the other refs (`StableRefsShown`); a peeled value is the
  end of the tag chain (`PeelsToTheEnd`).
- `NegotiationSound`: the client ends complete, nothing acknowledged is sent,
  `ready` means a pack without root commits, a NAK means nothing is common.
- `ResponseHonest`: a flush means the whole pack, a side-band client is told of
  any failure, and without side-band a short pack is visibly short.
- `PackWellFormed`: each delta's base is an earlier full blob of its group, each
  object is there once, and the window is the latest full blobs within its
  limits, of which the smallest delta was taken.
- `Reconstructs`, `NoMissedBlock`: the delta rebuilds the target at every step,
  and the scan never slides past an indexed block.
- `SingleFlightInv`: one function per key, each caller on its key's cell, no dead
  map entry. `EvictorInv`: tracked size and index vector match the booked
  entries, and an eviction spares the entry that caused it, unless the scanner
  booked a younger one while the write waited for the lock.
- `HandlesKeepUp`: a read returns bytes of a file that was at its path while the
  read ran (`ReadsAreCurrent`), and a cached handle of a file without a link is
  about to be dropped by somebody (`StaleHandlesGo`). The first rests on the check
  of `nlink`, the second on the invalidations and on the mutex being held from the
  open to the push: without it a reader could cache a file that was removed, and
  invalidated, in between. A handle that nobody drops can stay only when the
  caller of a write is gone after the rename, until the path is next read.
- `CachedReadsExact`: part files hold exactly their bytes, answers equal the
  inner store's, a stream that breaks off is a prefix, and a cold read asks
  upstream once.

Bounds. `MCPush` has three pushes that overlap in objects and refs: one names
the symbolic `HEAD`, one names a ref twice in a batch and pushes a tag, one has
a thin pack, a deletion and a tip it does not carry. Five objects give one of
each kind and a commit with a parent; one blob is offloaded. So each pruning of
one push at an object of another, each conflict and both retries happen.
`MaxCrashes = 1` is enough for states: after a crash the system is at a state
with only durable data, as after an earlier prefix; one crash exercises both
sides. The liveness runs use two pushes, and one walker with one push.
`MCCommitGraph` has a merge whose parents have different generations, the nearer
one first, over a history recorded by nobody or wrongly. `MCRegistry` has four
requests for three names and two attempts (32 in the code: the bound only scales
the number of creators needed). `MCFetchPlan` has every graph of four commits
with two wants and two haves for the exact walk, generations 1 to 2 in any
combination for the wrong ones (which gives every relative order of a parent and
a child), two holes and any recorded set over three commits; plans run over
trees that share subtrees and blobs, with a submodule, tags of tags and a tag of
a tree. `MCEndpoints` has bodies of up to six packets (room for a command,
delimiter, arguments and flush, and one packet too many), three refs whose
symrefs dangle or form a circle, one push (two in the stores with a chain of two
symrefs) so that one chain moves while others stand still, two prefixes that
overlap, and three commits with one lost message and one push. `MCPackOut` has
four objects against a look-ahead of two and a body channel of one, so that both
channels fill; a delta window of two, so that it evicts; and a two-letter
alphabet with blocks of two bytes and a six-bit hash that wraps and collides.
`MCPartCache` has three callers of one key, files for which the limit holds two,
a queue of one entry so that reports are dropped, and objects of 0, 3 and 4
bytes with parts of 3, under a u64 of 8 values so that every range up to the
overflow is tried; as with parts of 3 KiB, the part size does not divide the
number of values, and an end that wraps around falls inside a part. The loads of
the evictor: `three` and `two` have evictions that choose among files found in
the folder and a new one, `entry` a deletion, `one` a write, a read and a
deletion of one path, `handles` two writes and two reads of two paths without an
evictor (the steps on inodes and handles in every order), `rescans` and `again`
a periodic scan, with a restart in the last. Two temporary names allow two
writes, which is what two overlapping renames need; the two readers are one that
holds the mutex and one that uses a handle.

Fairness (`FairSpec`): the executor polls a request that was accepted until it
returns, so each handler's steps are weakly fair as one action; the flush task
of SlateDB runs on its own. In the fetch and cache runs the fair actions are the
steps of each spawned task (feeder, writer, evictor, scanner, a caller of single
flight) and of the handler; `track_lock` is tokio's fair mutex, so the two steps
that wait for it are strongly fair. A reader holds the mutex of the handle cache
only for an open, so its steps with the mutex are fair, and since reads and
writes are bounded nobody needs the mutex to be a fair one. In the negotiation
the client goes on with its fetch, and in the stream it keeps reading unless it
hangs up: both are assumptions about git, without which no response ends.
Arrival of requests, failures and crashes are not fair: none need happen.

## Proofs

Eight modules hold theorems. They are for every value of the constants: any
number of pushes, requests, commits, trees, callers and crashes. Each component
has one inductive invariant, off which the properties that the runs check are
read.

| Module | Theorem | States |
|---|---|---|
| `PushProofs` | `TypeCorrect` | `Spec => []TypeOK` |
| | `SafetyInvariant` | `SafetyInv` is inductive |
| | `CrashKeepsClosure`, `CrashKeepsRefsResolving` | `EveryPrefixClosed`, `EveryPrefixResolves` |
| | `ReadersSeeComplete`, `PointersAreBacked` | `VisibleComplete`, `PointersBacked` |
| | `TxnInvariant` | `TxnInv` is inductive |
| | `ReportsAreDurable`, `SelfContainedNeverRejected` | `ReportedIsDurable`, `SelfContainedAccepted` |
| | `NoLostUpdate` | the action property `RefsMoveByCas` |
| | `DurableStateIsAHistory` | `DurableHistory`: `Push` implements `Repository` |
| `CommitGraphProofs` | `GraphInvariant`, `GraphTypeCorrect`, `RecordsAreGrounded` | `GraphInv` is inductive; `GraphTypeOK`, `RecordsGrounded` |
| | `GenerationsStayExact` | `GenerationsExact`, if no record was wrong at the start |
| | `RebuildLeavesExact` | the action property `RebuildCorrects`, whatever was recorded |
| `RegistryProofs` | `RegistryInvariant`, `RegistryTypeCorrect` | `RegInv` is inductive; `RegistryTypeOK` |
| | `IdsAreNotShared`, `RequestsUseTheirOwnId`, `DataStaysWithItsOwner`, `ContentionIsEarned` | `OneIdPerName`, `ResolvedIsMapped`, `DataHasOwner`, `ContentionNeedsCreators` |
| `FetchProofs` | `SelectionIsComplete` | `DiscoveryComplete` of `select_commits` alone |
| | `FetchInvariant`, `PlannedWalkIsComplete` | `FetchInv` is inductive; `DiscoveryComplete` within `plan_pack` |
| | `PlansAreExact`, `FailuresAreExplained` | `PlanExact`, `FailuresExplained` |
| | `PlanImplementsSelection` | `ImplementsSelection`: `FetchPlan` implements `Selection` |
| `EndpointProofs` | `RequestInvariant`, `ServedRequests` | `RequestInv` is inductive; `ServedIsWhatWasAsked` |
| | `ListInvariant`, `ListingsAreTrue` | `ListInv` is inductive; `ListingTrue` |
| | `NegotiationInvariant`, `NegotiationsAreSound` | `NegInv` is inductive; `NegotiationSound` |
| `PackProofs` | `StreamInvariant`, `ResponsesAreHonest` | `StreamInv` is inductive; `ResponseHonest` |
| | `ScanInvariant`, `NoBlockIsMissed` | `DeltaInv` is inductive; the action property `NoMissedBlock` |
| | `DeltasRebuild` | `Reconstructs` |
| | `OrderInvariant`, `PacksAreWellFormed` | `OrderInv` is inductive; `PackWellFormed` |
| `CacheProofs` | `FlightsStayExclusive` | `SingleFlightInv` |
| | `CacheInvariant`, `BookStaysTrue` | `CacheInv` is inductive; `EvictorInv` |
| | `ReadsUseLiveFiles` | `HandlesKeepUp`, by a second inductive invariant, `ReadInv` |
| | `EvictionsReachTarget` | the action property `EvictionReachesTarget` |
| | `StoreInvariant`, `CachedReadsAreExact` | `StoreInv` is inductive; `CachedReadsExact` |
| `InductionLemmas` | (lemmas) | induction, recursion and sums for the others |

**Push.** The theorems of `PushProofs` assume only the named assumptions of
`Push` and `WellTypedPush`: `None` is no object; the constants have their types;
links are acyclic; kinds do not decrease along a link. Finding 2 shows that the
last one is necessary.

The goals are not inductive: that a record may be submitted depends on what the
traversal established several steps earlier, against records that other pushes
wrote. `SafetyInv` keeps:

- `VisibleIsQueued`: what readers see is what is durable plus what is queued, so
  that pruning at a visible record is sound for every later prefix;
- `WalkInv`, while a push validates: the path descends by `Depth`, so an
  ancestor is never met again; every settled object has a record, is planned or
  is being visited above; the plan so far is in post-order up to visible records;
- `PlanInv`, while it writes: the plan is in post-order, what was put is
  visible, tips are visible or planned, and the object being put is the next of
  the grouped order, with its body uploaded if it is offloaded. `ChildrenFirst`
  turns this, with the order of kinds, into the closure of the next prefix;
- `TipsVisible` after promotion and `ViewResolves` in the ref transaction, from
  which each ref write names objects submitted before it.

A crash loses visible records, but also every request that relied on them; this
is why the per-request part survives. `Stable` says that other actors' steps
keep a request's part, since visible records and bodies only grow otherwise.

**Ref transactions.** `TxnInv` follows a write set from its snapshot
to the disk. `SnapshotInv`: the refs a transaction began on are still current
except where it is marked stale, and running its commands on them one by one
gives its view, so a commit without conflict is one compare-and-swap after the
other on the current refs. `QueueInv` and `AwaitInv`: a push submits one write
set, and while it awaits, `owed` counts the queue exactly up to it; hence `ok` is
answered only once it has landed. `HistoryInv`: there are refs for each queued
write, from the durable ones to the visible ones, each write set being the effect
of its whole push (`Repository`'s `After`) on what precedes it. This makes
`WalFlush` a step of `Repository` at the head of the queue, and a crash none.
`ContainedInv`: the traversal of a self-contained pack never leaves the pack, so
no other push can get it rejected.

**Commit graph.** `GraphInv`: for every prefix of the queue a record has its
commit and its parents' records (`Grounded`), what is read is the last write of
a record, and what an actor has resolved so far has a record (`BackfillInv`,
`PushInv`). `ExactInv` adds that every memo and running maximum is exact. It is
inductive only under `RecordedExact` (no record wrong at the start), which is the
hypothesis of `GenerationsStayExact`: a backfill trusts the records it finds.
`RebuildLeavesExact` has no such hypothesis; `RebuildInv` says that the rebuild
runs alone, that all it resolved is exact in the graph, parents included, and
that it waits for all that is queued. `CommitAssumption` and `PushAssumption` say
that a commit's generation is one more than its parents' and that a push
brings parents before children, what `validate` lets through.

**Registry.** `RegInv`: ids are handed out without a gap, on disk, in each queued
creation and in what is read (`LogInv`); a write under an id is queued after the
mapping of the id to the same name (`DataFollowsMap`), so a crash that takes an
id back takes its data too; a transaction without conflict still sees the
current registry (`SnapshotFresh`); and each conflict of a request is another
request's creation (`ConflictsCounted`). `RegistryAssumption` keeps the number of
names below the id space, without which `saturating_add` hands the last id out
twice.

**Fetch.** `FetchInv` has four parts, three of which are about `select_commits`.

- `DInv`: a pending commit is a want on the frontier or in the level at hand
  (`PendingQueued`; so the frontier is not empty while one is pending); a want is
  sent or pending and what is sent has marked its parents (`WantsTracked`); a have
  mark never leaves what a client with the recognised haves must have
  (`HavesHeld`). Generations occur in none of them: the comment at `walk.rs` that a
  stall is unreachable "even with corrupt commit-graph generations" holds, and so
  does completeness.
- `ExactInv`: while generations decrease towards the parents, the haves run ahead
  of the wants (`Ahead`): a have is visited or queued, a visited one has marked its
  parents, and everything queued has a lower generation than everything visited.
  Then a commit visited as a want is below no have (`WantSpared`).
- `HoleInv`: what is marked could be read, and a failed walk has a missing commit
  in every parent-closed set that holds the request.
- `PInv`, for the planner: `haveObjects` is whole from the roots of the haves down
  to the trees of the current depth, and within every closed set that holds those
  roots (`ExpandInv`); what was collected is whole up to `haveObjects`, the trees
  of the current depth and the rest of the send list (`Collected`).

For the refinement of `Selection`, `EndInv` adds that only what the wants reach is
marked as wanted, and what ended the walk: a have that is still queued, or a sent
commit with the lowest generation seen, whose parents are then what is queued.
This is why `bounded_by_haves`, which the code reads off the frontier, is true
exactly when no root was sent. `Selection` is promised on an intact repository
(`Intact`: exact generations, nothing missing); elsewhere the theorem says
nothing and the other three do.

`FetchPlanAssumption` says that kinds of objects are disjoint, that there are
finitely many trees and tags, and that what a tree or a tag names has a smaller
number, as `Graphs` has it for commits. Ids are hashes of bodies that contain
the ids they name, so such a numbering exists.

**Requests.** `RequestInv` relates what a parser holds to the packets it read.
`ReadingInv`, while it reads: the fields of the request are those of the packets
so far, for v2 with the arguments being what follows the one delimiter
(`SoFarV2`), for v0 in the order of the wants and haves (`SoFarV0`), for a push
update by update (`SoFarPush`). `WholeInv`: a request that is handed to a handler
ended where its protocol lets it end, with a flush for v2 and a push. `ReplyInv`:
which checks a reply other than an error has passed. The length of a body is not
bounded by the proof.

**Listings.** `ListInv` allows for refs that move while they are listed.
`HistoryInv`: what the first scan read was the value of that ref at some time.
`OrderInv`: the names of the lines are below those still in the queue, so lines
are sorted and none repeats. `ResolveInv`: the cursor of `resolve_ref` is where a
chain of hops leads each of which was true when it was read. `ScanInv`: a ref that
exists, was asked for and is untouched is listed or in a scan to come. `StableInv`,
for each name by itself: while nothing on its chain has moved, the rest of the chain
leads where the whole one does, and once it is off the queue its line is right.
A push elsewhere keeps this, because two stores that agree on the names of a
chain lead to the same end of it, hop by hop (`FollowedAgree`), and the names a
chain went through at any moment only grow (`ChainNamesGrow`).

**Negotiation.** `NegInv` says why rounds that share no state on the server add
up. Haves and the server's commits are only added, so a have that was
acknowledged is common in every later round, and after a `ready` no root commit
is selected in any (`ToldInv`: with more haves a pack only shrinks). An answer in
flight says what was so when it was computed, and a pack in flight is the
selection for haves that include all that was acknowledged (`AnswerInv`); one
message is in flight while the client waits (`MessageInv`). The server's side of
a round is `Selection`, which `FetchPlan` implements. Losses, pushes and rounds
are not bounded by the proof.

**Single flight.** `OneFlight` is not inductive; that every guard refers to the
cell of its key, and that keys do not share cells (`GuardsMapped`), is, and
implies it.

**Part cache.** `CacheInv` has five parts. `FolderInv`: the types of files,
handles, writes and reads. `BookInv`: `keys` lists the booked files once each and
`index` says where, which `swap_remove` keeps (`Indexed`); of two booked files
exactly one is the older; `bytes` is the sum of the booked sizes. `TaskInv`: a task
that picks or removes holds `track_lock`. `EvictInv`: what it picked or removed is
booked, so the book does not move under it, and unless a removal failed it is
enough to reach the target. `NewInv`: the entry whose write started the eviction is
older only than those the scanner booked while the write waited for the lock, so a
pick of two chooses it only against one of these. `PartCacheAssumption` gives the
constants their types and says that there are finitely many files; limit, target,
sizes and the length of the queue are any numbers.

`HandlesKeepUp` needs a second invariant, `ReadInv`, over the first. `NamesInv`: an
inode has at most one path, and one not created yet is known to nobody.
`HandlesInv`: a cached handle is of the file at its path, or that file has no link
and a drop is due. `OpeningInv`: the mutex has one holder; the path it opens has no
handle, and what it opened is still there or its drop is due, for the invalidation
has to wait for the mutex. `SeenInv`: a read has seen each file at its path since it
began. Renames and removals then need one fact, that they move or cut a single
link (`FolderMoves`).

For reads through the cache, `StoreInv` says that a part file holds its part's
bytes (`FilesInv`), and of each reader (`ReaderInv`) that what it was sent is the
range up to some byte (`Sent`), that the list of parts it still wants covers the
range from that byte on (`Covers`), and that after an undisturbed prefetch all of
them are cached. `SplitCovers` and `SavedExact` are the arithmetic: the parts of a
range follow each other without gap or overlap, and a stream that starts on a part
and ends on one, or with the object, is cut into exact parts. The second condition
is the second assertion of `save_get_result`; an aligned end that wraps around u64
can break it when the part size does not divide 2^64, so `ReadsMatchInner` excepts
ranges that do not fit (`Fits`), and suffixes (finding 3). `CachedStoreAssumption`
says that sizes leave room for one part below the largest u64.

**Response stream.** `StreamInv` follows the bytes wherever they are: the
packets that the client has, those in the body channel and the write buffer
together are the pack up to the entry that was written last (`WrittenInv`), and
the objects in the hand-over channel are the next entries without a gap, a failed
lookup only ever the last (`ChannelInv`). `EndInv`: a flush or an error is the last
packet, a flush only follows the whole pack with its trailer, and with a side
band the client is told one or the other. The number of objects and the depth of
both channels are any numbers.

**Deltas.** `DeltaInv` says that the rolled hash is the fingerprint of the bytes
under the window (`WindowIsFingerprint`); the block index is a fixed function of
the base, and `NoBlockIsMissed` shows by induction over its blocks that each slot
in use refers to a block with its tag and that a block that occurs in the target
is found, unless its probe window was full. For `DeltasRebuild`, `RebuiltInv` adds
that the instructions so far, run on the base, give the target up to
`insertStart`. The instructions are read by the model's decoder, a recursive
function over the stream, so the lemmas under it say what the encoder's digits
read back as: a number of `Digit`s low digit first (`BaseRead`, `TargetRead`), a
copy with its zero digits left out (`CopyRuns`), a run of literals cut into
inserts of at most `InsertMax` (`InsertRuns`), and that running two streams one
after the other is running their concatenation (`RunCat`).

`DeltaAssumption` keeps the relations that the code's constants have: a word is a
power of two (said as: its divisors but 1 are even) and `HashBase` is odd, so
multiplication by it loses nothing; an offset fits into the four digits of a copy
and four times the base's length into a word (blobs for deltas have at most
2 MiB, `MAX_DELTA_BLOB_SIZE`), so the table of slots has a home for each hash.

**Pack order.** `OrderInv` has four parts besides the types. `ScheduleInv`: every
object has a place and the revisions of a path stand together. The sort is by
keys that end in the object, so no two are equal; `SortedFacts` shows that the
list in which each key stands behind as many as come before it has every key
once and in order. `EntryInv`: the entries follow the schedule, and a delta
(`DeltaOk`) rests on an earlier entry that was written in full and whose body
inflated, is no larger than what any candidate offered, and fits into half its
target. `WindowInv`: the candidates are such entries, `bytes` is the sum of their
sizes and within the limit; `BytesLeft` shows that counting down as candidates
leave gives the sum of those that stay. `LatestInv`: they are the latest full
blobs in the order of the pack, and the last one is always among them, because a
blob that is eligible fits the window alone (`MAX_DELTA_BLOB_SIZE` is not above
`MAX_DELTA_CACHE_BYTES`, in `PackOutAssumption`).

**Induction over data.** The library's induction theorems take an operator as a
parameter, which the installed provers cannot instantiate. `InductionLemmas`
states induction for a set of numbers instead, from well-foundedness
(`LeastNat`), and derives what the models compute with: the maximum of a finite
set, definition by recursion over the naturals (`Recursion`) and over numbered
things (`NumberedRecursion`) and up to a bound (`BoundedRecursion`), `SetToSeq`,
and sums over finite sets (`Total`), for which any member may be taken off first
(`TotalFacts`). The recursive functions of the models (`Ancestry`,
`ExactGeneration`, `Resolves`, `Under`, `Chain`, `Peeled`, `After`,
`BytesAfter`, `Best`) are shown to have the values their definitions say through
these.

**Only model-checked.** Liveness (`EveryPushEnds`, `EveryCallEnds`,
`PlanningEnds`, `EndpointsEnd`, `ResponseEnds`, `CacheSettles`), which needs
fairness and is out of this prover's reach. Every invariant and every action
property of the passing runs is proved.

## Findings

1. `backfill_race`. `get_commit_info` finds no record and starts a backfill,
   which reads the target's record again (`walk.rs:898`). If another call wrote
   it in between, the loop pops the target without setting `result`, and
   `walk.rs:945` returns `MissingObject` for a commit that is present with its
   record. `prefetch_records` makes such calls concurrently, and its comment
   (`walk.rs:1209`) says that they are safe. The stored data stays right; the
   fetch or push fails and succeeds when it is tried again.
2. `push_ill_typed`. Promotion regroups the post-order by kind, and
   `object_children` accepts a tree entry that names a commit under any mode but
   gitlink. The tree is then submitted before the commit, and a crash in between
   keeps a tree without its closure, against `promote.rs:7` and `promote.rs:211`.
   git itself does not write such trees.

3. `cached_store_suffix`. `align_get_range` rounds the length of a suffix request
   up to whole parts (`part_cache/cached_store.rs:489`), but when the object's
   size is no multiple of the part size the range that comes back starts inside a
   part, and `save_get_result` asserts that it does not (`cached_store.rs:280`):
   a cold suffix read panics, a warm one works. No code in `src/` outside the
   cache and its tests asks for a suffix today.

Four smaller observations, each visible in a model and outside the properties
that are checked:

- A write is reported to the evictor before it is done (`storage_fs.rs:235`).
  If it then fails, the entry stays in the book without a file, and the scan only
  adds entries, although `storage_fs.rs:586` says that it keeps the book
  "eventually consistent with the cache folder". An eviction that picks the entry
  removes it.
- The entry that a write has just inserted can be evicted at once, against the
  comment at `storage_fs.rs:833`: its access time is read before `track_lock`
  (`storage_fs.rs:619`), and the scanner may book a younger file while it waits.
  `NewEntrySurvives` says that this is the only way. The entry is only cached.
- For a tag chain longer than `MAX_PEEL_DEPTH`, `peel_ref` answers with the tag
  it stopped at (`upload_pack.rs:1237`), where the comment at 1212 says that such
  a chain is not peeled. `PeelsToTheEnd` is therefore stated for chains within
  the cap.
- A fetch of trees and blobs only returns from `plan_pack` before the haves are
  looked at (`upload_pack.rs:356`), so it answers NAK although a have is common.
  The pack is right. `DoneAckSaysCommon` leaves such requests out.

## What is not modelled

- Bytes: pkt-line and pack decoding, zlib, hashing, report and error wording.
  Requests, packs and entries are modelled by what they carry.
- `keys.rs`, `values.rs`, `zlib.rs`: pure encodings whose round trips the unit
  tests cover byte by byte; a model over a small alphabet would restate them.
- `ObjectDb`'s reads (`get`, `read_compressed`, `size`): they change no state;
  existence, corruption and failure of a read are inputs of the models that use
  them.
- `error.rs`, HTTP routing, configuration, telemetry, opening, closing and
  warming the store: no protocol state.
- In the part cache, `list`, `copy` and `rename` pass through and keep no state.
  `is_valid` on a platform that is not Unix looks for the path only
  (`storage_fs.rs:121`), and `delete` without an evictor removes the folder in the
  caller: the models have the Unix check and the evictor's deletion.
- A panic of the pack writer; a store error of the lookups that `Requests` makes.

## Plan

1. Done: `Push`, `WellTypedPush`, `Repository`; `PushProofs` with the
   refinement of `Repository`.
2. Done: `CommitGraph`, `Registry`; `CommitGraphProofs`, `RegistryProofs`.
3. Done: `Selection`, `Discovery`, `FetchPlan`; `FetchProofs` with the
   refinement of `Selection`.
4. Done: `Requests`, `LsRefs`, `Negotiation`; `EndpointProofs`.
5. Done: `PackStream`, `PackOut`, `Delta`; `PackProofs`.
6. Done: `SingleFlight`, `PartCache`, `CachedStore`; `CacheProofs`.
