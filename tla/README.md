# A TLA+ model of ncps

ncps is a caching proxy for Nix binary caches. Clients ask it for narinfos and
NARs; what it does not have it fetches from upstream caches, streams to the
client while it is downloading, stores (as a whole file or as content-defined
chunks), signs and tracks in a database. Several instances may share one
database, one storage backend and a Redis server for locks. Almost all of the
protocol is in `pkg/cache/cache.go`; the line numbers below are of that file
unless another is named.

1. [Inventory](#1-inventory)
2. [Plan](#2-plan)
3. [Modules](#3-modules)
4. [Runs](#4-runs)
5. [Fairness](#5-fairness)
6. [Proofs](#6-proofs)
7. [What the code does not guarantee](#7-what-the-code-does-not-guarantee)
8. [What is not modelled](#8-what-is-not-modelled)

## 1. Inventory

| Component | State | Operations |
|---|---|---|
| NAR download coordination | `upstreamJobs` of each instance, a `downloadState` per download (bytes written, final size, error, the channels `start`, `stored`, `done`, the flag `closed`, the wait groups), the temp file, the download lock | `GetNar` 953, `prePullNar` 3490, `coordinateDownload` 4909, `pullNarIntoStore` 2312, `storeNarFromTempFile` 1664, the cleanup goroutine 2420 |
| Content-defined chunking (CDC) | tables `nar_files` (`total_chunks`, `chunking_started_at`), `chunks`, `nar_file_chunks`; the chunk store | `storeNarWithCDCFromReader` 1866, `findOrCreateNarFileForCDC` 2097, `cleanupStaleLockChunks` 2205, `recordChunkBatch` 2274, `getNarFromChunks` 6104 |
| LRU eviction and closure pins | tables `narinfos`, `nar_files`, `narinfo_nar_files`, `pinned_closures`; the stores | `runLRU` 5620 by cron, `PinClosure` 6779, `UnpinClosure` 6805, `GetPinnedClosureHashes` 6843 |
| NarInfo flow | `narinfos` and their references and signatures, legacy narinfos in the store | `GetNarInfo`, `pullNarInfo` 3140, `PutNarInfo` 3312, `storeInDatabase` 4086, `purgeNarInfo`, background migration |
| Locks (`pkg/lock`) | local: a map of reference-counted mutexes; Redis: mutexes with a TTL, a reader hash, a fallback locker, a circuit breaker | `Lock`, `TryLock`, `Extend`, `Unlock`, `RLock`, `RUnlock`, the refresher |
| Circuit breaker (`pkg/circuitbreaker`) | failure count, time of opening | `AllowRequest`, `RecordFailure`, `RecordSuccess`, `ForceOpen` |
| Upstreams and health checks (`pkg/cache/upstream`, `pkg/cache/healthcheck`) | the list of upstreams, the health and priority of each | `check`, `selectUpstream` 5979 |
| Fsck (`pkg/ncps/fsck.go`) | what the phases have found | consistency phases and repairs |
| Migrations | the rows and files being moved | `MigrateNarToChunks` 6519, `runCDCDeletedCleanup` 5721, `runCDCLazyRecovery` 5804, `migrate-narinfo` |
| Stores (`pkg/storage`) | files or S3 objects | put by temp file and rename, get, delete |
| HTTP server (`pkg/server`) | none of its own | GET, HEAD, PUT and DELETE of NARs and narinfos: negotiation of the encoding, the headers, the body |
| Start of a process (`pkg/ncps/serve.go`, `pkg/config`, `setupSecretKey` 4783) | the table `config`: cluster UUID, signing key, CDC settings | reading or storing each of them, `ValidateOrStoreCDCConfig`, migration of the deprecated key |
| Database access (`pkg/database`) | the tables | the queries and the cascades of the schema |
| Command line, compression, URLs, telemetry | none of the protocol's | parsing, conversion, reporting |

How they interact. A request of the HTTP server calls `GetNar` or `GetNarInfo`.
Both look in storage and the database and, failing that, go through
`coordinateDownload`: join the download another request of this instance has
registered in `upstreamJobs`, or take the download lock, look again, register a
`downloadState` and start a goroutine that pulls. Requests then read the temp
file of the download through the `downloadState`, woken by a condition variable.
The pulling goroutine stores the NAR, or starts a chunker, which reads the same
temp file or a complete one; a cleanup goroutine removes the temp file once
everybody has left. Instances meet in the lock, the rows of `nar_files` (whose
`chunking_started_at` is a lock with a time to live), the store and the crons.

What is hard: goroutines of one download that hand over duties (who takes the
job out of `upstreamJobs`, who releases the lock, who removes the temp file) on
every path including the failing ones; readers that join or sleep while the
download ends; instances that die holding a Redis lock, a chunking lock, half of
the links of a NAR, or a file without a row; chunkers, readers, the cleanup of
stale chunks and the eviction working on shared chunks; upstreams that end a
body early. The list is in `PROJECT.json` under `hazards`, each entry with its
line and the properties that cover it.

What makes each part correct:

- download: one upstream fetch at a time; a lock that is taken will be released;
  no reader loses its temp file and every temp file goes in the end; a job is
  listed exactly as long as somebody will take it out; every request ends; who
  saw the end of the stream can find the NAR.
- CDC: a NAR marked chunked has exactly its chunks and their files; a reader
  streams exactly the NAR or reports an error, and ends.
- LRU: the cache shrinks to its size; pinned and shared things stay; an eviction
  forgets no file that a row named.
- NarInfo flow: a narinfo that is served has a NAR that is stored or coming.
- Locks: mutual exclusion while no TTL passes; no lock is lost between Redis and
  the fallback; the breaker lets one probe through.
- Upstreams: a miss is reported only when all who were asked miss.
- Stores: what is read is whole, and a chunk is new for one caller only.
- Start: the signing key and the CDC sizes are settled once.
- Fsck and migrations: what they delete is unreferenced or replaced.
- HTTP server: the headers of a response describe its body.

## 2. Plan

The order is by how much of the system depends on the part.

1. `NarDownload` with `NarDownloadMC` and `NarDownloadProofs`: done.
2. `CdcChunking` with `CdcChunkingMC` and `CdcChunkingProofs`: done. It details
   what `NarDownload` abstracts to the four states of a row ("plain", "chunking",
   "stale", "chunked").
3. `LruEviction` with `LruEvictionMC` and `LruEvictionProofs`: done.
4. `Database`, and over it `NarInfo` with `NarInfoMC` and `NarInfoProofs`: done.
5. The locks: `AbstractLock`, `CircuitBreaker`, `LocalLock`, `RedisLock`,
   `RedisRWLock`, with refinements of the three lockers to `AbstractLock`, and
   `LockProofs`: done.
6. `Fsck` with `FsckMC`, `Migrations`, `Stores`, `ChunkStore`, `Upstreams`,
   `Startup`, `HttpServer`: done. `Services` with `ServicesMC` puts those of 5 and
   6 that share no state into one run; `StoreProofs` and `ServerProofs` are about
   the stores and upstreams, and about start, migrations and HTTP server: done.
7. Proofs of the invariants of the runs that were left, `HealthyKept` of `Fsck` in
   `FsckProofs` and the type invariant of `CdcChunking`: done.

A refinement still worth stating is from `CdcChunking` with one NAR to the row
and chunker part of `NarDownload`.

## 3. Modules

### NarDownload

One NAR hash, any number of servers and requests. A request creates at most one
`downloadState`, so the state of a download is named by the request that created
it: `written[d]`, `final[d]`, `failed[d]`, `start[d]`, `stored[d]`, `done[d]`,
`closed[d]`, `wg[d]` are the fields of `downloadState` (416-458), `temp[d]` is its
temp file. A wait group is the set of those that called `Add` and not yet `Done`,
which says who is missing when it does not get to zero. `pull`, `cdc`, `clean`
and `duty` are the program counters of the goroutines: `pullNarIntoStore`, its
chunker, its cleanup, and the one that releases the lock; `pc` that of the
request. `file` and `row` are the storage and the `nar_files` row shared by the
servers, `lock` the download lock, `held[s]` the mutex server `s` remembers for
its key (the Redis `Unlock` goes by key), `job[s]` its entry in `upstreamJobs`.

`Mode` chooses between the three paths of `pullNarIntoStore`: CDC off, CDC while
the download runs ("pipe"), CDC from the complete temp file ("eager"). `Faults`
names what may go wrong: "upstream", "truncate" (a body that ends early with a
clean EOF), "store", "database", "cancel" (a client leaves; the three places
where `GetNar` notices), "crash", "expire" (a live server loses its Redis lock),
"stale" (the chunking lock gets old). `MaxFaults` bounds failing fetches and
transactions, crashes and lost locks; the failures it does not count end the
goroutine they happen to. A row "left" is "chunking" to the code: the database
failed when the chunker that ended wanted to clear `chunking_started_at` (1894).

Steps nobody can tell apart are one action: closing several channels and the
broadcast that follows, the lookups at the start of `GetNar` (repeated under the
lock). Bytes are `NarLen` blocks. Left out: the branch that decompresses
(1152-1197), which is dead because 1109 sets the compression of the URL to that
of the state; the read lock on `narJobKey` (975), which nobody takes for writing;
the relinking of narinfos, which is in `Migrations`.

### CdcChunking

Any NARs, as sequences of chunks that may be shared; calls of
`storeNarWithCDCFromReader` ("attempts"), the chunk phase of `runLRU` and readers.
`row`, `narId`, `total` are `nar_files`; `links` is `nar_file_chunks`; `rows` and
`made` are `chunks`; `files` is the chunk store. The chunk `-c` is the torn
remainder of chunk `c` when a stream ends inside it. Ids are not reused, so the
row an attempt or a reader remembers is told from a later one by a count.

An attempt is `Begin` (take or skip the row), `FindOrphans`, `DeleteChunkRow`,
`DeleteChunkFile` (the cleanup after a stale lock, which is not a transaction),
`PutChunk`, `Flush`, `Finish` (the batches), `Mark`, and `Fails` for every error
return. `Streams` is what the chunker delivers: the NAR, a cut NAR, an error. The
boundaries themselves are given by `Content`. A reader takes the fast path
(`QueryAll`) or the progressive one (`Query`, `Fetch`, `CheckRow`, `WaitTimeout`).
Faults: "truncate", "readError", "cancel", "store" (also database errors),
"crash", and "slow", which lets a lock get stale under a chunker that works. A crash
may come between a row that is deleted and its file, in an attempt (`Crash`) and in
`runLRU` after its commit (`EvictionDies`, 5691-5698). `lost` remembers the chunks
whose file such a crash, or a failing deletion, has left behind, until the chunk is
put again or its file goes.

### LruEviction

The narinfos and the relation `older` that orders them by their last access, their
NARs (shared or not), the pins, and `runLRU` as five actions: read the pins (`LruStart`), the transaction
(`LruCommit`, or `LruNothing`), one deletion per file, the end. `Candidates`,
`Eligible` and `Evicted` translate the search and the loop of
`deleteLRURecordsFromDB`: the window of bytes that doubles while all it holds is pinned, the query without
ORDER BY (so the candidates come in any order), the NAR counted once for every
narinfo, the condition that looks at the last candidate but one. Sizes are small
numbers; `maxFetchSize` keeps its value. `RefHash` is the conversion of a
reference to a narinfo hash by its length.

A row names its NAR's file by hash and compression. A file is a NAR and an
extension: `Own(n)` is the name the row gives it, `Zst(n)` the `.nar.zst` file under
which a NAR downloaded without compression is stored (1701-1725), which no row names
and no eviction deletes. `Faults`: "store" (a file is not deleted, 5586),
"database" (the row of a stored file cannot be written), "crash" (the server dies,
between the commit and the deletions as well). `left` remembers which own files such a
failure has left behind, until their NAR gets a row again.

### Database

The queries of `pkg/database` as operators on a record with one field per table.
A query that writes returns the new tables, with the cascades of the schema;
one that reads returns keys or rows. The three dialects and their generated
wrappers do the same, so one operator stands for all of them. `Fsck`, `NarInfo`,
`Migrations` and `Startup` extend it.

### NarInfo

GET, PUT and DELETE of narinfos and PUT of NARs on several servers. A process is
a request, or the pull (`pullNarInfo`), the migration of the narinfo
(`MigrateNarInfo`) or that of its NAR to chunks (`MigrateNarToChunks`, after a hit at
3016 or a legacy narinfo at 3693) that a request starts in the background; `pc` says
where it is and `ret` what becomes of the outcome of the shared routines
`getNarInfoFromDatabase` and `purgeNarInfo`.
`GetNarInfo` looks in the database, in the legacy store and upstream, each look
being its own step. A row is absent, a placeholder without URL, or complete. The
NAR is seen from here as stored, being downloaded (a job, a lock) or absent.
`Configurations` says whether CDC is on, how NARs are compressed, whether upstream
has the narinfo, whether the server is upload-only and which requests come together;
`Shapes` what an earlier run has left. Faults: an error of a lock ("lock") or of the
database ("database") at the places where the code meets one, each with what the code
does about it there (some errors fail the request, some are taken for a no, a failing
migration goes on with its clean-up), "sign", "nar" (the NAR's download fails) and
"crash". `faults` lists them with the process that met them. `kept` are the narinfos
that must not be lost: a DELETE takes one out, and so does the migration of the NAR to
chunks when it deletes the whole file of a narinfo that only the legacy store has
(`ReadFromLegacy`). Lazy chunking is left out.

### Fsck

`ReadNarFiles`, `Collect`, `Verify` and the repairs of `fsck.go`, one action per
look and per deletion: fsck collects suspects, looks at each again, and before
each deletion looks once more; then come the sweeps for what the deletions have
orphaned. Servers upload and chunk next to it (`MaxWrites`). `options` are
`--verified-since` and `--verify-content`; whether chunks are checked follows
from the CDC settings in the database. `Shapes` are the remains it may meet: a
file without a row, a row without a file, a narinfo without either, a gap in the
chunks, a chunk lost or corrupt.

### CircuitBreaker, AbstractLock, LocalLock, RedisLock, RedisRWLock

`CircuitBreaker` has the operations of the breaker as operators on its state,
with the age of `openedAt` in place of a clock. `AbstractLock` is what
`lock.Locker` promises of one key: a caller comes in when nobody is in.

`LocalLock` is one key of the local lockers: the map entry, the `keyLock` objects
with their mutex, and the reference count as the set of those who raised it. A
dropped object may be allocated again.

`RedisLock` is one key of the distributed locker: the Redis key with the token of
its holder, the mutex each server remembers for the key, retries, the breaker and
the local fallback of degraded mode. Answers may be lost, Redis may go down, a key
may expire and a holder may crash. `PromisedHolders` is the refinement mapping:
those who have the lock as long as no fault has taken the ground from under it
(`intact`), nobody after that.

`RedisRWLock` is one key of the read-write locker: the writer key, the hash of
readers with one field for each instance, and the polling of a writer until the
hash is empty.

### Stores, ChunkStore

`Stores` has one NAR and one narinfo in the local or the S3 store. On the file
system a NAR is written to `store/tmp` and renamed, the directories are made on
demand and removed when empty, a narinfo is written in place; a start sets the
directories up and removes `store/tmp`. `ChunkStore` has one chunk, linked from a
temporary file or put to S3 under a lock. Faults: crashes and failed writes.

### Upstreams

`AddUpstreamCaches`, the health checker with its channel of changes, and
`selectUpstream` with the goroutines of its race: who is asked, the answers in the
two channels, the closer, the one who picks. Whether an upstream has the asset,
lacks it or fails is chosen for each request.

### Startup

The queries by which a start settles the cluster UUID, the signing key and the
CDC settings, in their order, each under the lock of its own key only. A process
may die between any two. `raced` marks starts that overlap.

### Migrations

One NAR and one narinfo. `MigrateNarToChunks` as the background goroutine, the
cron and the command call it, uploads that chunk the same NAR without the
migration lock, `migrateNarToChunksCleanup`, `runCDCDeletedCleanup`,
`runCDCLazyRecovery`, and `migrate-narinfo`. A chunking ends with `total_chunks`
set or is given up. One that takes over a stale lock first deletes the links of the
attempt before it (2180) and its orphaned chunks (`CleanStale`); that attempt may be at
work still, and go on from there (`Overtake`). `torn` says that `total_chunks` is set
and links are missing: the NAR then counts as one that cannot be served. Faults: "crash", "expire" (the migration lock, which nobody
extends), "stale" (a chunking of over an hour).

### HttpServer

The handlers of `server.go` for one NAR: the negotiation of the encoding, the
headers and the body, against a cache that holds the NAR as whole files, as chunks
or as a download in progress. A format has its own number of bytes, so that a
header can be wrong about the body.

### The instances

`NarDownloadMC`, `CdcChunkingMC`, `LruEvictionMC`, `NarInfoMC`, `FsckMC` and
`ServicesMC` say which request or caller reaches which server, what the NARs
consist of, which narinfos share a NAR and refer to each other, which remains of
earlier runs are met, and with which flags a process starts.

`Services` instantiates the locks, stores, upstreams, start, migrations and HTTP
server. They share no state and each is small, so that one run checks them all: a
behaviour is one of the component that `part` names. The callers, lock objects,
processes, upstreams, clients and bounds are its constants.

## 4. Runs

Every property has in `PROJECT.json` a mutant, an operator next to the one it
mutates, under which TLC finds the property violated.

| Run | Instance | Shows |
|---|---|---|
| `NarChunking` | one server, two requests, NAR of two blocks, "pipe"; upstream failures, truncation, a failing database, one lost or stale lock | `TypeOK`, `JobsAreListed`, `TempFilePresent`, `ChunkingLockOwned`, `ChunkedIsWhole` |
| `NarLive` | two servers and two requests, CDC off, Redis lock; one crash; storage failures and clients that leave | `SingleDownload`, `LockHasReleaser`, `ServedIsTracked`, `StreamedIsStored`; `RequestsFinish`, `LockReleased`, `TempReclaimed` |
| `NarLostWakeup` (violation) | one request whose download fails | `FailedDownloadWakesReaders` is violated |
| `CdcRestart` | three attempts on one NAR with a repeated chunk, sharing a chunk with a completed NAR; crash, cancel, store and read errors | `TypeOK`, `ChunkedIsIntact`, `ChunkFilesPresent` |
| `CdcReaders` | two attempts, a reader and one eviction; a crash of an attempt or of the eviction | `StreamedIsContent`, `FilesTracked`, `ReadersFinish` |
| `CdcTornRetry` (violation) | two attempts, the first truncated | `ChunkedIsIntact` is violated |
| `LruRun` | three narinfos, two of them sharing an uncompressed NAR, three uploads or downloads, pins, a failing store and database, one crash | `TypeOK`, `FilesAccounted`, `PinnedRootsKept`, `SharedNarsKept`, `SpaceReclaimed` |
| `LruPins` (violation) | the same, with a chain of references | `PinnedClosureKept` is violated |
| `NarInfoRun` | one narinfo and its NAR, two servers; two GETs, or a GET, a PUT and an upload, or a GET and a DELETE, each with the background migrations; six configurations, eight shapes, one fault; 1.04 million states up to symmetry | `TypeOK`, `PathKept`, `FoundWhileKept`, `SizesAgree`, `WaitedForIsAlive` |
| `FsckRepair` | two NARs that share a chunk, one narinfo each, a chunk of no NAR; twelve shapes; two steps of servers | `HealthyKept`, `EventuallyClean` |
| `Services` | each service on its own, see below | `LocalExclusive`, `LocalEntryWhileUsed`, `RedisImplementsLock`, `WriterEntersAlone`, `NarReadsAreWhole`, `CreatedOnce`, `MissIsUnanimous`, `SettledOnce`, `NarKept`, `HeadersDescribeBody` |
| `MigrationLoses` (violation) | the migrations of `Services` | `DeletedOnceMigrated` is violated |

Why the bounds are enough. Two requests are the one that downloads and the one
that joins, polls or comes after it; on two servers they meet in the lock, on one
in `upstreamJobs`. Two blocks let a reader be behind, level and at the end. One
fault of the bounded kinds reaches every crash point; the theorems of section 6
have no such bound, and they alone cover the mode "eager", which differs from
"pipe" in what the chunker reads. Three attempts are one that dies, one that cleans up after it
and one that meets both; a batch of two and a content of three chunks give a full
and a partial batch and a repeated chunk. Three arrivals of NARs fill the cache beyond its size, or
bring one back that has been evicted.
Two GETs for one narinfo are the one that pulls or migrates and the one that waits
for it; with a PUT and an upload on the other server the row, the file and the NAR
appear in every order. The two GETs and their servers are alike, and `MCSymmetry`
exchanges them together; no property of this run is about liveness. Two steps of servers let a chunking start and record its
chunks, or a NAR and its narinfo arrive, between two looks of fsck.

`Services`: local lock, three callers and two objects (one used, one freed and
taken again); Redis lock, three callers, two of them on one server, two attempts
each, a threshold of two failures, one fault; read-write lock, three callers each
on its own instance and two faults; stores, two callers and two faults; chunk
store, three callers and two faults; upstreams, three of them, one request, a
queue of one and one change of health; start, two processes, three starts and four
command lines; migrations, two processes and one fault; HTTP server, one client
next to uploads, deletions, downloads, a chunker and the enabling of CDC.

The runs allow deadlock where all requests or attempts have ended or a bound is
used up; `LruRun`, `NarInfoRun` and `FsckRepair` do not.

`TempReclaimed` excuses readers that return between `ds.wg.Add` and the goroutine
that calls `Done` (1110-1127), `SpaceReclaimed` assumes NARs that fit the smallest
window of candidates, `PinnedRootsKept` excuses a pin that came after the run had
read the pins: section 7 says why.

## 5. Fairness

Weak fairness of each goroutine of `NarDownload` (request, lock release, pull,
chunker, cleanup): the Go scheduler runs every runnable goroutine, and timers
(polling, `maxWaitPerChunk`) fire. Weak fairness of `DeadLockExpires`: Redis
expires the key of a dead server. No fairness for the arrival or departure of
clients and none for faults. The requests of an instance are finitely many, so
"again and again nobody is busy" says that each of them ends.

In `CdcChunking` attempts, deletions and readers are weakly fair, and the timeout
of the progressive reader strongly fair: its clock runs across the polls that
find no chunk. In `LruEviction` the cron starts `runLRU` forever: a step of it is
always possible and infinitely many of them happen; crashes are finitely many.

In `Fsck` the command is run again and again by its operator, each run ends, and
`StartRepair` is strongly fair: of the runs that find something infinitely many
are given `--repair`. The steps of servers are not fair and are bounded by
`MaxWrites`: `EventuallyClean` says what repairs come to when nobody writes any
more. `NarInfo` and `Services` state safety only and no fairness.

## 6. Proofs

A theorem holds for every value of the constants that the module's named
assumption allows: any number of servers, requests, narinfos, NARs, attempts or
callers, any length and any bound. The assumptions type the constants, keep
markers such as `None` and `Null` apart from the values they stand beside, and ask
for positive sizes; TLC evaluates them in the runs. A theorem that needs more says
so in its `ASSUME`, and the text below says which behaviour of the code makes the
hypothesis necessary. All other faults are allowed in it without a bound.

An invariant is proved from an inductive one: it holds at first, each action keeps
it (one proof step per action, and one below it per conjunct the action can
disturb), and it implies the property. The inductive invariants were checked by
TLC on the instances of the runs before they were proved.

### The download of a NAR: `NarDownloadProofs`

From `NarDownloadAssumption` alone, for all modes and faults:

- `TypeCorrect`: `TypeOK`. Alone it is not inductive: a request that reads `ds[r]`
  has to hold a `downloadState`, which is `HoldsState`.
- `JobsListed`: `JobsAreListed`, and `TempFileKept`: `TempFilePresent`. They rest
  on `IInv`. A reader finds its temp file because it is counted in `ds.wg` from
  `Join` until it leaves (`Counted`), the file is removed only when nobody is
  counted and nobody can join any more (`ClosedAfterAll`), and it was created before
  `ds.start` was closed without an error (`CreatedBeforeStart`,
  `CreatedBeforeRead`). That the deletes from `upstreamJobs`, which go by key, hit
  their own entry needs that a server has one download to take out at a time, which
  is `JobsAreListed` itself, with `NotYet`, `ChunkerStartsOnce` and
  `SameServerState`.
- `ReleaserExists`: `LockHasReleaser`. A step that leaves the code between `Lock`
  and the deferred unlock, or gives up the duty to unlock, either clears the mutex
  its server remembers or hands the duty on.

With hypotheses:

- `ServedTracked`: `ServedIsTracked`, if the query that heals an orphan file does
  not fail ("database"): its error is only logged.
- `ChunkedWhole`: `ChunkedIsWhole`, if in mode "eager" no body ends early
  ("truncate"): only mode "pipe" compares what was chunked with the NarSize of the
  narinfo, and for it nothing is assumed.
- `ChunkingOwned`: `ChunkingLockOwned`, if no server dies, and if, when a chunking
  lock may get stale, all requests are on one server. A dead server leaves
  `chunking_started_at` behind by design, and after a takeover by another server two
  chunkers work on the row. The database may fail in every statement, the clearing of
  `chunking_started_at` after a failed chunking included: that error is only logged, the
  lock stays with nobody chunking until it is stale, and the model names such a row
  "left" (the code cannot tell it from "chunking"). The theorem says that there is no
  other way to leave the lock behind.
- `OneDownload`: `SingleDownload` over all servers, with crashes, if no lock is lost
  to a live server ("expire"), no chunking lock gets stale, and locks are
  distributed when there is more than one server. The invariant is `LockInv`: the
  owner of a download holds the lock until the download is announced in storage
  (`OwnersHold`, `NotAnnounced`), it waits for its own download only (`WaitsForOwn`),
  and while it is chunked the row says so (`ChunkedMeanwhile`).
- `PlainStreamStored`, `ChunkedStreamStored`: `StreamedIsStored`, with CDC off for
  all faults, and otherwise under the hypotheses of `OneDownload`. `StoredMarked`
  says that a chunking once announced stays announced, by its chunker and then by
  its chunks.

### Chunking: `CdcChunkingProofs`

- `ChunkingTypes`: `TypeOK`, with all faults, if there are finitely many attempts.
  The hypothesis is needed because `TypeOK` counts: a chunk hash has at most one row
  more than there are places (an attempt and an index of its NAR) where a chunk was
  recorded. `TypeInv` keeps the count (`MadeTypes`) next to what the rows (`RowTypes`),
  streams (`StreamTypes`, with each sum of lengths bounded by the NAR), links and files
  (`TableTypes`), NAR ids (`CountTypes`) and readers (`ReaderTypes`) can be. A batch
  adds to the count the places it records, all of them new, and to a hash one row at
  most (`RecordCounts`). That a reader's query returns chunks (`LinkedFromChunks`) needs
  that the links, whatever their indexes, have a k-th in order (`NthExists`): an
  induction over the indexes, done as a least-element argument.
- `NoChunkFileLeaks`: `FilesTracked`, with all faults. A chunk file whose deletion
  fails after its row is gone, or whose row was deleted by an attempt or a `runLRU` that
  then died, is lost to the database: `lost` has these and no others, and the theorem
  says that there is no other way to leave a file behind. Invariant `ProgressInv`.
- `ChunkFilesStay`: `ChunkFilesPresent`, if `Apart` and not "slow". `Apart` says that
  `runLRU` does not run and that two NARs being chunked have no chunk in common
  (with chunked NARs they may). It is needed because the deletion of orphans is not
  a transaction: a chunk read as an orphan (2229) may be linked by another NAR before
  its row and file go. Invariant `CleanInv`: an attempt deletes orphans of its own NAR
  only, and before it stores its first chunk.
- `ChunkedNarsIntact`: `ChunkedIsIntact`, and `StreamIsTheNar`: `StreamedIsContent`,
  if `Faithful` and one of `Apart` and `NoneDies`. `Faithful` excludes chunkers that
  outlive their lock, bodies cut without an error, and read errors that reach an
  attempt without a size (1946-1967); `NoneDies` excludes crashes and failing stores,
  and then NARs may share chunks and be evicted at any time. Without both a NAR can
  be torn, in a race of several attempts: an orphan row that one of them has read is
  linked by an attempt at another NAR and then deleted. The invariant is `LinkInv`:
  the links of a NAR are always a prefix of its content, all of it once the row is
  marked, and an attempt that still has its row has linked all it has flushed. For the readers `ReaderInv` adds that what was sent and what was
  fetched is a slice of the content, and that an id that has not changed stands for
  the same row.

### Eviction: `LruEvictionProofs`

From `LruEvictionAssumption`: `LruTypes` (`TypeOK`: the order by last access is
total, links go with their narinfos), `NoFileLeftBehind` (`FilesAccounted`),
`PinnedKept` (`PinnedRootsKept`) and `SharedKept` (`SharedNarsKept`), with all faults.
`NoFileLeftBehind` is about the files rows name: such a file loses its record only
together with a place on the list of those to be deleted, and then stays only if the
deletion fails or the server dies. The invariant
`LruInv` adds that every narinfo has its link and its NAR's row: an orphan among the
rows then is no narinfo's NAR. What the search for candidates computes matters to
none of them, only that it never yields a pinned narinfo (`CommitDeletes`).

`CommitsFree` is about that search: a run that commits deletes a narinfo that was not
pinned when it began. No run checks it by itself; it is the step that `SpaceReclaimed`
counts on, and it fails when pinned narinfos do not widen the window. The search stops
at nothing or at a window with an unpinned narinfo (`SearchFinds`), and the loop deletes
what it comes to first (`FirstIsEvicted`). That a window is a finite set needs no
assumption: narinfos come one at a time (`InfosFinite`).

### Narinfos: `NarInfoProofs`

From `NarInfoAssumption`, for all mixes of requests, configurations and faults:

- `NarInfoTypes`: `TypeOK`. What a process does next depends on what it has read and
  on its caller, so `TypeInv` has, next to the tables and stores (`DataInv`) and the
  locks and downloads (`SyncInv`), a list of the places where each kind of process
  may be, with the URL and the caller it has there (`Control`).
- `NobodyWaitsForTheGone`: `WaitedForIsAlive`. `AliveInv` says that a download is
  listed exactly while its pull is under way (`JobInv`), that whoever waits is on the
  server of the pull and asks for the same narinfo (`WaitInv`), so that a crash that
  takes the pull takes those who wait too, and where a process is that holds a lock
  (`LockInv`).
- `KeptNarInfos`: `PathKept`, and `KeptFound`: `FoundWhileKept`, with all faults.
  `KeptInv` is about a world of which some things only grow while a narinfo is kept:
  the narinfos in the database, the NARs that have a file or a record of chunks, the
  errors met. `Sound` says that the narinfo is in the database or in a legacy file that
  can be read next to the file of its NAR, and that every narinfo of the database has
  its NAR as a file or on record; `Lawful` what each process has read of that world,
  and so which branches it cannot take: who has missed a kept narinfo in the legacy
  store will find it in the database, because a migration or a PUT deletes the file
  after it has written the row, and no look at the NAR of a kept narinfo comes to a
  purge. The migration to chunks deletes the whole file only when the chunks are on
  record, so a narinfo of the database keeps its NAR; one that is read in the legacy
  store does not, and is no longer kept. `Blame` traces a failure back: a kept narinfo
  fails for a request only if the request, or the pull it waited for, met an error of
  the database or of a lock. A narinfo that was deleted by such an error would still
  refute `PathKept`, which has no such excuse.
- `UploadsAgree`: `SizesAgree`, if no two narinfos share a NAR, since the model has
  an upload of a NAR look at one narinfo where the code looks at all that have its
  URL. By `SizeInv` a narinfo with a size that is only claimed has no NAR yet, or
  somebody who has yet to look at it or is about to correct it: whoever comes second,
  the PUT of the narinfo or the upload of the NAR, looks after both rows are there.

### Locks: `LockProofs`

From `ServicesAssumption`, as all that follows.

- `LocalWriterAlone` and `LocalEntryTracked`: `LocalInv` says that every caller that
  is not idle is counted by the lock object in the map, so that an object is dropped
  only when nobody uses it and all other objects are as new.
- `RedisRefinesLock`: `RedisLock` implements `AbstractLock` under the mapping
  `PromisedHolders`: the first state maps to nobody holding the lock and each step to
  one caller coming in when nobody is in, to one leaving, or to a stutter. It needs
  `RedisInv`: while nothing has voided the promise, a holder's token is the value of
  the key.
- `RWEntersAlone`: `WriterEntersAlone`, from `RWInv`: the writer key belongs to whoever
  drains or writes, and every reader is in the hash.
- `LocalRefinesLock` and `RWRefinesLock`: the other two lockers implement the same
  `AbstractLock` as `RedisLock`, with their writers as the holders, from `LocalInv` and
  `RWInv`. So the three are interchangeable to who uses them as a `lock.Locker`, the
  read-write locker as long as no key expires under a writer, which its model leaves
  out. No run checks these two mappings by themselves.
- `ProbeFailureReopens`: a failure reported while the circuit is not closed opens it
  again at once, which the comment in `AllowRequest` promises. By `BreakerInv` a breaker
  that is not closed keeps a full count of failures. No run checks it by itself.

### Stores and upstreams: `StoreProofs`

`NarReads` (`StoreInv`: a temporary file is whole when it is renamed, so the name
has a whole NAR or none), `ChunkCreatedOnce` (`ChunkInv`: a chunk has one creator at
most; on S3 whoever puts holds the lock and found nothing) and `UnanimousMiss`
(`RaceInv`: while a request waits every positive answer is in the channel, and every
error received was answered by somebody).

### Fsck: `FsckProofs`

`HealthyStay`: `HealthyKept`, from `FsckAssumption` alone: any NARs that are compressed
files or in chunks, with their narinfos and any remains of such NARs, all options, and
uploads, downloads and chunkings between any two steps. It does not speak of NARs
stored without compression: those are outside the model, and fsck deletes them
(section 7). `HealthyKept` alone says nothing of what
fsck has in hand, and `FsckInv` has four parts:

- `World`: the tables and stores fit together, and what could be served when fsck
  began, and was not taken over by a server since, can still be.
- `Control`: the `nar_files` are read before the checks that rely on them.
- `FoundInv`: each check finds things of its own kind only, judged by what was read
  before.
- `WorkInv`: whatever is marked for deletion is needed by nothing healthy. It stays so
  because what is healthy only shrinks: a step of a server takes the NAR it touches out
  of the promise, and leaves in order what it touches.

### HTTP server, migrations, start: `ServerProofs`

- `ResponsesDescribed`: `HttpInv` relates the chunks to the size in the row: once a
  chunker has taken it over, the size is unknown or that of the uncompressed NAR.
- `NarStaysServable`: `MigrationInv` says that until the NAR is in chunks its files
  are all there and nobody is past the chunking, and that the chunked row stays. Two
  histories are excused: `misled` (a chunking in progress taken for a finished one, the
  finding of `MigrationLoses`) and `torn` (a chunking that completed after it had been
  taken over). By `Alone`, the second never happens unless a chunking takes over an
  hour ("stale").
- `SettingsSettled`: an action property, from `StartInv`, which says what each process
  has read and written so far and, when no starts have raced (`Unraced`), that it is
  still so.

### What only TLC checks

Liveness under fairness is out of the prover's reach: `RequestsFinish`,
`LockReleased`, `TempReclaimed`, `ReadersFinish`, `SpaceReclaimed`,
`EventuallyClean`. Every other property of a passing run is stated by a theorem.
Recursive definitions have none of their own: the library's induction theorems take
an operator as a parameter, so only what can be put as a least element of a set of
numbers (as in `NthExists`) was proved by induction. `ChunkFilesPresent`, `ChunkedIsIntact`,
`StreamedIsContent`, `StreamedIsStored`, `SingleDownload`,
`ChunkingLockOwned` and `ServedIsTracked` are proved under the hypotheses above, and
TLC checks them with the faults and bounds of their runs, which for some goes beyond:
`CdcReaders` has an eviction next to a crash, `NarChunking` a failing database and
lost locks.

## 7. What the code does not guarantee

Four disagreements with the repository's own words have a run and a finding:

- A reader that reaches `cond.Wait` (1206) after the last broadcast of a failed
  download sleeps forever; the comment below it says the check is there to avoid
  just that (`NarLostWakeup`).
- A failed chunking clears `chunking_started_at` and leaves its links; the retry
  keeps a torn chunk at its index and marks the NAR complete. The specification
  wants the lock left in place for the stale cleanup (`CdcTornRetry`).
- The references of a pinned closure are looked up by their first 52 characters,
  narinfo hashes have 32, so only the roots of pins are protected (`LruPins`).
- `MigrateNarToChunks` takes a chunking that somebody else has in progress for a
  finished one and deletes the whole file; when that chunking fails the NAR is
  gone (`MigrationLoses`).

Others are behaviours the models have, or would have with another fault enabled,
and that the stated properties exclude by their excuse or their instance:

- An empty body leaves `finalSize` at 0, which means "not known" (1206): its
  readers do not wake up.
- `GetNar` returns at 1110-1127 without `ds.wg.Done`; the cleanup goroutine waits
  for it forever and the temp file stays.
- `storeNarWithCDCFromReader` may see the closed `chunksChan` before the error in
  `errChan` (1946-1967); without a NarSize a cut NAR is then marked complete
  (`CdcRestart` gives every attempt the NarSize).
- Nothing refreshes `chunking_started_at`, so a chunker slower than its TTL is
  taken for dead and two attempts write one row (2151; fault "slow"). A
  progressive reader past the end of the restarted chunking never times out,
  since its clock starts again on every pass (6403-6478).
- `cleanupStaleLockChunks` reads the orphans before it deletes them (2229), and
  `runLRU` deletes chunk files after its commit (5594): a NAR that links such a
  chunk in between loses it.
- `runLRU` deletes the file its row names. An uncompressed NAR that was downloaded is
  stored as `.nar.zst` (1701-1725) under a row that says `none` (5491), so its eviction
  logs an error and leaves the file without a record (`FilesAccounted` is about the
  other name). A failing `DeleteNar` is only logged, too (5586), and a crash after the
  commit (5691) leaves every file of the run.
- `runLRU` looks for candidates in a window of at most 10000 bytes, and of twice
  the excess (5337-5353): if the least recently used NAR is larger nothing is
  evicted. The query has no ORDER BY, a shared NAR counts once per narinfo, a NAR
  uploaded before its narinfo is an orphan, and `PinClosure` is two queries.
- Locks. A reader of `RedisRWLock` looks for the writer before it registers, and a
  writer takes its key before it looks for readers: a reader may follow a writer
  in, which `WriterEntersAlone` allows. The readers of one instance share a field
  of the hash, so the first that leaves lets a writer in; the run has one caller
  per instance. `Unlock` and `Extend` use up the probe of a half-open breaker, and
  a lock is leaked until its TTL when the breaker opens between `Lock` and `Unlock`
  (`pkg/lock/redis/locker.go:266`).
- Fsck. A NAR without compression has the record `(hash, none)` and the file
  `.nar.zst` (1692-1729, 3563-3575). Fsck compares URLs literally
  (`fsck.go:571, 844, 1190`), so a repair deletes its row, its narinfo and then the
  file. The second look at rows without a file does not look at chunks. The run has
  compressed NARs only.
- NarInfo. Whether the NAR is there or coming is read in three steps before a
  purge (3855-3894, 4075-4080). `stored` is closed before `storeInDatabase`
  (3290-3294), so another server may pull again. An error while signing returns
  without `setError` (3277-3284). A legacy narinfo whose NAR is only in chunks is
  purged (3651-3664), which the background migration of the NAR to chunks brings about
  when it deletes the file before the narinfo has been migrated (3693, 6684):
  `PathKept` and `FoundWhileKept` stop speaking of the narinfo at that point. A narinfo may take the size of the uncompressed row, and
  `CheckAndFixNarInfo` writes what it read earlier: `SizesAgree` is about
  compressed NARs with CDC off and no GET next to the uploads. An upload-only server may report a miss during a migration.
- Stores. Every command that opens the local store removes `store/tmp` under the
  uploads of a running server. A `chunk-*` file left by a crash is listed by
  `WalkChunks`, but `DeleteChunk` computes another path. A narinfo is written in
  place, so a reader may see half of it. A directory removed between `MkdirAll` and
  the rename fails the put.
- Upstreams. An error that arrives before a positive answer fails the request
  although another upstream has the asset (`Concepts.md:153`); errors are lost when
  the closed channel is picked first; priorities do not influence the winner.
- Start. First starts that race may generate two signing keys, lose the migrated
  one or mix CDC sizes, which `SettledOnce` excuses. A crash inside the storing of
  the CDC settings locks out every later start (`pkg/config/config.go:239`).
- Migrations. A chunking that takes over an hour is taken over while it works: the
  takeover deletes its links (2180), and if it completes first it sets `total_chunks`
  over what is missing (1994), after which the whole file goes. If the second chunking
  then fails the NAR cannot be served (`torn`). Lazy chunking never relinks the narinfos (2018), so the cleanup of
  the compressed row takes the link with it, against the comment at 2012. A relink
  by the old URL after another migrator has rewritten it leaves the narinfo
  unlinked. An uncompressed NAR is never migrated, since its file has another name
  (3013). `migrate-narinfo` sees only rows with a NULL URL, so a legacy narinfo
  without a row is not migrated, yet `migrate-nar-to-chunks` asks for it.
- HTTP server. A client that asks for an uncompressed NAR and accepts zstd, on a
  miss and with no narinfo in the database, is told `Content-Encoding: zstd` over
  raw bytes (1105-1109, `server.go:737-742`; the comment at 950 and
  `Concepts.md:125` say otherwise). A request that joins a download gets the bytes
  of its temp file whatever format it asked for. `HeadersDescribeBody` therefore
  is about bodies from the storage. HEAD reports the size of the row, which may be
  that of the `.nar.zst` file, and DELETE leaves the row of the file it removes.

## 8. What is not modelled

Compression, URL parsing and telemetry: conversions and reports without state of
the protocol. Of the parts with status `partly` in `PROJECT.json`:

- CDC: the cutting of bytes into chunks, which is the work of a library.
- LRU: the deletion of legacy narinfo files by `runLRU`.
- NarInfo: references and signatures, lazy chunking, upload-only servers beyond
  what a GET sees, failures of the unlocking, of the stores and of the look at sizes
  after an upload, and errors of a DELETE.
- Upstreams: the HTTP client's timeouts and retries, the parsing of answers.
- Fsck: progress reports, paging, the time of `--verified-since`.
- HTTP server: index, public key, metrics and the pin endpoints, which only call
  the cache.
- Start: flag parsing and the construction of the other parts.
- Database: connections, pools, transactions' retries and schema migrations; a
  transaction is one action of the module that uses it.
