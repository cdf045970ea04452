------------------------------ MODULE Services ------------------------------
(***************************************************************************)
(* The services around the cache proper: the locks, the stores,            *)
(* the upstreams, the start of a process, the migrations and the responses *)
(* of the HTTP server.  They share no state, so a behaviour is one of the  *)
(* component that part names; the variables of the others are unused       *)
(* (None).  A variable whose name several components have is the one of    *)
(* that component.                                                         *)
(***************************************************************************)
EXTENDS Naturals, FiniteSets

CONSTANTS
    Null, None,            \* of the components
    Callers,               \* goroutines that lock, or that put and get a chunk
    Objects,               \* keyLock allocations of the local locks
    Servers, ServerOf,     \* ncps instances, and the one each caller runs on
    Processes,             \* servers and commands on one store and one database
    Upstreams, Requests,   \* upstream caches, and searches for an asset in them
    Clients,               \* of the HTTP server
    OldKey, FileKey,       \* signing keys
    CommandLines,          \* the CDC and key flags of a start
    MaxAttempts, Threshold, QueueSize,     \* settings of the program
    LockFaults, MigrationFaults,           \* the environment's faults that may happen
    MaxFaults, MaxErrors,  \* bounds: on those, on failed writes, requests and crashes
    MaxChanges, MaxStarts  \* bounds: on changes of an upstream's health, on starts

ASSUME ServicesAssumption ==
    /\ None \notin Callers \cup Objects \cup Processes \cup Upstreams
    /\ None \notin {"whole", "part"}
    /\ Null \notin Processes \cup {OldKey, FileKey}
    /\ Null \notin Nat \cup {"none", "zstd", "xz", "true"}
    /\ Null \notin [size : {"size"}, total : Nat, started : {Null, "fresh", "stale"},
                    created : {"old", "new"}, verified : BOOLEAN]    \* no nar_file
    /\ IsFiniteSet(Upstreams)
    /\ ServerOf \in [Callers -> Servers]
    /\ CommandLines \subseteq [enabled : {"true", "false", "unset"},
                                sizes : [1..3 -> Nat], keyFile : BOOLEAN]
    /\ MaxAttempts \in Nat
    /\ Threshold \in Nat \ {0}
    /\ QueueSize \in Nat
    /\ MaxFaults \in Nat /\ MaxErrors \in Nat /\ MaxChanges \in Nat

VARIABLES
    part,       \* the component this behaviour is about
    entry, refs, writer, readers, obj, degraded, key, mutexes, fallback, intact,
    writerKey, readersHash, tokens, file, dirs, tmp, temp, kind, chunk, dir, temps,
    creators, added, monitored, healthy, asked, changes, asset, answer, ch, errC,
    errs, picked, oldKey, flags, next, secretKey, starts, raced, lazy, files,
    legacy, task, misled, torn, remote, stored, rows, chunking, info, pull, request,
    reply, pc, up, breaker, tries, budget, backend, stray, got, lock, todo, db, cdc

localVars == <<entry, refs, writer, readers, obj>>
redisVars == <<degraded, key, mutexes, fallback, intact>>
rwVars == <<writerKey, readersHash, tokens>>
storeVars == <<file, dirs, tmp, temp, kind>>
chunkVars == <<chunk, dir, temps, creators>>
upstreamVars == <<added, monitored, healthy, asked, changes, asset, answer, ch, errC, errs, picked>>
startupVars == <<oldKey, flags, next, secretKey, starts, raced>>
migrationVars == <<lazy, files, legacy, task, misled, torn>>
httpVars == <<remote, stored, rows, chunking, info, pull, request, reply>>
shared == <<pc, up, breaker, tries, budget, backend, stray, got, lock, todo, db, cdc>>
vars == <<part, localVars, redisVars, rwVars, storeVars, chunkVars, upstreamVars,
          startupVars, migrationVars, httpVars, shared>>

-----------------------------------------------------------------------------
\* In the deployments of the read-write lock every caller is an instance.
Each == [c \in Callers |-> c]

Local == INSTANCE LocalLock WITH Procs <- Callers
Redis == INSTANCE RedisLock WITH Procs <- Callers, Faults <- LockFaults
RW == INSTANCE RedisRWLock WITH
    Procs <- Callers, Servers <- Callers, ServerOf <- Each, MaxFaults <- MaxErrors
Store == INSTANCE Stores WITH Procs <- Processes, MaxFaults <- MaxErrors
Chunks == INSTANCE ChunkStore WITH Procs <- Callers, MaxFaults <- MaxErrors
Race == INSTANCE Upstreams
Start == INSTANCE Startup WITH Procs <- Processes, Flags <- CommandLines
Migrate == INSTANCE Migrations WITH Procs <- Processes, Faults <- MigrationFaults
Http == INSTANCE HttpServer

-----------------------------------------------------------------------------
(* The variables a component does not have.                                *)

NoLocal ==
    /\ entry = None /\ refs = None /\ writer = None /\ readers = None /\ obj = None
NoRedis ==
    /\ degraded = None /\ key = None /\ mutexes = None /\ fallback = None
    /\ intact = None
NoRW ==
    /\ writerKey = None /\ readersHash = None /\ tokens = None
NoStore ==
    /\ file = None /\ dirs = None /\ tmp = None /\ temp = None /\ kind = None
NoChunk ==
    /\ chunk = None /\ dir = None /\ temps = None /\ creators = None
NoRace ==
    /\ added = None /\ monitored = None /\ healthy = None /\ asked = None
    /\ changes = None /\ asset = None /\ answer = None /\ ch = None /\ errC = None
    /\ errs = None /\ picked = None
NoStart ==
    /\ oldKey = None /\ flags = None /\ next = None /\ secretKey = None
    /\ starts = None /\ raced = None
NoMigration ==
    /\ lazy = None /\ files = None /\ legacy = None /\ task = None /\ misled = None
    /\ torn = None
NoHttp ==
    /\ remote = None /\ stored = None /\ rows = None /\ chunking = None
    /\ info = None /\ pull = None /\ request = None /\ reply = None
NoBreaker == breaker = None /\ tries = None
NoBackend == backend = None /\ stray = None /\ got = None

Init ==
    \/ /\ part = "local" /\ Local!Init
       /\ NoRedis /\ NoRW /\ NoStore /\ NoChunk /\ NoRace /\ NoStart /\ NoMigration
       /\ NoHttp /\ NoBreaker /\ NoBackend /\ up = None /\ budget = None
       /\ lock = None /\ todo = None /\ db = None /\ cdc = None
    \/ /\ part = "redis" /\ Redis!Init
       /\ NoLocal /\ NoRW /\ NoStore /\ NoChunk /\ NoRace /\ NoStart /\ NoMigration
       /\ NoHttp /\ NoBackend /\ lock = None /\ todo = None /\ db = None
       /\ cdc = None
    \/ /\ part = "rw" /\ RW!Init
       /\ NoLocal /\ NoRedis /\ NoStore /\ NoChunk /\ NoRace /\ NoStart
       /\ NoMigration /\ NoHttp /\ NoBackend /\ up = None /\ lock = None
       /\ todo = None /\ db = None /\ cdc = None
    \/ /\ part = "stores" /\ Store!Init
       /\ NoLocal /\ NoRedis /\ NoRW /\ NoChunk /\ NoRace /\ NoStart /\ NoMigration
       /\ NoHttp /\ NoBreaker /\ up = None /\ lock = None /\ todo = None
       /\ db = None /\ cdc = None
    \/ /\ part = "chunks" /\ Chunks!Init
       /\ NoLocal /\ NoRedis /\ NoRW /\ NoStore /\ NoRace /\ NoStart /\ NoMigration
       /\ NoHttp /\ NoBreaker /\ up = None /\ todo = None /\ db = None /\ cdc = None
    \/ /\ part = "upstreams" /\ Race!Init
       /\ NoLocal /\ NoRedis /\ NoRW /\ NoStore /\ NoChunk /\ NoStart
       /\ NoMigration /\ NoHttp /\ NoBreaker /\ NoBackend /\ lock = None
       /\ db = None /\ cdc = None
    \/ /\ part = "startup" /\ Start!Init
       /\ NoLocal /\ NoRedis /\ NoRW /\ NoStore /\ NoChunk /\ NoRace /\ NoMigration
       /\ NoHttp /\ NoBreaker /\ NoBackend /\ up = None /\ budget = None
       /\ lock = None /\ todo = None
    \/ /\ part = "migrations" /\ Migrate!Init
       /\ NoLocal /\ NoRedis /\ NoRW /\ NoStore /\ NoChunk /\ NoRace /\ NoStart
       /\ NoHttp /\ NoBreaker /\ NoBackend /\ up = None /\ cdc = None
    \/ /\ part = "http" /\ Http!Init
       /\ NoLocal /\ NoRedis /\ NoRW /\ NoStore /\ NoChunk /\ NoRace /\ NoStart
       /\ NoMigration /\ NoBreaker /\ NoBackend /\ up = None /\ budget = None
       /\ lock = None /\ todo = None /\ db = None

Next ==
    \/ /\ part = "local" /\ Local!Next
       /\ UNCHANGED <<part, redisVars, rwVars, storeVars, chunkVars, upstreamVars,
                     startupVars, migrationVars, httpVars, up, breaker, tries,
                     budget, backend, stray, got, lock, todo, db, cdc>>
    \/ /\ part = "redis" /\ Redis!Next
       /\ UNCHANGED <<part, localVars, rwVars, storeVars, chunkVars, upstreamVars,
                     startupVars, migrationVars, httpVars, backend, stray, got,
                     lock, todo, db, cdc>>
    \/ /\ part = "rw" /\ RW!Next
       /\ UNCHANGED <<part, localVars, redisVars, storeVars, chunkVars,
                     upstreamVars, startupVars, migrationVars, httpVars, up,
                     backend, stray, got, lock, todo, db, cdc>>
    \/ /\ part = "stores" /\ Store!Next
       /\ UNCHANGED <<part, localVars, redisVars, rwVars, chunkVars, upstreamVars,
                     startupVars, migrationVars, httpVars, up, breaker, tries,
                     lock, todo, db, cdc>>
    \/ /\ part = "chunks" /\ Chunks!Next
       /\ UNCHANGED <<part, localVars, redisVars, rwVars, storeVars, upstreamVars,
                     startupVars, migrationVars, httpVars, up, breaker, tries,
                     todo, db, cdc>>
    \/ /\ part = "upstreams" /\ Race!Next
       /\ UNCHANGED <<part, localVars, redisVars, rwVars, storeVars, chunkVars,
                     startupVars, migrationVars, httpVars, breaker, tries, backend,
                     stray, got, lock, db, cdc>>
    \/ /\ part = "startup" /\ Start!Next
       /\ UNCHANGED <<part, localVars, redisVars, rwVars, storeVars, chunkVars,
                     upstreamVars, migrationVars, httpVars, up, breaker, tries,
                     budget, backend, stray, got, lock, todo>>
    \/ /\ part = "migrations" /\ Migrate!Next
       /\ UNCHANGED <<part, localVars, redisVars, rwVars, storeVars, chunkVars,
                     upstreamVars, startupVars, httpVars, up, breaker, tries,
                     backend, stray, got, cdc>>
    \/ /\ part = "http" /\ Http!Next
       /\ UNCHANGED <<part, localVars, redisVars, rwVars, storeVars, chunkVars,
                     upstreamVars, startupVars, migrationVars, up, breaker, tries,
                     budget, backend, stray, got, lock, todo, db>>

Spec == Init /\ [][Next]_vars

-----------------------------------------------------------------------------
\* The local lock: a writer is alone (getLock, Unlock and TryLock of local/).
LocalExclusive == part = "local" => Local!Exclusive

\* The local lock: the map has an entry exactly while a caller needs it.
LocalEntryWhileUsed == part = "local" => Local!EntryWhileUsed

\* The Redis lock implements lock.Locker over all servers until it falls back to
\* local locks or a key expires under its holder.
Promise == INSTANCE AbstractLock WITH
    Procs <- Callers, holders <- IF part = "redis" THEN Redis!PromisedHolders ELSE {}
RedisImplementsLock == Promise!Spec

\* The Redis read-write lock: a writer meets no writer and no earlier reader.
WriterEntersAlone == [][part = "rw" => RW!EntersAlone]_vars

\* The NAR stores hand out whole NARs only.
NarReadsAreWhole == part = "stores" => Store!NarReadsAreWhole

\* The chunk stores hand out whole chunks, and tell one caller that it is new.
CreatedOnce == part = "chunks" => Chunks!CreatedOnce

\* The selection of an upstream reports a miss only when all who were asked miss.
MissIsUnanimous == part = "upstreams" => Race!MissIsUnanimous

\* Starts that do not race settle the signing key and the CDC sizes once.
SettledOnce == [][part = "startup" => Start!Settled]_vars

\* A NAR stays servable under the URL of its narinfo while it is migrated.
NarKept == part = "migrations" => Migrate!NarKept

\* A NAR's whole file is deleted once it has been migrated, and not before.
DeletedOnceMigrated == part = "migrations" => Migrate!DeletedOnceMigrated

\* A response of the HTTP server, from the storage, describes its body.
HeadersDescribeBody == part = "http" => Http!HeadersDescribeBody

=============================================================================
