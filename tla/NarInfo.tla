------------------------------ MODULE NarInfo ------------------------------
(***************************************************************************)
(* The narinfo flow of pkg/cache: GetNarInfo looks in the database, then   *)
(* in the legacy store, then upstream; PutNarInfo, PutNar, DeleteNarInfo   *)
(* and the background migration of legacy narinfos go on next to it, on    *)
(* several servers that share the database, the stores and the locks.      *)
(*                                                                         *)
(* A process is a request, or the pull, the migration of the narinfo or    *)
(* that of its NAR to chunks which a request starts in the background.     *)
(* getNarInfoFromDatabase and purgeNarInfo are called from several places: *)
(* ret says what becomes of their outcome.                                 *)
(* The download of the NAR itself is that of NarDownload, seen from here:  *)
(* a local job, a lock, and two steps that make the NAR available.         *)
(***************************************************************************)
EXTENDS Database, Sequences

CONSTANTS
    NarInfos,      \* narinfo hashes
    Nars,          \* NAR hashes
    NarOf,         \* the NAR of each narinfo
    Servers,
    Gets,          \* GET requests for a narinfo
    Puts,          \* PUT requests for a narinfo
    Uploads,       \* PUT requests for a NAR
    Deletes,       \* DELETE requests for a narinfo
    HashOf,        \* the narinfo of each request; for an upload, one of the NAR
    ServerOf,      \* the server of each request
    Configurations,  \* CDC or not, how NARs are compressed, whether upstream has them,
                   \* uploadOnly, and the requests that come together
    Shapes,        \* what the database, the legacy store and the NAR store hold at first
    Faults,        \* what may go wrong: "lock", "sign", "database", "crash", "nar"
    MaxFaults      \* bound on the faults of a behaviour

Pull(r) == <<"pull", r>>
Migration(r) == <<"migration", r>>
ToChunks(r) == <<"chunks", r>>
Requests == Gets \cup Puts \cup Uploads \cup Deletes
Procs == Requests \cup {Pull(r) : r \in Gets} \cup {Migration(r) : r \in Gets}
            \cup {ToChunks(r) : r \in Gets}
RequestOf(p) == IF p \in Requests THEN p ELSE p[2]
Hash(p) == HashOf[RequestOf(p)]
Server(p) == ServerOf[RequestOf(p)]

Compressions == {"none", "xz"}
Sizes == {"actual", "claimed", "narSize"}

ASSUME NarInfoAssumption ==
    /\ NarOf \in [NarInfos -> Nars]
    /\ HashOf \in [Requests -> NarInfos]
    /\ ServerOf \in [Requests -> Servers]
    /\ Gets \cap (Puts \cup Uploads \cup Deletes) = {}
    /\ Puts \cap (Uploads \cup Deletes) = {} /\ Uploads \cap Deletes = {}
    /\ \A r \in Gets : {Pull(r), Migration(r), ToChunks(r)} \cap Requests = {}
    /\ Configurations \subseteq [cdc : BOOLEAN, compression : Compressions,
                                 upstream : BOOLEAN, uploadOnly : BOOLEAN,
                                 requests : SUBSET Requests]
    /\ Shapes \subseteq {"absent", "placeholder", "complete"} \X {"absent", "good", "bad"}
                          \X {"absent", "stored"}
    /\ MaxFaults \in Nat
    /\ Null \notin Procs \cup Servers \cup (Nars \X Compressions) \cup Sizes
    /\ Null \notin [size : Sizes, total : Nat, started : {Null, "fresh"},
                    created : {"new"}, verified : BOOLEAN]    \* no nar_file

VARIABLES
    conf,          \* configuration, and what upstream has and clients ask for
    db,
    legacy,        \* the legacy narinfo store: "good" or "bad" per narinfo
    narStore,      \* URLs of the files in the NAR store
    pc,            \* of each process
    ret,           \* where the outcome of getNarInfoFromDatabase or purgeNarInfo goes
    url,           \* the URL of the narinfo a process has read
    size,          \* the size a narinfo should have, as an upload has read it
    ds,            \* the download a request waits for, named by the request that began it
    stored, done, err,     \* of each download of a narinfo
    jobs,          \* upstreamJobs: the narinfo downloads of each server
    narJobs,       \* the state of the NAR downloads of each server
    jobLock,       \* holder of the download lock of each narinfo
    migrationLock, \* holder of the migration lock of each narinfo
    putLock,       \* the PUT that holds the write lock of each narinfo
    narLock,       \* the server that holds the download lock of each NAR
    faults,        \* the faults so far, each with who met it
    kept           \* history: narinfos that were complete from the start (PathKept)

dbVars == <<db, legacy, narStore>>
dsVars == <<ds, stored, done, err, jobs>>
locks == <<jobLock, migrationLock, putLock>>
narVars == <<narJobs, narLock>>
control == <<pc, ret, url, size>>
vars == <<conf, dbVars, control, dsVars, narVars, locks, faults, kept>>

Final == {"found", "notfound", "failed", "left", "crashed", "ended"}

-----------------------------------------------------------------------------
(* URLs, rows and where a NAR is *)

Url(n, compression) == <<n, compression>>

\* What GetNarInfo and PutNarInfo make of the narinfo they are given: chunks are
\* uncompressed, and then neither the size nor the hash of a file is kept.
Normalized(h, claimed) ==
    LET compression == IF conf.cdc THEN "none" ELSE conf.compression
    IN [ url |-> Url(NarOf[h], compression),
         fileSize |-> IF compression = "none" THEN Null ELSE claimed,
         fileHash |-> IF compression = "none" THEN Null ELSE "hash" ]

\* A legacy narinfo is migrated as it is.
LegacyRow(h) ==
    [ url |-> Url(NarOf[h], conf.compression),
      fileSize |-> IF conf.compression = "none" THEN Null ELSE "actual",
      fileHash |-> IF conf.compression = "none" THEN Null ELSE "hash" ]

\* A NAR without compression is a .nar.zst file, or a .nar file that was uploaded.
HasNarInStore(u) == u \in narStore \/ (u[2] = "none" /\ Url(u[1], "zstd") \in narStore)

getNarFileFromDB(u) ==
    LET none == Url(u[1], "none")
        order == IF conf.cdc THEN <<none, u>> ELSE <<u, none>>
        first == GetNarFileByHashAndCompressionAndQuery(db, order[1])
    IN IF first # Null THEN first ELSE GetNarFileByHashAndCompressionAndQuery(db, order[2])

HasNarFileRecord(u) == getNarFileFromDB(u) # Null

HasNarInChunks(u) ==
    /\ conf.cdc
    /\ HasNarFileRecord(u)
    /\ getNarFileFromDB(u).total > 0

ChunkingInProgress(n) ==
    Url(n, "none") \in DOMAIN db.nar_files /\ db.nar_files[Url(n, "none")].started # Null

hasUpstreamJob(s, n) == narJobs[s][n] # "none"

narFileSize(row) == IF row.fileSize # Null THEN row.fileSize ELSE "narSize"

\* The file of the NAR of a narinfo, as the narinfo or its record name it.
NarUrl(h) == Url(NarOf[h], conf.compression)

\* storeInDatabase: the narinfo, its nar_file and the link between them.  The row
\* of a narinfo that has a URL stays as it is, whatever is offered.
Stored(tables, h, row) ==
    LinkNarInfoToNarFile(
        CreateNarFile(CreateNarInfo(tables, h, row), row.url, narFileSize(row)), h, row.url)

-----------------------------------------------------------------------------
Init ==
    /\ conf \in Configurations
    /\ \E shape \in Shapes :
       LET row == shape[1]
           old == shape[2]
           nar == shape[3]
       IN
         /\ legacy = [h \in (IF old = "absent" THEN {} ELSE NarInfos) |-> old]
         /\ narStore = IF nar = "absent" THEN {}
                       ELSE {Url(n, IF conf.compression = "none" THEN "zstd" ELSE "xz") : n \in Nars}
         /\ db = [NoTables EXCEPT
                    !.narinfos = [h \in (IF row = "absent" THEN {} ELSE NarInfos) |->
                                    IF row = "complete" THEN LegacyRow(h)
                                    ELSE [url |-> Null, fileSize |-> Null, fileHash |-> Null]],
                    !.nar_files = [u \in (IF row = "complete" THEN {LegacyRow(h).url : h \in NarInfos} ELSE {}) |->
                                     [ size |-> "actual", total |-> 0, started |-> Null,
                                       created |-> "new", verified |-> FALSE ]],
                    !.narinfo_nar_files =
                       IF row = "complete" THEN {<<h, LegacyRow(h).url>> : h \in NarInfos} ELSE {}]
         /\ kept = IF nar = "stored" /\ (row = "complete" \/ old = "good") THEN NarInfos ELSE {}
    /\ pc = [p \in Procs |-> "idle"]
    /\ ret = [p \in Procs |-> "none"]
    /\ url = [p \in Procs |-> Null]
    /\ size = [p \in Puts \cup Uploads |-> Null]
    /\ ds = [r \in Gets |-> r]
    /\ stored = [r \in Gets |-> FALSE]
    /\ done = [r \in Gets |-> FALSE]
    /\ err = [r \in Gets |-> FALSE]
    /\ jobs = [s \in Servers |-> [h \in NarInfos |-> Null]]
    /\ narJobs = [s \in Servers |-> [n \in Nars |-> "none"]]
    /\ jobLock = [h \in NarInfos |-> Null]
    /\ migrationLock = [h \in NarInfos |-> Null]
    /\ putLock = [h \in NarInfos |-> Null]
    /\ narLock = [n \in Nars |-> Null]
    /\ faults = << >>

At(p, state) == pc[p] = state
\* A process that ends has no local state any more.
Goto(p, state) ==
    /\ pc' = [pc EXCEPT ![p] = state]
    /\ IF state \in Final
       THEN ret' = [ret EXCEPT ![p] = "none"] /\ url' = [url EXCEPT ![p] = Null]
       ELSE UNCHANGED <<ret, url>>
    /\ UNCHANGED size
Call(p, state, return) ==
    /\ pc' = [pc EXCEPT ![p] = state]
    /\ ret' = [ret EXCEPT ![p] = return]
    /\ UNCHANGED <<url, size>>

Fault(fault, who) ==
    /\ fault \in Faults /\ Len(faults) < MaxFaults
    /\ faults' = Append(faults, <<fault, who>>)

-----------------------------------------------------------------------------
(* getNarInfoFromDatabase and purgeNarInfo *)

\* Where a caller goes on: each caller of getNarInfoFromDatabase takes an error
\* other than these for a failure of its own, except hasAsset and pullNarInfo.
Continuations ==
    [ get    |-> [ok |-> "hit",    notfound |-> "legacy",      purged |-> "legacy",      failed |-> "failed"],
      legacy |-> [purged |-> "miss", notfound |-> "waitMigration", failed |-> "failed"],
      bad    |-> [purged |-> "miss", failed |-> "miss"],
      retry  |-> [ok |-> "found",  notfound |-> "retry",       purged |-> "failed",      failed |-> "failed"],
      asset  |-> [ok |-> "unlock", notfound |-> "assetLegacy", purged |-> "assetLegacy", failed |-> "assetLegacy"],
      poll   |-> [ok |-> "final",  notfound |-> "pollLegacy",  purged |-> "pollLegacy",  failed |-> "pollLegacy"],
      pull   |-> [ok |-> "close",  notfound |-> "fetch",       purged |-> "fetch",       failed |-> "fetch"],
      final  |-> [ok |-> "found",  notfound |-> "failed",      purged |-> "failed",      failed |-> "failed"] ]

After(return, outcome) == Continuations[return][outcome]

Return(p, outcome) == Goto(p, After(ret[p], outcome))

\* populateNarInfoFromDatabase, in its transaction.  The record of a narinfo that
\* waits for its migration has no URL.
PopulateNarInfo(p) ==
    /\ At(p, "db")
    /\ IF Hash(p) \notin GetMigratedNarInfoHashes(db)
       THEN Return(p, "notfound")
       ELSE /\ pc' = [pc EXCEPT ![p] = "store"]
            /\ url' = [url EXCEPT ![p] = GetNarInfoByHash(db, Hash(p)).url]
            /\ UNCHANGED <<ret, size>>
    /\ UNCHANGED <<dbVars, dsVars, narVars, locks, faults>>

\* The questions that must all be answered with no before a narinfo is purged,
\* each asked at its own time.
LookInStore(p) ==
    /\ At(p, "store")
    /\ IF HasNarInStore(url[p]) THEN Return(p, "ok") ELSE Goto(p, "chunks")
    /\ UNCHANGED <<dbVars, dsVars, narVars, locks, faults>>

LookInChunks(p) ==
    /\ At(p, "chunks")
    /\ IF HasNarInChunks(url[p]) THEN Return(p, "ok") ELSE Goto(p, "job")
    /\ UNCHANGED <<dbVars, dsVars, narVars, locks, faults>>

LookForJob(p) ==
    /\ At(p, "job")
    /\ IF hasUpstreamJob(Server(p), url[p][1]) THEN Return(p, "ok") ELSE Goto(p, "remote")
    /\ UNCHANGED <<dbVars, dsVars, narVars, locks, faults>>

\* Takes the lock of the NAR if it can, and lets it go at once.
isRemoteDownloadInProgress(p) ==
    /\ At(p, "remote")
    /\ IF narLock[url[p][1]] # Null
       THEN Return(p, "ok")
       ELSE Goto(p, IF conf.cdc THEN "record" ELSE "purge")
    /\ UNCHANGED <<dbVars, dsVars, narVars, locks, faults>>

\* With CDC, a record without chunks is taken for a chunking in progress.
LookForRecord(p) ==
    /\ At(p, "record")
    /\ IF HasNarFileRecord(url[p]) THEN Return(p, "ok") ELSE Goto(p, "purge")
    /\ UNCHANGED <<dbVars, dsVars, narVars, locks, faults>>

PurgeRows(p) ==
    /\ At(p, "purge")
    /\ LET without == DeleteNarInfoByHash(db, Hash(p))
       IN db' = IF url[p] = Null THEN without ELSE DeleteNarFileByHash(without, url[p])
    /\ Goto(p, "purgeLegacy")
    /\ UNCHANGED <<legacy, narStore, dsVars, narVars, locks, faults>>

\* deleteNarInfoFromStore, which also deletes a row that has come back.
PurgeLegacy(p) ==
    /\ At(p, "purgeLegacy")
    /\ IF Hash(p) \in DOMAIN legacy
       THEN legacy' = Remove(legacy, {Hash(p)}) /\ db' = DeleteNarInfoByHash(db, Hash(p))
       ELSE UNCHANGED <<legacy, db>>
    /\ Goto(p, "purgeNar")
    /\ UNCHANGED <<narStore, dsVars, narVars, locks, faults>>

\* deleteNarFromStore asks for the file under the URL.  A .nar.zst is not found,
\* and to the callers of getNarInfoFromDatabase that is as if there were no narinfo.
PurgeNar(p) ==
    /\ At(p, "purgeNar")
    /\ IF url[p] # Null /\ HasNarInStore(url[p])
       THEN /\ db' = DeleteNarFileByHash(db, url[p])
            /\ narStore' = narStore \ {url[p]}
            /\ Return(p, IF url[p] \in narStore THEN "purged" ELSE "notfound")
       ELSE Return(p, "purged") /\ UNCHANGED <<db, narStore>>
    /\ UNCHANGED <<legacy, dsVars, narVars, locks, faults>>

\* The transaction that reads the narinfo or the one that purges it, the look for
\* chunks, or a deletion of a row that goes with a file returns an error.
DatabaseFails(p) ==
    /\ \/ At(p, "db") \/ At(p, "purge")
       \/ At(p, "chunks") /\ conf.cdc
       \/ At(p, "purgeLegacy") /\ Hash(p) \in DOMAIN legacy
       \/ At(p, "purgeNar") /\ url[p] # Null /\ HasNarInStore(url[p])
    /\ Fault("database", p)
    /\ Return(p, "failed")
    /\ UNCHANGED <<dbVars, dsVars, narVars, locks>>

\* Without an answer there may be a chunking in progress: nothing is purged ...
RecordUnknown(p) ==
    /\ At(p, "record")
    /\ Fault("database", p)
    /\ Return(p, "ok")
    /\ UNCHANGED <<dbVars, dsVars, narVars, locks>>

\* ... but a lock that cannot be asked for is taken for free.
RemoteUnknown(p) ==
    /\ At(p, "remote")
    /\ Fault("lock", p)
    /\ Goto(p, IF conf.cdc THEN "record" ELSE "purge")
    /\ UNCHANGED <<dbVars, dsVars, narVars, locks>>

GetNarInfoFromDatabase(p) ==
    \/ DatabaseFails(p) \/ RecordUnknown(p) \/ RemoteUnknown(p)
    \/ PopulateNarInfo(p) \/ LookInStore(p) \/ LookInChunks(p) \/ LookForJob(p)
    \/ isRemoteDownloadInProgress(p) \/ LookForRecord(p)
    \/ PurgeRows(p) \/ PurgeLegacy(p) \/ PurgeNar(p)

-----------------------------------------------------------------------------
(* GetNarInfo *)

GetNarInfo(r) ==
    /\ At(r, "idle")
    /\ Call(r, "db", "get")
    /\ UNCHANGED <<dbVars, dsVars, narVars, locks, faults>>

\* A narinfo with a whole file starts the migration of that file to chunks.
Hit(r) ==
    /\ At(r, "hit")
    /\ pc' = [pc EXCEPT ![r] = "found",
                        ![ToChunks(r)] = IF conf.cdc /\ url[r][2] # "none" THEN "trylock" ELSE @]
    /\ ret' = [ret EXCEPT ![r] = "none"] /\ url' = [url EXCEPT ![r] = Null]
    /\ UNCHANGED <<size, dbVars, dsVars, narVars, locks, faults>>

LookInLegacy(r) ==
    /\ At(r, "legacy")
    /\ Goto(r, IF HashOf[r] \in DOMAIN legacy THEN "readLegacy" ELSE "miss")
    /\ UNCHANGED <<dbVars, dsVars, narVars, locks, faults>>

\* Mutant of ReadLegacy: what a migration has just deleted is an error.
ReadLegacyOnce(r) ==
    /\ At(r, "readLegacy")
    /\ Goto(r, IF HashOf[r] \in DOMAIN legacy THEN "legacyRow" ELSE "failed")
    /\ UNCHANGED <<dbVars, dsVars, narVars, locks, faults>>

\* getNarInfoFromStore reads the file; the migration may have deleted it since.
ReadLegacy(r) ==
    /\ At(r, "readLegacy")
    /\ \/ /\ HashOf[r] \notin DOMAIN legacy
          /\ Goto(r, "waitMigration")
       \/ /\ HashOf[r] \in DOMAIN legacy /\ legacy[HashOf[r]] = "bad"
          /\ pc' = [pc EXCEPT ![r] = "purge"]
          /\ ret' = [ret EXCEPT ![r] = "bad"]
          /\ url' = [url EXCEPT ![r] = Null]
          /\ UNCHANGED size
       \/ /\ HashOf[r] \in DOMAIN legacy /\ legacy[HashOf[r]] = "good"
          /\ pc' = [pc EXCEPT ![r] = "legacyNar"]
          /\ url' = [url EXCEPT ![r] = LegacyRow(HashOf[r]).url]
          /\ UNCHANGED <<ret, size>>
    /\ UNCHANGED <<dbVars, dsVars, narVars, locks, faults>>

\* Neither the chunks nor the other servers are asked.
LegacyNar(r) ==
    /\ At(r, "legacyNar")
    /\ IF HasNarInStore(url[r]) \/ hasUpstreamJob(ServerOf[r], url[r][1])
       THEN Goto(r, "legacyRow")
       ELSE Call(r, "purge", "legacy")
    /\ UNCHANGED <<dbVars, dsVars, narVars, locks, faults>>

\* The transaction of getNarInfoFromStore, which starts the migration of a narinfo
\* without a URL in the database and, if there is a row, that of the NAR to chunks.
LegacyAnswered(r, answer) ==
    /\ pc' = [pc EXCEPT
         ![r] = answer,
         ![Migration(r)] = IF HashOf[r] \in GetMigratedNarInfoHashes(db) THEN @ ELSE "trylock",
         ![ToChunks(r)] = IF conf.cdc /\ HashOf[r] \in DOMAIN db.narinfos THEN "trylock" ELSE @]
    /\ ret' = [ret EXCEPT ![r] = "none"] /\ url' = [url EXCEPT ![r] = Null]
    /\ UNCHANGED size

LegacyFound(r) ==
    /\ At(r, "legacyRow")
    /\ LegacyAnswered(r, "found")
    /\ UNCHANGED <<dbVars, dsVars, narVars, locks, faults>>

\* The transaction fails before the migrations have been started, or after.
LegacyFails(r) ==
    /\ At(r, "legacyRow")
    /\ Fault("database", r)
    /\ Goto(r, "failed") \/ LegacyAnswered(r, "failed")
    /\ UNCHANGED <<dbVars, dsVars, narVars, locks>>

\* handleStorageFetchError: a migration or a PUT that deleted the file has ended ...
WaitForMigration(p, state) ==
    /\ At(p, state)
    /\ migrationLock[Hash(p)] = Null
    /\ Goto(p, "waitPut")
    /\ UNCHANGED <<dbVars, dsVars, narVars, locks, faults>>

WaitForPut(p) ==
    /\ At(p, "waitPut")
    /\ putLock[Hash(p)] = Null
    /\ Call(p, "db", IF p \in Gets THEN "retry" ELSE "pull")
    /\ UNCHANGED <<dbVars, dsVars, narVars, locks, faults>>

\* ... if the locks can be had ...
WaitFails(r) ==
    /\ pc[r] \in {"waitMigration", "waitPut"}
    /\ Fault("lock", r)
    /\ Goto(r, "failed")
    /\ UNCHANGED <<dbVars, dsVars, narVars, locks>>

\* ... and its record is looked for several times.
RetryDatabase(r) ==
    /\ At(r, "retry")
    /\ Goto(r, "db")
    /\ UNCHANGED <<dbVars, dsVars, narVars, locks, faults>>

RetryExhausted(r) ==
    /\ At(r, "retry")
    /\ Goto(r, "failed")
    /\ UNCHANGED <<dbVars, dsVars, narVars, locks, faults>>

Miss(r) ==
    /\ At(r, "miss")
    /\ Goto(r, IF conf.uploadOnly THEN "notfound" ELSE "coord")
    /\ UNCHANGED <<dbVars, dsVars, narVars, locks, faults>>

-----------------------------------------------------------------------------
(* coordinateDownload, waiting for storage *)

FindJob(r) ==
    /\ At(r, "coord")
    /\ LET d == jobs[ServerOf[r]][HashOf[r]]
       IN IF d = Null THEN Goto(r, "lock") /\ UNCHANGED ds
          ELSE Goto(r, "joined") /\ ds' = [ds EXCEPT ![r] = d]
    /\ UNCHANGED <<dbVars, stored, done, err, jobs, narVars, locks, faults>>

Joined(r) ==
    /\ At(r, "joined")
    /\ stored[ds[r]] \/ done[ds[r]]
    /\ Goto(r, "waitDone")
    /\ UNCHANGED <<dbVars, dsVars, narVars, locks, faults>>

Acquire(r) ==
    /\ At(r, "lock")
    /\ jobLock[HashOf[r]] = Null
    /\ jobLock' = [jobLock EXCEPT ![HashOf[r]] = r]
    /\ Call(r, "db", "asset")
    /\ UNCHANGED <<dbVars, dsVars, narVars, migrationLock, putLock, faults>>

\* The lock cannot be had: the asset is polled for until a timeout.
AcquireFails(r) ==
    /\ At(r, "lock")
    /\ Fault("lock", r)
    /\ Call(r, "db", "poll")
    /\ UNCHANGED <<dbVars, dsVars, narVars, locks>>

PollLegacy(r) ==
    /\ At(r, "pollLegacy")
    /\ Goto(r, IF HashOf[r] \in DOMAIN legacy THEN "final" ELSE "db")
    /\ UNCHANGED <<dbVars, dsVars, narVars, locks, faults>>

PollTimeout(r) ==
    /\ At(r, "pollLegacy")
    /\ Goto(r, "failed")
    /\ UNCHANGED <<dbVars, dsVars, narVars, locks, faults>>

AssetLegacy(r) ==
    /\ At(r, "assetLegacy")
    /\ Goto(r, IF HashOf[r] \in DOMAIN legacy THEN "unlock" ELSE "create")
    /\ UNCHANGED <<dbVars, dsVars, narVars, locks, faults>>

ReleaseJobLock(r) == jobLock' = [h \in NarInfos |-> IF jobLock[h] = r THEN Null ELSE jobLock[h]]

\* The asset is there: the lock is let go and a download that has ended returned.
UnlockAsset(r) ==
    /\ At(r, "unlock")
    /\ ReleaseJobLock(r)
    /\ Goto(r, "final")
    /\ UNCHANGED <<dbVars, dsVars, narVars, migrationLock, putLock, faults>>

CreateJob(r) ==
    /\ At(r, "create")
    /\ LET s == ServerOf[r]
           h == HashOf[r]
       IN IF jobs[s][h] # Null
          THEN /\ ds' = [ds EXCEPT ![r] = jobs[s][h]]
               /\ Goto(r, "await")
               /\ UNCHANGED jobs
          ELSE /\ ds' = [ds EXCEPT ![r] = r]
               /\ jobs' = [jobs EXCEPT ![s][h] = r]
               /\ pc' = [pc EXCEPT ![r] = "await", ![Pull(r)] = "pullMigration"]
               /\ UNCHANGED <<ret, url, size>>
    /\ UNCHANGED <<dbVars, stored, done, err, narVars, locks, faults>>

AwaitStored(r) ==
    /\ At(r, "await")
    /\ stored[ds[r]] \/ done[ds[r]]
    /\ ReleaseJobLock(r)
    /\ Goto(r, "waitDone")
    /\ UNCHANGED <<dbVars, dsVars, narVars, migrationLock, putLock, faults>>

\* A client that leaves lets the lock go, and the download go on.
ClientLeaves(r) ==
    /\ pc[r] \in {"await", "joined", "waitDone"}
    /\ ReleaseJobLock(r)
    /\ Goto(r, "left")
    /\ UNCHANGED <<dbVars, dsVars, narVars, migrationLock, putLock, faults>>

WaitDone(r) ==
    /\ At(r, "waitDone")
    /\ done[ds[r]]
    /\ Goto(r, IF err[ds[r]] THEN "failed" ELSE "final")
    /\ UNCHANGED <<dbVars, dsVars, narVars, locks, faults>>

ReadPulled(r) ==
    /\ At(r, "final")
    /\ Call(r, "db", "final")
    /\ UNCHANGED <<dbVars, dsVars, narVars, locks, faults>>

GetStep(r) ==
    \/ Hit(r) \/ LookInLegacy(r) \/ ReadLegacy(r) \/ LegacyNar(r) \/ LegacyFound(r) \/ LegacyFails(r)
    \/ WaitForMigration(r, "waitMigration") \/ WaitForPut(r) \/ WaitFails(r) \/ RetryDatabase(r)
    \/ RetryExhausted(r) \/ PollTimeout(r) \/ Miss(r) \/ FindJob(r) \/ Joined(r) \/ Acquire(r) \/ AcquireFails(r)
    \/ PollLegacy(r) \/ AssetLegacy(r) \/ UnlockAsset(r) \/ CreateJob(r)
    \/ AwaitStored(r) \/ WaitDone(r) \/ ReadPulled(r) \/ GetNarInfoFromDatabase(r)

-----------------------------------------------------------------------------
(* pullNarInfo, in the background: d is the request that began it *)

PullFails(d) == err' = [err EXCEPT ![d] = TRUE] /\ Goto(Pull(d), "close")

\* It waits for a migration and a PUT first; a lock it cannot have ends it.
PullWaitFails(d) ==
    /\ pc[Pull(d)] \in {"pullMigration", "waitPut"}
    /\ Fault("lock", Pull(d))
    /\ PullFails(d)
    /\ UNCHANGED <<dbVars, ds, stored, done, jobs, narVars, locks>>

\* Mutant of FetchNarInfo: the deferred clean-up does not run after an error.
FetchNarInfoUnlisted(d) ==
    /\ At(Pull(d), "fetch")
    /\ Goto(Pull(d), IF conf.upstream THEN "nar" ELSE "ended")
    /\ UNCHANGED <<dbVars, dsVars, narVars, locks, faults>>

FetchNarInfo(d) ==
    /\ At(Pull(d), "fetch")
    /\ IF conf.upstream THEN Goto(Pull(d), "nar") /\ UNCHANGED err ELSE PullFails(d)
    /\ UNCHANGED <<dbVars, ds, stored, done, jobs, narVars, locks, faults>>

\* prePullNar returns once the NAR is there, or its download has begun.
PrePullNar(d) ==
    LET s == ServerOf[d]
        n == NarOf[HashOf[d]]
        asset == HasNarInStore(Url(n, conf.compression))
                    \/ (conf.cdc /\ (HasNarInChunks(Url(n, "none")) \/ ChunkingInProgress(n)))
    IN /\ At(Pull(d), "nar")
       /\ \/ hasUpstreamJob(s, n) /\ UNCHANGED narVars
          \/ /\ ~hasUpstreamJob(s, n) /\ narLock[n] = Null
             /\ IF asset
                THEN UNCHANGED narVars
                ELSE /\ narLock' = [narLock EXCEPT ![n] = s]
                     /\ narJobs' = [narJobs EXCEPT ![s][n] = "running"]
       /\ Goto(Pull(d), "sign")
       /\ UNCHANGED <<dbVars, dsVars, locks, faults>>

\* The lock of the NAR cannot be had, and polling for the NAR ends without it: what
\* becomes of the download is not the pull's business.
PrePullNarFails(d) ==
    /\ At(Pull(d), "nar")
    /\ ~hasUpstreamJob(ServerOf[d], NarOf[HashOf[d]])
    /\ Fault("lock", Pull(d))
    /\ Goto(Pull(d), "sign")
    /\ UNCHANGED <<dbVars, dsVars, narVars, locks>>

\* The download counts as stored, and its lock may go, before it is in the database.
SignNarInfo(d) ==
    /\ At(Pull(d), "sign")
    /\ stored' = [stored EXCEPT ![d] = TRUE]
    /\ Goto(Pull(d), "save")
    /\ UNCHANGED <<dbVars, ds, done, err, jobs, narVars, locks, faults>>

\* The pull ends without an error, and without a narinfo.
SignFails(d) ==
    /\ At(Pull(d), "sign")
    /\ Fault("sign", Pull(d))
    /\ Goto(Pull(d), "close")
    /\ UNCHANGED <<dbVars, dsVars, narVars, locks>>

StorePulled(d) ==
    /\ At(Pull(d), "save")
    /\ db' = Stored(db, HashOf[d], Normalized(HashOf[d], "actual"))
    /\ Goto(Pull(d), "close")
    /\ UNCHANGED <<legacy, narStore, dsVars, narVars, locks, faults>>

StorePulledFails(d) ==
    /\ At(Pull(d), "save")
    /\ Fault("database", Pull(d))
    /\ PullFails(d)
    /\ UNCHANGED <<dbVars, ds, stored, done, jobs, narVars, locks>>

PullCloses(d) ==
    /\ At(Pull(d), "close")
    /\ jobs' = [jobs EXCEPT ![ServerOf[d]][HashOf[d]] = Null]
    /\ done' = [done EXCEPT ![d] = TRUE]
    /\ Goto(Pull(d), "ended")
    /\ UNCHANGED <<dbVars, ds, stored, err, narVars, locks, faults>>

PullStep(d) ==
    \/ WaitForMigration(Pull(d), "pullMigration") \/ WaitForPut(Pull(d)) \/ PullWaitFails(d)
    \/ GetNarInfoFromDatabase(Pull(d))
    \/ FetchNarInfo(d) \/ PrePullNar(d) \/ PrePullNarFails(d) \/ SignNarInfo(d) \/ SignFails(d)
    \/ StorePulled(d) \/ StorePulledFails(d) \/ PullCloses(d)

-----------------------------------------------------------------------------
(* MigrateNarInfo, in the background: r is the request that read the file *)

MigrateLock(r) ==
    /\ At(Migration(r), "trylock")
    /\ IF migrationLock[HashOf[r]] = Null
       THEN /\ migrationLock' = [migrationLock EXCEPT ![HashOf[r]] = Migration(r)]
            /\ Goto(Migration(r), "check")
       ELSE Goto(Migration(r), "ended") /\ UNCHANGED migrationLock
    /\ UNCHANGED <<dbVars, dsVars, narVars, jobLock, putLock, faults>>

MigrateLockFails(r) ==
    /\ At(Migration(r), "trylock")
    /\ Fault("lock", Migration(r))
    /\ Goto(Migration(r), "ended")
    /\ UNCHANGED <<dbVars, dsVars, narVars, locks>>

\* Another migration may have been faster; then its file stays with that one.
MigrateCheck(r) ==
    /\ At(Migration(r), "check")
    /\ Goto(Migration(r), IF HashOf[r] \in GetMigratedNarInfoHashes(db) THEN "release" ELSE "migrate")
    /\ UNCHANGED <<dbVars, dsVars, narVars, locks, faults>>

\* Without an answer it migrates.
MigrateUnknown(r) ==
    /\ At(Migration(r), "check")
    /\ Fault("database", Migration(r))
    /\ Goto(Migration(r), "migrate")
    /\ UNCHANGED <<dbVars, dsVars, narVars, locks>>

MigrateStore(r) ==
    /\ At(Migration(r), "migrate")
    /\ db' = Stored(db, HashOf[r], LegacyRow(HashOf[r]))
    /\ Goto(Migration(r), "delete")
    /\ UNCHANGED <<legacy, narStore, dsVars, narVars, locks, faults>>

\* Mutant of MigrateFails: the file is deleted all the same.
MigrateFailsIgnored(r) ==
    /\ At(Migration(r), "migrate")
    /\ Fault("database", Migration(r))
    /\ Goto(Migration(r), "delete")
    /\ UNCHANGED <<dbVars, dsVars, narVars, locks>>

MigrateFails(r) ==
    /\ At(Migration(r), "migrate")
    /\ Fault("database", Migration(r))
    /\ Goto(Migration(r), "release")
    /\ UNCHANGED <<dbVars, dsVars, narVars, locks>>

MigrateDelete(r) ==
    /\ At(Migration(r), "delete")
    /\ legacy' = Remove(legacy, {HashOf[r]})
    /\ Goto(Migration(r), "release")
    /\ UNCHANGED <<db, narStore, dsVars, narVars, locks, faults>>

MigrateUnlock(r) ==
    /\ At(Migration(r), "release")
    /\ migrationLock' = [migrationLock EXCEPT ![HashOf[r]] = Null]
    /\ Goto(Migration(r), "ended")
    /\ UNCHANGED <<dbVars, dsVars, narVars, jobLock, putLock, faults>>

MigrateStep(r) ==
    \/ MigrateLock(r) \/ MigrateLockFails(r) \/ MigrateCheck(r) \/ MigrateUnknown(r)
    \/ MigrateStore(r) \/ MigrateFails(r) \/ MigrateDelete(r) \/ MigrateUnlock(r)

-----------------------------------------------------------------------------
(* CheckAndFixNarInfo: the size of a narinfo becomes that of the nar_file *)

\* The size a narinfo should have, if it has another.
CorrectSize(h) ==
    LET u == db.narinfos[h].url
    IN IF /\ u[2] # "none"
          /\ HasNarInStore(u) \/ HasNarInChunks(u)
          /\ HasNarFileRecord(u)
          /\ getNarFileFromDB(u).size # db.narinfos[h].fileSize
       THEN getNarFileFromDB(u).size ELSE Null

\* The narinfo an upload of a NAR looks at has the URL of the NAR.
CheckNarInfo(p) ==
    /\ At(p, "check")
    /\ IF /\ Hash(p) \in GetMigratedNarInfoHashes(db)
          /\ p \in Uploads => Hash(p) \in GetNarInfoHashesByURL(db, Url(NarOf[Hash(p)], conf.compression))
       THEN /\ size' = [size EXCEPT ![p] = CorrectSize(Hash(p))]
            /\ url' = [url EXCEPT ![p] = db.narinfos[Hash(p)].url]
            /\ pc' = [pc EXCEPT ![p] = "fix"]
            /\ UNCHANGED ret
       ELSE Goto(p, "ended")
    /\ UNCHANGED <<dbVars, dsVars, narVars, locks, faults>>

\* Mutant of FixNarInfo: the sizes are compared, and left as they are.
FixNarInfoNever(p) ==
    /\ At(p, "fix")
    /\ Goto(p, "ended")
    /\ UNCHANGED <<dbVars, dsVars, narVars, locks, faults>>

\* Without compression there is neither a size nor a hash of the file.
FixNarInfo(p) ==
    /\ At(p, "fix")
    /\ db' = IF url[p][2] = "none"
             THEN UpdateNarInfoFileHash(UpdateNarInfoFileSize(db, Hash(p), Null), Hash(p), Null)
             ELSE IF size[p] = Null THEN db ELSE UpdateNarInfoFileSize(db, Hash(p), size[p])
    /\ Goto(p, "ended")
    /\ UNCHANGED <<legacy, narStore, dsVars, narVars, locks, faults>>

FixStep(p) == CheckNarInfo(p) \/ FixNarInfo(p)

\* checkAndFixNarInfosForNar, for every narinfo with the URL of the NAR.
FixNarInfos(tables, u) ==
    LET hashes == GetNarInfoHashesByURL(tables, u)
    IN IF hashes # {} /\ u[2] # "none"
       THEN [tables EXCEPT !.narinfos =
               [h \in DOMAIN @ |-> IF h \in hashes
                                   THEN [@[h] EXCEPT !.fileSize = tables.nar_files[u].size] ELSE @[h]]]
       ELSE tables

\* ensureNarFileRecord: the size of the file replaces what a narinfo claimed.
NarRecorded(tables, u) ==
    UpdateNarFileFileSize(CreateNarFile(tables, u, "actual"), u, "actual")

-----------------------------------------------------------------------------
(* PutNarInfo *)

PutLockFails(p) ==
    /\ At(p, "idle")
    /\ Fault("lock", p)
    /\ Goto(p, "failed")
    /\ UNCHANGED <<dbVars, dsVars, narVars, locks>>

PutNarInfo(p) ==
    /\ At(p, "idle")
    /\ putLock[HashOf[p]] = Null
    /\ putLock' = [putLock EXCEPT ![HashOf[p]] = p]
    /\ Goto(p, "putSave")
    /\ UNCHANGED <<dbVars, dsVars, narVars, jobLock, migrationLock, faults>>

PutStore(p) ==
    /\ At(p, "putSave")
    /\ db' = Stored(db, HashOf[p], Normalized(HashOf[p], "claimed"))
    /\ Goto(p, "putLegacy")
    /\ UNCHANGED <<legacy, narStore, dsVars, narVars, locks, faults>>

PutFails(p) ==
    /\ At(p, "putSave")
    /\ Fault("database", p)
    /\ putLock' = [putLock EXCEPT ![HashOf[p]] = Null]
    /\ Goto(p, "failed")
    /\ UNCHANGED <<dbVars, dsVars, narVars, jobLock, migrationLock>>

PutDeletesLegacy(p) ==
    /\ At(p, "putLegacy")
    /\ legacy' = Remove(legacy, {HashOf[p]})
    /\ putLock' = [putLock EXCEPT ![HashOf[p]] = Null]
    /\ Goto(p, "check")
    /\ UNCHANGED <<db, narStore, dsVars, narVars, jobLock, migrationLock, faults>>

PutStep(p) == PutStore(p) \/ PutFails(p) \/ PutDeletesLegacy(p) \/ FixStep(p)

-----------------------------------------------------------------------------
(* PutNar: the file and then its record, or with CDC a record and then its   *)
(* chunks                                                                    *)

Chunking(tables, n) ==
    LET u == Url(n, "none")
    IN IF u \in DOMAIN tables.nar_files /\ tables.nar_files[u].total > 0
       THEN tables
       ELSE SetNarFileChunkingStarted(CreateNarFile(tables, u, "narSize"), u)

Chunked(tables, n) == UpdateNarFileTotalChunks(tables, Url(n, "none"), 1, "narSize")

\* The record of the compressed file goes, and its narinfos are linked to the one
\* of the chunks, which must be there still, in one transaction.
Relinked(tables, u) ==
    LET chunks == Url(u[1], "none")
    IN IF u[2] = "none" \/ ~HasNarFile(tables, chunks) THEN tables
       ELSE LinkNarInfosByURLToNarFile(DeleteNarFileByHash(tables, u), chunks, u)

PutNar(p) ==
    LET u == Url(NarOf[HashOf[p]], conf.compression)
    IN /\ At(p, "idle")
       /\ IF conf.cdc THEN db' = Chunking(db, u[1]) /\ UNCHANGED narStore
                      ELSE narStore' = narStore \cup {u} /\ UNCHANGED db
       /\ Goto(p, "putNar")
       /\ UNCHANGED <<legacy, dsVars, narVars, locks, faults>>

PutNarRecord(p) ==
    LET u == Url(NarOf[HashOf[p]], conf.compression)
    IN /\ At(p, "putNar")
       /\ db' = IF conf.cdc THEN Relinked(Chunked(db, u[1]), u) ELSE NarRecorded(db, u)
       /\ Goto(p, "check")
       /\ UNCHANGED <<legacy, narStore, dsVars, narVars, locks, faults>>

UploadStep(p) == PutNarRecord(p) \/ FixStep(p)

-----------------------------------------------------------------------------
(* MigrateNarToChunks, in the background: r is the request that started it   *)

\* Whoever is between these steps holds the migration lock of the NAR.
ChunksLocked(n) ==
    \E r \in Gets :
        /\ NarOf[HashOf[r]] = n
        /\ pc[ToChunks(r)] \in {"open", "begin", "chunking", "relink", "clean", "delete"}

ChunksLock(r) ==
    /\ At(ToChunks(r), "trylock")
    /\ Goto(ToChunks(r), IF ChunksLocked(NarOf[HashOf[r]]) THEN "ended" ELSE "open")
    /\ UNCHANGED <<dbVars, dsVars, narVars, locks, faults>>

\* A NAR in chunks only has its file and its narinfos seen to; the file is looked
\* for under the URL, where a .nar.zst is not.
ChunksOpen(r) ==
    LET u == NarUrl(HashOf[r])
    IN /\ At(ToChunks(r), "open")
       /\ Goto(ToChunks(r), IF HasNarInChunks(u)
                            THEN IF u[2] = "none" THEN "ended" ELSE "clean"
                            ELSE IF u \in narStore THEN "begin" ELSE "ended")
       /\ UNCHANGED <<dbVars, dsVars, narVars, locks, faults>>

\* A chunking that is done, or in progress, is as good as one of its own; one that
\* has been in progress for too long is taken over (the age is not told here).
ChunksBegin(r) ==
    LET n == NarOf[HashOf[r]]
    IN /\ At(ToChunks(r), "begin")
       /\ \/ /\ HasNarInChunks(Url(n, "none")) \/ ChunkingInProgress(n)
             /\ Goto(ToChunks(r), "clean")
             /\ UNCHANGED db
          \/ /\ ~HasNarInChunks(Url(n, "none"))
             /\ Goto(ToChunks(r), "chunking")
             /\ db' = Chunking(db, n)
       /\ UNCHANGED <<legacy, narStore, dsVars, narVars, locks, faults>>

ChunksComplete(r) ==
    /\ At(ToChunks(r), "chunking")
    /\ Goto(ToChunks(r), "relink")
    /\ db' = Chunked(db, NarOf[HashOf[r]])
    /\ UNCHANGED <<legacy, narStore, dsVars, narVars, locks, faults>>

ChunksRelink(r) ==
    /\ At(ToChunks(r), "relink")
    /\ Goto(ToChunks(r), "clean")
    /\ db' = Relinked(db, NarUrl(HashOf[r]))
    /\ UNCHANGED <<legacy, narStore, dsVars, narVars, locks, faults>>

\* The legacy store alone has the narinfo, or a request is about to read it there:
\* LegacyNar looks for the file of the NAR, and not for its chunks.
ReadFromLegacy(h) ==
    \/ h \notin GetMigratedNarInfoHashes(db)
    \/ \E r \in Gets : HashOf[r] = h /\ pc[r] \in {"legacy", "readLegacy", "legacyNar"}

\* migrateNarToChunksCleanup: the narinfos with the URL of the file get that of the
\* chunks ...
ChunksClean(r) ==
    LET u == NarUrl(HashOf[r])
    IN /\ At(ToChunks(r), "clean")
       /\ Goto(ToChunks(r), "delete")
       /\ db' = UpdateNarInfoCompressionFileSizeHashAndURL(db, u, Url(u[1], "none"), Null, Null)
       /\ UNCHANGED <<legacy, narStore, dsVars, narVars, locks, faults>>

\* ... and the file goes, under its own name or as a .nar.zst.
ChunksDeleteFile(r) ==
    LET u == NarUrl(HashOf[r])
    IN /\ At(ToChunks(r), "delete")
       /\ Goto(ToChunks(r), "ended")
       /\ narStore' = narStore \ {IF u \in narStore THEN u ELSE Url(u[1], "zstd")}
       /\ kept' = kept \ {h \in NarInfos : NarOf[h] = u[1] /\ ReadFromLegacy(h)}
       /\ UNCHANGED <<conf, db, legacy, dsVars, narVars, locks, faults>>

\* The lock or an answer is not had, or the chunking fails and clears its mark, if
\* the database lets it.
ChunksFail(r) ==
    /\ \/ At(ToChunks(r), "trylock") /\ Fault("lock", ToChunks(r)) /\ UNCHANGED db
       \/ At(ToChunks(r), "open") /\ Fault("database", ToChunks(r)) /\ UNCHANGED db
       \/ At(ToChunks(r), "begin") /\ Fault("database", ToChunks(r)) /\ UNCHANGED db
       \/ /\ At(ToChunks(r), "chunking") /\ Fault("database", ToChunks(r))
          /\ db' \in {db, ClearNarFileChunkingStarted(db, Url(NarOf[HashOf[r]], "none"))}
    /\ Goto(ToChunks(r), "ended")
    /\ UNCHANGED <<legacy, narStore, dsVars, narVars, locks>>

\* What follows the chunking goes on after an error.
ChunksGoOn(r) ==
    /\ At(ToChunks(r), "relink") \/ At(ToChunks(r), "clean")
    /\ Fault("database", ToChunks(r))
    /\ Goto(ToChunks(r), IF pc[ToChunks(r)] = "relink" THEN "clean" ELSE "delete")
    /\ UNCHANGED <<dbVars, dsVars, narVars, locks>>

ChunksStep(r) ==
    \/ ChunksLock(r) \/ ChunksOpen(r) \/ ChunksBegin(r) \/ ChunksComplete(r) \/ ChunksRelink(r)
    \/ ChunksClean(r) \/ ChunksFail(r) \/ ChunksGoOn(r)

-----------------------------------------------------------------------------
(* The download of a NAR by a server                                         *)

NarFileUrl(n) == Url(n, IF conf.compression = "none" THEN "zstd" ELSE conf.compression)

\* storeNarFromTempFile, or the start of the chunking.
NarArrives(s, n) ==
    /\ narJobs[s][n] = "running"
    /\ narJobs' = [narJobs EXCEPT ![s][n] = "arrived"]
    /\ IF conf.cdc THEN db' = Chunking(db, n) /\ UNCHANGED narStore
                   ELSE narStore' = narStore \cup {NarFileUrl(n)} /\ UNCHANGED db
    /\ UNCHANGED <<legacy, control, dsVars, narLock, locks, faults>>

\* The lock goes when the record is there; the narinfos are looked at after that.
NarRecords(s, n) ==
    /\ narJobs[s][n] = "arrived"
    /\ narJobs' = [narJobs EXCEPT ![s][n] = "recorded"]
    /\ db' = IF conf.cdc THEN Chunked(db, n) ELSE NarRecorded(db, Url(n, conf.compression))
    /\ UNCHANGED <<legacy, narStore, control, dsVars, narLock, locks, faults>>

NarUnlocks(s, n) ==
    /\ narJobs[s][n] \in {"recorded", "none"}
    /\ narLock[n] = s
    /\ narLock' = [narLock EXCEPT ![n] = Null]
    /\ UNCHANGED <<dbVars, control, dsVars, narJobs, locks, faults>>

NarUnlists(s, n) ==
    LET u == Url(n, conf.compression)
    IN /\ narJobs[s][n] = "recorded"
       /\ narJobs' = [narJobs EXCEPT ![s][n] = "none"]
       /\ db' = IF ~conf.cdc /\ u \in DOMAIN db.nar_files THEN FixNarInfos(db, u) ELSE db
       /\ UNCHANGED <<legacy, narStore, control, dsVars, narLock, locks, faults>>

NarFails(s, n) ==
    /\ narJobs[s][n] = "running"
    /\ Fault("nar", s)
    /\ narJobs' = [narJobs EXCEPT ![s][n] = "none"]
    /\ UNCHANGED <<dbVars, control, dsVars, narLock, locks>>

NarStep(s, n) ==
    NarArrives(s, n) \/ NarRecords(s, n) \/ NarUnlocks(s, n) \/ NarUnlists(s, n) \/ NarFails(s, n)

-----------------------------------------------------------------------------
(* DeleteNarInfo *)

DeleteNarInfo(p) ==
    /\ At(p, "idle")
    /\ kept' = kept \ {HashOf[p]}
    /\ db' = DeleteNarInfoByHash(db, HashOf[p])
    /\ Goto(p, IF HashOf[p] \in DOMAIN legacy THEN "deleteLegacy"
               ELSE IF HashOf[p] \in DOMAIN db.narinfos THEN "ended" ELSE "notfound")
    /\ UNCHANGED <<conf, legacy, narStore, dsVars, narVars, locks, faults>>

\* A file that a migration has deleted since is an error.
DeleteLegacy(p) ==
    /\ At(p, "deleteLegacy")
    /\ legacy' = Remove(legacy, {HashOf[p]})
    /\ Goto(p, IF HashOf[p] \in DOMAIN legacy THEN "ended" ELSE "failed")
    /\ UNCHANGED <<db, narStore, dsVars, narVars, locks, faults>>

-----------------------------------------------------------------------------
(* A server stops: its locks expire *)

Dead(p, s) == Server(p) = s

Crash(s) ==
    LET released(lock) == [k \in DOMAIN lock |->
            IF lock[k] \in Procs /\ Dead(lock[k], s) THEN Null ELSE lock[k]]
    IN /\ Fault("crash", s)
       /\ pc' = [p \in Procs |-> IF Dead(p, s) /\ pc[p] # "idle" /\ pc[p] \notin Final
                                 THEN "crashed" ELSE pc[p]]
       /\ jobs' = [jobs EXCEPT ![s] = [h \in NarInfos |-> Null]]
       /\ narJobs' = [narJobs EXCEPT ![s] = [n \in Nars |-> "none"]]
       /\ jobLock' = released(jobLock)
       /\ migrationLock' = released(migrationLock)
       /\ putLock' = released(putLock)
       /\ UNCHANGED <<ret, url, size, dbVars, ds, stored, done, err, narLock>>

-----------------------------------------------------------------------------
\* Requests come in.
Arrive ==
    \/ \E r \in Gets \cap conf.requests : GetNarInfo(r)
    \/ \E p \in Puts \cap conf.requests : PutNarInfo(p) \/ PutLockFails(p)
    \/ \E p \in Uploads \cap conf.requests : PutNar(p)

Progress ==
    \/ \E r \in Gets : GetStep(r) \/ PullStep(r) \/ MigrateStep(r) \/ ChunksStep(r)
    \/ \E p \in Puts : PutStep(p)
    \/ \E p \in Uploads : UploadStep(p)
    \/ \E p \in Deletes : DeleteLegacy(p)
    \/ \E s \in Servers, n \in Nars : NarStep(s, n)

\* All is quiet: the requests have ended, and what they began.
Quiet ==
    /\ \A p \in Procs : pc[p] = "idle" \/ pc[p] \in Final
    /\ \A s \in Servers, n \in Nars : narJobs[s][n] = "none" /\ narLock[n] # s

Next ==
    \/ (Arrive \/ Progress) /\ UNCHANGED <<conf, kept>>
    \/ (\E r \in Gets : ClientLeaves(r)) /\ UNCHANGED <<conf, kept>>
    \/ \E r \in Gets : ChunksDeleteFile(r)
    \/ \E p \in Deletes \cap conf.requests : DeleteNarInfo(p)
    \/ (\E s \in Servers : Crash(s)) /\ UNCHANGED <<conf, kept>>
    \/ Quiet /\ UNCHANGED vars

Spec == Init /\ [][Next]_vars

-----------------------------------------------------------------------------
TypeOK ==
    /\ DOMAIN db.narinfos \subseteq NarInfos
    /\ db.narinfo_nar_files \subseteq (DOMAIN db.narinfos) \X (DOMAIN db.nar_files)
    /\ DOMAIN legacy \subseteq NarInfos
    /\ narStore \subseteq Nars \X {"none", "xz", "zstd"}
    /\ ds \in [Gets -> Gets]
    /\ stored \in [Gets -> BOOLEAN] /\ done \in [Gets -> BOOLEAN] /\ err \in [Gets -> BOOLEAN]
    /\ \A s \in Servers, h \in NarInfos : jobs[s][h] \in Gets \cup {Null}
    /\ Len(faults) <= MaxFaults

\* A narinfo whose NAR was in the store from the start, and that nobody deletes,
\* stays in the database or in the legacy store, whatever migrations, uploads,
\* crashes, and errors of the database and the locks come together.  It is no
\* longer kept once the migration of the NAR to chunks deletes the file while the
\* narinfo is yet to be migrated, or being read in the legacy store: LegacyNar
\* then purges it (ReadFromLegacy).
PathKept ==
    \A h \in kept : h \in GetMigratedNarInfoHashes(db) \/ h \in DOMAIN legacy

MetError(p) == \E fault \in {"database", "lock"} : <<fault, p>> \in Range(faults)

\* ... and is found: a request may look at the database before a migration and
\* at the legacy store after it, and still does not report a miss or fail, unless
\* it was told not to ask upstream, or the database or a lock returned an error to
\* the request itself or to the pull that it waited for.
FoundWhileKept ==
    \A r \in Gets :
        HashOf[r] \in kept /\ ~conf.uploadOnly /\ pc[r] \in {"notfound", "failed"} =>
            MetError(r) \/ MetError(Pull(ds[r]))

\* When a NAR and its narinfo have been uploaded and all is quiet, the narinfo has
\* the size of the file, whatever size it was uploaded with and in whatever order
\* the steps of the two uploads came.
SizesAgree ==
    Quiet /\ faults = << >> /\ ~conf.cdc /\ (\A g \in Gets : pc[g] = "idle") =>
        \A p \in Uploads :
            LET u == Url(NarOf[HashOf[p]], conf.compression)
            IN pc[p] = "ended" /\ u[2] # "none" /\ u \in narStore =>
                 \A h \in GetNarInfoHashesByURL(db, u) :
                     db.narinfos[h].fileSize = "actual" /\ db.nar_files[u].size = "actual"

Running(p) == pc[p] # "idle" /\ pc[p] \notin Final

\* Nobody waits for a process that is gone: the download a request waits for has
\* ended or is listed and running, and whoever holds a lock is on its way to let
\* it go, after every failure, early return, crash and departure of a client.
\* With the absence of deadlock it follows that every request ends.
WaitedForIsAlive ==
    /\ \A r \in Gets :
         pc[r] \in {"await", "joined", "waitDone"} =>
            LET d == ds[r]
            IN done[d] \/ (Running(Pull(d)) /\ jobs[ServerOf[d]][HashOf[d]] = d)
    /\ \A h \in NarInfos :
         /\ jobLock[h] # Null => pc[jobLock[h]] \notin {"lock", "waitDone", "joined"} /\ Running(jobLock[h])
         /\ migrationLock[h] # Null => Running(migrationLock[h])
         /\ putLock[h] # Null => pc[putLock[h]] \in {"putSave", "putLegacy"}

=============================================================================
