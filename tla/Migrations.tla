----------------------------- MODULE Migrations -----------------------------
(***************************************************************************)
(* How one NAR stored as a whole file becomes a NAR in chunks, and its     *)
(* narinfo file a row: MigrateNarToChunks as servers run it in the         *)
(* background, the commands migrate-nar-to-chunks and migrate-narinfo, the *)
(* crons of lazy chunking, and uploads of the same NAR, which chunk it     *)
(* without the migration lock.                                             *)
(*                                                                         *)
(* That chunking a NAR makes its chunks is left to CdcChunking: here a     *)
(* chunking ends with total_chunks set, or is given up; what matters of    *)
(* its links is whether one that takes a stale lock over has deleted some  *)
(* of an attempt that is only slow.  Rows are at the URLs                  *)
(* <<NarHash, compression>>.                                               *)
(***************************************************************************)
EXTENDS Naturals, Database

CONSTANTS
    Procs,      \* goroutines of servers and commands
    None,       \* nobody
    Faults,     \* "crash"; "expire": the migration lock, which nobody extends,
                \* expires under its holder; "stale": a chunking takes over an hour
    MaxFaults   \* bound on them

VARIABLES
    lazy,       \* cdcLazyChunkingEnabled of the servers
    db,         \* narinfos, nar_files and their links
    files,      \* compressions of the whole files in narStore
    legacy,     \* the URL in the narinfo that narInfoStore has, or Null
    lock,       \* holder of "migration-to-chunks:" of the hash
    pc, task,   \* of each goroutine: where it is, on whose behalf
    todo,       \* todo[p]: the URL it is about
    budget,     \* faults left
    misled,     \* history: a chunking in progress was taken for a finished one
    torn        \* total_chunks of the uncompressed row is set, but links are missing

vars == <<lazy, db, files, legacy, lock, pc, task, todo, budget, misled, torn>>
procVars == <<pc, task, todo>>

NarHash == "n"
URL(compression) == <<NarHash, compression>>
Plain == URL("none")
NarInfoHash == "h"
Row(url) == [url |-> url, fileSize |-> "size", fileHash |-> "hash"]

\* A NAR that was downloaded long ago as .nar.xz, or uncompressed and so stored
\* as .nar.zst; its narinfo has been migrated, or only has the row without a URL
\* that the first read of it made.
Init ==
    /\ lazy \in BOOLEAN
    /\ \E compression \in {"xz", "none"}, migrated \in BOOLEAN :
         LET url == URL(compression)
             row == Row(IF migrated THEN url ELSE Null)
             stored == CreateNarFile(CreateNarInfo(NoTables, NarInfoHash, row), url, "size")
             aged == [stored EXCEPT !.nar_files[url].created = "old"]
         IN /\ db = IF migrated THEN LinkNarInfoToNarFile(aged, NarInfoHash, url) ELSE aged
            /\ files = {IF compression = "none" THEN "zstd" ELSE compression}
            /\ legacy = IF migrated THEN Null ELSE url
    /\ lock = None
    /\ pc = [p \in Procs |-> "idle"]
    /\ task = [p \in Procs |-> None]
    /\ todo = [p \in Procs |-> Plain]
    /\ budget = MaxFaults
    /\ misled = FALSE
    /\ torn = FALSE

Goto(p, state) == pc' = [pc EXCEPT ![p] = state]
IsLazy(p) == lazy /\ task[p] # "command"
NarInfoURL == GetNarInfoByHash(db, NarInfoHash).url

\* getNarFileFromDB: with CDC the uncompressed row comes first.
NarFile(url) ==
    IF Plain \in DOMAIN db.nar_files
    THEN db.nar_files[Plain] ELSE GetNarFileByHashAndCompressionAndQuery(db, url)

HasNarInChunks(url) == NarFile(url) # Null /\ NarFile(url).total > 0

Begin(p, state, for, url) ==
    /\ pc[p] = "idle"
    /\ Goto(p, state)
    /\ task' = [task EXCEPT ![p] = for]
    /\ todo' = [todo EXCEPT ![p] = url]
    /\ UNCHANGED <<lazy, db, files, legacy, lock, budget, misled, torn>>

\* BackgroundMigrateNarToChunks, for the URL of a narinfo that was read or of a
\* file that was served ...
Background(p) ==
    \E url \in {NarInfoURL} \cup {URL(c) : c \in files} :
        url # Null /\ Begin(p, "lock", "server", url)

\* ... or, by the cron of lazy chunking, for a row that got stuck.
LazyRecovery(p) ==
    /\ lazy
    /\ \E url \in GetStuckNarFiles(db) : Begin(p, "lock", "server", url)

\* migrate-nar-to-chunks: no narinfo may be left in the store only, then one of
\* the rows without chunks.
Command(p) ==
    /\ ~(legacy # Null /\ NarInfoURL = Null)
    /\ \E url \in GetNarFilesToChunk(db) : Begin(p, "recheck", "command", url)

\* putNarWithCDC: the body has been read into a temp file.
Put(p) == Begin(p, "chunk", "put", URL("xz"))

\* What has been chunked meanwhile only loses its file.
Recheck(p) ==
    /\ pc[p] = "recheck"
    /\ IF HasNarInChunks(todo[p])
       THEN /\ files' = files \ {todo[p][2]}
            /\ Goto(p, "idle")
       ELSE /\ Goto(p, "lock")
            /\ UNCHANGED files
    /\ UNCHANGED <<lazy, db, legacy, lock, task, todo, budget, misled, torn>>

TryLock(p) ==
    /\ pc[p] = "lock"
    /\ IF lock = None
       THEN lock' = p /\ Goto(p, "look")
       ELSE Goto(p, "idle") /\ UNCHANGED lock
    /\ UNCHANGED <<lazy, db, files, legacy, task, todo, budget, misled, torn>>

\* The second look under the lock, then the copy of the file.  The file of an
\* uncompressed NAR is not found under its own URL.
Look(p) ==
    /\ pc[p] = "look"
    /\ Goto(p, CASE HasNarInChunks(todo[p]) -> IF todo[p] # Plain THEN "rewrite" ELSE "deleted"
                 [] ~HasNarInChunks(todo[p]) -> IF todo[p][2] \in files THEN "chunk" ELSE "failed")
    /\ UNCHANGED <<lazy, db, files, legacy, lock, task, todo, budget, misled, torn>>

\* The attempts of others, whose links are deleted under them.
Overtake(p, state) ==
    pc' = [q \in Procs |-> IF q = p THEN state
                           ELSE IF pc[q] = "chunking" THEN "overtaken" ELSE pc[q]]

\* findOrCreateNarFileForCDC.  ErrAlreadyExists, which also tells of a chunking in
\* progress, makes storeNarWithCDC return nil.  A stale lock is taken over and the
\* links of the attempt that set it deleted, be it dead or slow.
StartChunking(p) ==
    LET created == CreateNarFile(db, Plain, "size")
        row == created.nar_files[Plain]
        taken == row.total > 0 \/ row.started = "fresh"
    IN /\ pc[p] = "chunk"
       /\ IF taken
          THEN /\ Goto(p, IF task[p] = "put" THEN "idle" ELSE "rewrite")
               /\ misled' = (misled \/ (row.total = 0 /\ task[p] # "put"))
               /\ UNCHANGED db
          ELSE /\ IF row.started = "stale" THEN Overtake(p, "clean") ELSE Goto(p, "chunking")
               /\ db' = SetNarFileChunkingStarted(created, Plain)
               /\ UNCHANGED misled
       /\ UNCHANGED <<lazy, files, legacy, lock, task, todo, budget, torn>>

\* cleanupStaleLockChunks: the chunks that were orphans when it looked go, and with
\* them the links that others have made to them since.
CleanStale(p) ==
    /\ pc[p] = "clean"
    /\ Overtake(p, "chunking")
    /\ torn' \in {torn, HasNarInChunks(Plain)}
    /\ UNCHANGED <<lazy, db, files, legacy, lock, task, todo, budget, misled>>

\* The chunks are there: total_chunks is set.  The slow attempt that was overtaken
\* does not know that links are missing, unless the other one has made them again.
MarkComplete(p) ==
    /\ pc[p] \in {"chunking", "overtaken"}
    /\ db' = UpdateNarFileTotalChunks(db, Plain, 1, "size")
    /\ torn' \in CASE pc[p] = "chunking" -> {FALSE}
                    [] pc[p] = "overtaken" -> {torn, torn \/ ~HasNarInChunks(Plain)}
    /\ Goto(p, CASE todo[p] # Plain /\ ~IsLazy(p) -> "relink"
                 [] OTHER -> IF task[p] = "put" THEN "idle" ELSE "rewrite")
    /\ UNCHANGED <<lazy, files, legacy, lock, task, todo, budget, misled>>

\* Mutant of ChunkingFails: the error is logged and the migration goes on.
ChunkingFailsSilently(p) ==
    /\ pc[p] \in {"chunking", "overtaken"}
    /\ db' = ClearNarFileChunkingStarted(db, Plain)
    /\ Goto(p, IF task[p] = "put" THEN "idle" ELSE "rewrite")
    /\ UNCHANGED <<lazy, files, legacy, lock, task, todo, budget, misled, torn>>

\* Any error before: chunking_started_at is taken back, whoever has set it; a failure
\* to do so is only logged.
ChunkingFails(p) ==
    /\ pc[p] \in {"chunking", "overtaken"}
    /\ db' \in {db, ClearNarFileChunkingStarted(db, Plain)}
    /\ Goto(p, IF task[p] = "put" THEN "idle" ELSE "failed")
    /\ UNCHANGED <<lazy, files, legacy, lock, task, todo, budget, misled, torn>>

\* The compressed row goes and its narinfos get the new one, in one transaction,
\* the failure of which is only logged.
Relink(p) ==
    /\ pc[p] = "relink"
    /\ db' \in {db, LinkNarInfosByURLToNarFile(DeleteNarFileByHash(db, todo[p]), Plain, todo[p])}
    /\ Goto(p, IF task[p] = "put" THEN "idle" ELSE "rewrite")
    /\ UNCHANGED <<lazy, files, legacy, lock, task, todo, budget, misled, torn>>

\* migrateNarToChunksCleanup: narinfos get the URL without compression (a failure is
\* only logged), then the file goes, unless the crons of lazy chunking will see to it.
RewriteURL(p) ==
    /\ pc[p] = "rewrite"
    /\ db' \in {db, UpdateNarInfoCompressionFileSizeHashAndURL(db, todo[p], Plain, Null, Null)}
    /\ Goto(p, IF IsLazy(p) THEN "deleted" ELSE "delete")
    /\ UNCHANGED <<lazy, files, legacy, lock, task, todo, budget, misled, torn>>

DeleteWhole(p) ==
    /\ pc[p] = "delete"
    /\ files' = IF todo[p][2] \in files THEN files \ {todo[p][2]} ELSE files \ {"zstd"}
    /\ Goto(p, "deleted")
    /\ UNCHANGED <<lazy, db, legacy, lock, task, todo, budget, misled, torn>>

\* MigrateNarToChunks returns and releases its lock, if it still has it.  The
\* command deletes the file once more.
Unlock(p) ==
    /\ pc[p] \in {"deleted", "failed"}
    /\ lock' = IF lock = p THEN None ELSE lock
    /\ Goto(p, IF task[p] = "command" /\ pc[p] = "deleted" THEN "again" ELSE "idle")
    /\ UNCHANGED <<lazy, db, files, legacy, task, todo, budget, misled, torn>>

DeleteAgain(p) ==
    /\ pc[p] = "again"
    /\ files' = files \ {todo[p][2]}
    /\ Goto(p, "idle")
    /\ UNCHANGED <<lazy, db, legacy, lock, task, todo, budget, misled, torn>>

-----------------------------------------------------------------------------
(* runCDCDeletedCleanup, under its own lock.                               *)

CleanupList(p) ==
    /\ lazy
    /\ \A q \in Procs : pc[q] \notin {"dropRow", "dropFile"}
    /\ \E url \in GetOldCompressedNarFiles(db) : Begin(p, "dropRow", "server", url)

DropRow(p) ==
    /\ pc[p] = "dropRow"
    /\ db' = DeleteNarFileByID(db, todo[p])
    /\ Goto(p, "dropFile")
    /\ UNCHANGED <<lazy, files, legacy, lock, task, todo, budget, misled, torn>>

DropFile(p) ==
    /\ pc[p] = "dropFile"
    /\ files' = files \ {todo[p][2]}
    /\ Goto(p, "idle")
    /\ UNCHANGED <<lazy, db, legacy, lock, task, todo, budget, misled, torn>>

-----------------------------------------------------------------------------
(* migrate-narinfo, for rows without a URL and for those that have one.    *)

NarInfoCommand(p) ==
    \/ /\ NarInfoHash \in GetUnmigratedNarInfoHashes(db)
       /\ legacy # Null
       /\ Begin(p, "migrateNarInfo", "command", legacy)
    \/ /\ NarInfoHash \in GetMigratedNarInfoHashes(db)
       /\ Begin(p, "deleteNarInfo", "command", NarInfoURL)

\* MigrateNarInfo, after its TryLock: another one may have been faster.
MigrateNarInfo(p) ==
    /\ pc[p] = "migrateNarInfo"
    /\ IF NarInfoURL # Null
       THEN Goto(p, "idle") /\ UNCHANGED db
       ELSE /\ db' = LinkNarInfoToNarFile(
                         CreateNarFile(CreateNarInfo(db, NarInfoHash, Row(todo[p])), todo[p], "size"),
                         NarInfoHash, todo[p])
            /\ Goto(p, "deleteNarInfo")
    /\ UNCHANGED <<lazy, files, legacy, lock, task, todo, budget, misled, torn>>

DeleteNarInfo(p) ==
    /\ pc[p] = "deleteNarInfo"
    /\ legacy' = Null
    /\ Goto(p, "idle")
    /\ UNCHANGED <<lazy, db, files, lock, task, todo, budget, misled, torn>>

-----------------------------------------------------------------------------
Spend(fault) == fault \in Faults /\ budget > 0 /\ budget' = budget - 1

Crash(p) ==
    /\ Spend("crash")
    /\ pc[p] # "idle"
    /\ Goto(p, "idle")
    /\ UNCHANGED <<lazy, db, files, legacy, lock, task, todo, misled, torn>>

\* The lock of a dead holder expires by itself.
LockExpires ==
    /\ lock # None
    /\ IF pc[lock] = "idle" THEN UNCHANGED budget ELSE Spend("expire")
    /\ lock' = None
    /\ UNCHANGED <<lazy, db, files, legacy, procVars, misled, torn>>

\* chunking_started_at becomes an hour old: of an attempt that died, or a slow one.
ChunkingGoesStale ==
    /\ NarFile(Plain) # Null
    /\ NarFile(Plain).started = "fresh"
    /\ IF \A p \in Procs : pc[p] \notin {"clean", "chunking"}
       THEN UNCHANGED budget ELSE Spend("stale")
    /\ db' = SetStarted(db, Plain, "stale")
    /\ UNCHANGED <<lazy, files, legacy, lock, procVars, misled, torn>>

Step(p) ==
    \/ Background(p) \/ LazyRecovery(p) \/ Command(p) \/ Put(p) \/ Recheck(p) \/ TryLock(p) \/ Look(p)
    \/ StartChunking(p) \/ CleanStale(p) \/ MarkComplete(p) \/ ChunkingFails(p) \/ Relink(p)
    \/ RewriteURL(p) \/ DeleteWhole(p) \/ Unlock(p) \/ DeleteAgain(p)
    \/ CleanupList(p) \/ DropRow(p) \/ DropFile(p)
    \/ NarInfoCommand(p) \/ MigrateNarInfo(p) \/ DeleteNarInfo(p)
    \/ Crash(p)

Next == (\E p \in Procs : Step(p)) \/ LockExpires \/ ChunkingGoesStale

Spec == Init /\ [][Next]_vars

-----------------------------------------------------------------------------
\* serveNarFromStorageViaPipe: a NAR that is chunked is served from its chunks, any
\* other from the file for its URL.
Servable(url) ==
    IF HasNarInChunks(url) THEN ~torn ELSE (IF url = Plain THEN "zstd" ELSE url[2]) \in files

KnownURLs == {NarInfoURL, legacy} \ {Null}

\* Whatever goroutines migrate the NAR at once and wherever they die, it can be served
\* under the URL its narinfo has (MigrateNarToChunks, migrateNarToChunksCleanup),
\* unless one of them took a chunking that another one had in progress for done, or a
\* chunking that took over an hour was taken over while at work and completed all the
\* same.
NarKept ==
    /\ torn => "stale" \in Faults
    /\ misled \/ torn \/ \A url \in KnownURLs : Servable(url)

\* The user guide on migrate-nar-to-chunks: the whole file is deleted once the NAR
\* has been migrated (MigrateNarToChunks); until then it is there, or someone is
\* just chunking it.
DeletedOnceMigrated ==
    \/ files # {} \/ HasNarInChunks(Plain)
    \/ \E p \in Procs : pc[p] \in {"clean", "chunking", "overtaken"}

=============================================================================
