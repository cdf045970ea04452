-------------------------------- MODULE Fsck --------------------------------
(***************************************************************************)
(* ncps fsck (pkg/ncps/fsck.go): it collects suspects, looks at each of    *)
(* them again, and repairs what is still wrong, looking once more before   *)
(* each deletion, while servers go on using the same database and stores.  *)
(*                                                                         *)
(* Chunk c with content c is good; a file whose content is another is      *)
(* corrupt.  A NAR hash stands for the sequence of its chunks.  Whole NARs *)
(* are compressed: a NAR without compression is stored under another name  *)
(* than its record has, and fsck takes it for missing (see README.md).     *)
(***************************************************************************)
EXTENDS Sequences, Database

CONSTANTS
    NarInfos,      \* narinfo hashes
    Nars,          \* NAR hashes
    Chunks,        \* chunk hashes
    NarOf,         \* the NAR of each narinfo
    ContentOf,     \* the chunks of each NAR
    Shapes,        \* what a crash, an eviction or a bad disk may leave of each NAR
    Spare,         \* a chunk of no NAR
    Options,       \* <<--verified-since, --verify-content>>
    MaxWrites      \* bound on the steps of servers next to fsck

NarFileRow == [ size : Nat, total : Nat, started : {Null, "fresh"}, created : {"old", "new"},
                verified : BOOLEAN ]

\* A NAR has a chunk at least: it begins with a header.
ASSUME FsckAssumption ==
    /\ NarOf \in [NarInfos -> Nars]
    /\ ContentOf \in [Nars -> Seq(Chunks) \ {<< >>}]
    /\ Null \notin Chunks
    /\ Null \notin NarFileRow
    /\ MaxWrites \in Nat

VARIABLES
    db,            \* the database
    store,         \* URLs of the whole files in the NAR store
    chunkStore,    \* content of each file in the chunk store
    options,       \* --verified-since, --verify-content, and whether chunks are checked
    phase,         \* where fsck is
    todo,          \* the checks of the phase that are left
    rows,          \* nar_files as read by GetAllNarFiles
    found,         \* fsckResults: the suspects of each check
    work,          \* the items of the first check of todo that are left
    doomed,        \* the item that was just found wrong again
    before,        \* narinfos without nar_file before the deletions of a check
    writes,        \* steps servers may still take
    healthy        \* history: narinfos that could be served when fsck began

stores == <<db, store, chunkStore>>
vars == <<stores, options, phase, todo, rows, found, work, doomed, before, writes, healthy>>

linkChecks == << "narinfosWithoutNarFiles", "orphanedNarFilesInDB" >>
fileChecks == << "narFilesMissingInStorage", "orphanedNarFilesInStorage" >>
cdcChecks == << "orphanedChunksInDB", "narFilesWithChunkIssues", "narFilesWithSizeMismatch" >>
chunkFileChecks == << "orphanedChunksInStorage" >>
contentChecks == << "narFilesWithCorruptChunks", "narFilesWithHashMismatch" >>
Checks == UNION {Range(linkChecks), Range(fileChecks), Range(cdcChecks), Range(chunkFileChecks),
                 Range(contentChecks)}

\* Mutant of CdcMode: the configuration alone decides.
CdcModeConfigured == GetConfigByKey(db, "cdc_enabled") = TRUE

\* Either the configuration says so, or there are chunked NARs.
CdcMode == GetConfigByKey(db, "cdc_enabled") = TRUE \/ HasAnyChunkedNarFiles(db)

InMode(mode, seq) == IF mode THEN seq ELSE << >>

\* The checks in the order of collectFsckSuspects, which reads nar_files once
\* before the third, ...
VerifyOrder ==
    linkChecks \o fileChecks \o InMode(options.cdcMode, cdcChecks \o chunkFileChecks)
        \o InMode(options.cdcMode /\ options.verifyContent, contentChecks)
CollectOrder(mode) ==
    Append(linkChecks, "allNarFiles") \o fileChecks \o InMode(mode, cdcChecks \o chunkFileChecks)
        \o InMode(mode /\ options.verifyContent, contentChecks)

\* ... and of repairFsckIssues, which leaves the chunk files to the end.
RepairOrder ==
    linkChecks \o fileChecks \o InMode(options.cdcMode, cdcChecks)
        \o InMode(options.cdcMode /\ options.verifyContent, contentChecks)
        \o InMode(options.cdcMode, chunkFileChecks)

NoSuspects == [c \in Checks |-> {}]

-----------------------------------------------------------------------------
(* What each check looks for *)

shouldCheckNar(row) == ~options.verifiedSince \/ ~row.verified

\* isNarFileChunkBroken, for a nar_file as it was when it was read.
isNarFileChunkBroken(u) ==
    LET chunks == GetChunksByNarFileID(db, u)
    IN \/ Cardinality(DOMAIN chunks) # rows[u].total
       \/ \E i \in DOMAIN chunks : chunks[i] \notin DOMAIN chunkStore

isNarFileContentCorrupt(u) ==
    \E c \in Range(GetChunksByNarFileID(db, u)) : c \in DOMAIN chunkStore /\ chunkStore[c] # c

isNarFileHashMismatched(u) ==
    LET chunks == GetChunksByNarFileID(db, u)
    IN \E hash \in GetNarInfoNarHashByNarFileID(db, u) :
         hash # [i \in DOMAIN chunks |-> IF chunks[i] \in DOMAIN chunkStore
                                         THEN chunkStore[chunks[i]] ELSE Null]

\* Mutant of Eligible: chunked NARs are looked for in the NAR store.
EligibleChunked(chunked) == {u \in DOMAIN rows : shouldCheckNar(rows[u])}

\* The nar_files a check has to look at, of those that were read.
Eligible(chunked) ==
    {u \in DOMAIN rows : shouldCheckNar(rows[u]) /\ (rows[u].total > 0 <=> chunked)}

collectNarFilesWithChunkIssues == {u \in Eligible(TRUE) : isNarFileChunkBroken(u)}

collectOrphanedChunksInStorage == {c \in DOMAIN chunkStore : GetChunkByHash(db, c) = Null}

\* The content checks leave out what an earlier check has found.
collectNarFilesWithCorruptChunks ==
    {u \in Eligible(TRUE) \ found.narFilesWithChunkIssues : isNarFileContentCorrupt(u)}

collectNarFilesWithHashMismatch ==
    {u \in Eligible(TRUE) \ (found.narFilesWithChunkIssues \cup found.narFilesWithCorruptChunks) :
        isNarFileHashMismatched(u)}

Suspects(check) ==
    CASE check = "narinfosWithoutNarFiles" -> GetNarInfosWithoutNarFiles(db)
      [] check = "orphanedNarFilesInDB" -> GetOrphanedNarFiles(db)
      [] check = "narFilesMissingInStorage" -> Eligible(FALSE) \ store
      [] check = "orphanedNarFilesInStorage" -> store \ DOMAIN db.nar_files
      [] check = "orphanedChunksInDB" -> GetOrphanedChunks(db)
      [] check = "narFilesWithChunkIssues" -> collectNarFilesWithChunkIssues
      [] check = "narFilesWithSizeMismatch" -> GetCDCNarFilesWithSizeMismatch(db) \cap Eligible(TRUE)
      [] check = "orphanedChunksInStorage" -> collectOrphanedChunksInStorage
      [] check = "narFilesWithCorruptChunks" -> collectNarFilesWithCorruptChunks
      [] check = "narFilesWithHashMismatch" -> collectNarFilesWithHashMismatch

\* The second look of reVerifyFsckSuspects, and the third of repairFsckIssues.
StillWrong(check, x) ==
    CASE check = "narinfosWithoutNarFiles" -> GetNarFileByNarInfoID(db, x) = {}
      [] check = "orphanedNarFilesInDB" -> GetNarInfoURLByNarFileHash(db, x) = {}
      [] check = "narFilesMissingInStorage" -> x \notin store
      [] check = "orphanedNarFilesInStorage" ->
            GetNarFileByHashAndCompressionAndQuery(db, x) = Null
      [] check = "orphanedChunksInDB" -> x \in GetOrphanedChunks(db)
      [] check = "narFilesWithChunkIssues" -> isNarFileChunkBroken(x)
      [] check = "narFilesWithSizeMismatch" -> x \in GetCDCNarFilesWithSizeMismatch(db)
      [] check = "orphanedChunksInStorage" -> GetChunkByHash(db, x) = Null
      [] check = "narFilesWithCorruptChunks" -> isNarFileContentCorrupt(x)
      [] check = "narFilesWithHashMismatch" -> isNarFileHashMismatched(x)

-----------------------------------------------------------------------------
(* What fsck may find *)

Url(n, compression) == <<n, compression>>
Unchunked(size) == [size |-> size, total |-> 0, started |-> Null, created |-> "old", verified |-> FALSE]
Chunked(n) == [Unchunked(Len(ContentOf[n])) EXCEPT !.total = Len(ContentOf[n])]
Links(n) == {[nar |-> Url(n, "none"), index |-> i, chunk |-> ContentOf[n][i]] : i \in DOMAIN ContentOf[n]}

\* The URL a NAR of a shape is recorded under, if it is.
UrlOf(n, shape) ==
    Url(n, IF shape \in {"whole", "chunking", "lost", "unlinked"} THEN "xz" ELSE "none")

IsChunked(shape) == shape \in {"chunked", "gap", "truncated", "lostChunk", "badChunk"}
HasRow(shape) == shape \notin {"absent", "file", "narinfo"}
HasNarInfo(shape) == shape \notin {"absent", "file", "unlinked"}

LinksOf(n, shape) == {l \in Links(n) : IsChunked(shape) /\ (shape = "gap" => l.index # 1)}

\* The rows of a NAR: its record, and next to it that of a chunking under way.
RowsOf(n, shape) ==
    (IF HasRow(shape) THEN {UrlOf(n, shape)} ELSE {})
    \cup (IF shape = "chunking" THEN {Url(n, "none")} ELSE {})

RowOf(u, shape) ==
    LET row == IF IsChunked(shape) THEN Chunked(u[1]) ELSE Unchunked(Len(ContentOf[u[1]]))
    IN [row EXCEPT !.size = IF shape = "truncated" THEN @ - 1 ELSE @,
                   !.started = IF shape = "chunking" /\ u[2] = "none" THEN "fresh" ELSE Null]

NarInfoRow(h, url) ==
    [ url |-> url, fileSize |-> Null, fileHash |-> Null,
      narSize |-> Len(ContentOf[NarOf[h]]), narHash |-> ContentOf[NarOf[h]] ]

\* Every NAR is in one of the shapes; a chunk of no NAR may be left.
Init ==
    \E shape \in {f \in [Nars -> UNION Range(Shapes)] : \A n \in Nars : f[n] \in Shapes[n]},
       cdc \in BOOLEAN, left \in {{}, {Spare}} :
        LET links == UNION {LinksOf(n, shape[n]) : n \in Nars}
        IN /\ db = [ narinfos |->
                       [h \in {h \in NarInfos : HasNarInfo(shape[NarOf[h]])} |->
                          NarInfoRow(h, UrlOf(NarOf[h], shape[NarOf[h]]))],
                     nar_files |->
                       [u \in UNION {RowsOf(n, shape[n]) : n \in Nars} |-> RowOf(u, shape[u[1]])],
                     narinfo_nar_files |->
                       {<<h, UrlOf(NarOf[h], shape[NarOf[h]])>> : h \in
                          {h \in NarInfos : HasNarInfo(shape[NarOf[h]]) /\ HasRow(shape[NarOf[h]])}},
                     chunks |-> {l.chunk : l \in links} \cup left,
                     nar_file_chunks |-> links,
                     config |-> IF cdc THEN [cdc_enabled |-> TRUE] ELSE << >> ]
           /\ store = {Url(n, "xz") :
                         n \in {n \in Nars : shape[n] \in {"whole", "chunking", "file", "unlinked"}}}
           /\ chunkStore =
                LET lost == UNION {Range(ContentOf[n]) : n \in {n \in Nars : shape[n] = "lostChunk"}}
                    bad == UNION {Range(ContentOf[n]) : n \in {n \in Nars : shape[n] = "badChunk"}}
                IN [c \in ({l.chunk : l \in links} \ lost) \cup left |->
                      IF c \in bad THEN Null ELSE c]
           /\ \E o \in Options :
                options = [verifiedSince |-> o[1], verifyContent |-> o[2], cdcMode |-> FALSE]
           /\ phase = "idle"
           /\ todo = << >>
           /\ rows = << >>
           /\ found = NoSuspects
           /\ work = {}
           /\ doomed = {}
           /\ before = {}
           /\ writes = MaxWrites
           /\ healthy = {}

-----------------------------------------------------------------------------
(* What a server can serve: the narinfo's NAR as a whole file, or in chunks *)

InStore(u) == u \in store

InChunks(u) ==
    /\ u \in DOMAIN db.nar_files
    /\ db.nar_files[u].total = Len(ContentOf[u[1]])
    /\ db.nar_files[u].size = Len(ContentOf[u[1]])
    /\ GetChunksByNarFileID(db, u) = ContentOf[u[1]]
    /\ \A c \in Range(ContentOf[u[1]]) : c \in DOMAIN chunkStore /\ chunkStore[c] = c

Served(h) ==
    /\ h \in DOMAIN db.narinfos
    /\ LET u == db.narinfos[h].url
       IN /\ u \in GetNarFileByNarInfoID(db, h)
          /\ InStore(u) \/ InChunks(u)

-----------------------------------------------------------------------------
(* The command *)

\* The action of fsckCommand up to the first query.
Start ==
    /\ phase = "idle"
    /\ phase' = "collect"
    /\ options' = [options EXCEPT !.cdcMode = CdcMode]
    /\ todo' = CollectOrder(CdcMode)
    /\ found' = NoSuspects
    /\ healthy' = {h \in NarInfos : Served(h)}
    /\ UNCHANGED <<stores, rows, work, doomed, before, writes>>

ReadNarFiles ==
    /\ phase = "collect"
    /\ todo # << >>
    /\ Head(todo) = "allNarFiles"
    /\ rows' = GetAllNarFiles(db)
    /\ todo' = Tail(todo)
    /\ UNCHANGED <<stores, options, phase, found, work, doomed, before, writes, healthy>>

\* The nar_files that a check finds in order.
InOrder(check) ==
    CASE check = "narFilesMissingInStorage" -> Eligible(FALSE) \cap store
      [] check = "narFilesWithSizeMismatch" ->
            Eligible(TRUE) \ (found.narFilesWithChunkIssues \cup Suspects(check))
      [] OTHER -> {}

Collect ==
    /\ phase = "collect"
    /\ todo # << >>
    /\ Head(todo) # "allNarFiles"
    /\ found' = [found EXCEPT ![Head(todo)] = Suspects(Head(todo))]
    /\ db' = UpdateNarFileVerifiedAt(db, InOrder(Head(todo)))
    /\ todo' = Tail(todo)
    /\ UNCHANGED <<store, chunkStore, options, phase, rows, work, doomed, before, writes, healthy>>

Collected ==
    /\ phase = "collect"
    /\ todo = << >>
    /\ phase' = "verify"
    /\ todo' = VerifyOrder
    /\ UNCHANGED <<stores, options, rows, found, work, doomed, before, writes, healthy>>

\* reVerifyFsckSuspects drops what is no longer wrong.
Verify ==
    /\ phase = "verify"
    /\ todo # << >>
    /\ found' = [found EXCEPT ![Head(todo)] = {x \in @ : StillWrong(Head(todo), x)}]
    /\ todo' = Tail(todo)
    /\ UNCHANGED <<stores, options, phase, rows, work, doomed, before, writes, healthy>>

\* No issues, --dry-run, or the operator says no.
Stop ==
    /\ phase = "verify"
    /\ todo = << >>
    /\ phase' = "idle"
    /\ UNCHANGED <<stores, options, todo, rows, found, work, doomed, before, writes, healthy>>

StartRepair ==
    /\ phase = "verify"
    /\ todo = << >>
    /\ found # NoSuspects
    /\ phase' = "repair"
    /\ todo' = RepairOrder
    /\ UNCHANGED <<stores, options, rows, found, work, doomed, before, writes, healthy>>

\* The checks that end with a sweep for what their deletions orphaned.
ChunkedChecks == {"narFilesWithChunkIssues", "narFilesWithSizeMismatch"} \cup Range(contentChecks)
Sweeping == {"narFilesMissingInStorage"} \cup ChunkedChecks

\* The checks that look at all their items once before the first deletion.
LookOnce == {"orphanedChunksInDB", "narFilesWithSizeMismatch"}

\* Repairs of a check begin; without size mismatches there is nothing to do.
RepairCheck ==
    /\ phase = "repair"
    /\ todo # << >>
    /\ IF Head(todo) = "narFilesWithSizeMismatch" /\ found[Head(todo)] = {}
       THEN todo' = Tail(todo) /\ UNCHANGED <<phase, work, before>>
       ELSE /\ phase' = "items"
            /\ work' = IF Head(todo) \in LookOnce
                       THEN {x \in found[Head(todo)] : StillWrong(Head(todo), x)}
                       ELSE found[Head(todo)]
            /\ before' = GetNarInfosWithoutNarFiles(db)
            /\ UNCHANGED todo
    /\ UNCHANGED <<stores, options, rows, found, doomed, writes, healthy>>

\* Look at an item once more ...
RepairLook ==
    /\ phase = "items"
    /\ doomed = {}
    /\ \E x \in work :
         /\ work' = work \ {x}
         /\ doomed' = IF Head(todo) \in LookOnce \/ StillWrong(Head(todo), x) THEN {x} ELSE {}
    /\ UNCHANGED <<stores, options, phase, todo, rows, found, before, writes, healthy>>

\* ... and delete it.
Delete(check, x) ==
    \/ /\ check = "narinfosWithoutNarFiles"
       /\ db' = DeleteNarInfoByID(db, x)
       /\ UNCHANGED <<store, chunkStore>>
    \/ /\ check \in {"orphanedNarFilesInDB", "narFilesMissingInStorage"} \cup ChunkedChecks
       /\ db' = DeleteNarFileByHash(db, x)
       /\ UNCHANGED <<store, chunkStore>>
    \/ /\ check = "orphanedNarFilesInStorage"
       /\ store' = store \ {x}
       /\ UNCHANGED <<db, chunkStore>>
    \/ /\ check = "orphanedChunksInDB"
       /\ db' = DeleteChunkByID(db, x)
       /\ UNCHANGED <<store, chunkStore>>
    \/ /\ check = "orphanedChunksInStorage"
       /\ chunkStore' = Remove(chunkStore, {x})
       /\ UNCHANGED <<db, store>>

RepairDelete ==
    /\ phase = "items"
    /\ \E x \in doomed : Delete(Head(todo), x)
    /\ doomed' = {}
    /\ UNCHANGED <<options, phase, todo, rows, found, work, before, writes, healthy>>

\* The narinfos that have lost their nar_file since the repairs of the check began.
SweepNarInfos ==
    /\ phase = "items" /\ work = {} /\ doomed = {} /\ Head(todo) \in Sweeping
    /\ phase' = "narinfos"
    /\ work' = GetNarInfosWithoutNarFiles(db) \ before
    /\ UNCHANGED <<stores, options, todo, rows, found, doomed, before, writes, healthy>>

SweepNarInfo ==
    /\ phase = "narinfos"
    /\ \E h \in work :
         /\ db' = DeleteNarInfoByID(db, h)
         /\ work' = work \ {h}
    /\ UNCHANGED <<store, chunkStore, options, phase, todo, rows, found, doomed, before, writes, healthy>>

\* All orphaned chunks, whoever orphaned them.
SweepChunks ==
    /\ phase = "narinfos" /\ work = {} /\ Head(todo) \in ChunkedChecks
    /\ phase' = "chunks"
    /\ work' = GetOrphanedChunks(db)
    /\ UNCHANGED <<stores, options, todo, rows, found, doomed, before, writes, healthy>>

\* The file of a chunk ...
SweepChunk ==
    /\ phase = "chunks"
    /\ doomed = {}
    /\ \E c \in work :
         /\ chunkStore' = Remove(chunkStore, {c})
         /\ work' = work \ {c}
         /\ doomed' = {c}
    /\ UNCHANGED <<db, store, options, phase, todo, rows, found, before, writes, healthy>>

\* ... then its row.
SweepChunkRow ==
    /\ phase = "chunks"
    /\ \E c \in doomed : db' = DeleteChunkByID(db, c)
    /\ doomed' = {}
    /\ UNCHANGED <<store, chunkStore, options, phase, todo, rows, found, work, before, writes, healthy>>

CheckRepaired ==
    /\ work = {} /\ doomed = {}
    /\ \/ phase = "items" /\ Head(todo) \notin Sweeping
       \/ phase = "narinfos" /\ Head(todo) \notin ChunkedChecks
       \/ phase = "chunks"
    /\ phase' = "repair"
    /\ todo' = Tail(todo)
    /\ UNCHANGED <<stores, options, rows, found, work, doomed, before, writes, healthy>>

Repaired ==
    /\ phase = "repair"
    /\ todo = << >>
    /\ phase' = "idle"
    /\ UNCHANGED <<stores, options, todo, rows, found, work, doomed, before, writes, healthy>>

-----------------------------------------------------------------------------
(* Servers at work meanwhile: an upload, and a chunking with its cleanup *)

fsckVars == <<options, phase, todo, rows, found, work, doomed, before>>

Write == writes > 0 /\ writes' = writes - 1 /\ UNCHANGED fsckVars

PutNar(n) ==
    /\ Write
    /\ Url(n, "xz") \notin store
    /\ store' = store \cup {Url(n, "xz")}
    /\ UNCHANGED <<db, chunkStore, healthy>>

RecordNar(u) ==
    /\ Write
    /\ u[2] = "xz" /\ u \notin DOMAIN db.nar_files
    /\ db' = CreateNarFile(db, u, Len(ContentOf[u[1]]))
    /\ UNCHANGED <<store, chunkStore, healthy>>

PutNarInfo(h) ==
    LET u == Url(NarOf[h], "xz")
    IN /\ Write
       /\ u \in store
       /\ h \notin DOMAIN db.narinfos
       /\ db' = LinkNarInfoToNarFile(
                   CreateNarFile(CreateNarInfo(db, h, NarInfoRow(h, u)), u, Len(ContentOf[u[1]])), h, u)
       /\ UNCHANGED <<store, chunkStore, healthy>>

StartChunking(n) ==
    LET u == Url(n, "none")
    IN /\ Write
       /\ Url(n, "xz") \in store
       /\ u \notin DOMAIN db.nar_files
       /\ db' = SetNarFileChunkingStarted(CreateNarFile(db, u, Len(ContentOf[n])), u)
       /\ UNCHANGED <<store, chunkStore, healthy>>

ChunkingBy(n) ==
    LET u == Url(n, "none") IN u \in DOMAIN db.nar_files /\ db.nar_files[u].started # Null

\* Its chunks are stored, then recorded, as one batch.
RecordChunks(n) ==
    /\ Write
    /\ ChunkingBy(n)
    /\ db' = LinkNarFileToChunks(CreateChunk(db, Range(ContentOf[n])), Links(n))
    /\ chunkStore' = [c \in DOMAIN chunkStore \cup Range(ContentOf[n]) |->
                        IF c \in Range(ContentOf[n]) THEN c ELSE chunkStore[c]]
    /\ UNCHANGED <<store, healthy>>

\* The narinfos of the NAR move to the chunks, and the whole file goes.
CompleteChunking(n) ==
    LET u == Url(n, "none")
        v == Url(n, "xz")
        moved == UpdateNarInfoCompressionFileSizeHashAndURL(db, v, u, Null, Null)
    IN /\ Write
       /\ ChunkingBy(n)
       /\ GetChunksByNarFileID(db, u) = ContentOf[n]
       /\ db' = DeleteNarFileByHash(
                   LinkNarInfosByURLToNarFile(
                      UpdateNarFileTotalChunks(moved, u, Len(ContentOf[n]), Len(ContentOf[n])), u, u), v)
       /\ store' = store \ {v}
       /\ healthy' = healthy \ {h \in NarInfos : NarOf[h] = n}
       /\ UNCHANGED chunkStore

Server ==
    \/ \E n \in Nars : PutNar(n) \/ StartChunking(n) \/ RecordChunks(n) \/ CompleteChunking(n)
    \/ \E u \in store : RecordNar(u)
    \/ \E h \in NarInfos : PutNarInfo(h)

-----------------------------------------------------------------------------
Step ==
    \/ ReadNarFiles \/ Collect \/ Collected \/ Verify
    \/ RepairCheck \/ RepairLook \/ RepairDelete \/ SweepNarInfos \/ SweepNarInfo
    \/ SweepChunks \/ SweepChunk \/ SweepChunkRow \/ CheckRepaired \/ Repaired

Next == Start \/ Step \/ Stop \/ StartRepair \/ Server

Spec == Init /\ [][Next]_vars

\* fsck is run again and again, it ends, and its findings are repaired now and then.
FairSpec == Spec /\ WF_vars(Start) /\ WF_vars(Step) /\ WF_vars(Stop) /\ SF_vars(StartRepair)

\* What could be served when fsck began, and no server has moved since, can be
\* served as long as fsck runs: neither the three looks nor the sweeps for what
\* the deletions orphaned take a narinfo, a NAR or a chunk that is in order,
\* while uploads and chunkings go on next to them.  A whole file is that of a
\* compressed NAR (UrlOf): the .nar.zst file of an uncompressed one has another
\* name than its row, and fsck takes both for orphans and deletes them.
HealthyKept == phase # "idle" => \A h \in healthy : Served(h)

Clean ==
    /\ GetNarInfosWithoutNarFiles(db) = {}
    /\ GetOrphanedNarFiles(db) = {}
    /\ store \subseteq DOMAIN db.nar_files
    /\ \A h \in DOMAIN db.narinfos : Served(h)
    /\ CdcMode => GetOrphanedChunks(db) = {} /\ DOMAIN chunkStore \subseteq db.chunks

\* Repeated repairs that look at everything end in a cache in which every
\* narinfo can be served and nothing is left over.
EventuallyClean ==
    [](options.verifyContent /\ ~options.verifiedSince) => <>[]Clean

=============================================================================
