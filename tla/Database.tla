------------------------------ MODULE Database ------------------------------
(***************************************************************************)
(* The queries of pkg/database as operators on a value db with one field   *)
(* per table.  A query that changes tables returns the new value, a query  *)
(* that reads returns keys or rows.                                        *)
(*                                                                         *)
(* A table is a function from the unique key of its rows: a narinfo is     *)
(* found by its hash, a nar_file by its URL <<hash, compression>>, a chunk *)
(* by its hash.  Surrogate ids, sizes of chunks and timestamps that no     *)
(* module compares are left out; "old" tells a row created before every    *)
(* cutoff, "stale" a chunking that has been going on for too long.         *)
(***************************************************************************)
EXTENDS Naturals, FiniteSets, Functions, TLC

CONSTANT Null     \* SQL NULL, and the row a query does not find

Insert(table, key, row) ==
    [k \in DOMAIN table \cup {key} |-> IF k = key THEN row ELSE table[k]]
Remove(table, keys) == Restrict(table, DOMAIN table \ keys)

NoTables ==
    [ narinfos |-> << >>, nar_files |-> << >>, narinfo_nar_files |-> {},
      chunks |-> {}, nar_file_chunks |-> {}, config |-> << >> ]

-----------------------------------------------------------------------------
(* narinfos *)

GetNarInfoByHash(db, h) == IF h \in DOMAIN db.narinfos THEN db.narinfos[h] ELSE Null

\* An upsert that overwrites a row only while its URL is NULL.
CreateNarInfo(db, h, row) ==
    IF h \in DOMAIN db.narinfos /\ db.narinfos[h].url # Null
    THEN db
    ELSE [db EXCEPT !.narinfos = Insert(@, h, row)]

\* Mutant of DeleteNarInfoByHash: the schema lacks the cascade to the links.
DeleteNarInfoByHashOnly(db, h) == [db EXCEPT !.narinfos = Remove(@, {h})]

\* The links of a narinfo go with it (ON DELETE CASCADE).
DeleteNarInfoByHash(db, h) ==
    [db EXCEPT !.narinfos = Remove(@, {h}),
               !.narinfo_nar_files = {l \in @ : l[1] # h}]

DeleteNarInfoByID(db, h) == DeleteNarInfoByHash(db, h)

UpdateNarInfoFileSize(db, h, size) ==
    IF h \in DOMAIN db.narinfos THEN [db EXCEPT !.narinfos[h].fileSize = size] ELSE db

UpdateNarInfoFileHash(db, h, hash) ==
    IF h \in DOMAIN db.narinfos THEN [db EXCEPT !.narinfos[h].fileHash = hash] ELSE db

GetNarInfoHashesByURL(db, url) == {h \in DOMAIN db.narinfos : db.narinfos[h].url = url}

\* Every narinfo with the old URL gets the new one, and loses what described the
\* compressed file.
UpdateNarInfoCompressionFileSizeHashAndURL(db, url, new, size, hash) ==
    [db EXCEPT !.narinfos =
        [h \in DOMAIN @ |-> IF @[h].url # url THEN @[h]
                            ELSE [@[h] EXCEPT !.url = new, !.fileSize = size, !.fileHash = hash]]]

GetMigratedNarInfoHashes(db) == {h \in DOMAIN db.narinfos : db.narinfos[h].url # Null}
GetUnmigratedNarInfoHashes(db) == {h \in DOMAIN db.narinfos : db.narinfos[h].url = Null}

-----------------------------------------------------------------------------
(* nar_files *)

GetNarFileByHashAndCompressionAndQuery(db, url) ==
    IF url \in DOMAIN db.nar_files THEN db.nar_files[url] ELSE Null

GetAllNarFiles(db) == db.nar_files

\* An upsert that leaves the row it finds as it is.
CreateNarFile(db, url, size) ==
    IF url \in DOMAIN db.nar_files
    THEN db
    ELSE [db EXCEPT !.nar_files =
             Insert(@, url, [size |-> size, total |-> 0, started |-> Null,
                             created |-> "new", verified |-> FALSE])]

HasNarFile(db, url) == url \in DOMAIN db.nar_files

UpdateNarFileFileSize(db, url, size) ==
    IF HasNarFile(db, url) THEN [db EXCEPT !.nar_files[url].size = size] ELSE db

UpdateNarFileTotalChunks(db, url, total, size) ==
    IF HasNarFile(db, url)
    THEN [db EXCEPT !.nar_files[url] =
             [@ EXCEPT !.total = total, !.size = size, !.started = Null]]
    ELSE db

\* Of all the given rows, one query each.
UpdateNarFileVerifiedAt(db, urls) ==
    [db EXCEPT !.nar_files =
        [u \in DOMAIN @ |-> IF u \in urls THEN [@[u] EXCEPT !.verified = TRUE] ELSE @[u]]]

SetStarted(db, url, started) ==
    IF HasNarFile(db, url) THEN [db EXCEPT !.nar_files[url].started = started] ELSE db

SetNarFileChunkingStarted(db, url) == SetStarted(db, url, "fresh")

ClearNarFileChunkingStarted(db, url) == SetStarted(db, url, Null)

\* The links of a nar_file, on both sides, go with it.
DeleteNarFileByHash(db, url) ==
    [db EXCEPT !.nar_files = Remove(@, {url}),
               !.narinfo_nar_files = {l \in @ : l[2] # url},
               !.nar_file_chunks = {l \in @ : l.nar # url}]

DeleteNarFileByID(db, url) == DeleteNarFileByHash(db, url)

GetNarFilesToChunk(db) == {u \in DOMAIN db.nar_files : db.nar_files[u].total = 0}

\* Never chunked, or given up, and old.
GetStuckNarFiles(db) ==
    {u \in GetNarFilesToChunk(db) :
        db.nar_files[u].started = Null /\ db.nar_files[u].created = "old"}

\* Whole compressed files whose NAR is also there in chunks.
GetOldCompressedNarFiles(db) ==
    {u \in GetNarFilesToChunk(db) :
        /\ u[2] # "none"
        /\ db.nar_files[u].created = "old"
        /\ \E v \in DOMAIN db.nar_files :
             v[1] = u[1] /\ v[2] = "none" /\ db.nar_files[v].total > 0}

HasAnyChunkedNarFiles(db) == \E u \in DOMAIN db.nar_files : db.nar_files[u].total > 0

-----------------------------------------------------------------------------
(* narinfo_nar_files: pairs <<narinfo, nar_file>> *)

LinkNarInfoToNarFile(db, h, url) == [db EXCEPT !.narinfo_nar_files = @ \cup {<<h, url>>}]

LinkNarInfosByURLToNarFile(db, url, narURL) ==
    [db EXCEPT !.narinfo_nar_files = @ \cup (GetNarInfoHashesByURL(db, narURL) \X {url})]

GetNarFileByNarInfoID(db, h) == {u \in DOMAIN db.nar_files : <<h, u>> \in db.narinfo_nar_files}

GetNarInfoURLByNarFileHash(db, url) ==
    {h \in DOMAIN db.narinfos : <<h, url>> \in db.narinfo_nar_files}

GetNarInfoNarHashByNarFileID(db, url) ==
    {db.narinfos[h].narHash : h \in GetNarInfoURLByNarFileHash(db, url)}

GetNarInfosWithoutNarFiles(db) ==
    {h \in DOMAIN db.narinfos : ~ \E l \in db.narinfo_nar_files : l[1] = h}

GetOrphanedNarFiles(db) ==
    {u \in DOMAIN db.nar_files : ~ \E l \in db.narinfo_nar_files : l[2] = u}

\* Chunked NARs whose size is not the one a narinfo of theirs has.
GetCDCNarFilesWithSizeMismatch(db) ==
    {u \in DOMAIN db.nar_files :
        /\ db.nar_files[u].total > 0
        /\ \E h \in GetNarInfoURLByNarFileHash(db, u) :
             /\ db.narinfos[h].narSize # Null
             /\ db.narinfos[h].narSize # db.nar_files[u].size}

-----------------------------------------------------------------------------
(* chunks, and nar_file_chunks: one link per nar_file and index *)

\* Of all the given chunks, one upsert each.
CreateChunk(db, hashes) == [db EXCEPT !.chunks = @ \cup hashes]

GetChunkByHash(db, c) == IF c \in db.chunks THEN c ELSE Null

DeleteChunkByID(db, c) ==
    [db EXCEPT !.chunks = @ \ {c}, !.nar_file_chunks = {l \in @ : l.chunk # c}]

\* A link that is there stays as it is (ON CONFLICT DO NOTHING).
LinkNarFileToChunks(db, links) ==
    [db EXCEPT !.nar_file_chunks = @ \cup
        {l \in links : ~ \E k \in @ : k.nar = l.nar /\ k.index = l.index}]

\* In the order of their index.
GetChunksByNarFileID(db, url) ==
    LET links == {l \in db.nar_file_chunks : l.nar = url}
    IN [i \in {l.index : l \in links} |-> (CHOOSE l \in links : l.index = i).chunk]

GetOrphanedChunks(db) == {c \in db.chunks : ~ \E l \in db.nar_file_chunks : l.chunk = c}

-----------------------------------------------------------------------------
(* config *)

GetConfigByKey(db, key) == IF key \in DOMAIN db.config THEN db.config[key] ELSE Null

SetConfig(db, key, value) == [db EXCEPT !.config = Insert(@, key, value)]

=============================================================================
