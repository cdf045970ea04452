-------------------------- MODULE NarInfoProofs --------------------------
(***************************************************************************)
(* Proofs about NarInfo, for every number of narinfos, NARs, servers,      *)
(* requests and faults.                                                    *)
(*                                                                         *)
(*   TypeInv     rows, links, stores, locks and where each process may be  *)
(*   AliveInv    whoever is waited for is under way        (WaitInv,       *)
(*               JobInv, LockInv)                                          *)
(*   KeptInv     what a process has read of a narinfo that is kept is      *)
(*               still true of the tables and stores, or the process or    *)
(*               its pull has met an error          (Sound, Blame, Lawful) *)
(*   SizeInv     a size that is wrong has somebody to correct it           *)
(*                                                                         *)
(* Each is shown to hold at first and to be kept by the steps of each kind *)
(* of process in turn.                                                     *)
(***************************************************************************)
EXTENDS NarInfo, TLAPS

-----------------------------------------------------------------------------
(* Types.                                                                  *)

\* The URLs of NARs, without the .zst under which an uncompressed NAR is kept.
Urls == Nars \X Compressions

\* The rows of the tables.
NarInfoRow == [url : Urls \cup {Null}, fileSize : Sizes \cup {Null}, fileHash : {"hash", Null}]
NarFileRow == [size : Sizes, total : Nat, started : {Null, "fresh"},
               created : {"new"}, verified : BOOLEAN]

\* What the queries may rely on: the links are between rows that exist, and chunks are
\* uncompressed.
Tables(t) ==
    /\ t = [ narinfos |-> t.narinfos, nar_files |-> t.nar_files,
             narinfo_nar_files |-> t.narinfo_nar_files, chunks |-> t.chunks,
             nar_file_chunks |-> t.nar_file_chunks, config |-> t.config ]
    /\ DOMAIN t.narinfos \subseteq NarInfos
    /\ t.narinfos \in [DOMAIN t.narinfos -> NarInfoRow]
    /\ DOMAIN t.nar_files \subseteq Urls
    /\ t.nar_files \in [DOMAIN t.nar_files -> NarFileRow]
    /\ \A u \in DOMAIN t.nar_files : u[2] # "none" => t.nar_files[u].total = 0
    /\ t.narinfo_nar_files \subseteq (DOMAIN t.narinfos) \X (DOMAIN t.nar_files)

\* Where a process may be: in getNarInfoFromDatabase, in a purge, and elsewhere.
Looks  == {"db", "store", "chunks", "job", "remote", "record"}
Purges == {"purge", "purgeLegacy", "purgeNar"}
GetSteps == Looks \cup Purges \cup Final \cup
    {"idle", "hit", "legacy", "readLegacy", "legacyNar", "legacyRow", "waitMigration", "waitPut",
     "retry", "miss", "coord", "joined", "lock", "pollLegacy", "assetLegacy", "unlock",
     "create", "await", "waitDone", "final"}
PullSteps == Looks \cup Purges \cup
    {"idle", "pullMigration", "waitPut", "fetch", "nar", "sign", "save", "close", "ended", "crashed"}
MigrationSteps == {"idle", "trylock", "check", "migrate", "delete", "release", "ended", "crashed"}
PutSteps == {"idle", "putSave", "putLegacy", "check", "fix", "ended", "failed", "crashed"}
ChunksSteps == {"idle", "trylock", "open", "begin", "chunking", "relink", "clean", "delete", "ended", "crashed"}
UploadSteps == {"idle", "putNar", "check", "fix", "ended", "crashed"}
DeleteSteps == {"idle", "deleteLegacy", "ended", "notfound", "failed", "crashed"}

\* The background processes.
Pulls == {Pull(r) : r \in Gets}
Migrations == {Migration(r) : r \in Gets}
Chunkings == {ToChunks(r) : r \in Gets}

\* What a process that is at state may have in ret and url.
Local(p, state, return, u) ==
    /\ p \in Gets => state \in GetSteps
    /\ p \in Gets /\ state \in Looks => return \in {"get", "retry", "asset", "poll", "final"}
    /\ p \in Gets /\ state \in Purges =>
         return \in {"get", "retry", "asset", "poll", "final", "legacy", "bad"}
    /\ p \in Gets /\ state \in Purges /\ return = "bad" => u = Null
    /\ p \in Gets => (state = "retry" => return = "retry") /\ (state = "pollLegacy" => return = "poll")
    /\ p \in Pulls => state \in PullSteps
    /\ p \in Pulls /\ state \in Looks \cup Purges => return = "pull"
    /\ p \in Migrations => state \in MigrationSteps
    /\ p \in Chunkings => state \in ChunksSteps
    /\ p \in Puts => state \in PutSteps
    /\ p \in Uploads => state \in UploadSteps
    /\ p \in Deletes => state \in DeleteSteps
    /\ state \in (Looks \ {"db"}) \cup {"hit", "legacyNar", "fix"} => u \in Urls

\* Every process is where its kind may be, with the local state of that place.
Control ==
    /\ pc = [p \in Procs |-> pc[p]]
    /\ ret = [p \in Procs |-> ret[p]]
    /\ url \in [Procs -> Urls \cup {Null}]
    /\ size \in [Puts \cup Uploads -> Sizes \cup {Null}]
    /\ \A p \in Procs : Local(p, pc[p], ret[p], url[p])

\* The database and the two stores.
DataInv ==
    /\ conf \in [cdc : BOOLEAN, compression : Compressions, upstream : BOOLEAN,
                 uploadOnly : BOOLEAN, requests : SUBSET Requests]
    /\ Tables(db)
    /\ DOMAIN legacy \subseteq NarInfos
    /\ legacy \in [DOMAIN legacy -> {"good", "bad"}]
    /\ narStore \subseteq Nars \X {"none", "xz", "zstd"}
    /\ kept \subseteq NarInfos

\* The faults that a behaviour may have had.
Bounded(fs) == fs \in Seq(Faults \X (Procs \cup Servers)) /\ Len(fs) <= MaxFaults

\* Downloads, locks and the faults.
SyncInv ==
    /\ ds \in [Gets -> Gets]
    /\ stored \in [Gets -> BOOLEAN] /\ done \in [Gets -> BOOLEAN] /\ err \in [Gets -> BOOLEAN]
    /\ jobs \in [Servers -> [NarInfos -> Gets \cup {Null}]]
    /\ narJobs \in [Servers -> [Nars -> {"none", "running", "arrived", "recorded"}]]
    /\ narLock \in [Nars -> Servers \cup {Null}]
    /\ jobLock \in [NarInfos -> Gets \cup {Null}]
    /\ migrationLock \in [NarInfos -> Migrations \cup {Null}]
    /\ putLock \in [NarInfos -> Puts \cup {Null}]
    /\ Bounded(faults)

\* The invariant that gives the type invariant of the model.
TypeInv == DataInv /\ Control /\ SyncInv

-----------------------------------------------------------------------------
(* Waiting.                                                                *)

\* Where a request waits for a download, a migration has its lock, and a PUT has its own.
Waits == {"await", "joined", "waitDone"}
Locked == {"check", "migrate", "delete", "release"}
Writing == {"putSave", "putLegacy"}
\* The process has begun and has not ended.
Active(state) == state # "idle" /\ state \notin Final
\* Where a request has the lock of the download.
Holding(state, return) ==
    \/ state \in {"unlock", "assetLegacy", "create", "await"}
    \/ state \in Looks \cup Purges /\ return = "asset"

\* Who waits for a download waits for one of its own server and narinfo that has ended or is under way;
\* a migration has been begun by a request that has its answer.
WaitInv ==
    \A r \in Gets :
       /\ ServerOf[ds[r]] = ServerOf[r] /\ HashOf[ds[r]] = HashOf[r]
       /\ Active(pc[Pull(r)]) => jobs[ServerOf[r]][HashOf[r]] = r
       /\ pc[r] \in Waits => done[ds[r]] \/ Active(pc[Pull(ds[r])])
       /\ pc[Migration(r)] # "idle" => pc[r] \in Final

\* What is listed is under way.
JobInv ==
    \A s \in Servers, h \in NarInfos : jobs[s][h] # Null =>
       /\ Active(pc[Pull(jobs[s][h])])
       /\ ServerOf[jobs[s][h]] = s /\ HashOf[jobs[s][h]] = h

\* Who holds a lock is on its way to let it go.
LockInv ==
    \A h \in NarInfos :
       /\ jobLock[h] # Null => Holding(pc[jobLock[h]], ret[jobLock[h]])
       /\ migrationLock[h] # Null => Hash(migrationLock[h]) = h /\ pc[migrationLock[h]] \in Locked
       /\ putLock[h] # Null => Hash(putLock[h]) = h /\ pc[putLock[h]] \in Writing

\* The inductive invariant of WaitedForIsAlive.
AliveInv == WaitInv /\ JobInv /\ LockInv

-----------------------------------------------------------------------------
(* Narinfos that are kept.                                                 *)

\* With CDC, a NAR that has the record of its chunks is taken for present.
Recorded(u) == conf.cdc /\ Url(u[1], "none") \in DOMAIN db.nar_files

\* Where a narinfo that is kept must be.
Kept(h) == h \in GetMigratedNarInfoHashes(db) \/ (h \in DOMAIN legacy /\ legacy[h] = "good")

\* What the life of a kept narinfo depends on.
World ==
    [ kept |-> kept, migrated |-> GetMigratedNarInfoHashes(db),
      good |-> {h \in NarInfos : h \in DOMAIN legacy => legacy[h] = "good"},
      whole |-> {h \in NarInfos : NarFileUrl(NarOf[h]) \in narStore},
      has |-> {u \in Urls : HasNarInStore(u) \/ Recorded(u)},
      recorded |-> {u \in Urls : Recorded(u)},
      gone |-> {u \in Urls : conf.cdc /\ u[2] # "none" /\ u \notin narStore},
      faulty |-> {p \in Procs : MetError(p)},
      cdc |-> conf.cdc, compression |-> conf.compression, uploadOnly |-> conf.uploadOnly ]

\* Where a request for a kept narinfo may be, when the world is w: it has read what is still true,
\* and it goes to a lock or upstream only after an error.
LawfulGet(p, state, return, w) ==
    /\ state \in {"legacy", "readLegacy"} => Hash(p) \in w.good
    /\ state \in {"legacy", "readLegacy", "legacyNar"} => Hash(p) \in w.whole
    /\ state \in {"miss", "coord", "lock", "unlock", "assetLegacy", "create", "pollLegacy", "await",
                  "joined", "waitDone", "final", "waitMigration", "waitPut"} => Hash(p) \in w.migrated
    /\ state \in Looks /\ return # "get" => Hash(p) \in w.migrated
    /\ state \notin Purges \cup {"retry"}
    /\ state \in {"pollLegacy", "assetLegacy", "create"} => p \in w.faulty
    /\ state = "notfound" => w.uploadOnly

\* What a process at state may have read, when the world is w.
Lawful(p, state, return, u, w) ==
    /\ state = "store" => u \in w.has
    /\ state \in {"chunks", "job", "remote", "record"} => u \in w.recorded
    /\ state = "legacyNar" => u = Url(NarOf[Hash(p)], w.compression)
    /\ state \in Purges => u = Null \/ u \in w.gone \cap w.recorded
    /\ p \in Chunkings =>
         /\ Active(state) => w.cdc
         /\ state \in {"begin", "chunking", "relink", "clean", "delete"} => w.compression # "none"
         /\ state \in {"chunking", "relink", "clean", "delete"} =>
              Url(NarOf[Hash(p)], w.compression) \in w.recorded
    /\ Hash(p) \in w.kept =>
         /\ p \in Gets => LawfulGet(p, state, return, w)
         /\ p \in Pulls => /\ Active(state) => Hash(p) \in w.migrated
                           /\ state \notin Purges
                           /\ state \in {"fetch", "nar", "sign", "save"} => p \in w.faulty
         /\ p \in Migrations /\ state = "delete" => Hash(p) \in w.migrated
         /\ p \in Puts /\ state = "putLegacy" => Hash(p) \in w.migrated
         /\ p \in Deletes => state # "deleteLegacy"

\* While a narinfo is kept: every NAR has a file or, with CDC, the record of its chunks, so has every
\* narinfo of the database, and what is kept is there.
Sound ==
    /\ conf.cdc => \A n \in Nars : Url(n, "none") \notin narStore
    /\ \A n \in Nars :
         NarFileUrl(n) \in narStore \/ (conf.compression # "none" /\ Url(n, "none") \in World.recorded)
    /\ \A h \in World.migrated : db.narinfos[h].url \in World.has
    /\ \A h \in kept : Kept(h) /\ (h \in World.migrated \/ h \in World.whole)

\* A pull of a kept narinfo, and a request for one, fail by an error that they, or the pull that the
\* request waited for, have met.
Blame ==
    /\ \A d \in Gets : HashOf[d] \in kept /\ err[d] => Pull(d) \in World.faulty
    /\ \A r \in Gets : HashOf[r] \in kept /\ pc[r] = "failed" =>
         r \in World.faulty \/ Pull(ds[r]) \in World.faulty

\* The inductive invariant of PathKept and FoundWhileKept.
KeptInv ==
    kept # {} => Sound /\ Blame /\ \A p \in Procs : Lawful(p, pc[p], ret[p], url[p], World)

-----------------------------------------------------------------------------
(* Sizes.                                                                  *)

\* Without faults, chunks and requests that may pull or migrate, uploads are alone.
OnlyUploads ==
    /\ faults = << >> /\ ~conf.cdc /\ conf.compression # "none"
    /\ \A g \in Gets : pc[g] = "idle"

\* The URL at which a narinfo has its NAR.
UrlOf(h) == Url(NarOf[h], conf.compression)

\* What only a GET begins has not begun.
NothingPulled ==
    /\ \A g \in Gets : pc[Pull(g)] = "idle" /\ pc[Migration(g)] = "idle" /\ pc[ToChunks(g)] = "idle"
    /\ \A s \in Servers, n \in Nars : narJobs[s][n] = "none"

\* Process p has yet to look at the size of narinfo h, or is about to correct it.
Fixing(p, h) ==
    /\ HashOf[p] = h
    /\ pc[p] \in {"putLegacy", "putNar", "check"} \/ (pc[p] = "fix" /\ size[p] = "actual")

\* The record of a NAR has the size of its file.
FileIsActual(u) == u \in DOMAIN db.nar_files /\ db.nar_files[u].size = "actual"

\* The row of a narinfo is at the URL of its NAR, and ahead of the nar_file in nothing.
RowSized(h) ==
    /\ db.narinfos[h].url = UrlOf(h) /\ UrlOf(h) \in DOMAIN db.nar_files
    /\ db.narinfos[h].fileSize \in {"actual", "claimed"}
    /\ db.narinfos[h].fileSize = "actual" => FileIsActual(UrlOf(h))

\* A size that is only claimed has no NAR yet, or somebody to correct it.
Mended(h) ==
    \/ db.narinfos[h].fileSize = "actual"
    \/ \A q \in Uploads : NarOf[HashOf[q]] = NarOf[h] => pc[q] = "idle"
    \/ \E p \in Puts \cup Uploads : Fixing(p, h)

\* What the upload of a NAR has done so far.
Uploaded(q) ==
    /\ pc[q] # "idle" => UrlOf(HashOf[q]) \in narStore
    /\ pc[q] \notin {"idle", "putNar"} => FileIsActual(UrlOf(HashOf[q]))

\* What a process that is about to correct a size has read.
Read(p) ==
    pc[p] = "fix" => /\ url[p] = UrlOf(HashOf[p])
                     /\ size[p] \in {Null, "actual"}
                     /\ size[p] = "actual" => FileIsActual(UrlOf(HashOf[p]))

\* The inductive invariant of SizesAgree.
SizeInv ==
    OnlyUploads =>
      /\ NothingPulled
      /\ \A u \in DOMAIN db.nar_files : db.nar_files[u].size \in {"actual", "claimed"}
      /\ \A h \in GetMigratedNarInfoHashes(db) : RowSized(h) /\ Mended(h)
      /\ \A q \in Uploads : Uploaded(q)
      /\ \A p \in Puts \cup Uploads : Read(p)

-----------------------------------------------------------------------------
(* Queries.                                                                *)

\* An upsert of a narinfo changes that row alone, and only if it has no URL.
LEMMA CreateNarInfoTables ==
    ASSUME NEW t, Tables(t), NEW h \in NarInfos, NEW row \in NarInfoRow
    PROVE  LET s == CreateNarInfo(t, h, row)
           IN  /\ Tables(s) /\ s.nar_files = t.nar_files
               /\ DOMAIN s.narinfos = DOMAIN t.narinfos \cup {h}
               /\ \A k \in DOMAIN t.narinfos : k # h => s.narinfos[k] = t.narinfos[k]
               /\ s.narinfos[h] = IF h \in GetMigratedNarInfoHashes(t) THEN t.narinfos[h] ELSE row
<1> DEFINE s == [t EXCEPT !.narinfos = Insert(@, h, row)]
<1>1. CASE h \in GetMigratedNarInfoHashes(t)
  BY <1>1 DEF GetMigratedNarInfoHashes, CreateNarInfo
<1>2. CASE h \notin GetMigratedNarInfoHashes(t)
  <2>1. CreateNarInfo(t, h, row) = s
    BY <1>2 DEF GetMigratedNarInfoHashes, CreateNarInfo
  <2>2. s.narinfos = Insert(t.narinfos, h, row) /\ s.nar_files = t.nar_files
        /\ s.narinfo_nar_files = t.narinfo_nar_files
    BY DEF Tables
  <2>3. Tables(s)
    BY <2>2 DEF Tables, Insert
  <2> QED
    BY <1>2, <2>1, <2>2, <2>3 DEF Insert
<1> QED
  BY <1>1, <1>2

\* An upsert of a nar_file leaves every row that is there.
LEMMA CreateNarFileTables ==
    ASSUME NEW t, Tables(t), NEW u \in Urls, NEW sz \in Sizes
    PROVE  LET s == CreateNarFile(t, u, sz)
           IN  /\ Tables(s) /\ s.narinfos = t.narinfos
               /\ DOMAIN s.nar_files = DOMAIN t.nar_files \cup {u}
               /\ \A v \in DOMAIN t.nar_files : s.nar_files[v] = t.nar_files[v]
               /\ u \notin DOMAIN t.nar_files => s.nar_files[u].size = sz
<1> DEFINE row == [size |-> sz, total |-> 0, started |-> Null, created |-> "new", verified |-> FALSE]
           s == [t EXCEPT !.nar_files = Insert(@, u, row)]
<1>1. CASE u \in DOMAIN t.nar_files
  BY <1>1 DEF CreateNarFile
<1>2. CASE u \notin DOMAIN t.nar_files
  <2>1. CreateNarFile(t, u, sz) = s
    BY <1>2 DEF CreateNarFile
  <2>2. s.nar_files = Insert(t.nar_files, u, row) /\ s.narinfos = t.narinfos
        /\ s.narinfo_nar_files = t.narinfo_nar_files
    BY DEF Tables
  <2>3. row \in NarFileRow /\ row.total = 0
    BY DEF NarFileRow
  <2> HIDE DEF row
  <2>4. Tables(s)
    BY <2>2, <2>3 DEF Tables, Insert
  <2>5. row.size = sz
    BY DEF row
  <2> QED
    BY <1>2, <2>1, <2>2, <2>4, <2>5 DEF Insert
<1> QED
  BY <1>1, <1>2

\* What storeInDatabase leaves as it was, and what it adds.
LEMMA StoredTables ==
    ASSUME NEW t, Tables(t), NEW h \in NarInfos, NEW row \in NarInfoRow, row.url # Null
    PROVE  LET s == Stored(t, h, row)
           IN  /\ Tables(s)
               /\ DOMAIN s.narinfos = DOMAIN t.narinfos \cup {h}
               /\ \A k \in DOMAIN t.narinfos : k # h => s.narinfos[k] = t.narinfos[k]
               /\ s.narinfos[h] = IF h \in GetMigratedNarInfoHashes(t) THEN t.narinfos[h] ELSE row
               /\ DOMAIN s.nar_files = DOMAIN t.nar_files \cup {row.url}
               /\ \A v \in DOMAIN t.nar_files : s.nar_files[v] = t.nar_files[v]
               /\ row.url \notin DOMAIN t.nar_files => s.nar_files[row.url].size = narFileSize(row)
<1> DEFINE a == CreateNarInfo(t, h, row)
           b == CreateNarFile(a, row.url, narFileSize(row))
           s == LinkNarInfoToNarFile(b, h, row.url)
<1>1. row.url \in Urls /\ narFileSize(row) \in Sizes
  BY NarInfoAssumption DEF NarInfoRow, narFileSize, Sizes
<1>2. Tables(a)
  BY CreateNarInfoTables
<1>3. Tables(b) /\ b.narinfos = a.narinfos
  BY <1>1, <1>2, CreateNarFileTables
<1>4. h \in DOMAIN b.narinfos /\ row.url \in DOMAIN b.nar_files
  BY <1>1, <1>2, <1>3, CreateNarInfoTables, CreateNarFileTables
<1>5. s.narinfos = b.narinfos /\ s.nar_files = b.nar_files /\ Tables(s)
  <2> HIDE DEF b
  <2>1. /\ s.narinfos = b.narinfos /\ s.nar_files = b.nar_files
        /\ s.narinfo_nar_files = b.narinfo_nar_files \cup {<<h, row.url>>}
        /\ s = [ narinfos |-> s.narinfos, nar_files |-> s.nar_files,
                 narinfo_nar_files |-> s.narinfo_nar_files, chunks |-> s.chunks,
                 nar_file_chunks |-> s.nar_file_chunks, config |-> s.config ]
    <3>1. b = [ narinfos |-> b.narinfos, nar_files |-> b.nar_files,
                narinfo_nar_files |-> b.narinfo_nar_files, chunks |-> b.chunks,
                nar_file_chunks |-> b.nar_file_chunks, config |-> b.config ]
      BY <1>3 DEF Tables
    <3> QED
      BY <3>1 DEF LinkNarInfoToNarFile
  <2> HIDE DEF s
  <2> QED
    BY <1>3, <1>4, <2>1 DEF Tables
<1>6. Stored(t, h, row) = s
  BY DEF Stored
<1> HIDE DEF a, b, s
<1> QED
  BY <1>1, <1>2, <1>3, <1>5, <1>6, CreateNarInfoTables, CreateNarFileTables DEF a, b
\* A narinfo goes with its links, and nothing else goes.
LEMMA DeleteNarInfoTables ==
    ASSUME NEW t, Tables(t), NEW h
    PROVE  LET s == DeleteNarInfoByHash(t, h)
           IN  /\ Tables(s) /\ s.nar_files = t.nar_files
               /\ DOMAIN s.narinfos = DOMAIN t.narinfos \ {h}
               /\ \A k \in DOMAIN s.narinfos : s.narinfos[k] = t.narinfos[k]
<1> DEFINE s == DeleteNarInfoByHash(t, h)
           links == {l \in t.narinfo_nar_files : l[1] # h}
<1>0. s = [t EXCEPT !.narinfos = Remove(t.narinfos, {h}), !.narinfo_nar_files = links]
  BY DEF Tables, DeleteNarInfoByHash
<1> HIDE DEF s, links
<1>1. /\ s.narinfos = Remove(t.narinfos, {h}) /\ s.nar_files = t.nar_files
      /\ s.narinfo_nar_files = links
      /\ s = [ narinfos |-> s.narinfos, nar_files |-> s.nar_files,
               narinfo_nar_files |-> s.narinfo_nar_files, chunks |-> s.chunks,
               nar_file_chunks |-> s.nar_file_chunks, config |-> s.config ]
  BY <1>0 DEF Tables
<1>2. /\ DOMAIN s.narinfos = DOMAIN t.narinfos \ {h}
      /\ \A k \in DOMAIN s.narinfos : s.narinfos[k] = t.narinfos[k]
      /\ s.narinfos \in [DOMAIN s.narinfos -> NarInfoRow]
  BY <1>1 DEF Tables, Remove, Restrict
<1>3. s.narinfo_nar_files \subseteq (DOMAIN s.narinfos) \X (DOMAIN s.nar_files)
  BY <1>1, <1>2 DEF Tables, links
<1>4. Tables(s)
  BY <1>1, <1>2, <1>3 DEF Tables
<1> QED
  BY <1>1, <1>2, <1>4 DEF s

\* A nar_file goes with its links, and nothing else goes.
LEMMA DeleteNarFileTables ==
    ASSUME NEW t, Tables(t), NEW u
    PROVE  LET s == DeleteNarFileByHash(t, u)
           IN  /\ Tables(s) /\ s.narinfos = t.narinfos
               /\ DOMAIN s.nar_files = DOMAIN t.nar_files \ {u}
               /\ \A v \in DOMAIN s.nar_files : s.nar_files[v] = t.nar_files[v]
<1> DEFINE s == DeleteNarFileByHash(t, u)
           links == {l \in t.narinfo_nar_files : l[2] # u}
           chunks == {l \in t.nar_file_chunks : l.nar # u}
<1>0. s = [t EXCEPT !.nar_files = Remove(t.nar_files, {u}), !.narinfo_nar_files = links,
                    !.nar_file_chunks = chunks]
  BY DEF Tables, DeleteNarFileByHash
<1> HIDE DEF s, links, chunks
<1>1. /\ s.nar_files = Remove(t.nar_files, {u}) /\ s.narinfos = t.narinfos
      /\ s.narinfo_nar_files = links
      /\ s = [ narinfos |-> s.narinfos, nar_files |-> s.nar_files,
               narinfo_nar_files |-> s.narinfo_nar_files, chunks |-> s.chunks,
               nar_file_chunks |-> s.nar_file_chunks, config |-> s.config ]
  BY <1>0 DEF Tables
<1>2. /\ DOMAIN s.nar_files = DOMAIN t.nar_files \ {u}
      /\ \A v \in DOMAIN s.nar_files : s.nar_files[v] = t.nar_files[v]
      /\ s.nar_files \in [DOMAIN s.nar_files -> NarFileRow]
  BY <1>1 DEF Tables, Remove, Restrict
<1>3. s.narinfo_nar_files \subseteq (DOMAIN s.narinfos) \X (DOMAIN s.nar_files)
  BY <1>1, <1>2 DEF Tables, links
<1>4. Tables(s)
  BY <1>1, <1>2, <1>3 DEF Tables
<1> QED
  BY <1>1, <1>2, <1>4 DEF s

\* The narinfos of s are those of t with the same URLs, and no nar_file is missing.
Keeps(t, s) ==
    /\ Tables(s)
    /\ DOMAIN s.narinfos = DOMAIN t.narinfos
    /\ \A h \in DOMAIN t.narinfos : s.narinfos[h].url = t.narinfos[h].url
    /\ DOMAIN t.nar_files \subseteq DOMAIN s.nar_files

\* A new size changes no URL and no other row.
LEMMA FileSizeTables ==
    ASSUME NEW t, Tables(t), NEW h, NEW sz \in Sizes \cup {Null}
    PROVE  LET s == UpdateNarInfoFileSize(t, h, sz)
           IN  /\ Keeps(t, s) /\ s.nar_files = t.nar_files
               /\ \A k \in DOMAIN t.narinfos :
                    s.narinfos[k].fileSize = IF k = h THEN sz ELSE t.narinfos[k].fileSize
<1>1. CASE h \notin DOMAIN t.narinfos
  BY <1>1 DEF UpdateNarInfoFileSize, Keeps
<1>2. CASE h \in DOMAIN t.narinfos
  <2> DEFINE s == [t EXCEPT !.narinfos[h].fileSize = sz]
  <2>1. /\ s.narinfos = [t.narinfos EXCEPT ![h].fileSize = sz]
        /\ s.nar_files = t.nar_files /\ s.narinfo_nar_files = t.narinfo_nar_files
        /\ s = [ narinfos |-> s.narinfos, nar_files |-> s.nar_files,
               narinfo_nar_files |-> s.narinfo_nar_files, chunks |-> s.chunks,
               nar_file_chunks |-> s.nar_file_chunks, config |-> s.config ]
    BY DEF Tables
  <2>2. UpdateNarInfoFileSize(t, h, sz) = s
    BY <1>2 DEF UpdateNarInfoFileSize
  <2> HIDE DEF s
  <2>3. t.narinfos \in [DOMAIN t.narinfos -> NarInfoRow]
    BY DEF Tables
  <2>4. /\ DOMAIN s.narinfos = DOMAIN t.narinfos
        /\ s.narinfos \in [DOMAIN t.narinfos -> NarInfoRow]
        /\ \A k \in DOMAIN t.narinfos :
             /\ s.narinfos[k].url = t.narinfos[k].url
             /\ s.narinfos[k].fileSize = IF k = h THEN sz ELSE t.narinfos[k].fileSize
    BY <1>2, <2>1, <2>3 DEF NarInfoRow
  <2>5. Tables(s)
    BY <2>1, <2>4 DEF Tables
  <2> QED
    BY <2>1, <2>2, <2>4, <2>5 DEF Keeps
<1> QED
  BY <1>1, <1>2

\* A new hash changes no URL and no other row.
LEMMA FileHashTables ==
    ASSUME NEW t, Tables(t), NEW h
    PROVE  LET s == UpdateNarInfoFileHash(t, h, Null)
           IN  Keeps(t, s) /\ s.nar_files = t.nar_files
<1>1. CASE h \notin DOMAIN t.narinfos
  BY <1>1 DEF UpdateNarInfoFileHash, Keeps
<1>2. CASE h \in DOMAIN t.narinfos
  <2> DEFINE s == [t EXCEPT !.narinfos[h].fileHash = Null]
  <2>1. /\ s.narinfos = [t.narinfos EXCEPT ![h].fileHash = Null]
        /\ s.nar_files = t.nar_files /\ s.narinfo_nar_files = t.narinfo_nar_files
        /\ s = [ narinfos |-> s.narinfos, nar_files |-> s.nar_files,
               narinfo_nar_files |-> s.narinfo_nar_files, chunks |-> s.chunks,
               nar_file_chunks |-> s.nar_file_chunks, config |-> s.config ]
    BY DEF Tables
  <2>2. UpdateNarInfoFileHash(t, h, Null) = s
    BY <1>2 DEF UpdateNarInfoFileHash
  <2> HIDE DEF s
  <2>3. t.narinfos \in [DOMAIN t.narinfos -> NarInfoRow]
    BY DEF Tables
  <2>4. /\ DOMAIN s.narinfos = DOMAIN t.narinfos
        /\ s.narinfos \in [DOMAIN t.narinfos -> NarInfoRow]
        /\ \A k \in DOMAIN t.narinfos : s.narinfos[k].url = t.narinfos[k].url
    BY <1>2, <2>1, <2>3 DEF NarInfoRow
  <2>5. Tables(s)
    BY <2>1, <2>4 DEF Tables
  <2> QED
    BY <2>1, <2>2, <2>4, <2>5 DEF Keeps
<1> QED
  BY <1>1, <1>2

\* A query that replaces the row of one nar_file.
LEMMA NarFileTables ==
    ASSUME NEW t, Tables(t), NEW u \in DOMAIN t.nar_files, NEW row \in NarFileRow,
           u[2] = "none" \/ row.total = t.nar_files[u].total
    PROVE  LET s == [t EXCEPT !.nar_files[u] = row]
           IN  /\ Keeps(t, s) /\ s.narinfos = t.narinfos
               /\ s.nar_files = [t.nar_files EXCEPT ![u] = row]
<1> DEFINE s == [t EXCEPT !.nar_files[u] = row]
<1>1. /\ s.nar_files = [t.nar_files EXCEPT ![u] = row]
      /\ s.narinfos = t.narinfos /\ s.narinfo_nar_files = t.narinfo_nar_files
      /\ s = [ narinfos |-> s.narinfos, nar_files |-> s.nar_files,
               narinfo_nar_files |-> s.narinfo_nar_files, chunks |-> s.chunks,
               nar_file_chunks |-> s.nar_file_chunks, config |-> s.config ]
  BY DEF Tables
<1> HIDE DEF s
<1>2. t.nar_files \in [DOMAIN t.nar_files -> NarFileRow]
  BY DEF Tables
<1>3. s.nar_files \in [DOMAIN t.nar_files -> NarFileRow]
  BY <1>1, <1>2
<1>4. Tables(s)
  BY <1>1, <1>3 DEF Tables
<1> QED
  BY <1>1, <1>3, <1>4 DEF Keeps, s

\* A new size of a nar_file changes no other row.
LEMMA NarFileSizeTables ==
    ASSUME NEW t, Tables(t), NEW u, NEW sz \in Sizes
    PROVE  LET s == UpdateNarFileFileSize(t, u, sz)
           IN  /\ Keeps(t, s) /\ s.narinfos = t.narinfos
               /\ DOMAIN s.nar_files = DOMAIN t.nar_files
               /\ \A v \in DOMAIN t.nar_files :
                    s.nar_files[v].size = IF v = u THEN sz ELSE t.nar_files[v].size
<1>1. CASE u \notin DOMAIN t.nar_files
  BY <1>1 DEF UpdateNarFileFileSize, HasNarFile, Keeps
<1>2. CASE u \in DOMAIN t.nar_files
  <2> DEFINE row == [t.nar_files[u] EXCEPT !.size = sz]
             s == [t EXCEPT !.nar_files[u] = row]
  <2>1. t.nar_files \in [DOMAIN t.nar_files -> NarFileRow]
    BY DEF Tables
  <2>2. row \in NarFileRow /\ row.size = sz /\ row.total = t.nar_files[u].total
    BY <1>2, <2>1 DEF NarFileRow
  <2>3. UpdateNarFileFileSize(t, u, sz) = s
    BY <1>2, <2>1 DEF UpdateNarFileFileSize, HasNarFile, Tables
  <2> HIDE DEF row
  <2>4. Keeps(t, s) /\ s.narinfos = t.narinfos /\ s.nar_files = [t.nar_files EXCEPT ![u] = row]
    BY <1>2, <2>2, NarFileTables
  <2> QED
    BY <1>2, <2>1, <2>2, <2>3, <2>4
<1> QED
  BY <1>1, <1>2

\* The start of a chunking, and the end of one that failed, keep all rows.
LEMMA SetStartedTables ==
    ASSUME NEW t, Tables(t), NEW u, NEW started \in {Null, "fresh"}
    PROVE  /\ Keeps(t, SetStarted(t, u, started)) /\ SetStarted(t, u, started).narinfos = t.narinfos
           /\ DOMAIN SetStarted(t, u, started).nar_files = DOMAIN t.nar_files
<1>1. CASE u \notin DOMAIN t.nar_files
  BY <1>1 DEF SetStarted, HasNarFile, Keeps
<1>2. CASE u \in DOMAIN t.nar_files
  <2> DEFINE row == [t.nar_files[u] EXCEPT !.started = started]
             s == [t EXCEPT !.nar_files[u] = row]
  <2>1. t.nar_files \in [DOMAIN t.nar_files -> NarFileRow]
    BY DEF Tables
  <2>2. row \in NarFileRow /\ row.total = t.nar_files[u].total
    BY <1>2, <2>1 DEF NarFileRow
  <2>3. SetStarted(t, u, started) = s
    BY <1>2, <2>1 DEF SetStarted, HasNarFile, Tables
  <2> HIDE DEF row
  <2> QED
    BY <1>2, <2>2, <2>3, NarFileTables
<1> QED
  BY <1>1, <1>2

\* The end of a chunking keeps all rows.
LEMMA ChunkedTables ==
    ASSUME NEW t, Tables(t), NEW n
    PROVE  /\ Keeps(t, Chunked(t, n)) /\ Chunked(t, n).narinfos = t.narinfos
           /\ DOMAIN Chunked(t, n).nar_files = DOMAIN t.nar_files
<1> DEFINE u == Url(n, "none")
<1>1. CASE u \notin DOMAIN t.nar_files
  BY <1>1 DEF Chunked, UpdateNarFileTotalChunks, HasNarFile, Keeps
<1>2. CASE u \in DOMAIN t.nar_files
  <2> DEFINE row == [t.nar_files[u] EXCEPT !.total = 1, !.size = "narSize", !.started = Null]
             s == [t EXCEPT !.nar_files[u] = row]
  <2>1. t.nar_files \in [DOMAIN t.nar_files -> NarFileRow]
    BY DEF Tables
  <2>2. row \in NarFileRow /\ u[2] = "none"
    BY <1>2, <2>1 DEF NarFileRow, Sizes, Url
  <2>3. Chunked(t, n) = s
    BY <1>2, <2>1 DEF Chunked, UpdateNarFileTotalChunks, HasNarFile, Tables
  <2> HIDE DEF row
  <2> QED
    BY <1>2, <2>2, <2>3, NarFileTables
<1> QED
  BY <1>1, <1>2

\* The record a chunking begins with is added to the others.
LEMMA ChunkingTables ==
    ASSUME NEW t, Tables(t), NEW n \in Nars
    PROVE  /\ Keeps(t, Chunking(t, n)) /\ Chunking(t, n).narinfos = t.narinfos
           /\ Url(n, "none") \in DOMAIN Chunking(t, n).nar_files
<1> DEFINE u == Url(n, "none")
           a == CreateNarFile(t, u, "narSize")
           s == SetStarted(a, u, "fresh")
<1>1. CASE Chunking(t, n) = t /\ u \in DOMAIN t.nar_files
  BY <1>1 DEF Keeps
<1>2. CASE Chunking(t, n) = s
  <2>1. u \in Urls /\ "narSize" \in Sizes
    BY DEF Url, Urls, Compressions, Sizes
  <2> HIDE DEF u
  <2>2. Keeps(t, a) /\ a.narinfos = t.narinfos /\ u \in DOMAIN a.nar_files
    BY <2>1, CreateNarFileTables DEF Keeps
  <2>3. Tables(a)
    BY <2>2 DEF Keeps
  <2> HIDE DEF a
  <2>4. Keeps(a, s) /\ s.narinfos = a.narinfos /\ u \in DOMAIN s.nar_files
    BY <2>2, <2>3, SetStartedTables DEF Keeps
  <2> QED
    BY <1>2, <2>2, <2>4 DEF Keeps, u
<1> QED
  BY <1>1, <1>2 DEF Chunking, SetNarFileChunkingStarted

\* ensureNarFileRecord leaves a record with the actual size, and the others as they were.
LEMMA NarRecordedTables ==
    ASSUME NEW t, Tables(t), NEW u \in Urls
    PROVE  LET s == NarRecorded(t, u)
           IN  /\ Keeps(t, s) /\ s.narinfos = t.narinfos
               /\ DOMAIN s.nar_files = DOMAIN t.nar_files \cup {u}
               /\ \A v \in DOMAIN t.nar_files \ {u} : s.nar_files[v].size = t.nar_files[v].size
               /\ s.nar_files[u].size = "actual"
<1> DEFINE a == CreateNarFile(t, u, "actual")
<1>1. "actual" \in Sizes
  BY DEF Sizes
<1>2. /\ Tables(a) /\ a.narinfos = t.narinfos
      /\ DOMAIN a.nar_files = DOMAIN t.nar_files \cup {u}
      /\ \A v \in DOMAIN t.nar_files : a.nar_files[v] = t.nar_files[v]
  BY <1>1, CreateNarFileTables
<1> HIDE DEF a
<1> DEFINE s == UpdateNarFileFileSize(a, u, "actual")
<1>3. /\ Keeps(a, s) /\ s.narinfos = a.narinfos
      /\ DOMAIN s.nar_files = DOMAIN a.nar_files
      /\ \A v \in DOMAIN a.nar_files :
           s.nar_files[v].size = IF v = u THEN "actual" ELSE a.nar_files[v].size
  BY <1>1, <1>2, NarFileSizeTables
<1>4. NarRecorded(t, u) = s
  BY DEF NarRecorded, a
<1> HIDE DEF s
<1> QED
  BY <1>2, <1>3, <1>4 DEF Keeps

\* The record of a compressed file goes, and its narinfos are linked to the chunks.
LEMMA RelinkedTables ==
    ASSUME NEW t, Tables(t), NEW u
    PROVE  LET s == Relinked(t, u)
           IN  /\ Tables(s) /\ s.narinfos = t.narinfos
               /\ DOMAIN s.nar_files \subseteq DOMAIN t.nar_files
               /\ \A v \in DOMAIN t.nar_files : v[2] = "none" => v \in DOMAIN s.nar_files
<1> DEFINE chunks == Url(u[1], "none")
           a == DeleteNarFileByHash(t, u)
           s == LinkNarInfosByURLToNarFile(a, chunks, u)
<1>1. CASE Relinked(t, u) = t
  BY <1>1
<1>2. CASE Relinked(t, u) = s /\ u[2] # "none" /\ chunks \in DOMAIN t.nar_files
  <2>1. chunks # u
    BY <1>2 DEF Url
  <2>2. /\ Tables(a) /\ a.narinfos = t.narinfos
        /\ DOMAIN a.nar_files = DOMAIN t.nar_files \ {u}
    BY DeleteNarFileTables
  <2> HIDE DEF a, chunks
  <2>3. /\ s.narinfos = a.narinfos /\ s.nar_files = a.nar_files
        /\ s.narinfo_nar_files = a.narinfo_nar_files \cup (GetNarInfoHashesByURL(a, u) \X {chunks})
        /\ s = [ narinfos |-> s.narinfos, nar_files |-> s.nar_files,
                 narinfo_nar_files |-> s.narinfo_nar_files, chunks |-> s.chunks,
                 nar_file_chunks |-> s.nar_file_chunks, config |-> s.config ]
    <3>1. a = [ narinfos |-> a.narinfos, nar_files |-> a.nar_files,
                narinfo_nar_files |-> a.narinfo_nar_files, chunks |-> a.chunks,
                nar_file_chunks |-> a.nar_file_chunks, config |-> a.config ]
      BY <2>2 DEF Tables
    <3> QED
      BY <3>1 DEF LinkNarInfosByURLToNarFile
  <2>4. GetNarInfoHashesByURL(a, u) \X {chunks} \subseteq (DOMAIN a.narinfos) \X (DOMAIN a.nar_files)
    BY <1>2, <2>1, <2>2 DEF GetNarInfoHashesByURL
  <2> HIDE DEF s
  <2>5. Tables(s)
    BY <2>2, <2>3, <2>4 DEF Tables
  <2> QED
    BY <1>2, <2>2, <2>3, <2>5 DEF s
<1> QED
  BY <1>1, <1>2 DEF Relinked, HasNarFile

\* The narinfos of a file that went get the URL of the chunks.
LEMMA RenamedTables ==
    ASSUME NEW t, Tables(t), NEW u \in Urls, NEW v \in Urls
    PROVE  LET s == UpdateNarInfoCompressionFileSizeHashAndURL(t, u, v, Null, Null)
           IN  /\ Tables(s) /\ s.nar_files = t.nar_files
               /\ DOMAIN s.narinfos = DOMAIN t.narinfos
               /\ \A h \in DOMAIN t.narinfos :
                    s.narinfos[h].url = IF t.narinfos[h].url = u THEN v ELSE t.narinfos[h].url
<1> DEFINE infos == [h \in DOMAIN t.narinfos |->
                       IF t.narinfos[h].url # u THEN t.narinfos[h]
                       ELSE [t.narinfos[h] EXCEPT !.url = v, !.fileSize = Null, !.fileHash = Null]]
           s == [t EXCEPT !.narinfos = infos]
<1>1. UpdateNarInfoCompressionFileSizeHashAndURL(t, u, v, Null, Null) = s
  BY DEF UpdateNarInfoCompressionFileSizeHashAndURL, Tables
<1>2. t.narinfos \in [DOMAIN t.narinfos -> NarInfoRow]
  BY DEF Tables
<1>3. /\ infos \in [DOMAIN t.narinfos -> NarInfoRow]
      /\ \A h \in DOMAIN t.narinfos : infos[h].url = IF t.narinfos[h].url = u THEN v ELSE t.narinfos[h].url
  BY <1>2 DEF NarInfoRow
<1> HIDE DEF infos
<1>4. s.narinfos = infos /\ s.nar_files = t.nar_files /\ s.narinfo_nar_files = t.narinfo_nar_files
      /\ Tables(s)
  BY <1>3 DEF Tables
<1> QED
  BY <1>1, <1>3, <1>4

\* The sizes checkAndFixNarInfosForNar writes change no URL.
LEMMA FixNarInfosTables ==
    ASSUME NEW t, Tables(t), NEW u \in DOMAIN t.nar_files
    PROVE  Keeps(t, FixNarInfos(t, u))
<1> DEFINE H == GetNarInfoHashesByURL(t, u)
           infos == [h \in DOMAIN t.narinfos |->
                       IF h \in H THEN [t.narinfos[h] EXCEPT !.fileSize = t.nar_files[u].size]
                       ELSE t.narinfos[h]]
           s == [t EXCEPT !.narinfos = infos]
<1>1. FixNarInfos(t, u) = t \/ FixNarInfos(t, u) = s
  BY DEF FixNarInfos, Tables
<1>2. t.narinfos \in [DOMAIN t.narinfos -> NarInfoRow] /\ t.nar_files[u].size \in Sizes
  BY DEF Tables, NarFileRow
<1> HIDE DEF H
<1>3. /\ infos \in [DOMAIN t.narinfos -> NarInfoRow]
      /\ \A h \in DOMAIN t.narinfos : infos[h].url = t.narinfos[h].url
  BY <1>2 DEF NarInfoRow
<1> HIDE DEF infos
<1>4. Keeps(t, s)
  BY <1>3 DEF Tables, Keeps
<1> QED
  BY <1>1, <1>4 DEF Keeps

-----------------------------------------------------------------------------
(* Processes and their moves.                                              *)

\* Requests and the processes in the background are different, each of one narinfo and one server.
LEMMA Processes ==
    /\ \A r \in Gets :
         /\ Pull(r) \in Procs /\ Pull(r) \in Pulls /\ Pull(r) \notin Requests
         /\ Migration(r) \in Procs /\ Migration(r) \in Migrations /\ Migration(r) \notin Requests
         /\ ToChunks(r) \in Procs /\ ToChunks(r) \in Chunkings /\ ToChunks(r) \notin Requests
         /\ Hash(Pull(r)) = HashOf[r] /\ Server(Pull(r)) = ServerOf[r]
         /\ Hash(Migration(r)) = HashOf[r] /\ Server(Migration(r)) = ServerOf[r]
         /\ Hash(ToChunks(r)) = HashOf[r] /\ Server(ToChunks(r)) = ServerOf[r]
    /\ \A r, q \in Gets :
         /\ Pull(r) # Migration(q) /\ Pull(r) # ToChunks(q) /\ Migration(r) # ToChunks(q)
         /\ Pull(r) = Pull(q) => r = q
         /\ Migration(r) = Migration(q) => r = q
         /\ ToChunks(r) = ToChunks(q) => r = q
    /\ \A r \in Requests :
         /\ r \in Procs /\ Hash(r) = HashOf[r] /\ Server(r) = ServerOf[r]
         /\ HashOf[r] \in NarInfos /\ ServerOf[r] \in Servers
    /\ Pulls \cap Migrations = {} /\ Pulls \cap Requests = {} /\ Migrations \cap Requests = {}
    /\ Chunkings \cap Pulls = {} /\ Chunkings \cap Migrations = {} /\ Chunkings \cap Requests = {}
    /\ Procs = Requests \cup Pulls \cup Migrations \cup Chunkings
    /\ \A p \in Procs : Hash(p) \in NarInfos /\ Server(p) \in Servers
<1>1. /\ Procs = Requests \cup Pulls \cup Migrations \cup Chunkings
      /\ \A r \in Gets : Pull(r) \in Pulls /\ Migration(r) \in Migrations /\ ToChunks(r) \in Chunkings
  BY DEF Procs, Pulls, Migrations, Chunkings
<1>2. \A r, q \in Gets : /\ Pull(r) # Migration(q) /\ Pull(r) # ToChunks(q) /\ Migration(r) # ToChunks(q)
                         /\ Pull(r) = Pull(q) => r = q
                         /\ Migration(r) = Migration(q) => r = q
                         /\ ToChunks(r) = ToChunks(q) => r = q
  BY DEF Pull, Migration, ToChunks
<1>3. \A r \in Gets : /\ Pull(r) \notin Requests /\ Migration(r) \notin Requests /\ ToChunks(r) \notin Requests
                      /\ Pull(r)[2] = r /\ Migration(r)[2] = r /\ ToChunks(r)[2] = r
  <2>1. \A r \in Gets : {Pull(r), Migration(r), ToChunks(r)} \cap Requests = {}
    BY NarInfoAssumption
  <2> QED
    BY <2>1 DEF Pull, Migration, ToChunks
<1>4. \A r \in Requests : r \in Procs /\ HashOf[r] \in NarInfos /\ ServerOf[r] \in Servers
  BY <1>1, NarInfoAssumption
<1>5. Gets \subseteq Requests
  BY DEF Requests
<1>6. \A r \in Gets :
         /\ Hash(Pull(r)) = HashOf[r] /\ Server(Pull(r)) = ServerOf[r]
         /\ Hash(Migration(r)) = HashOf[r] /\ Server(Migration(r)) = ServerOf[r]
         /\ Hash(ToChunks(r)) = HashOf[r] /\ Server(ToChunks(r)) = ServerOf[r]
  BY <1>3 DEF Hash, Server, RequestOf
<1>7. \A r \in Requests : Hash(r) = HashOf[r] /\ Server(r) = ServerOf[r]
  BY DEF Hash, Server, RequestOf
<1>8. /\ Pulls \cap Migrations = {} /\ Pulls \cap Requests = {} /\ Migrations \cap Requests = {}
      /\ Chunkings \cap Pulls = {} /\ Chunkings \cap Migrations = {} /\ Chunkings \cap Requests = {}
  BY <1>2, <1>3 DEF Pulls, Migrations, Chunkings
<1>9. \A p \in Procs : Hash(p) \in NarInfos /\ Server(p) \in Servers
  <2>1. \A p \in Requests : Hash(p) \in NarInfos /\ Server(p) \in Servers
    BY <1>4, <1>7
  <2>2. \A r \in Gets : \A p \in {Pull(r), Migration(r), ToChunks(r)} : Hash(p) \in NarInfos /\ Server(p) \in Servers
    BY <1>4, <1>5, <1>6
  <2>3. \A p \in Procs : p \in Requests \/ \E r \in Gets : p \in {Pull(r), Migration(r), ToChunks(r)}
    BY <1>1 DEF Pulls, Migrations, Chunkings
  <2> QED
    BY <2>1, <2>2, <2>3
<1>10. \A r \in Gets : Pull(r) \in Procs /\ Migration(r) \in Procs /\ ToChunks(r) \in Procs
  BY <1>1
<1> QED
  BY <1>1, <1>2, <1>3, <1>4, <1>6, <1>7, <1>8, <1>9, <1>10

\* The requests of different kinds are different processes.
LEMMA Kinds ==
    /\ Gets \subseteq Procs /\ Puts \subseteq Procs /\ Uploads \subseteq Procs /\ Deletes \subseteq Procs
    /\ Pulls \subseteq Procs /\ Migrations \subseteq Procs /\ Chunkings \subseteq Procs
    /\ \A p \in Gets : p \notin Puts /\ p \notin Uploads /\ p \notin Deletes /\ p \notin Pulls /\ p \notin Migrations
    /\ \A p \in Puts : p \notin Gets /\ p \notin Uploads /\ p \notin Deletes /\ p \notin Pulls /\ p \notin Migrations
    /\ \A p \in Uploads : p \notin Gets /\ p \notin Puts /\ p \notin Deletes /\ p \notin Pulls /\ p \notin Migrations
    /\ \A p \in Deletes : p \notin Gets /\ p \notin Puts /\ p \notin Uploads /\ p \notin Pulls /\ p \notin Migrations
    /\ \A p \in Pulls : p \notin Gets /\ p \notin Puts /\ p \notin Uploads /\ p \notin Deletes /\ p \notin Migrations
    /\ \A p \in Migrations : p \notin Gets /\ p \notin Puts /\ p \notin Uploads /\ p \notin Deletes /\ p \notin Pulls
    /\ \A p \in Chunkings : /\ p \notin Gets /\ p \notin Puts /\ p \notin Uploads /\ p \notin Deletes /\ p \notin Pulls
                            /\ p \notin Migrations
    /\ \A p \in Requests \cup Pulls \cup Migrations : p \notin Chunkings
  BY Processes, NarInfoAssumption DEF Requests

\* A process moves to state, with return and u, and no other process moves.
Moves(p, state, return, u) ==
    /\ pc' = [pc EXCEPT ![p] = state]
    /\ ret' = [ret EXCEPT ![p] = return]
    /\ url' = [url EXCEPT ![p] = u]

\* A process that ends forgets its local state.
Unless(state, return) == IF state \in Final THEN "none" ELSE return
UnlessUrl(state, u) == IF state \in Final THEN Null ELSE u

\* Goto and Call are moves of one process.
LEMMA GotoMoves ==
    ASSUME Control, NEW p \in Procs, NEW state, Goto(p, state)
    PROVE  Moves(p, state, Unless(state, ret[p]), UnlessUrl(state, url[p])) /\ size' = size
<1>1. ret = [ret EXCEPT ![p] = ret[p]] /\ url = [url EXCEPT ![p] = url[p]]
  BY DEF Control
<1> QED
  BY <1>1 DEF Goto, Moves, Unless, UnlessUrl

\* The same of Call.
LEMMA CallMoves ==
    ASSUME Control, NEW p \in Procs, NEW state, NEW return, Call(p, state, return)
    PROVE  Moves(p, state, return, url[p]) /\ size' = size
<1>1. url = [url EXCEPT ![p] = url[p]]
  BY DEF Control
<1> QED
  BY <1>1 DEF Call, Moves

\* What a move changes, and what it leaves.
LEMMA Moved ==
    ASSUME Control, NEW p \in Procs, NEW state, NEW return, NEW u, Moves(p, state, return, u)
    PROVE  /\ pc'[p] = state /\ ret'[p] = return /\ url'[p] = u
           /\ \A q \in Procs \ {p} : pc'[q] = pc[q] /\ ret'[q] = ret[q] /\ url'[q] = url[q]
  BY DEF Control, Moves

\* A move to a place the process may be at keeps Control.
LEMMA MovesControl ==
    ASSUME Control, NEW p \in Procs, NEW state, NEW return, NEW u \in Urls \cup {Null},
           Moves(p, state, return, u), Local(p, state, return, u),
           size' \in [Puts \cup Uploads -> Sizes \cup {Null}]
    PROVE  Control'
<1>1. \A q \in Procs : Local(q, pc'[q], ret'[q], url'[q])
  BY Moved DEF Control
<1>2. pc' = [q \in Procs |-> pc'[q]] /\ ret' = [q \in Procs |-> ret'[q]]
      /\ url' \in [Procs -> Urls \cup {Null}]
  BY DEF Control, Moves
<1> QED
  BY <1>1, <1>2 DEF Control

\* The same for Goto ...
LEMMA GotoControl ==
    ASSUME Control, NEW p \in Procs, NEW state, Goto(p, state), Local(p, state, ret[p], url[p])
    PROVE  Control'
<1> DEFINE return == Unless(state, ret[p])
           u == UnlessUrl(state, url[p])
<1>1. Moves(p, state, return, u) /\ size' = size
  BY GotoMoves
<1>2. u \in Urls \cup {Null} /\ Local(p, state, return, u)
  BY DEF Control, Local, Unless, UnlessUrl, Final, Looks, Purges
<1>3. size' \in [Puts \cup Uploads -> Sizes \cup {Null}]
  BY <1>1 DEF Control
<1> HIDE DEF return, u
<1> QED
  BY <1>1, <1>2, <1>3, MovesControl

\* ... and for Call.
LEMMA CallControl ==
    ASSUME Control, NEW p \in Procs, NEW state, NEW return, Call(p, state, return),
           Local(p, state, return, url[p])
    PROVE  Control'
<1>1. Moves(p, state, return, url[p]) /\ size' = size
  BY CallMoves
<1>2. url[p] \in Urls \cup {Null} /\ size' \in [Puts \cup Uploads -> Sizes \cup {Null}]
  BY <1>1 DEF Control
<1> QED
  BY <1>1, <1>2, MovesControl

\* Where the callers of getNarInfoFromDatabase go on: after a look ...
LEMMA Outcomes ==
    /\ \A return \in {"get", "retry", "asset", "poll", "final"} :
         /\ After(return, "ok") \in {"hit", "found", "unlock", "final"}
         /\ After(return, "ok") = "hit" <=> return = "get"
         /\ After(return, "ok") = "unlock" <=> return = "asset"
    /\ \A return \in {"get", "retry", "asset", "poll", "final", "legacy", "bad"} :
       \A outcome \in {"notfound", "purged", "failed"} :
         (return \in {"legacy", "bad"} => outcome # "notfound") =>
         /\ After(return, outcome) \in {"legacy", "failed", "miss", "retry", "assetLegacy", "pollLegacy"}
         /\ return = "asset" <=> After(return, outcome) = "assetLegacy"
         /\ After(return, outcome) = "retry" => return = "retry"
         /\ After(return, outcome) = "pollLegacy" => return = "poll"
         /\ After(return, outcome) = "legacy" => return = "get" /\ outcome # "failed"
    /\ After("get", "ok") = "hit" /\ After("get", "notfound") = "legacy" /\ After("get", "failed") = "failed"
    /\ After("legacy", "notfound") = "waitMigration"
    /\ After("pull", "ok") = "close"
    /\ \A outcome \in {"notfound", "purged", "failed"} : After("pull", outcome) = "fetch"
  BY DEF After, Continuations

\* Control, kept by getNarInfoFromDatabase and purgeNarInfo;
LEMMA DatabaseControl ==
    ASSUME TypeInv, NEW p \in Gets \cup Pulls, GetNarInfoFromDatabase(p)
    PROVE  Control'
<1> USE DEF TypeInv
<1>0. p \in Procs /\ Local(p, pc[p], ret[p], url[p]) /\ url[p] \in Urls \cup {Null}
  BY Kinds DEF Control
<1>a. Return(p, "ok") /\ pc[p] \in Looks \ {"db"} => Control'
  <2> SUFFICES ASSUME Return(p, "ok"), pc[p] \in Looks \ {"db"} PROVE Control'
    OBVIOUS
  <2>1. Local(p, After(ret[p], "ok"), ret[p], url[p])
    BY <1>0, Kinds, Outcomes DEF Local, Looks, Purges, GetSteps, PullSteps, Final
  <2> QED
    BY <1>0, <2>1, GotoControl DEF Return
<1>c. ASSUME NEW outcome \in {"notfound", "purged", "failed"}, Return(p, outcome),
             pc[p] \in Looks \cup Purges, ret[p] = "bad" => outcome # "notfound"
      PROVE  Control'
  <2>1. After(ret[p], outcome) \notin (Looks \ {"db"}) \cup Purges \cup {"hit", "legacyNar", "fix", "db"}
        /\ (p \in Gets => After(ret[p], outcome) \in GetSteps)
        /\ (p \in Pulls => After(ret[p], outcome) \in PullSteps)
    BY <1>0, <1>c, Kinds, Outcomes DEF Local, Looks, Purges, GetSteps, PullSteps, Final
  <2>2. p \in Gets => /\ After(ret[p], outcome) = "retry" => ret[p] = "retry"
                      /\ After(ret[p], outcome) = "pollLegacy" => ret[p] = "poll"
    BY <1>0, <1>c, Kinds, Outcomes DEF Local, Looks, Purges
  <2>3. Local(p, After(ret[p], outcome), ret[p], url[p])
    BY <1>0, <2>1, <2>2, Kinds DEF Local, Looks
  <2> QED
    BY <1>0, <1>c, <2>3, GotoControl DEF Return
<1>d. ASSUME NEW state \in (Looks \ {"db"}) \cup Purges, Goto(p, state),
             pc[p] \in (Looks \ {"db"}) \cup Purges, pc[p] \in Purges => state \in Purges
      PROVE  Control'
  <2>1. Local(p, state, ret[p], url[p])
    BY <1>0, <1>d, Kinds DEF Local, Looks, Purges, GetSteps, PullSteps
  <2> QED
    BY <1>0, <1>d, <2>1, GotoControl
<1>e. pc[p] \in Looks => ret[p] # "bad"
  BY <1>0, Kinds DEF Local
<1>1. CASE PopulateNarInfo(p)
  <2>1. CASE Hash(p) \notin GetMigratedNarInfoHashes(db)
    BY <1>1, <1>c, <2>1, <1>e DEF PopulateNarInfo, At, Looks
  <2>2. CASE Hash(p) \in GetMigratedNarInfoHashes(db)
    <3> DEFINE u == GetNarInfoByHash(db, Hash(p)).url
    <3>1. u \in Urls
      BY <2>2 DEF GetMigratedNarInfoHashes, GetNarInfoByHash, DataInv, Tables, NarInfoRow
    <3> HIDE DEF u
    <3>2. Moves(p, "store", ret[p], u) /\ size' = size
      BY <1>0, <1>1, <2>2 DEF PopulateNarInfo, Moves, Control, u
    <3>3. Local(p, "store", ret[p], u)
      BY <1>0, <1>1, <3>1, Kinds DEF PopulateNarInfo, At, Local, Looks, Purges, GetSteps, PullSteps
    <3>4. size' \in [Puts \cup Uploads -> Sizes \cup {Null}]
      BY <3>2 DEF Control
    <3> QED
      BY <1>0, <3>1, <3>2, <3>3, <3>4, MovesControl
  <2> QED
    BY <2>1, <2>2
<1>2. CASE LookInStore(p)
  BY <1>2, <1>a, <1>d DEF LookInStore, At, Looks, Purges
<1>3. CASE LookInChunks(p)
  BY <1>3, <1>a, <1>d DEF LookInChunks, At, Looks, Purges
<1>4. CASE LookForJob(p)
  BY <1>4, <1>a, <1>d DEF LookForJob, At, Looks, Purges
<1>5. CASE isRemoteDownloadInProgress(p)
  BY <1>5, <1>a, <1>d DEF isRemoteDownloadInProgress, At, Looks, Purges
<1>6. CASE LookForRecord(p)
  BY <1>6, <1>a, <1>d DEF LookForRecord, At, Looks, Purges
<1>7. CASE PurgeRows(p)
  BY <1>7, <1>d DEF PurgeRows, At, Looks, Purges
<1>8. CASE PurgeLegacy(p)
  BY <1>8, <1>d DEF PurgeLegacy, At, Looks, Purges
<1>9. CASE PurgeNar(p)
  <2>1. CASE Return(p, "purged")
    BY <1>9, <1>c, <2>1 DEF PurgeNar, At, Purges
  <2>2. CASE Return(p, "notfound") /\ url[p] # Null
    <3>1. p \in Gets => ret[p] # "bad"
      BY <1>0, <1>9, <2>2 DEF PurgeNar, At, Local, Purges
    <3>2. p \in Pulls => ret[p] # "bad"
      BY <1>0, <1>9 DEF PurgeNar, At, Local, Purges
    <3> QED
      BY <1>9, <1>c, <2>2, <3>1, <3>2 DEF PurgeNar, At, Purges
  <2> QED
    BY <1>9, <2>1, <2>2 DEF PurgeNar
<1>10. CASE DatabaseFails(p)
  BY <1>10, <1>c DEF DatabaseFails, At, Looks, Purges
<1>11. CASE RecordUnknown(p)
  BY <1>11, <1>a DEF RecordUnknown, At, Looks
<1>12. CASE RemoteUnknown(p)
  BY <1>12, <1>d DEF RemoteUnknown, At, Looks, Purges
<1> QED
  BY <1>1, <1>2, <1>3, <1>4, <1>5, <1>6, <1>7, <1>8, <1>9, <1>10, <1>11, <1>12 DEF GetNarInfoFromDatabase

\* by a request for a narinfo;
LEMMA GetControl ==
    ASSUME TypeInv, NEW r \in Gets, GetNarInfo(r) \/ GetStep(r) \/ ClientLeaves(r)
    PROVE  Control'
<1> USE DEF TypeInv
<1>0. r \in Procs /\ Local(r, pc[r], ret[r], url[r]) /\ url[r] \in Urls \cup {Null}
  BY Kinds DEF Control
<1>a. ASSUME NEW state \in GetSteps \ (Looks \cup Purges \cup {"hit", "legacyNar", "retry", "pollLegacy"}), Goto(r, state)
      PROVE  Control'
  <2>1. Local(r, state, ret[r], url[r])
    BY <1>0, <1>a, Kinds DEF Local, Looks, Purges, GetSteps, Final
  <2> QED
    BY <1>0, <1>a, <2>1, GotoControl
<1>b. ASSUME NEW return \in {"get", "retry", "asset", "poll", "final"}, Call(r, "db", return)
      PROVE  Control'
  <2>1. Local(r, "db", return, url[r])
    BY <1>0, <1>b, Kinds DEF Local, Looks, Purges, GetSteps, Final
  <2> QED
    BY <1>0, <1>b, <2>1, CallControl
<1> USE DEF At, GetSteps, Looks, Purges, Final
<1>1. CASE GetNarInfo(r)
  BY <1>1, <1>b DEF GetNarInfo
<1>2. CASE LookInLegacy(r)
  BY <1>2, <1>a DEF LookInLegacy
<1>3. CASE ReadLegacy(r)
  <2>1. CASE Goto(r, "waitMigration")
    BY <2>1, <1>a
  <2>2. CASE pc' = [pc EXCEPT ![r] = "purge"]
    <3>1. Moves(r, "purge", "bad", Null) /\ size' = size
      BY <1>3, <2>2, <1>0 DEF ReadLegacy, Moves, Goto, Control
    <3>2. Local(r, "purge", "bad", Null)
      BY Kinds DEF Local
    <3> QED
      BY <1>0, <3>1, <3>2, MovesControl DEF Control
  <2>3. CASE /\ pc' = [pc EXCEPT ![r] = "legacyNar"]
             /\ url' = [url EXCEPT ![r] = LegacyRow(HashOf[r]).url]
             /\ UNCHANGED <<ret, size>>
    <3>1. LegacyRow(HashOf[r]).url \in Urls
      BY <1>0, Processes, NarInfoAssumption DEF LegacyRow, Url, Urls, Compressions, DataInv, Requests
    <3>2. Moves(r, "legacyNar", ret[r], LegacyRow(HashOf[r]).url) /\ size' = size
      BY <2>3, <1>0 DEF Moves, Control
    <3>3. Local(r, "legacyNar", ret[r], LegacyRow(HashOf[r]).url)
      BY <3>1, Kinds DEF Local
    <3> QED
      BY <1>0, <3>1, <3>2, <3>3, MovesControl DEF Control
  <2> QED
    BY <1>3, <2>1, <2>2, <2>3 DEF ReadLegacy
<1>4. CASE LegacyNar(r)
  <2>1. Local(r, "purge", "legacy", url[r])
    BY Kinds DEF Local
  <2> QED
    BY <1>0, <1>4, <1>a, <2>1, CallControl DEF LegacyNar
<1>c. ASSUME NEW answer \in {"found", "failed"}, LegacyAnswered(r, answer) PROVE Control'
  <2> DEFINE m == Migration(r)
             c == ToChunks(r)
             state == IF HashOf[r] \in GetMigratedNarInfoHashes(db) THEN pc[m] ELSE "trylock"
             chunks == IF conf.cdc /\ HashOf[r] \in DOMAIN db.narinfos THEN "trylock" ELSE pc[c]
  <2>1. m \in Procs /\ m \in Migrations /\ m # r /\ c \in Procs /\ c \in Chunkings /\ c # r /\ c # m
    BY Processes, Kinds
  <2>2. pc' = [pc EXCEPT ![r] = answer, ![m] = state, ![c] = chunks]
    BY <1>0, <1>c, <2>1 DEF LegacyAnswered, Control
  <2>3. Local(m, state, ret[m], url[m]) /\ Local(c, chunks, ret[c], url[c])
    BY <2>1, Kinds DEF Local, Control, MigrationSteps, ChunksSteps
  <2>4. Local(r, answer, "none", Null)
    BY Kinds DEF Local
  <2> HIDE DEF m, c, state, chunks
  <2>5. /\ ret' = [ret EXCEPT ![r] = "none"] /\ url' = [url EXCEPT ![r] = Null] /\ size' = size
    BY <1>c DEF LegacyAnswered
  <2>6. \A q \in Procs : pc'[q] = IF q = c THEN chunks ELSE IF q = m THEN state ELSE IF q = r THEN answer ELSE pc[q]
    BY <1>0, <2>1, <2>2 DEF Control
  <2>7. /\ pc' = [q \in Procs |-> pc'[q]] /\ ret' = [q \in Procs |-> ret'[q]]
        /\ url' \in [Procs -> Urls \cup {Null}] /\ size' \in [Puts \cup Uploads -> Sizes \cup {Null}]
    BY <1>0, <2>1, <2>2, <2>5 DEF Control
  <2>8. ret'[r] = "none" /\ url'[r] = Null /\ \A q \in Procs \ {r} : ret'[q] = ret[q] /\ url'[q] = url[q]
    BY <1>0, <2>5 DEF Control
  <2>9. \A q \in Procs : Local(q, pc'[q], ret'[q], url'[q])
    BY <2>1, <2>3, <2>4, <2>6, <2>8 DEF Control
  <2> QED
    BY <2>7, <2>9 DEF Control
<1>5. CASE LegacyFound(r) \/ LegacyFails(r)
  BY <1>5, <1>a, <1>c DEF LegacyFound, LegacyFails
<1>16. CASE Hit(r)
  <2> DEFINE c == ToChunks(r)
             chunks == IF conf.cdc /\ url[r][2] # "none" THEN "trylock" ELSE pc[c]
  <2>1. c \in Procs /\ c \in Chunkings /\ c # r
    BY Processes, Kinds
  <2>2. pc' = [pc EXCEPT ![r] = "found", ![c] = chunks]
    BY <1>0, <1>16, <2>1 DEF Hit, Control
  <2>3. Local(c, chunks, ret[c], url[c])
    BY <2>1, Kinds DEF Local, Control, ChunksSteps
  <2>4. Local(r, "found", "none", Null)
    BY Kinds DEF Local
  <2> HIDE DEF c, chunks
  <2>5. /\ ret' = [ret EXCEPT ![r] = "none"] /\ url' = [url EXCEPT ![r] = Null] /\ size' = size
    BY <1>16 DEF Hit
  <2>6. \A q \in Procs : pc'[q] = IF q = c THEN chunks ELSE IF q = r THEN "found" ELSE pc[q]
    BY <1>0, <2>1, <2>2 DEF Control
  <2>7. /\ pc' = [q \in Procs |-> pc'[q]] /\ ret' = [q \in Procs |-> ret'[q]]
        /\ url' \in [Procs -> Urls \cup {Null}] /\ size' \in [Puts \cup Uploads -> Sizes \cup {Null}]
    BY <1>0, <2>1, <2>2, <2>5 DEF Control
  <2>8. ret'[r] = "none" /\ url'[r] = Null /\ \A q \in Procs \ {r} : ret'[q] = ret[q] /\ url'[q] = url[q]
    BY <1>0, <2>5 DEF Control
  <2>9. \A q \in Procs : Local(q, pc'[q], ret'[q], url'[q])
    BY <2>1, <2>3, <2>4, <2>6, <2>8 DEF Control
  <2> QED
    BY <2>7, <2>9 DEF Control
<1>6. CASE WaitForMigration(r, "waitMigration") \/ WaitFails(r)
  BY <1>6, <1>a DEF WaitForMigration, WaitFails
<1>7. CASE WaitForPut(r)
  BY <1>7, <1>b DEF WaitForPut
<1>8. CASE RetryDatabase(r)
  <2>1. Local(r, "db", ret[r], url[r])
    BY <1>0, <1>8, Kinds DEF Local, RetryDatabase
  <2> QED
    BY <1>0, <1>8, <2>1, GotoControl DEF RetryDatabase
<1>9. CASE RetryExhausted(r) \/ PollTimeout(r) \/ Miss(r)
  BY <1>9, <1>a DEF RetryExhausted, PollTimeout, Miss
<1>10. CASE FindJob(r) \/ Joined(r)
  BY <1>10, <1>a DEF FindJob, Joined
<1>11. CASE Acquire(r) \/ AcquireFails(r) \/ ReadPulled(r)
  BY <1>11, <1>b DEF Acquire, AcquireFails, ReadPulled
<1>12. CASE PollLegacy(r)
  <2>1. Local(r, "db", ret[r], url[r])
    BY <1>0, <1>12, Kinds DEF Local, PollLegacy
  <2> QED
    BY <1>0, <1>12, <1>a, <2>1, GotoControl DEF PollLegacy
<1>13. CASE AssetLegacy(r) \/ UnlockAsset(r) \/ AwaitStored(r) \/ WaitDone(r) \/ ClientLeaves(r)
  BY <1>13, <1>a DEF AssetLegacy, UnlockAsset, AwaitStored, WaitDone, ClientLeaves
<1>14. CASE CreateJob(r)
  <2>1. CASE Goto(r, "await")
    BY <2>1, <1>a
  <2>2. CASE /\ pc' = [pc EXCEPT ![r] = "await", ![Pull(r)] = "pullMigration"]
             /\ UNCHANGED <<ret, url, size>>
    <3> DEFINE m == Pull(r)
    <3>1. m \in Procs /\ m \in Pulls /\ m # r
      BY Processes, Kinds
    <3> HIDE DEF m
    <3>2. Local(m, "pullMigration", ret[m], url[m]) /\ Local(r, "await", ret[r], url[r])
      BY <3>1, Kinds DEF Local, PullSteps
    <3>3. \A q \in Procs : pc'[q] = IF q = m THEN "pullMigration" ELSE IF q = r THEN "await" ELSE pc[q]
      BY <1>0, <2>2, <3>1 DEF Control, m
    <3>4. pc' = [q \in Procs |-> pc'[q]]
      BY <1>0, <2>2, <3>1 DEF Control, m
    <3>5. \A q \in Procs : Local(q, pc'[q], ret'[q], url'[q])
      BY <2>2, <3>2, <3>3 DEF Control
    <3> QED
      BY <2>2, <3>4, <3>5 DEF Control
  <2> QED
    BY <1>14, <2>1, <2>2 DEF CreateJob
<1>15. CASE GetNarInfoFromDatabase(r)
  BY <1>15, DatabaseControl
<1> QED
  BY <1>1, <1>2, <1>3, <1>4, <1>5, <1>6, <1>7, <1>8, <1>9, <1>10, <1>11, <1>12, <1>13, <1>14, <1>15, <1>16
     DEF GetStep

\* by a pull;
LEMMA PullControl ==
    ASSUME TypeInv, NEW d \in Gets, PullStep(d)
    PROVE  Control'
<1> DEFINE p == Pull(d)
<1> USE DEF TypeInv
<1>0. p \in Procs /\ p \in Pulls
  BY Processes
<1>a. ASSUME NEW state \in PullSteps \ (Looks \cup Purges), Goto(p, state)
      PROVE  Control'
  <2>1. Local(p, state, ret[p], url[p])
    BY <1>0, <1>a, Kinds DEF Local, PullSteps, Looks, Purges
  <2> QED
    BY <1>0, <1>a, <2>1, GotoControl
<1> USE DEF PullSteps, Looks, Purges
<1>1. CASE WaitForMigration(p, "pullMigration")
  BY <1>1, <1>a DEF WaitForMigration
<1>2. CASE WaitForPut(p)
  <2>1. Local(p, "db", "pull", url[p])
    BY <1>0, Kinds DEF Local
  <2>2. Call(p, "db", "pull")
    BY <1>0, <1>2, Kinds DEF WaitForPut
  <2> QED
    BY <1>0, <2>1, <2>2, CallControl
<1>3. CASE GetNarInfoFromDatabase(p)
  BY <1>0, <1>3, DatabaseControl
<1>4. CASE PullWaitFails(d) \/ FetchNarInfo(d) \/ PrePullNar(d) \/ PrePullNarFails(d) \/ SignNarInfo(d) \/ SignFails(d)
  BY <1>4, <1>a DEF PullWaitFails, FetchNarInfo, PrePullNar, PrePullNarFails, SignNarInfo, SignFails, PullFails
<1>5. CASE StorePulled(d) \/ StorePulledFails(d) \/ PullCloses(d)
  BY <1>5, <1>a DEF StorePulled, StorePulledFails, PullFails, PullCloses
<1> QED
  BY <1>1, <1>2, <1>3, <1>4, <1>5 DEF PullStep

\* by a migration;
LEMMA MigrateControl ==
    ASSUME TypeInv, NEW r \in Gets, MigrateStep(r)
    PROVE  Control'
<1> DEFINE p == Migration(r)
<1> USE DEF TypeInv
<1>0. p \in Procs /\ p \in Migrations
  BY Processes
<1>a. ASSUME NEW state \in MigrationSteps, Goto(p, state)
      PROVE  Control'
  <2>1. Local(p, state, ret[p], url[p])
    BY <1>0, <1>a, Kinds DEF Local, MigrationSteps, Looks, Purges
  <2> QED
    BY <1>0, <1>a, <2>1, GotoControl
<1> QED
  BY <1>a DEF MigrateStep, MigrateLock, MigrateLockFails, MigrateCheck, MigrateUnknown, MigrateStore,
              MigrateFails, MigrateDelete, MigrateUnlock, MigrationSteps

\* by the migration of a NAR to chunks;
LEMMA ChunksControl ==
    ASSUME TypeInv, NEW r \in Gets, ChunksStep(r) \/ ChunksDeleteFile(r)
    PROVE  Control'
<1> DEFINE p == ToChunks(r)
<1> USE DEF TypeInv
<1>0. p \in Procs /\ p \in Chunkings
  BY Processes
<1>a. ASSUME NEW state \in ChunksSteps, Goto(p, state)
      PROVE  Control'
  <2>1. Local(p, state, ret[p], url[p])
    BY <1>0, <1>a, Kinds DEF Local, ChunksSteps, Looks, Purges
  <2> QED
    BY <1>0, <1>a, <2>1, GotoControl
<1> QED
  BY <1>a DEF ChunksStep, ChunksLock, ChunksOpen, ChunksBegin, ChunksComplete, ChunksRelink, ChunksClean,
              ChunksFail, ChunksGoOn, ChunksDeleteFile, ChunksSteps

\* What the size of a narinfo should be is a size or nothing.
LEMMA CorrectSizes ==
    ASSUME DataInv, NEW h, h \in GetMigratedNarInfoHashes(db)
    PROVE  CorrectSize(h) \in Sizes \cup {Null} /\ db.narinfos[h].url \in Urls
<1>1. db.narinfos[h].url \in Urls
  BY DEF GetMigratedNarInfoHashes, DataInv, Tables, NarInfoRow
<1>2. \A u : getNarFileFromDB(u) \in NarFileRow \cup {Null}
  BY DEF getNarFileFromDB, GetNarFileByHashAndCompressionAndQuery, DataInv, Tables
<1>3. \A u : getNarFileFromDB(u) # Null => getNarFileFromDB(u).size \in Sizes
  BY <1>2 DEF NarFileRow
<1> QED
  BY <1>1, <1>3 DEF CorrectSize, HasNarFileRecord

\* by CheckAndFixNarInfo;
LEMMA FixControl ==
    ASSUME TypeInv, NEW p \in Puts \cup Uploads, FixStep(p)
    PROVE  Control'
<1> USE DEF TypeInv
<1>0. p \in Procs
  BY Kinds
<1>1. Local(p, "ended", ret[p], url[p])
  BY Kinds DEF Local, PutSteps, UploadSteps, Looks, Purges
<1>2. CASE Goto(p, "ended")
  BY <1>0, <1>1, <1>2, GotoControl
<1>3. CASE CheckNarInfo(p) /\ ~Goto(p, "ended")
  <2> DEFINE u == db.narinfos[Hash(p)].url
  <2>1. Hash(p) \in GetMigratedNarInfoHashes(db)
    BY <1>3 DEF CheckNarInfo
  <2>2. u \in Urls /\ CorrectSize(Hash(p)) \in Sizes \cup {Null}
    BY <2>1, CorrectSizes
  <2>3. size' = [size EXCEPT ![p] = CorrectSize(Hash(p))] /\ Moves(p, "fix", ret[p], u)
    BY <1>0, <1>3 DEF CheckNarInfo, Moves, Control
  <2> HIDE DEF u
  <2>4. Local(p, "fix", ret[p], u)
    BY <2>2, Kinds DEF Local, PutSteps, UploadSteps, Looks, Purges
  <2>5. size' \in [Puts \cup Uploads -> Sizes \cup {Null}]
    BY <2>2, <2>3 DEF Control
  <2> QED
    BY <1>0, <2>2, <2>3, <2>4, <2>5, MovesControl
<1> QED
  BY <1>2, <1>3 DEF FixStep, FixNarInfo

\* by uploads and deletions;
LEMMA ClientControl ==
    ASSUME TypeInv,
           \/ \E p \in Puts : PutNarInfo(p) \/ PutLockFails(p) \/ PutStep(p)
           \/ \E p \in Uploads : PutNar(p) \/ UploadStep(p)
           \/ \E p \in Deletes : DeleteNarInfo(p) \/ DeleteLegacy(p)
    PROVE  Control'
<1> USE DEF TypeInv
<1>1. ASSUME NEW p \in Puts, PutNarInfo(p) \/ PutLockFails(p) \/ PutStep(p)
      PROVE  Control'
  <2>a. ASSUME NEW state \in PutSteps \ {"fix"}, Goto(p, state)
        PROVE  Control'
    <3>1. p \in Procs /\ Local(p, state, ret[p], url[p])
      BY <2>a, Kinds DEF Local, PutSteps, Looks, Purges
    <3> QED
      BY <2>a, <3>1, GotoControl
  <2>1. CASE FixStep(p)
    BY <2>1, FixControl
  <2> QED
    BY <1>1, <2>a, <2>1 DEF PutNarInfo, PutLockFails, PutStep, PutStore, PutFails, PutDeletesLegacy, PutSteps
<1>2. ASSUME NEW p \in Uploads, PutNar(p) \/ UploadStep(p)
      PROVE  Control'
  <2>a. ASSUME NEW state \in UploadSteps \ {"fix"}, Goto(p, state)
        PROVE  Control'
    <3>1. p \in Procs /\ Local(p, state, ret[p], url[p])
      BY <2>a, Kinds DEF Local, UploadSteps, Looks, Purges
    <3> QED
      BY <2>a, <3>1, GotoControl
  <2>1. CASE FixStep(p)
    BY <2>1, FixControl
  <2> QED
    BY <1>2, <2>a, <2>1 DEF PutNar, UploadStep, PutNarRecord, UploadSteps
<1>3. ASSUME NEW p \in Deletes, DeleteNarInfo(p) \/ DeleteLegacy(p)
      PROVE  Control'
  <2>a. ASSUME NEW state \in DeleteSteps, Goto(p, state)
        PROVE  Control'
    <3>1. p \in Procs /\ Local(p, state, ret[p], url[p])
      BY <2>a, Kinds DEF Local, DeleteSteps, Looks, Purges
    <3> QED
      BY <2>a, <3>1, GotoControl
  <2> QED
    BY <1>3, <2>a DEF DeleteNarInfo, DeleteLegacy, DeleteSteps
<1> QED
  BY <1>1, <1>2, <1>3

\* by a crash.
LEMMA CrashControl ==
    ASSUME TypeInv, NEW s \in Servers, Crash(s)
    PROVE  Control'
<1>1. /\ pc' = [p \in Procs |-> pc'[p]] /\ UNCHANGED <<ret, url, size>>
      /\ \A p \in Procs : pc'[p] = pc[p] \/ (pc'[p] = "crashed" /\ pc[p] # "idle")
  BY DEF Crash
<1>2. \A p \in Procs : Local(p, "crashed", ret[p], url[p])
  BY DEF Local, GetSteps, PullSteps, MigrationSteps, ChunksSteps, PutSteps, UploadSteps, DeleteSteps, Looks, Purges, Final
<1> QED
  BY <1>1, <1>2 DEF TypeInv, Control

-----------------------------------------------------------------------------
(* Tables and stores.                                                      *)

\* The rows the model writes are rows.
LEMMA Rows ==
    ASSUME DataInv, NEW h \in NarInfos, NEW claimed \in Sizes
    PROVE  /\ Normalized(h, claimed) \in NarInfoRow /\ Normalized(h, claimed).url # Null
           /\ LegacyRow(h) \in NarInfoRow /\ LegacyRow(h).url # Null
<1>1. /\ conf.compression \in Compressions /\ NarOf[h] \in Nars
      /\ \A c \in Compressions : Url(NarOf[h], c) \in Urls /\ Url(NarOf[h], c) # Null
  BY NarInfoAssumption DEF DataInv, Url, Urls
<1>2. "none" \in Compressions /\ "actual" \in Sizes
  BY DEF Compressions, Sizes
<1> QED
  BY <1>1, <1>2 DEF Normalized, LegacyRow, NarInfoRow

\* A file that is deleted leaves the others.
LEMMA RemoveLegacy ==
    ASSUME DataInv, NEW h
    PROVE  LET l == Remove(legacy, {h})
           IN  /\ DOMAIN l = DOMAIN legacy \ {h}
               /\ l \in [DOMAIN l -> {"good", "bad"}]
               /\ \A k \in DOMAIN l : l[k] = legacy[k]
  BY DEF Remove, Restrict, DataInv

\* What keeps the tables and the stores as they should be.
LEMMA DataKept ==
    ASSUME DataInv, UNCHANGED conf, kept' \subseteq kept, Tables(db'), narStore' \subseteq narStore,
           legacy' = legacy \/ \E h : legacy' = Remove(legacy, {h})
    PROVE  DataInv'
<1>1. DOMAIN legacy' \subseteq NarInfos /\ legacy' \in [DOMAIN legacy' -> {"good", "bad"}]
  <2>1. CASE legacy' = legacy
    BY <2>1 DEF DataInv
  <2>2. ASSUME NEW h, legacy' = Remove(legacy, {h})
        PROVE  DOMAIN legacy' \subseteq NarInfos /\ legacy' \in [DOMAIN legacy' -> {"good", "bad"}]
    <3> DEFINE l == Remove(legacy, {h})
    <3>1. DOMAIN l \subseteq DOMAIN legacy /\ l \in [DOMAIN l -> {"good", "bad"}]
      BY RemoveLegacy
    <3>2. legacy' = l /\ DOMAIN legacy \subseteq NarInfos
      BY <2>2 DEF DataInv
    <3> HIDE DEF l
    <3> QED
      BY <3>1, <3>2
  <2> QED
    BY <2>1, <2>2
<1>2. /\ Tables(db)' /\ narStore' \subseteq Nars \X {"none", "xz", "zstd"} /\ kept' \subseteq NarInfos
      /\ conf' \in [cdc : BOOLEAN, compression : Compressions, upstream : BOOLEAN,
                    uploadOnly : BOOLEAN, requests : SUBSET Requests]
  BY DEF DataInv
<1> QED
  BY <1>1, <1>2 DEF DataInv

\* DataInv, kept by getNarInfoFromDatabase and purgeNarInfo;
LEMMA DatabaseData ==
    ASSUME TypeInv, NEW p \in Gets \cup Pulls, GetNarInfoFromDatabase(p), UNCHANGED <<conf, kept>>
    PROVE  DataInv'
<1> USE DEF TypeInv
<1>0. Tables(db)
  BY DEF DataInv
<1>1. CASE UNCHANGED dbVars
  BY <1>1, <1>0, DataKept DEF dbVars
<1>2. CASE PurgeRows(p)
  <2>1. Tables(db')
    BY <1>0, <1>2, DeleteNarInfoTables, DeleteNarFileTables DEF PurgeRows
  <2> QED
    BY <1>2, <2>1, DataKept DEF PurgeRows
<1>3. CASE PurgeLegacy(p)
  <2>1. Tables(db')
    BY <1>0, <1>3, DeleteNarInfoTables DEF PurgeLegacy
  <2> QED
    BY <1>3, <2>1, DataKept DEF PurgeLegacy
<1>4. CASE PurgeNar(p)
  <2>1. Tables(db')
    BY <1>0, <1>4, DeleteNarFileTables DEF PurgeNar
  <2> QED
    BY <1>4, <2>1, DataKept DEF PurgeNar
<1> QED
  BY <1>1, <1>2, <1>3, <1>4
  DEF GetNarInfoFromDatabase, PopulateNarInfo, LookInStore, LookInChunks, LookForJob,
      isRemoteDownloadInProgress, LookForRecord, DatabaseFails, RecordUnknown, RemoteUnknown

\* by a request for a narinfo;
LEMMA GetData ==
    ASSUME TypeInv, NEW r \in Gets, GetNarInfo(r) \/ GetStep(r) \/ ClientLeaves(r), UNCHANGED <<conf, kept>>
    PROVE  DataInv'
<1>1. CASE GetNarInfoFromDatabase(r)
  BY <1>1, DatabaseData
<1>2. CASE UNCHANGED dbVars
  BY <1>2, DataKept DEF dbVars, TypeInv, DataInv
<1> QED
  BY <1>1, <1>2
  DEF GetNarInfo, GetStep, ClientLeaves, Hit, LegacyFails, WaitFails, LookInLegacy, ReadLegacy, LegacyNar, LegacyFound,
      WaitForMigration, WaitForPut, RetryDatabase, RetryExhausted, PollTimeout, Miss, FindJob, Joined,
      Acquire, AcquireFails, PollLegacy, AssetLegacy, UnlockAsset, CreateJob, AwaitStored, WaitDone, ReadPulled

\* by a pull;
LEMMA PullData ==
    ASSUME TypeInv, NEW d \in Gets, PullStep(d), UNCHANGED <<conf, kept>>
    PROVE  DataInv'
<1>1. CASE GetNarInfoFromDatabase(Pull(d))
  BY <1>1, DatabaseData, Processes
<1>2. CASE UNCHANGED dbVars
  BY <1>2, DataKept DEF dbVars, TypeInv, DataInv
<1>3. CASE StorePulled(d)
  <2>1. HashOf[d] \in NarInfos
    BY Processes DEF Requests
  <2>2. Tables(db')
    BY <1>3, <2>1, Rows, StoredTables DEF StorePulled, TypeInv, DataInv, Sizes
  <2> QED
    BY <1>3, <2>2, DataKept DEF StorePulled, TypeInv
<1> QED
  BY <1>1, <1>2, <1>3
  DEF PullStep, WaitForMigration, WaitForPut, PullWaitFails, PrePullNarFails, FetchNarInfo, PrePullNar, SignNarInfo, SignFails,
      StorePulledFails, PullCloses

\* by a migration;
LEMMA MigrateData ==
    ASSUME TypeInv, NEW r \in Gets, MigrateStep(r), UNCHANGED <<conf, kept>>
    PROVE  DataInv'
<1>1. CASE UNCHANGED dbVars
  BY <1>1, DataKept DEF dbVars, TypeInv, DataInv
<1>2. CASE MigrateStore(r)
  <2>1. HashOf[r] \in NarInfos
    BY Processes DEF Requests
  <2>2. Tables(db')
    BY <1>2, <2>1, Rows, StoredTables DEF MigrateStore, TypeInv, DataInv, Sizes
  <2> QED
    BY <1>2, <2>2, DataKept DEF MigrateStore, TypeInv
<1>3. CASE MigrateDelete(r)
  BY <1>3, DataKept DEF MigrateDelete, TypeInv, DataInv
<1> QED
  BY <1>1, <1>2, <1>3 DEF MigrateStep, MigrateLock, MigrateLockFails, MigrateCheck, MigrateUnknown, MigrateFails,
                          MigrateUnlock

\* by the migration of a NAR to chunks;
LEMMA ChunksData ==
    ASSUME TypeInv, NEW r \in Gets,
           ChunksDeleteFile(r) \/ (ChunksStep(r) /\ UNCHANGED <<conf, kept>>)
    PROVE  DataInv'
<1> DEFINE n == NarOf[HashOf[r]]
<1> USE DEF TypeInv
<1>0. Tables(db) /\ n \in Nars /\ conf.compression \in Compressions
      /\ NarUrl(HashOf[r]) \in Urls /\ NarUrl(HashOf[r])[1] = n /\ Url(n, "none") \in Urls
  <2>1. n \in Nars /\ Tables(db) /\ conf.compression \in Compressions
    BY Processes, NarInfoAssumption DEF Requests, DataInv
  <2> QED
    BY <2>1 DEF NarUrl, Url, Urls, Compressions
<1>1. CASE UNCHANGED <<conf, dbVars, kept>>
  BY <1>0, <1>1, DataKept DEF dbVars
<1>2. CASE ChunksBegin(r) /\ UNCHANGED <<conf, kept>>
  BY <1>0, <1>2, ChunkingTables, DataKept DEF ChunksBegin, Keeps
<1>3. CASE ChunksComplete(r) /\ UNCHANGED <<conf, kept>>
  BY <1>0, <1>3, ChunkedTables, DataKept DEF ChunksComplete, Keeps
<1>4. CASE ChunksRelink(r) /\ UNCHANGED <<conf, kept>>
  BY <1>0, <1>4, RelinkedTables, DataKept DEF ChunksRelink
<1>5. CASE ChunksClean(r) /\ UNCHANGED <<conf, kept>>
  BY <1>0, <1>5, RenamedTables, DataKept DEF ChunksClean
<1>6. CASE ChunksFail(r) /\ UNCHANGED <<conf, kept>>
  <2>1. Tables(ClearNarFileChunkingStarted(db, Url(NarOf[HashOf[r]], "none")))
    BY <1>0, SetStartedTables DEF ClearNarFileChunkingStarted, Keeps
  <2>2. Tables(db')
    BY <1>0, <1>6, <2>1 DEF ChunksFail
  <2> QED
    BY <1>6, <2>2, DataKept DEF ChunksFail
<1>7. CASE ChunksDeleteFile(r)
  BY <1>0, <1>7, DataKept DEF ChunksDeleteFile
<1> QED
  BY <1>1, <1>2, <1>3, <1>4, <1>5, <1>6, <1>7
     DEF ChunksStep, ChunksLock, ChunksOpen, ChunksGoOn

\* by CheckAndFixNarInfo;
LEMMA FixData ==
    ASSUME TypeInv, NEW p \in Puts \cup Uploads, FixStep(p), UNCHANGED <<conf, kept>>
    PROVE  DataInv'
<1> USE DEF TypeInv
<1>1. CASE CheckNarInfo(p)
  BY <1>1, DataKept DEF CheckNarInfo, dbVars, DataInv
<1>2. CASE FixNarInfo(p)
  <2>1. size[p] \in Sizes \cup {Null} /\ Tables(db)
    BY DEF Control, DataInv
  <2>2. Tables(UpdateNarInfoFileSize(db, Hash(p), Null)) /\ Tables(UpdateNarInfoFileSize(db, Hash(p), size[p]))
    BY <2>1, FileSizeTables DEF Keeps
  <2>3. Tables(UpdateNarInfoFileHash(UpdateNarInfoFileSize(db, Hash(p), Null), Hash(p), Null))
    BY <2>2, FileHashTables DEF Keeps
  <2> QED
    BY <1>2, <2>1, <2>2, <2>3, DataKept DEF FixNarInfo
<1> QED
  BY <1>1, <1>2 DEF FixStep

\* by uploads and deletions;
LEMMA ClientData ==
    ASSUME TypeInv,
           \/ \E p \in Puts : (PutNarInfo(p) \/ PutLockFails(p) \/ PutStep(p)) /\ UNCHANGED <<conf, kept>>
           \/ \E p \in Uploads : (PutNar(p) \/ UploadStep(p)) /\ UNCHANGED <<conf, kept>>
           \/ \E p \in Deletes : DeleteNarInfo(p) \/ (DeleteLegacy(p) /\ UNCHANGED <<conf, kept>>)
    PROVE  DataInv'
<1> USE DEF TypeInv
<1>0. Tables(db) /\ conf.compression \in Compressions
  BY DEF DataInv
<1>1. ASSUME NEW p \in Puts, PutNarInfo(p) \/ PutLockFails(p) \/ PutStep(p), UNCHANGED <<conf, kept>>
      PROVE  DataInv'
  <2>1. CASE FixStep(p)
    BY <1>1, <2>1, FixData
  <2>2. CASE PutStore(p)
    <3>1. HashOf[p] \in NarInfos
      BY Processes DEF Requests
    <3>2. Tables(db')
      BY <1>0, <2>2, <3>1, Rows, StoredTables DEF PutStore, Sizes
    <3> QED
      BY <1>1, <2>2, <3>2, DataKept DEF PutStore
  <2>3. CASE PutDeletesLegacy(p)
    BY <1>0, <1>1, <2>3, DataKept DEF PutDeletesLegacy
  <2>4. CASE PutNarInfo(p) \/ PutLockFails(p) \/ PutFails(p)
    BY <1>0, <1>1, <2>4, DataKept DEF PutNarInfo, PutLockFails, PutFails, dbVars
  <2> QED
    BY <1>1, <2>1, <2>2, <2>3, <2>4 DEF PutStep
<1>2. ASSUME NEW p \in Uploads, PutNar(p) \/ UploadStep(p), UNCHANGED <<conf, kept>>
      PROVE  DataInv'
  <2> DEFINE u == Url(NarOf[HashOf[p]], conf.compression)
  <2>0. u \in Urls /\ u[1] \in Nars /\ u \in Nars \X {"none", "xz", "zstd"}
    BY <1>0, NarInfoAssumption, Processes DEF Requests, Url, Urls, Compressions
  <2> HIDE DEF u
  <2>1. CASE FixStep(p)
    BY <1>2, <2>1, FixData
  <2>2. CASE PutNar(p)
    <3>1. Tables(db')
      BY <1>0, <2>0, <2>2, ChunkingTables DEF PutNar, Keeps, u
    <3>2. narStore' \subseteq Nars \X {"none", "xz", "zstd"}
      BY <2>0, <2>2 DEF PutNar, u, DataInv
    <3> QED
      BY <1>2, <2>2, <3>1, <3>2 DEF PutNar, DataInv
  <2>3. CASE PutNarRecord(p)
    <3>1. Tables(Chunked(db, u[1])) /\ Tables(NarRecorded(db, u))
      BY <1>0, <2>0, ChunkedTables, NarRecordedTables DEF Keeps
    <3>2. Tables(Relinked(Chunked(db, u[1]), u))
      BY <3>1, RelinkedTables
    <3>3. Tables(db')
      BY <2>3, <3>1, <3>2 DEF PutNarRecord, u
    <3> QED
      BY <1>2, <2>3, <3>3, DataKept DEF PutNarRecord
  <2> QED
    BY <1>2, <2>1, <2>2, <2>3 DEF UploadStep
<1>3. ASSUME NEW p \in Deletes, DeleteNarInfo(p)
      PROVE  DataInv'
  <2>1. Tables(db')
    BY <1>0, <1>3, DeleteNarInfoTables DEF DeleteNarInfo
  <2> QED
    BY <1>3, <2>1, DataKept DEF DeleteNarInfo
<1>4. ASSUME NEW p \in Deletes, DeleteLegacy(p), UNCHANGED <<conf, kept>>
      PROVE  DataInv'
  BY <1>0, <1>4, DataKept DEF DeleteLegacy
<1> QED
  BY <1>1, <1>2, <1>3, <1>4

\* by the download of a NAR.
LEMMA NarData ==
    ASSUME TypeInv, NEW s \in Servers, NEW n \in Nars, NarStep(s, n), UNCHANGED <<conf, kept>>
    PROVE  DataInv'
<1> USE DEF TypeInv
<1> DEFINE u == Url(n, conf.compression)
<1>0. /\ Tables(db) /\ u \in Urls
      /\ NarFileUrl(n) \in Nars \X {"none", "xz", "zstd"}
  BY DEF DataInv, Url, Urls, Compressions, NarFileUrl
<1> HIDE DEF u
<1>1. CASE NarArrives(s, n)
  <2>1. Tables(db')
    BY <1>0, <1>1, ChunkingTables DEF NarArrives, Keeps
  <2>2. narStore' \subseteq Nars \X {"none", "xz", "zstd"}
    BY <1>0, <1>1 DEF NarArrives, DataInv
  <2> QED
    BY <1>1, <2>1, <2>2 DEF NarArrives, DataInv
<1>2. CASE NarRecords(s, n)
  <2>1. Tables(db')
    BY <1>0, <1>2, ChunkedTables, NarRecordedTables DEF NarRecords, Keeps, u
  <2> QED
    BY <1>2, <2>1, DataKept DEF NarRecords
<1>3. CASE NarUnlists(s, n)
  <2>1. Tables(db')
    BY <1>0, <1>3, FixNarInfosTables DEF NarUnlists, Keeps, u
  <2> QED
    BY <1>3, <2>1, DataKept DEF NarUnlists
<1>4. CASE NarUnlocks(s, n) \/ NarFails(s, n)
  BY <1>0, <1>4, DataKept DEF NarUnlocks, NarFails, dbVars
<1> QED
  BY <1>1, <1>2, <1>3, <1>4 DEF NarStep

-----------------------------------------------------------------------------
(* Downloads, jobs and locks.                                              *)

\* No download, job or lock changes.
Aside == UNCHANGED <<dsVars, narVars, locks>>

\* Something went wrong for a process or a server, or nothing did.
Met == faults' = faults \/ \E f, w : w \in Procs \cup Servers /\ Fault(f, w)

\* The faults stay within their bound.
LEMMA FaultCounted ==
    ASSUME Bounded(faults), NEW f, NEW w \in Procs \cup Servers, Fault(f, w)
    PROVE  Bounded(faults') /\ faults' # << >> /\ Range(faults') = Range(faults) \cup {<<f, w>>}
<1>1. /\ faults \in Seq(Faults \X (Procs \cup Servers)) /\ <<f, w>> \in Faults \X (Procs \cup Servers)
      /\ faults' = Append(faults, <<f, w>>) /\ Len(faults) < MaxFaults
  BY DEF Bounded, Fault
<1>2. /\ faults' \in Seq(Faults \X (Procs \cup Servers)) /\ Len(faults') = Len(faults) + 1
      /\ \A i \in 1..Len(faults) : faults'[i] = faults[i]
      /\ faults'[Len(faults) + 1] = <<f, w>>
  BY <1>1
<1>3. Len(faults) \in Nat /\ DOMAIN faults = 1..Len(faults) /\ DOMAIN faults' = 1..Len(faults')
  BY <1>1, <1>2
<1>4. Bounded(faults') /\ faults' # << >>
  BY <1>1, <1>2, <1>3, NarInfoAssumption DEF Bounded
<1>5. DOMAIN faults' = DOMAIN faults \cup {Len(faults) + 1}
  BY <1>2, <1>3
<1>6. Range(faults') = Range(faults) \cup {<<f, w>>}
  BY <1>2, <1>3, <1>5 DEF Range
<1> QED
  BY <1>4, <1>6

\* So they do in a step that meets one, or none.
LEMMA MetCounted ==
    ASSUME Bounded(faults), Met
    PROVE  Bounded(faults') /\ Range(faults) \subseteq Range(faults')
  BY FaultCounted DEF Met

\* A step that leaves downloads and locks alone keeps SyncInv.
LEMMA AsideSync ==
    ASSUME SyncInv, Aside, Met
    PROVE  SyncInv'
<1>1. Bounded(faults')
  BY MetCounted DEF SyncInv
<1> QED
  BY <1>1 DEF SyncInv, Aside, dsVars, narVars, locks

\* So do the steps of getNarInfoFromDatabase.
LEMMA DatabaseAside ==
    ASSUME NEW p \in Procs, GetNarInfoFromDatabase(p)
    PROVE  Aside /\ Met
  BY DEF Aside, Met, GetNarInfoFromDatabase, DatabaseFails, RecordUnknown, RemoteUnknown, PopulateNarInfo, LookInStore, LookInChunks, LookForJob,
      isRemoteDownloadInProgress, LookForRecord, PurgeRows, PurgeLegacy, PurgeNar

\* SyncInv, kept by a request for a narinfo;
LEMMA GetSync ==
    ASSUME TypeInv, NEW r \in Gets, GetNarInfo(r) \/ GetStep(r) \/ ClientLeaves(r)
    PROVE  SyncInv'
<1> USE DEF TypeInv
<1>0. HashOf[r] \in NarInfos /\ ServerOf[r] \in Servers
  BY Processes DEF Requests
<1>p. r \in Procs
  BY Kinds
<1>1. CASE Aside /\ Met
  BY <1>1, AsideSync
<1>2. CASE FindJob(r)
  <2>1. ds' \in [Gets -> Gets]
    BY <1>0, <1>2 DEF FindJob, SyncInv
  <2> QED
    BY <1>2, <2>1 DEF FindJob, SyncInv, narVars, locks
<1>3. CASE Acquire(r)
  <2>1. jobLock' \in [NarInfos -> Gets \cup {Null}]
    BY <1>0, <1>3 DEF Acquire, SyncInv
  <2> QED
    BY <1>3, <2>1 DEF Acquire, SyncInv, narVars, dsVars
<1>4. CASE ReleaseJobLock(r) /\ UNCHANGED <<dsVars, narVars, migrationLock, putLock, faults>>
  <2>1. jobLock' \in [NarInfos -> Gets \cup {Null}]
    BY <1>4 DEF ReleaseJobLock, SyncInv
  <2> QED
    BY <1>4, <2>1 DEF SyncInv, narVars, dsVars
<1>5. CASE CreateJob(r)
  <2>1. jobs \in [Servers -> [NarInfos -> Gets \cup {Null}]] /\ ds \in [Gets -> Gets]
    BY DEF SyncInv
  <2>2. jobs' \in [Servers -> [NarInfos -> Gets \cup {Null}]] /\ ds' \in [Gets -> Gets]
    BY <1>0, <1>5, <2>1 DEF CreateJob
  <2> QED
    BY <1>5, <2>2 DEF CreateJob, SyncInv, narVars, locks
<1>6. CASE GetNarInfoFromDatabase(r)
  BY <1>6, <1>p, AsideSync, DatabaseAside
<1>7. GetNarInfo(r) \/ Hit(r) \/ LegacyFails(r) \/ WaitFails(r) \/ LookInLegacy(r) \/ ReadLegacy(r) \/ LegacyNar(r) \/ LegacyFound(r)
      \/ WaitForMigration(r, "waitMigration") \/ WaitForPut(r) \/ RetryDatabase(r)
      \/ RetryExhausted(r) \/ PollTimeout(r) \/ Miss(r) \/ Joined(r) \/ AcquireFails(r)
      \/ PollLegacy(r) \/ AssetLegacy(r) \/ WaitDone(r) \/ ReadPulled(r)
      => Aside /\ Met
  BY <1>p DEF Aside, Met, GetNarInfo, Hit, LegacyFails, WaitFails, LookInLegacy, ReadLegacy, LegacyNar,
      LegacyFound, WaitForMigration, WaitForPut, RetryDatabase, RetryExhausted, PollTimeout, Miss, Joined,
      AcquireFails, PollLegacy, AssetLegacy, WaitDone, ReadPulled
<1>8. UnlockAsset(r) \/ AwaitStored(r) \/ ClientLeaves(r)
      => ReleaseJobLock(r) /\ UNCHANGED <<dsVars, narVars, migrationLock, putLock, faults>>
  BY DEF UnlockAsset, AwaitStored, ClientLeaves
<1> QED
  BY <1>1, <1>2, <1>3, <1>4, <1>5, <1>6, <1>7, <1>8 DEF GetStep

\* One download of a NAR changes its state.
LEMMA NarJobSet ==
    ASSUME SyncInv, NEW s \in Servers, NEW n \in Nars, NEW x \in {"none", "running", "arrived", "recorded"}
    PROVE  [narJobs EXCEPT ![s][n] = x] \in [Servers -> [Nars -> {"none", "running", "arrived", "recorded"}]]
<1>1. [narJobs[s] EXCEPT ![n] = x] \in [Nars -> {"none", "running", "arrived", "recorded"}]
  BY DEF SyncInv
<1> QED
  BY <1>1 DEF SyncInv

\* by a pull;
LEMMA PullSync ==
    ASSUME TypeInv, NEW d \in Gets, PullStep(d)
    PROVE  SyncInv'
<1> USE DEF TypeInv
<1>0. HashOf[d] \in NarInfos /\ ServerOf[d] \in Servers /\ NarOf[HashOf[d]] \in Nars
  BY Processes, NarInfoAssumption DEF Requests
<1>1. CASE Aside /\ Met
  BY <1>1, AsideSync
<1>2. CASE UNCHANGED <<ds, stored, done, jobs, narVars, locks>> /\ err' \in [Gets -> BOOLEAN]
           /\ Met
  <2>1. Bounded(faults')
    BY <1>2, MetCounted DEF SyncInv
  <2> QED
    BY <1>2, <2>1 DEF SyncInv, narVars, locks
<1>p. Pull(d) \in Procs
  BY Processes
<1>3. CASE FetchNarInfo(d) \/ StorePulledFails(d) \/ PullWaitFails(d)
  <2>1. err' \in [Gets -> BOOLEAN]
    BY <1>3 DEF FetchNarInfo, StorePulledFails, PullWaitFails, PullFails, SyncInv
  <2> QED
    BY <1>p, <1>2, <1>3, <2>1 DEF FetchNarInfo, StorePulledFails, PullWaitFails, Met
<1>4. CASE PrePullNar(d)
  <2>1. narJobs' \in [Servers -> [Nars -> {"none", "running", "arrived", "recorded"}]]
    <3> DEFINE new == [narJobs EXCEPT ![ServerOf[d]][NarOf[HashOf[d]]] = "running"]
    <3>1. new \in [Servers -> [Nars -> {"none", "running", "arrived", "recorded"}]]
      BY <1>0, NarJobSet
    <3>2. narJobs' = narJobs \/ narJobs' = new
      BY <1>4 DEF PrePullNar, narVars
    <3> HIDE DEF new
    <3> QED
      BY <3>1, <3>2 DEF SyncInv
  <2>2. narLock' \in [Nars -> Servers \cup {Null}]
    BY <1>0, <1>4 DEF PrePullNar, SyncInv, narVars
  <2> QED
    BY <1>4, <2>1, <2>2 DEF PrePullNar, SyncInv, dsVars, locks
<1>5. CASE SignNarInfo(d)
  BY <1>5 DEF SignNarInfo, SyncInv, narVars, locks
<1>6. CASE PullCloses(d)
  <2>1. jobs' \in [Servers -> [NarInfos -> Gets \cup {Null}]] /\ done' \in [Gets -> BOOLEAN]
    BY <1>0, <1>6 DEF PullCloses, SyncInv
  <2> QED
    BY <1>6, <2>1 DEF PullCloses, SyncInv, narVars, locks
<1>7. CASE GetNarInfoFromDatabase(Pull(d))
  BY <1>7, <1>p, AsideSync, DatabaseAside
<1>8. WaitForMigration(Pull(d), "pullMigration") \/ WaitForPut(Pull(d)) \/ PrePullNarFails(d)
      \/ SignFails(d) \/ StorePulled(d)
      => Aside /\ Met
  BY <1>p DEF Aside, Met, WaitForMigration, WaitForPut, PrePullNarFails, SignFails, StorePulled
<1> QED
  BY <1>1, <1>3, <1>4, <1>5, <1>6, <1>7, <1>8 DEF PullStep

\* by a migration;
LEMMA MigrateSync ==
    ASSUME TypeInv, NEW r \in Gets, MigrateStep(r)
    PROVE  SyncInv'
<1> USE DEF TypeInv
<1>0. HashOf[r] \in NarInfos /\ Migration(r) \in Migrations /\ Migration(r) \in Procs
  BY Processes DEF Requests
<1>1. CASE MigrateLock(r) \/ MigrateUnlock(r)
  <2>1. migrationLock' \in [NarInfos -> Migrations \cup {Null}]
    BY <1>0, <1>1 DEF MigrateLock, MigrateUnlock, SyncInv
  <2> QED
    BY <1>1, <2>1 DEF MigrateLock, MigrateUnlock, SyncInv, dsVars, narVars
<1>2. MigrateLockFails(r) \/ MigrateCheck(r) \/ MigrateUnknown(r) \/ MigrateStore(r) \/ MigrateFails(r)
      \/ MigrateDelete(r)
      => Aside /\ Met
  BY <1>0 DEF Aside, Met, MigrateLockFails, MigrateCheck, MigrateUnknown, MigrateStore, MigrateFails,
              MigrateDelete
<1> QED
  BY <1>1, <1>2, AsideSync DEF MigrateStep

\* by the migration of a NAR to chunks;
LEMMA ChunksSync ==
    ASSUME TypeInv, NEW r \in Gets, ChunksStep(r) \/ ChunksDeleteFile(r)
    PROVE  SyncInv'
<1>0. ToChunks(r) \in Procs
  BY Processes
<1>1. Aside /\ Met
  BY <1>0 DEF Aside, Met, ChunksStep, ChunksLock, ChunksOpen, ChunksBegin, ChunksComplete, ChunksRelink,
              ChunksClean, ChunksFail, ChunksGoOn, ChunksDeleteFile
<1> QED
  BY <1>1, AsideSync DEF TypeInv

\* by uploads and deletions;
LEMMA ClientSync ==
    ASSUME TypeInv,
           \/ \E p \in Puts : PutNarInfo(p) \/ PutLockFails(p) \/ PutStep(p)
           \/ \E p \in Uploads : PutNar(p) \/ UploadStep(p)
           \/ \E p \in Deletes : DeleteNarInfo(p) \/ DeleteLegacy(p)
    PROVE  SyncInv'
<1> USE DEF TypeInv
<1>1. ASSUME NEW p \in Puts, PutNarInfo(p) \/ PutLockFails(p) \/ PutStep(p)
      PROVE  SyncInv'
  <2>0. HashOf[p] \in NarInfos /\ p \in Procs
    BY Processes, Kinds DEF Requests
  <2>1. CASE PutNarInfo(p) \/ PutFails(p) \/ PutDeletesLegacy(p)
    <3>1. putLock' \in [NarInfos -> Puts \cup {Null}]
      BY <2>0, <2>1 DEF PutNarInfo, PutFails, PutDeletesLegacy, SyncInv
    <3>2. Bounded(faults')
      BY <2>0, <2>1, FaultCounted DEF PutNarInfo, PutFails, PutDeletesLegacy, SyncInv
    <3>3. UNCHANGED <<dsVars, narVars, jobLock, migrationLock>>
      BY <2>1 DEF PutNarInfo, PutFails, PutDeletesLegacy
    <3> QED
      BY <3>1, <3>2, <3>3 DEF SyncInv, dsVars, narVars
  <2>2. CASE PutLockFails(p) \/ PutStore(p) \/ FixStep(p)
    BY <2>0, <2>2, AsideSync DEF Aside, Met, PutLockFails, PutStore, FixStep, CheckNarInfo, FixNarInfo
  <2> QED
    BY <1>1, <2>1, <2>2 DEF PutStep
<1>2. ASSUME NEW p \in Uploads, PutNar(p) \/ UploadStep(p)
      PROVE  SyncInv'
  BY <1>2, AsideSync DEF Aside, Met, PutNar, UploadStep, PutNarRecord, FixStep, CheckNarInfo, FixNarInfo
<1>3. ASSUME NEW p \in Deletes, DeleteNarInfo(p) \/ DeleteLegacy(p)
      PROVE  SyncInv'
  BY <1>3, AsideSync DEF Aside, Met, DeleteNarInfo, DeleteLegacy
<1> QED
  BY <1>1, <1>2, <1>3

\* by the download of a NAR;
LEMMA NarSync ==
    ASSUME TypeInv, NEW s \in Servers, NEW n \in Nars, NarStep(s, n)
    PROVE  SyncInv'
<1> USE DEF TypeInv
<1>0. narLock' \in [Nars -> Servers \cup {Null}]
  BY DEF NarStep, NarArrives, NarRecords, NarUnlocks, NarUnlists, NarFails, SyncInv
<1>1. narJobs' \in [Servers -> [Nars -> {"none", "running", "arrived", "recorded"}]]
  <2>1. \A x \in {"none", "running", "arrived", "recorded"} :
           [narJobs EXCEPT ![s][n] = x] \in [Servers -> [Nars -> {"none", "running", "arrived", "recorded"}]]
    BY NarJobSet
  <2>2. narJobs' = narJobs \/ \E x \in {"none", "running", "arrived", "recorded"} : narJobs' = [narJobs EXCEPT ![s][n] = x]
    BY DEF NarStep, NarArrives, NarRecords, NarUnlocks, NarUnlists, NarFails
  <2> QED
    BY <2>1, <2>2 DEF SyncInv
<1>2. Bounded(faults')
  BY FaultCounted DEF NarStep, NarArrives, NarRecords, NarUnlocks, NarUnlists, NarFails, SyncInv
<1>3. UNCHANGED <<dsVars, locks, control>>
  BY DEF NarStep, NarArrives, NarRecords, NarUnlocks, NarUnlists, NarFails
<1> QED
  BY <1>0, <1>1, <1>2, <1>3 DEF SyncInv, dsVars, locks

\* by a crash.
LEMMA CrashSync ==
    ASSUME TypeInv, NEW s \in Servers, Crash(s)
    PROVE  SyncInv'
<1> USE DEF TypeInv
<1>1. jobs' \in [Servers -> [NarInfos -> Gets \cup {Null}]]
      /\ narJobs' \in [Servers -> [Nars -> {"none", "running", "arrived", "recorded"}]]
  BY DEF Crash, SyncInv
<1>2. jobLock' \in [NarInfos -> Gets \cup {Null}] /\ migrationLock' \in [NarInfos -> Migrations \cup {Null}]
      /\ putLock' \in [NarInfos -> Puts \cup {Null}]
  BY DEF Crash, SyncInv
<1>3. Bounded(faults')
  BY FaultCounted DEF Crash, SyncInv
<1> QED
  BY <1>1, <1>2, <1>3 DEF Crash, SyncInv

-----------------------------------------------------------------------------
\* TypeInv holds at first.
LEMMA InitTypes == Init => TypeInv
<1> SUFFICES ASSUME Init PROVE TypeInv
  OBVIOUS
<1>1. conf \in [cdc : BOOLEAN, compression : Compressions, upstream : BOOLEAN,
                uploadOnly : BOOLEAN, requests : SUBSET Requests]
  BY NarInfoAssumption DEF Init
<1>2. PICK shape \in Shapes :
       LET row == shape[1]
           old == shape[2]
           nar == shape[3]
       IN
         /\ legacy = [h \in (IF old = "absent" THEN {} ELSE NarInfos) |-> old]
         /\ narStore = IF nar = "absent" THEN {}
                       ELSE {Url(n, IF conf.compression = "none" THEN "zstd" ELSE "xz") : n \in Nars}
         /\ db = [NoTables EXCEPT
                    !.narinfos = [h \in (IF row = "absent" THEN {} ELSE NarInfos) |->
                                    IF row = "complete" THEN LegacyRow(h)
                                    ELSE [url |-> Null, fileSize |-> Null, fileHash |-> Null]],
                    !.nar_files = [u \in (IF row = "complete" THEN {LegacyRow(h).url : h \in NarInfos} ELSE {}) |->
                                     [ size |-> "actual", total |-> 0, started |-> Null,
                                       created |-> "new", verified |-> FALSE ]],
                    !.narinfo_nar_files =
                       IF row = "complete" THEN {<<h, LegacyRow(h).url>> : h \in NarInfos} ELSE {}]
         /\ kept = IF nar = "stored" /\ (row = "complete" \/ old = "good") THEN NarInfos ELSE {}
  BY DEF Init
<1>3. /\ shape[2] \in {"absent", "good", "bad"}
  BY NarInfoAssumption
<1>4. DOMAIN legacy \subseteq NarInfos /\ legacy \in [DOMAIN legacy -> {"good", "bad"}]
  BY <1>2, <1>3
<1>5. narStore \subseteq Nars \X {"none", "xz", "zstd"} /\ kept \subseteq NarInfos
  BY <1>2 DEF Url
<1>6. \A h \in NarInfos : LegacyRow(h) \in NarInfoRow /\ LegacyRow(h).url \in Urls
  BY <1>1, NarInfoAssumption DEF LegacyRow, NarInfoRow, Urls, Url, Sizes
<1>7. Tables(db)
  <2> DEFINE row == shape[1]
             blank == [url |-> Null, fileSize |-> Null, fileHash |-> Null]
             file == [size |-> "actual", total |-> 0, started |-> Null, created |-> "new", verified |-> FALSE]
             infos == [h \in (IF row = "absent" THEN {} ELSE NarInfos) |->
                         IF row = "complete" THEN LegacyRow(h) ELSE blank]
             files == [u \in (IF row = "complete" THEN {LegacyRow(h).url : h \in NarInfos} ELSE {}) |-> file]
             links == IF row = "complete" THEN {<<h, LegacyRow(h).url>> : h \in NarInfos} ELSE {}
  <2>1. blank \in NarInfoRow /\ file \in NarFileRow /\ file.total = 0
    BY DEF NarInfoRow, NarFileRow, Sizes
  <2>2. db = [ narinfos |-> infos, nar_files |-> files, narinfo_nar_files |-> links, chunks |-> {},
               nar_file_chunks |-> {}, config |-> << >> ]
    BY <1>2 DEF NoTables
  <2> HIDE DEF blank, file
  <2>3. DOMAIN infos \subseteq NarInfos /\ infos \in [DOMAIN infos -> NarInfoRow]
    BY <1>6, <2>1
  <2>4. /\ DOMAIN files \subseteq Urls /\ files \in [DOMAIN files -> NarFileRow]
        /\ \A u \in DOMAIN files : files[u].total = 0
    BY <1>6, <2>1
  <2>5. links \subseteq (DOMAIN infos) \X (DOMAIN files)
    OBVIOUS
  <2> HIDE DEF infos, files, links
  <2> QED
    BY <2>2, <2>3, <2>4, <2>5 DEF Tables
<1>8. DataInv
  BY <1>1, <1>4, <1>5, <1>7 DEF DataInv
<1>9. Control
  BY DEF Init, Control, Local, GetSteps, PullSteps, MigrationSteps, ChunksSteps, PutSteps, UploadSteps, DeleteSteps,
         Looks, Purges
<1>10. SyncInv
  BY NarInfoAssumption DEF Init, SyncInv, Bounded
<1> QED
  BY <1>8, <1>9, <1>10 DEF TypeInv

\* One step of the specification is a step of one process, of a NAR download or of a
\* server that stops.
LEMMA Steps ==
    ASSUME Next
    PROVE  \/ \E r \in Gets : (GetNarInfo(r) \/ GetStep(r) \/ ClientLeaves(r)) /\ UNCHANGED <<conf, kept>>
           \/ \E r \in Gets : PullStep(r) /\ UNCHANGED <<conf, kept>>
           \/ \E r \in Gets : MigrateStep(r) /\ UNCHANGED <<conf, kept>>
           \/ \E r \in Gets : ChunksDeleteFile(r) \/ (ChunksStep(r) /\ UNCHANGED <<conf, kept>>)
           \/ \E p \in Puts : (PutNarInfo(p) \/ PutLockFails(p) \/ PutStep(p)) /\ UNCHANGED <<conf, kept>>
           \/ \E p \in Uploads : (PutNar(p) \/ UploadStep(p)) /\ UNCHANGED <<conf, kept>>
           \/ \E p \in Deletes : DeleteNarInfo(p) \/ (DeleteLegacy(p) /\ UNCHANGED <<conf, kept>>)
           \/ \E s \in Servers, n \in Nars : NarStep(s, n) /\ UNCHANGED <<conf, kept>>
           \/ \E s \in Servers : Crash(s) /\ UNCHANGED <<conf, kept>>
           \/ UNCHANGED vars
  BY DEF Next, Arrive, Progress

\* Every step keeps TypeInv.
LEMMA TypeStep == TypeInv /\ [Next]_vars => TypeInv'
<1> SUFFICES ASSUME TypeInv, [Next]_vars PROVE TypeInv'
  OBVIOUS
<1>1. ASSUME NEW r \in Gets, GetNarInfo(r) \/ GetStep(r) \/ ClientLeaves(r), UNCHANGED <<conf, kept>>
      PROVE  TypeInv'
  BY <1>1, GetControl, GetData, GetSync DEF TypeInv
<1>2. ASSUME NEW r \in Gets, PullStep(r), UNCHANGED <<conf, kept>>
      PROVE  TypeInv'
  BY <1>2, PullControl, PullData, PullSync DEF TypeInv
<1>3. ASSUME NEW r \in Gets, MigrateStep(r), UNCHANGED <<conf, kept>>
      PROVE  TypeInv'
  BY <1>3, MigrateControl, MigrateData, MigrateSync DEF TypeInv
<1>8. ASSUME NEW r \in Gets, ChunksDeleteFile(r) \/ (ChunksStep(r) /\ UNCHANGED <<conf, kept>>)
      PROVE  TypeInv'
  BY <1>8, ChunksControl, ChunksData, ChunksSync DEF TypeInv
<1>4. ASSUME \/ \E p \in Puts : (PutNarInfo(p) \/ PutLockFails(p) \/ PutStep(p)) /\ UNCHANGED <<conf, kept>>
             \/ \E p \in Uploads : (PutNar(p) \/ UploadStep(p)) /\ UNCHANGED <<conf, kept>>
             \/ \E p \in Deletes : DeleteNarInfo(p) \/ (DeleteLegacy(p) /\ UNCHANGED <<conf, kept>>)
      PROVE  TypeInv'
  <2>1. DataInv'
    BY <1>4, ClientData
  <2>2. Control' /\ SyncInv'
    BY <1>4, ClientControl, ClientSync
  <2> QED
    BY <2>1, <2>2 DEF TypeInv
<1>5. ASSUME NEW s \in Servers, NEW n \in Nars, NarStep(s, n), UNCHANGED <<conf, kept>>
      PROVE  TypeInv'
  <2>1. UNCHANGED control
    BY <1>5 DEF NarStep, NarArrives, NarRecords, NarUnlocks, NarUnlists, NarFails
  <2>2. Control'
    BY <2>1 DEF TypeInv, Control, control
  <2> QED
    BY <1>5, <2>2, NarData, NarSync DEF TypeInv
<1>6. ASSUME NEW s \in Servers, Crash(s), UNCHANGED <<conf, kept>>
      PROVE  TypeInv'
  <2>1. DataInv'
    BY <1>6, DataKept DEF Crash, TypeInv, DataInv, dbVars
  <2> QED
    BY <1>6, <2>1, CrashControl, CrashSync DEF TypeInv
<1>7. CASE UNCHANGED vars
  BY <1>7 DEF vars, dbVars, control, dsVars, narVars, locks, TypeInv, DataInv, Control, SyncInv
<1> QED
  BY <1>1, <1>2, <1>3, <1>4, <1>5, <1>6, <1>7, <1>8, Steps

\* TypeInv always holds.
LEMMA TypesKept == Spec => []TypeInv
<1>1. TypeInv /\ [Next]_vars => TypeInv'
  BY TypeStep
<1> QED
  BY <1>1, InitTypes, PTL DEF Spec

\* The tables refer to rows that exist, every store and every lock holds what it should,
\* after every interleaving of requests, pulls, migrations and crashes.
THEOREM NarInfoTypes == Spec => []TypeOK
<1>1. TypeInv => TypeOK
  BY DEF TypeInv, DataInv, SyncInv, Bounded, Tables, TypeOK
<1> QED
  BY <1>1, TypesKept, PTL

-----------------------------------------------------------------------------
(* Nobody waits for a process that is gone.                                *)

\* A move that keeps what others wait for.
Edge(p, state, return) ==
    /\ p \in Gets =>
         /\ Holding(pc[p], ret[p]) => Holding(state, return)
         /\ state \in Waits => pc[p] \in Waits
         /\ pc[p] \in Final => state \in Final
    /\ p \in Pulls => (Active(pc[p]) <=> Active(state))
    /\ p \in Migrations => (pc[p] \in Locked => state \in Locked) /\ (pc[p] = "idle" => state = "idle")
    /\ p \in Puts => (pc[p] \in Writing => state \in Writing)

\* A move between places that are alike to those who wait keeps WaitInv ...
LEMMA WaitMoves ==
    ASSUME TypeInv, WaitInv, NEW p \in Procs, NEW state, NEW return, NEW u,
           Moves(p, state, return, u), Edge(p, state, return), UNCHANGED <<ds, jobs, done>>
    PROVE  WaitInv'
<1>1. \A r \in Gets : ds[r] \in Gets /\ r \in Procs /\ Pull(r) \in Procs /\ Migration(r) \in Procs
                      /\ Pull(r) \in Pulls /\ Migration(r) \in Migrations
  BY Processes, Kinds DEF TypeInv, SyncInv
<1>2. \A q \in Procs : (pc'[q] = IF q = p THEN state ELSE pc[q])
  BY Moved DEF TypeInv
<1>3. \A q \in Procs : q \in Pulls => (Active(pc'[q]) <=> Active(pc[q]))
  BY <1>2 DEF Edge
<1>4. \A q \in Gets : (pc'[q] \in Waits => pc[q] \in Waits) /\ (pc[q] \in Final => pc'[q] \in Final)
  BY <1>1, <1>2 DEF Edge
<1>5. \A q \in Procs : q \in Migrations => (pc'[q] # "idle" => pc[q] # "idle")
  BY <1>2 DEF Edge
<1> QED
  BY <1>1, <1>3, <1>4, <1>5 DEF WaitInv

\* ... and JobInv, and LockInv.
LEMMA JobMoves ==
    ASSUME TypeInv, JobInv, NEW p \in Procs, NEW state, NEW return, NEW u,
           Moves(p, state, return, u), Edge(p, state, return), UNCHANGED jobs
    PROVE  JobInv'
<1>1. \A s \in Servers, h \in NarInfos : jobs[s][h] # Null =>
        Pull(jobs[s][h]) \in Procs /\ Pull(jobs[s][h]) \in Pulls
  BY Processes DEF TypeInv, SyncInv
<1>2. \A q \in Procs : (pc'[q] = IF q = p THEN state ELSE pc[q])
  BY Moved DEF TypeInv
<1>3. \A q \in Procs : q \in Pulls => (Active(pc'[q]) <=> Active(pc[q]))
  BY <1>2 DEF Edge
<1> QED
  BY <1>1, <1>3 DEF JobInv

\* The locks stay where they are, or whoever is at its end lets them go.
LEMMA LockMoves ==
    ASSUME TypeInv, LockInv, NEW p \in Procs, NEW state, NEW return, NEW u,
           Moves(p, state, return, u),
           \A h \in NarInfos :
              /\ jobLock'[h] \in {jobLock[h], Null}
              /\ migrationLock'[h] \in {migrationLock[h], Null}
              /\ putLock'[h] \in {putLock[h], Null}
              /\ jobLock'[h] = p /\ p \in Gets /\ Holding(pc[p], ret[p]) => Holding(state, return)
              /\ migrationLock'[h] = p /\ p \in Migrations /\ pc[p] \in Locked => state \in Locked
              /\ putLock'[h] = p /\ p \in Puts /\ pc[p] \in Writing => state \in Writing
    PROVE  LockInv'
<1>1. \A h \in NarInfos :
         /\ jobLock[h] # Null => jobLock[h] \in Gets /\ jobLock[h] \in Procs
         /\ migrationLock[h] # Null => migrationLock[h] \in Migrations /\ migrationLock[h] \in Procs
         /\ putLock[h] # Null => putLock[h] \in Puts /\ putLock[h] \in Procs
  BY Kinds DEF TypeInv, SyncInv
<1>2. \A q \in Procs : /\ q = p => pc'[q] = state /\ ret'[q] = return
                       /\ q # p => pc'[q] = pc[q] /\ ret'[q] = ret[q]
  BY Moved DEF TypeInv
<1> SUFFICES ASSUME NEW h \in NarInfos
             PROVE  /\ jobLock'[h] # Null => Holding(pc'[jobLock'[h]], ret'[jobLock'[h]])
                    /\ migrationLock'[h] # Null =>
                         Hash(migrationLock'[h]) = h /\ pc'[migrationLock'[h]] \in Locked
                    /\ putLock'[h] # Null => Hash(putLock'[h]) = h /\ pc'[putLock'[h]] \in Writing
  BY DEF LockInv, Hash, RequestOf
<1>3. jobLock'[h] # Null => Holding(pc'[jobLock'[h]], ret'[jobLock'[h]])
  BY <1>1, <1>2 DEF LockInv
<1>4. migrationLock'[h] # Null =>
         Hash(migrationLock'[h]) = h /\ pc'[migrationLock'[h]] \in Locked
  BY <1>1, <1>2 DEF LockInv
<1>5. putLock'[h] # Null => Hash(putLock'[h]) = h /\ pc'[putLock'[h]] \in Writing
  BY <1>1, <1>2 DEF LockInv
<1> QED
  BY <1>3, <1>4, <1>5

\* All three together,
LEMMA AliveMoves ==
    ASSUME TypeInv, AliveInv, NEW p \in Procs, NEW state, NEW return, NEW u,
           Moves(p, state, return, u), Edge(p, state, return),
           UNCHANGED <<ds, jobs, done, jobLock, migrationLock, putLock>>
    PROVE  AliveInv'
<1>1. WaitInv' /\ JobInv'
  BY WaitMoves, JobMoves DEF AliveInv
<1>2. LockInv'
  BY LockMoves DEF AliveInv, Edge
<1> QED
  BY <1>1, <1>2 DEF AliveInv

\* for Goto
LEMMA AliveGoto ==
    ASSUME TypeInv, AliveInv, NEW p \in Procs, NEW state, Goto(p, state),
           Edge(p, state, ret[p]), UNCHANGED <<ds, jobs, done, jobLock, migrationLock, putLock>>
    PROVE  AliveInv'
<1>1. Moves(p, state, Unless(state, ret[p]), UnlessUrl(state, url[p]))
  BY GotoMoves DEF TypeInv
<1>2. Edge(p, state, Unless(state, ret[p]))
  BY DEF Edge, Unless, Holding, Final, Looks, Purges
<1> QED
  BY <1>1, <1>2, AliveMoves

\* and for Call.
LEMMA AliveCall ==
    ASSUME TypeInv, AliveInv, NEW p \in Procs, NEW state, NEW return, Call(p, state, return),
           Edge(p, state, return), UNCHANGED <<ds, jobs, done, jobLock, migrationLock, putLock>>
    PROVE  AliveInv'
  BY CallMoves, AliveMoves DEF TypeInv

\* AliveInv, kept by getNarInfoFromDatabase and purgeNarInfo;
LEMMA DatabaseAlive ==
    ASSUME TypeInv, AliveInv, NEW p \in Gets \cup Pulls, GetNarInfoFromDatabase(p)
    PROVE  AliveInv'
<1>0. p \in Procs /\ Local(p, pc[p], ret[p], url[p])
  BY Kinds DEF TypeInv, Control
<1>x. UNCHANGED <<ds, jobs, done, jobLock, migrationLock, putLock>>
  BY <1>0, DatabaseAside DEF Aside, dsVars, locks
<1>a. ASSUME Return(p, "ok"), pc[p] \in Looks \ {"db"} PROVE AliveInv'
  <2>1. Edge(p, After(ret[p], "ok"), ret[p])
    BY <1>0, <1>a, Kinds, Outcomes DEF Edge, Local, Looks, Purges, Final, Active, Holding, Waits
  <2> QED
    BY <1>0, <1>a, <1>x, <2>1, AliveGoto DEF Return
<1>c. ASSUME NEW outcome \in {"notfound", "purged", "failed"}, Return(p, outcome),
             pc[p] \in Looks \cup Purges, ret[p] = "bad" => outcome # "notfound"
      PROVE  AliveInv'
  <2>1. p \in Gets => ret[p] \in {"get", "retry", "asset", "poll", "final", "legacy", "bad"}
    BY <1>0, <1>c DEF Local
  <2>2. p \in Gets => /\ After(ret[p], outcome) \in
                           {"legacy", "failed", "miss", "retry", "assetLegacy", "pollLegacy", "waitMigration"}
                      /\ ret[p] = "asset" => After(ret[p], outcome) = "assetLegacy"
    <3>1. CASE ret[p] = "legacy" /\ outcome = "notfound"
      BY <3>1, Outcomes
    <3>2. CASE ~(ret[p] = "legacy" /\ outcome = "notfound")
      BY <1>c, <2>1, <3>2, Outcomes
    <3> QED
      BY <3>1, <3>2
  <2>3. p \in Pulls => After(ret[p], outcome) = "fetch"
    BY <1>0, <1>c, Outcomes DEF Local
  <2>4. Edge(p, After(ret[p], outcome), ret[p])
    BY <1>0, <1>c, <2>2, <2>3, Kinds DEF Edge, Looks, Purges, Final, Active, Holding, Waits
  <2> QED
    BY <1>0, <1>c, <1>x, <2>4, AliveGoto DEF Return
<1>f. pc[p] \in Looks => ret[p] # "bad"
  BY <1>0 DEF Local
<1>d. ASSUME NEW state \in Looks \cup Purges, pc[p] \in Looks \cup Purges
      PROVE  Edge(p, state, ret[p])
  BY <1>0, <1>d, Kinds DEF Edge, Looks, Purges, Final, Active, Holding, Waits
<1>e. ASSUME NEW state \in Looks \cup Purges, pc[p] \in Looks \cup Purges, Goto(p, state)
      PROVE  AliveInv'
  BY <1>0, <1>d, <1>e, <1>x, AliveGoto
<1>1. CASE PopulateNarInfo(p)
  <2>1. CASE Hash(p) \notin GetMigratedNarInfoHashes(db)
    BY <1>1, <1>c, <1>f, <2>1 DEF PopulateNarInfo, At, Looks
  <2>2. CASE Hash(p) \in GetMigratedNarInfoHashes(db)
    <3>1. Moves(p, "store", ret[p], GetNarInfoByHash(db, Hash(p)).url)
      BY <1>0, <1>1, <2>2 DEF PopulateNarInfo, Moves, TypeInv, Control
    <3>2. Edge(p, "store", ret[p])
      BY <1>1, <1>d DEF PopulateNarInfo, At, Looks
    <3> QED
      BY <1>0, <1>x, <3>1, <3>2, AliveMoves
  <2> QED
    BY <2>1, <2>2
<1>2. CASE LookInStore(p)
  BY <1>2, <1>a, <1>e DEF LookInStore, At, Looks, Purges
<1>3. CASE LookInChunks(p)
  BY <1>3, <1>a, <1>e DEF LookInChunks, At, Looks, Purges
<1>4. CASE LookForJob(p)
  BY <1>4, <1>a, <1>e DEF LookForJob, At, Looks, Purges
<1>5. CASE isRemoteDownloadInProgress(p)
  BY <1>5, <1>a, <1>e DEF isRemoteDownloadInProgress, At, Looks, Purges
<1>6. CASE LookForRecord(p)
  BY <1>6, <1>a, <1>e DEF LookForRecord, At, Looks, Purges
<1>7. CASE PurgeRows(p)
  BY <1>7, <1>e DEF PurgeRows, At, Looks, Purges
<1>8. CASE PurgeLegacy(p)
  BY <1>8, <1>e DEF PurgeLegacy, At, Looks, Purges
<1>9. CASE PurgeNar(p)
  <2>1. CASE Return(p, "purged")
    BY <1>9, <1>c, <2>1 DEF PurgeNar, At, Purges
  <2>2. CASE Return(p, "notfound") /\ url[p] # Null
    <3>1. ret[p] # "bad"
      BY <1>0, <1>9, <2>2, Kinds DEF PurgeNar, At, Local, Purges
    <3> QED
      BY <1>9, <1>c, <2>2, <3>1 DEF PurgeNar, At, Purges
  <2> QED
    BY <1>9, <2>1, <2>2 DEF PurgeNar
<1>10. CASE DatabaseFails(p)
  BY <1>10, <1>c DEF DatabaseFails, At, Looks, Purges
<1>11. CASE RecordUnknown(p)
  BY <1>11, <1>a DEF RecordUnknown, At, Looks
<1>12. CASE RemoteUnknown(p)
  BY <1>12, <1>e DEF RemoteUnknown, At, Looks, Purges
<1> QED
  BY <1>1, <1>2, <1>3, <1>4, <1>5, <1>6, <1>7, <1>8, <1>9, <1>10, <1>11, <1>12 DEF GetNarInfoFromDatabase

\* by the end of a request that begins migrations;
LEMMA AnswerAlive ==
    ASSUME TypeInv, AliveInv, NEW r \in Gets, pc[r] \in {"hit", "legacyRow"},
           NEW answer \in Final, NEW m \in {pc[Migration(r)], "trylock"}, NEW c,
           pc' = [pc EXCEPT ![r] = answer, ![Migration(r)] = m, ![ToChunks(r)] = c],
           ret' = [ret EXCEPT ![r] = "none"],
           UNCHANGED <<ds, done, jobs, jobLock, migrationLock, putLock>>
    PROVE  AliveInv'
<1>0. r \in Procs /\ Local(r, pc[r], ret[r], url[r])
  BY Kinds DEF TypeInv, Control
<1>s. /\ ds \in [Gets -> Gets] /\ Null \notin Gets
      /\ jobs \in [Servers -> [NarInfos -> Gets \cup {Null}]]
  BY NarInfoAssumption, Kinds DEF TypeInv, SyncInv
<1>1. /\ Migration(r) \in Procs /\ Migration(r) \notin Gets /\ Migration(r) # r
      /\ ToChunks(r) \in Procs /\ ToChunks(r) # r /\ ToChunks(r) # Migration(r)
      /\ ToChunks(r) \in Chunkings /\ Migration(r) \notin Puts
  BY Processes, Kinds
<1>2. pc[Migration(r)] = "idle"
  BY DEF AliveInv, WaitInv, Final
<1>3. \A q \in Procs : pc'[q] = IF q = r THEN answer ELSE IF q = Migration(r) THEN m
                                ELSE IF q = ToChunks(r) THEN c ELSE pc[q]
  BY <1>0, <1>1 DEF TypeInv, Control
<1>4. \A q \in Procs : q # r => ret'[q] = ret[q]
  BY DEF TypeInv, Control
<1>5. \A g \in Gets : /\ g \in Procs /\ g # Migration(r) /\ g # ToChunks(r) /\ ds[g] \in Gets
                      /\ Pull(g) \in Procs /\ Pull(g) # r /\ Pull(g) # Migration(r) /\ Pull(g) # ToChunks(r)
                      /\ Migration(g) \in Procs /\ Migration(g) # r /\ Migration(g) # ToChunks(r)
                      /\ (Migration(g) = Migration(r) => g = r)
  BY <1>s, Processes, Kinds
<1>6. WaitInv'
  <2> SUFFICES ASSUME NEW g \in Gets
               PROVE  /\ ServerOf[ds'[g]] = ServerOf[g] /\ HashOf[ds'[g]] = HashOf[g]
                      /\ Active(pc'[Pull(g)]) => jobs'[ServerOf[g]][HashOf[g]] = g
                      /\ pc'[g] \in Waits => done'[ds'[g]] \/ Active(pc'[Pull(ds'[g])])
                      /\ pc'[Migration(g)] # "idle" => pc'[g] \in Final
    BY DEF WaitInv
  <2>1. pc'[Pull(g)] = pc[Pull(g)] /\ pc'[Pull(ds[g])] = pc[Pull(ds[g])]
    BY <1>3, <1>5
  <2>2. pc'[g] = IF g = r THEN answer ELSE pc[g]
    BY <1>3, <1>5
  <2>3. g # r => pc'[Migration(g)] = pc[Migration(g)]
    BY <1>3, <1>5
  <2>4. answer \notin Waits
    BY DEF Waits, Final
  <2> QED
    BY <2>1, <2>2, <2>3, <2>4 DEF AliveInv, WaitInv
<1>7. JobInv'
  <2>1. \A s \in Servers, h \in NarInfos : jobs[s][h] # Null => jobs[s][h] \in Gets
    BY <1>s
  <2>2. \A g \in Gets : pc'[Pull(g)] = pc[Pull(g)]
    BY <1>3, <1>5
  <2> SUFFICES ASSUME NEW s \in Servers, NEW h \in NarInfos, jobs'[s][h] # Null
               PROVE  /\ Active(pc'[Pull(jobs'[s][h])])
                      /\ ServerOf[jobs'[s][h]] = s /\ HashOf[jobs'[s][h]] = h
    BY DEF JobInv
  <2>3. jobs'[s][h] = jobs[s][h] /\ jobs[s][h] # Null
    OBVIOUS
  <2>4. Active(pc[Pull(jobs[s][h])]) /\ ServerOf[jobs[s][h]] = s /\ HashOf[jobs[s][h]] = h
    BY <2>3 DEF AliveInv, JobInv
  <2> QED
    BY <2>1, <2>2, <2>3, <2>4
<1>8. LockInv'
  <2>1. \A k \in NarInfos :
          /\ migrationLock[k] # Null => migrationLock[k] \in Procs /\ migrationLock[k] \in Migrations
          /\ putLock[k] # Null => putLock[k] \in Procs /\ putLock[k] \in Puts
          /\ jobLock[k] # Null => jobLock[k] \in Procs /\ jobLock[k] \in Gets
    BY Kinds DEF TypeInv, SyncInv
  <2>2. ~Holding(pc[r], ret[r]) /\ pc[Migration(r)] \notin Locked
    BY <1>2 DEF Holding, Looks, Purges, Locked
  <2>3. \A k \in NarInfos :
          /\ migrationLock[k] # Null => pc'[migrationLock[k]] = pc[migrationLock[k]]
          /\ putLock[k] # Null => pc'[putLock[k]] = pc[putLock[k]]
          /\ jobLock[k] # Null => pc'[jobLock[k]] = pc[jobLock[k]] /\ ret'[jobLock[k]] = ret[jobLock[k]]
    <3> SUFFICES ASSUME NEW k \in NarInfos
                 PROVE  /\ migrationLock[k] # Null => pc'[migrationLock[k]] = pc[migrationLock[k]]
                        /\ putLock[k] # Null => pc'[putLock[k]] = pc[putLock[k]]
                        /\ jobLock[k] # Null => pc'[jobLock[k]] = pc[jobLock[k]] /\ ret'[jobLock[k]] = ret[jobLock[k]]
      OBVIOUS
    <3>1. migrationLock[k] # Null => migrationLock[k] # r /\ migrationLock[k] # Migration(r) /\ migrationLock[k] # ToChunks(r)
      BY <1>1, <2>1, <2>2, Kinds DEF AliveInv, LockInv
    <3>2. putLock[k] # Null => putLock[k] # r /\ putLock[k] # Migration(r) /\ putLock[k] # ToChunks(r)
      BY <1>1, <2>1, Kinds
    <3>3. jobLock[k] # Null => jobLock[k] # r /\ jobLock[k] # Migration(r) /\ jobLock[k] # ToChunks(r)
      BY <1>1, <2>1, <2>2, Kinds DEF AliveInv, LockInv
    <3> QED
      BY <1>3, <1>4, <2>1, <3>1, <3>2, <3>3
  <2> HIDE DEF Holding
  <2> QED
    BY <2>3 DEF AliveInv, LockInv, Hash, RequestOf
<1> QED
  BY <1>6, <1>7, <1>8 DEF AliveInv


\* by a request for a narinfo and by its client that leaves;
LEMMA GetAlive ==
    ASSUME TypeInv, AliveInv, NEW r \in Gets, GetNarInfo(r) \/ GetStep(r) \/ ClientLeaves(r)
    PROVE  AliveInv'
<1>0. /\ r \in Procs /\ Local(r, pc[r], ret[r], url[r]) /\ r \in Requests
      /\ HashOf[r] \in NarInfos /\ ServerOf[r] \in Servers
  BY Kinds, Processes DEF TypeInv, Control, Requests
<1>s. /\ ds \in [Gets -> Gets] /\ done \in [Gets -> BOOLEAN]
      /\ jobs \in [Servers -> [NarInfos -> Gets \cup {Null}]]
      /\ jobLock \in [NarInfos -> Gets \cup {Null}] /\ Null \notin Gets /\ Null \notin Procs
  BY NarInfoAssumption, <1>0, Kinds DEF TypeInv, SyncInv
<1> DEFINE Still == UNCHANGED <<ds, jobs, done, jobLock, migrationLock, putLock>>
\* A move between states at which the request holds no lock and waits for no download.
<1>a. ASSUME NEW state, Goto(r, state), ~Holding(pc[r], ret[r]), state \notin Waits, pc[r] \notin Final, Still
      PROVE  AliveInv'
  BY <1>0, <1>a, Kinds, AliveGoto DEF Edge
<1>b. ASSUME NEW state, NEW return, Call(r, state, return), ~Holding(pc[r], ret[r]), state \notin Waits,
             pc[r] \notin Final, Still
      PROVE  AliveInv'
  BY <1>0, <1>b, Kinds, AliveCall DEF Edge
<1> USE DEF At, dsVars, locks, Holding, Waits, Final, Looks, Purges
<1>1. CASE GetNarInfo(r) \/ Acquire(r) \/ AcquireFails(r) \/ ReadPulled(r) \/ WaitForPut(r)
  <2>1. CASE Acquire(r)
    <3>1. Moves(r, "db", "asset", url[r])
      BY <1>0, <2>1, CallMoves DEF Acquire, TypeInv
    <3>2. Edge(r, "db", "asset")
      BY <2>1, Kinds DEF Edge, Acquire
    <3>3. WaitInv' /\ JobInv'
      BY <1>0, <2>1, <3>1, <3>2, WaitMoves, JobMoves DEF AliveInv, Acquire
    <3>4. LockInv'
      <4>1. \A q \in Procs : /\ q = r => pc'[q] = "db" /\ ret'[q] = "asset"
                             /\ q # r => pc'[q] = pc[q] /\ ret'[q] = ret[q]
        BY <1>0, <3>1, Moved DEF TypeInv
      <4>2. \A h \in NarInfos : jobLock'[h] = IF h = HashOf[r] THEN r ELSE jobLock[h]
        BY <1>0, <1>s, <2>1 DEF Acquire
      <4>3. \A h \in NarInfos :
              /\ migrationLock[h] # Null => migrationLock[h] # r /\ migrationLock[h] \in Procs
              /\ putLock[h] # Null => putLock[h] # r /\ putLock[h] \in Procs
              /\ jobLock[h] # Null => jobLock[h] \in Procs
        BY Kinds DEF TypeInv, SyncInv
      <4>4. UNCHANGED <<migrationLock, putLock>>
        BY <2>1 DEF Acquire
      <4>5. \A h \in NarInfos : jobLock'[h] # Null => Holding(pc'[jobLock'[h]], ret'[jobLock'[h]])
        BY <1>0, <4>1, <4>2, <4>3 DEF AliveInv, LockInv
      <4> QED
        BY <4>1, <4>3, <4>4, <4>5 DEF AliveInv, LockInv, Hash, RequestOf
    <3> QED
      BY <3>3, <3>4 DEF AliveInv
  <2> QED
    BY <1>1, <1>b, <2>1 DEF GetNarInfo, AcquireFails, ReadPulled, WaitForPut
<1>2. CASE LookInLegacy(r) \/ LegacyNar(r)
  BY <1>2, <1>a, <1>b DEF LookInLegacy, LegacyNar
<1>3. CASE ReadLegacy(r)
  <2>1. CASE Goto(r, "waitMigration")
    BY <1>3, <2>1, <1>a DEF ReadLegacy
  <2>2. CASE ~Goto(r, "waitMigration")
    <3> PICK state \in {"purge", "legacyNar"}, return \in {"bad", ret[r]},
             u \in {Null, LegacyRow(HashOf[r]).url} : Moves(r, state, return, u)
      BY <1>0, <1>3, <2>2 DEF ReadLegacy, Moves, TypeInv, Control
    <3>1. Edge(r, state, return)
      BY <1>3, Kinds DEF Edge, ReadLegacy
    <3> QED
      BY <1>0, <1>3, <3>1, AliveMoves DEF ReadLegacy
  <2> QED
    BY <2>1, <2>2
<1>4. CASE WaitForMigration(r, "waitMigration") \/ RetryDatabase(r) \/ RetryExhausted(r) \/ PollTimeout(r)
  BY <1>4, <1>a DEF WaitForMigration, RetryDatabase, RetryExhausted, PollTimeout
<1>5. CASE Miss(r) \/ PollLegacy(r)
  BY <1>5, <1>a DEF Miss, PollLegacy
<1>6. CASE WaitDone(r)
  BY <1>6, <1>a DEF WaitDone
<1>7. CASE Joined(r)
  <2>1. Edge(r, "waitDone", ret[r])
    BY <1>7, Kinds DEF Edge, Joined
  <2> QED
    BY <1>0, <1>7, <2>1, AliveGoto DEF Joined
<1>8. CASE AssetLegacy(r)
  <2>1. Edge(r, "unlock", ret[r]) /\ Edge(r, "create", ret[r])
    BY <1>8, Kinds DEF Edge, AssetLegacy
  <2> QED
    BY <1>0, <1>8, <2>1, AliveGoto DEF AssetLegacy
<1>9. CASE GetNarInfoFromDatabase(r)
  BY <1>9, DatabaseAlive
<1>10. CASE UnlockAsset(r) \/ AwaitStored(r) \/ ClientLeaves(r)
  <2> PICK state \in {"final", "waitDone", "left"} : Goto(r, state)
    BY <1>10 DEF UnlockAsset, AwaitStored, ClientLeaves
  <2>0. (state = "waitDone" => pc[r] \in Waits) /\ pc[r] \notin Final
    BY <1>0, <1>10, GotoMoves, Moved DEF UnlockAsset, AwaitStored, ClientLeaves, TypeInv
  <2>1. Moves(r, state, Unless(state, ret[r]), UnlessUrl(state, url[r]))
    BY <1>0, GotoMoves DEF TypeInv
  <2>2. UNCHANGED <<dsVars, migrationLock, putLock>> /\ ReleaseJobLock(r)
    BY <1>10 DEF UnlockAsset, AwaitStored, ClientLeaves
  <2>3. \A h \in NarInfos : jobLock'[h] # r /\ jobLock'[h] \in {jobLock[h], Null}
    BY <1>0, <1>s, <2>2 DEF ReleaseJobLock
  <2>4. LockInv'
    BY <1>0, <2>1, <2>2, <2>3, Kinds, LockMoves DEF AliveInv
  <2>5. WaitInv'
    <3>1. \A q \in Procs : pc'[q] = IF q = r THEN state ELSE pc[q]
      BY <1>0, <2>1, Moved DEF TypeInv
    <3>2. \A g \in Gets : ds[g] \in Gets /\ Pull(g) \in Procs /\ Pull(g) # r
                          /\ Migration(g) \in Procs /\ Migration(g) # r /\ g \in Procs
      BY <1>s, Processes, Kinds
    <3> QED
      BY <2>0, <2>2, <3>1, <3>2 DEF AliveInv, WaitInv
  <2>6. JobInv'
    <3>1. \A q \in Procs : pc'[q] = IF q = r THEN state ELSE pc[q]
      BY <1>0, <2>1, Moved DEF TypeInv
    <3>2. \A g \in Gets : Pull(g) \in Procs /\ Pull(g) # r
      BY Processes, Kinds
    <3> QED
      BY <1>s, <2>2, <3>1, <3>2 DEF AliveInv, JobInv
  <2> QED
    BY <2>4, <2>5, <2>6 DEF AliveInv
<1>11. CASE FindJob(r)
  <2> DEFINE d == jobs[ServerOf[r]][HashOf[r]]
  <2>1. CASE d = Null
    BY <1>11, <1>a, <2>1 DEF FindJob
  <2>2. CASE d # Null
    <3>1. d \in Gets /\ Active(pc[Pull(d)]) /\ ServerOf[d] = ServerOf[r] /\ HashOf[d] = HashOf[r]
      BY <1>0, <1>s, <2>2 DEF AliveInv, JobInv
    <3> HIDE DEF d
    <3>2. Goto(r, "joined") /\ ds' = [ds EXCEPT ![r] = d] /\ UNCHANGED <<jobs, done, locks>> /\ pc[r] = "coord"
      BY <1>11, <2>2 DEF FindJob, d
    <3>3. Moves(r, "joined", ret[r], url[r])
      BY <1>0, <3>2, GotoMoves DEF TypeInv, Unless, UnlessUrl
    <3>4. \A q \in Procs : pc'[q] = IF q = r THEN "joined" ELSE pc[q]
      BY <1>0, <3>3, Moved DEF TypeInv
    <3>5. \A g \in Gets : Pull(g) \in Procs /\ Pull(g) # r /\ Migration(g) \in Procs /\ Migration(g) # r
                          /\ g \in Procs /\ ds[g] \in Gets
      BY <1>s, Processes, Kinds
    <3>6. \A g \in Gets : ds'[g] = IF g = r THEN d ELSE ds[g]
      BY <1>s, <3>2
    <3>7. WaitInv'
      BY <3>1, <3>2, <3>4, <3>5, <3>6 DEF AliveInv, WaitInv
    <3>8. JobInv'
      BY <1>s, <3>2, <3>4, <3>5 DEF AliveInv, JobInv
    <3>9. LockInv'
      BY <1>0, <3>2, <3>3, Kinds, LockMoves DEF AliveInv
    <3> QED
      BY <3>7, <3>8, <3>9 DEF AliveInv
  <2> QED
    BY <2>1, <2>2
<1>12. CASE CreateJob(r)
  <2> DEFINE s == ServerOf[r]
             h == HashOf[r]
  <2>0. pc[r] = "create"
    BY <1>12 DEF CreateJob
  <2>1. CASE jobs[s][h] # Null
    <3> DEFINE d == jobs[s][h]
    <3>1. d \in Gets /\ Active(pc[Pull(d)]) /\ ServerOf[d] = ServerOf[r] /\ HashOf[d] = HashOf[r]
      BY <1>0, <1>s, <2>1 DEF AliveInv, JobInv
    <3> HIDE DEF d
    <3>2. Goto(r, "await") /\ ds' = [ds EXCEPT ![r] = d] /\ UNCHANGED <<jobs, done, locks>>
      BY <1>12, <2>1 DEF CreateJob, d
    <3>3. Moves(r, "await", ret[r], url[r])
      BY <1>0, <3>2, GotoMoves DEF TypeInv, Unless, UnlessUrl
    <3>4. \A q \in Procs : pc'[q] = IF q = r THEN "await" ELSE pc[q]
      BY <1>0, <3>3, Moved DEF TypeInv
    <3>5. \A g \in Gets : Pull(g) \in Procs /\ Pull(g) # r /\ Migration(g) \in Procs /\ Migration(g) # r
                          /\ g \in Procs /\ ds[g] \in Gets
      BY <1>s, Processes, Kinds
    <3>6. \A g \in Gets : ds'[g] = IF g = r THEN d ELSE ds[g]
      BY <1>s, <3>2
    <3>7. WaitInv'
      BY <2>0, <3>1, <3>2, <3>4, <3>5, <3>6 DEF AliveInv, WaitInv
    <3>8. JobInv'
      BY <1>s, <3>2, <3>4, <3>5 DEF AliveInv, JobInv
    <3>9. LockInv'
      BY <1>0, <3>2, <3>3, Kinds, LockMoves DEF AliveInv
    <3> QED
      BY <3>7, <3>8, <3>9 DEF AliveInv
  <2>2. CASE jobs[s][h] = Null
    <3>1. /\ ds' = [ds EXCEPT ![r] = r] /\ jobs' = [jobs EXCEPT ![s][h] = r]
          /\ pc' = [pc EXCEPT ![r] = "await", ![Pull(r)] = "pullMigration"]
          /\ UNCHANGED <<ret, done, locks>>
      BY <1>12, <2>2 DEF CreateJob
    <3>2. \A g \in Gets : Pull(g) \in Procs /\ Pull(g) \notin Gets /\ Pull(g) \in Pulls
                          /\ Migration(g) \in Procs /\ Migration(g) \notin Gets /\ Migration(g) # Pull(r)
                          /\ g \in Procs /\ ds[g] \in Gets /\ (Pull(g) = Pull(r) => g = r)
      BY <1>s, Processes, Kinds
    <3>3. \A q \in Procs : pc'[q] = IF q = Pull(r) THEN "pullMigration" ELSE IF q = r THEN "await" ELSE pc[q]
      BY <1>0, <3>1, <3>2 DEF TypeInv, Control
    <3>4. \A t \in Servers, k \in NarInfos : jobs'[t][k] = IF t = s /\ k = h THEN r ELSE jobs[t][k]
      BY <1>0, <1>s, <3>1
    <3>5. \A g \in Gets : ds'[g] = IF g = r THEN r ELSE ds[g]
      BY <1>s, <3>1
    <3>6. Active("pullMigration")
      BY DEF Active
    <3>7. \A g \in Gets : ServerOf[g] \in Servers /\ HashOf[g] \in NarInfos
      BY Processes DEF Requests
    <3>8. JobInv'
      <4> SUFFICES ASSUME NEW t \in Servers, NEW k \in NarInfos, jobs'[t][k] # Null
                   PROVE  /\ Active(pc'[Pull(jobs'[t][k])])
                          /\ ServerOf[jobs'[t][k]] = t /\ HashOf[jobs'[t][k]] = k
        BY DEF JobInv
      <4>1. CASE t = s /\ k = h
        BY <1>0, <3>2, <3>3, <3>4, <3>6, <4>1
      <4>2. CASE ~(t = s /\ k = h)
        <5>1. jobs'[t][k] = jobs[t][k] /\ jobs[t][k] \in Gets
          BY <1>s, <3>4, <4>2
        <5>2. Active(pc[Pull(jobs[t][k])]) /\ ServerOf[jobs[t][k]] = t /\ HashOf[jobs[t][k]] = k
          BY <5>1, <1>s DEF AliveInv, JobInv
        <5> QED
          BY <3>2, <3>3, <3>6, <5>1, <5>2
      <4> QED
        BY <4>1, <4>2
    <3>9. WaitInv'
      <4> SUFFICES ASSUME NEW g \in Gets
                   PROVE  /\ ServerOf[ds'[g]] = ServerOf[g] /\ HashOf[ds'[g]] = HashOf[g]
                          /\ Active(pc'[Pull(g)]) => jobs'[ServerOf[g]][HashOf[g]] = g
                          /\ pc'[g] \in Waits => done'[ds'[g]] \/ Active(pc'[Pull(ds'[g])])
                          /\ pc'[Migration(g)] # "idle" => pc'[g] \in Final
        BY DEF WaitInv
      <4>1. CASE g = r
        <5>1. pc'[Pull(r)] = "pullMigration" /\ ds'[r] = r /\ jobs'[s][h] = r
          BY <1>0, <3>2, <3>3, <3>4, <3>5
        <5>2. pc'[Migration(r)] = pc[Migration(r)] /\ pc[Migration(r)] = "idle"
          BY <2>0, <3>2, <3>3 DEF AliveInv, WaitInv
        <5> QED
          BY <3>6, <4>1, <5>1, <5>2
      <4>2. CASE g # r
        <5>1. Active(pc'[Pull(g)]) => jobs'[ServerOf[g]][HashOf[g]] = g
          BY <1>0, <1>s, <2>2, <3>2, <3>3, <3>4, <3>7, <4>2 DEF AliveInv, WaitInv
        <5>2. pc'[g] \in Waits => done'[ds'[g]] \/ Active(pc'[Pull(ds'[g])])
          <6>1. ds'[g] = ds[g] /\ ds[g] \in Gets /\ pc'[g] = pc[g] /\ done' = done
            BY <3>1, <3>2, <3>3, <3>5, <4>2
          <6>2. pc'[Pull(ds[g])] \in {pc[Pull(ds[g])], "pullMigration"}
            BY <3>2, <3>3, <6>1
          <6> QED
            BY <3>6, <6>1, <6>2 DEF AliveInv, WaitInv
        <5> QED
          BY <3>2, <3>3, <3>5, <4>2, <5>1, <5>2 DEF AliveInv, WaitInv
      <4> QED
        BY <4>1, <4>2
    <3>10. LockInv'
      <4>1. \A k \in NarInfos :
              /\ migrationLock[k] # Null => migrationLock[k] \in Procs /\ migrationLock[k] \notin Gets /\ migrationLock[k] \notin Pulls
              /\ putLock[k] # Null => putLock[k] \in Procs /\ putLock[k] \notin Gets /\ putLock[k] \notin Pulls
              /\ jobLock[k] # Null => jobLock[k] \in Procs /\ jobLock[k] \notin Pulls
        BY Kinds DEF TypeInv, SyncInv
      <4>2. \A k \in NarInfos :
              /\ migrationLock[k] # Null => pc'[migrationLock[k]] = pc[migrationLock[k]]
              /\ putLock[k] # Null => pc'[putLock[k]] = pc[putLock[k]]
              /\ jobLock[k] # Null => pc'[jobLock[k]] = IF jobLock[k] = r THEN "await" ELSE pc[jobLock[k]]
        BY <1>0, <3>2, <3>3, <4>1
      <4>3. \A k \in NarInfos : jobLock[k] # Null => Holding(pc'[jobLock[k]], ret[jobLock[k]])
        BY <4>2 DEF AliveInv, LockInv
      <4>4. UNCHANGED <<jobLock, migrationLock, putLock, ret>>
        BY <3>1
      <4>5. \A k \in NarInfos :
              /\ migrationLock[k] # Null => Hash(migrationLock[k]) = k /\ pc[migrationLock[k]] \in Locked
              /\ putLock[k] # Null => Hash(putLock[k]) = k /\ pc[putLock[k]] \in Writing
        BY DEF AliveInv, LockInv
      <4> HIDE DEF Holding
      <4> QED
        BY <4>2, <4>3, <4>4, <4>5 DEF LockInv, Hash, RequestOf
    <3> QED
      BY <3>8, <3>9, <3>10 DEF AliveInv
  <2> QED
    BY <2>1, <2>2
<1>13. CASE LegacyFound(r) \/ LegacyFails(r)
  <2>1. CASE Goto(r, "failed") /\ LegacyFails(r)
    BY <1>a, <2>1 DEF LegacyFails
  <2>2. CASE \E answer \in {"found", "failed"} : LegacyAnswered(r, answer)
    <3> PICK answer \in {"found", "failed"} : LegacyAnswered(r, answer)
      BY <2>2
    <3> DEFINE m == IF HashOf[r] \in GetMigratedNarInfoHashes(db) THEN pc[Migration(r)] ELSE "trylock"
               c == IF conf.cdc /\ HashOf[r] \in DOMAIN db.narinfos THEN "trylock" ELSE pc[ToChunks(r)]
    <3>0. /\ Migration(r) \in Procs /\ Migration(r) # r
          /\ ToChunks(r) \in Procs /\ ToChunks(r) # r /\ ToChunks(r) # Migration(r)
      BY Processes, Kinds
    <3>1. pc' = [pc EXCEPT ![r] = answer, ![Migration(r)] = m, ![ToChunks(r)] = c]
      BY <1>0, <3>0 DEF LegacyAnswered, TypeInv, Control
    <3>2. m \in {pc[Migration(r)], "trylock"} /\ answer \in Final /\ ret' = [ret EXCEPT ![r] = "none"]
      BY DEF LegacyAnswered
    <3>3. pc[r] = "legacyRow" /\ Still
      BY <1>13 DEF LegacyFound, LegacyFails
    <3> HIDE DEF m, c
    <3> QED
      BY <3>1, <3>2, <3>3, AnswerAlive
  <2> QED
    BY <1>13, <2>1, <2>2 DEF LegacyFound, LegacyFails
<1>14. CASE Hit(r)
  <2> DEFINE c == IF conf.cdc /\ url[r][2] # "none" THEN "trylock" ELSE pc[ToChunks(r)]
  <2>0. /\ Migration(r) \in Procs /\ Migration(r) # r
        /\ ToChunks(r) \in Procs /\ ToChunks(r) # r /\ ToChunks(r) # Migration(r)
    BY Processes, Kinds
  <2>1. pc' = [pc EXCEPT ![r] = "found", ![Migration(r)] = pc[Migration(r)], ![ToChunks(r)] = c]
    BY <1>0, <1>14, <2>0 DEF Hit, TypeInv, Control
  <2>2. pc[r] = "hit" /\ Still /\ ret' = [ret EXCEPT ![r] = "none"] /\ "found" \in Final
    BY <1>14 DEF Hit
  <2> HIDE DEF c
  <2> QED
    BY <2>1, <2>2, AnswerAlive
<1>15. CASE WaitFails(r)
  BY <1>15, <1>a DEF WaitFails
<1> QED
  BY <1>1, <1>2, <1>3, <1>4, <1>5, <1>6, <1>7, <1>8, <1>9, <1>10, <1>11, <1>12, <1>13, <1>14, <1>15 DEF GetStep

\* by a pull, which is listed until it has ended;
LEMMA PullAlive ==
    ASSUME TypeInv, AliveInv, NEW d \in Gets, PullStep(d)
    PROVE  AliveInv'
<1> DEFINE p == Pull(d)
<1>0. /\ p \in Procs /\ p \in Pulls /\ Local(p, pc[p], ret[p], url[p])
      /\ HashOf[d] \in NarInfos /\ ServerOf[d] \in Servers
  BY Processes DEF TypeInv, Control, Requests
<1> DEFINE Still == UNCHANGED <<ds, jobs, done, jobLock, migrationLock, putLock>>
<1>a. ASSUME NEW state, Goto(p, state), Active(pc[p]), Active(state), Still
      PROVE  AliveInv'
  BY <1>0, <1>a, Kinds, AliveGoto DEF Edge
<1> USE DEF At, dsVars, locks, Active, Final
<1>1. CASE WaitForMigration(p, "pullMigration")
  BY <1>1, <1>a DEF WaitForMigration
<1>2. CASE WaitForPut(p)
  <2>1. Call(p, "db", "pull") /\ Edge(p, "db", "pull")
    BY <1>0, <1>2, Kinds DEF WaitForPut, Edge
  <2> QED
    BY <1>0, <1>2, <2>1, AliveCall DEF WaitForPut
<1>3. CASE GetNarInfoFromDatabase(p)
  BY <1>0, <1>3, DatabaseAlive
<1>4. CASE PullWaitFails(d) \/ FetchNarInfo(d) \/ PrePullNar(d) \/ PrePullNarFails(d) \/ SignNarInfo(d) \/ SignFails(d)
  BY <1>4, <1>a DEF PullWaitFails, FetchNarInfo, PrePullNar, PrePullNarFails, SignNarInfo, SignFails, PullFails
<1>5. CASE StorePulled(d) \/ StorePulledFails(d)
  BY <1>5, <1>a DEF StorePulled, StorePulledFails, PullFails
<1>6. CASE PullCloses(d)
  <2>0. /\ pc[p] = "close" /\ jobs' = [jobs EXCEPT ![ServerOf[d]][HashOf[d]] = Null]
        /\ done' = [done EXCEPT ![d] = TRUE] /\ Goto(p, "ended") /\ UNCHANGED <<ds, locks>>
    BY <1>6 DEF PullCloses
  <2>1. \A q \in Procs : pc'[q] = IF q = p THEN "ended" ELSE pc[q]
    BY <1>0, <2>0, GotoMoves, Moved DEF TypeInv
  <2>2. \A s \in Servers, h \in NarInfos :
          jobs'[s][h] = IF s = ServerOf[d] /\ h = HashOf[d] THEN Null ELSE jobs[s][h]
    BY <1>0, <2>0 DEF TypeInv, SyncInv
  <2>3. done'[d] = TRUE /\ \A g \in Gets : g # d => done'[g] = done[g]
    BY <2>0 DEF TypeInv, SyncInv
  <2>4. \A g \in Gets : /\ Pull(g) \in Procs /\ (Pull(g) = p => g = d) /\ g \in Procs /\ g # p
                        /\ Migration(g) \in Procs /\ Migration(g) # p /\ ds[g] \in Gets
                        /\ HashOf[g] \in NarInfos /\ ServerOf[g] \in Servers
    BY Processes, Kinds DEF TypeInv, SyncInv, Requests
  <2>5. jobs[ServerOf[d]][HashOf[d]] = d
    BY <2>0 DEF AliveInv, WaitInv
  <2>6. WaitInv'
    <3> SUFFICES ASSUME NEW g \in Gets
                 PROVE  /\ ServerOf[ds'[g]] = ServerOf[g] /\ HashOf[ds'[g]] = HashOf[g]
                        /\ Active(pc'[Pull(g)]) => jobs'[ServerOf[g]][HashOf[g]] = g
                        /\ pc'[g] \in Waits => done'[ds'[g]] \/ Active(pc'[Pull(ds'[g])])
                        /\ pc'[Migration(g)] # "idle" => pc'[g] \in Final
      BY DEF WaitInv
    <3>1. pc'[g] = pc[g] /\ pc'[Migration(g)] = pc[Migration(g)] /\ ds'[g] = ds[g]
      BY <2>0, <2>1, <2>4
    <3>2. Active(pc'[Pull(g)]) => jobs'[ServerOf[g]][HashOf[g]] = g
      <4>1. CASE g = d
        BY <2>1, <2>4, <4>1
      <4>2. CASE g # d
        BY <2>1, <2>2, <2>4, <2>5, <4>2 DEF AliveInv, WaitInv
      <4> QED
        BY <4>1, <4>2
    <3>3. pc[g] \in Waits => done'[ds[g]] \/ Active(pc'[Pull(ds[g])])
      <4>1. CASE ds[g] = d
        BY <2>3, <4>1
      <4>2. CASE ds[g] # d
        <5>1. done'[ds[g]] = done[ds[g]] /\ pc'[Pull(ds[g])] = pc[Pull(ds[g])]
          BY <2>1, <2>3, <2>4, <4>2
        <5> QED
          BY <5>1 DEF AliveInv, WaitInv
      <4> QED
        BY <4>1, <4>2
    <3> QED
      BY <3>1, <3>2, <3>3 DEF AliveInv, WaitInv
  <2>7. JobInv'
    <3> SUFFICES ASSUME NEW s \in Servers, NEW h \in NarInfos, jobs'[s][h] # Null
                 PROVE  /\ Active(pc'[Pull(jobs'[s][h])])
                        /\ ServerOf[jobs'[s][h]] = s /\ HashOf[jobs'[s][h]] = h
      BY DEF JobInv
    <3>1. jobs'[s][h] = jobs[s][h] /\ jobs[s][h] \in Gets /\ ~(s = ServerOf[d] /\ h = HashOf[d])
      BY <2>2 DEF TypeInv, SyncInv
    <3>2. /\ Active(pc[Pull(jobs[s][h])])
          /\ ServerOf[jobs[s][h]] = s /\ HashOf[jobs[s][h]] = h
      BY <3>1 DEF AliveInv, JobInv
    <3>3. jobs[s][h] # d
      BY <3>1, <3>2
    <3>4. pc'[Pull(jobs[s][h])] = pc[Pull(jobs[s][h])]
      BY <2>1, <2>4, <3>1, <3>3
    <3> QED
      BY <3>1, <3>2, <3>4
  <2>8. LockInv'
    <3>1. Moves(p, "ended", Unless("ended", ret[p]), UnlessUrl("ended", url[p]))
      BY <1>0, <2>0, GotoMoves DEF TypeInv
    <3> QED
      BY <1>0, <2>0, <3>1, Kinds, LockMoves DEF AliveInv
  <2> QED
    BY <2>6, <2>7, <2>8 DEF AliveInv
<1> QED
  BY <1>1, <1>2, <1>3, <1>4, <1>5, <1>6 DEF PullStep

\* by a migration;
LEMMA MigrateAlive ==
    ASSUME TypeInv, AliveInv, NEW r \in Gets, MigrateStep(r)
    PROVE  AliveInv'
<1> DEFINE p == Migration(r)
<1>0. p \in Procs /\ p \in Migrations /\ HashOf[r] \in NarInfos /\ Hash(p) = HashOf[r]
  BY Processes DEF Requests
<1>a. ASSUME NEW state \in Locked, Goto(p, state), pc[p] # "idle",
             UNCHANGED <<ds, jobs, done, jobLock, migrationLock, putLock>>
      PROVE  AliveInv'
  BY <1>0, <1>a, Kinds, AliveGoto DEF Edge, Locked
<1> USE DEF At, dsVars, locks, Locked
<1>1. CASE MigrateCheck(r) \/ MigrateUnknown(r) \/ MigrateStore(r) \/ MigrateFails(r) \/ MigrateDelete(r)
  BY <1>1, <1>a DEF MigrateCheck, MigrateUnknown, MigrateStore, MigrateFails, MigrateDelete
<1>2. ASSUME NEW state, Goto(p, state), pc[p] # "idle", UNCHANGED <<ds, jobs, done>>
      PROVE  WaitInv' /\ JobInv' /\ (\A q \in Procs : pc'[q] = IF q = p THEN state ELSE pc[q])
  <2>1. \A q \in Procs : pc'[q] = IF q = p THEN state ELSE pc[q]
    BY <1>0, <1>2, GotoMoves, Moved DEF TypeInv
  <2>2. \A g \in Gets : /\ Pull(g) \in Procs /\ Pull(g) # p /\ g \in Procs /\ g # p /\ ds[g] \in Gets
                        /\ Migration(g) \in Procs
    BY Processes, Kinds DEF TypeInv, SyncInv
  <2>3. WaitInv'
    BY <1>2, <2>1, <2>2 DEF AliveInv, WaitInv
  <2>4. JobInv'
    BY <1>2, <2>1, <2>2 DEF AliveInv, JobInv, TypeInv, SyncInv
  <2> QED
    BY <2>1, <2>3, <2>4
<1>3. CASE MigrateLock(r)
  <2>1. CASE migrationLock[HashOf[r]] # Null
    <3>1. Edge(p, "ended", ret[p])
      BY <1>0, <1>3, Kinds DEF MigrateLock, Edge
    <3> QED
      BY <1>0, <1>3, <2>1, <3>1, AliveGoto DEF MigrateLock
  <2>2. CASE migrationLock[HashOf[r]] = Null
    <3>1. /\ migrationLock' = [migrationLock EXCEPT ![HashOf[r]] = p]
          /\ Goto(p, "check") /\ pc[p] = "trylock" /\ UNCHANGED <<ds, jobs, done, jobLock, putLock>>
      BY <1>3, <2>2 DEF MigrateLock
    <3>2. WaitInv' /\ JobInv' /\ (\A q \in Procs : pc'[q] = IF q = p THEN "check" ELSE pc[q])
      BY <1>2, <3>1
    <3>3. ret' = ret
      BY <3>1 DEF Goto, Final
    <3>4. \A h \in NarInfos : migrationLock'[h] = IF h = HashOf[r] THEN p ELSE migrationLock[h]
      BY <1>0, <3>1 DEF TypeInv, SyncInv
    <3>5. \A h \in NarInfos :
            /\ migrationLock[h] # Null => migrationLock[h] \in Procs
            /\ putLock[h] # Null => putLock[h] # p /\ putLock[h] \in Procs
            /\ jobLock[h] # Null => jobLock[h] # p /\ jobLock[h] \in Procs
      BY <1>0, Kinds DEF TypeInv, SyncInv
    <3>6. \A h \in NarInfos : migrationLock'[h] # Null => Hash(migrationLock'[h]) = h /\ pc'[migrationLock'[h]] \in Locked
      BY <1>0, <3>2, <3>4, <3>5 DEF AliveInv, LockInv
    <3>7. \A h \in NarInfos : putLock'[h] # Null => Hash(putLock'[h]) = h /\ pc'[putLock'[h]] \in Writing
      BY <3>1, <3>2, <3>5 DEF AliveInv, LockInv
    <3>8. \A h \in NarInfos : jobLock'[h] # Null => Holding(pc'[jobLock'[h]], ret'[jobLock'[h]])
      BY <3>1, <3>2, <3>3, <3>5 DEF AliveInv, LockInv
    <3> QED
      BY <3>2, <3>6, <3>7, <3>8 DEF AliveInv, LockInv, Hash, RequestOf
  <2> QED
    BY <2>1, <2>2
<1>4. CASE MigrateUnlock(r)
  <2>1. /\ migrationLock' = [migrationLock EXCEPT ![HashOf[r]] = Null]
        /\ Goto(p, "ended") /\ pc[p] = "release" /\ UNCHANGED <<ds, jobs, done, jobLock, putLock>>
    BY <1>4 DEF MigrateUnlock
  <2>2. WaitInv' /\ JobInv'
    BY <1>2, <2>1
  <2>3. \A h \in NarInfos : migrationLock'[h] = IF h = HashOf[r] THEN Null ELSE migrationLock[h]
    BY <1>0, <2>1 DEF TypeInv, SyncInv
  <2>4. \A h \in NarInfos : migrationLock'[h] # p
    BY <1>0, <2>3, NarInfoAssumption DEF AliveInv, LockInv
  <2>5. Moves(p, "ended", Unless("ended", ret[p]), UnlessUrl("ended", url[p]))
    BY <1>0, <2>1, GotoMoves DEF TypeInv
  <2>6. LockInv'
    BY <1>0, <2>1, <2>3, <2>4, <2>5, Kinds, LockMoves DEF AliveInv
  <2> QED
    BY <2>2, <2>6 DEF AliveInv
<1>5. CASE MigrateLockFails(r)
  <2>1. Edge(p, "ended", ret[p])
    BY <1>0, <1>5, Kinds DEF MigrateLockFails, Edge
  <2> QED
    BY <1>0, <1>5, <2>1, AliveGoto DEF MigrateLockFails
<1> QED
  BY <1>1, <1>3, <1>4, <1>5 DEF MigrateStep

\* by the migration of a NAR to chunks, which nobody waits for;
LEMMA ChunksAlive ==
    ASSUME TypeInv, AliveInv, NEW r \in Gets, ChunksStep(r) \/ ChunksDeleteFile(r)
    PROVE  AliveInv'
<1> DEFINE p == ToChunks(r)
<1>1. ASSUME NEW state, Goto(p, state), UNCHANGED <<dsVars, locks>>
      PROVE  AliveInv'
  <2>1. p \in Procs /\ p \in Chunkings
    BY Processes
  <2>2. Edge(p, state, ret[p])
    BY <2>1, Kinds DEF Edge
  <2> QED
    BY <1>1, <2>1, <2>2, AliveGoto DEF dsVars, locks
<1>2. CASE ChunksLock(r) \/ ChunksOpen(r) \/ ChunksComplete(r) \/ ChunksRelink(r) \/ ChunksClean(r)
  BY <1>1, <1>2 DEF ChunksLock, ChunksOpen, ChunksComplete, ChunksRelink, ChunksClean
<1>3. CASE ChunksBegin(r) \/ ChunksFail(r) \/ ChunksGoOn(r) \/ ChunksDeleteFile(r)
  BY <1>1, <1>3 DEF ChunksBegin, ChunksFail, ChunksGoOn, ChunksDeleteFile
<1> QED
  BY <1>2, <1>3 DEF ChunksStep

\* by uploads and deletions;
LEMMA ClientAlive ==
    ASSUME TypeInv, AliveInv,
           \/ \E p \in Puts : PutNarInfo(p) \/ PutLockFails(p) \/ PutStep(p)
           \/ \E p \in Uploads : PutNar(p) \/ UploadStep(p)
           \/ \E p \in Deletes : DeleteNarInfo(p) \/ DeleteLegacy(p)
    PROVE  AliveInv'
<1>a. ASSUME NEW p \in Uploads \cup Deletes \cup Puts, NEW state, Goto(p, state),
             p \in Puts => (pc[p] \in Writing => state \in Writing),
             UNCHANGED <<ds, jobs, done, jobLock, migrationLock, putLock>>
      PROVE  AliveInv'
  <2>1. p \in Procs /\ Edge(p, state, ret[p])
    BY <1>a, Kinds DEF Edge
  <2> QED
    BY <1>a, <2>1, AliveGoto
<1> USE DEF At, dsVars, locks, Writing
<1>b. ASSUME NEW p \in Uploads \cup Puts, FixStep(p)
      PROVE  AliveInv'
  <2>1. CASE Goto(p, "ended")
    BY <1>a, <1>b, <2>1 DEF FixStep, CheckNarInfo, FixNarInfo
  <2>2. CASE ~Goto(p, "ended")
    <3>1. p \in Procs /\ Edge(p, "fix", ret[p])
      BY <1>b, <2>2, Kinds DEF Edge, FixStep, CheckNarInfo, FixNarInfo
    <3>2. Moves(p, "fix", ret[p], db.narinfos[Hash(p)].url)
      BY <1>b, <2>2, <3>1 DEF FixStep, CheckNarInfo, FixNarInfo, Moves, TypeInv, Control
    <3> QED
      BY <1>b, <3>1, <3>2, AliveMoves DEF FixStep, CheckNarInfo, FixNarInfo
  <2> QED
    BY <2>1, <2>2
<1>1. ASSUME NEW p \in Puts, PutNarInfo(p) \/ PutLockFails(p) \/ PutStep(p)
      PROVE  AliveInv'
  <2>0. p \in Procs /\ HashOf[p] \in NarInfos /\ Hash(p) = HashOf[p]
    BY Kinds, Processes DEF Requests
  <2>1. CASE FixStep(p)
    BY <1>b, <2>1
  <2>2. CASE PutStore(p) \/ PutLockFails(p)
    BY <1>a, <2>2 DEF PutStore, PutLockFails
  <2>3. CASE PutNarInfo(p)
    <3>1. /\ putLock' = [putLock EXCEPT ![HashOf[p]] = p]
          /\ Goto(p, "putSave") /\ UNCHANGED <<ds, jobs, done, jobLock, migrationLock>> /\ pc[p] = "idle"
      BY <2>3 DEF PutNarInfo
    <3>2. Moves(p, "putSave", ret[p], url[p]) /\ ret' = ret
      BY <2>0, <3>1, GotoMoves DEF TypeInv, Unless, UnlessUrl, Final, Goto
    <3>3. WaitInv' /\ JobInv'
      <4>1. Edge(p, "putSave", ret[p])
        BY Kinds DEF Edge
      <4> QED
        BY <2>0, <3>1, <3>2, <4>1, WaitMoves, JobMoves DEF AliveInv
    <3>4. \A q \in Procs : pc'[q] = IF q = p THEN "putSave" ELSE pc[q]
      BY <2>0, <3>2, Moved DEF TypeInv
    <3>5. \A h \in NarInfos : putLock'[h] = IF h = HashOf[p] THEN p ELSE putLock[h]
      BY <2>0, <3>1 DEF TypeInv, SyncInv
    <3>6. \A h \in NarInfos :
            /\ putLock[h] # Null => putLock[h] \in Procs
            /\ migrationLock[h] # Null => migrationLock[h] # p /\ migrationLock[h] \in Procs
            /\ jobLock[h] # Null => jobLock[h] # p /\ jobLock[h] \in Procs
      BY Kinds DEF TypeInv, SyncInv
    <3>7. \A h \in NarInfos : putLock'[h] # Null => Hash(putLock'[h]) = h /\ pc'[putLock'[h]] \in Writing
      BY <2>0, <3>4, <3>5, <3>6 DEF AliveInv, LockInv
    <3>8. \A h \in NarInfos : migrationLock'[h] # Null => Hash(migrationLock'[h]) = h /\ pc'[migrationLock'[h]] \in Locked
      BY <3>1, <3>4, <3>6 DEF AliveInv, LockInv
    <3>9. \A h \in NarInfos : jobLock'[h] # Null => Holding(pc'[jobLock'[h]], ret'[jobLock'[h]])
      BY <3>1, <3>2, <3>4, <3>6 DEF AliveInv, LockInv
    <3> QED
      BY <3>3, <3>7, <3>8, <3>9 DEF AliveInv, LockInv, Hash, RequestOf
  <2>4. CASE PutFails(p) \/ PutDeletesLegacy(p)
    <3> PICK state \in {"failed", "check"} : Goto(p, state)
      BY <2>4 DEF PutFails, PutDeletesLegacy
    <3>1. /\ putLock' = [putLock EXCEPT ![HashOf[p]] = Null]
          /\ UNCHANGED <<ds, jobs, done, jobLock, migrationLock>>
      BY <2>4 DEF PutFails, PutDeletesLegacy
    <3>2. Moves(p, state, Unless(state, ret[p]), UnlessUrl(state, url[p]))
      BY <2>0, GotoMoves DEF TypeInv
    <3>3. \A h \in NarInfos : putLock'[h] = IF h = HashOf[p] THEN Null ELSE putLock[h]
      BY <2>0, <3>1 DEF TypeInv, SyncInv
    <3>4. \A h \in NarInfos : putLock'[h] # p
      BY <2>0, <3>3, NarInfoAssumption DEF AliveInv, LockInv
    <3>5. LockInv'
      BY <2>0, <3>1, <3>2, <3>3, <3>4, Kinds, LockMoves DEF AliveInv
    <3>6. \A q \in Procs : pc'[q] = IF q = p THEN state ELSE pc[q]
      BY <2>0, <3>2, Moved DEF TypeInv
    <3>7. \A g \in Gets : /\ Pull(g) \in Procs /\ Pull(g) # p /\ g \in Procs /\ g # p /\ ds[g] \in Gets
                          /\ Migration(g) \in Procs /\ Migration(g) # p
      BY Processes, Kinds DEF TypeInv, SyncInv
    <3>8. WaitInv'
      BY <3>1, <3>6, <3>7 DEF AliveInv, WaitInv
    <3>9. JobInv'
      BY <3>1, <3>6, <3>7 DEF AliveInv, JobInv, TypeInv, SyncInv
    <3> QED
      BY <3>5, <3>8, <3>9 DEF AliveInv
  <2> QED
    BY <1>1, <2>1, <2>2, <2>3, <2>4 DEF PutStep
<1>2. ASSUME NEW p \in Uploads, PutNar(p) \/ UploadStep(p)
      PROVE  AliveInv'
  BY <1>2, <1>a, <1>b, Kinds DEF PutNar, UploadStep, PutNarRecord
<1>3. ASSUME NEW p \in Deletes, DeleteNarInfo(p) \/ DeleteLegacy(p)
      PROVE  AliveInv'
  BY <1>3, <1>a, Kinds DEF DeleteNarInfo, DeleteLegacy
<1> QED
  BY <1>1, <1>2, <1>3

\* by a crash, which takes with it whoever waits for its processes.
LEMMA CrashAlive ==
    ASSUME TypeInv, AliveInv, NEW s \in Servers, Crash(s)
    PROVE  AliveInv'
<1>1. \A p \in Procs : pc'[p] = IF Server(p) = s /\ Active(pc[p]) THEN "crashed" ELSE pc[p]
  BY DEF Crash, Dead, Active
<1>2. /\ \A t \in Servers, h \in NarInfos : jobs'[t][h] = IF t = s THEN Null ELSE jobs[t][h]
      /\ UNCHANGED <<ds, done, ret>>
  BY DEF Crash, TypeInv, SyncInv
<1>3. /\ \A h \in NarInfos : jobLock'[h] = IF jobLock[h] \in Procs /\ Server(jobLock[h]) = s THEN Null ELSE jobLock[h]
      /\ \A h \in NarInfos : migrationLock'[h] =
            IF migrationLock[h] \in Procs /\ Server(migrationLock[h]) = s THEN Null ELSE migrationLock[h]
      /\ \A h \in NarInfos : putLock'[h] = IF putLock[h] \in Procs /\ Server(putLock[h]) = s THEN Null ELSE putLock[h]
  BY DEF Crash, Dead, TypeInv, SyncInv
<1>4. \A g \in Gets : /\ Pull(g) \in Procs /\ g \in Procs /\ Migration(g) \in Procs /\ ds[g] \in Gets
                      /\ Server(g) = ServerOf[g] /\ Server(Pull(g)) = ServerOf[g]
                      /\ Server(Migration(g)) = ServerOf[g]
                      /\ HashOf[g] \in NarInfos /\ ServerOf[g] \in Servers
  BY Processes, Kinds DEF TypeInv, SyncInv, Requests
<1>5. "crashed" \notin Waits /\ ~Active("crashed") /\ "crashed" \in Final
  BY DEF Waits, Active, Final
<1>6. WaitInv'
  <2> SUFFICES ASSUME NEW g \in Gets
               PROVE  /\ ServerOf[ds'[g]] = ServerOf[g] /\ HashOf[ds'[g]] = HashOf[g]
                      /\ Active(pc'[Pull(g)]) => jobs'[ServerOf[g]][HashOf[g]] = g
                      /\ pc'[g] \in Waits => done'[ds'[g]] \/ Active(pc'[Pull(ds'[g])])
                      /\ pc'[Migration(g)] # "idle" => pc'[g] \in Final
    BY DEF WaitInv
  <2>1. ServerOf[ds'[g]] = ServerOf[g] /\ HashOf[ds'[g]] = HashOf[g]
    BY <1>2 DEF AliveInv, WaitInv
  <2>2. Active(pc'[Pull(g)]) => jobs'[ServerOf[g]][HashOf[g]] = g
    BY <1>1, <1>2, <1>4, <1>5 DEF AliveInv, WaitInv
  <2>3. pc'[g] \in Waits => done'[ds'[g]] \/ Active(pc'[Pull(ds'[g])])
    <3> SUFFICES ASSUME pc'[g] \in Waits PROVE done'[ds'[g]] \/ Active(pc'[Pull(ds'[g])])
      OBVIOUS
    <3>1. Active(pc'[g])
      BY DEF Active, Final, Waits
    <3>2. pc'[g] = pc[g] /\ Server(g) # s
      BY <1>1, <1>4, <1>5, <3>1
    <3>3. ServerOf[ds[g]] # s
      BY <1>4, <3>2 DEF AliveInv, WaitInv
    <3>4. pc'[Pull(ds[g])] = pc[Pull(ds[g])]
      BY <1>1, <1>4, <3>3
    <3> QED
      BY <1>2, <3>2, <3>4 DEF AliveInv, WaitInv
  <2>4. pc'[Migration(g)] # "idle" => pc'[g] \in Final
    BY <1>1, <1>4, <1>5 DEF AliveInv, WaitInv, Active
  <2> QED
    BY <2>1, <2>2, <2>3, <2>4
<1>7. JobInv'
  <2> SUFFICES ASSUME NEW t \in Servers, NEW h \in NarInfos, jobs'[t][h] # Null
               PROVE  /\ Active(pc'[Pull(jobs'[t][h])])
                      /\ ServerOf[jobs'[t][h]] = t /\ HashOf[jobs'[t][h]] = h
    BY DEF JobInv
  <2>1. t # s /\ jobs'[t][h] = jobs[t][h] /\ jobs[t][h] \in Gets
    BY <1>2 DEF TypeInv, SyncInv
  <2>2. /\ Active(pc[Pull(jobs[t][h])])
        /\ ServerOf[jobs[t][h]] = t /\ HashOf[jobs[t][h]] = h
    BY <2>1 DEF AliveInv, JobInv
  <2> QED
    BY <1>1, <1>4, <2>1, <2>2
<1>8. LockInv'
  <2>1. \A h \in NarInfos :
          /\ migrationLock[h] # Null => migrationLock[h] \in Procs
          /\ putLock[h] # Null => putLock[h] \in Procs
          /\ jobLock[h] # Null => jobLock[h] \in Procs
    BY Kinds DEF TypeInv, SyncInv
  <2>2. \A h \in NarInfos : migrationLock'[h] # Null => Hash(migrationLock'[h]) = h /\ pc'[migrationLock'[h]] \in Locked
    BY <1>1, <1>3, <2>1 DEF AliveInv, LockInv
  <2>3. \A h \in NarInfos : putLock'[h] # Null => Hash(putLock'[h]) = h /\ pc'[putLock'[h]] \in Writing
    BY <1>1, <1>3, <2>1 DEF AliveInv, LockInv
  <2>4. \A h \in NarInfos : jobLock'[h] # Null => Holding(pc'[jobLock'[h]], ret'[jobLock'[h]])
    BY <1>1, <1>2, <1>3, <2>1 DEF AliveInv, LockInv
  <2> QED
    BY <2>2, <2>3, <2>4 DEF LockInv, Hash, RequestOf
<1> QED
  BY <1>6, <1>7, <1>8 DEF AliveInv

\* Every step keeps AliveInv.
LEMMA AliveStep == TypeInv /\ AliveInv /\ [Next]_vars => AliveInv'
<1> SUFFICES ASSUME TypeInv, AliveInv, [Next]_vars PROVE AliveInv'
  OBVIOUS
<1>1. ASSUME NEW r \in Gets, GetNarInfo(r) \/ GetStep(r) \/ ClientLeaves(r)
      PROVE  AliveInv'
  BY <1>1, GetAlive
<1>2. ASSUME NEW r \in Gets, PullStep(r)
      PROVE  AliveInv'
  BY <1>2, PullAlive
<1>3. ASSUME NEW r \in Gets, MigrateStep(r)
      PROVE  AliveInv'
  BY <1>3, MigrateAlive
<1>4. ASSUME \/ \E p \in Puts : PutNarInfo(p) \/ PutLockFails(p) \/ PutStep(p)
             \/ \E p \in Uploads : PutNar(p) \/ UploadStep(p)
             \/ \E p \in Deletes : DeleteNarInfo(p) \/ DeleteLegacy(p)
      PROVE  AliveInv'
  BY <1>4, ClientAlive
<1>5. CASE UNCHANGED <<control, dsVars, locks>>
  BY <1>5 DEF AliveInv, WaitInv, JobInv, LockInv, control, dsVars, locks, Hash, RequestOf
<1>6. ASSUME NEW s \in Servers, NEW n \in Nars, NarStep(s, n)
      PROVE  AliveInv'
  BY <1>5, <1>6 DEF NarStep, NarArrives, NarRecords, NarUnlocks, NarUnlists, NarFails
<1>7. ASSUME NEW s \in Servers, Crash(s)
      PROVE  AliveInv'
  BY <1>7, CrashAlive
<1>8. CASE UNCHANGED vars
  BY <1>5, <1>8 DEF vars
<1>9. ASSUME NEW r \in Gets, ChunksStep(r) \/ ChunksDeleteFile(r)
      PROVE  AliveInv'
  BY <1>9, ChunksAlive
<1> QED
  BY <1>1, <1>2, <1>3, <1>4, <1>9, <1>6, <1>7, <1>8, Steps

\* AliveInv holds at first.
LEMMA InitAlive == Init => AliveInv
<1> SUFFICES ASSUME Init PROVE AliveInv
  OBVIOUS
<1>1. \A p \in Procs : pc[p] = "idle"
  BY DEF Init
<1>2. WaitInv
  <2>1. \A r \in Gets : ds[r] = r /\ pc[r] = "idle" /\ pc[Pull(r)] = "idle" /\ pc[Migration(r)] = "idle"
    BY <1>1, Processes, Kinds DEF Init
  <2> QED
    BY <2>1 DEF WaitInv, Active, Waits
<1>3. JobInv
  BY DEF Init, JobInv
<1>4. LockInv
  BY DEF Init, LockInv
<1> QED
  BY <1>2, <1>3, <1>4 DEF AliveInv

\* A request that waits for a download finds it ended or running and listed as a job of
\* its server, and the holder of a lock of coordinateDownload, MigrateNarInfo or
\* PutNarInfo is on its way to let it go.
THEOREM NobodyWaitsForTheGone == Spec => []WaitedForIsAlive
<1>1. TypeInv /\ AliveInv => WaitedForIsAlive
  <2> SUFFICES ASSUME TypeInv, AliveInv PROVE WaitedForIsAlive
    OBVIOUS
  <2>1. ASSUME NEW r \in Gets, pc[r] \in Waits
        PROVE  done[ds[r]] \/ (Running(Pull(ds[r])) /\ jobs[ServerOf[ds[r]]][HashOf[ds[r]]] = ds[r])
    BY <2>1 DEF TypeInv, SyncInv, AliveInv, WaitInv, Active, Running
  <2>2. \A h \in NarInfos :
         /\ jobLock[h] # Null => pc[jobLock[h]] \notin {"lock", "waitDone", "joined"} /\ Running(jobLock[h])
         /\ migrationLock[h] # Null => Running(migrationLock[h])
         /\ putLock[h] # Null => pc[putLock[h]] \in {"putSave", "putLegacy"}
    BY DEF AliveInv, LockInv, Holding, Locked, Writing, Running, Final, Looks, Purges
  <2> QED
    BY <2>1, <2>2 DEF WaitedForIsAlive, Waits
<1>2. TypeInv /\ AliveInv /\ [Next]_vars => AliveInv'
  BY AliveStep
<1> QED
  BY <1>1, <1>2, InitAlive, TypesKept, PTL DEF Spec

-----------------------------------------------------------------------------
(* A kept narinfo stays and is found.                                      *)

\* From the world w to the world v, but for whole files.
Extends(w, v) ==
    /\ v.kept \subseteq w.kept
    /\ \A h \in v.kept : (h \in w.migrated => h \in v.migrated) /\ (h \in w.good => h \in v.good)
    /\ w.has \subseteq v.has /\ w.recorded \subseteq v.recorded /\ w.gone \subseteq v.gone
    /\ w.faulty \subseteq v.faulty
    /\ v.cdc = w.cdc /\ v.compression = w.compression /\ v.uploadOnly = w.uploadOnly

\* Nor do the files of kept narinfos go.
Grows(w, v) == Extends(w, v) /\ \A h \in v.kept : h \in w.whole => h \in v.whole

\* What a process has read stays true while the world grows,
LEMMA LawfulExtends ==
    ASSUME NEW p, NEW state, NEW return, NEW u, NEW w, NEW v,
           Lawful(p, state, return, u, w), Extends(w, v),
           p \in Gets /\ state \in {"legacy", "readLegacy", "legacyNar"} /\ Hash(p) \in v.kept =>
              (Hash(p) \in w.whole => Hash(p) \in v.whole)
    PROVE  Lawful(p, state, return, u, v)
<1>1. Hash(p) \in v.kept /\ p \in Gets => LawfulGet(p, state, return, v)
  BY DEF Lawful, LawfulGet, Extends
<1>2. Hash(p) \in v.kept => Hash(p) \in w.kept
  BY DEF Extends
<1> QED
  BY <1>1, <1>2 DEF Lawful, Extends

\* and no file goes.
LEMMA LawfulGrows ==
    ASSUME NEW p, NEW state, NEW return, NEW u, NEW w, NEW v,
           Lawful(p, state, return, u, w), Grows(w, v)
    PROVE  Lawful(p, state, return, u, v)
  BY LawfulExtends DEF Grows

\* The parts of the world.
LEMMA Worlds ==
    /\ World.kept = kept /\ World.migrated = GetMigratedNarInfoHashes(db)
    /\ World.good = {h \in NarInfos : h \in DOMAIN legacy => legacy[h] = "good"}
    /\ World.whole = {h \in NarInfos : NarFileUrl(NarOf[h]) \in narStore}
    /\ World.has = {u \in Urls : HasNarInStore(u) \/ Recorded(u)}
    /\ World.recorded = {u \in Urls : Recorded(u)}
    /\ World.gone = {u \in Urls : conf.cdc /\ u[2] # "none" /\ u \notin narStore}
    /\ World.faulty = {p \in Procs : MetError(p)}
    /\ World.cdc = conf.cdc /\ World.compression = conf.compression /\ World.uploadOnly = conf.uploadOnly
  BY DEF World

\* The same of the world after a step.
LEMMA NextWorlds ==
    /\ World'.kept = kept' /\ World'.migrated = GetMigratedNarInfoHashes(db')
    /\ World'.good = {h \in NarInfos : h \in DOMAIN legacy' => legacy'[h] = "good"}
    /\ World'.whole = {h \in NarInfos : NarFileUrl(NarOf[h])' \in narStore'}
    /\ World'.has = {u \in Urls : HasNarInStore(u)' \/ Recorded(u)'}
    /\ World'.recorded = {u \in Urls : Recorded(u)'}
    /\ World'.gone = {u \in Urls : conf'.cdc /\ u[2] # "none" /\ u \notin narStore'}
    /\ World'.faulty = {p \in Procs : MetError(p)'}
    /\ World'.cdc = conf'.cdc /\ World'.compression = conf'.compression /\ World'.uploadOnly = conf'.uploadOnly
  BY DEF World, GetMigratedNarInfoHashes

\* Whoever has met an error stays at fault, and so does who meets one now.
LEMMA FaultyGrows ==
    ASSUME TypeInv, Met
    PROVE  /\ World.faulty \subseteq World'.faulty
           /\ \A p \in Procs : \A f \in {"database", "lock"} : Fault(f, p) => p \in World'.faulty
<1>1. World.faulty \subseteq World'.faulty
  <2>1. Range(faults) \subseteq Range(faults')
    BY MetCounted DEF TypeInv, SyncInv
  <2> QED
    BY <2>1, Worlds, NextWorlds DEF MetError
<1>2. ASSUME NEW p \in Procs, NEW f \in {"database", "lock"}, Fault(f, p)
      PROVE  p \in World'.faulty
  <2>1. <<f, p>> \in Range(faults')
    BY <1>2, FaultCounted DEF TypeInv, SyncInv
  <2> QED
    BY <2>1, NextWorlds DEF MetError
<1> QED
  BY <1>1, <1>2

\* Who failed before stays at fault; who fails now has met an error, or its pull has.
LEMMA BlameMoves ==
    ASSUME TypeInv, Blame, kept' \subseteq kept, Met, UNCHANGED <<ds, err>>,
           NEW p \in Procs, NEW state, NEW return, NEW u, Moves(p, state, return, u),
           p \in Gets /\ HashOf[p] \in kept /\ state = "failed" =>
              p \in World'.faulty \/ Pull(ds[p]) \in World'.faulty
    PROVE  Blame'
<1>1. World.faulty \subseteq World'.faulty
  BY FaultyGrows
<1>2. \A q \in Procs : (q = p => pc'[q] = state) /\ (q # p => pc'[q] = pc[q])
  BY Moved DEF TypeInv
<1>3. \A r \in Gets : r \in Procs
  BY Kinds
<1> QED
  BY <1>1, <1>2, <1>3 DEF Blame

\* One process moves: what has to be shown of it.
LEMMA KeptMoves ==
    ASSUME TypeInv, KeptInv, kept' \subseteq kept, NEW p \in Procs, NEW state, NEW return, NEW u,
           Moves(p, state, return, u),
           kept # {} => Sound' /\ Blame' /\ Grows(World, World') /\ Lawful(p, state, return, u, World')
    PROVE  KeptInv'
<1> SUFFICES ASSUME kept # {}
             PROVE  Sound' /\ Blame' /\ \A q \in Procs : Lawful(q, pc'[q], ret'[q], url'[q], World')
  BY DEF KeptInv, Lawful, LawfulGet, Hash, RequestOf
<1>1. \A q \in Procs : /\ q = p => pc'[q] = state /\ ret'[q] = return /\ url'[q] = u
                       /\ q # p => pc'[q] = pc[q] /\ ret'[q] = ret[q] /\ url'[q] = url[q]
  BY Moved DEF TypeInv
<1>2. \A q \in Procs : q # p => Lawful(q, pc[q], ret[q], url[q], World')
  BY LawfulGrows DEF KeptInv
<1> QED
  BY <1>1, <1>2

\* The world stays, but for who is at fault, when nothing it is made of changes.
LEMMA WorldStill ==
    ASSUME TypeInv, Sound, UNCHANGED <<conf, dbVars, kept>>, Met
    PROVE  /\ Sound' /\ Grows(World, World')
           /\ World'.kept = World.kept /\ World'.migrated = World.migrated /\ World'.good = World.good
           /\ World'.whole = World.whole /\ World'.has = World.has /\ World'.recorded = World.recorded
           /\ World'.gone = World.gone
<1>1. /\ World'.kept = World.kept /\ World'.migrated = World.migrated /\ World'.good = World.good
      /\ World'.whole = World.whole /\ World'.has = World.has /\ World'.recorded = World.recorded
      /\ World'.gone = World.gone
      /\ World'.cdc = World.cdc /\ World'.compression = World.compression
      /\ World'.uploadOnly = World.uploadOnly
  BY DEF World, dbVars, GetMigratedNarInfoHashes, HasNarInStore, Recorded, Url, NarFileUrl
<1>2. Sound'
  BY <1>1 DEF Sound, dbVars, GetMigratedNarInfoHashes, NarFileUrl, Url, Kept
<1>3. Grows(World, World')
  BY <1>1, FaultyGrows DEF Grows, Extends
<1> QED
  BY <1>1, <1>2, <1>3

\* Process p may go to state: if that is a failure, p or the pull it waited for has met an error.
Excused(p, state) ==
    p \in Gets /\ HashOf[p] \in kept /\ state = "failed" =>
       p \in World'.faulty \/ Pull(ds[p]) \in World'.faulty

\* A process that only moves, to a place where it may be, keeps KeptInv,
LEMMA KeptLooks ==
    ASSUME TypeInv, KeptInv, UNCHANGED <<conf, dbVars, ds, err, kept>>, Met,
           NEW p \in Procs, NEW state, NEW return, NEW u, Moves(p, state, return, u),
           kept # {} => Lawful(p, state, return, u, World') /\ Excused(p, state)
    PROVE  KeptInv'
<1>1. kept # {} => Sound' /\ Grows(World, World')
  BY WorldStill DEF KeptInv
<1>2. kept # {} => Blame'
  BY BlameMoves DEF KeptInv, Excused
<1> QED
  BY <1>1, <1>2, KeptMoves

\* and so does Goto,
LEMMA KeptGoto ==
    ASSUME TypeInv, KeptInv, UNCHANGED <<conf, dbVars, ds, err, kept>>, Met,
           NEW p \in Procs, NEW state, Goto(p, state),
           kept # {} => Lawful(p, state, ret[p], url[p], World') /\ Excused(p, state)
    PROVE  KeptInv'
<1>1. Moves(p, state, Unless(state, ret[p]), UnlessUrl(state, url[p]))
  BY GotoMoves DEF TypeInv
<1>2. kept # {} => Lawful(p, state, Unless(state, ret[p]), UnlessUrl(state, url[p]), World')
  BY DEF Lawful, LawfulGet, Unless, UnlessUrl, Final, Looks, Purges
<1> QED
  BY <1>1, <1>2, KeptLooks

\* and Call.
LEMMA KeptCall ==
    ASSUME TypeInv, KeptInv, UNCHANGED <<conf, dbVars, ds, err, kept>>, Met,
           NEW p \in Procs, NEW state, NEW return, Call(p, state, return),
           kept # {} => Lawful(p, state, return, url[p], World') /\ Excused(p, state)
    PROVE  KeptInv'
  BY CallMoves, KeptLooks DEF TypeInv

\* A step that changes the tables, but no record of chunks goes, no narinfo that is kept, and no file.
LEMMA WorldGoes ==
    ASSUME TypeInv, Sound, UNCHANGED conf, kept' \subseteq kept, Met,
           narStore' = narStore \/ (~conf.cdc /\ narStore \subseteq narStore'),
           \A n \in Nars : Url(n, "none") \in DOMAIN db.nar_files => Url(n, "none") \in DOMAIN db'.nar_files,
           \A h \in GetMigratedNarInfoHashes(db') :
              \/ h \in GetMigratedNarInfoHashes(db) /\ db'.narinfos[h].url = db.narinfos[h].url
              \/ db'.narinfos[h].url \in World'.has,
           \A h \in kept' :
              /\ h \in GetMigratedNarInfoHashes(db) => h \in GetMigratedNarInfoHashes(db')
              /\ h \in DOMAIN legacy' => h \in DOMAIN legacy /\ legacy'[h] = legacy[h]
              /\ h \in DOMAIN legacy => h \in DOMAIN legacy' \/ h \in GetMigratedNarInfoHashes(db')
    PROVE  Sound' /\ Grows(World, World')
<1>1. /\ World.has \subseteq World'.has /\ World.recorded \subseteq World'.recorded
      /\ World.gone \subseteq World'.gone /\ World.whole \subseteq World'.whole
  <2>1. \A u \in Urls : Recorded(u) => Recorded(u)'
    BY DEF Recorded, Url, Urls
  <2>2. \A u \in Urls : HasNarInStore(u) => HasNarInStore(u)'
    BY DEF HasNarInStore, Url
  <2>3. \A h \in NarInfos : NarFileUrl(NarOf[h])' = NarFileUrl(NarOf[h])
    BY DEF NarFileUrl, Url
  <2>4. conf.cdc => narStore' = narStore
    OBVIOUS
  <2> QED
    BY <2>1, <2>2, <2>3, <2>4, Worlds, NextWorlds
<1>2. Extends(World, World')
  <2>1. kept' \subseteq NarInfos
    BY DEF TypeInv, DataInv
  <2> QED
    BY <1>1, <2>1, FaultyGrows, Worlds, NextWorlds DEF Extends
<1>3. Sound'
  <2>1. conf'.cdc => \A n \in Nars : Url(n, "none")' \notin narStore'
    BY DEF Sound, Url
  <2>2. \A n \in Nars : NarFileUrl(n)' \in narStore'
                        \/ (conf'.compression # "none" /\ Url(n, "none")' \in World'.recorded)
    <3>1. \A n \in Nars : NarFileUrl(n)' = NarFileUrl(n) /\ Url(n, "none")' = Url(n, "none")
      BY DEF NarFileUrl, Url
    <3> QED
      BY <1>1, <3>1 DEF Sound
  <2>3. \A h \in World'.migrated : db'.narinfos[h].url \in World'.has
    BY <1>1, Worlds, NextWorlds DEF Sound
  <2>4. \A h \in kept' : Kept(h)' /\ (h \in World'.migrated \/ h \in World'.whole)
    BY <1>1, Worlds, NextWorlds DEF Sound, Kept
  <2> QED
    BY <2>1, <2>2, <2>3, <2>4 DEF Sound
<1> QED
  BY <1>1, <1>2, <1>3 DEF Grows

\* The narinfos keep their URLs, and the NARs are still there.
LEMMA WorldKeeps ==
    ASSUME TypeInv, Sound, Keeps(db, db'), UNCHANGED <<conf, kept, legacy>>, Met,
           narStore' = narStore \/ (~conf.cdc /\ narStore \subseteq narStore')
    PROVE  Sound' /\ Grows(World, World')
<1>1. \A h \in GetMigratedNarInfoHashes(db') :
        h \in GetMigratedNarInfoHashes(db) /\ db'.narinfos[h].url = db.narinfos[h].url
  BY DEF Keeps, GetMigratedNarInfoHashes
<1>2. GetMigratedNarInfoHashes(db) = GetMigratedNarInfoHashes(db')
  BY DEF Keeps, GetMigratedNarInfoHashes
<1>3. \A n \in Nars : Url(n, "none") \in DOMAIN db.nar_files => Url(n, "none") \in DOMAIN db'.nar_files
  BY DEF Keeps
<1> QED
  BY <1>1, <1>2, <1>3, WorldGoes

\* The record of a compressed file goes after that.
LEMMA WorldRelinked ==
    ASSUME TypeInv, Sound, NEW t, Keeps(db, t), NEW u, db' = Relinked(t, u),
           UNCHANGED <<conf, kept, legacy, narStore>>, Met
    PROVE  Sound' /\ Grows(World, World')
<1> DEFINE s == Relinked(t, u)
<1>1. /\ s.narinfos = t.narinfos
      /\ \A v \in DOMAIN t.nar_files : v[2] = "none" => v \in DOMAIN s.nar_files
  BY RelinkedTables DEF Keeps
<1>x. s = db'
  OBVIOUS
<1> HIDE DEF s
<1>2. GetMigratedNarInfoHashes(db) = GetMigratedNarInfoHashes(db')
  BY <1>1, <1>x DEF Keeps, GetMigratedNarInfoHashes
<1>3. \A h \in GetMigratedNarInfoHashes(db') : db'.narinfos[h].url = db.narinfos[h].url
  BY <1>1, <1>x DEF Keeps, GetMigratedNarInfoHashes
<1>4. \A n \in Nars : Url(n, "none") \in DOMAIN db.nar_files => Url(n, "none") \in DOMAIN db'.nar_files
  BY <1>1, <1>x DEF Keeps, Url
<1> QED
  BY <1>2, <1>3, <1>4, WorldGoes

\* The narinfos of a file get the URL of its chunks, whose record is there.
LEMMA WorldRenamed ==
    ASSUME TypeInv, Sound, NEW u \in Urls, u \in World.recorded,
           db' = UpdateNarInfoCompressionFileSizeHashAndURL(db, u, Url(u[1], "none"), Null, Null),
           UNCHANGED <<conf, kept, legacy, narStore>>, Met
    PROVE  Sound' /\ Grows(World, World')
<1> DEFINE v == Url(u[1], "none")
           s == UpdateNarInfoCompressionFileSizeHashAndURL(db, u, v, Null, Null)
<1>0. v \in Urls /\ v # Null /\ v[1] = u[1]
  BY NarInfoAssumption DEF Url, Urls, Compressions
<1>1. /\ s.nar_files = db.nar_files /\ DOMAIN s.narinfos = DOMAIN db.narinfos
      /\ \A h \in DOMAIN db.narinfos : s.narinfos[h].url = IF db.narinfos[h].url = u THEN v ELSE db.narinfos[h].url
  BY <1>0, RenamedTables DEF TypeInv, DataInv
<1>x. s = db'
  OBVIOUS
<1> HIDE DEF s, v
<1>2. GetMigratedNarInfoHashes(db) \subseteq GetMigratedNarInfoHashes(db')
  BY <1>0, <1>1, <1>x DEF GetMigratedNarInfoHashes
<1>3. v \in World'.has
  <2>1. Recorded(v)'
    BY <1>0, <1>1, <1>x, Worlds DEF Recorded, Url
  <2> QED
    BY <1>0, <2>1, NextWorlds
<1>4. \A h \in GetMigratedNarInfoHashes(db') :
        \/ h \in GetMigratedNarInfoHashes(db) /\ db'.narinfos[h].url = db.narinfos[h].url
        \/ db'.narinfos[h].url \in World'.has
  <2>1. u # Null
    BY NarInfoAssumption DEF Urls
  <2> QED
    BY <1>1, <1>3, <1>x, <2>1 DEF GetMigratedNarInfoHashes
<1>5. db'.nar_files = db.nar_files
  BY <1>1, <1>x
<1> QED
  BY <1>2, <1>4, <1>5, WorldGoes

\* A narinfo is stored: its NAR is there or, with CDC, its nar_file is the record of the chunks.
LEMMA WorldStored ==
    ASSUME TypeInv, Sound, NEW h \in NarInfos, NEW row \in NarInfoRow, row.url # Null,
           row.url \in World.has \/ (conf.cdc /\ row.url[2] = "none"), db' = Stored(db, h, row),
           UNCHANGED <<conf, kept, legacy, narStore>>, Met
    PROVE  Sound' /\ Grows(World, World') /\ h \in World'.migrated
<1> DEFINE s == Stored(db, h, row)
<1>0. /\ DOMAIN s.narinfos = DOMAIN db.narinfos \cup {h}
      /\ \A k \in DOMAIN db.narinfos : k # h => s.narinfos[k] = db.narinfos[k]
      /\ s.narinfos[h] = IF h \in GetMigratedNarInfoHashes(db) THEN db.narinfos[h] ELSE row
      /\ DOMAIN s.nar_files = DOMAIN db.nar_files \cup {row.url}
  BY StoredTables DEF TypeInv, DataInv
<1>x. s = db'
  OBVIOUS
<1> HIDE DEF s
<1>1. /\ GetMigratedNarInfoHashes(db') = GetMigratedNarInfoHashes(db) \cup {h}
      /\ \A k \in GetMigratedNarInfoHashes(db) : db'.narinfos[k] = db.narinfos[k]
      /\ h \notin GetMigratedNarInfoHashes(db) => db'.narinfos[h].url = row.url
  BY <1>0, <1>x DEF GetMigratedNarInfoHashes
<1>2. row.url \in Urls
  BY DEF NarInfoRow
<1>3. row.url \in World'.has
  <2>1. CASE row.url \in World.has
    <3>1. HasNarInStore(row.url) \/ Recorded(row.url)
      BY <2>1, Worlds
    <3>2. HasNarInStore(row.url)' \/ Recorded(row.url)'
      BY <1>0, <1>x, <3>1 DEF HasNarInStore, Recorded, Url
    <3> QED
      BY <1>2, <3>2, NextWorlds
  <2>2. CASE conf.cdc /\ row.url[2] = "none"
    <3>1. Url(row.url[1], "none") = row.url
      BY <1>2, <2>2 DEF Url, Urls
    <3>2. Recorded(row.url)'
      BY <1>0, <1>x, <2>2, <3>1 DEF Recorded, Url
    <3> QED
      BY <1>2, <3>2, NextWorlds
  <2> QED
    BY <2>1, <2>2
<1>4. \A k \in GetMigratedNarInfoHashes(db') :
        \/ k \in GetMigratedNarInfoHashes(db) /\ db'.narinfos[k].url = db.narinfos[k].url
        \/ db'.narinfos[k].url \in World'.has
  BY <1>1, <1>3
<1>5. DOMAIN db.nar_files \subseteq DOMAIN db'.nar_files
  BY <1>0, <1>x
<1>6. Sound' /\ Grows(World, World')
  BY <1>1, <1>4, <1>5, WorldGoes
<1> QED
  BY <1>1, <1>6, NextWorlds

\* A narinfo that is not kept loses its row, its legacy file, or both, and a nar_file that is not the
\* record of chunks may go.
LEMMA WorldDeletes ==
    ASSUME TypeInv, Sound, NEW h, h \notin kept', kept' \subseteq kept,
           \/ db' = db
           \/ db' = DeleteNarInfoByHash(db, h)
           \/ \E u : u[2] # "none" /\ db' = DeleteNarFileByHash(DeleteNarInfoByHash(db, h), u),
           legacy' = legacy \/ legacy' = Remove(legacy, {h}),
           UNCHANGED <<conf, narStore>>, Met
    PROVE  Sound' /\ Grows(World, World')
<1> DEFINE t == DeleteNarInfoByHash(db, h)
<1>t. /\ Tables(t) /\ t.nar_files = db.nar_files /\ DOMAIN t.narinfos = DOMAIN db.narinfos \ {h}
      /\ \A k \in DOMAIN t.narinfos : t.narinfos[k] = db.narinfos[k]
  BY DeleteNarInfoTables DEF TypeInv, DataInv
<1>1. /\ \A v \in DOMAIN db.nar_files : v[2] = "none" => v \in DOMAIN db'.nar_files
      /\ GetMigratedNarInfoHashes(db') \subseteq GetMigratedNarInfoHashes(db)
      /\ GetMigratedNarInfoHashes(db) \subseteq GetMigratedNarInfoHashes(db') \cup {h}
      /\ \A k \in GetMigratedNarInfoHashes(db') : db'.narinfos[k] = db.narinfos[k]
  <2> DEFINE Went ==
        /\ \A v \in DOMAIN db.nar_files : v[2] = "none" => v \in DOMAIN db'.nar_files
        /\ GetMigratedNarInfoHashes(db') \subseteq GetMigratedNarInfoHashes(db)
        /\ GetMigratedNarInfoHashes(db) \subseteq GetMigratedNarInfoHashes(db') \cup {h}
        /\ \A k \in GetMigratedNarInfoHashes(db') : db'.narinfos[k] = db.narinfos[k]
  <2>1. CASE db' = db
    BY <2>1 DEF GetMigratedNarInfoHashes
  <2>2. CASE db' = t
    <3>1. t = db'
      BY <2>2
    <3> HIDE DEF t
    <3> QED
      BY <1>t, <3>1 DEF GetMigratedNarInfoHashes
  <2>3. ASSUME NEW u, u[2] # "none", db' = DeleteNarFileByHash(t, u)
        PROVE  /\ \A v \in DOMAIN db.nar_files : v[2] = "none" => v \in DOMAIN db'.nar_files
               /\ db'.narinfos = t.narinfos
    <3> HIDE DEF t
    <3> DEFINE s == DeleteNarFileByHash(t, u)
    <3>1. s.narinfos = t.narinfos /\ DOMAIN s.nar_files = DOMAIN t.nar_files \ {u}
      BY <1>t, DeleteNarFileTables
    <3>2. s = db'
      BY <2>3
    <3> HIDE DEF s
    <3> QED
      BY <1>t, <2>3, <3>1, <3>2
  <2>4. ASSUME NEW u, u[2] # "none", db' = DeleteNarFileByHash(t, u)
        PROVE  Went
    <3>1. /\ \A v \in DOMAIN db.nar_files : v[2] = "none" => v \in DOMAIN db'.nar_files
          /\ db'.narinfos = t.narinfos
      BY <2>3, <2>4
    <3> HIDE DEF t
    <3> QED
      BY <1>t, <3>1 DEF GetMigratedNarInfoHashes
  <2> QED
    BY <2>1, <2>2, <2>4
<1>2. \A n \in Nars : Url(n, "none") \in DOMAIN db.nar_files => Url(n, "none") \in DOMAIN db'.nar_files
  BY <1>1 DEF Url
<1>3. /\ \A k \in DOMAIN legacy' : k \in DOMAIN legacy /\ legacy'[k] = legacy[k]
      /\ \A k \in DOMAIN legacy : k # h => k \in DOMAIN legacy'
  <2>1. CASE legacy' = legacy
    BY <2>1
  <2>2. CASE legacy' = Remove(legacy, {h})
    <3> DEFINE l == Remove(legacy, {h})
    <3>1. DOMAIN l = DOMAIN legacy \ {h} /\ \A k \in DOMAIN l : l[k] = legacy[k]
      BY RemoveLegacy DEF TypeInv
    <3>2. l = legacy'
      BY <2>2
    <3> HIDE DEF l
    <3> QED
      BY <3>1, <3>2
  <2> QED
    BY <2>1, <2>2
<1>4. \A k \in kept' : k # h
  OBVIOUS
<1>5. \A k \in GetMigratedNarInfoHashes(db') :
        k \in GetMigratedNarInfoHashes(db) /\ db'.narinfos[k].url = db.narinfos[k].url
  BY <1>1
<1>6. \A k \in kept' :
        /\ k \in GetMigratedNarInfoHashes(db) => k \in GetMigratedNarInfoHashes(db')
        /\ k \in DOMAIN legacy' => k \in DOMAIN legacy /\ legacy'[k] = legacy[k]
        /\ k \in DOMAIN legacy => k \in DOMAIN legacy'
  BY <1>1, <1>3, <1>4
<1> HIDE DEF t
<1> QED
  BY <1>2, <1>5, <1>6, WorldGoes

\* The legacy file of a narinfo goes when its row is there.
LEMMA WorldMigrated ==
    ASSUME TypeInv, Sound, NEW h, h \in kept => h \in World.migrated,
           legacy' = Remove(legacy, {h}), UNCHANGED <<conf, kept, db, narStore>>, Met
    PROVE  Sound' /\ Grows(World, World')
<1> DEFINE l == Remove(legacy, {h})
<1>2. DOMAIN l = DOMAIN legacy \ {h} /\ \A k \in DOMAIN l : l[k] = legacy[k]
  BY RemoveLegacy DEF TypeInv
<1>3. l = legacy'
  OBVIOUS
<1> HIDE DEF l
<1>4. GetMigratedNarInfoHashes(db') = GetMigratedNarInfoHashes(db)
  BY DEF GetMigratedNarInfoHashes
<1>5. \A k \in kept' :
        /\ k \in DOMAIN legacy' => k \in DOMAIN legacy /\ legacy'[k] = legacy[k]
        /\ k \in DOMAIN legacy => k \in DOMAIN legacy' \/ k \in GetMigratedNarInfoHashes(db')
  BY <1>2, <1>3, <1>4, Worlds
<1> QED
  BY <1>4, <1>5, WorldGoes

\* KeptInv, kept by getNarInfoFromDatabase and purgeNarInfo, which never purge a narinfo that is kept;
LEMMA DatabaseKept ==
    ASSUME TypeInv, KeptInv, NEW p \in Gets \cup Pulls, GetNarInfoFromDatabase(p), UNCHANGED <<conf, kept>>
    PROVE  KeptInv'
<1>0. /\ p \in Procs /\ Local(p, pc[p], ret[p], url[p]) /\ Hash(p) \in NarInfos
      /\ url[p] \in Urls \cup {Null}
      /\ p \in Gets => Hash(p) = HashOf[p]
  BY Kinds, Processes DEF TypeInv, Control, Requests
<1>m. UNCHANGED <<ds, err>> /\ Met
  BY <1>0, DatabaseAside DEF Aside, dsVars
<1>k. kept # {} => Sound /\ Blame /\ Lawful(p, pc[p], ret[p], url[p], World)
  BY <1>0 DEF KeptInv
<1>l. ASSUME UNCHANGED dbVars, kept # {}
      PROVE  /\ Lawful(p, pc[p], ret[p], url[p], World')
             /\ World'.recorded = World.recorded /\ World'.has = World.has
             /\ World'.migrated = World.migrated /\ World'.kept = kept
  BY <1>k, <1>l, <1>m, LawfulGrows, WorldStill, Worlds
<1> DEFINE Okay(state) == state \in {"hit", "found", "unlock", "final", "close"}
\* A look that finds the NAR,
<1>a. ASSUME Return(p, "ok"), pc[p] \in Looks \ {"db"}, UNCHANGED dbVars
      PROVE  KeptInv'
  <2> DEFINE state == After(ret[p], "ok")
  <2>1. /\ p \in Gets => state \in {"hit", "found", "unlock", "final"} /\ (state # "hit" => ret[p] # "get")
        /\ p \in Pulls => state = "close"
    BY <1>0, <1>a, Kinds, Outcomes DEF Local, Looks
  <2> HIDE DEF state
  <2>2. kept # {} => Lawful(p, state, ret[p], url[p], World')
    BY <1>0, <1>a, <1>l, <2>1, Kinds DEF Lawful, LawfulGet, Looks, Purges, Active, Final
  <2>3. Excused(p, state)
    BY <2>1, Kinds DEF Excused
  <2> QED
    BY <1>0, <1>a, <1>m, <2>2, <2>3, KeptGoto DEF Return, state
\* and one that goes on to the next.
<1>b. ASSUME NEW state \in Looks, pc[p] \in Looks, UNCHANGED dbVars, Goto(p, state),
             kept # {} /\ state = "store" => url[p] \in World.has,
             kept # {} /\ state \in {"chunks", "job", "remote", "record"} => url[p] \in World.recorded
      PROVE  KeptInv'
  <2>1. kept # {} => Lawful(p, state, ret[p], url[p], World')
    BY <1>0, <1>b, <1>l, Kinds DEF Lawful, LawfulGet, Looks, Purges, Active, Final
  <2>2. Excused(p, state)
    BY <1>b DEF Excused, Looks
  <2> QED
    BY <1>0, <1>b, <1>m, <2>1, <2>2, KeptGoto
<1>c. kept # {} /\ pc[p] \in Purges => /\ Hash(p) \notin kept
                                       /\ url[p] = Null \/ url[p] \in World.gone \cap World.recorded
  BY <1>0, <1>k, Kinds, Worlds DEF Lawful, LawfulGet, Purges
\* A narinfo that is not kept may be purged.
<1>e. ASSUME NEW state, Goto(p, state), kept # {} => Hash(p) \notin kept, UNCHANGED dbVars,
             state \notin Looks \cup Purges \cup {"legacyNar"}
      PROVE  KeptInv'
  <2>1. kept # {} => Lawful(p, state, ret[p], url[p], World')
    <3>1. p \notin Chunkings
      BY Kinds
    <3>2. kept # {} => Hash(p) \notin World'.kept
      BY <1>e, <1>l
    <3> QED
      BY <1>e, <3>1, <3>2 DEF Lawful, Looks
  <2>2. kept # {} => Excused(p, state)
    BY <1>0, <1>e DEF Excused
  <2> QED
    BY <1>0, <1>e, <1>m, <2>1, <2>2, KeptGoto
<1>d. ASSUME kept # {}, pc[p] \in {"remote", "record"} \/ pc[p] = "chunks" \/ pc[p] = "job"
      PROVE  url[p] \in World.recorded /\ conf.cdc /\ HasNarFileRecord(url[p])
  <2>1. url[p] \in World.recorded
    BY <1>d, <1>k DEF Lawful
  <2>2. conf.cdc /\ Url(url[p][1], "none") \in DOMAIN db.nar_files
    BY <2>1, Worlds DEF Recorded
  <2>3. \A v \in DOMAIN db.nar_files : db.nar_files[v] # Null
    BY NarInfoAssumption DEF TypeInv, DataInv, Tables, NarFileRow
  <2>4. HasNarFileRecord(url[p])
    BY <2>2, <2>3 DEF HasNarFileRecord, getNarFileFromDB, GetNarFileByHashAndCompressionAndQuery, Url
  <2> QED
    BY <2>1, <2>2, <2>4
\* Where a request goes on when the narinfo is not found, or an error comes.
<1>o. ASSUME p \in Gets, NEW outcome \in {"notfound", "purged", "failed"},
             ret[p] \in {"legacy", "bad"} => outcome # "notfound",
             ret[p] \in {"get", "retry", "asset", "poll", "final", "legacy", "bad"}
      PROVE  /\ After(ret[p], outcome) \in {"legacy", "failed", "miss", "retry", "assetLegacy", "pollLegacy"}
             /\ After(ret[p], outcome) = "legacy" => ret[p] = "get" /\ outcome # "failed"
  BY <1>o, Outcomes
<1>1. CASE PopulateNarInfo(p)
  <2>0. UNCHANGED <<dbVars, faults>> /\ pc[p] = "db"
    BY <1>1 DEF PopulateNarInfo, At
  <2>1. CASE Hash(p) \notin GetMigratedNarInfoHashes(db)
    <3>1. Return(p, "notfound")
      BY <1>1, <2>1 DEF PopulateNarInfo
    <3>2. CASE Hash(p) \in kept
      <4>1. Hash(p) \in World.good /\ Hash(p) \in World.whole /\ Hash(p) \notin World.migrated
        BY <1>0, <1>k, <2>1, <3>2, Worlds DEF Sound, Kept
      <4>2. p \in Gets /\ ret[p] = "get"
        BY <1>k, <2>0, <3>2, <4>1, Worlds DEF Lawful, LawfulGet, Looks, Active, Final
      <4>3. Goto(p, "legacy")
        BY <3>1, <4>2, Outcomes DEF Return
      <4>4. World'.good = World.good /\ World'.whole = World.whole
        BY <1>k, <1>m, <2>0, <3>2, WorldStill
      <4>5. Lawful(p, "legacy", ret[p], url[p], World')
        BY <4>1, <4>2, <4>4, Kinds DEF Lawful, LawfulGet, Looks, Purges
      <4>6. Excused(p, "legacy")
        BY DEF Excused
      <4> QED
        BY <1>0, <1>m, <2>0, <4>3, <4>5, <4>6, KeptGoto
    <3>3. CASE Hash(p) \notin kept
      <4>1. /\ p \in Gets => ret[p] \in {"get", "retry", "asset", "poll", "final"}
            /\ p \in Pulls => ret[p] = "pull"
        BY <1>0, <2>0, Kinds DEF Local, Looks
      <4>2. After(ret[p], "notfound") \notin Looks \cup Purges \cup {"legacyNar"}
        BY <1>o, <4>1, Outcomes DEF Looks, Purges
      <4> QED
        BY <1>e, <2>0, <3>1, <3>3, <4>2 DEF Return
    <3> QED
      BY <3>2, <3>3
  <2>2. CASE Hash(p) \in GetMigratedNarInfoHashes(db)
    <3> DEFINE u == GetNarInfoByHash(db, Hash(p)).url
    <3>1. Moves(p, "store", ret[p], u)
      BY <1>0, <1>1, <2>2 DEF PopulateNarInfo, Moves, TypeInv, Control
    <3>2. kept # {} => u \in World.has
      BY <1>k, <2>2, Worlds DEF Sound, GetNarInfoByHash, GetMigratedNarInfoHashes
    <3> HIDE DEF u
    <3>3. kept # {} => Lawful(p, "store", ret[p], u, World')
      BY <1>0, <1>l, <2>0, <2>2, <3>2, Kinds, Worlds DEF Lawful, LawfulGet, Looks, Purges, Active, Final
    <3>4. Excused(p, "store")
      BY DEF Excused
    <3> QED
      BY <1>0, <1>m, <2>0, <3>1, <3>3, <3>4, KeptLooks
  <2> QED
    BY <2>1, <2>2
<1>2. CASE LookInStore(p)
  <2>1. pc[p] = "store" /\ UNCHANGED dbVars
    BY <1>2 DEF LookInStore, At
  <2>2. CASE HasNarInStore(url[p])
    BY <1>2, <1>a, <2>1, <2>2 DEF LookInStore, Looks
  <2>3. CASE ~HasNarInStore(url[p])
    <3>1. kept # {} => url[p] \in World.recorded
      BY <1>k, <2>1, <2>3, Worlds DEF Lawful
    <3> QED
      BY <1>2, <1>b, <2>1, <2>3, <3>1 DEF LookInStore, Looks
  <2> QED
    BY <2>2, <2>3
<1>3. CASE LookInChunks(p)
  BY <1>3, <1>a, <1>b, <1>d DEF LookInChunks, At, Looks
<1>4. CASE LookForJob(p)
  BY <1>4, <1>a, <1>b, <1>d DEF LookForJob, At, Looks
<1>5. CASE isRemoteDownloadInProgress(p) \/ LookForRecord(p) \/ RecordUnknown(p) \/ RemoteUnknown(p)
  <2>0. pc[p] \in {"remote", "record"} /\ UNCHANGED dbVars
    BY <1>5 DEF isRemoteDownloadInProgress, LookForRecord, RecordUnknown, RemoteUnknown, At
  <2>1. kept # {} => url[p] \in World.recorded /\ conf.cdc /\ HasNarFileRecord(url[p])
    BY <1>d, <2>0
  <2>2. CASE Return(p, "ok")
    BY <1>a, <2>0, <2>2 DEF Looks
  <2>3. CASE Goto(p, "record")
    BY <1>b, <2>0, <2>1, <2>3 DEF Looks
  <2>4. CASE kept = {}
    BY <2>4 DEF KeptInv
  <2> QED
    BY <1>5, <2>1, <2>2, <2>3, <2>4 DEF isRemoteDownloadInProgress, LookForRecord, RecordUnknown, RemoteUnknown
<1>6. CASE PurgeRows(p) \/ PurgeLegacy(p)
  <2> PICK state \in {"purgeLegacy", "purgeNar"} : Goto(p, state)
    BY <1>6 DEF PurgeRows, PurgeLegacy
  <2>1. pc[p] \in Purges
    BY <1>6 DEF PurgeRows, PurgeLegacy, At, Purges
  <2>2. Moves(p, state, ret[p], url[p])
    BY <1>0, GotoMoves DEF TypeInv, Unless, UnlessUrl, Final
  <2>4. kept # {} => /\ \/ db' = db
                        \/ db' = DeleteNarInfoByHash(db, Hash(p))
                        \/ \E u : u[2] # "none" /\ db' = DeleteNarFileByHash(DeleteNarInfoByHash(db, Hash(p)), u)
                     /\ legacy' = legacy \/ legacy' = Remove(legacy, {Hash(p)})
                     /\ narStore' = narStore
    <3>1. kept # {} /\ url[p] # Null => url[p][2] # "none"
      BY <1>c, <2>1, Worlds
    <3> QED
      BY <1>6, <3>1 DEF PurgeRows, PurgeLegacy
  <2>5. kept # {} => Sound' /\ Grows(World, World')
    BY <1>c, <1>k, <1>m, <2>1, <2>4, WorldDeletes
  <2>3. kept # {} => Lawful(p, state, ret[p], url[p], World')
    <3>1. p \notin Chunkings
      BY Kinds
    <3>2. kept # {} => Hash(p) \notin World'.kept /\ (url[p] = Null \/ url[p] \in World'.gone \cap World'.recorded)
      BY <1>c, <2>1, <2>5, NextWorlds DEF Grows, Extends
    <3> QED
      BY <3>1, <3>2 DEF Lawful
  <2>6. kept # {} => Blame'
    BY <1>0, <1>k, <1>m, <2>2, BlameMoves
  <2> QED
    BY <1>0, <2>2, <2>3, <2>5, <2>6, KeptMoves
<1>7. CASE PurgeNar(p)
  <2>1. CASE kept = {}
    BY <2>1 DEF KeptInv
  <2>2. CASE kept # {}
    <3>1. pc[p] = "purgeNar" /\ Hash(p) \notin kept /\ (url[p] = Null \/ ~HasNarInStore(url[p]))
      BY <1>7, <1>c, <2>2, Worlds DEF PurgeNar, At, Purges, HasNarInStore
    <3>2. Return(p, "purged") /\ UNCHANGED dbVars
      BY <1>7, <3>1 DEF PurgeNar, dbVars
    <3>3. /\ p \in Gets => ret[p] \in {"get", "retry", "asset", "poll", "final", "legacy", "bad"}
          /\ p \in Pulls => ret[p] = "pull"
      BY <1>0, <3>1, Kinds DEF Local, Purges
    <3>4. After(ret[p], "purged") \notin Looks \cup Purges \cup {"legacyNar"}
      BY <1>o, <3>3, Outcomes DEF Looks, Purges
    <3> QED
      BY <1>e, <3>1, <3>2, <3>4 DEF Return
  <2> QED
    BY <2>1, <2>2
<1>8. CASE DatabaseFails(p)
  <2>0. Return(p, "failed") /\ UNCHANGED dbVars /\ Fault("database", p)
    BY <1>8 DEF DatabaseFails
  <2>1. pc[p] \in Looks \cup Purges
    BY <1>8 DEF DatabaseFails, At, Looks, Purges
  <2>2. p \in World'.faulty
    BY <1>0, <1>m, <2>0, FaultyGrows
  <2> DEFINE state == After(ret[p], "failed")
  <2>3. /\ p \in Gets => ret[p] \in {"get", "retry", "asset", "poll", "final", "legacy", "bad"}
        /\ p \in Pulls => ret[p] = "pull"
    BY <1>0, <2>1, Kinds DEF Local
  <2>4. /\ p \in Pulls => state = "fetch"
        /\ p \in Gets => /\ state \in {"failed", "miss", "assetLegacy", "pollLegacy", "retry"}
                         /\ state = "miss" => ret[p] = "bad"
                         /\ state = "retry" => FALSE
                         /\ state \in {"assetLegacy", "pollLegacy"} => ret[p] # "get"
    BY <2>3 DEF After, Continuations
  <2>5. kept # {} /\ Hash(p) \in kept => pc[p] \in Looks
    BY <1>c, <2>1
  <2>6. p \in Gets /\ pc[p] \in Looks => ret[p] # "bad"
    BY <1>0 DEF Local
  <2> HIDE DEF state
  <2>7. kept # {} => Lawful(p, state, ret[p], url[p], World')
    BY <1>0, <1>l, <2>0, <2>2, <2>4, <2>5, <2>6, Kinds DEF Lawful, LawfulGet, Looks, Purges, Active, Final
  <2>8. Excused(p, state)
    BY <2>2 DEF Excused
  <2> QED
    BY <1>0, <1>m, <2>0, <2>7, <2>8, KeptGoto DEF Return, state
<1> QED
  BY <1>1, <1>2, <1>3, <1>4, <1>5, <1>6, <1>7, <1>8 DEF GetNarInfoFromDatabase

\* by the end of a request that begins migrations;
LEMMA AnswerKept ==
    ASSUME TypeInv, KeptInv, UNCHANGED <<conf, dbVars, ds, err, kept>>, Met,
           NEW r \in Gets, NEW answer \in {"found", "failed"}, NEW m \in {pc[Migration(r)], "trylock"},
           NEW c, c = pc[ToChunks(r)] \/ (c = "trylock" /\ conf.cdc),
           pc' = [pc EXCEPT ![r] = answer, ![Migration(r)] = m, ![ToChunks(r)] = c],
           ret' = [ret EXCEPT ![r] = "none"], url' = [url EXCEPT ![r] = Null],
           answer = "failed" => r \in World'.faulty
    PROVE  KeptInv'
<1>0. r \in Procs
  BY Kinds
<1>1. /\ Migration(r) \in Procs /\ Migration(r) \in Migrations /\ Migration(r) \notin Gets
      /\ ToChunks(r) \in Procs /\ ToChunks(r) \in Chunkings /\ ToChunks(r) \notin Gets
      /\ ToChunks(r) # Migration(r)
  BY Processes, Kinds
<1>2. \A q \in Procs : /\ pc'[q] = IF q = r THEN answer ELSE IF q = Migration(r) THEN m
                                   ELSE IF q = ToChunks(r) THEN c ELSE pc[q]
                       /\ q # r => ret'[q] = ret[q] /\ url'[q] = url[q]
  BY <1>0, <1>1 DEF TypeInv, Control
<1> SUFFICES ASSUME kept # {}
             PROVE  Sound' /\ Blame' /\ \A q \in Procs : Lawful(q, pc'[q], ret'[q], url'[q], World')
  BY DEF KeptInv, Lawful, LawfulGet, Hash, RequestOf
<1>3. Sound' /\ Grows(World, World')
  BY WorldStill DEF KeptInv
<1>4. Blame'
  <2>1. \A g \in Gets : g \in Procs /\ g # Migration(r) /\ g # ToChunks(r)
    BY <1>1, Kinds
  <2>2. \A g \in Gets : pc'[g] = IF g = r THEN answer ELSE pc[g]
    BY <1>2, <2>1
  <2>3. World.faulty \subseteq World'.faulty
    BY FaultyGrows
  <2> QED
    BY <2>2, <2>3 DEF KeptInv, Blame
<1>5. \A q \in Procs : Lawful(q, pc[q], ret[q], url[q], World')
  BY <1>3, LawfulGrows DEF KeptInv
<1>6. Lawful(r, answer, ret'[r], url'[r], World')
  BY Kinds DEF Lawful, LawfulGet, Looks, Purges
<1>7. Lawful(Migration(r), m, ret[Migration(r)], url[Migration(r)], World')
  <2>1. Lawful(Migration(r), "trylock", ret[Migration(r)], url[Migration(r)], World')
    BY <1>1, Kinds DEF Lawful, Looks, Purges
  <2> QED
    BY <1>1, <1>5, <2>1
<1>8. Lawful(ToChunks(r), c, ret[ToChunks(r)], url[ToChunks(r)], World')
  <2>1. conf.cdc => Lawful(ToChunks(r), "trylock", ret[ToChunks(r)], url[ToChunks(r)], World')
    <3>1. ToChunks(r) \notin Gets /\ ToChunks(r) \notin Pulls /\ ToChunks(r) \notin Migrations
          /\ ToChunks(r) \notin Puts /\ ToChunks(r) \notin Deletes
      BY <1>1, Kinds
    <3>2. conf.cdc => World'.cdc
      BY NextWorlds
    <3> QED
      BY <3>1, <3>2 DEF Lawful, Looks, Purges
  <2> QED
    BY <1>1, <1>5, <2>1
<1>9. ASSUME NEW q \in Procs PROVE Lawful(q, pc'[q], ret'[q], url'[q], World')
  <2>1. CASE q = r
    BY <1>2, <1>6, <2>1
  <2>2. CASE q # r /\ q = Migration(r)
    BY <1>2, <1>7, <2>2
  <2>3. CASE q # r /\ q = ToChunks(r)
    BY <1>1, <1>2, <1>8, <2>3
  <2>4. CASE q # r /\ q # Migration(r) /\ q # ToChunks(r)
    BY <1>2, <1>5, <2>4
  <2> QED
    BY <2>1, <2>2, <2>3, <2>4
<1> QED
  BY <1>3, <1>4, <1>9

\* Nobody is to blame for a request that goes on.
LEMMA BlameStays ==
    ASSUME TypeInv, Blame, kept' \subseteq kept, Met, UNCHANGED err, NEW r \in Gets, pc'[r] # "failed",
           \A q \in Gets : q # r => pc'[q] = pc[q] /\ ds'[q] = ds[q]
    PROVE  Blame'
<1>1. World.faulty \subseteq World'.faulty
  BY FaultyGrows
<1> QED
  BY <1>1 DEF Blame

\* by a request for a narinfo, which finds one that is kept before or after its migration;
LEMMA GetKept ==
    ASSUME TypeInv, KeptInv, WaitInv, NEW r \in Gets, GetNarInfo(r) \/ GetStep(r) \/ ClientLeaves(r),
           UNCHANGED <<conf, kept>>
    PROVE  KeptInv'
<1>0. /\ r \in Procs /\ Hash(r) \in NarInfos /\ Hash(r) = HashOf[r] /\ NarOf[Hash(r)] \in Nars
      /\ r \notin Pulls /\ r \notin Migrations /\ r \notin Chunkings /\ r \notin Puts /\ r \notin Deletes
  BY Kinds, Processes, NarInfoAssumption DEF Requests
<1>k. kept # {} => Sound /\ Blame /\ Lawful(r, pc[r], ret[r], url[r], World)
  BY <1>0 DEF KeptInv
<1> DEFINE Still == UNCHANGED <<dbVars, err>> /\ Met
           L(state, return, u) == Lawful(r, state, return, u, World')
\* What r has read, and where it may be, in the next world.
<1>l. ASSUME UNCHANGED dbVars, Met, kept # {}
      PROVE  /\ L(pc[r], ret[r], url[r])
             /\ World'.kept = kept
             /\ Hash(r) \in kept /\ pc[r] \notin Looks => LawfulGet(r, pc[r], ret[r], World')
             /\ Hash(r) \in kept => Hash(r) \in World'.migrated
                                    \/ (Hash(r) \in DOMAIN legacy /\ legacy[Hash(r)] = "good")
  <2>1. Grows(World, World') /\ World'.kept = World.kept /\ World'.migrated = World.migrated
    BY <1>k, <1>l, WorldStill
  <2>2. L(pc[r], ret[r], url[r])
    BY <1>k, <1>l, <2>1, LawfulGrows
  <2>3. Hash(r) \in kept => Hash(r) \in World'.migrated
                            \/ (Hash(r) \in DOMAIN legacy /\ legacy[Hash(r)] = "good")
    BY <1>k, <1>l, <2>1, Worlds DEF Sound, Kept
  <2> QED
    BY <2>1, <2>2, <2>3, Worlds DEF Lawful
\* A place at which nothing has been read but of the narinfo of the request.
<1> DEFINE Plain(state) ==
             state \notin {"store", "chunks", "job", "remote", "record", "legacyNar"} \cup Purges
<1>p. ASSUME NEW state, Plain(state), NEW return, NEW u,
             Hash(r) \in World'.kept => LawfulGet(r, state, return, World')
      PROVE  L(state, return, u)
  BY <1>0, <1>p DEF Lawful
<1> HIDE DEF L
<1>a. ASSUME NEW state, Plain(state), Goto(r, state), Still, UNCHANGED ds,
             kept # {} /\ Hash(r) \in kept => LawfulGet(r, state, ret[r], World'),
             kept # {} => Excused(r, state)
      PROVE  KeptInv'
  <2>1. kept # {} => L(state, ret[r], url[r])
    BY <1>a, <1>l, <1>p
  <2> QED
    BY <1>0, <1>a, <2>1, KeptGoto DEF L
<1>b. ASSUME NEW return, Call(r, "db", return), Still, UNCHANGED ds,
             Hash(r) \in kept => return = "get" \/ Hash(r) \in World'.migrated
      PROVE  KeptInv'
  <2>1. kept # {} /\ Hash(r) \in kept => LawfulGet(r, "db", return, World')
    BY <1>b DEF LawfulGet, Purges
  <2>2. kept # {} => L("db", return, url[r])
    BY <1>l, <1>b, <1>p, <2>1 DEF Purges
  <2>3. Excused(r, "db")
    BY DEF Excused
  <2> QED
    BY <1>0, <1>b, <2>2, <2>3, KeptCall DEF L
\* What follows from where r is.
<1>g. ASSUME UNCHANGED dbVars, Met, Hash(r) \in kept, pc[r] \notin Looks
      PROVE  LawfulGet(r, pc[r], ret[r], World')
  BY <1>l, <1>g
<1>f. \A state : state # "failed" => Excused(r, state)
  BY DEF Excused
<1> USE DEF At, dsVars, Looks, Purges
<1>1. CASE GetNarInfo(r)
  BY <1>1, <1>b DEF GetNarInfo, Met
<1>2. CASE Acquire(r) \/ AcquireFails(r) \/ ReadPulled(r) \/ WaitForPut(r)
  <2>1. pc[r] \in {"lock", "final", "waitPut"} /\ Still /\ UNCHANGED ds
    BY <1>0, <1>2 DEF Acquire, AcquireFails, ReadPulled, WaitForPut, Met
  <2>2. Hash(r) \in kept => Hash(r) \in World'.migrated
    BY <1>g, <2>1 DEF LawfulGet
  <2>3. PICK return : Call(r, "db", return)
    BY <1>2 DEF Acquire, AcquireFails, ReadPulled, WaitForPut
  <2> QED
    BY <1>b, <2>1, <2>2, <2>3
<1>3. CASE LookInLegacy(r)
  <2>1. pc[r] = "legacy" /\ Still /\ UNCHANGED ds
        /\ Goto(r, IF HashOf[r] \in DOMAIN legacy THEN "readLegacy" ELSE "miss")
    BY <1>3 DEF LookInLegacy, Met
  <2>2. Hash(r) \in kept => LawfulGet(r, IF HashOf[r] \in DOMAIN legacy THEN "readLegacy" ELSE "miss", ret[r], World')
    <3>1. Hash(r) \in kept => Hash(r) \in World'.good /\ Hash(r) \in World'.whole
      BY <1>g, <2>1 DEF LawfulGet
    <3>2. Hash(r) \in kept => Hash(r) \in DOMAIN legacy \/ Hash(r) \in World'.migrated
      BY <1>l, <2>1
    <3> QED
      BY <1>0, <3>1, <3>2 DEF LawfulGet
  <2> QED
    BY <1>a, <1>f, <2>1, <2>2
<1>4. CASE ReadLegacy(r)
  <2>0. pc[r] = "readLegacy" /\ Still /\ UNCHANGED <<ds, legacy>>
    BY <1>4 DEF ReadLegacy, Met, dbVars
  <2>g. Hash(r) \in kept => Hash(r) \in World'.good /\ Hash(r) \in World'.whole
    BY <1>g, <2>0 DEF LawfulGet
  <2>1. CASE HashOf[r] \notin DOMAIN legacy
    <3>1. Goto(r, "waitMigration")
      BY <1>4, <2>1 DEF ReadLegacy
    <3>2. Hash(r) \in kept => LawfulGet(r, "waitMigration", ret[r], World')
      BY <1>0, <1>l, <2>0, <2>1 DEF LawfulGet
    <3> QED
      BY <1>a, <1>f, <2>0, <3>1, <3>2
  <2>2. CASE HashOf[r] \in DOMAIN legacy /\ legacy[HashOf[r]] = "bad"
    <3>1. Moves(r, "purge", "bad", Null)
      BY <1>4, <2>2 DEF ReadLegacy, Moves
    <3>2. Hash(r) \notin kept
      BY <1>0, <2>0, <2>2, <2>g, NextWorlds
    <3>3. kept # {} => Lawful(r, "purge", "bad", Null, World')
      BY <1>0, <1>l, <2>0, <3>2 DEF Lawful
    <3> QED
      BY <1>0, <1>f, <2>0, <3>1, <3>3, KeptLooks
  <2>3. CASE HashOf[r] \in DOMAIN legacy /\ legacy[HashOf[r]] = "good"
    <3> DEFINE u == LegacyRow(HashOf[r]).url
    <3>1. Moves(r, "legacyNar", ret[r], u)
      BY <1>0, <1>4, <2>3 DEF ReadLegacy, Moves, TypeInv, Control
    <3>2. u = Url(NarOf[Hash(r)], World'.compression)
      BY <1>0, NextWorlds DEF LegacyRow, Url
    <3> HIDE DEF u
    <3>3. kept # {} => Lawful(r, "legacyNar", ret[r], u, World')
      BY <1>0, <1>l, <2>0, <2>g, <3>2 DEF Lawful, LawfulGet
    <3> QED
      BY <1>0, <1>f, <2>0, <3>1, <3>3, KeptLooks
  <2> QED
    BY <1>4, <2>1, <2>2, <2>3 DEF ReadLegacy
<1>5. CASE LegacyNar(r)
  <2>0. pc[r] = "legacyNar" /\ Still /\ UNCHANGED <<ds, dbVars>>
    BY <1>5 DEF LegacyNar, Met
  <2>1. CASE Goto(r, "legacyRow")
    <3>1. Hash(r) \in kept => LawfulGet(r, "legacyRow", ret[r], World')
      BY DEF LawfulGet
    <3> QED
      BY <1>a, <1>f, <2>0, <2>1, <3>1
  <2>2. CASE ~HasNarInStore(url[r]) /\ Call(r, "purge", "legacy")
    <3> DEFINE n == NarOf[Hash(r)]
    <3>1. CASE kept = {}
      BY <3>1 DEF KeptInv
    <3>2. CASE kept # {}
      <4>0. url[r] = Url(n, conf.compression)
        BY <1>k, <2>0, <3>2, Worlds DEF Lawful
      <4>1. url[r] = Url(n, conf.compression) /\ conf.compression \in {"none", "xz"} /\ url[r] \in Urls
        BY <1>0, <4>0 DEF TypeInv, DataInv, Compressions, Url, Urls
      <4>2. NarFileUrl(n) \notin narStore
        BY <2>2, <4>1 DEF HasNarInStore, NarFileUrl, Url
      <4>3. Hash(r) \notin kept
        <5>1. Hash(r) \in kept => Hash(r) \in World'.whole
          BY <1>g, <2>0 DEF LawfulGet
        <5>2. World'.whole = World.whole
          BY <1>k, <2>0, <3>2, WorldStill
        <5> QED
          BY <4>2, <5>1, <5>2, Worlds
      <4>4. conf.compression # "none" /\ Url(n, "none") \in World.recorded
        BY <1>0, <1>k, <3>2, <4>2 DEF Sound
      <4>5. url[r] \in World.recorded
        BY <4>1, <4>4, Worlds DEF Recorded, Url
      <4>6. url[r] \in World.gone
        BY <2>2, <4>1, <4>4, Worlds DEF Recorded, HasNarInStore, Url
      <4>7. World'.recorded = World.recorded /\ World'.gone = World.gone
        BY <1>k, <2>0, <3>2, WorldStill
      <4>8. Lawful(r, "purge", "legacy", url[r], World')
        BY <1>0, <1>l, <2>0, <3>2, <4>3, <4>5, <4>6, <4>7 DEF Lawful
      <4> QED
        BY <1>0, <1>f, <2>0, <2>2, <4>8, KeptCall
    <3> QED
      BY <3>1, <3>2
  <2> QED
    BY <1>5, <2>1, <2>2 DEF LegacyNar
<1>6. CASE WaitForMigration(r, "waitMigration") \/ Miss(r) \/ Joined(r) \/ AssetLegacy(r) \/ UnlockAsset(r)
             \/ AwaitStored(r) \/ ClientLeaves(r) \/ PollLegacy(r) \/ RetryDatabase(r)
  <2>1. PICK state : Goto(r, state) /\ <<pc[r], state>> \in
          {<<"waitMigration", "waitPut">>, <<"miss", "notfound">>, <<"miss", "coord">>, <<"joined", "waitDone">>,
           <<"assetLegacy", "unlock">>, <<"assetLegacy", "create">>, <<"unlock", "final">>,
           <<"await", "waitDone">>, <<"await", "left">>, <<"joined", "left">>, <<"waitDone", "left">>,
           <<"pollLegacy", "final">>, <<"pollLegacy", "db">>, <<"retry", "db">>}
          /\ (state = "notfound" => conf.uploadOnly)
    BY <1>6 DEF WaitForMigration, Miss, Joined, AssetLegacy, UnlockAsset, AwaitStored, ClientLeaves, PollLegacy,
                RetryDatabase
  <2>2. Still /\ UNCHANGED ds
    BY <1>6 DEF WaitForMigration, Miss, Joined, AssetLegacy, UnlockAsset, AwaitStored, ClientLeaves, PollLegacy,
                RetryDatabase, Met
  <2>3. Hash(r) \in kept => LawfulGet(r, state, ret[r], World')
    <3>1. World'.uploadOnly = conf.uploadOnly
      BY NextWorlds
    <3> QED
      BY <1>g, <2>1, <2>2, <3>1 DEF LawfulGet
  <2> QED
    BY <1>a, <1>f, <2>1, <2>2, <2>3
<1>7. CASE WaitFails(r) \/ RetryExhausted(r) \/ PollTimeout(r) \/ WaitDone(r)
  <2>1. PICK state : Goto(r, state) /\ state \in {"failed", "final"} /\ (state = "final" => pc[r] = "waitDone")
                        /\ (state = "failed" /\ pc[r] = "waitDone" => err[ds[r]])
    BY <1>7 DEF WaitFails, RetryExhausted, PollTimeout, WaitDone
  <2>2. Still /\ UNCHANGED ds
    BY <1>0, <1>7 DEF WaitFails, RetryExhausted, PollTimeout, WaitDone, Met
  <2>3. pc[r] \in {"waitMigration", "waitPut", "retry", "pollLegacy", "waitDone"}
    BY <1>7 DEF WaitFails, RetryExhausted, PollTimeout, WaitDone
  <2>4. Hash(r) \in kept => LawfulGet(r, state, ret[r], World')
    BY <1>g, <2>1, <2>2, <2>3 DEF LawfulGet
  <2>5. kept # {} => Excused(r, state)
    <3> SUFFICES ASSUME kept # {}, HashOf[r] \in kept, state = "failed"
                 PROVE  r \in World'.faulty \/ Pull(ds[r]) \in World'.faulty
      BY DEF Excused
    <3>1. CASE WaitFails(r)
      BY <1>0, <2>2, <3>1, FaultyGrows DEF WaitFails
    <3>2. CASE RetryExhausted(r) \/ PollTimeout(r)
      <4>1. pc[r] \in {"retry", "pollLegacy"}
        BY <3>2 DEF RetryExhausted, PollTimeout
      <4> QED
        BY <1>0, <1>g, <2>2, <4>1 DEF LawfulGet
    <3>3. CASE WaitDone(r)
      <4>1. err[ds[r]]
        BY <2>1, <3>3 DEF WaitDone
      <4>2. ds[r] \in Gets /\ HashOf[ds[r]] = HashOf[r]
        BY DEF TypeInv, SyncInv, WaitInv
      <4>3. Pull(ds[r]) \in World.faulty
        BY <1>k, <4>1, <4>2 DEF Blame
      <4> QED
        BY <2>2, <4>3, FaultyGrows
    <3> QED
      BY <1>7, <3>1, <3>2, <3>3
  <2> QED
    BY <1>a, <2>1, <2>2, <2>4, <2>5
\* A request that joins a download.
<1>j. ASSUME NEW state, state \in {"lock", "joined", "await"}, Goto(r, state), Still,
             NEW d, ds' = [ds EXCEPT ![r] = d] \/ ds' = ds, Hash(r) \in kept => Hash(r) \in World'.migrated
      PROVE  KeptInv'
  <2>1. Moves(r, state, ret[r], url[r])
    BY <1>0, <1>j, GotoMoves DEF TypeInv, Unless, UnlessUrl, Final
  <2>2. pc'[r] = state /\ \A q \in Procs \ {r} : pc'[q] = pc[q]
    BY <1>0, <2>1, Moved DEF TypeInv
  <2>3. \A q \in Gets : q \in Procs /\ (q # r => ds'[q] = ds[q])
    BY <1>j, Kinds DEF TypeInv, SyncInv
  <2>4. kept # {} => Blame'
    BY <1>k, <1>j, <2>2, <2>3, BlameStays
  <2>5. kept # {} => L(state, ret[r], url[r])
    <3>1. Hash(r) \in kept => LawfulGet(r, state, ret[r], World')
      BY <1>j DEF LawfulGet
    <3> QED
      BY <1>j, <1>l, <1>p, <3>1
  <2>6. kept # {} => Sound' /\ Grows(World, World')
    BY <1>j, <1>k, WorldStill
  <2> QED
    BY <1>0, <2>1, <2>4, <2>5, <2>6, KeptMoves DEF L
<1>8. CASE FindJob(r)
  <2>1. pc[r] = "coord" /\ Still
    BY <1>8 DEF FindJob, Met
  <2>2. Hash(r) \in kept => Hash(r) \in World'.migrated
    BY <1>g, <2>1 DEF LawfulGet
  <2> QED
    BY <1>8, <1>j, <2>1, <2>2 DEF FindJob
<1>9. CASE CreateJob(r)
  <2> DEFINE p == Pull(r)
  <2>1. pc[r] = "create" /\ Still
    BY <1>9 DEF CreateJob, Met
  <2>2. Hash(r) \in kept => Hash(r) \in World'.migrated
    BY <1>g, <2>1 DEF LawfulGet
  <2>3. CASE /\ ds' = [ds EXCEPT ![r] = jobs[ServerOf[r]][HashOf[r]]]
             /\ Goto(r, "await")
    BY <1>j, <2>1, <2>2, <2>3
  <2>4. CASE /\ ds' = [ds EXCEPT ![r] = r] /\ UNCHANGED <<ret, url>>
             /\ pc' = [pc EXCEPT ![r] = "await", ![p] = "pullMigration"]
    <3>1. p \in Procs /\ p \in Pulls /\ Hash(p) = Hash(r) /\ p # r
      BY <1>0, Processes
    <3>2. p \notin Gets /\ p \notin Chunkings /\ p \notin Migrations /\ p \notin Puts /\ p \notin Deletes
      BY <3>1, Kinds
    <3>3. \A q \in Procs : pc'[q] = IF q = p THEN "pullMigration" ELSE IF q = r THEN "await" ELSE pc[q]
      BY <1>0, <2>4, <3>1 DEF TypeInv, Control
    <3> SUFFICES ASSUME kept # {}
                 PROVE  Sound' /\ Blame' /\ \A q \in Procs : Lawful(q, pc'[q], ret'[q], url'[q], World')
      BY DEF KeptInv, Lawful, LawfulGet, Hash, RequestOf
    <3>4. Sound' /\ Grows(World, World')
      BY <1>k, <2>1, WorldStill
    <3>5. Blame'
      <4>1. \A q \in Gets : q \in Procs /\ q # p
        BY <3>2, Kinds
      <4>2. \A q \in Gets : q # r => pc'[q] = pc[q] /\ ds'[q] = ds[q]
        BY <2>4, <3>3, <4>1 DEF TypeInv, SyncInv
      <4>3. pc'[r] # "failed"
        BY <1>0, <3>1, <3>3
      <4> QED
        BY <1>k, <2>1, <4>2, <4>3, BlameStays
    <3>6. \A q \in Procs : Lawful(q, pc[q], ret[q], url[q], World')
      BY <3>4, LawfulGrows DEF KeptInv
    <3>7. Lawful(r, "await", ret[r], url[r], World')
      <4>1. Hash(r) \in kept => LawfulGet(r, "await", ret[r], World')
        BY <2>2 DEF LawfulGet
      <4> QED
        BY <1>l, <1>p, <2>1, <4>1 DEF L
    <3>8. Lawful(p, "pullMigration", ret[p], url[p], World')
      <4>1. Hash(p) \in World'.kept => Hash(p) \in World'.migrated
        BY <1>l, <2>1, <2>2, <3>1
      <4> QED
        BY <3>2, <4>1 DEF Lawful
    <3>9. ASSUME NEW q \in Procs PROVE Lawful(q, pc'[q], ret'[q], url'[q], World')
      <4>1. ret'[q] = ret[q] /\ url'[q] = url[q]
        BY <2>4
      <4>2. CASE q = p
        BY <3>3, <3>8, <4>1, <4>2
      <4>3. CASE q = r
        BY <3>1, <3>3, <3>7, <4>1, <4>3
      <4>4. CASE q # p /\ q # r
        BY <3>3, <3>6, <4>1, <4>4
      <4> QED
        BY <4>2, <4>3, <4>4
    <3> QED
      BY <3>4, <3>5, <3>9
  <2> QED
    BY <1>9, <2>3, <2>4 DEF CreateJob
<1>10. CASE Hit(r)
  <2>1. Still /\ UNCHANGED ds
    BY <1>10 DEF Hit, Met
  <2> DEFINE c == IF conf.cdc /\ url[r][2] # "none" THEN "trylock" ELSE pc[ToChunks(r)]
             m == pc[Migration(r)]
  <2>2. pc' = [pc EXCEPT ![r] = "found", ![Migration(r)] = m, ![ToChunks(r)] = c]
    <3>1. /\ Migration(r) \in Procs /\ Migration(r) # r /\ ToChunks(r) # r
          /\ ToChunks(r) # Migration(r)
      BY Processes, Kinds
    <3> QED
      BY <1>0, <1>10, <3>1 DEF Hit, TypeInv, Control
  <2>3. ret' = [ret EXCEPT ![r] = "none"] /\ url' = [url EXCEPT ![r] = Null]
    BY <1>10 DEF Hit
  <2>4. c = pc[ToChunks(r)] \/ (c = "trylock" /\ conf.cdc)
    OBVIOUS
  <2> HIDE DEF c, m
  <2> QED
    BY <2>1, <2>2, <2>3, <2>4, AnswerKept DEF m
<1>11. CASE LegacyFound(r) \/ LegacyFails(r)
  <2>1. Still /\ UNCHANGED ds
    BY <1>0, <1>11 DEF LegacyFound, LegacyFails, Met
  <2>2. LegacyFails(r) => r \in World'.faulty
    BY <1>0, <2>1, FaultyGrows DEF LegacyFails
  <2>3. CASE LegacyFails(r) /\ Goto(r, "failed")
    <3>1. Hash(r) \in kept => LawfulGet(r, "failed", ret[r], World')
      BY DEF LawfulGet
    <3>2. Excused(r, "failed")
      BY <2>2, <2>3 DEF Excused
    <3> QED
      BY <1>a, <2>1, <2>3, <3>1, <3>2
  <2>4. ASSUME NEW answer \in {"found", "failed"}, LegacyAnswered(r, answer),
               answer = "failed" => r \in World'.faulty
        PROVE  KeptInv'
    <3> DEFINE c == IF conf.cdc /\ HashOf[r] \in DOMAIN db.narinfos THEN "trylock" ELSE pc[ToChunks(r)]
               m == IF HashOf[r] \in GetMigratedNarInfoHashes(db) THEN pc[Migration(r)] ELSE "trylock"
    <3>1. pc' = [pc EXCEPT ![r] = answer, ![Migration(r)] = m, ![ToChunks(r)] = c]
      <4>1. Migration(r) # r /\ ToChunks(r) # r /\ ToChunks(r) # Migration(r)
        BY Processes, Kinds
      <4> QED
        BY <2>4, <4>1 DEF LegacyAnswered, TypeInv, Control
    <3>2. ret' = [ret EXCEPT ![r] = "none"] /\ url' = [url EXCEPT ![r] = Null]
      BY <2>4 DEF LegacyAnswered
    <3>3. c = pc[ToChunks(r)] \/ (c = "trylock" /\ conf.cdc)
      OBVIOUS
    <3>4. m \in {pc[Migration(r)], "trylock"}
      OBVIOUS
    <3> HIDE DEF c, m
    <3> QED
      BY <2>1, <2>4, <3>1, <3>2, <3>3, <3>4, AnswerKept
  <2> QED
    BY <1>11, <2>2, <2>3, <2>4 DEF LegacyFound, LegacyFails
<1>12. CASE GetNarInfoFromDatabase(r)
  BY <1>12, DatabaseKept
<1> QED
  BY <1>1, <1>2, <1>3, <1>4, <1>5, <1>6, <1>7, <1>8, <1>9, <1>10, <1>11, <1>12 DEF GetStep

\* The file of a narinfo is there, or the record of its chunks.
LEMMA NarIsThere ==
    ASSUME TypeInv, Sound, NEW h \in NarInfos
    PROVE  NarUrl(h) \in World.has
<1>1. NarUrl(h) = Url(NarOf[h], conf.compression) /\ NarOf[h] \in Nars /\ conf.compression \in {"none", "xz"}
  BY NarInfoAssumption DEF NarUrl, TypeInv, DataInv, Compressions
<1>2. NarUrl(h) \in Urls
  BY <1>1 DEF Url, Urls, Compressions
<1>3. CASE NarFileUrl(NarOf[h]) \in narStore
  BY <1>1, <1>2, <1>3, Worlds DEF NarFileUrl, HasNarInStore, Url
<1>4. CASE Url(NarOf[h], "none") \in World.recorded
  BY <1>1, <1>2, <1>4, Worlds DEF Recorded, Url
<1> QED
  BY <1>1, <1>3, <1>4 DEF Sound

\* What a pull or a PUT stores has its NAR, as a file or in chunks.
LEMMA StoredIsThere ==
    ASSUME TypeInv, Sound, NEW h \in NarInfos, NEW claimed
    PROVE  /\ Normalized(h, claimed).url \in World.has
                \/ (conf.cdc /\ Normalized(h, claimed).url[2] = "none")
           /\ LegacyRow(h).url \in World.has
<1>1. NarUrl(h) \in World.has
  BY NarIsThere
<1>2. ~conf.cdc => Normalized(h, claimed).url = NarUrl(h)
  BY DEF Normalized, NarUrl
<1>3. conf.cdc => Normalized(h, claimed).url[2] = "none"
  BY DEF Normalized, Url
<1>4. LegacyRow(h).url = NarUrl(h)
  BY DEF LegacyRow, NarUrl
<1> QED
  BY <1>1, <1>2, <1>3, <1>4

\* by a pull, which gets as far as upstream for a kept narinfo only after an error;
LEMMA PullKept ==
    ASSUME TypeInv, KeptInv, NEW d \in Gets, PullStep(d), UNCHANGED <<conf, kept>>
    PROVE  KeptInv'
<1> DEFINE p == Pull(d)
<1>0. /\ p \in Procs /\ p \in Pulls /\ Hash(p) = HashOf[d] /\ HashOf[d] \in NarInfos
      /\ p \notin Gets /\ p \notin Migrations /\ p \notin Chunkings /\ p \notin Puts /\ p \notin Deletes
  BY Processes, Kinds DEF Requests
<1>k. kept # {} => Sound /\ Blame /\ Lawful(p, pc[p], ret[p], url[p], World)
  BY <1>0 DEF KeptInv
<1> HIDE DEF p
\* What holds of a pull of a kept narinfo, in a world that has grown.
<1>l. ASSUME kept # {}, Grows(World, World'), Active(pc[p]), Hash(p) \in kept
      PROVE  /\ Hash(p) \in World'.kept => Hash(p) \in World'.migrated
             /\ pc[p] \in {"fetch", "nar", "sign", "save"} => p \in World'.faulty
  <2>1. Lawful(p, pc[p], ret[p], url[p], World) /\ World.kept = kept
    BY <1>k, <1>l, Worlds
  <2>2. Hash(p) \in World.migrated /\ (pc[p] \in {"fetch", "nar", "sign", "save"} => p \in World.faulty)
    BY <1>0, <1>l, <2>1 DEF Lawful
  <2> QED
    BY <1>l, <2>2 DEF Grows, Extends
<1>n. ASSUME kept # {}, Grows(World, World'), Active(pc[p]), NEW state,
             state \notin Purges \cup {"store", "chunks", "job", "remote", "record", "legacyNar"},
             state \in {"fetch", "nar", "sign", "save"} => pc[p] \in {"fetch", "nar", "sign"}, NEW return, NEW u
      PROVE  Lawful(p, state, return, u, World')
  <2>1. World'.kept \subseteq kept
    BY <1>n, Worlds DEF Grows, Extends
  <2> QED
    BY <1>0, <1>l, <1>n, <2>1 DEF Lawful
<1>x. \A state : Excused(p, state)
  BY <1>0 DEF Excused
<1>a. ASSUME NEW state, Goto(p, state), UNCHANGED <<dbVars, ds, err>>, Met, Active(pc[p]),
             state \notin Purges \cup Looks \cup {"legacyNar"},
             state \in {"fetch", "nar", "sign", "save"} => pc[p] \in {"fetch", "nar", "sign"}
      PROVE  KeptInv'
  <2>1. kept # {} => Grows(World, World')
    BY <1>a, <1>k, WorldStill
  <2>2. kept # {} => Lawful(p, state, ret[p], url[p], World')
    BY <1>a, <1>n, <2>1 DEF Looks
  <2> QED
    BY <1>0, <1>a, <1>x, <2>2, KeptGoto
\* The pull fails.
<1>f. ASSUME PullFails(d), Met, UNCHANGED <<dbVars, ds>>, Active(pc[p]),
             pc[p] = "fetch" \/ p \in World'.faulty
      PROVE  KeptInv'
  <2>1. kept # {} => Sound' /\ Grows(World, World')
    BY <1>f, <1>k, WorldStill
  <2>2. Goto(p, "close") /\ err' = [err EXCEPT ![d] = TRUE]
    BY <1>f DEF PullFails, p
  <2>3. Moves(p, "close", ret[p], url[p])
    BY <1>0, <2>2, GotoMoves DEF TypeInv, Unless, UnlessUrl, Final
  <2>4. kept # {} /\ Hash(p) \in kept => p \in World'.faulty
    BY <1>f, <1>l, <2>1
  <2>5. kept # {} => Blame'
    <3>1. \A q \in Gets : (q # d => err'[q] = err[q]) /\ q \in Procs /\ q # p
      BY <1>0, <2>2, Kinds DEF TypeInv, SyncInv
    <3>2. \A q \in Procs \ {p} : pc'[q] = pc[q]
      BY <1>0, <2>3, Moved DEF TypeInv
    <3>3. World.faulty \subseteq World'.faulty
      BY <1>f, FaultyGrows
    <3>4. kept # {} /\ HashOf[d] \in kept => Pull(d) \in World'.faulty
      BY <1>0, <2>4 DEF p
    <3> QED
      BY <1>f, <1>k, <3>1, <3>2, <3>3, <3>4 DEF Blame
  <2>6. kept # {} => Lawful(p, "close", ret[p], url[p], World')
    BY <1>f, <1>n, <2>1 DEF Purges
  <2> QED
    BY <1>0, <2>1, <2>3, <2>5, <2>6, KeptMoves
<1> USE DEF At, dsVars, Final, Active
<1>1. CASE WaitForMigration(p, "pullMigration")
  BY <1>1, <1>a DEF WaitForMigration, Met, Purges, Looks
<1>2. CASE WaitForPut(p)
  <2>1. Call(p, "db", "pull") /\ UNCHANGED <<dbVars, ds, err>> /\ Met /\ pc[p] = "waitPut"
    BY <1>0, <1>2 DEF WaitForPut, Met
  <2>2. kept # {} => Grows(World, World')
    BY <1>k, <2>1, WorldStill
  <2>3. kept # {} => Lawful(p, "db", "pull", url[p], World')
    BY <1>n, <2>1, <2>2 DEF Purges
  <2> QED
    BY <1>0, <1>x, <2>1, <2>3, KeptCall
<1>3. CASE GetNarInfoFromDatabase(p)
  BY <1>0, <1>3, DatabaseKept
<1>4. CASE (FetchNarInfo(d) /\ conf.upstream) \/ PrePullNar(d) \/ PrePullNarFails(d) \/ SignNarInfo(d) \/ SignFails(d)
  <2>1. PICK state : Goto(p, state) /\ <<pc[p], state>> \in
          {<<"fetch", "nar">>, <<"nar", "sign">>, <<"sign", "save">>, <<"sign", "close">>}
    BY <1>4 DEF FetchNarInfo, PrePullNar, PrePullNarFails, SignNarInfo, SignFails, p
  <2>2. UNCHANGED <<dbVars, ds, err>> /\ Met
    BY <1>0, <1>4 DEF FetchNarInfo, PrePullNar, PrePullNarFails, SignNarInfo, SignFails, Met, p
  <2>3. Active(pc[p]) /\ state \in {"nar", "sign", "save", "close"} /\ pc[p] \in {"fetch", "nar", "sign"}
    BY <2>1
  <2> QED
    BY <1>a, <2>1, <2>2, <2>3 DEF Purges, Looks
<1>5. CASE (FetchNarInfo(d) /\ ~conf.upstream) \/ PullWaitFails(d) \/ StorePulledFails(d)
  <2>1. PullFails(d) /\ UNCHANGED <<dbVars, ds>> /\ Met
    BY <1>0, <1>5 DEF FetchNarInfo, PullWaitFails, StorePulledFails, Met, p
  <2>2. pc[p] \in {"fetch", "pullMigration", "waitPut", "save"}
    BY <1>5 DEF FetchNarInfo, PullWaitFails, StorePulledFails, p
  <2>3. pc[p] = "fetch" \/ p \in World'.faulty
    BY <1>0, <1>5, <2>1, FaultyGrows DEF FetchNarInfo, PullWaitFails, StorePulledFails, p
  <2> QED
    BY <1>f, <2>1, <2>2, <2>3
<1>6. CASE StorePulled(d)
  <2> DEFINE h == HashOf[d]
             row == Normalized(h, "actual")
  <2>1. /\ Goto(p, "close") /\ pc[p] = "save" /\ UNCHANGED <<legacy, narStore, ds, err>> /\ Met
        /\ db' = Stored(db, h, row)
    BY <1>6 DEF StorePulled, Met, p
  <2>2. Moves(p, "close", ret[p], url[p])
    BY <1>0, <2>1, GotoMoves DEF TypeInv, Unless, UnlessUrl
  <2>3. row \in NarInfoRow /\ row.url # Null
    BY <1>0, Rows DEF TypeInv, Sizes
  <2>4. kept # {} => row.url \in World.has \/ (conf.cdc /\ row.url[2] = "none")
    BY <1>0, <1>k, StoredIsThere
  <2> HIDE DEF row
  <2>5. kept # {} => Sound' /\ Grows(World, World')
    BY <1>0, <1>k, <2>1, <2>3, <2>4, WorldStored
  <2>6. kept # {} => Lawful(p, "close", ret[p], url[p], World')
    BY <1>n, <2>1, <2>5 DEF Purges
  <2>7. kept # {} => Blame'
    BY <1>0, <1>k, <2>1, <2>2, BlameMoves
  <2> QED
    BY <1>0, <2>2, <2>5, <2>6, <2>7, KeptMoves
<1>7. CASE PullCloses(d)
  BY <1>7, <1>a DEF PullCloses, Met, Purges, Looks, p
<1> QED
  BY <1>1, <1>2, <1>3, <1>4, <1>5, <1>6, <1>7 DEF PullStep, FetchNarInfo, p

\* by a migration, which deletes the file once the row is there;
LEMMA MigrateKept ==
    ASSUME TypeInv, KeptInv, NEW r \in Gets, MigrateStep(r), UNCHANGED <<conf, kept>>
    PROVE  KeptInv'
<1> DEFINE p == Migration(r)
           h == HashOf[r]
<1>0. /\ p \in Procs /\ p \in Migrations /\ Hash(p) = h /\ h \in NarInfos
      /\ p \notin Gets /\ p \notin Pulls /\ p \notin Chunkings /\ p \notin Puts /\ p \notin Deletes
  BY Processes, Kinds DEF Requests
<1>k. kept # {} => Sound /\ Blame /\ Lawful(p, pc[p], ret[p], url[p], World)
  BY <1>0 DEF KeptInv
<1> HIDE DEF p
<1>n. ASSUME NEW state, state \notin Purges \cup Looks \cup {"legacyNar", "delete"}
      PROVE  Lawful(p, state, ret[p], url[p], World')
  BY <1>0, <1>n DEF Lawful, Looks
<1>x. \A state : Excused(p, state)
  BY <1>0 DEF Excused
<1>1. CASE MigrateLock(r) \/ MigrateLockFails(r) \/ MigrateCheck(r) \/ MigrateUnknown(r) \/ MigrateFails(r)
             \/ MigrateUnlock(r)
  <2> PICK state \in {"check", "ended", "release", "migrate"} : Goto(p, state)
    BY <1>1 DEF MigrateLock, MigrateLockFails, MigrateCheck, MigrateUnknown, MigrateFails, MigrateUnlock, p
  <2>1. UNCHANGED <<dbVars, ds, err>> /\ Met
    BY <1>0, <1>1 DEF MigrateLock, MigrateLockFails, MigrateCheck, MigrateUnknown, MigrateFails, MigrateUnlock,
                      dsVars, Met, p
  <2>2. Lawful(p, state, ret[p], url[p], World')
    BY <1>n DEF Purges, Looks
  <2> QED
    BY <1>0, <1>x, <2>1, <2>2, KeptGoto
<1>2. CASE MigrateStore(r)
  <2> DEFINE row == LegacyRow(h)
  <2>1. Goto(p, "delete") /\ UNCHANGED <<legacy, narStore, ds, err>> /\ Met /\ db' = Stored(db, h, row)
    BY <1>2 DEF MigrateStore, dsVars, Met, p
  <2>2. Moves(p, "delete", ret[p], url[p])
    BY <1>0, <2>1, GotoMoves DEF TypeInv, Unless, UnlessUrl, Final
  <2>3. row \in NarInfoRow /\ row.url # Null
    BY <1>0, Rows DEF TypeInv, Sizes
  <2>4. kept # {} => row.url \in World.has
    BY <1>0, <1>k, StoredIsThere
  <2> HIDE DEF row
  <2>5. kept # {} => Sound' /\ Grows(World, World') /\ h \in World'.migrated
    BY <1>0, <1>k, <2>1, <2>3, <2>4, WorldStored
  <2>6. kept # {} => Lawful(p, "delete", ret[p], url[p], World')
    BY <1>0, <2>5 DEF Lawful, Purges
  <2>7. kept # {} => Blame'
    BY <1>0, <1>k, <2>1, <2>2, BlameMoves
  <2> QED
    BY <1>0, <2>2, <2>5, <2>6, <2>7, KeptMoves
<1>3. CASE MigrateDelete(r)
  <2>1. /\ Goto(p, "release") /\ pc[p] = "delete" /\ legacy' = Remove(legacy, {h})
        /\ UNCHANGED <<db, narStore, ds, err>> /\ Met
    BY <1>3 DEF MigrateDelete, At, dsVars, Met, p
  <2>2. Moves(p, "release", ret[p], url[p])
    BY <1>0, <2>1, GotoMoves DEF TypeInv, Unless, UnlessUrl, Final
  <2>3. kept # {} => (h \in kept => h \in World.migrated)
    BY <1>0, <1>k, <2>1, Worlds DEF Lawful
  <2>4. kept # {} => Sound' /\ Grows(World, World')
    BY <1>k, <2>1, <2>3, WorldMigrated
  <2>5. kept # {} => Blame'
    BY <1>0, <1>k, <2>1, <2>2, BlameMoves
  <2>6. Lawful(p, "release", ret[p], url[p], World')
    BY <1>n DEF Purges, Looks
  <2> QED
    BY <1>0, <2>2, <2>4, <2>5, <2>6, KeptMoves
<1> QED
  BY <1>1, <1>2, <1>3 DEF MigrateStep

\* by the migration of a NAR to chunks, up to the deletion of the file;
LEMMA ChunksKept ==
    ASSUME TypeInv, KeptInv, NEW r \in Gets, ChunksStep(r), UNCHANGED <<conf, kept>>
    PROVE  KeptInv'
<1> DEFINE p == ToChunks(r)
           n == NarOf[HashOf[r]]
           v == NarUrl(HashOf[r])
<1>0. /\ p \in Procs /\ p \in Chunkings /\ Hash(p) = HashOf[r] /\ HashOf[r] \in NarInfos /\ n \in Nars
      /\ p \notin Gets /\ p \notin Pulls /\ p \notin Migrations /\ p \notin Puts /\ p \notin Deletes
  BY Processes, Kinds, NarInfoAssumption DEF Requests
<1>u. /\ v = Url(n, conf.compression) /\ v \in Urls /\ v[1] = n /\ v[2] = conf.compression
      /\ Url(n, "none") \in Urls
  BY <1>0 DEF NarUrl, TypeInv, DataInv, Url, Urls, Compressions
<1>k. kept # {} => Sound /\ Blame /\ Lawful(p, pc[p], ret[p], url[p], World)
  BY <1>0 DEF KeptInv
<1> HIDE DEF p
\* What it has found out.
<1>l. ASSUME kept # {}
      PROVE  /\ Active(pc[p]) => conf.cdc
             /\ pc[p] \in {"begin", "chunking", "relink", "clean", "delete"} => conf.compression # "none"
             /\ pc[p] \in {"chunking", "relink", "clean", "delete"} => v \in World.recorded
  BY <1>0, <1>k, <1>l, <1>u, Worlds DEF Lawful
<1>r. /\ v \in World.recorded <=> conf.cdc /\ Url(n, "none") \in DOMAIN db.nar_files
      /\ v \in World'.recorded <=> conf.cdc /\ Url(n, "none") \in DOMAIN db'.nar_files
  BY <1>u, Worlds, NextWorlds DEF Recorded, Url
<1>n. ASSUME NEW state, kept # {}, conf.cdc,
             state \in {"begin", "chunking", "relink", "clean", "delete"} => conf.compression # "none",
             state \in {"chunking", "relink", "clean", "delete"} => v \in World'.recorded,
             state \notin Looks \cup Purges \cup {"legacyNar"}, NEW return, NEW u
      PROVE  Lawful(p, state, return, u, World')
  <2>1. World'.cdc = conf.cdc /\ World'.compression = conf.compression
    BY NextWorlds
  <2>2. Url(NarOf[Hash(p)], World'.compression) = v
    BY <1>0, <1>u, <2>1
  <2> QED
    BY <1>0, <1>n, <2>1, <2>2 DEF Lawful, Looks
<1>x. \A state : Excused(p, state)
  BY <1>0 DEF Excused
\* A step that keeps the world.
<1>a. ASSUME NEW state, Goto(p, state), state \notin Looks \cup Purges \cup {"legacyNar"},
             Active(pc[p]), Met, UNCHANGED <<ds, err>>,
             kept # {} => Sound' /\ Grows(World, World'),
             kept # {} => /\ state \in {"begin", "chunking", "relink", "clean", "delete"} => conf.compression # "none"
                          /\ state \in {"chunking", "relink", "clean", "delete"} => v \in World'.recorded
      PROVE  KeptInv'
  <2>1. Moves(p, state, Unless(state, ret[p]), UnlessUrl(state, url[p]))
    BY <1>0, <1>a, GotoMoves DEF TypeInv
  <2>2. kept # {} => Blame'
    BY <1>0, <1>a, <1>k, <2>1, BlameMoves
  <2>3. kept # {} => Lawful(p, state, Unless(state, ret[p]), UnlessUrl(state, url[p]), World')
    BY <1>a, <1>l, <1>n
  <2> QED
    BY <1>0, <1>a, <2>1, <2>2, <2>3, KeptMoves
<1>g. kept # {} /\ Grows(World, World') => World.recorded \subseteq World'.recorded
  BY DEF Grows, Extends
<1> USE DEF At, dsVars
<1>1. CASE ChunksLock(r) \/ ChunksOpen(r) \/ ChunksGoOn(r)
  <2>1. /\ UNCHANGED <<dbVars, ds, err>> /\ Met
        /\ pc[p] \in {"trylock", "open", "relink", "clean"}
    BY <1>0, <1>1 DEF ChunksLock, ChunksOpen, ChunksGoOn, Met, p
  <2>2. kept # {} => Sound' /\ Grows(World, World')
    BY <1>k, <2>1, WorldStill
  <2>3. CASE ChunksLock(r)
    <3> PICK state \in {"ended", "open"} : Goto(p, state)
      BY <2>3 DEF ChunksLock, p
    <3> QED
      BY <1>a, <2>1, <2>2 DEF Looks, Purges, Active, Final
  <2>4. CASE ChunksOpen(r)
    <3>1. PICK state : Goto(p, state) /\ pc[p] = "open" /\
            (state = "ended" \/ (state = "clean" /\ v[2] # "none" /\ HasNarInChunks(v)) \/ (state = "begin" /\ v \in narStore))
      BY <2>4 DEF ChunksOpen, p
    <3>2. kept # {} /\ state = "clean" => v \in World'.recorded
      <4>1. v[2] # "none" => v \notin DOMAIN db.nar_files \/ db.nar_files[v].total = 0
        BY DEF TypeInv, DataInv, Tables
      <4>2. v[2] # "none" /\ HasNarInChunks(v) => Url(n, "none") \in DOMAIN db.nar_files
        BY <1>u, <4>1 DEF HasNarInChunks, HasNarFileRecord, getNarFileFromDB, GetNarFileByHashAndCompressionAndQuery, Url
      <4> QED
        BY <1>l, <1>r, <2>1, <3>1, <4>2 DEF dbVars, Active, Final
    <3>3. kept # {} /\ state = "begin" => conf.compression # "none"
      BY <1>0, <1>k, <1>l, <1>u, <3>1 DEF Sound, Active, Final
    <3>4. state \in {"ended", "clean", "begin"} /\ (state = "clean" => conf.compression # "none")
      BY <1>u, <3>1
    <3> QED
      BY <1>a, <2>1, <2>2, <3>1, <3>2, <3>3, <3>4 DEF Looks, Purges, Active, Final
  <2>5. CASE ChunksGoOn(r)
    <3>1. PICK state \in {"clean", "delete"} : Goto(p, state) /\ pc[p] \in {"relink", "clean"}
      BY <2>5 DEF ChunksGoOn, p
    <3> QED
      BY <1>a, <1>g, <1>l, <2>1, <2>2, <3>1 DEF Looks, Purges, Active, Final
  <2> QED
    BY <1>1, <2>3, <2>4, <2>5
<1>2. CASE ChunksBegin(r) \/ ChunksComplete(r) \/ ChunksFail(r)
  <2>1. /\ UNCHANGED <<legacy, narStore, ds, err>> /\ Met
        /\ pc[p] \in {"trylock", "open", "begin", "chunking"}
    BY <1>0, <1>2 DEF ChunksBegin, ChunksComplete, ChunksFail, Met, p
  <2>2. Keeps(db, db')
    <3>1. Keeps(db, db) /\ Keeps(db, Chunking(db, n)) /\ Keeps(db, Chunked(db, n))
          /\ Keeps(db, ClearNarFileChunkingStarted(db, Url(n, "none")))
      BY <1>0, ChunkingTables, ChunkedTables, SetStartedTables DEF TypeInv, DataInv, Keeps, ClearNarFileChunkingStarted
    <3> QED
      BY <1>2, <3>1 DEF ChunksBegin, ChunksComplete, ChunksFail
  <2>3. kept # {} => Sound' /\ Grows(World, World')
    BY <1>k, <2>1, <2>2, WorldKeeps
  <2>4. PICK state : /\ Goto(p, state)
                     /\ \/ state = "ended"
                        \/ state = "relink" /\ pc[p] = "chunking"
                        \/ /\ state = "clean" /\ pc[p] = "begin"
                           /\ HasNarInChunks(Url(n, "none")) \/ ChunkingInProgress(n)
                        \/ state = "chunking" /\ pc[p] = "begin" /\ db' = Chunking(db, n)
    BY <1>2 DEF ChunksBegin, ChunksComplete, ChunksFail, p
  <2>5. state \in {"ended", "relink", "clean", "chunking"} /\ Active(pc[p])
    BY <2>1, <2>4 DEF Active, Final
  <2>6. kept # {} /\ state # "ended" => conf.compression # "none"
    BY <1>l, <2>4
  <2>7. kept # {} /\ state # "ended" => v \in World'.recorded
    <3>1. CASE state = "relink"
      BY <1>g, <1>l, <2>3, <2>4, <3>1
    <3>2. CASE state = "clean"
      <4>1. HasNarInChunks(Url(n, "none")) \/ ChunkingInProgress(n)
        BY <2>4, <3>2
      <4>2. HasNarInChunks(Url(n, "none")) => Url(n, "none") \in DOMAIN db.nar_files
        BY DEF HasNarInChunks, HasNarFileRecord, getNarFileFromDB, GetNarFileByHashAndCompressionAndQuery, Url
      <4>3. Url(n, "none") \in DOMAIN db.nar_files
        BY <4>1, <4>2 DEF ChunkingInProgress
      <4> QED
        BY <1>g, <1>l, <1>r, <2>3, <2>5, <4>3
    <3>3. CASE state = "chunking"
      <4>1. Url(n, "none") \in DOMAIN db'.nar_files
        BY <1>0, <2>4, <3>3, ChunkingTables DEF TypeInv, DataInv
      <4> QED
        BY <1>l, <1>r, <2>5, <4>1
    <3> QED
      BY <2>5, <3>1, <3>2, <3>3
  <2> QED
    BY <1>a, <2>1, <2>3, <2>4, <2>5, <2>6, <2>7 DEF Looks, Purges
<1>3. CASE ChunksRelink(r)
  <2>1. /\ Goto(p, "clean") /\ pc[p] = "relink" /\ UNCHANGED <<legacy, narStore, ds, err>> /\ Met
        /\ db' = Relinked(db, v)
    BY <1>3 DEF ChunksRelink, Met, p
  <2>2. Keeps(db, db)
    BY DEF TypeInv, DataInv, Keeps
  <2>3. kept # {} => Sound' /\ Grows(World, World')
    BY <1>k, <2>1, <2>2, WorldRelinked
  <2> QED
    BY <1>a, <1>g, <1>l, <2>1, <2>3 DEF Looks, Purges, Active, Final
<1>4. CASE ChunksClean(r)
  <2>1. /\ Goto(p, "delete") /\ pc[p] = "clean" /\ UNCHANGED <<legacy, narStore, ds, err>> /\ Met
        /\ db' = UpdateNarInfoCompressionFileSizeHashAndURL(db, v, Url(v[1], "none"), Null, Null)
    BY <1>4 DEF ChunksClean, Met, p
  <2>2. kept # {} => Sound' /\ Grows(World, World')
    BY <1>k, <1>l, <1>u, <2>1, WorldRenamed
  <2> QED
    BY <1>a, <1>g, <1>l, <2>1, <2>2 DEF Looks, Purges, Active, Final
<1> QED
  BY <1>1, <1>2, <1>3, <1>4 DEF ChunksStep

\* by the deletion of the file, which nobody who keeps a narinfo is about to look for;
LEMMA DeleteFileKept ==
    ASSUME TypeInv, KeptInv, NEW r \in Gets, ChunksDeleteFile(r)
    PROVE  KeptInv'
<1> DEFINE p == ToChunks(r)
           n == NarOf[HashOf[r]]
           v == NarUrl(HashOf[r])
<1>0. /\ p \in Procs /\ p \in Chunkings /\ Hash(p) = HashOf[r] /\ HashOf[r] \in NarInfos /\ n \in Nars
      /\ p \notin Gets /\ p \notin Pulls /\ p \notin Migrations /\ p \notin Puts /\ p \notin Deletes
  BY Processes, Kinds, NarInfoAssumption DEF Requests
<1>u. v = Url(n, conf.compression) /\ v \in Urls /\ v[1] = n /\ v[2] = conf.compression
  BY <1>0 DEF NarUrl, TypeInv, DataInv, Url, Urls, Compressions
<1> DEFINE file == IF v \in narStore THEN v ELSE Url(n, "zstd")
<1>1. /\ pc[p] = "delete" /\ Goto(p, "ended") /\ narStore' = narStore \ {file} /\ file[1] = n
      /\ kept' = kept \ {h \in NarInfos : NarOf[h] = n /\ ReadFromLegacy(h)}
      /\ UNCHANGED <<conf, db, legacy, ds, err>> /\ Met
  BY <1>u DEF ChunksDeleteFile, At, dsVars, Met, Url
<1> HIDE DEF p, file
<1> SUFFICES ASSUME kept # {}
             PROVE  Sound' /\ Blame' /\ \A q \in Procs : Lawful(q, pc'[q], ret'[q], url'[q], World')
  BY <1>1 DEF KeptInv, Lawful, LawfulGet, Hash, RequestOf
<1>k. Sound /\ Blame /\ Lawful(p, pc[p], ret[p], url[p], World)
  BY <1>0 DEF KeptInv
<1>l. conf.cdc /\ conf.compression # "none" /\ Url(n, "none") \in DOMAIN db.nar_files
  <2>1. World.cdc /\ World.compression # "none" /\ Url(n, World.compression) \in World.recorded
    BY <1>0, <1>1, <1>k DEF Lawful, Active, Final
  <2>2. Recorded(v)
    BY <1>u, <2>1, Worlds
  <2> QED
    BY <1>u, <2>1, <2>2, Worlds DEF Recorded
\* The record of the chunks stands for every file of the NAR.
<1>2. World'.recorded = World.recorded /\ World'.migrated = World.migrated /\ World'.good = World.good
  BY <1>1, Worlds, NextWorlds DEF Recorded, Url, GetMigratedNarInfoHashes
<1>3. World.has \subseteq World'.has
  <2> SUFFICES ASSUME NEW u \in Urls, HasNarInStore(u) \/ Recorded(u)
               PROVE  HasNarInStore(u)' \/ Recorded(u)'
    BY Worlds, NextWorlds
  <2>1. CASE u[1] = n
    BY <1>1, <1>l, <2>1 DEF Recorded, Url
  <2>2. CASE u[1] # n
    BY <1>1, <2>2 DEF Recorded, HasNarInStore, Url
  <2> QED
    BY <2>1, <2>2
<1>4. kept' \subseteq kept /\ kept' \subseteq NarInfos
  BY <1>1 DEF TypeInv, DataInv
<1>5. \A h \in NarInfos : NarOf[h] # n /\ h \in World.whole => h \in World'.whole
  <2>1. \A h \in NarInfos : NarFileUrl(NarOf[h])' = NarFileUrl(NarOf[h]) /\ NarFileUrl(NarOf[h])[1] = NarOf[h]
    BY <1>1 DEF NarFileUrl, Url
  <2> QED
    BY <1>1, <2>1, Worlds, NextWorlds
<1>6. \A h \in kept' : NarOf[h] = n => ~ReadFromLegacy(h)
  BY <1>1, <1>4
<1>7. Extends(World, World')
  BY <1>1, <1>2, <1>3, <1>4, FaultyGrows, Worlds, NextWorlds DEF Extends
<1>8. Sound'
  <2>1. conf'.cdc => \A m \in Nars : Url(m, "none")' \notin narStore'
    BY <1>1, <1>k DEF Sound, Url
  <2>2. ASSUME NEW m \in Nars
        PROVE  NarFileUrl(m)' \in narStore' \/ (conf'.compression # "none" /\ Url(m, "none")' \in World'.recorded)
    <3>1. NarFileUrl(m)' = NarFileUrl(m) /\ NarFileUrl(m)[1] = m /\ Url(m, "none")' = Url(m, "none")
      BY <1>1 DEF NarFileUrl, Url
    <3>2. CASE m = n
      <4>1. Url(n, "none") \in World.recorded
        BY <1>0, <1>l, Worlds DEF Recorded, Url, Urls, Compressions
      <4> QED
        BY <1>1, <1>2, <1>l, <3>1, <3>2, <4>1
    <3>3. CASE m # n
      BY <1>1, <1>2, <1>k, <3>1, <3>3 DEF Sound
    <3> QED
      BY <3>2, <3>3
  <2>3. \A h \in World'.migrated : db'.narinfos[h].url \in World'.has
    BY <1>1, <1>2, <1>3, <1>k DEF Sound
  <2>4. ASSUME NEW h \in kept' PROVE Kept(h)' /\ (h \in World'.migrated \/ h \in World'.whole)
    <3>1. h \in kept /\ h \in NarInfos
      BY <1>4
    <3>2. Kept(h)'
      BY <1>1, <1>k, <3>1 DEF Sound, Kept, GetMigratedNarInfoHashes
    <3>3. NarOf[h] = n => h \in World.migrated
      BY <1>6, Worlds DEF ReadFromLegacy
    <3>4. h \in World.migrated \/ h \in World.whole
      BY <1>k, <3>1 DEF Sound
    <3> QED
      BY <1>2, <1>5, <3>1, <3>2, <3>3, <3>4
  <2> QED
    BY <2>1, <2>2, <2>3, <2>4 DEF Sound
<1>m. Moves(p, "ended", "none", Null)
  BY <1>0, <1>1, GotoMoves DEF TypeInv, Unless, UnlessUrl, Final
<1>9. Blame'
  <2>1. ~(p \in Gets /\ HashOf[p] \in kept /\ "ended" = "failed")
    OBVIOUS
  <2> QED
    BY <1>0, <1>1, <1>4, <1>k, <1>m, <2>1, BlameMoves
<1>10. ASSUME NEW q \in Procs PROVE Lawful(q, pc'[q], ret'[q], url'[q], World')
  <2>1. CASE q = p
    <3>1. pc'[q] = "ended"
      BY <1>0, <1>m, <2>1, Moved DEF TypeInv
    <3> QED
      BY <1>0, <2>1, <3>1 DEF Lawful, Purges, Active, Final
  <2>2. CASE q # p
    <3>1. pc'[q] = pc[q] /\ ret'[q] = ret[q] /\ url'[q] = url[q]
      BY <1>0, <1>m, <2>2, Moved DEF TypeInv
    <3>2. Lawful(q, pc[q], ret[q], url[q], World)
      BY DEF KeptInv
    <3>3. q \in Gets /\ pc[q] \in {"legacy", "readLegacy", "legacyNar"} /\ Hash(q) \in World'.kept =>
            (Hash(q) \in World.whole => Hash(q) \in World'.whole)
      <4> SUFFICES ASSUME q \in Gets, pc[q] \in {"legacy", "readLegacy", "legacyNar"}, Hash(q) \in kept',
                          Hash(q) \in World.whole
                   PROVE  Hash(q) \in World'.whole
        BY NextWorlds
      <4>1. Hash(q) = HashOf[q] /\ Hash(q) \in NarInfos
        BY Processes DEF Requests
      <4>2. NarOf[Hash(q)] # n
        BY <1>6, <4>1 DEF ReadFromLegacy
      <4> QED
        BY <1>5, <4>1, <4>2
    <3>4. Lawful(q, pc[q], ret[q], url[q], World')
      BY <1>7, <3>2, <3>3, LawfulExtends
    <3> QED
      BY <3>1, <3>4
  <2> QED
    BY <2>1, <2>2
<1> QED
  BY <1>8, <1>9, <1>10

\* by CheckAndFixNarInfo;
LEMMA FixKept ==
    ASSUME TypeInv, KeptInv, NEW p \in Puts \cup Uploads, FixStep(p), UNCHANGED <<conf, kept>>
    PROVE  KeptInv'
<1>0. p \in Procs /\ p \notin Gets
  BY Kinds
<1>k. kept # {} => Sound /\ Blame
  BY <1>0 DEF KeptInv
<1>n. \A w, u, return : \A state \in {"fix", "ended"} : Lawful(p, state, return, u, w)
  BY Kinds DEF Lawful, Looks, Purges
<1>x. \A state : Excused(p, state)
  BY <1>0 DEF Excused
<1>1. CASE CheckNarInfo(p)
  <2>1. UNCHANGED <<dbVars, ds, err>> /\ Met
    BY <1>1 DEF CheckNarInfo, dsVars, Met
  <2>2. CASE Goto(p, "ended")
    BY <1>0, <1>n, <1>x, <2>1, <2>2, KeptGoto
  <2>3. CASE ~Goto(p, "ended")
    <3>1. Moves(p, "fix", ret[p], db.narinfos[Hash(p)].url)
      BY <1>0, <1>1, <2>3 DEF CheckNarInfo, Moves, TypeInv, Control
    <3> QED
      BY <1>0, <1>n, <1>x, <2>1, <3>1, KeptLooks
  <2> QED
    BY <2>2, <2>3
<1>2. CASE FixNarInfo(p)
  <2>1. Moves(p, "ended", Unless("ended", ret[p]), UnlessUrl("ended", url[p]))
    BY <1>0, <1>2, GotoMoves DEF FixNarInfo, TypeInv
  <2>2. Keeps(db, db')
    <3>1. size[p] \in Sizes \cup {Null} /\ Tables(db)
      BY DEF TypeInv, Control, DataInv
    <3> DEFINE a == UpdateNarInfoFileSize(db, Hash(p), Null)
    <3>2. Keeps(db, a) /\ Keeps(db, UpdateNarInfoFileSize(db, Hash(p), size[p])) /\ Keeps(db, db)
      BY <3>1, FileSizeTables DEF Keeps
    <3> HIDE DEF a
    <3>3. Keeps(a, UpdateNarInfoFileHash(a, Hash(p), Null))
      BY <3>2, FileHashTables DEF Keeps
    <3>4. Keeps(db, UpdateNarInfoFileHash(a, Hash(p), Null))
      BY <3>2, <3>3 DEF Keeps
    <3> QED
      BY <1>2, <3>2, <3>4 DEF FixNarInfo, a
  <2>3. UNCHANGED <<legacy, narStore, ds, err>> /\ Met
    BY <1>2 DEF FixNarInfo, dsVars, Met
  <2>4. kept # {} => Sound' /\ Grows(World, World')
    BY <1>k, <2>2, <2>3, WorldKeeps
  <2>5. kept # {} => Blame'
    BY <1>0, <1>k, <2>1, <2>3, BlameMoves
  <2> QED
    BY <1>0, <1>n, <2>1, <2>4, <2>5, KeptMoves
<1> QED
  BY <1>1, <1>2 DEF FixStep

\* by a PUT of a narinfo;
LEMMA PutKept ==
    ASSUME TypeInv, KeptInv, NEW p \in Puts, PutNarInfo(p) \/ PutLockFails(p) \/ PutStep(p),
           UNCHANGED <<conf, kept>>
    PROVE  KeptInv'
<1> DEFINE h == HashOf[p]
<1>0. p \in Procs /\ p \notin Gets /\ p \notin Pulls /\ p \notin Chunkings /\ Hash(p) = h /\ h \in NarInfos
  BY Kinds, Processes DEF Requests
<1>k. kept # {} => Sound /\ Blame /\ Lawful(p, pc[p], ret[p], url[p], World)
  BY <1>0 DEF KeptInv
<1>n. \A w, u, return : \A state \in {"putSave", "failed", "check"} : Lawful(p, state, return, u, w)
  BY Kinds DEF Lawful, Looks, Purges
<1>x. \A state : Excused(p, state)
  BY <1>0 DEF Excused
<1>1. CASE FixStep(p)
  BY <1>1, FixKept
<1>2. CASE PutNarInfo(p) \/ PutLockFails(p) \/ PutFails(p)
  <2> PICK state \in {"putSave", "failed"} : Goto(p, state)
    BY <1>2 DEF PutNarInfo, PutLockFails, PutFails
  <2>1. UNCHANGED <<dbVars, ds, err>> /\ Met
    BY <1>0, <1>2 DEF PutNarInfo, PutLockFails, PutFails, dsVars, Met
  <2> QED
    BY <1>0, <1>n, <1>x, <2>1, KeptGoto
<1>3. CASE PutStore(p)
  <2> DEFINE row == Normalized(h, "claimed")
  <2>1. Goto(p, "putLegacy") /\ UNCHANGED <<legacy, narStore, ds, err>> /\ Met /\ db' = Stored(db, h, row)
    BY <1>3 DEF PutStore, dsVars, Met
  <2>2. Moves(p, "putLegacy", ret[p], url[p])
    BY <1>0, <2>1, GotoMoves DEF TypeInv, Unless, UnlessUrl, Final
  <2>3. row \in NarInfoRow /\ row.url # Null
    BY <1>0, Rows DEF TypeInv, Sizes
  <2>4. kept # {} => row.url \in World.has \/ (conf.cdc /\ row.url[2] = "none")
    BY <1>0, <1>k, StoredIsThere DEF Sizes
  <2> HIDE DEF row
  <2>5. kept # {} => Sound' /\ Grows(World, World') /\ h \in World'.migrated
    BY <1>0, <1>k, <2>1, <2>3, <2>4, WorldStored
  <2>6. kept # {} => Lawful(p, "putLegacy", ret[p], url[p], World')
    BY <1>0, <2>5, Kinds DEF Lawful, Looks, Purges
  <2>7. kept # {} => Blame'
    BY <1>0, <1>k, <2>1, <2>2, BlameMoves
  <2> QED
    BY <1>0, <2>2, <2>5, <2>6, <2>7, KeptMoves
<1>4. CASE PutDeletesLegacy(p)
  <2>1. /\ Goto(p, "check") /\ pc[p] = "putLegacy" /\ legacy' = Remove(legacy, {h})
        /\ UNCHANGED <<db, narStore, ds, err>> /\ Met
    BY <1>4 DEF PutDeletesLegacy, At, dsVars, Met
  <2>2. Moves(p, "check", ret[p], url[p])
    BY <1>0, <2>1, GotoMoves DEF TypeInv, Unless, UnlessUrl, Final
  <2>3. kept # {} => (h \in kept => h \in World.migrated)
    BY <1>0, <1>k, <2>1, Worlds DEF Lawful
  <2>4. kept # {} => Sound' /\ Grows(World, World')
    BY <1>k, <2>1, <2>3, WorldMigrated
  <2>5. kept # {} => Blame'
    BY <1>0, <1>k, <2>1, <2>2, BlameMoves
  <2> QED
    BY <1>0, <1>n, <2>2, <2>4, <2>5, KeptMoves
<1> QED
  BY <1>1, <1>2, <1>3, <1>4 DEF PutStep

\* by an upload of a NAR;
LEMMA UploadKept ==
    ASSUME TypeInv, KeptInv, NEW p \in Uploads, PutNar(p) \/ UploadStep(p), UNCHANGED <<conf, kept>>
    PROVE  KeptInv'
<1> DEFINE u == Url(NarOf[HashOf[p]], conf.compression)
<1>0. p \in Procs /\ p \notin Gets /\ HashOf[p] \in NarInfos
  BY Kinds, Processes DEF Requests
<1>k. kept # {} => Sound /\ Blame
  BY <1>0 DEF KeptInv
<1>n. \A w, v, return : \A state \in {"putNar", "check"} : Lawful(p, state, return, v, w)
  BY Kinds DEF Lawful, Looks, Purges
<1>1. u \in Urls /\ u[1] \in Nars /\ Tables(db)
  BY <1>0, NarInfoAssumption DEF TypeInv, DataInv, Url, Urls, Compressions
<1>2. CASE FixStep(p)
  BY <1>2, FixKept
<1>3. CASE PutNar(p) \/ PutNarRecord(p)
  <2> PICK state \in {"putNar", "check"} : Goto(p, state)
    BY <1>3 DEF PutNar, PutNarRecord
  <2>1. Moves(p, state, ret[p], url[p])
    BY <1>0, GotoMoves DEF TypeInv, Unless, UnlessUrl, Final
  <2>2. UNCHANGED <<legacy, ds, err>> /\ Met /\ (narStore' = narStore \/ (~conf.cdc /\ narStore \subseteq narStore'))
    BY <1>3 DEF PutNar, PutNarRecord, dsVars, Met
  <2>3. Keeps(db, db') \/ \E t : Keeps(db, t) /\ db' = Relinked(t, u) /\ narStore' = narStore
    <3>1. /\ Keeps(db, db) /\ Keeps(db, Chunking(db, u[1])) /\ Keeps(db, Chunked(db, u[1]))
          /\ Keeps(db, NarRecorded(db, u))
      BY <1>1, ChunkingTables, ChunkedTables, NarRecordedTables DEF Keeps
    <3> QED
      BY <1>3, <3>1 DEF PutNar, PutNarRecord
  <2> HIDE DEF u
  <2>4. kept # {} => Sound' /\ Grows(World, World')
    BY <1>k, <2>2, <2>3, WorldKeeps, WorldRelinked
  <2>5. kept # {} => Blame'
    BY <1>0, <1>k, <2>1, <2>2, BlameMoves
  <2> QED
    BY <1>0, <1>n, <2>1, <2>4, <2>5, KeptMoves
<1> QED
  BY <1>2, <1>3 DEF UploadStep

\* by a deletion;
LEMMA DeleteKept ==
    ASSUME TypeInv, KeptInv, NEW p \in Deletes,
           DeleteNarInfo(p) \/ (DeleteLegacy(p) /\ UNCHANGED <<conf, kept>>)
    PROVE  KeptInv'
<1> DEFINE h == HashOf[p]
<1>0. p \in Procs /\ p \notin Gets /\ p \notin Pulls /\ p \notin Puts /\ p \notin Migrations /\ p \notin Chunkings
      /\ Hash(p) = h
  BY Kinds, Processes DEF Requests
<1>k. kept # {} => Sound /\ Blame /\ Lawful(p, pc[p], ret[p], url[p], World)
  BY <1>0 DEF KeptInv
<1> PICK state \in {"deleteLegacy", "ended", "notfound", "failed"} : Goto(p, state)
  BY DEF DeleteNarInfo, DeleteLegacy
<1>1. Moves(p, state, Unless(state, ret[p]), UnlessUrl(state, url[p]))
  BY <1>0, GotoMoves DEF TypeInv
<1>2. kept # {} => h \notin kept'
  BY <1>0, <1>k, Worlds DEF DeleteNarInfo, DeleteLegacy, Lawful, At
<1>3. /\ kept' \subseteq kept
      /\ db' = db \/ db' = DeleteNarInfoByHash(db, h)
      /\ legacy' = legacy \/ legacy' = Remove(legacy, {h})
      /\ UNCHANGED <<conf, narStore, ds, err>> /\ Met
  BY DEF DeleteNarInfo, DeleteLegacy, dsVars, Met
<1>4. kept # {} => Sound' /\ Grows(World, World')
  BY <1>k, <1>2, <1>3, WorldDeletes
<1>5. kept # {} => Lawful(p, state, Unless(state, ret[p]), UnlessUrl(state, url[p]), World')
  BY <1>0, <1>2, NextWorlds DEF Lawful, Looks, Purges
<1>6. kept # {} => Blame'
  BY <1>0, <1>k, <1>1, <1>3, BlameMoves
<1> QED
  BY <1>0, <1>1, <1>3, <1>4, <1>5, <1>6, KeptMoves

\* by the download of a NAR;
LEMMA NarStepKept ==
    ASSUME TypeInv, KeptInv, NEW s \in Servers, NEW n \in Nars, NarStep(s, n), UNCHANGED <<conf, kept>>
    PROVE  KeptInv'
<1>1. UNCHANGED <<control, legacy, ds, err>> /\ Met
  BY DEF NarStep, NarArrives, NarRecords, NarUnlocks, NarUnlists, NarFails, dbVars, dsVars, Met
<1>2. narStore' = narStore \/ (~conf.cdc /\ narStore \subseteq narStore')
  BY DEF NarStep, NarArrives, NarRecords, NarUnlocks, NarUnlists, NarFails, dbVars
<1>3. Keeps(db, db')
  <2> DEFINE u == Url(n, conf.compression)
  <2>1. u \in Urls /\ Tables(db)
    BY DEF TypeInv, DataInv, Url, Urls
  <2> HIDE DEF u
  <2>2. Keeps(db, db) /\ Keeps(db, Chunking(db, n)) /\ Keeps(db, Chunked(db, n)) /\ Keeps(db, NarRecorded(db, u))
        /\ (u \in DOMAIN db.nar_files => Keeps(db, FixNarInfos(db, u)))
    BY <2>1, ChunkingTables, ChunkedTables, NarRecordedTables, FixNarInfosTables DEF Keeps
  <2> QED
    BY <2>2 DEF NarStep, NarArrives, NarRecords, NarUnlocks, NarUnlists, NarFails, dbVars, u
<1> SUFFICES ASSUME kept # {}
             PROVE  Sound' /\ Blame' /\ \A q \in Procs : Lawful(q, pc[q], ret[q], url[q], World')
  BY <1>1 DEF KeptInv, control, Lawful, LawfulGet, Hash, RequestOf
<1>4. Sound' /\ Grows(World, World')
  BY <1>1, <1>2, <1>3, WorldKeeps DEF KeptInv
<1>5. Blame'
  <2>1. World.faulty \subseteq World'.faulty
    BY <1>1, FaultyGrows
  <2>2. UNCHANGED <<pc, ds, err, kept>>
    BY <1>1 DEF control
  <2> QED
    BY <2>1, <2>2 DEF KeptInv, Blame
<1> QED
  BY <1>4, <1>5, LawfulGrows DEF KeptInv

\* by a crash.
LEMMA CrashKept ==
    ASSUME TypeInv, KeptInv, NEW s \in Servers, Crash(s), UNCHANGED <<conf, kept>>
    PROVE  KeptInv'
<1> SUFFICES ASSUME kept # {}
             PROVE  Sound' /\ Blame' /\ \A q \in Procs : Lawful(q, pc'[q], ret'[q], url'[q], World')
  BY DEF KeptInv, Lawful, LawfulGet, Hash, RequestOf
<1>1. UNCHANGED <<dbVars, ret, url, ds, err>> /\ Met
  BY DEF Crash, Met
<1>2. Sound' /\ Grows(World, World')
  BY <1>1, WorldStill DEF KeptInv
<1>3. \A q \in Procs : pc'[q] = pc[q] \/ pc'[q] = "crashed"
  BY DEF Crash
<1>4. Blame'
  <2>1. World.faulty \subseteq World'.faulty
    BY <1>1, FaultyGrows
  <2>2. \A r \in Gets : r \in Procs
    BY Kinds
  <2> QED
    BY <1>1, <1>3, <2>1, <2>2 DEF KeptInv, Blame
<1>5. ASSUME NEW q \in Procs PROVE Lawful(q, pc'[q], ret'[q], url'[q], World')
  <2>1. Lawful(q, pc[q], ret[q], url[q], World')
    BY <1>2, LawfulGrows DEF KeptInv
  <2>2. Lawful(q, "crashed", ret[q], url[q], World')
    BY <2>1 DEF Lawful, LawfulGet, Looks, Purges, Active, Final
  <2> QED
    BY <1>1, <1>3, <2>1, <2>2
<1> QED
  BY <1>2, <1>4, <1>5

\* Every step keeps KeptInv.
LEMMA KeptStep == TypeInv /\ AliveInv /\ KeptInv /\ [Next]_vars => KeptInv'
<1> SUFFICES ASSUME TypeInv, AliveInv, KeptInv, [Next]_vars PROVE KeptInv'
  OBVIOUS
<1>1. ASSUME NEW r \in Gets, GetNarInfo(r) \/ GetStep(r) \/ ClientLeaves(r), UNCHANGED <<conf, kept>>
      PROVE  KeptInv'
  BY <1>1, GetKept DEF AliveInv
<1>2. ASSUME NEW r \in Gets, PullStep(r), UNCHANGED <<conf, kept>>
      PROVE  KeptInv'
  BY <1>2, PullKept
<1>3. ASSUME NEW r \in Gets, MigrateStep(r), UNCHANGED <<conf, kept>>
      PROVE  KeptInv'
  BY <1>3, MigrateKept
<1>4. ASSUME NEW r \in Gets, ChunksDeleteFile(r) \/ (ChunksStep(r) /\ UNCHANGED <<conf, kept>>)
      PROVE  KeptInv'
  BY <1>4, ChunksKept, DeleteFileKept
<1>5. ASSUME NEW p \in Puts, PutNarInfo(p) \/ PutLockFails(p) \/ PutStep(p), UNCHANGED <<conf, kept>>
      PROVE  KeptInv'
  BY <1>5, PutKept
<1>6. ASSUME NEW p \in Uploads, PutNar(p) \/ UploadStep(p), UNCHANGED <<conf, kept>>
      PROVE  KeptInv'
  BY <1>6, UploadKept
<1>7. ASSUME NEW p \in Deletes, DeleteNarInfo(p) \/ (DeleteLegacy(p) /\ UNCHANGED <<conf, kept>>)
      PROVE  KeptInv'
  BY <1>7, DeleteKept
<1>8. ASSUME NEW s \in Servers, NEW n \in Nars, NarStep(s, n), UNCHANGED <<conf, kept>>
      PROVE  KeptInv'
  BY <1>8, NarStepKept
<1>9. ASSUME NEW s \in Servers, Crash(s), UNCHANGED <<conf, kept>>
      PROVE  KeptInv'
  BY <1>9, CrashKept
<1>10. CASE UNCHANGED vars
  <2>1. UNCHANGED <<control, conf, dbVars, ds, err, kept>> /\ Met
    BY <1>10 DEF vars, dsVars, Met
  <2>2. kept # {} => Sound' /\ Grows(World, World')
    BY <2>1, WorldStill DEF KeptInv
  <2>3. kept # {} => Blame'
    <3>1. World.faulty \subseteq World'.faulty
      BY <2>1, FaultyGrows
    <3>2. UNCHANGED <<pc, ds, err, kept>>
      BY <2>1 DEF control
    <3> QED
      BY <3>1, <3>2 DEF KeptInv, Blame
  <2>4. kept # {} => \A q \in Procs : Lawful(q, pc[q], ret[q], url[q], World')
    BY <2>2, LawfulGrows DEF KeptInv
  <2> QED
    BY <2>1, <2>2, <2>3, <2>4 DEF KeptInv, control, Lawful, LawfulGet, Hash, RequestOf
<1> QED
  BY <1>1, <1>2, <1>3, <1>4, <1>5, <1>6, <1>7, <1>8, <1>9, <1>10, Steps

\* KeptInv holds at first.
LEMMA InitKept == Init => KeptInv
<1> SUFFICES ASSUME Init, kept # {}
             PROVE  Sound /\ Blame /\ \A p \in Procs : Lawful(p, pc[p], ret[p], url[p], World)
  BY DEF KeptInv
<1>t. TypeInv
  BY InitTypes, Zenon
<1>1. PICK shape \in Shapes :
       LET row == shape[1]
           old == shape[2]
           nar == shape[3]
       IN
         /\ legacy = [h \in (IF old = "absent" THEN {} ELSE NarInfos) |-> old]
         /\ narStore = IF nar = "absent" THEN {}
                       ELSE {Url(n, IF conf.compression = "none" THEN "zstd" ELSE "xz") : n \in Nars}
         /\ db = [NoTables EXCEPT
                    !.narinfos = [h \in (IF row = "absent" THEN {} ELSE NarInfos) |->
                                    IF row = "complete" THEN LegacyRow(h)
                                    ELSE [url |-> Null, fileSize |-> Null, fileHash |-> Null]],
                    !.nar_files = [u \in (IF row = "complete" THEN {LegacyRow(h).url : h \in NarInfos} ELSE {}) |->
                                     [ size |-> "actual", total |-> 0, started |-> Null,
                                       created |-> "new", verified |-> FALSE ]],
                    !.narinfo_nar_files =
                       IF row = "complete" THEN {<<h, LegacyRow(h).url>> : h \in NarInfos} ELSE {}]
         /\ kept = IF nar = "stored" /\ (row = "complete" \/ old = "good") THEN NarInfos ELSE {}
  BY DEF Init
<1>2. /\ shape[3] = "stored" /\ (shape[1] = "complete" \/ shape[2] = "good") /\ kept = NarInfos
      /\ conf.compression \in {"none", "xz"}
  BY <1>1, <1>t DEF TypeInv, DataInv, Compressions
<1>3. \A n \in Nars : NarFileUrl(n) \in narStore /\ Url(n, "none") \notin narStore
  <2>1. narStore = {Url(n, IF conf.compression = "none" THEN "zstd" ELSE "xz") : n \in Nars}
    BY <1>1, <1>2
  <2> QED
    BY <1>2, <2>1 DEF NarFileUrl, Url
<1>4. db.narinfos = [h \in (IF shape[1] = "absent" THEN {} ELSE NarInfos) |->
                                    IF shape[1] = "complete" THEN LegacyRow(h)
                                    ELSE [url |-> Null, fileSize |-> Null, fileHash |-> Null]]
  BY <1>1 DEF NoTables
<1>5. \A h \in NarInfos : /\ LegacyRow(h).url # Null /\ LegacyRow(h).url \in Urls
                          /\ HasNarInStore(LegacyRow(h).url)
  <2> SUFFICES ASSUME NEW h \in NarInfos
               PROVE  LegacyRow(h).url # Null /\ LegacyRow(h).url \in Urls /\ HasNarInStore(LegacyRow(h).url)
    OBVIOUS
  <2>1. LegacyRow(h).url = Url(NarOf[h], conf.compression) /\ NarOf[h] \in Nars
    BY NarInfoAssumption DEF LegacyRow
  <2>2. LegacyRow(h) \in NarInfoRow /\ LegacyRow(h).url # Null
    BY <1>t, Rows DEF TypeInv, Sizes
  <2>3. NarFileUrl(NarOf[h]) \in narStore
    BY <1>3, <2>1
  <2>4. HasNarInStore(Url(NarOf[h], conf.compression))
    BY <1>2, <2>3 DEF HasNarInStore, NarFileUrl, Url
  <2> QED
    BY <2>1, <2>2, <2>4 DEF NarInfoRow
<1>6. \A h \in World.migrated : h \in NarInfos /\ db.narinfos[h].url = LegacyRow(h).url
  BY <1>4, Worlds DEF GetMigratedNarInfoHashes
<1>7. \A h \in World.migrated : db.narinfos[h].url \in World.has
  BY <1>5, <1>6, Worlds
<1>8. \A h \in kept : Kept(h) /\ h \in World.whole
  <2>1. shape[1] = "complete" => \A h \in NarInfos : h \in GetMigratedNarInfoHashes(db)
    BY <1>4, <1>5 DEF GetMigratedNarInfoHashes
  <2>2. shape[2] = "good" => \A h \in NarInfos : h \in DOMAIN legacy /\ legacy[h] = "good"
    BY <1>1
  <2>3. \A h \in NarInfos : NarOf[h] \in Nars
    BY NarInfoAssumption
  <2> QED
    BY <1>2, <1>3, <2>1, <2>2, <2>3, Worlds DEF Kept
<1>9. Sound
  BY <1>3, <1>7, <1>8 DEF Sound
<1>10. \A p \in Procs : pc[p] = "idle"
  BY DEF Init
<1>11. Blame
  BY <1>10, Kinds DEF Blame, Init
<1>12. \A p \in Procs : Lawful(p, pc[p], ret[p], url[p], World)
  BY <1>10 DEF Lawful, LawfulGet, Looks, Purges, Active
<1> QED
  BY <1>9, <1>11, <1>12

\* KeptInv always holds.
LEMMA KeptAlways == Spec => []KeptInv
<1>1. TypeInv /\ AliveInv /\ [Next]_vars => AliveInv'
  BY AliveStep
<1>2. TypeInv /\ AliveInv /\ KeptInv /\ [Next]_vars => KeptInv'
  BY KeptStep
<1> QED
  BY <1>1, <1>2, InitAlive, InitKept, TypesKept, PTL DEF Spec

\* A narinfo whose NAR was in the store at first and that nobody deletes stays in the database
\* or in the legacy store, whatever migrations, uploads, crashes and errors of the database and
\* the locks come together, until a migration of its NAR to chunks deletes the file while the
\* narinfo is yet to be migrated, or is being read in the legacy store.
THEOREM KeptNarInfos == Spec => []PathKept
<1>1. KeptInv => PathKept
  BY DEF KeptInv, Sound, Kept, PathKept
<1> QED
  BY <1>1, KeptAlways, PTL

\* Until then a request for it neither misses it nor fails, unless the database or a lock
\* returned an error to the request, or to the pull it waited for.
THEOREM KeptFound == Spec => []FoundWhileKept
<1>1. TypeInv /\ KeptInv => FoundWhileKept
  <2> SUFFICES ASSUME TypeInv, KeptInv, NEW r \in Gets, HashOf[r] \in kept, ~conf.uploadOnly,
                      pc[r] \in {"notfound", "failed"}
               PROVE  MetError(r) \/ MetError(Pull(ds[r]))
    BY DEF FoundWhileKept
  <2>1. r \in Procs /\ Hash(r) = HashOf[r] /\ ds[r] \in Gets /\ Pull(ds[r]) \in Procs
    BY Kinds, Processes DEF Requests, TypeInv, SyncInv
  <2>2. CASE pc[r] = "notfound"
    BY <2>1, <2>2, Worlds DEF KeptInv, Lawful, LawfulGet
  <2>3. CASE pc[r] = "failed"
    BY <2>1, <2>3, Worlds DEF KeptInv, Blame
  <2> QED
    BY <2>2, <2>3
<1> QED
  BY <1>1, KeptAlways, TypesKept, PTL

-----------------------------------------------------------------------------
(* Sizes that agree.                                                       *)

\* A request for a narinfo that has begun is never idle again.
LEMMA GetBegun ==
    ASSUME TypeInv, NEW r \in Gets, GetNarInfo(r) \/ GetStep(r) \/ ClientLeaves(r)
    PROVE  pc'[r] # "idle"
<1>0. /\ r \in Procs /\ Local(r, pc[r], ret[r], url[r]) /\ pc = [p \in Procs |-> pc[p]]
      /\ r # Pull(r) /\ r # Migration(r) /\ r # ToChunks(r)
  <2>1. r \in Procs /\ r # Pull(r) /\ r # Migration(r) /\ r # ToChunks(r)
    BY Kinds, Processes
  <2> QED
    BY <2>1 DEF TypeInv, Control
<1>1. \A state : Goto(r, state) => pc'[r] = state
  BY <1>0 DEF Goto
<1>2. \A state, return : Call(r, state, return) => pc'[r] = state
  BY <1>0 DEF Call
<1> USE DEF At
<1>3. CASE GetNarInfoFromDatabase(r)
  <2>1. CASE pc[r] \in Looks \ {"db"} /\ Return(r, "ok")
    <3>1. ret[r] \in {"get", "retry", "asset", "poll", "final"}
      BY <1>0, <2>1 DEF Local
    <3> QED
      BY <1>1, <2>1, <3>1, Outcomes DEF Return
  <2>2. ASSUME NEW outcome \in {"notfound", "purged", "failed"}, Return(r, outcome),
               pc[r] \in Looks \cup Purges, ret[r] = "bad" => outcome # "notfound"
        PROVE  pc'[r] # "idle"
    <3>1. ret[r] \in {"get", "retry", "asset", "poll", "final", "legacy", "bad"}
      BY <1>0, <2>2 DEF Local
    <3>2. After(ret[r], outcome) # "idle"
      BY <2>2, <3>1, Outcomes
    <3> QED
      BY <1>1, <2>2, <3>2 DEF Return
  <2>3. ASSUME NEW state \in Looks \cup Purges, Goto(r, state)
        PROVE  pc'[r] # "idle"
    BY <1>1, <2>3 DEF Looks, Purges
  <2>4. pc[r] \in Looks => ret[r] # "bad"
    BY <1>0 DEF Local
  <2>5. CASE PopulateNarInfo(r)
    BY <1>0, <2>2, <2>4, <2>5 DEF PopulateNarInfo, Looks
  <2>6. CASE LookInStore(r) \/ LookInChunks(r) \/ LookForJob(r) \/ isRemoteDownloadInProgress(r) \/ LookForRecord(r)
    BY <2>1, <2>3, <2>6 DEF LookInStore, LookInChunks, LookForJob, isRemoteDownloadInProgress, LookForRecord,
         Looks, Purges
  <2>7. CASE PurgeRows(r) \/ PurgeLegacy(r) \/ RemoteUnknown(r) \/ RecordUnknown(r) \/ DatabaseFails(r)
    BY <2>1, <2>2, <2>3, <2>7 DEF PurgeRows, PurgeLegacy, RemoteUnknown, RecordUnknown, DatabaseFails, Looks, Purges
  <2>8. CASE PurgeNar(r)
    <3>1. CASE Return(r, "purged")
      BY <2>2, <2>8, <3>1 DEF PurgeNar, Purges
    <3>2. CASE Return(r, "notfound") /\ url[r] # Null
      <4>1. ret[r] # "bad"
        BY <1>0, <2>8, <3>2 DEF PurgeNar, Local, Purges
      <4> QED
        BY <2>2, <2>8, <3>2, <4>1 DEF PurgeNar, Purges
    <3> QED
      BY <2>8, <3>1, <3>2 DEF PurgeNar
  <2> QED
    BY <1>3, <2>5, <2>6, <2>7, <2>8 DEF GetNarInfoFromDatabase
<1>4. CASE ReadLegacy(r) \/ CreateJob(r)
  BY <1>0, <1>1, <1>4 DEF ReadLegacy, CreateJob
<1>7. CASE Hit(r) \/ LegacyFound(r) \/ LegacyFails(r)
  <2>1. \A answer \in {"found", "failed"} : LegacyAnswered(r, answer) => pc'[r] = answer
    BY <1>0 DEF LegacyAnswered
  <2>2. CASE Hit(r)
    BY <1>0, <2>2 DEF Hit
  <2> QED
    BY <1>1, <1>7, <2>1, <2>2 DEF LegacyFound, LegacyFails
<1>5. CASE \/ LookInLegacy(r) \/ LegacyNar(r) \/ WaitForMigration(r, "waitMigration") \/ WaitForPut(r)
           \/ WaitFails(r) \/ RetryDatabase(r) \/ RetryExhausted(r) \/ PollTimeout(r) \/ Miss(r) \/ FindJob(r)
  BY <1>1, <1>2, <1>5 DEF LookInLegacy, LegacyNar, WaitForMigration, WaitForPut, WaitFails, RetryDatabase,
       RetryExhausted, PollTimeout, Miss, FindJob
<1>6. CASE \/ Joined(r) \/ Acquire(r) \/ AcquireFails(r) \/ PollLegacy(r) \/ AssetLegacy(r)
           \/ UnlockAsset(r) \/ AwaitStored(r) \/ WaitDone(r) \/ ReadPulled(r)
           \/ GetNarInfo(r) \/ ClientLeaves(r)
  BY <1>1, <1>2, <1>6 DEF Joined, Acquire, AcquireFails, PollLegacy, AssetLegacy, UnlockAsset,
       AwaitStored, WaitDone, ReadPulled, GetNarInfo, ClientLeaves
<1> QED
  BY <1>3, <1>4, <1>5, <1>6, <1>7 DEF GetStep

\* A pull or a migration that takes a step has begun.
LEMMA OthersBegun ==
    ASSUME NEW r \in Gets
    PROVE  /\ PullStep(r) => pc[Pull(r)] # "idle"
           /\ MigrateStep(r) => pc[Migration(r)] # "idle"
           /\ ChunksStep(r) \/ ChunksDeleteFile(r) => pc[ToChunks(r)] # "idle"
<1> USE DEF At
<1>1. PullStep(r) => pc[Pull(r)] # "idle"
  BY DEF PullStep, WaitForMigration, WaitForPut, PullWaitFails, GetNarInfoFromDatabase, DatabaseFails,
       RecordUnknown, RemoteUnknown, PopulateNarInfo, LookInStore,
       LookInChunks, LookForJob, isRemoteDownloadInProgress, LookForRecord, PurgeRows, PurgeLegacy, PurgeNar,
       FetchNarInfo, PrePullNar, PrePullNarFails, SignNarInfo, SignFails, StorePulled, StorePulledFails, PullCloses
<1>2. MigrateStep(r) => pc[Migration(r)] # "idle"
  BY DEF MigrateStep, MigrateLock, MigrateLockFails, MigrateCheck, MigrateUnknown, MigrateStore, MigrateFails,
       MigrateDelete, MigrateUnlock
<1>3. ChunksStep(r) \/ ChunksDeleteFile(r) => pc[ToChunks(r)] # "idle"
  BY DEF ChunksStep, ChunksLock, ChunksOpen, ChunksBegin, ChunksComplete, ChunksRelink, ChunksClean,
       ChunksFail, ChunksGoOn, ChunksDeleteFile
<1> QED
  BY <1>1, <1>2, <1>3

\* The records of NARs grow, and a size that is the actual one stays.
FilesGrow ==
    /\ DOMAIN db.nar_files \subseteq DOMAIN db'.nar_files
    /\ \A u \in DOMAIN db'.nar_files : db'.nar_files[u].size \in {"actual", "claimed"}
    /\ \A u \in DOMAIN db.nar_files : db.nar_files[u].size = "actual" => db'.nar_files[u].size = "actual"

\* One client takes a step: what has to be shown of it.
LEMMA SizeMoves ==
    ASSUME TypeInv, SizeInv, OnlyUploads, NEW p \in Puts \cup Uploads \cup Deletes, NEW state, NEW return, NEW u,
           Moves(p, state, return, u), \A q \in (Puts \cup Uploads) \ {p} : size'[q] = size[q],
           UNCHANGED <<conf, narJobs>>, FilesGrow, narStore \subseteq narStore',
           p \in Uploads => Uploaded(p)',
           p \in Puts \cup Uploads => Read(p)',
           \A h \in GetMigratedNarInfoHashes(db)' : RowSized(h)' /\ Mended(h)'
    PROVE  SizeInv'
<1>1. /\ p \in Procs
      /\ \A q \in Procs \ {p} : pc'[q] = pc[q] /\ url'[q] = url[q]
  BY Kinds, Moved DEF TypeInv
<1>2. NothingPulled'
  BY <1>1, Kinds, Processes DEF NothingPulled, SizeInv
<1>3. \A v : UNCHANGED UrlOf(v)
  BY DEF UrlOf
<1>4. \A v : FileIsActual(v) => FileIsActual(v)'
  BY DEF FilesGrow, FileIsActual
<1>5. ASSUME NEW q \in Uploads PROVE Uploaded(q)'
  BY <1>1, <1>3, <1>4, Kinds DEF SizeInv, Uploaded
<1>6. ASSUME NEW q \in Puts \cup Uploads PROVE Read(q)'
  BY <1>1, <1>3, <1>4, Kinds DEF SizeInv, Read
<1> QED
  BY <1>2, <1>5, <1>6 DEF SizeInv, FilesGrow

\* The rows stay, and the process either has nothing to do with them or still fixes its own.
LEMMA RowsStay ==
    ASSUME TypeInv, SizeInv, OnlyUploads, NEW p \in Puts \cup Uploads, NEW state, NEW return, NEW u,
           Moves(p, state, return, u), \A q \in (Puts \cup Uploads) \ {p} : size'[q] = size[q],
           UNCHANGED conf, db'.narinfos = db.narinfos, FilesGrow,
           \A h \in GetMigratedNarInfoHashes(db) : Fixing(p, h) => Mended(h)',
           \A h \in GetMigratedNarInfoHashes(db) :
              p \in Uploads /\ pc[p] = "idle" /\ NarOf[HashOf[p]] = NarOf[h] => Mended(h)'
    PROVE  \A h \in GetMigratedNarInfoHashes(db)' : RowSized(h)' /\ Mended(h)'
<1> SUFFICES ASSUME NEW h \in GetMigratedNarInfoHashes(db) PROVE RowSized(h)' /\ Mended(h)'
  BY DEF GetMigratedNarInfoHashes
<1>1. p \in Procs /\ \A q \in Procs \ {p} : pc'[q] = pc[q] /\ url'[q] = url[q]
  BY Kinds, Moved DEF TypeInv
<1>2. RowSized(h)'
  BY DEF SizeInv, RowSized, FilesGrow, FileIsActual, UrlOf
<1> SUFFICES Mended(h)'
  BY <1>2
<1>3. CASE db.narinfos[h].fileSize = "actual"
  BY <1>3 DEF Mended
<1>4. CASE \A q \in Uploads : NarOf[HashOf[q]] = NarOf[h] => pc[q] = "idle"
  <2>1. CASE p \in Uploads /\ NarOf[HashOf[p]] = NarOf[h]
    BY <1>4, <2>1
  <2>2. CASE ~(p \in Uploads /\ NarOf[HashOf[p]] = NarOf[h])
    <3>1. \A q \in Uploads : NarOf[HashOf[q]] = NarOf[h] => pc'[q] = "idle"
      BY <1>1, <1>4, <2>2, Kinds
    <3> QED
      BY <3>1 DEF Mended
  <2> QED
    BY <2>1, <2>2
<1>5. CASE \E q \in Puts \cup Uploads : Fixing(q, h)
  <2> PICK q \in Puts \cup Uploads : Fixing(q, h)
    BY <1>5
  <2>1. CASE q = p
    BY <2>1
  <2>2. CASE q # p
    <3>1. Fixing(q, h)'
      BY <1>1, <2>2, Kinds DEF Fixing
    <3> QED
      BY <3>1 DEF Mended
  <2> QED
    BY <2>1, <2>2
<1> QED
  BY <1>3, <1>4, <1>5 DEF SizeInv, Mended

\* What CheckAndFixNarInfo finds: the narinfo has the size of the nar_file, or that size is the actual one.
LEMMA CorrectSizeFound ==
    ASSUME TypeInv, SizeInv, OnlyUploads, NEW h \in GetMigratedNarInfoHashes(db)
    PROVE  /\ CorrectSize(h) \in {Null, "actual"}
           /\ CorrectSize(h) = "actual" => FileIsActual(UrlOf(h))
           /\ UrlOf(h) \in narStore /\ FileIsActual(UrlOf(h)) /\ db.narinfos[h].fileSize # "actual" =>
                CorrectSize(h) = "actual"
<1> DEFINE u == UrlOf(h)
<1>1. /\ db.narinfos[h].url = u /\ u \in DOMAIN db.nar_files /\ u[2] # "none"
      /\ db.narinfos[h].fileSize \in {"actual", "claimed"}
      /\ db.narinfos[h].fileSize = "actual" => FileIsActual(u)
      /\ db.nar_files[u].size \in {"actual", "claimed"}
  BY DEF SizeInv, RowSized, OnlyUploads, UrlOf, Url
<1>2. db.nar_files[u] # Null
  <2>1. db.nar_files[u] \in NarFileRow
    BY <1>1 DEF TypeInv, DataInv, Tables
  <2> QED
    BY <2>1, NarInfoAssumption DEF NarFileRow
<1> HIDE DEF u
<1>3. getNarFileFromDB(u) = db.nar_files[u]
  BY <1>1, <1>2 DEF getNarFileFromDB, GetNarFileByHashAndCompressionAndQuery, OnlyUploads
<1>4. ~HasNarInChunks(u)
  BY DEF HasNarInChunks, OnlyUploads
<1>5. CorrectSize(h) = IF HasNarInStore(u) /\ db.nar_files[u].size # db.narinfos[h].fileSize
                       THEN db.nar_files[u].size ELSE Null
  BY <1>1, <1>2, <1>3, <1>4 DEF CorrectSize, HasNarFileRecord
<1>6. u \in narStore => HasNarInStore(u)
  BY DEF HasNarInStore
<1>7. Null # "actual"
  BY NarInfoAssumption DEF Sizes
<1> QED
  BY <1>1, <1>5, <1>6, <1>7 DEF FileIsActual, u

\* No two narinfos share a NAR.
Injective == \A g, h \in NarInfos : NarOf[g] = NarOf[h] => g = h

\* SizeInv, kept by the upload of a narinfo, which has its own row to look at afterwards;
LEMMA PutSizes ==
    ASSUME TypeInv, SizeInv, OnlyUploads, OnlyUploads', NEW p \in Puts,
           PutNarInfo(p) \/ PutStore(p) \/ PutDeletesLegacy(p), UNCHANGED conf
    PROVE  SizeInv'
<1> DEFINE h == HashOf[p]
<1>0. p \in Procs /\ p \in Puts \cup Uploads /\ h \in NarInfos /\ p \notin Uploads
  BY Kinds, Processes DEF Requests
<1>1. CASE PutNarInfo(p) \/ PutDeletesLegacy(p)
  <2> PICK state \in {"putSave", "check"} : Goto(p, state) /\ (pc[p] = "putLegacy" => state = "check")
    BY <1>1 DEF PutNarInfo, PutDeletesLegacy, At
  <2>1. Moves(p, state, ret[p], url[p]) /\ size' = size
    BY <1>0, GotoMoves DEF TypeInv, Unless, UnlessUrl, Final
  <2>2. UNCHANGED <<db, narStore, narJobs>> /\ (pc[p] = "idle" \/ pc[p] = "putLegacy")
    BY <1>1 DEF PutNarInfo, PutDeletesLegacy, At, dbVars, dsVars, narVars
  <2>3. FilesGrow
    BY <2>2 DEF FilesGrow, SizeInv
  <2>4. pc'[p] = state
    BY <1>0, <2>1, Moved DEF TypeInv
  <2>5. \A k \in GetMigratedNarInfoHashes(db) : Fixing(p, k) => Mended(k)'
    BY <1>0, <2>2, <2>4 DEF Fixing, Mended
  <2>6. \A k \in GetMigratedNarInfoHashes(db)' : RowSized(k)' /\ Mended(k)'
    BY <1>0, <2>1, <2>2, <2>3, <2>5, RowsStay
  <2> QED
    BY <1>0, <2>1, <2>2, <2>3, <2>4, <2>6, SizeMoves DEF Read
<1>2. CASE PutStore(p)
  <2> DEFINE row == Normalized(h, "claimed")
             v == UrlOf(h)
  <2>1. Moves(p, "putLegacy", ret[p], url[p]) /\ size' = size
    BY <1>0, <1>2, GotoMoves DEF TypeInv, Unless, UnlessUrl, Final, PutStore
  <2>2. UNCHANGED <<narStore, narJobs>> /\ db' = Stored(db, h, row)
    BY <1>2 DEF PutStore, narVars
  <2>3. row \in NarInfoRow /\ row.url # Null /\ Tables(db)
    BY <1>0, Rows DEF TypeInv, DataInv, Sizes
  <2>4. row.url = v /\ row.fileSize = "claimed" /\ narFileSize(row) = "claimed"
    <3>1. row.url = v /\ row.fileSize = "claimed"
      BY DEF Normalized, OnlyUploads, UrlOf
    <3> QED
      BY <3>1, NarInfoAssumption DEF narFileSize, Sizes
  <2> HIDE DEF row, v
  <2>5. /\ Tables(db')
        /\ DOMAIN db'.narinfos = DOMAIN db.narinfos \cup {h}
        /\ \A k \in DOMAIN db.narinfos : k # h => db'.narinfos[k] = db.narinfos[k]
        /\ db'.narinfos[h] = IF h \in GetMigratedNarInfoHashes(db) THEN db.narinfos[h] ELSE row
        /\ DOMAIN db'.nar_files = DOMAIN db.nar_files \cup {v}
        /\ \A w \in DOMAIN db.nar_files : db'.nar_files[w] = db.nar_files[w]
        /\ v \notin DOMAIN db.nar_files => db'.nar_files[v].size = "claimed"
    BY <1>0, <2>2, <2>3, <2>4, StoredTables
  <2>6. FilesGrow
    BY <2>5 DEF FilesGrow, SizeInv
  <2>7. pc'[p] = "putLegacy" /\ \A q \in Procs \ {p} : pc'[q] = pc[q]
    BY <1>0, <2>1, Moved DEF TypeInv
  <2>8. \A k \in GetMigratedNarInfoHashes(db)' : RowSized(k)' /\ Mended(k)'
    <3> SUFFICES ASSUME NEW k \in GetMigratedNarInfoHashes(db)' PROVE RowSized(k)' /\ Mended(k)'
      OBVIOUS
    <3>1. CASE k \in GetMigratedNarInfoHashes(db)
      <4>1. db'.narinfos[k] = db.narinfos[k] /\ RowSized(k) /\ Mended(k)
        BY <2>5, <3>1 DEF SizeInv, GetMigratedNarInfoHashes
      <4>2. RowSized(k)'
        BY <2>6, <4>1 DEF RowSized, FilesGrow, FileIsActual, UrlOf
      <4>3. \A q \in Puts \cup Uploads : Fixing(q, k) => Fixing(q, k)'
        BY <1>2, <2>1, <2>7, Kinds DEF Fixing
      <4>4. \A q \in Uploads : pc'[q] = pc[q]
        BY <1>0, <2>7, Kinds
      <4> QED
        BY <4>1, <4>2, <4>3, <4>4 DEF Mended
    <3>2. CASE k \notin GetMigratedNarInfoHashes(db)
      <4>1. k = h /\ db'.narinfos[h] = row
        BY <2>5, <3>2 DEF GetMigratedNarInfoHashes
      <4>2. RowSized(h)'
        BY <2>4, <2>5, <4>1 DEF RowSized, UrlOf, v
      <4>3. Fixing(p, h)'
        BY <2>7 DEF Fixing
      <4> QED
        BY <1>0, <4>1, <4>2, <4>3 DEF Mended
    <3> QED
      BY <3>1, <3>2
  <2> QED
    BY <1>0, <2>1, <2>2, <2>6, <2>7, <2>8, SizeMoves DEF Read
<1> QED
  BY <1>1, <1>2


\* by CheckAndFixNarInfo, which leaves a claimed size only to an upload that has yet to record its NAR;
LEMMA FixSizes ==
    ASSUME Injective, TypeInv, SizeInv, OnlyUploads, OnlyUploads', NEW p \in Puts \cup Uploads,
           FixStep(p), UNCHANGED conf
    PROVE  SizeInv'
<1> DEFINE h == HashOf[p]
           v == UrlOf(h)
<1>0. p \in Procs /\ Hash(p) = h /\ h \in NarInfos
  BY Kinds, Processes DEF Requests
<1>1. CASE CheckNarInfo(p) /\ h \in GetMigratedNarInfoHashes(db)
  <2>1. RowSized(h) /\ Mended(h)
    BY <1>1 DEF SizeInv
  <2>2. /\ size' = [size EXCEPT ![p] = CorrectSize(h)]
        /\ Moves(p, "fix", ret[p], v)
        /\ UNCHANGED <<db, narStore, narJobs>> /\ pc[p] = "check"
    <3>1. h \in GetNarInfoHashesByURL(db, Url(NarOf[h], conf.compression))
      BY <1>1, <2>1 DEF RowSized, UrlOf, GetNarInfoHashesByURL, GetMigratedNarInfoHashes
    <3> QED
      BY <1>0, <1>1, <2>1, <3>1 DEF CheckNarInfo, At, Moves, RowSized, dbVars, narVars, TypeInv, Control
  <2>3. /\ CorrectSize(h) \in {Null, "actual"}
        /\ CorrectSize(h) = "actual" => FileIsActual(v)
        /\ v \in narStore /\ FileIsActual(v) /\ db.narinfos[h].fileSize # "actual" => CorrectSize(h) = "actual"
    BY <1>1, CorrectSizeFound
  <2> HIDE DEF v
  <2>4. /\ pc'[p] = "fix" /\ url'[p] = v /\ size'[p] = CorrectSize(h)
        /\ \A q \in (Puts \cup Uploads) \ {p} : size'[q] = size[q] /\ pc'[q] = pc[q]
    BY <1>0, <2>2, Moved, Kinds DEF TypeInv, Control
  <2>5. FilesGrow
    BY <2>2 DEF FilesGrow, SizeInv
  <2>6. Read(p)'
    BY <2>2, <2>3, <2>4 DEF Read, FileIsActual, v, UrlOf
  <2>7. p \in Uploads => Uploaded(p)'
    BY <2>2, <2>4 DEF SizeInv, Uploaded, FileIsActual, UrlOf
  <2>8. Mended(h)'
    <3>1. CASE db.narinfos[h].fileSize = "actual"
      BY <2>2, <3>1 DEF Mended
    <3>2. CASE \A q \in Uploads : NarOf[HashOf[q]] = NarOf[h] => pc[q] = "idle"
      <4>1. \A q \in Uploads : NarOf[HashOf[q]] = NarOf[h] => pc'[q] = "idle"
        BY <2>2, <2>4, <3>2
      <4> QED
        BY <4>1 DEF Mended
    <3>3. CASE \E q \in Uploads : NarOf[HashOf[q]] = NarOf[h] /\ pc[q] # "idle"
      <4> PICK q \in Uploads : NarOf[HashOf[q]] = NarOf[h] /\ pc[q] # "idle"
        BY <3>3
      <4>1. HashOf[q] = h
        BY <1>0, Processes DEF Injective, Requests
      <4>2. CASE pc[q] = "putNar"
        <5>1. Fixing(q, h)'
          BY <2>2, <2>4, <4>1, <4>2 DEF Fixing
        <5> QED
          BY <5>1 DEF Mended
      <4>3. CASE pc[q] # "putNar" /\ db.narinfos[h].fileSize # "actual"
        <5>1. v \in narStore /\ FileIsActual(v)
          BY <4>1, <4>3 DEF SizeInv, Uploaded, v
        <5>2. Fixing(p, h)'
          BY <2>3, <2>4, <4>3, <5>1 DEF Fixing
        <5> QED
          BY <5>2 DEF Mended
      <4> QED
        BY <3>1, <4>2, <4>3
    <3> QED
      BY <3>2, <3>3
  <2>9. \A k \in GetMigratedNarInfoHashes(db)' : RowSized(k)' /\ Mended(k)'
    BY <2>2, <2>4, <2>5, <2>8, RowsStay DEF Fixing
  <2> QED
    BY <2>2, <2>4, <2>5, <2>6, <2>7, <2>9, SizeMoves
<1>2. CASE CheckNarInfo(p) /\ h \notin GetMigratedNarInfoHashes(db)
  <2>1. Goto(p, "ended") /\ UNCHANGED <<db, narStore, narJobs>> /\ pc[p] = "check"
    BY <1>0, <1>2 DEF CheckNarInfo, At, dbVars, narVars
  <2>2. Moves(p, "ended", "none", Null) /\ size' = size
    BY <1>0, <2>1, GotoMoves DEF TypeInv, Unless, UnlessUrl, Final
  <2>3. pc'[p] = "ended"
    BY <1>0, <2>2, Moved DEF TypeInv
  <2>4. FilesGrow
    BY <2>1 DEF FilesGrow, SizeInv
  <2>5. \A k \in GetMigratedNarInfoHashes(db)' : RowSized(k)' /\ Mended(k)'
    BY <1>2, <2>1, <2>2, <2>4, RowsStay DEF Fixing
  <2>6. p \in Uploads => Uploaded(p)'
    BY <2>1, <2>3 DEF SizeInv, Uploaded, FileIsActual, UrlOf
  <2> QED
    BY <2>1, <2>2, <2>3, <2>4, <2>5, <2>6, SizeMoves DEF Read
<1>3. CASE FixNarInfo(p)
  <2>1. Goto(p, "ended") /\ UNCHANGED <<narStore, narJobs>> /\ pc[p] = "fix"
    BY <1>3 DEF FixNarInfo, At, narVars
  <2>2. Moves(p, "ended", "none", Null) /\ size' = size
    BY <1>0, <2>1, GotoMoves DEF TypeInv, Unless, UnlessUrl, Final
  <2>3. pc'[p] = "ended" /\ \A q \in Procs \ {p} : pc'[q] = pc[q]
    BY <1>0, <2>2, Moved DEF TypeInv
  <2>4. /\ url[p] = v /\ size[p] \in {Null, "actual"} /\ (size[p] = "actual" => FileIsActual(v))
        /\ v[2] # "none"
    BY <2>1 DEF SizeInv, Read, UrlOf, Url, OnlyUploads
  <2>5. Null # "actual" /\ "actual" \in Sizes /\ Tables(db)
    BY NarInfoAssumption DEF Sizes, TypeInv, DataInv
  <2>6. CASE size[p] = Null
    <3>1. UNCHANGED db
      BY <1>3, <2>4, <2>6 DEF FixNarInfo
    <3>2. FilesGrow
      BY <3>1 DEF FilesGrow, SizeInv
    <3>3. \A k \in GetMigratedNarInfoHashes(db)' : RowSized(k)' /\ Mended(k)'
      BY <2>1, <2>2, <2>5, <2>6, <3>1, <3>2, RowsStay DEF Fixing
    <3>4. p \in Uploads => Uploaded(p)'
      BY <2>1, <2>3, <3>1 DEF SizeInv, Uploaded, FileIsActual, UrlOf
    <3> QED
      BY <2>1, <2>2, <2>3, <3>2, <3>3, <3>4, SizeMoves DEF Read
  <2>7. CASE size[p] = "actual"
    <3>1. db' = UpdateNarInfoFileSize(db, h, "actual")
      BY <1>0, <1>3, <2>4, <2>5, <2>7 DEF FixNarInfo
    <3>2. /\ Keeps(db, db') /\ db'.nar_files = db.nar_files
          /\ \A k \in DOMAIN db.narinfos :
               db'.narinfos[k].fileSize = IF k = h THEN "actual" ELSE db.narinfos[k].fileSize
      BY <2>5, <3>1, FileSizeTables
    <3>3. FilesGrow
      BY <3>2 DEF FilesGrow, SizeInv
    <3>4. \A k \in GetMigratedNarInfoHashes(db)' : RowSized(k)' /\ Mended(k)'
      <4> SUFFICES ASSUME NEW k \in GetMigratedNarInfoHashes(db) PROVE RowSized(k)' /\ Mended(k)'
        BY <3>2 DEF GetMigratedNarInfoHashes, Keeps
      <4>1. k \in DOMAIN db.narinfos /\ RowSized(k) /\ Mended(k)
        BY DEF SizeInv, GetMigratedNarInfoHashes
      <4>2. CASE k = h
        BY <2>4, <2>7, <3>2, <4>1, <4>2 DEF RowSized, Mended, FileIsActual, UrlOf, Keeps
      <4>3. CASE k # h
        <5>1. RowSized(k)'
          BY <3>2, <4>1, <4>3 DEF RowSized, FileIsActual, UrlOf, Keeps
        <5>2. \A q \in Puts \cup Uploads : Fixing(q, k) => Fixing(q, k)'
          BY <2>2, <2>3, <4>3, Kinds DEF Fixing
        <5>3. \A q \in Uploads : pc[q] = "idle" => pc'[q] = "idle"
          BY <2>1, <2>3, Kinds
        <5> QED
          BY <3>2, <4>1, <4>3, <5>1, <5>2, <5>3 DEF Mended
      <4> QED
        BY <4>2, <4>3
    <3>5. p \in Uploads => Uploaded(p)'
      BY <2>1, <2>3, <3>2 DEF SizeInv, Uploaded, FileIsActual, UrlOf
    <3> QED
      BY <2>1, <2>2, <2>3, <3>3, <3>4, <3>5, SizeMoves DEF Read
  <2> QED
    BY <2>4, <2>6, <2>7
<1> QED
  BY <1>1, <1>2, <1>3 DEF FixStep

\* by the upload of a NAR, which looks at the narinfo after the record is there;
LEMMA UploadSizes ==
    ASSUME Injective, TypeInv, SizeInv, OnlyUploads, OnlyUploads', NEW p \in Uploads,
           PutNar(p) \/ PutNarRecord(p), UNCHANGED conf
    PROVE  SizeInv'
<1> DEFINE h == HashOf[p]
           v == UrlOf(h)
<1>0. p \in Procs /\ h \in NarInfos /\ Tables(db) /\ v \in Urls
  BY Kinds, Processes, NarInfoAssumption DEF Requests, TypeInv, DataInv, UrlOf, Url, Urls
<1>1. \A k \in GetMigratedNarInfoHashes(db) : k \in NarInfos /\ (NarOf[h] = NarOf[k] => k = h)
  BY <1>0 DEF Injective, GetMigratedNarInfoHashes, Tables
<1>2. CASE PutNar(p)
  <2>1. Goto(p, "putNar") /\ UNCHANGED <<db, narJobs>> /\ narStore' = narStore \cup {v}
    BY <1>2 DEF PutNar, narVars, OnlyUploads, UrlOf
  <2>2. Moves(p, "putNar", ret[p], url[p]) /\ size' = size
    BY <1>0, <2>1, GotoMoves DEF TypeInv, Unless, UnlessUrl, Final
  <2>3. pc'[p] = "putNar" /\ v' = v
    BY <1>0, <2>2, Moved DEF TypeInv, UrlOf
  <2>4. FilesGrow
    BY <2>1 DEF FilesGrow, SizeInv
  <2>5. Mended(h)'
    BY <2>3 DEF Mended, Fixing
  <2>6. \A k \in GetMigratedNarInfoHashes(db)' : RowSized(k)' /\ Mended(k)'
    BY <1>1, <2>1, <2>2, <2>4, <2>5, RowsStay DEF Fixing
  <2>7. Uploaded(p)' /\ Read(p)'
    BY <2>1, <2>3 DEF Uploaded, Read
  <2> QED
    BY <2>1, <2>2, <2>4, <2>6, <2>7, SizeMoves
<1>3. CASE PutNarRecord(p)
  <2>1. Goto(p, "check") /\ UNCHANGED <<narStore, narJobs>> /\ db' = NarRecorded(db, v) /\ pc[p] = "putNar"
    BY <1>3 DEF PutNarRecord, narVars, OnlyUploads, UrlOf, At
  <2>2. Moves(p, "check", ret[p], url[p]) /\ size' = size
    BY <1>0, <2>1, GotoMoves DEF TypeInv, Unless, UnlessUrl, Final
  <2>3. pc'[p] = "check" /\ v' = v
    BY <1>0, <2>2, Moved DEF TypeInv, UrlOf
  <2>4. v \in narStore
    BY <2>1 DEF SizeInv, Uploaded
  <2> HIDE DEF v
  <2>5. /\ db'.narinfos = db.narinfos
        /\ DOMAIN db'.nar_files = DOMAIN db.nar_files \cup {v}
        /\ \A w \in DOMAIN db.nar_files \ {v} : db'.nar_files[w].size = db.nar_files[w].size
        /\ db'.nar_files[v].size = "actual"
    BY <1>0, <2>1, NarRecordedTables
  <2>6. FilesGrow
    BY <2>5 DEF FilesGrow, SizeInv
  <2>7. Mended(h)'
    BY <2>3 DEF Mended, Fixing
  <2>8. \A k \in GetMigratedNarInfoHashes(db)' : RowSized(k)' /\ Mended(k)'
    BY <2>1, <2>2, <2>5, <2>6, <2>7, RowsStay DEF Fixing
  <2>9. Uploaded(p)' /\ Read(p)'
    BY <2>1, <2>3, <2>4, <2>5 DEF Uploaded, Read, FileIsActual, v
  <2> QED
    BY <2>1, <2>2, <2>6, <2>8, <2>9, SizeMoves
<1> QED
  BY <1>2, <1>3

\* by a deletion.
LEMMA DeleteSizes ==
    ASSUME TypeInv, SizeInv, OnlyUploads, OnlyUploads', NEW p \in Deletes,
           DeleteNarInfo(p) \/ DeleteLegacy(p), UNCHANGED conf
    PROVE  SizeInv'
<1> DEFINE h == HashOf[p]
<1>0. p \in Procs /\ Tables(db) /\ p \notin Puts \cup Uploads
  BY Kinds DEF TypeInv, DataInv
<1> PICK state : Goto(p, state)
  BY DEF DeleteNarInfo, DeleteLegacy
<1>1. Moves(p, state, Unless(state, ret[p]), UnlessUrl(state, url[p])) /\ size' = size
  BY <1>0, GotoMoves DEF TypeInv
<1>2. UNCHANGED <<narStore, narJobs>> /\ (db' = db \/ db' = DeleteNarInfoByHash(db, h))
  BY DEF DeleteNarInfo, DeleteLegacy, narVars
<1>3. /\ db'.nar_files = db.nar_files
      /\ \A k \in DOMAIN db'.narinfos : k \in DOMAIN db.narinfos /\ db'.narinfos[k] = db.narinfos[k]
  BY <1>0, <1>2, DeleteNarInfoTables
<1>4. FilesGrow
  BY <1>3 DEF FilesGrow, SizeInv
<1>5. \A q \in Puts \cup Uploads : pc'[q] = pc[q]
  BY <1>0, <1>1, Moved, Kinds DEF TypeInv
<1>6. ASSUME NEW k \in GetMigratedNarInfoHashes(db)' PROVE RowSized(k)' /\ Mended(k)'
  <2>1. k \in GetMigratedNarInfoHashes(db) /\ db'.narinfos[k] = db.narinfos[k]
    BY <1>3 DEF GetMigratedNarInfoHashes
  <2>2. RowSized(k) /\ Mended(k)
    BY <2>1 DEF SizeInv
  <2>3. RowSized(k)'
    BY <1>3, <2>1, <2>2 DEF RowSized, FileIsActual, UrlOf
  <2>4. Mended(k)'
    BY <1>1, <1>5, <2>1, <2>2 DEF Mended, Fixing
  <2> QED
    BY <2>3, <2>4
<1> QED
  BY <1>0, <1>1, <1>2, <1>4, <1>6, SizeMoves


\* A pull or a migration moves alone.
LEMMA OthersMove ==
    ASSUME TypeInv, NEW r \in Gets, PullStep(r) \/ MigrateStep(r) \/ ChunksStep(r) \/ ChunksDeleteFile(r)
    PROVE  /\ \E p \in {Pull(r), Migration(r), ToChunks(r)} : \A q \in Procs \ {p} : pc'[q] = pc[q]
           /\ Met
<1>0. /\ Pull(r) \in Procs /\ Migration(r) \in Procs /\ ToChunks(r) \in Procs
      /\ pc = [p \in Procs |-> pc[p]]
  BY Processes DEF TypeInv, Control
<1>1. ASSUME NEW p \in Procs, \/ \E state : Goto(p, state)
                              \/ \E state, return : Call(p, state, return)
                              \/ \E state : pc' = [pc EXCEPT ![p] = state]
      PROVE  \A q \in Procs \ {p} : pc'[q] = pc[q]
  BY <1>0, <1>1 DEF Goto, Call
<1>m. \A f : \A p \in Procs : Fault(f, p) => Met
  BY DEF Met
<1>2. CASE MigrateStep(r)
  <2>1. \E state : Goto(Migration(r), state)
    BY <1>2 DEF MigrateStep, MigrateLock, MigrateLockFails, MigrateCheck, MigrateUnknown, MigrateStore,
         MigrateFails, MigrateDelete, MigrateUnlock
  <2>2. faults' = faults \/ \E f : Fault(f, Migration(r))
    BY <1>2 DEF MigrateStep, MigrateLock, MigrateLockFails, MigrateCheck, MigrateUnknown, MigrateStore,
         MigrateFails, MigrateDelete, MigrateUnlock
  <2>3. Met
    BY <1>0, <1>m, <2>2 DEF Met
  <2> QED
    BY <1>0, <1>1, <2>1, <2>3
<1>5. CASE ChunksStep(r) \/ ChunksDeleteFile(r)
  <2>1. \E state : Goto(ToChunks(r), state)
    BY <1>5 DEF ChunksStep, ChunksLock, ChunksOpen, ChunksBegin, ChunksComplete, ChunksRelink, ChunksClean,
         ChunksFail, ChunksGoOn, ChunksDeleteFile
  <2>2. faults' = faults \/ \E f : Fault(f, ToChunks(r))
    BY <1>5 DEF ChunksStep, ChunksLock, ChunksOpen, ChunksBegin, ChunksComplete, ChunksRelink, ChunksClean,
         ChunksFail, ChunksGoOn, ChunksDeleteFile
  <2>3. Met
    BY <1>0, <1>m, <2>2 DEF Met
  <2> QED
    BY <1>0, <1>1, <2>1, <2>3
<1>3. CASE GetNarInfoFromDatabase(Pull(r))
  <2>1. \/ \E state : Goto(Pull(r), state)
        \/ pc' = [pc EXCEPT ![Pull(r)] = "store"]
    BY <1>3 DEF GetNarInfoFromDatabase, DatabaseFails, RecordUnknown, RemoteUnknown, PopulateNarInfo, LookInStore,
         LookInChunks, LookForJob, isRemoteDownloadInProgress, LookForRecord, PurgeRows, PurgeLegacy, PurgeNar, Return
  <2> QED
    BY <1>0, <1>1, <1>3, <2>1, DatabaseAside
<1>4. CASE PullStep(r) /\ ~GetNarInfoFromDatabase(Pull(r))
  <2>1. \/ \E state : Goto(Pull(r), state)
        \/ \E state, return : Call(Pull(r), state, return)
    BY <1>4 DEF PullStep, WaitForMigration, WaitForPut, PullWaitFails, FetchNarInfo, PullFails, PrePullNar,
         PrePullNarFails, SignNarInfo, SignFails, StorePulled, StorePulledFails, PullCloses
  <2>2. faults' = faults \/ \E f : Fault(f, Pull(r))
    BY <1>4 DEF PullStep, WaitForMigration, WaitForPut, PullWaitFails, FetchNarInfo, PrePullNar,
         PrePullNarFails, SignNarInfo, SignFails, StorePulled, StorePulledFails, PullCloses
  <2>3. Met
    BY <1>0, <1>m, <2>2 DEF Met
  <2> QED
    BY <1>0, <1>1, <2>1, <2>3
<1> QED
  BY <1>2, <1>3, <1>4, <1>5

\* SizeInv depends on the processes, the rows and the store.
LEMMA SizeStill ==
    ASSUME SizeInv, OnlyUploads, UNCHANGED <<conf, control, db, narStore, narJobs>>
    PROVE  SizeInv'
<1>1. NothingPulled'
  BY DEF SizeInv, NothingPulled, control
<1>2. \A h : UNCHANGED <<RowSized(h), Mended(h)>>
  BY DEF RowSized, Mended, Fixing, FileIsActual, UrlOf, control
<1>3. \A p : UNCHANGED <<Uploaded(p), Read(p)>>
  BY DEF Uploaded, Read, FileIsActual, UrlOf, control
<1> QED
  BY <1>1, <1>2, <1>3 DEF SizeInv


\* The steps that uploads alone leave possible keep the sizes.
LEMMA SizeStep ==
    ASSUME Injective, TypeInv, SizeInv, [Next]_vars
    PROVE  SizeInv'
<1> SUFFICES ASSUME OnlyUploads' PROVE SizeInv'
  BY DEF SizeInv
<1>0. \A f, w : w \in Procs \cup Servers /\ Fault(f, w) => faults' # << >>
  BY FaultCounted DEF TypeInv, SyncInv
<1>9. Puts \subseteq Procs
  BY Kinds
<1>1. ASSUME NEW r \in Gets, GetNarInfo(r) \/ GetStep(r) \/ ClientLeaves(r)
      PROVE  FALSE
  BY <1>1, GetBegun DEF OnlyUploads
<1>f. faults' = << >>
  BY DEF OnlyUploads
<1>2. ASSUME NEW r \in Gets, PullStep(r) \/ MigrateStep(r) \/ ChunksStep(r) \/ ChunksDeleteFile(r),
             UNCHANGED conf
      PROVE  FALSE
  <2>1. \E p \in {Pull(r), Migration(r), ToChunks(r)} : \A q \in Procs \ {p} : pc'[q] = pc[q]
    BY <1>2, OthersMove
  <2>2. \A g \in Gets : pc'[g] = pc[g]
    BY <2>1, Kinds, Processes
  <2>3. faults' = faults
    BY <1>2, <1>0, <1>f, OthersMove DEF Met
  <2>4. OnlyUploads
    BY <1>2, <2>2, <2>3 DEF OnlyUploads
  <2> QED
    BY <1>2, <2>4, OthersBegun DEF SizeInv, NothingPulled
<1>3. ASSUME NEW p \in Puts, PutNarInfo(p) \/ PutLockFails(p) \/ PutStep(p), UNCHANGED <<conf, kept>>
      PROVE  SizeInv'
  <2>1. ~PutFails(p) /\ ~PutLockFails(p)
    BY <1>0, <1>9, <1>f DEF PutFails, PutLockFails
  <2>2. OnlyUploads
    <3>1. faults' = faults
      BY <1>3, <2>1 DEF PutNarInfo, PutStep, PutStore, PutDeletesLegacy, FixStep, CheckNarInfo, FixNarInfo
    <3>2. \A g \in Gets : pc'[g] = pc[g]
      BY <1>3, <2>1, Kinds DEF PutNarInfo, PutStep, PutStore, PutDeletesLegacy, FixStep, CheckNarInfo,
           FixNarInfo, Goto, TypeInv, Control
    <3> QED
      BY <1>3, <3>1, <3>2 DEF OnlyUploads
  <2> QED
    BY <1>3, <2>1, <2>2, PutSizes, FixSizes DEF PutStep
<1>4. ASSUME NEW p \in Uploads, PutNar(p) \/ UploadStep(p), UNCHANGED <<conf, kept>>
      PROVE  SizeInv'
  <2>1. OnlyUploads
    <3>1. faults' = faults
      BY <1>4 DEF PutNar, UploadStep, PutNarRecord, FixStep, CheckNarInfo, FixNarInfo
    <3>2. \A g \in Gets : pc'[g] = pc[g]
      BY <1>4, Kinds DEF PutNar, UploadStep, PutNarRecord, FixStep, CheckNarInfo, FixNarInfo, Goto,
           TypeInv, Control
    <3> QED
      BY <1>4, <3>1, <3>2 DEF OnlyUploads
  <2> QED
    BY <1>4, <2>1, UploadSizes, FixSizes DEF UploadStep
<1>5. ASSUME NEW p \in Deletes, DeleteNarInfo(p) \/ (DeleteLegacy(p) /\ UNCHANGED <<conf, kept>>)
      PROVE  SizeInv'
  <2>1. OnlyUploads /\ UNCHANGED conf
    <3>1. UNCHANGED <<faults, conf>>
      BY <1>5 DEF DeleteNarInfo, DeleteLegacy
    <3>2. \A g \in Gets : pc'[g] = pc[g]
      BY <1>5, Kinds DEF DeleteNarInfo, DeleteLegacy, Goto, TypeInv, Control
    <3> QED
      BY <3>1, <3>2 DEF OnlyUploads
  <2> QED
    BY <1>5, <2>1, DeleteSizes
<1>6. ASSUME NEW s \in Servers, NEW n \in Nars, NarStep(s, n), UNCHANGED <<conf, kept>>
      PROVE  SizeInv'
  <2>1. UNCHANGED control /\ ~NarFails(s, n)
    BY <1>0, <1>f, <1>6 DEF NarStep, NarArrives, NarRecords, NarUnlocks, NarUnlists, NarFails
  <2>2. UNCHANGED faults
    BY <1>6, <2>1 DEF NarStep, NarArrives, NarRecords, NarUnlocks, NarUnlists
  <2>3. OnlyUploads
    BY <1>6, <2>1, <2>2 DEF OnlyUploads, control
  <2>4. NarUnlocks(s, n)
    BY <1>6, <2>1, <2>3 DEF SizeInv, NothingPulled, NarStep, NarArrives, NarRecords, NarUnlists
  <2> QED
    BY <1>6, <2>1, <2>3, <2>4, SizeStill DEF NarUnlocks, dbVars
<1>7. ASSUME NEW s \in Servers, Crash(s)
      PROVE  FALSE
  BY <1>0, <1>f, <1>7 DEF Crash
<1>8. CASE UNCHANGED vars
  <2>1. OnlyUploads
    BY <1>8 DEF OnlyUploads, vars, control, dbVars
  <2> QED
    BY <1>8, <2>1, SizeStill DEF vars, dbVars, narVars
<1>10. ASSUME NEW r \in Gets, ChunksDeleteFile(r)
       PROVE  FALSE
  BY <1>2, <1>10 DEF ChunksDeleteFile
<1> QED
  BY <1>1, <1>2, <1>3, <1>4, <1>5, <1>6, <1>7, <1>8, <1>10, Steps


\* SizeInv holds at first.
LEMMA InitSizes == Init => SizeInv
<1> SUFFICES ASSUME Init, OnlyUploads PROVE SizeInv
  BY DEF SizeInv
<1>1. PICK row : /\ db.narinfos = [h \in (IF row = "absent" THEN {} ELSE NarInfos) |->
                                     IF row = "complete" THEN LegacyRow(h)
                                     ELSE [url |-> Null, fileSize |-> Null, fileHash |-> Null]]
                 /\ db.nar_files = [u \in (IF row = "complete" THEN {LegacyRow(h).url : h \in NarInfos} ELSE {}) |->
                                     [ size |-> "actual", total |-> 0, started |-> Null,
                                       created |-> "new", verified |-> FALSE ]]
  BY DEF Init, NoTables
<1>2. \A u \in DOMAIN db.nar_files : db.nar_files[u].size = "actual"
  BY <1>1
<1>3. ASSUME NEW h \in GetMigratedNarInfoHashes(db) PROVE RowSized(h) /\ Mended(h)
  <2>1. row = "complete" /\ h \in NarInfos /\ db.narinfos[h] = LegacyRow(h)
    BY <1>1, <1>3 DEF GetMigratedNarInfoHashes
  <2>2. LegacyRow(h).url = UrlOf(h) /\ LegacyRow(h).fileSize = "actual"
    BY DEF LegacyRow, UrlOf, OnlyUploads
  <2>3. UrlOf(h) \in DOMAIN db.nar_files
    BY <1>1, <2>1, <2>2
  <2> QED
    BY <1>2, <2>1, <2>2, <2>3 DEF RowSized, Mended, FileIsActual
<1>4. \A p \in Procs : pc[p] = "idle"
  BY DEF Init
<1>5. NothingPulled
  BY <1>4, Processes DEF NothingPulled, Init
<1> QED
  BY <1>2, <1>3, <1>4, <1>5, Kinds DEF SizeInv, Uploaded, Read

\* Uploads of a NAR and of its narinfo, in whatever order their steps come and however
\* many there are of each, leave the narinfo with the size of the file, when no two
\* narinfos share a NAR: an upload of a NAR is modelled as looking at one narinfo.
THEOREM UploadsAgree ==
    ASSUME Injective
    PROVE  Spec => []SizesAgree
<1>1. SizeInv /\ TypeInv => SizesAgree
  <2> SUFFICES ASSUME SizeInv, TypeInv, Quiet, faults = << >>, ~conf.cdc, \A g \in Gets : pc[g] = "idle",
                      NEW p \in Uploads, pc[p] = "ended",
                      conf.compression # "none",
                      NEW h \in GetNarInfoHashesByURL(db, UrlOf(HashOf[p]))
               PROVE  /\ db.narinfos[h].fileSize = "actual"
                      /\ db.nar_files[UrlOf(HashOf[p])].size = "actual"
    BY DEF SizesAgree, Url, UrlOf
  <2> DEFINE u == UrlOf(HashOf[p])
  <2>1. OnlyUploads
    BY DEF OnlyUploads
  <2>2. u # Null
    BY NarInfoAssumption, Processes DEF UrlOf, Url, TypeInv, DataInv, Requests
  <2>3. h \in GetMigratedNarInfoHashes(db) /\ db.narinfos[h].url = u
    BY <2>2 DEF GetNarInfoHashesByURL, GetMigratedNarInfoHashes
  <2>4. RowSized(h) /\ Mended(h) /\ UrlOf(h) = u
    BY <2>1, <2>3 DEF SizeInv, RowSized
  <2>5. NarOf[HashOf[p]] = NarOf[h]
    BY <2>4 DEF UrlOf, Url
  <2>6. ~ \E q \in Puts \cup Uploads : Fixing(q, h)
    BY Kinds DEF Quiet, Fixing, Final
  <2>7. db.narinfos[h].fileSize = "actual"
    BY <2>4, <2>5, <2>6 DEF Mended
  <2> QED
    BY <2>4, <2>7 DEF RowSized, FileIsActual
<1>2. SizeInv /\ TypeInv /\ [Next]_vars => SizeInv'
  BY SizeStep
<1> QED
  BY <1>1, <1>2, InitSizes, TypesKept, PTL DEF Spec

============================================================================
