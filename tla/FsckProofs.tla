----------------------------- MODULE FsckProofs -----------------------------
(***************************************************************************)
(* What Fsck guarantees for any NARs and narinfos in any of the shapes,    *)
(* any options, and any number of uploads and chunkings next to it.        *)
(***************************************************************************)
EXTENDS Fsck, FiniteSetTheorems, TLAPS

\* A whole file is compressed, a chunked NAR is not.
Urls == Nars \X {"none", "xz"}

\* The rows of narinfo h.
NarInfoRows(h) ==
    [ url : {NarOf[h]} \X {"none", "xz"}, fileSize : {Null}, fileHash : {Null},
      narSize : {Len(ContentOf[NarOf[h]])}, narHash : {ContentOf[NarOf[h]]} ]

\* The rows of the narinfos and the nar_files.
RowsSound(t) ==
    /\ DOMAIN t.narinfos \subseteq NarInfos
    /\ \A h \in DOMAIN t.narinfos : t.narinfos[h] \in NarInfoRows(h)
    /\ DOMAIN t.nar_files \subseteq Urls
    /\ \A u \in DOMAIN t.nar_files :
         /\ t.nar_files[u] \in NarFileRow
         /\ t.nar_files[u].total > 0 => u[2] = "none"
         /\ t.nar_files[u].started # Null => t.nar_files[u].total = 0

\* The links between the tables: a narinfo is linked to its NAR only, an index of a
\* NAR to one chunk, which has a row.
LinksSound(t) ==
    /\ \A l \in t.narinfo_nar_files : l \in NarInfos \X Urls /\ l[2][1] = NarOf[l[1]]
    /\ \A l \in t.nar_file_chunks : l.chunk \in t.chunks
    /\ \A l, k \in t.nar_file_chunks : l.nar = k.nar /\ l.index = k.index => l = k

\* A value with these tables.
HasTables(t) ==
    t = [ narinfos |-> t.narinfos, nar_files |-> t.nar_files,
          narinfo_nar_files |-> t.narinfo_nar_files, chunks |-> t.chunks,
          nar_file_chunks |-> t.nar_file_chunks, config |-> t.config ]

\* The database, whatever has been left in it.
Tables(t) ==
    /\ HasTables(t)
    /\ RowsSound(t)
    /\ LinksSound(t)

\* The tables and stores, and what is in order in them.
World ==
    /\ Tables(db)
    /\ store \subseteq Nars \X {"xz"}
    /\ healthy \subseteq NarInfos
    /\ \A h \in healthy : Served(h)

\* What must not be deleted: the rows and files, and the chunks, of healthy narinfos.
UrlIn(t, h) == t.narinfos[h].url
HealthyUrls == {UrlIn(db, h) : h \in healthy}
HealthyChunks == UNION {Range(ContentOf[NarOf[h]]) : h \in {k \in healthy : UrlIn(db, k)[2] = "none"}}

\* What a check deletes when it deletes x.
Unneeded(check, x) ==
    /\ check = "narinfosWithoutNarFiles" => x \notin healthy
    /\ check \in {"orphanedChunksInDB", "orphanedChunksInStorage"} => x \notin HealthyChunks
    /\ check \notin {"narinfosWithoutNarFiles", "orphanedChunksInDB", "orphanedChunksInStorage"}
         => x \notin HealthyUrls

\* The nar_files that were read tell which of the healthy NARs are in chunks.
RowsAgree ==
    \A h \in healthy : /\ UrlIn(db, h) \in DOMAIN rows
                       /\ rows[UrlIn(db, h)].total = db.nar_files[UrlIn(db, h)].total

\* fsck has yet to read them, and has done none of the checks that use them.
RowChecks == {"narFilesMissingInStorage"} \cup ChunkedChecks
Unread ==
    /\ \A c \in RowChecks : found[c] = {}
    /\ todo \in Seq(Checks \cup {"allNarFiles"})
    /\ \E k \in 1..Len(todo) :
         /\ todo[k] = "allNarFiles"
         /\ \A j \in 1..Len(todo) :
              (j < k => todo[j] \notin RowChecks) /\ (todo[j] = "allNarFiles" => j = k)

\* Where fsck is: it reads the nar_files before it needs them.
Control ==
    /\ phase \in {"idle", "collect", "verify", "repair", "items", "narinfos", "chunks"}
    /\ phase # "collect" => todo \in Seq(Checks)
    /\ phase = "collect" => Unread \/ (todo \in Seq(Checks) /\ RowsAgree)
    /\ phase \notin {"idle", "collect"} => RowsAgree
    /\ phase \in {"items", "narinfos", "chunks"} => todo # << >>

\* A check finds NARs of its kind only.
FoundInv ==
    /\ DOMAIN found = Checks
    /\ found = [c \in Checks |-> found[c]]
    /\ \A x \in found["narFilesMissingInStorage"] : ~ (rows[x].total > 0)
    /\ \A c \in ChunkedChecks : \A x \in found[c] : rows[x].total > 0

\* What is about to be deleted is not needed, and will not be.
WorkInv ==
    /\ phase \notin {"items", "chunks"} => doomed = {}
    /\ phase = "items" =>
         /\ work \subseteq found[Head(todo)]
         /\ \A x \in doomed : Unneeded(Head(todo), x)
         /\ Head(todo) \in LookOnce => \A x \in work : Unneeded(Head(todo), x)
    /\ phase = "narinfos" => work \cap healthy = {}
    /\ phase = "chunks" => (work \cup doomed) \cap HealthyChunks = {}

\* The inductive invariant of HealthyKept.
FsckInv == World /\ Control /\ FoundInv /\ WorkInv

-----------------------------------------------------------------------------
(* Queries.                                                                *)

\* An upsert of a narinfo changes that row alone, and only if it has no URL.
LEMMA CreateNarInfoTables ==
    ASSUME NEW t, Tables(t), NEW h \in NarInfos, NEW row \in NarInfoRows(h)
    PROVE  LET s == CreateNarInfo(t, h, row)
           IN  /\ Tables(s) /\ s.nar_files = t.nar_files
               /\ s.narinfo_nar_files = t.narinfo_nar_files
               /\ s.chunks = t.chunks /\ s.nar_file_chunks = t.nar_file_chunks
               /\ DOMAIN t.narinfos \subseteq DOMAIN s.narinfos
               /\ \A k \in DOMAIN t.narinfos : k # h => s.narinfos[k] = t.narinfos[k]
<1> DEFINE rs == Insert(t.narinfos, h, row)
           s == [t EXCEPT !.narinfos = rs]
<1>1. s = [t EXCEPT !.narinfos = rs]
  OBVIOUS
<1>2. CreateNarInfo(t, h, row) = t \/ CreateNarInfo(t, h, row) = s
  BY DEF CreateNarInfo
<1>3. /\ DOMAIN rs = DOMAIN t.narinfos \cup {h} /\ rs[h] = row
      /\ \A k \in DOMAIN t.narinfos : k # h => rs[k] = t.narinfos[k]
  BY DEF Insert
<1> HIDE DEF s, rs
<1>4. /\ s.narinfos = rs /\ s.nar_files = t.nar_files
      /\ s.narinfo_nar_files = t.narinfo_nar_files
      /\ s.chunks = t.chunks /\ s.nar_file_chunks = t.nar_file_chunks
      /\ HasTables(s)
  BY <1>1 DEF Tables, HasTables
<1>5. Tables(s)
  BY <1>3, <1>4 DEF Tables, RowsSound, LinksSound
<1> QED
  BY <1>2, <1>3, <1>4, <1>5

\* A narinfo goes with its links, and nothing else goes.
LEMMA DeleteNarInfoTables ==
    ASSUME NEW t, Tables(t), NEW h
    PROVE  LET s == DeleteNarInfoByHash(t, h)
           IN  /\ Tables(s) /\ s.nar_files = t.nar_files
               /\ s.narinfo_nar_files = {l \in t.narinfo_nar_files : l[1] # h}
               /\ s.chunks = t.chunks /\ s.nar_file_chunks = t.nar_file_chunks
               /\ DOMAIN s.narinfos = DOMAIN t.narinfos \ {h}
               /\ \A k \in DOMAIN s.narinfos : s.narinfos[k] = t.narinfos[k]
<1> DEFINE rs == Remove(t.narinfos, {h})
           ls == {l \in t.narinfo_nar_files : l[1] # h}
           s == DeleteNarInfoByHash(t, h)
<1>1. s = [t EXCEPT !.narinfos = rs, !.narinfo_nar_files = ls]
  BY DEF DeleteNarInfoByHash, Tables, HasTables
<1>3. /\ DOMAIN rs = DOMAIN t.narinfos \ {h}
      /\ \A k \in DOMAIN rs : rs[k] = t.narinfos[k]
  BY DEF Remove, Restrict
<1>4. ls \subseteq t.narinfo_nar_files
  OBVIOUS
<1> HIDE DEF s, rs, ls
<1>5. /\ s.narinfos = rs /\ s.nar_files = t.nar_files /\ s.narinfo_nar_files = ls
      /\ s.chunks = t.chunks /\ s.nar_file_chunks = t.nar_file_chunks
      /\ HasTables(s)
  BY <1>1 DEF Tables, HasTables
<1>6. Tables(s)
  BY <1>3, <1>4, <1>5 DEF Tables, RowsSound, LinksSound
<1> QED
  BY <1>3, <1>5, <1>6 DEF s, ls

\* An upsert of a nar_file leaves every row that is there.
LEMMA CreateNarFileTables ==
    ASSUME NEW t, Tables(t), NEW u \in Urls, NEW size \in Nat
    PROVE  LET s == CreateNarFile(t, u, size)
           IN  /\ Tables(s) /\ s.narinfos = t.narinfos
               /\ s.narinfo_nar_files = t.narinfo_nar_files
               /\ s.chunks = t.chunks /\ s.nar_file_chunks = t.nar_file_chunks
               /\ DOMAIN s.nar_files = DOMAIN t.nar_files \cup {u}
               /\ \A v \in DOMAIN t.nar_files : s.nar_files[v] = t.nar_files[v]
               /\ u \notin DOMAIN t.nar_files => s.nar_files[u].total = 0
<1> DEFINE row == [size |-> size, total |-> 0, started |-> Null, created |-> "new", verified |-> FALSE]
           rs == Insert(t.nar_files, u, row)
           s == [t EXCEPT !.nar_files = rs]
<1>1. s = [t EXCEPT !.nar_files = rs]
  OBVIOUS
<1>2. IF u \in DOMAIN t.nar_files THEN CreateNarFile(t, u, size) = t
                                  ELSE CreateNarFile(t, u, size) = s
  BY DEF CreateNarFile
<1>3. row \in NarFileRow /\ row.total = 0 /\ row.started = Null
  BY DEF NarFileRow
<1> HIDE DEF row
<1>4. /\ DOMAIN rs = DOMAIN t.nar_files \cup {u}
      /\ u \notin DOMAIN t.nar_files =>
           rs[u] = row /\ \A v \in DOMAIN t.nar_files : rs[v] = t.nar_files[v]
  BY DEF Insert
<1> HIDE DEF s, rs
<1>5. /\ s.narinfos = t.narinfos /\ s.nar_files = rs
      /\ s.narinfo_nar_files = t.narinfo_nar_files
      /\ s.chunks = t.chunks /\ s.nar_file_chunks = t.nar_file_chunks
      /\ HasTables(s)
  BY <1>1 DEF Tables, HasTables
<1>6. u \notin DOMAIN t.nar_files => Tables(s)
  BY <1>3, <1>4, <1>5 DEF Tables, RowsSound, LinksSound
<1> QED
  BY <1>2, <1>3, <1>4, <1>5, <1>6

\* A nar_file goes with its links, and nothing else goes.
LEMMA DeleteNarFileTables ==
    ASSUME NEW t, Tables(t), NEW u
    PROVE  LET s == DeleteNarFileByHash(t, u)
           IN  /\ Tables(s) /\ s.narinfos = t.narinfos
               /\ s.narinfo_nar_files = {l \in t.narinfo_nar_files : l[2] # u}
               /\ s.chunks = t.chunks
               /\ s.nar_file_chunks = {l \in t.nar_file_chunks : l.nar # u}
               /\ DOMAIN s.nar_files = DOMAIN t.nar_files \ {u}
               /\ \A v \in DOMAIN s.nar_files : s.nar_files[v] = t.nar_files[v]
<1> DEFINE rs == Remove(t.nar_files, {u})
           ls == {l \in t.narinfo_nar_files : l[2] # u}
           ks == {l \in t.nar_file_chunks : l.nar # u}
           s == DeleteNarFileByHash(t, u)
<1>1. s = [t EXCEPT !.nar_files = rs, !.narinfo_nar_files = ls, !.nar_file_chunks = ks]
  BY DEF DeleteNarFileByHash, Tables, HasTables
<1>3. /\ DOMAIN rs = DOMAIN t.nar_files \ {u}
      /\ \A v \in DOMAIN rs : rs[v] = t.nar_files[v]
  BY DEF Remove, Restrict
<1>4. ls \subseteq t.narinfo_nar_files /\ ks \subseteq t.nar_file_chunks
  OBVIOUS
<1> HIDE DEF s, rs, ls, ks
<1>5. /\ s.narinfos = t.narinfos /\ s.nar_files = rs /\ s.narinfo_nar_files = ls
      /\ s.chunks = t.chunks /\ s.nar_file_chunks = ks
      /\ HasTables(s)
  BY <1>1 DEF Tables, HasTables
<1>6. RowsSound(s)
  BY <1>3, <1>5 DEF Tables, RowsSound
<1>7. LinksSound(s)
  BY <1>4, <1>5 DEF Tables, LinksSound
<1> QED
  BY <1>3, <1>5, <1>6, <1>7 DEF Tables, s, ls, ks

\* A chunk goes with its links, and nothing else goes.
LEMMA DeleteChunkTables ==
    ASSUME NEW t, Tables(t), NEW c
    PROVE  LET s == DeleteChunkByID(t, c)
           IN  /\ Tables(s) /\ s.narinfos = t.narinfos /\ s.nar_files = t.nar_files
               /\ s.narinfo_nar_files = t.narinfo_nar_files
               /\ s.nar_file_chunks = {l \in t.nar_file_chunks : l.chunk # c}
<1> DEFINE cs == t.chunks \ {c}
           ks == {l \in t.nar_file_chunks : l.chunk # c}
           s == DeleteChunkByID(t, c)
<1>1. s = [t EXCEPT !.chunks = cs, !.nar_file_chunks = ks]
  BY DEF DeleteChunkByID, Tables, HasTables
<1>2. /\ ks \subseteq t.nar_file_chunks
      /\ LinksSound(t) => \A l \in ks : l.chunk \in cs
  BY DEF LinksSound
<1> HIDE DEF s, cs, ks
<1>3. /\ s.narinfos = t.narinfos /\ s.nar_files = t.nar_files
      /\ s.narinfo_nar_files = t.narinfo_nar_files
      /\ s.chunks = cs /\ s.nar_file_chunks = ks
      /\ HasTables(s)
  BY <1>1 DEF Tables, HasTables
<1>4. RowsSound(s)
  BY <1>3 DEF Tables, RowsSound
<1>5. LinksSound(s)
  BY <1>2, <1>3 DEF Tables, LinksSound
<1> QED
  BY <1>3, <1>4, <1>5 DEF Tables, s, ks

\* verified_at and chunking_started_at say nothing about what a row stands for.
LEMMA VerifiedTables ==
    ASSUME NEW t, Tables(t), NEW urls
    PROVE  LET s == UpdateNarFileVerifiedAt(t, urls)
           IN  /\ Tables(s) /\ s.narinfos = t.narinfos
               /\ s.narinfo_nar_files = t.narinfo_nar_files
               /\ s.chunks = t.chunks /\ s.nar_file_chunks = t.nar_file_chunks
               /\ DOMAIN s.nar_files = DOMAIN t.nar_files
               /\ \A u \in DOMAIN t.nar_files :
                    /\ s.nar_files[u].total = t.nar_files[u].total
                    /\ s.nar_files[u].size = t.nar_files[u].size
<1> DEFINE rs == [u \in DOMAIN t.nar_files |-> IF u \in urls
                    THEN [t.nar_files[u] EXCEPT !.verified = TRUE] ELSE t.nar_files[u]]
           s == UpdateNarFileVerifiedAt(t, urls)
<1>1. s = [t EXCEPT !.nar_files = rs]
  BY DEF UpdateNarFileVerifiedAt, Tables, HasTables
<1>2. /\ DOMAIN rs = DOMAIN t.nar_files
      /\ \A u \in DOMAIN rs : /\ rs[u] \in NarFileRow
                              /\ rs[u].total = t.nar_files[u].total
                              /\ rs[u].size = t.nar_files[u].size
                              /\ rs[u].started = t.nar_files[u].started
  BY DEF Tables, RowsSound, NarFileRow
<1> HIDE DEF s, rs
<1>3. /\ s.narinfos = t.narinfos /\ s.nar_files = rs
      /\ s.narinfo_nar_files = t.narinfo_nar_files
      /\ s.chunks = t.chunks /\ s.nar_file_chunks = t.nar_file_chunks
      /\ HasTables(s)
  BY <1>1 DEF Tables, HasTables
<1>4. RowsSound(s)
  BY <1>2, <1>3 DEF Tables, RowsSound
<1>5. LinksSound(s)
  BY <1>3 DEF Tables, LinksSound
<1> QED
  BY <1>2, <1>3, <1>4, <1>5 DEF Tables, s

\* The lock of a chunking is set on a NAR that is not in chunks.
LEMMA StartedTables ==
    ASSUME NEW t, Tables(t), NEW u \in DOMAIN t.nar_files, t.nar_files[u].total = 0
    PROVE  LET s == SetNarFileChunkingStarted(t, u)
           IN  /\ Tables(s) /\ s.narinfos = t.narinfos
               /\ s.narinfo_nar_files = t.narinfo_nar_files
               /\ s.chunks = t.chunks /\ s.nar_file_chunks = t.nar_file_chunks
               /\ DOMAIN s.nar_files = DOMAIN t.nar_files
               /\ \A v \in DOMAIN t.nar_files : v # u => s.nar_files[v] = t.nar_files[v]
<1> DEFINE rs == [t.nar_files EXCEPT ![u] = [@ EXCEPT !.started = "fresh"]]
           s == SetNarFileChunkingStarted(t, u)
<1>1. s = [t EXCEPT !.nar_files = rs]
  BY DEF SetNarFileChunkingStarted, SetStarted, HasNarFile, Tables, HasTables
<1>2. t.nar_files[u] \in NarFileRow
  BY DEF Tables, RowsSound
<1>3. /\ DOMAIN rs = DOMAIN t.nar_files
      /\ \A v \in DOMAIN t.nar_files : v # u => rs[v] = t.nar_files[v]
      /\ rs[u] = [t.nar_files[u] EXCEPT !.started = "fresh"]
  OBVIOUS
<1>4. rs[u] \in NarFileRow /\ rs[u].total = 0
  BY <1>2, <1>3 DEF NarFileRow
<1> HIDE DEF s, rs
<1>5. /\ s.narinfos = t.narinfos /\ s.nar_files = rs
      /\ s.narinfo_nar_files = t.narinfo_nar_files
      /\ s.chunks = t.chunks /\ s.nar_file_chunks = t.nar_file_chunks
      /\ HasTables(s)
  BY <1>1 DEF Tables, HasTables
<1>6. RowsSound(s)
  <2>1. DOMAIN s.nar_files \subseteq Urls /\ DOMAIN s.narinfos \subseteq NarInfos
    BY <1>3, <1>5 DEF Tables, RowsSound
  <2>2. \A h \in DOMAIN s.narinfos : s.narinfos[h] \in NarInfoRows(h)
    BY <1>5 DEF Tables, RowsSound
  <2>3. \A v \in DOMAIN s.nar_files :
          /\ s.nar_files[v] \in NarFileRow
          /\ s.nar_files[v].total > 0 => v[2] = "none"
          /\ s.nar_files[v].started # Null => s.nar_files[v].total = 0
    <3>1. rs[u].total = 0 /\ rs[u] \in NarFileRow
      BY <1>4
    <3>2. \A v \in DOMAIN t.nar_files :
            /\ t.nar_files[v] \in NarFileRow
            /\ t.nar_files[v].total > 0 => v[2] = "none"
            /\ t.nar_files[v].started # Null => t.nar_files[v].total = 0
      BY DEF Tables, RowsSound
    <3>3. s.nar_files = rs /\ DOMAIN rs = DOMAIN t.nar_files
      BY <1>3, <1>5
    <3>4. ASSUME NEW v \in DOMAIN t.nar_files
          PROVE  rs[v] \in NarFileRow /\ (rs[v].total > 0 => v[2] = "none")
                 /\ (rs[v].started # Null => rs[v].total = 0)
      <4>1. CASE v = u
        BY <3>1, <4>1
      <4>2. CASE v # u
        <5>1. rs[v] = t.nar_files[v]
          BY <1>3, <4>2
        <5> QED
          BY <3>2, <5>1
      <4> QED
        BY <4>1, <4>2
    <3> QED
      BY <3>3, <3>4
  <2> QED
    BY <2>1, <2>2, <2>3 DEF RowsSound
<1>7. LinksSound(s)
  BY <1>5 DEF Tables, LinksSound
<1> QED
  BY <1>3, <1>5, <1>6, <1>7 DEF Tables, s

\* A narinfo may be linked to its NAR.
LEMMA LinkTables ==
    ASSUME NEW t, Tables(t), NEW new,
           \A l \in new : l \in NarInfos \X Urls /\ l[2][1] = NarOf[l[1]]
    PROVE  LET s == [t EXCEPT !.narinfo_nar_files = @ \cup new]
           IN  /\ Tables(s) /\ s.narinfos = t.narinfos /\ s.nar_files = t.nar_files
               /\ s.narinfo_nar_files = t.narinfo_nar_files \cup new
               /\ s.chunks = t.chunks /\ s.nar_file_chunks = t.nar_file_chunks
<1> DEFINE ls == t.narinfo_nar_files \cup new
           s == [t EXCEPT !.narinfo_nar_files = @ \cup new]
<1>1. s = [t EXCEPT !.narinfo_nar_files = ls]
  BY DEF Tables, HasTables
<1> HIDE DEF s
<1>2. /\ s.narinfos = t.narinfos /\ s.nar_files = t.nar_files
      /\ s.narinfo_nar_files = ls
      /\ s.chunks = t.chunks /\ s.nar_file_chunks = t.nar_file_chunks
      /\ HasTables(s)
  <2> HIDE DEF ls
  <2> QED
    BY <1>1 DEF Tables, HasTables
<1>3. RowsSound(s)
  BY <1>2 DEF Tables, RowsSound
<1>4. LinksSound(s)
  BY <1>2 DEF Tables, LinksSound
<1> QED
  BY <1>2, <1>3, <1>4 DEF Tables, s

\* Chunks are recorded with their rows, and where no link is in the way.
LEMMA RecordTables ==
    ASSUME NEW t, Tables(t), NEW n \in Nars
    PROVE  LET s == LinkNarFileToChunks(CreateChunk(t, Range(ContentOf[n])), Links(n))
           IN  /\ Tables(s) /\ s.narinfos = t.narinfos /\ s.nar_files = t.nar_files
               /\ s.narinfo_nar_files = t.narinfo_nar_files
               /\ \A l : l.nar # Url(n, "none") =>
                    (l \in s.nar_file_chunks <=> l \in t.nar_file_chunks)
<1> DEFINE cs == t.chunks \cup Range(ContentOf[n])
           new == {l \in Links(n) : ~ \E k \in t.nar_file_chunks : k.nar = l.nar /\ k.index = l.index}
           ks == t.nar_file_chunks \cup new
           r == CreateChunk(t, Range(ContentOf[n]))
           s == LinkNarFileToChunks(r, Links(n))
<1>1. r = [t EXCEPT !.chunks = cs]
  BY DEF CreateChunk, Tables, HasTables
<1>2. \A l \in Links(n) : l.nar = Url(n, "none") /\ l.chunk \in cs
  BY FsckAssumption DEF Links, Range
<1>3. \A j, k \in Links(n) : j.index = k.index => j = k
  BY DEF Links
<1>4. /\ \A l \in ks : l.chunk \in cs
      /\ \A j, k \in ks : j.nar = k.nar /\ j.index = k.index => j = k
  BY <1>2, <1>3 DEF Tables, LinksSound
<1>5. \A l : l.nar # Url(n, "none") => (l \in ks <=> l \in t.nar_file_chunks)
  BY <1>2
<1> HIDE DEF cs, r
<1>6. /\ r.narinfos = t.narinfos /\ r.nar_files = t.nar_files
      /\ r.narinfo_nar_files = t.narinfo_nar_files
      /\ r.chunks = cs /\ r.nar_file_chunks = t.nar_file_chunks
      /\ HasTables(r)
  BY <1>1 DEF Tables, HasTables
<1>7. s = [r EXCEPT !.nar_file_chunks = ks]
  BY <1>6 DEF LinkNarFileToChunks, HasTables
<1> HIDE DEF s, ks
<1>8. /\ s.narinfos = t.narinfos /\ s.nar_files = t.nar_files
      /\ s.narinfo_nar_files = t.narinfo_nar_files
      /\ s.chunks = cs /\ s.nar_file_chunks = ks
      /\ HasTables(s)
  BY <1>6, <1>7 DEF HasTables
<1>9. RowsSound(s)
  BY <1>8 DEF Tables, RowsSound
<1>10. LinksSound(s)
  BY <1>4, <1>8 DEF Tables, LinksSound
<1> QED
  BY <1>5, <1>8, <1>9, <1>10 DEF Tables, s, r

\* A NAR that is in chunks now: its row says so, and the lock goes.
LEMMA TotalTables ==
    ASSUME NEW t, Tables(t), NEW u, u \in DOMAIN t.nar_files => u[2] = "none",
           NEW total \in Nat, NEW size \in Nat
    PROVE  LET s == UpdateNarFileTotalChunks(t, u, total, size)
           IN  /\ Tables(s) /\ s.narinfos = t.narinfos
               /\ s.narinfo_nar_files = t.narinfo_nar_files
               /\ s.chunks = t.chunks /\ s.nar_file_chunks = t.nar_file_chunks
               /\ DOMAIN s.nar_files = DOMAIN t.nar_files
               /\ \A v \in DOMAIN t.nar_files : v # u => s.nar_files[v] = t.nar_files[v]
<1>1. CASE u \notin DOMAIN t.nar_files
  BY <1>1 DEF UpdateNarFileTotalChunks, HasNarFile
<1>2. CASE u \in DOMAIN t.nar_files
  <2> DEFINE row == [t.nar_files[u] EXCEPT !.total = total, !.size = size, !.started = Null]
             rs == [t.nar_files EXCEPT ![u] = row]
             s == UpdateNarFileTotalChunks(t, u, total, size)
  <2>1. s = [t EXCEPT !.nar_files = rs]
    BY <1>2 DEF UpdateNarFileTotalChunks, HasNarFile, Tables, HasTables
  <2>2. t.nar_files[u] \in NarFileRow
    BY <1>2 DEF Tables, RowsSound
  <2>3. row \in NarFileRow /\ row.total = total /\ row.started = Null
    BY <2>2 DEF NarFileRow
  <2> HIDE DEF row
  <2>4. /\ DOMAIN rs = DOMAIN t.nar_files
        /\ \A v \in DOMAIN t.nar_files : v # u => rs[v] = t.nar_files[v]
        /\ rs[u] = row
    BY <1>2
  <2> HIDE DEF s, rs
  <2>5. /\ s.narinfos = t.narinfos /\ s.nar_files = rs
        /\ s.narinfo_nar_files = t.narinfo_nar_files
        /\ s.chunks = t.chunks /\ s.nar_file_chunks = t.nar_file_chunks
        /\ HasTables(s)
    BY <2>1 DEF Tables, HasTables
  <2>6. RowsSound(s)
    BY <1>2, <2>3, <2>4, <2>5 DEF Tables, RowsSound
  <2>7. LinksSound(s)
    BY <2>5 DEF Tables, LinksSound
  <2> QED
    BY <2>4, <2>5, <2>6, <2>7 DEF Tables, s
<1> QED
  BY <1>1, <1>2

\* The narinfos with one URL of a NAR get another of it.
LEMMA MovedTables ==
    ASSUME NEW t, Tables(t), NEW n \in Nars
    PROVE  LET s == UpdateNarInfoCompressionFileSizeHashAndURL(
                        t, Url(n, "xz"), Url(n, "none"), Null, Null)
           IN  /\ Tables(s) /\ s.nar_files = t.nar_files
               /\ s.narinfo_nar_files = t.narinfo_nar_files
               /\ s.chunks = t.chunks /\ s.nar_file_chunks = t.nar_file_chunks
               /\ DOMAIN s.narinfos = DOMAIN t.narinfos
               /\ \A h \in DOMAIN t.narinfos : NarOf[h] # n => s.narinfos[h] = t.narinfos[h]
<1> DEFINE v == Url(n, "xz")
           rs == [h \in DOMAIN t.narinfos |-> IF t.narinfos[h].url # v THEN t.narinfos[h]
                    ELSE [t.narinfos[h] EXCEPT !.url = Url(n, "none"), !.fileSize = Null,
                                               !.fileHash = Null]]
           s == UpdateNarInfoCompressionFileSizeHashAndURL(t, v, Url(n, "none"), Null, Null)
<1>1. s = [t EXCEPT !.narinfos = rs]
  BY DEF UpdateNarInfoCompressionFileSizeHashAndURL, Tables, HasTables
<1>2. \A h \in DOMAIN t.narinfos : t.narinfos[h] \in NarInfoRows(h)
  BY DEF Tables, RowsSound
<1>3. \A h \in DOMAIN t.narinfos : t.narinfos[h].url = v => NarOf[h] = n
  BY <1>2 DEF NarInfoRows, Url
<1>4. ASSUME NEW h \in DOMAIN t.narinfos
      PROVE  rs[h] \in NarInfoRows(h) /\ (NarOf[h] # n => rs[h] = t.narinfos[h])
  <2>1. CASE t.narinfos[h].url # v
    BY <1>2, <2>1
  <2>2. CASE t.narinfos[h].url = v
    <3>1. rs[h] = [t.narinfos[h] EXCEPT !.url = Url(n, "none"), !.fileSize = Null,
                                        !.fileHash = Null]
      BY <2>2
    <3>2. t.narinfos[h] \in NarInfoRows(h) /\ NarOf[h] = n
      BY <1>2, <1>3, <2>2
    <3>3. Url(n, "none") \in {NarOf[h]} \X {"none", "xz"}
      BY <3>2 DEF Url
    <3> QED
      BY <3>1, <3>2, <3>3 DEF NarInfoRows
  <2> QED
    BY <2>1, <2>2
<1>5. DOMAIN rs = DOMAIN t.narinfos
  OBVIOUS
<1> HIDE DEF s, rs
<1>6. /\ s.narinfos = rs /\ s.nar_files = t.nar_files
      /\ s.narinfo_nar_files = t.narinfo_nar_files
      /\ s.chunks = t.chunks /\ s.nar_file_chunks = t.nar_file_chunks
      /\ HasTables(s)
  BY <1>1 DEF Tables, HasTables
<1>7. RowsSound(s)
  BY <1>4, <1>5, <1>6 DEF Tables, RowsSound
<1>8. LinksSound(s)
  BY <1>6 DEF Tables, LinksSound
<1> QED
  BY <1>4, <1>5, <1>6, <1>7, <1>8 DEF Tables, s

\* The chunks of a NAR, by their links.
LEMMA ChunksByIndex ==
    ASSUME NEW t, LinksSound(t), NEW u
    PROVE  /\ GetChunksByNarFileID(t, u) =
                [i \in DOMAIN GetChunksByNarFileID(t, u) |-> GetChunksByNarFileID(t, u)[i]]
           /\ \A i : i \in DOMAIN GetChunksByNarFileID(t, u) <=>
                      \E l \in t.nar_file_chunks : l.nar = u /\ l.index = i
           /\ \A l \in t.nar_file_chunks :
                l.nar = u => GetChunksByNarFileID(t, u)[l.index] = l.chunk
<1> DEFINE links == {l \in t.nar_file_chunks : l.nar = u}
           chunks == GetChunksByNarFileID(t, u)
<1>1. chunks = [i \in {l.index : l \in links} |-> (CHOOSE l \in links : l.index = i).chunk]
  BY DEF GetChunksByNarFileID
<1>2. ASSUME NEW l \in t.nar_file_chunks, l.nar = u
      PROVE  chunks[l.index] = l.chunk
  <2> DEFINE k == CHOOSE x \in links : x.index = l.index
  <2>1. l \in links
    BY <1>2
  <2>2. k \in links /\ k.index = l.index
    BY <2>1
  <2>3. k = l
    BY <1>2, <2>2 DEF LinksSound
  <2>4. chunks[l.index] = k.chunk
    BY <1>1, <2>1
  <2> QED
    BY <2>3, <2>4
<1> QED
  BY <1>1, <1>2

\* A NAR whose links are the same has the same chunks.
LEMMA SameChunks ==
    ASSUME NEW s, NEW t, LinksSound(s), LinksSound(t), NEW u,
           \A l : l.nar = u => (l \in s.nar_file_chunks <=> l \in t.nar_file_chunks)
    PROVE  GetChunksByNarFileID(s, u) = GetChunksByNarFileID(t, u)
<1> DEFINE a == GetChunksByNarFileID(s, u)
           b == GetChunksByNarFileID(t, u)
<1>1. \A i : i \in DOMAIN a <=> \E l \in s.nar_file_chunks : l.nar = u /\ l.index = i
  BY ChunksByIndex
<1>2. \A i : i \in DOMAIN b <=> \E l \in t.nar_file_chunks : l.nar = u /\ l.index = i
  BY ChunksByIndex
<1>3. \A l \in s.nar_file_chunks : l.nar = u => a[l.index] = l.chunk
  BY ChunksByIndex
<1>4. \A l \in t.nar_file_chunks : l.nar = u => b[l.index] = l.chunk
  BY ChunksByIndex
<1>5. a = [i \in DOMAIN a |-> a[i]]
  BY ChunksByIndex
<1>6. b = [i \in DOMAIN b |-> b[i]]
  BY ChunksByIndex
<1> HIDE DEF a, b
<1>7. DOMAIN a = DOMAIN b
  BY <1>1, <1>2
<1>8. \A i \in DOMAIN a : a[i] = b[i]
  BY <1>1, <1>3, <1>4
<1>9. a = b
  BY <1>5, <1>6, <1>7, <1>8
<1> QED
  BY <1>9 DEF a, b

-----------------------------------------------------------------------------
(* What is in order, and what the looks make of it.                        *)

\* A NAR has chunks.
LEMMA ContentLen ==
    ASSUME NEW n \in Nars
    PROVE  /\ ContentOf[n] \in Seq(Chunks) /\ Len(ContentOf[n]) \in Nat
           /\ Len(ContentOf[n]) > 0 /\ DOMAIN ContentOf[n] = 1..Len(ContentOf[n])
  BY FsckAssumption

\* A narinfo that can be served has its NAR compressed in the store, or in chunks.
LEMMA ServedWays ==
    ASSUME Tables(db), store \subseteq Nars \X {"xz"}, NEW h \in NarInfos, Served(h)
    PROVE  LET u == UrlIn(db, h)
           IN  /\ h \in DOMAIN db.narinfos
               /\ u \in Urls /\ u[1] = NarOf[h] /\ u[1] \in Nars
               /\ u \in DOMAIN db.nar_files /\ <<h, u>> \in db.narinfo_nar_files
               /\ \/ u[2] = "xz" /\ u \in store /\ ~ (db.nar_files[u].total > 0)
                  \/ u[2] = "none" /\ InChunks(u) /\ db.nar_files[u].total > 0
<1> DEFINE u == UrlIn(db, h)
<1>1. /\ h \in DOMAIN db.narinfos
      /\ u \in GetNarFileByNarInfoID(db, h)
      /\ InStore(u) \/ InChunks(u)
  BY DEF Served, UrlIn
<1>2. u \in DOMAIN db.nar_files /\ <<h, u>> \in db.narinfo_nar_files
  BY <1>1 DEF GetNarFileByNarInfoID
<1>3. u \in {NarOf[h]} \X {"none", "xz"}
  BY <1>1 DEF Tables, RowsSound, NarInfoRows, UrlIn
<1>4. NarOf[h] \in Nars
  BY FsckAssumption
<1>5. /\ db.nar_files[u].total > 0 => u[2] = "none"
      /\ db.nar_files[u] \in NarFileRow
  BY <1>2 DEF Tables, RowsSound
<1>6. u \in Urls /\ u[1] = NarOf[h] /\ u[2] \in {"none", "xz"}
  BY <1>3, <1>4 DEF Urls
<1> HIDE DEF u
<1>7. CASE InStore(u)
  <2>1. u \in store /\ u[2] = "xz"
    BY <1>7 DEF InStore
  <2> QED
    BY <1>1, <1>2, <1>4, <1>5, <1>6, <2>1 DEF u
<1>8. CASE InChunks(u)
  <2>1. db.nar_files[u].total > 0
    BY <1>4, <1>6, <1>8, ContentLen DEF InChunks
  <2> QED
    BY <1>1, <1>2, <1>4, <1>5, <1>6, <1>8, <2>1 DEF u
<1> QED
  BY <1>1, <1>7, <1>8

\* The links of a NAR in chunks: each index to the chunk the NAR has there.
LEMMA ChunkLinks ==
    ASSUME Tables(db), NEW u \in Urls, InChunks(u)
    PROVE  /\ \A c \in Range(ContentOf[u[1]]) : \E l \in db.nar_file_chunks : l.nar = u /\ l.chunk = c
           /\ \A l \in db.nar_file_chunks : l.nar = u => l.chunk \in Range(ContentOf[u[1]])
<1>1. GetChunksByNarFileID(db, u) = ContentOf[u[1]]
  BY DEF InChunks
<1>2. LinksSound(db)
  BY DEF Tables
<1>3. \A i : i \in DOMAIN ContentOf[u[1]] <=> \E l \in db.nar_file_chunks : l.nar = u /\ l.index = i
  BY <1>1, <1>2, ChunksByIndex
<1>4. \A l \in db.nar_file_chunks : l.nar = u => ContentOf[u[1]][l.index] = l.chunk
  BY <1>1, <1>2, ChunksByIndex
<1> QED
  BY <1>3, <1>4 DEF Range

\* No look takes a narinfo, a NAR or a chunk for wrong that a healthy narinfo needs.
LEMMA NotWrong ==
    ASSUME World, RowsAgree, FoundInv, NEW check \in Checks, NEW x \in found[check],
           StillWrong(check, x)
    PROVE  Unneeded(check, x)
<1> USE DEF World
<1>0. check \in {"narinfosWithoutNarFiles", "orphanedNarFilesInDB", "narFilesMissingInStorage",
                 "orphanedNarFilesInStorage", "orphanedChunksInDB", "narFilesWithChunkIssues",
                 "narFilesWithSizeMismatch", "orphanedChunksInStorage",
                 "narFilesWithCorruptChunks", "narFilesWithHashMismatch"}
  BY DEF Checks, linkChecks, fileChecks, cdcChecks, chunkFileChecks, contentChecks, Range
<1>1. CASE check = "narinfosWithoutNarFiles"
  <2>1. GetNarFileByNarInfoID(db, x) = {}
    BY <1>1, Zenon DEF StillWrong
  <2>2. x \notin healthy
    BY <2>1 DEF Served
  <2> QED
    BY <1>1, <2>2 DEF Unneeded
<1>2. CASE check = "orphanedNarFilesInDB"
  <2>1. GetNarInfoURLByNarFileHash(db, x) = {}
    BY <1>2, Zenon DEF StillWrong
  <2>2. \A h \in healthy : UrlIn(db, h) # x
    BY <2>1, ServedWays DEF GetNarInfoURLByNarFileHash
  <2> QED
    BY <1>2, <2>2 DEF Unneeded, HealthyUrls
<1>3. CASE check = "narFilesMissingInStorage"
  <2>1. x \notin store
    BY <1>3, Zenon DEF StillWrong
  <2>2. ~ (rows[x].total > 0)
    BY <1>3 DEF FoundInv
  <2>3. \A h \in healthy : UrlIn(db, h) # x
    BY <2>1, <2>2, ServedWays DEF RowsAgree
  <2> QED
    BY <1>3, <2>3 DEF Unneeded, HealthyUrls
<1>4. CASE check = "orphanedNarFilesInStorage"
  <2>1. GetNarFileByHashAndCompressionAndQuery(db, x) = Null
    BY <1>4, Zenon DEF StillWrong
  <2>2. x \notin DOMAIN db.nar_files
    BY <2>1, FsckAssumption DEF GetNarFileByHashAndCompressionAndQuery, Tables, RowsSound
  <2>3. \A h \in healthy : UrlIn(db, h) # x
    BY <2>2, ServedWays
  <2> QED
    BY <1>4, <2>3 DEF Unneeded, HealthyUrls
<1>5. ASSUME NEW h \in healthy, UrlIn(db, h)[2] = "none"
      PROVE  /\ InChunks(UrlIn(db, h)) /\ UrlIn(db, h)[1] = NarOf[h] /\ UrlIn(db, h) \in Urls
             /\ NarOf[h] \in Nars
             /\ \A c \in Range(ContentOf[NarOf[h]]) :
                  c \in Chunks /\ \E l \in db.nar_file_chunks : l.chunk = c
  <2>1. /\ InChunks(UrlIn(db, h)) /\ UrlIn(db, h)[1] = NarOf[h] /\ UrlIn(db, h) \in Urls
        /\ NarOf[h] \in Nars
    BY <1>5, ServedWays
  <2>2. \A c \in Range(ContentOf[NarOf[h]]) : c \in Chunks
    BY <2>1, ContentLen DEF Range
  <2>3. \A c \in Range(ContentOf[NarOf[h]]) : \E l \in db.nar_file_chunks : l.chunk = c
    BY <2>1, ChunkLinks
  <2> QED
    BY <2>1, <2>2, <2>3
<1>6. CASE check = "orphanedChunksInDB"
  <2>1. x \in GetOrphanedChunks(db)
    BY <1>6, Zenon DEF StillWrong
  <2>2. x \notin HealthyChunks
    BY <1>5, <2>1 DEF GetOrphanedChunks, HealthyChunks
  <2> QED
    BY <1>6, <2>2 DEF Unneeded
<1>7. CASE check = "orphanedChunksInStorage"
  <2>1. GetChunkByHash(db, x) = Null
    BY <1>7, Zenon DEF StillWrong
  <2>2. \A l \in db.nar_file_chunks : l.chunk \in db.chunks
    BY DEF Tables, LinksSound
  <2>3. x \notin HealthyChunks
    BY <1>5, <2>1, <2>2, FsckAssumption DEF GetChunkByHash, HealthyChunks
  <2> QED
    BY <1>7, <2>3 DEF Unneeded
<1>8. ASSUME check \in ChunkedChecks, NEW h \in healthy, UrlIn(db, h) = x
      PROVE  FALSE
  <2> DEFINE n == NarOf[h]
  <2>1. rows[x].total > 0
    BY <1>8 DEF FoundInv
  <2>2. rows[x].total = db.nar_files[x].total
    BY <1>8 DEF RowsAgree
  <2>3. x[2] = "none" /\ x[1] = n
    BY <1>8, <2>1, <2>2, ServedWays
  <2>4. /\ db.nar_files[x].total = Len(ContentOf[n]) /\ db.nar_files[x].size = Len(ContentOf[n])
        /\ GetChunksByNarFileID(db, x) = ContentOf[n]
        /\ \A c \in Range(ContentOf[n]) : c \in DOMAIN chunkStore /\ chunkStore[c] = c
        /\ n \in Nars
    BY <1>5, <1>8, <2>3 DEF InChunks
  <2>5. \A i \in DOMAIN ContentOf[n] : ContentOf[n][i] \in Range(ContentOf[n])
    BY DEF Range
  <2>6. CASE check = "narFilesWithChunkIssues"
    <3>1. isNarFileChunkBroken(x)
      BY <2>6, Zenon DEF StillWrong
    <3>2. Cardinality(DOMAIN ContentOf[n]) = Len(ContentOf[n])
      BY <2>4, ContentLen, FS_Interval
    <3> QED
      BY <2>2, <2>4, <2>5, <3>1, <3>2 DEF isNarFileChunkBroken
  <2>7. CASE check = "narFilesWithSizeMismatch"
    <3>1. x \in GetCDCNarFilesWithSizeMismatch(db)
      BY <2>7, Zenon DEF StillWrong
    <3>2. PICK k \in GetNarInfoURLByNarFileHash(db, x) : db.narinfos[k].narSize # db.nar_files[x].size
      BY <3>1 DEF GetCDCNarFilesWithSizeMismatch
    <3>3. k \in DOMAIN db.narinfos /\ NarOf[k] = n
      BY <2>3, <3>2 DEF GetNarInfoURLByNarFileHash, Tables, LinksSound
    <3>4. db.narinfos[k].narSize = Len(ContentOf[n])
      BY <3>3 DEF Tables, RowsSound, NarInfoRows
    <3> QED
      BY <2>4, <3>2, <3>4
  <2>8. CASE check = "narFilesWithCorruptChunks"
    <3>1. isNarFileContentCorrupt(x)
      BY <2>8, Zenon DEF StillWrong
    <3> QED
      BY <2>4, <3>1 DEF isNarFileContentCorrupt
  <2>9. CASE check = "narFilesWithHashMismatch"
    <3>1. isNarFileHashMismatched(x)
      BY <2>9, Zenon DEF StillWrong
    <3>2. PICK k \in GetNarInfoURLByNarFileHash(db, x) :
            db.narinfos[k].narHash # [i \in DOMAIN ContentOf[n] |->
               IF ContentOf[n][i] \in DOMAIN chunkStore THEN chunkStore[ContentOf[n][i]] ELSE Null]
      BY <2>4, <3>1 DEF isNarFileHashMismatched, GetNarInfoNarHashByNarFileID
    <3>3. k \in DOMAIN db.narinfos /\ NarOf[k] = n
      BY <2>3, <3>2 DEF GetNarInfoURLByNarFileHash, Tables, LinksSound
    <3>4. db.narinfos[k].narHash = ContentOf[n]
      BY <3>3 DEF Tables, RowsSound, NarInfoRows
    <3>5. [i \in DOMAIN ContentOf[n] |-> IF ContentOf[n][i] \in DOMAIN chunkStore
             THEN chunkStore[ContentOf[n][i]] ELSE Null] = [i \in DOMAIN ContentOf[n] |-> ContentOf[n][i]]
      BY <2>4, <2>5
    <3>6. ContentOf[n] = [i \in DOMAIN ContentOf[n] |-> ContentOf[n][i]]
      BY <2>4, ContentLen
    <3> QED
      BY <3>2, <3>4, <3>5, <3>6
  <2> QED
    BY <1>8, <2>6, <2>7, <2>8, <2>9 DEF ChunkedChecks, contentChecks, Range
<1>9. CASE check \in ChunkedChecks
  BY <1>8, <1>9 DEF Unneeded, HealthyUrls, ChunkedChecks, contentChecks, Range
<1> QED
  BY <1>0, <1>1, <1>2, <1>3, <1>4, <1>6, <1>7, <1>9 DEF ChunkedChecks, contentChecks, Range

-----------------------------------------------------------------------------
(* Steps that change the database or the stores.                           *)

\* A step leaves what is in order as it is.
Kept ==
    /\ World'
    /\ healthy' \subseteq healthy
    /\ \A h \in healthy' :
         /\ UrlIn(db', h) = UrlIn(db, h)
         /\ db'.nar_files[UrlIn(db, h)].total = db.nar_files[UrlIn(db, h)].total

\* A narinfo can be served as long as its row, its link, its NAR's row and what that
\* stands for stay.
LEMMA ServedStays ==
    ASSUME World, Tables(db'), NEW h \in healthy,
           h \in DOMAIN db'.narinfos, UrlIn(db', h) = UrlIn(db, h),
           <<h, UrlIn(db, h)>> \in db'.narinfo_nar_files,
           UrlIn(db, h) \in DOMAIN db'.nar_files,
           db'.nar_files[UrlIn(db, h)].total = db.nar_files[UrlIn(db, h)].total,
           db'.nar_files[UrlIn(db, h)].size = db.nar_files[UrlIn(db, h)].size,
           UrlIn(db, h) \in store => UrlIn(db, h) \in store',
           UrlIn(db, h)[2] = "none" =>
             \A l : l.nar = UrlIn(db, h) => (l \in db'.nar_file_chunks <=> l \in db.nar_file_chunks),
           UrlIn(db, h)[2] = "none" =>
             \A c \in Range(ContentOf[NarOf[h]]) :
                c \in DOMAIN chunkStore =>
                  c \in DOMAIN chunkStore' /\ (chunkStore[c] = c => chunkStore'[c] = c)
    PROVE  Served(h)'
<1> DEFINE u == UrlIn(db, h)
<1>1. h \in NarInfos /\ Served(h) /\ Tables(db) /\ store \subseteq Nars \X {"xz"}
  BY DEF World
<1>2. /\ u[1] = NarOf[h]
      /\ \/ u[2] = "xz" /\ u \in store
         \/ u[2] = "none" /\ InChunks(u)
  BY <1>1, ServedWays
<1>3. u \in GetNarFileByNarInfoID(db', h) /\ db'.narinfos[h].url = u
  BY DEF GetNarFileByNarInfoID, UrlIn
<1>4. CASE u \in store
  BY <1>3, <1>4 DEF Served, InStore
<1>5. CASE u[2] = "none" /\ InChunks(u)
  <2>1. GetChunksByNarFileID(db', u) = GetChunksByNarFileID(db, u)
    <3>1. LinksSound(db) /\ LinksSound(db')
      BY <1>1 DEF Tables
    <3>2. \A l : l.nar = u => (l \in db'.nar_file_chunks <=> l \in db.nar_file_chunks)
      BY <1>5
    <3> HIDE DEF u
    <3> QED
      BY <3>1, <3>2, SameChunks
  <2>2. InChunks(u)'
    BY <1>2, <1>3, <1>5, <2>1 DEF InChunks
  <2> QED
    BY <1>3, <2>2 DEF Served
<1> QED
  BY <1>2, <1>4, <1>5

\* What is not needed now will not be needed later.
LEMMA StaysUnneeded ==
    ASSUME World, Kept
    PROVE  /\ HealthyUrls' \subseteq HealthyUrls
           /\ HealthyChunks' \subseteq HealthyChunks
           /\ \A check, x : Unneeded(check, x) => Unneeded(check, x)'
<1>1. HealthyUrls' \subseteq HealthyUrls
  BY DEF Kept, HealthyUrls
<1>2. HealthyChunks' \subseteq HealthyChunks
  BY DEF Kept, HealthyChunks
<1>3. \A check, x : Unneeded(check, x) => Unneeded(check, x)'
  BY <1>1, <1>2 DEF Kept, Unneeded
<1> QED
  BY <1>1, <1>2, <1>3

\* Nor do the nar_files that were read get out of date for what is in order.
LEMMA StaysAgreed ==
    ASSUME World, Kept, rows' = rows
    PROVE  RowsAgree => RowsAgree'
  BY DEF Kept, RowsAgree

\* Whatever keeps what is in order and is no step of fsck keeps the invariant.
LEMMA KeptByOthers ==
    ASSUME FsckInv, Kept, UNCHANGED fsckVars
    PROVE  FsckInv'
<1> USE DEF FsckInv
<1>1. World'
  BY DEF Kept
<1>2. Control'
  BY StaysAgreed DEF Control, fsckVars, Unread
<1>3. FoundInv'
  BY DEF FoundInv, fsckVars
<1>4. WorkInv'
  BY StaysUnneeded DEF WorkInv, fsckVars, Kept
<1> QED
  BY <1>1, <1>2, <1>3, <1>4

\* An upload leaves the narinfos and NARs there are.
LEMMA PutNarKeeps ==
    ASSUME World, NEW n \in Nars, PutNar(n)
    PROVE  Kept
<1>1. db' = db /\ chunkStore' = chunkStore /\ healthy' = healthy /\ store \subseteq store'
      /\ store' \subseteq Nars \X {"xz"}
  BY DEF PutNar, World, Url
<1>2. \A h \in healthy : Served(h)'
  BY <1>1 DEF World, Served, InStore, InChunks
<1> QED
  BY <1>1, <1>2 DEF Kept, World

\* So does its record.
LEMMA RecordNarKeeps ==
    ASSUME World, NEW u \in store, RecordNar(u)
    PROVE  Kept
<1>1. u \in Urls /\ Len(ContentOf[u[1]]) \in Nat
  BY ContentLen DEF World, Urls
<1>2. /\ db' = CreateNarFile(db, u, Len(ContentOf[u[1]]))
      /\ store' = store /\ chunkStore' = chunkStore /\ healthy' = healthy
  BY DEF RecordNar
<1>3. /\ Tables(db') /\ db'.narinfos = db.narinfos
      /\ db'.narinfo_nar_files = db.narinfo_nar_files
      /\ db'.nar_file_chunks = db.nar_file_chunks
      /\ DOMAIN db'.nar_files = DOMAIN db.nar_files \cup {u}
      /\ \A v \in DOMAIN db.nar_files : db'.nar_files[v] = db.nar_files[v]
  BY <1>1, <1>2, CreateNarFileTables DEF World
<1>4. ASSUME NEW h \in healthy
      PROVE  /\ Served(h)' /\ UrlIn(db', h) = UrlIn(db, h)
             /\ UrlIn(db, h) \in DOMAIN db.nar_files
  <2>1. /\ h \in DOMAIN db.narinfos /\ UrlIn(db, h) \in DOMAIN db.nar_files
        /\ <<h, UrlIn(db, h)>> \in db.narinfo_nar_files
    BY ServedWays DEF World
  <2> QED
    BY <1>2, <1>3, <2>1, ServedStays DEF UrlIn
<1> QED
  BY <1>2, <1>3, <1>4 DEF Kept, World

\* A narinfo whose NAR is there comes with its records.
LEMMA PutNarInfoKeeps ==
    ASSUME World, NEW h \in NarInfos, PutNarInfo(h)
    PROVE  Kept
<1> DEFINE u == Url(NarOf[h], "xz")
           a == CreateNarInfo(db, h, NarInfoRow(h, u))
           b == CreateNarFile(a, u, Len(ContentOf[u[1]]))
<1>1. /\ u \in Urls /\ u[1] = NarOf[h] /\ Len(ContentOf[u[1]]) \in Nat
      /\ NarInfoRow(h, u) \in NarInfoRows(h)
  BY FsckAssumption, ContentLen DEF Url, Urls, NarInfoRow, NarInfoRows
<1>2. /\ db' = LinkNarInfoToNarFile(b, h, u) /\ h \notin DOMAIN db.narinfos
      /\ store' = store /\ chunkStore' = chunkStore /\ healthy' = healthy
  BY DEF PutNarInfo
<1>3. Tables(db)
  BY DEF World
<1> HIDE DEF u
<1>4. /\ Tables(a) /\ a.nar_files = db.nar_files
      /\ a.narinfo_nar_files = db.narinfo_nar_files
      /\ a.nar_file_chunks = db.nar_file_chunks
      /\ DOMAIN db.narinfos \subseteq DOMAIN a.narinfos
      /\ \A k \in DOMAIN db.narinfos : a.narinfos[k] = db.narinfos[k]
  BY <1>1, <1>2, <1>3, CreateNarInfoTables
<1> HIDE DEF a
<1>5. /\ Tables(b) /\ b.narinfos = a.narinfos
      /\ b.narinfo_nar_files = a.narinfo_nar_files
      /\ b.nar_file_chunks = a.nar_file_chunks
      /\ DOMAIN a.nar_files \subseteq DOMAIN b.nar_files
      /\ \A v \in DOMAIN a.nar_files : b.nar_files[v] = a.nar_files[v]
  BY <1>1, <1>4, CreateNarFileTables
<1> HIDE DEF b
<1>6. \A l \in {<<h, u>>} : l \in NarInfos \X Urls /\ l[2][1] = NarOf[l[1]]
  BY <1>1
<1>7. /\ Tables(db') /\ db'.narinfos = b.narinfos /\ db'.nar_files = b.nar_files
      /\ db'.narinfo_nar_files = b.narinfo_nar_files \cup {<<h, u>>}
      /\ db'.nar_file_chunks = b.nar_file_chunks
  <2> DEFINE new == {<<h, u>>}
  <2>1. db' = [b EXCEPT !.narinfo_nar_files = @ \cup new]
    BY <1>2 DEF LinkNarInfoToNarFile
  <2>2. \A l \in new : l \in NarInfos \X Urls /\ l[2][1] = NarOf[l[1]]
    BY <1>6
  <2> HIDE DEF new
  <2>3. /\ Tables(db') /\ db'.narinfos = b.narinfos /\ db'.nar_files = b.nar_files
        /\ db'.narinfo_nar_files = b.narinfo_nar_files \cup new
        /\ db'.nar_file_chunks = b.nar_file_chunks
    BY <1>5, <2>1, <2>2, LinkTables
  <2> QED
    BY <2>3 DEF new
<1>8. ASSUME NEW k \in healthy
      PROVE  /\ Served(k)' /\ UrlIn(db', k) = UrlIn(db, k)
             /\ UrlIn(db, k) \in DOMAIN db.nar_files
  <2>1. /\ k \in DOMAIN db.narinfos /\ UrlIn(db, k) \in DOMAIN db.nar_files
        /\ <<k, UrlIn(db, k)>> \in db.narinfo_nar_files
    BY ServedWays DEF World
  <2> QED
    BY <1>2, <1>4, <1>5, <1>7, <2>1, ServedStays DEF UrlIn
<1> QED
  BY <1>2, <1>4, <1>5, <1>7, <1>8 DEF Kept, World

\* The row of a chunking is another row than that of the whole file.
LEMMA StartChunkingKeeps ==
    ASSUME World, NEW n \in Nars, StartChunking(n)
    PROVE  Kept
<1> DEFINE u == Url(n, "none")
           a == CreateNarFile(db, u, Len(ContentOf[n]))
<1>1. u \in Urls /\ Len(ContentOf[n]) \in Nat
  BY ContentLen DEF Url, Urls
<1>2. /\ db' = SetNarFileChunkingStarted(a, u) /\ u \notin DOMAIN db.nar_files
      /\ store' = store /\ chunkStore' = chunkStore /\ healthy' = healthy
  BY DEF StartChunking
<1> HIDE DEF u
<1>3. /\ Tables(a) /\ a.narinfos = db.narinfos
      /\ a.narinfo_nar_files = db.narinfo_nar_files
      /\ a.nar_file_chunks = db.nar_file_chunks
      /\ DOMAIN a.nar_files = DOMAIN db.nar_files \cup {u}
      /\ \A v \in DOMAIN db.nar_files : a.nar_files[v] = db.nar_files[v]
      /\ a.nar_files[u].total = 0
  BY <1>1, <1>2, CreateNarFileTables DEF World
<1> HIDE DEF a
<1>4. /\ Tables(db') /\ db'.narinfos = a.narinfos
      /\ db'.narinfo_nar_files = a.narinfo_nar_files
      /\ db'.nar_file_chunks = a.nar_file_chunks
      /\ DOMAIN db'.nar_files = DOMAIN a.nar_files
      /\ \A v \in DOMAIN a.nar_files : v # u => db'.nar_files[v] = a.nar_files[v]
  BY <1>2, <1>3, StartedTables
<1>5. ASSUME NEW h \in healthy
      PROVE  /\ Served(h)' /\ UrlIn(db', h) = UrlIn(db, h)
             /\ UrlIn(db, h) \in DOMAIN db.nar_files /\ UrlIn(db, h) # u
  <2>1. /\ h \in DOMAIN db.narinfos /\ UrlIn(db, h) \in DOMAIN db.nar_files
        /\ <<h, UrlIn(db, h)>> \in db.narinfo_nar_files
    BY ServedWays DEF World
  <2> QED
    BY <1>2, <1>3, <1>4, <2>1, ServedStays DEF UrlIn
<1> QED
  BY <1>2, <1>3, <1>4, <1>5 DEF Kept, World

\* A NAR that is being chunked is not in chunks yet: its links are in nobody's way.
LEMMA RecordChunksKeeps ==
    ASSUME World, NEW n \in Nars, RecordChunks(n)
    PROVE  Kept
<1> DEFINE u == Url(n, "none")
<1>1. /\ db' = LinkNarFileToChunks(CreateChunk(db, Range(ContentOf[n])), Links(n))
      /\ chunkStore' = [c \in DOMAIN chunkStore \cup Range(ContentOf[n]) |->
                          IF c \in Range(ContentOf[n]) THEN c ELSE chunkStore[c]]
      /\ store' = store /\ healthy' = healthy
      /\ u \in DOMAIN db.nar_files /\ db.nar_files[u].started # Null
  BY DEF RecordChunks, ChunkingBy
<1>2. /\ Tables(db') /\ db'.narinfos = db.narinfos /\ db'.nar_files = db.nar_files
      /\ db'.narinfo_nar_files = db.narinfo_nar_files
      /\ \A l : l.nar # u => (l \in db'.nar_file_chunks <=> l \in db.nar_file_chunks)
  BY <1>1, RecordTables DEF World
<1>3. \A c \in DOMAIN chunkStore :
         c \in DOMAIN chunkStore' /\ (chunkStore[c] = c => chunkStore'[c] = c)
  BY <1>1
<1>4. db.nar_files[u].total = 0
  BY <1>1 DEF World, Tables, RowsSound
<1> HIDE DEF u
<1>5. ASSUME NEW h \in healthy
      PROVE  /\ Served(h)' /\ UrlIn(db', h) = UrlIn(db, h)
  <2>1. /\ h \in DOMAIN db.narinfos /\ UrlIn(db, h) \in DOMAIN db.nar_files
        /\ <<h, UrlIn(db, h)>> \in db.narinfo_nar_files
        /\ UrlIn(db, h)[2] = "none" => db.nar_files[UrlIn(db, h)].total > 0
    BY ServedWays DEF World
  <2>2. UrlIn(db, h)[2] = "none" => UrlIn(db, h) # u
    BY <1>4, <2>1
  <2> QED
    BY <1>1, <1>2, <1>3, <2>1, <2>2, ServedStays DEF UrlIn
<1> QED
  BY <1>1, <1>2, <1>5 DEF Kept, World

\* The end of a chunking touches one NAR, and with it leave its narinfos what fsck
\* has found in order.
LEMMA CompleteChunkingKeeps ==
    ASSUME World, NEW n \in Nars, CompleteChunking(n)
    PROVE  Kept
<1> DEFINE u == Url(n, "none")
           v == Url(n, "xz")
           a == UpdateNarInfoCompressionFileSizeHashAndURL(db, v, u, Null, Null)
           b == UpdateNarFileTotalChunks(a, u, Len(ContentOf[n]), Len(ContentOf[n]))
           c == LinkNarInfosByURLToNarFile(b, u, u)
<1>1. /\ db' = DeleteNarFileByHash(c, v)
      /\ store' = store \ {v} /\ chunkStore' = chunkStore
      /\ healthy' = healthy \ {h \in NarInfos : NarOf[h] = n}
  BY DEF CompleteChunking
<1>2. /\ u \in Urls /\ u[1] = n /\ u[2] = "none" /\ v[1] = n
      /\ Len(ContentOf[n]) \in Nat
  BY ContentLen DEF Url, Urls
<1>3. /\ Tables(a) /\ a.nar_files = db.nar_files
      /\ a.narinfo_nar_files = db.narinfo_nar_files
      /\ a.nar_file_chunks = db.nar_file_chunks
      /\ DOMAIN a.narinfos = DOMAIN db.narinfos
      /\ \A h \in DOMAIN db.narinfos : NarOf[h] # n => a.narinfos[h] = db.narinfos[h]
  BY MovedTables DEF World
<1> HIDE DEF u, v, a
<1>4. /\ Tables(b) /\ b.narinfos = a.narinfos
      /\ b.narinfo_nar_files = a.narinfo_nar_files
      /\ b.nar_file_chunks = a.nar_file_chunks
      /\ DOMAIN b.nar_files = DOMAIN a.nar_files
      /\ \A x \in DOMAIN a.nar_files : x # u => b.nar_files[x] = a.nar_files[x]
  <2> DEFINE len == Len(ContentOf[n])
  <2>1. len \in Nat /\ (u \in DOMAIN a.nar_files => u[2] = "none")
    BY <1>2
  <2>2. b = UpdateNarFileTotalChunks(a, u, len, len)
    OBVIOUS
  <2>3. Tables(a)
    BY <1>3
  <2> HIDE DEF len, b
  <2> QED
    BY <2>1, <2>2, <2>3, TotalTables
<1> HIDE DEF b
<1>5. /\ Tables(c) /\ c.narinfos = b.narinfos /\ c.nar_files = b.nar_files
      /\ b.narinfo_nar_files \subseteq c.narinfo_nar_files
      /\ c.nar_file_chunks = b.nar_file_chunks
  <2> DEFINE new == GetNarInfoHashesByURL(b, u) \X {u}
  <2>1. c = [b EXCEPT !.narinfo_nar_files = @ \cup new]
    BY DEF LinkNarInfosByURLToNarFile
  <2>2. \A h \in GetNarInfoHashesByURL(b, u) : h \in NarInfos /\ NarOf[h] = n
    BY <1>2, <1>4 DEF GetNarInfoHashesByURL, Tables, RowsSound, NarInfoRows
  <2>3. \A l \in new : l \in NarInfos \X Urls /\ l[2][1] = NarOf[l[1]]
    BY <1>2, <2>2
  <2> HIDE DEF new, c
  <2>4. /\ Tables(c) /\ c.narinfos = b.narinfos /\ c.nar_files = b.nar_files
        /\ c.narinfo_nar_files = b.narinfo_nar_files \cup new
        /\ c.nar_file_chunks = b.nar_file_chunks
    BY <1>4, <2>1, <2>3, LinkTables
  <2> QED
    BY <2>4
<1> HIDE DEF c
<1>6. /\ Tables(db') /\ db'.narinfos = c.narinfos
      /\ db'.narinfo_nar_files = {l \in c.narinfo_nar_files : l[2] # v}
      /\ db'.nar_file_chunks = {l \in c.nar_file_chunks : l.nar # v}
      /\ DOMAIN db'.nar_files = DOMAIN c.nar_files \ {v}
      /\ \A x \in DOMAIN db'.nar_files : db'.nar_files[x] = c.nar_files[x]
  BY <1>1, <1>5, DeleteNarFileTables
<1>7. ASSUME NEW h \in healthy'
      PROVE  /\ Served(h)' /\ UrlIn(db', h) = UrlIn(db, h)
             /\ db'.nar_files[UrlIn(db, h)] = db.nar_files[UrlIn(db, h)]
  <2>1. h \in healthy /\ NarOf[h] # n
    BY <1>1 DEF World
  <2>2. /\ h \in DOMAIN db.narinfos /\ UrlIn(db, h) \in DOMAIN db.nar_files
        /\ <<h, UrlIn(db, h)>> \in db.narinfo_nar_files
        /\ UrlIn(db, h)[1] = NarOf[h]
    BY <2>1, ServedWays DEF World
  <2>3. UrlIn(db, h) # u /\ UrlIn(db, h) # v
    BY <1>2, <2>1, <2>2
  <2>4. /\ h \in DOMAIN db'.narinfos /\ UrlIn(db', h) = UrlIn(db, h)
        /\ UrlIn(db, h) \in DOMAIN db'.nar_files
        /\ db'.nar_files[UrlIn(db, h)] = db.nar_files[UrlIn(db, h)]
    BY <1>3, <1>4, <1>5, <1>6, <2>1, <2>2, <2>3 DEF UrlIn
  <2>5. <<h, UrlIn(db, h)>> \in db'.narinfo_nar_files
    BY <1>3, <1>4, <1>5, <1>6, <2>2, <2>3
  <2>6. \A l : l.nar = UrlIn(db, h) => (l \in db'.nar_file_chunks <=> l \in db.nar_file_chunks)
    BY <1>3, <1>4, <1>5, <1>6, <2>3
  <2> QED
    BY <1>1, <1>6, <2>1, <2>3, <2>4, <2>5, <2>6, ServedStays
<1> QED
  BY <1>1, <1>6, <1>7 DEF Kept, World

\* What servers do leaves what is in order in order.
LEMMA ServerKeeps ==
    ASSUME World, Server
    PROVE  Kept
  BY PutNarKeeps, RecordNarKeeps, PutNarInfoKeeps, StartChunkingKeeps, RecordChunksKeeps,
     CompleteChunkingKeeps DEF Server

\* Every narinfo in order has its row, its link and its NAR's row.
LEMMA HealthyRows ==
    ASSUME World, NEW h \in healthy
    PROVE  /\ h \in DOMAIN db.narinfos /\ UrlIn(db, h) \in DOMAIN db.nar_files
           /\ <<h, UrlIn(db, h)>> \in db.narinfo_nar_files
           /\ UrlIn(db, h) \in HealthyUrls
           /\ UrlIn(db, h)[2] = "none" =>
                /\ Range(ContentOf[NarOf[h]]) \subseteq HealthyChunks
                /\ \A l \in db.nar_file_chunks : l.nar = UrlIn(db, h) => l.chunk \in HealthyChunks
<1>1. /\ h \in DOMAIN db.narinfos /\ UrlIn(db, h) \in DOMAIN db.nar_files
      /\ <<h, UrlIn(db, h)>> \in db.narinfo_nar_files
      /\ UrlIn(db, h) \in Urls /\ UrlIn(db, h)[1] = NarOf[h]
      /\ UrlIn(db, h)[2] = "none" => InChunks(UrlIn(db, h))
  BY ServedWays DEF World
<1>2. UrlIn(db, h)[2] = "none" => Range(ContentOf[NarOf[h]]) \subseteq HealthyChunks
  BY DEF HealthyChunks
<1>3. UrlIn(db, h)[2] = "none" =>
        \A l \in db.nar_file_chunks :
           l.nar = UrlIn(db, h) => l.chunk \in Range(ContentOf[NarOf[h]])
  BY <1>1, ChunkLinks DEF World
<1> QED
  BY <1>1, <1>2, <1>3 DEF HealthyUrls

\* fsck deletes a narinfo that was not in order.
LEMMA DeleteNarInfoKeeps ==
    ASSUME World, NEW x, x \notin healthy, db' = DeleteNarInfoByID(db, x),
           UNCHANGED <<store, chunkStore, healthy>>
    PROVE  Kept
<1>1. /\ Tables(db') /\ db'.nar_files = db.nar_files
      /\ db'.narinfo_nar_files = {l \in db.narinfo_nar_files : l[1] # x}
      /\ db'.nar_file_chunks = db.nar_file_chunks
      /\ DOMAIN db'.narinfos = DOMAIN db.narinfos \ {x}
      /\ \A k \in DOMAIN db'.narinfos : db'.narinfos[k] = db.narinfos[k]
  BY DeleteNarInfoTables DEF DeleteNarInfoByID, World
<1>2. ASSUME NEW h \in healthy
      PROVE  Served(h)' /\ UrlIn(db', h) = UrlIn(db, h)
  BY <1>1, HealthyRows, ServedStays DEF UrlIn
<1> QED
  BY <1>1, <1>2 DEF Kept, World

\* ... a nar_file that no narinfo in order has.
LEMMA DeleteNarFileKeeps ==
    ASSUME World, NEW x, x \notin HealthyUrls, db' = DeleteNarFileByHash(db, x),
           UNCHANGED <<store, chunkStore, healthy>>
    PROVE  Kept
<1>1. /\ Tables(db') /\ db'.narinfos = db.narinfos
      /\ db'.narinfo_nar_files = {l \in db.narinfo_nar_files : l[2] # x}
      /\ db'.nar_file_chunks = {l \in db.nar_file_chunks : l.nar # x}
      /\ DOMAIN db'.nar_files = DOMAIN db.nar_files \ {x}
      /\ \A v \in DOMAIN db'.nar_files : db'.nar_files[v] = db.nar_files[v]
  BY DeleteNarFileTables DEF World
<1>2. ASSUME NEW h \in healthy
      PROVE  /\ Served(h)' /\ UrlIn(db', h) = UrlIn(db, h)
             /\ db'.nar_files[UrlIn(db, h)] = db.nar_files[UrlIn(db, h)]
  <2>1. /\ h \in DOMAIN db.narinfos /\ UrlIn(db, h) \in DOMAIN db.nar_files
        /\ <<h, UrlIn(db, h)>> \in db.narinfo_nar_files /\ UrlIn(db, h) # x
    BY HealthyRows
  <2>2. /\ <<h, UrlIn(db, h)>> \in db'.narinfo_nar_files
        /\ UrlIn(db, h) \in DOMAIN db'.nar_files
        /\ \A l : l.nar = UrlIn(db, h) => (l \in db'.nar_file_chunks <=> l \in db.nar_file_chunks)
    BY <1>1, <2>1
  <2> QED
    BY <1>1, <2>1, <2>2, ServedStays DEF UrlIn
<1> QED
  BY <1>1, <1>2 DEF Kept, World

\* ... a chunk that no NAR in order has, with its links.
LEMMA DeleteChunkKeeps ==
    ASSUME World, NEW x, x \notin HealthyChunks, db' = DeleteChunkByID(db, x),
           UNCHANGED <<store, chunkStore, healthy>>
    PROVE  Kept
<1>1. /\ Tables(db') /\ db'.narinfos = db.narinfos /\ db'.nar_files = db.nar_files
      /\ db'.narinfo_nar_files = db.narinfo_nar_files
      /\ db'.nar_file_chunks = {l \in db.nar_file_chunks : l.chunk # x}
  BY DeleteChunkTables DEF World
<1>2. ASSUME NEW h \in healthy
      PROVE  Served(h)' /\ UrlIn(db', h) = UrlIn(db, h)
  <2>1. UrlIn(db, h)[2] = "none" =>
          \A l : l.nar = UrlIn(db, h) => (l \in db'.nar_file_chunks <=> l \in db.nar_file_chunks)
    BY <1>1, HealthyRows
  <2> QED
    BY <1>1, <2>1, HealthyRows, ServedStays DEF UrlIn
<1> QED
  BY <1>1, <1>2 DEF Kept, World

\* ... a file of the NAR store that no narinfo in order has.
LEMMA DeleteFileKeeps ==
    ASSUME World, NEW x, x \notin HealthyUrls, store' = store \ {x},
           UNCHANGED <<db, chunkStore, healthy>>
    PROVE  Kept
<1>1. ASSUME NEW h \in healthy
      PROVE  Served(h)'
  BY HealthyRows, ServedStays DEF World
<1> QED
  BY <1>1 DEF Kept, World

\* ... and the file of a chunk that no NAR in order has.
LEMMA DeleteChunkFileKeeps ==
    ASSUME World, NEW x, x \notin HealthyChunks, chunkStore' = Remove(chunkStore, {x}),
           UNCHANGED <<db, store, healthy>>
    PROVE  Kept
<1>1. /\ DOMAIN chunkStore' = DOMAIN chunkStore \ {x}
      /\ \A c \in DOMAIN chunkStore' : chunkStore'[c] = chunkStore[c]
  BY DEF Remove, Restrict
<1>2. ASSUME NEW h \in healthy
      PROVE  Served(h)'
  <2>1. UrlIn(db, h)[2] = "none" =>
          \A c \in Range(ContentOf[NarOf[h]]) : c # x
    BY HealthyRows
  <2> QED
    BY <1>1, <2>1, HealthyRows, ServedStays DEF World
<1> QED
  BY <1>2 DEF Kept, World

\* What is not needed may be deleted.
LEMMA DeleteKeeps ==
    ASSUME World, NEW check \in Checks, NEW x, Unneeded(check, x), Delete(check, x),
           healthy' = healthy
    PROVE  Kept
<1>1. CASE /\ check = "narinfosWithoutNarFiles"
           /\ db' = DeleteNarInfoByID(db, x) /\ UNCHANGED <<store, chunkStore>>
  BY <1>1, DeleteNarInfoKeeps DEF Unneeded
<1>2. CASE /\ check \in {"orphanedNarFilesInDB", "narFilesMissingInStorage"} \cup ChunkedChecks
           /\ db' = DeleteNarFileByHash(db, x) /\ UNCHANGED <<store, chunkStore>>
  <2>1. check \notin {"narinfosWithoutNarFiles", "orphanedChunksInDB", "orphanedChunksInStorage"}
    BY <1>2 DEF ChunkedChecks, contentChecks, Range
  <2> QED
    BY <1>2, <2>1, DeleteNarFileKeeps DEF Unneeded
<1>3. CASE /\ check = "orphanedNarFilesInStorage"
           /\ store' = store \ {x} /\ UNCHANGED <<db, chunkStore>>
  BY <1>3, DeleteFileKeeps DEF Unneeded
<1>4. CASE /\ check = "orphanedChunksInDB"
           /\ db' = DeleteChunkByID(db, x) /\ UNCHANGED <<store, chunkStore>>
  BY <1>4, DeleteChunkKeeps DEF Unneeded
<1>5. CASE /\ check = "orphanedChunksInStorage"
           /\ chunkStore' = Remove(chunkStore, {x}) /\ UNCHANGED <<db, store>>
  BY <1>5, DeleteChunkFileKeeps DEF Unneeded
<1> QED
  BY <1>1, <1>2, <1>3, <1>4, <1>5 DEF Delete

\* A NAR that was found in order is only marked.
LEMMA VerifiedKeeps ==
    ASSUME World, NEW urls, db' = UpdateNarFileVerifiedAt(db, urls),
           UNCHANGED <<store, chunkStore, healthy>>
    PROVE  Kept
<1>1. /\ Tables(db') /\ db'.narinfos = db.narinfos
      /\ db'.narinfo_nar_files = db.narinfo_nar_files
      /\ db'.nar_file_chunks = db.nar_file_chunks
      /\ DOMAIN db'.nar_files = DOMAIN db.nar_files
      /\ \A u \in DOMAIN db.nar_files :
           /\ db'.nar_files[u].total = db.nar_files[u].total
           /\ db'.nar_files[u].size = db.nar_files[u].size
  BY VerifiedTables DEF World
<1>2. ASSUME NEW h \in healthy
      PROVE  /\ Served(h)' /\ UrlIn(db', h) = UrlIn(db, h)
             /\ db'.nar_files[UrlIn(db, h)].total = db.nar_files[UrlIn(db, h)].total
  BY <1>1, HealthyRows, ServedStays DEF UrlIn
<1> QED
  BY <1>1, <1>2 DEF Kept, World

-----------------------------------------------------------------------------
(* The steps of fsck.                                                      *)

\* The checks of chunked NARs.
LEMMA ChunkedChecksAre ==
    ChunkedChecks = {"narFilesWithChunkIssues", "narFilesWithSizeMismatch",
                     "narFilesWithCorruptChunks", "narFilesWithHashMismatch"}
  BY DEF ChunkedChecks, contentChecks, Range

\* What begins with three things goes on with checks.
LEMMA Appended ==
    ASSUME NEW a \in Seq(Checks \cup {"allNarFiles"}), Len(a) >= 3,
           \A j \in 1..Len(a) : j > 3 => a[j] \in Checks,
           NEW b \in Seq(Checks)
    PROVE  /\ a \o b \in Seq(Checks \cup {"allNarFiles"}) /\ Len(a \o b) >= 3
           /\ (a \o b)[1] = a[1] /\ (a \o b)[2] = a[2] /\ (a \o b)[3] = a[3]
           /\ \A j \in 1..Len(a \o b) : j > 3 => (a \o b)[j] \in Checks
  OBVIOUS

\* The checks in the order of each phase.
LEMMA Orders ==
    /\ VerifyOrder \in Seq(Checks)
    /\ RepairOrder \in Seq(Checks)
    /\ \A mode \in BOOLEAN :
         LET order == CollectOrder(mode)
         IN  /\ order \in Seq(Checks \cup {"allNarFiles"})
             /\ Len(order) >= 3 /\ order[1] \notin RowChecks /\ order[2] \notin RowChecks
             /\ \A j \in 1..Len(order) : order[j] = "allNarFiles" <=> j = 3
<1>1. /\ linkChecks \in Seq(Checks) /\ fileChecks \in Seq(Checks) /\ cdcChecks \in Seq(Checks)
      /\ chunkFileChecks \in Seq(Checks) /\ contentChecks \in Seq(Checks)
  BY DEF Checks, linkChecks, fileChecks, cdcChecks, chunkFileChecks, contentChecks, Range
<1>2. \A mode, seq : seq \in Seq(Checks) => InMode(mode, seq) \in Seq(Checks)
  BY DEF InMode
<1>3. \A a, b \in Seq(Checks) : a \o b \in Seq(Checks)
  OBVIOUS
<1>4. "allNarFiles" \notin Checks
  BY DEF Checks, linkChecks, fileChecks, cdcChecks, chunkFileChecks, contentChecks, Range
<1>5. VerifyOrder \in Seq(Checks)
  BY <1>1, <1>2, <1>3 DEF VerifyOrder
<1>6. RepairOrder \in Seq(Checks)
  BY <1>1, <1>2, <1>3 DEF RepairOrder
<1>7. ASSUME NEW mode \in BOOLEAN
      PROVE  LET order == CollectOrder(mode)
             IN  /\ order \in Seq(Checks \cup {"allNarFiles"})
                 /\ Len(order) >= 3 /\ order[1] \notin RowChecks /\ order[2] \notin RowChecks
                 /\ \A j \in 1..Len(order) : order[j] = "allNarFiles" <=> j = 3
  <2> DEFINE a == Append(linkChecks, "allNarFiles")
             b == InMode(mode, cdcChecks \o chunkFileChecks)
             c == InMode(mode /\ options.verifyContent, contentChecks)
             order == a \o fileChecks \o b \o c
  <2>1. /\ a \in Seq(Checks \cup {"allNarFiles"}) /\ Len(a) = 3
        /\ a[1] = "narinfosWithoutNarFiles" /\ a[2] = "orphanedNarFilesInDB"
        /\ a[3] = "allNarFiles"
    BY <1>1 DEF linkChecks
  <2>2. b \in Seq(Checks) /\ c \in Seq(Checks) /\ fileChecks \in Seq(Checks)
    BY <1>1, <1>2, <1>3
  <2>3. CollectOrder(mode) = order
    BY DEF CollectOrder
  <2> HIDE DEF a, b, c
  <2>4. /\ order \in Seq(Checks \cup {"allNarFiles"}) /\ Len(order) >= 3
        /\ order[1] = a[1] /\ order[2] = a[2] /\ order[3] = a[3]
        /\ \A j \in 1..Len(order) : j > 3 => order[j] \in Checks
    <3> DEFINE d == a \o fileChecks
               e == d \o b
    <3>1. /\ a \in Seq(Checks \cup {"allNarFiles"}) /\ Len(a) >= 3
          /\ \A j \in 1..Len(a) : j > 3 => a[j] \in Checks
      BY <2>1
    <3>2. /\ d \in Seq(Checks \cup {"allNarFiles"}) /\ Len(d) >= 3
          /\ d[1] = a[1] /\ d[2] = a[2] /\ d[3] = a[3]
          /\ \A j \in 1..Len(d) : j > 3 => d[j] \in Checks
      BY <2>2, <3>1, Appended
    <3> HIDE DEF d
    <3>3. /\ e \in Seq(Checks \cup {"allNarFiles"}) /\ Len(e) >= 3
          /\ e[1] = a[1] /\ e[2] = a[2] /\ e[3] = a[3]
          /\ \A j \in 1..Len(e) : j > 3 => e[j] \in Checks
      BY <2>2, <3>2, Appended
    <3>4. order = e \o c
      BY DEF d
    <3> HIDE DEF e, order
    <3> QED
      BY <2>2, <3>3, <3>4, Appended
  <2> HIDE DEF order
  <2>5. order[1] \notin RowChecks /\ order[2] \notin RowChecks
    BY <2>1, <2>4 DEF RowChecks, ChunkedChecks, contentChecks, Range
  <2>6. \A j \in 1..Len(order) : j = 1 \/ j = 2 \/ j = 3 \/ j > 3
    BY <2>4
  <2>7. \A j \in 1..Len(order) : order[j] = "allNarFiles" <=> j = 3
    BY <1>4, <2>1, <2>4, <2>6
  <2> QED
    BY <2>3, <2>4, <2>5, <2>7
<1> QED
  BY <1>5, <1>6, <1>7

\* A chunk of a NAR in order has a link.
LEMMA HealthyLinked ==
    ASSUME World, NEW c \in HealthyChunks
    PROVE  \E l \in db.nar_file_chunks : l.chunk = c
<1>1. PICK h \in healthy : UrlIn(db, h)[2] = "none" /\ c \in Range(ContentOf[NarOf[h]])
  BY DEF HealthyChunks
<1>2. /\ UrlIn(db, h) \in Urls /\ UrlIn(db, h)[1] = NarOf[h] /\ InChunks(UrlIn(db, h))
  BY <1>1, ServedWays DEF World
<1> QED
  BY <1>1, <1>2, ChunkLinks DEF World

\* What changes neither the database nor the stores keeps what is in order.
LEMMA NothingKeeps ==
    ASSUME World, UNCHANGED <<stores, healthy>>
    PROVE  Kept
<1>1. \A h \in healthy : Served(h)'
  BY DEF World, stores, Served, InStore, InChunks
<1> QED
  BY <1>1 DEF Kept, World, stores

\* A check that looks at the nar_files that were read finds those of its kind.
LEMMA SuspectsKind ==
    /\ \A x \in Suspects("narFilesMissingInStorage") : ~ (rows[x].total > 0)
    /\ \A c \in ChunkedChecks : \A x \in Suspects(c) : rows[x].total > 0
<1>1. Suspects("narFilesMissingInStorage") \subseteq Eligible(FALSE)
  BY Zenon DEF Suspects
<1>2. Suspects("narFilesWithChunkIssues") \subseteq Eligible(TRUE)
  BY DEF Suspects, collectNarFilesWithChunkIssues
<1>3. Suspects("narFilesWithSizeMismatch") \subseteq Eligible(TRUE)
  BY DEF Suspects
<1>4. Suspects("narFilesWithCorruptChunks") \subseteq Eligible(TRUE)
  BY DEF Suspects, collectNarFilesWithCorruptChunks
<1>5. Suspects("narFilesWithHashMismatch") \subseteq Eligible(TRUE)
  BY DEF Suspects, collectNarFilesWithHashMismatch
<1>6. \A c \in ChunkedChecks : Suspects(c) \subseteq Eligible(TRUE)
  BY <1>2, <1>3, <1>4, <1>5, ChunkedChecksAre
<1> QED
  BY <1>1, <1>6 DEF Eligible

\* fsck begins with what it can serve then.
LEMMA StartStep ==
    ASSUME FsckInv, Start
    PROVE  FsckInv'
<1> USE DEF FsckInv
<1>1. /\ phase = "idle" /\ phase' = "collect" /\ todo' = CollectOrder(CdcMode)
      /\ found' = NoSuspects /\ healthy' = {h \in NarInfos : Served(h)}
      /\ UNCHANGED <<stores, work, doomed>>
  BY DEF Start
<1>2. World'
  <2>1. \A h \in NarInfos : Served(h)' <=> Served(h)
    BY <1>1 DEF stores, Served, InStore, InChunks
  <2> QED
    BY <1>1, <2>1 DEF World, stores
<1>3. Unread'
  <2> DEFINE order == CollectOrder(CdcMode)
  <2>1. CdcMode \in BOOLEAN
    BY DEF CdcMode
  <2>2. /\ order \in Seq(Checks \cup {"allNarFiles"})
        /\ Len(order) >= 3 /\ order[1] \notin RowChecks /\ order[2] \notin RowChecks
        /\ \A j \in 1..Len(order) : order[j] = "allNarFiles" <=> j = 3
    BY <2>1, Orders
  <2>3. todo' = order
    BY <1>1
  <2> HIDE DEF order
  <2>4. 3 \in 1..Len(order) /\ order[3] = "allNarFiles"
    BY <2>2
  <2>5. \A j \in 1..Len(order) : j < 3 => j = 1 \/ j = 2
    BY <2>2
  <2>6. \A j \in 1..Len(order) :
           (j < 3 => order[j] \notin RowChecks) /\ (order[j] = "allNarFiles" => j = 3)
    BY <2>2, <2>5
  <2>7. RowChecks \subseteq Checks
    BY ChunkedChecksAre DEF RowChecks, Checks, linkChecks, fileChecks, cdcChecks,
       chunkFileChecks, contentChecks, Range
  <2>8. \A c \in RowChecks : found'[c] = {}
    BY <1>1, <2>7 DEF NoSuspects
  <2> QED
    BY <2>2, <2>3, <2>4, <2>6, <2>8 DEF Unread
<1>4. Control'
  BY <1>1, <1>3 DEF Control
<1>5. FoundInv'
  <2>1. /\ DOMAIN found' = Checks
        /\ \A c \in Checks : found'[c] = {}
    BY <1>1 DEF NoSuspects
  <2>2. found' = [c \in Checks |-> found'[c]]
    BY <1>1 DEF NoSuspects
  <2>3. "narFilesMissingInStorage" \in Checks /\ ChunkedChecks \subseteq Checks
    BY ChunkedChecksAre DEF Checks, linkChecks, fileChecks, cdcChecks,
       chunkFileChecks, contentChecks, Range
  <2> QED
    BY <2>1, <2>2, <2>3 DEF FoundInv
<1>6. WorkInv'
  BY <1>1 DEF WorkInv
<1> QED
  BY <1>2, <1>4, <1>5, <1>6

\* A sequence of checks, if each of its elements is one.
LEMMA AllChecks ==
    ASSUME NEW s \in Seq(Checks \cup {"allNarFiles"}), \A j \in 1..Len(s) : s[j] \in Checks
    PROVE  s \in Seq(Checks)
<1>1. s = [j \in 1..Len(s) |-> s[j]] /\ Len(s) \in Nat
  OBVIOUS
<1>2. s \in [1..Len(s) -> Checks]
  BY <1>1
<1> QED
  BY <1>1, <1>2

\* Then it knows the nar_files.
LEMMA ReadStep ==
    ASSUME FsckInv, ReadNarFiles
    PROVE  FsckInv'
<1> USE DEF FsckInv
<1>1. /\ phase = "collect" /\ todo # << >> /\ Head(todo) = "allNarFiles"
      /\ rows' = db.nar_files /\ todo' = Tail(todo)
      /\ UNCHANGED <<stores, options, phase, found, work, doomed, before, writes, healthy>>
  BY DEF ReadNarFiles, GetAllNarFiles
<1>2. World'
  BY <1>1, NothingKeeps DEF Kept
<1>3. "allNarFiles" \notin Checks
  BY DEF Checks, linkChecks, fileChecks, cdcChecks, chunkFileChecks, contentChecks, Range
<1>4. Unread
  <2>1. ~ (todo \in Seq(Checks))
    BY <1>1, <1>3
  <2> QED
    BY <1>1, <2>1 DEF Control
<1>5. todo' \in Seq(Checks)
  <2>1. PICK k \in 1..Len(todo) : \A j \in 1..Len(todo) : todo[j] = "allNarFiles" => j = k
    BY <1>4 DEF Unread
  <2>2. todo \in Seq(Checks \cup {"allNarFiles"}) /\ Len(todo) >= 1 /\ todo[1] = "allNarFiles"
    BY <1>1, <1>4 DEF Unread
  <2>3. \A j \in 1..Len(todo) : j > 1 => todo[j] \in Checks
    BY <2>1, <2>2
  <2>4. /\ Tail(todo) \in Seq(Checks \cup {"allNarFiles"})
        /\ \A j \in 1..Len(Tail(todo)) : Tail(todo)[j] \in Checks
    BY <2>2, <2>3
  <2> QED
    BY <1>1, <2>4, AllChecks
<1>6. RowsAgree'
  BY <1>1, HealthyRows DEF RowsAgree, UrlIn, stores
<1>7. Control'
  BY <1>1, <1>5, <1>6 DEF Control
<1>8. FoundInv'
  BY <1>1, <1>4 DEF FoundInv, Unread, RowChecks
<1>9. WorkInv'
  BY <1>1 DEF WorkInv
<1> QED
  BY <1>2, <1>7, <1>8, <1>9

\* A check finds what it looks for, and marks what it finds in order.
LEMMA CollectStep ==
    ASSUME FsckInv, Collect
    PROVE  FsckInv'
<1> USE DEF FsckInv
<1>1. /\ phase = "collect" /\ todo # << >> /\ Head(todo) # "allNarFiles"
      /\ found' = [found EXCEPT ![Head(todo)] = Suspects(Head(todo))]
      /\ db' = UpdateNarFileVerifiedAt(db, InOrder(Head(todo)))
      /\ todo' = Tail(todo)
      /\ UNCHANGED <<store, chunkStore, options, phase, rows, work, doomed, before, writes, healthy>>
  BY DEF Collect
<1>2. Kept
  BY <1>1, VerifiedKeeps
<1>3. World'
  BY <1>2 DEF Kept
<1>4. Head(todo) \in Checks
  <2>1. todo \in Seq(Checks \cup {"allNarFiles"}) \/ todo \in Seq(Checks)
    BY <1>1 DEF Control, Unread
  <2> QED
    BY <1>1, <2>1
<1>5. /\ DOMAIN found' = Checks /\ found' = [c \in Checks |-> found'[c]]
      /\ \A c \in Checks : found'[c] = IF c = Head(todo) THEN Suspects(c) ELSE found[c]
  BY <1>1, <1>4 DEF FoundInv
<1>6. "narFilesMissingInStorage" \in Checks /\ ChunkedChecks \subseteq Checks
  BY ChunkedChecksAre DEF Checks, linkChecks, fileChecks, cdcChecks,
     chunkFileChecks, contentChecks, Range
<1>7. FoundInv'
  <2>1. \A x \in found'["narFilesMissingInStorage"] : ~ (rows[x].total > 0)
    BY <1>5, <1>6, SuspectsKind DEF FoundInv
  <2>2. \A c \in ChunkedChecks : \A x \in found'[c] : rows[x].total > 0
    BY <1>5, <1>6, SuspectsKind DEF FoundInv
  <2> QED
    BY <1>1, <1>5, <2>1, <2>2 DEF FoundInv
<1>8. ASSUME Unread PROVE Control'
  <2>1. PICK k \in 1..Len(todo) :
           /\ todo[k] = "allNarFiles"
           /\ \A j \in 1..Len(todo) :
                (j < k => todo[j] \notin RowChecks) /\ (todo[j] = "allNarFiles" => j = k)
    BY <1>8 DEF Unread
  <2>2. todo \in Seq(Checks \cup {"allNarFiles"}) /\ Len(todo) >= 1 /\ todo[1] = Head(todo)
    BY <1>1, <1>8 DEF Unread
  <2>3. k > 1 /\ Head(todo) \notin RowChecks
    BY <1>1, <2>1, <2>2
  <2>4. /\ todo' \in Seq(Checks \cup {"allNarFiles"}) /\ Len(todo') = Len(todo) - 1
        /\ \A j \in 1..Len(todo') : todo'[j] = todo[j + 1] /\ j + 1 \in 1..Len(todo)
    BY <1>1, <2>2
  <2>5. k - 1 \in 1..Len(todo') /\ todo'[k - 1] = "allNarFiles"
    BY <2>1, <2>2, <2>3, <2>4
  <2>6. \A j \in 1..Len(todo') :
           (j < k - 1 => todo'[j] \notin RowChecks) /\ (todo'[j] = "allNarFiles" => j = k - 1)
    BY <2>1, <2>2, <2>4
  <2>7. \A c \in RowChecks : found'[c] = {}
    BY <1>5, <1>6, <1>8, <2>3 DEF RowChecks, Unread
  <2>8. Unread'
    BY <2>4, <2>5, <2>6, <2>7 DEF Unread
  <2> QED
    BY <1>1, <2>8 DEF Control
<1>9. ASSUME ~ Unread PROVE Control'
  <2>1. todo \in Seq(Checks) /\ RowsAgree
    BY <1>1, <1>9 DEF Control
  <2>2. RowsAgree'
    BY <1>1, <1>2, <2>1, StaysAgreed
  <2>3. todo' \in Seq(Checks)
    BY <1>1, <2>1
  <2> QED
    BY <1>1, <2>2, <2>3 DEF Control
<1>10. Control'
  BY <1>8, <1>9
<1>11. WorkInv'
  BY <1>1 DEF WorkInv
<1> QED
  BY <1>3, <1>7, <1>10, <1>11

\* What is left to do is a sequence of checks once the nar_files have been read.
LEMMA HeadIsCheck ==
    ASSUME Control, phase # "collect", todo # << >>
    PROVE  Head(todo) \in Checks /\ Tail(todo) \in Seq(Checks)
  BY DEF Control

\* A step that changes neither the stores nor what was read keeps what is known of them.
LEMMA Quiet ==
    ASSUME World, UNCHANGED <<stores, rows, healthy>>
    PROVE  /\ World'
           /\ RowsAgree => RowsAgree'
           /\ HealthyChunks' \subseteq HealthyChunks
           /\ \A check, x : Unneeded(check, x) => Unneeded(check, x)'
<1>1. Kept
  BY NothingKeeps
<1> QED
  BY <1>1, StaysAgreed, StaysUnneeded DEF Kept

\* The first look is over, the nar_files have been read in it.
LEMMA CollectedStep ==
    ASSUME FsckInv, Collected
    PROVE  FsckInv'
<1> USE DEF FsckInv
<1>1. /\ phase = "collect" /\ todo = << >> /\ phase' = "verify" /\ todo' = VerifyOrder
      /\ UNCHANGED <<stores, rows, found, work, doomed, healthy>>
  BY DEF Collected
<1>2. World' /\ (RowsAgree => RowsAgree')
  BY <1>1, Quiet
<1>3. ~ Unread
  BY <1>1 DEF Unread
<1>4. RowsAgree'
  BY <1>1, <1>2, <1>3 DEF Control
<1>5. Control'
  BY <1>1, <1>4, Orders DEF Control
<1>6. FoundInv'
  BY <1>1 DEF FoundInv
<1>7. WorkInv'
  BY <1>1 DEF WorkInv
<1> QED
  BY <1>2, <1>5, <1>6, <1>7

\* The second look drops suspects only.
LEMMA VerifyStep ==
    ASSUME FsckInv, Verify
    PROVE  FsckInv'
<1> USE DEF FsckInv
<1> DEFINE kept == {x \in found[Head(todo)] : StillWrong(Head(todo), x)}
<1>1. /\ phase = "verify" /\ todo # << >> /\ found' = [found EXCEPT ![Head(todo)] = kept]
      /\ todo' = Tail(todo)
      /\ UNCHANGED <<stores, phase, rows, work, doomed, healthy>>
  BY DEF Verify
<1>2. World' /\ (RowsAgree => RowsAgree')
  BY <1>1, Quiet
<1>3. Head(todo) \in Checks /\ Tail(todo) \in Seq(Checks)
  BY <1>1, HeadIsCheck
<1>4. kept \subseteq found[Head(todo)]
  OBVIOUS
<1> HIDE DEF kept
<1>5. Control'
  BY <1>1, <1>2, <1>3 DEF Control
<1>6. /\ DOMAIN found' = Checks /\ found' = [c \in Checks |-> found'[c]]
      /\ \A c \in Checks : found'[c] \subseteq found[c]
  BY <1>1, <1>3, <1>4 DEF FoundInv
<1>7. "narFilesMissingInStorage" \in Checks /\ ChunkedChecks \subseteq Checks
  BY ChunkedChecksAre DEF Checks, linkChecks, fileChecks, cdcChecks,
     chunkFileChecks, contentChecks, Range
<1>8. FoundInv'
  BY <1>1, <1>6, <1>7 DEF FoundInv
<1>9. WorkInv'
  BY <1>1 DEF WorkInv
<1> QED
  BY <1>2, <1>5, <1>8, <1>9

\* fsck ends after the second look, or goes on with repairs.
LEMMA VerifiedStep ==
    ASSUME FsckInv, Stop \/ StartRepair
    PROVE  FsckInv'
<1> USE DEF FsckInv
<1>1. /\ phase = "verify" /\ phase' \in {"idle", "repair"} /\ todo' \in {todo, RepairOrder}
      /\ UNCHANGED <<stores, rows, found, work, doomed, healthy>>
  BY DEF Stop, StartRepair
<1>2. World' /\ (RowsAgree => RowsAgree')
  BY <1>1, Quiet
<1>3. Control'
  BY <1>1, <1>2, Orders DEF Control
<1>4. FoundInv'
  BY <1>1 DEF FoundInv
<1>5. WorkInv'
  BY <1>1 DEF WorkInv
<1> QED
  BY <1>2, <1>3, <1>4, <1>5

\* A check looks at its items once before its deletions, or at each before its own.
LEMMA RepairCheckStep ==
    ASSUME FsckInv, RepairCheck
    PROVE  FsckInv'
<1> USE DEF FsckInv
<1>1. /\ phase = "repair" /\ todo # << >>
      /\ UNCHANGED <<stores, rows, found, doomed, healthy>>
  BY DEF RepairCheck
<1>2. World' /\ (RowsAgree => RowsAgree')
  BY <1>1, Quiet
<1>3. Head(todo) \in Checks /\ Tail(todo) \in Seq(Checks)
  BY <1>1, HeadIsCheck
<1>4. FoundInv'
  BY <1>1 DEF FoundInv
<1>5. doomed' = {}
  BY <1>1 DEF WorkInv
<1>6. ASSUME todo' = Tail(todo), UNCHANGED phase PROVE FsckInv'
  <2>1. Control'
    BY <1>1, <1>2, <1>3, <1>6 DEF Control
  <2>2. WorkInv'
    BY <1>1, <1>5, <1>6 DEF WorkInv
  <2> QED
    BY <1>2, <1>4, <2>1, <2>2
<1>7. ASSUME phase' = "items", todo' = todo,
             work' = IF Head(todo) \in LookOnce
                     THEN {x \in found[Head(todo)] : StillWrong(Head(todo), x)}
                     ELSE found[Head(todo)]
      PROVE  FsckInv'
  <2>1. Control'
    BY <1>1, <1>2, <1>7 DEF Control
  <2>2. work' \subseteq found[Head(todo)]
    BY <1>7
  <2>3. RowsAgree
    BY <1>1 DEF Control
  <2>4. ASSUME Head(todo) \in LookOnce, NEW x \in work' PROVE Unneeded(Head(todo), x)'
    <3>1. x \in found[Head(todo)] /\ StillWrong(Head(todo), x)
      BY <1>7, <2>4
    <3>2. Unneeded(Head(todo), x)
      BY <1>3, <2>3, <3>1, NotWrong
    <3> QED
      BY <1>1, <1>7, <3>2, Quiet
  <2>5. WorkInv'
    BY <1>1, <1>5, <1>7, <2>2, <2>4 DEF WorkInv
  <2> QED
    BY <1>2, <1>4, <2>1, <2>5
<1> QED
  BY <1>6, <1>7 DEF RepairCheck

\* An item is deleted only if it is still wrong.
LEMMA RepairLookStep ==
    ASSUME FsckInv, RepairLook
    PROVE  FsckInv'
<1> USE DEF FsckInv
<1>1. /\ phase = "items" /\ UNCHANGED <<stores, phase, todo, rows, found, healthy>>
  BY DEF RepairLook
<1>2. PICK x \in work :
        /\ work' = work \ {x}
        /\ doomed' = IF Head(todo) \in LookOnce \/ StillWrong(Head(todo), x) THEN {x} ELSE {}
  BY DEF RepairLook
<1>3. World' /\ (RowsAgree => RowsAgree')
  BY <1>1, Quiet
<1>4. RowsAgree /\ todo # << >>
  BY <1>1 DEF Control
<1>5. Head(todo) \in Checks
  BY <1>1, <1>4, HeadIsCheck
<1>6. /\ work \subseteq found[Head(todo)]
      /\ Head(todo) \in LookOnce => \A y \in work : Unneeded(Head(todo), y)
  BY <1>1 DEF WorkInv
<1>7. \A y \in doomed' : Unneeded(Head(todo), y)
  <2>1. StillWrong(Head(todo), x) => Unneeded(Head(todo), x)
    BY <1>4, <1>5, <1>6, NotWrong
  <2> QED
    BY <1>2, <1>6, <2>1
<1>8. \A y : Unneeded(Head(todo), y) => Unneeded(Head(todo), y)'
  BY <1>1, Quiet
<1>9. Control'
  BY <1>1, <1>3, <1>4 DEF Control
<1>10. FoundInv'
  BY <1>1 DEF FoundInv
<1>11. WorkInv'
  BY <1>1, <1>2, <1>6, <1>7, <1>8 DEF WorkInv
<1> QED
  BY <1>3, <1>9, <1>10, <1>11

\* The deletion of what is not needed leaves what is in order.
LEMMA RepairDeleteStep ==
    ASSUME FsckInv, RepairDelete
    PROVE  FsckInv'
<1> USE DEF FsckInv
<1>1. /\ phase = "items" /\ doomed' = {} /\ UNCHANGED <<phase, todo, rows, found, work, healthy>>
  BY DEF RepairDelete
<1>2. PICK x \in doomed : Delete(Head(todo), x)
  BY DEF RepairDelete
<1>3. RowsAgree /\ todo # << >>
  BY <1>1 DEF Control
<1>4. Head(todo) \in Checks
  BY <1>1, <1>3, HeadIsCheck
<1>5. Kept
  BY <1>1, <1>2, <1>4, DeleteKeeps DEF WorkInv
<1>6. World'
  BY <1>5 DEF Kept
<1>7. RowsAgree'
  BY <1>1, <1>3, <1>5, StaysAgreed
<1>8. \A y : Unneeded(Head(todo), y) => Unneeded(Head(todo), y)'
  BY <1>1, <1>5, StaysUnneeded
<1>9. Control'
  BY <1>1, <1>3, <1>7 DEF Control
<1>10. FoundInv'
  BY <1>1 DEF FoundInv
<1>11. WorkInv'
  BY <1>1, <1>8 DEF WorkInv
<1> QED
  BY <1>6, <1>9, <1>10, <1>11

\* The sweep looks for narinfos without a link and chunks without one: none is healthy.
LEMMA SweepStartStep ==
    ASSUME FsckInv, SweepNarInfos \/ SweepChunks
    PROVE  FsckInv'
<1> USE DEF FsckInv
<1>1. /\ phase \in {"items", "narinfos"} /\ phase' \in {"narinfos", "chunks"}
      /\ UNCHANGED <<stores, todo, rows, found, doomed, healthy>>
  BY DEF SweepNarInfos, SweepChunks
<1>2. World' /\ (RowsAgree => RowsAgree') /\ HealthyChunks' \subseteq HealthyChunks
  BY <1>1, Quiet
<1>3. Control'
  BY <1>1, <1>2 DEF Control
<1>4. FoundInv'
  BY <1>1 DEF FoundInv
<1>5. doomed = {}
  BY DEF SweepNarInfos, SweepChunks, WorkInv
<1>6. CASE SweepNarInfos
  <2>1. phase' = "narinfos" /\ work' \subseteq GetNarInfosWithoutNarFiles(db)
    BY <1>6 DEF SweepNarInfos
  <2>2. \A h \in healthy : h \notin GetNarInfosWithoutNarFiles(db)
    BY HealthyRows DEF GetNarInfosWithoutNarFiles
  <2>3. WorkInv'
    BY <1>1, <1>5, <2>1, <2>2 DEF WorkInv
  <2> QED
    BY <1>2, <1>3, <1>4, <2>3
<1>7. CASE SweepChunks
  <2>1. phase' = "chunks" /\ work' = GetOrphanedChunks(db)
    BY <1>7 DEF SweepChunks
  <2>2. \A c \in HealthyChunks : c \notin GetOrphanedChunks(db)
    BY HealthyLinked DEF GetOrphanedChunks
  <2>3. (work' \cup doomed') \cap HealthyChunks' = {}
    BY <1>1, <1>2, <1>5, <2>1, <2>2
  <2>4. WorkInv'
    BY <2>1, <2>3 DEF WorkInv
  <2> QED
    BY <1>2, <1>3, <1>4, <2>4
<1> QED
  BY <1>6, <1>7

\* The sweep deletes narinfos, ...
LEMMA SweepNarInfoStep ==
    ASSUME FsckInv, SweepNarInfo
    PROVE  FsckInv'
<1> USE DEF FsckInv
<1>1. /\ phase = "narinfos"
      /\ UNCHANGED <<store, chunkStore, phase, todo, rows, found, doomed, healthy>>
  BY DEF SweepNarInfo
<1>2. PICK h \in work : db' = DeleteNarInfoByID(db, h) /\ work' = work \ {h}
  BY DEF SweepNarInfo
<1>3. work \cap healthy = {}
  BY <1>1 DEF WorkInv
<1>4. Kept
  BY <1>1, <1>2, <1>3, DeleteNarInfoKeeps
<1>5. World'
  BY <1>4 DEF Kept
<1>6. RowsAgree'
  BY <1>1, <1>4, StaysAgreed DEF Control
<1>7. Control'
  BY <1>1, <1>6 DEF Control
<1>8. FoundInv'
  BY <1>1 DEF FoundInv
<1>9. WorkInv'
  BY <1>1, <1>2, <1>3 DEF WorkInv
<1> QED
  BY <1>5, <1>7, <1>8, <1>9

\* ... and chunks: the file of one, or its row.
LEMMA SweepChunkStep ==
    ASSUME FsckInv, SweepChunk \/ SweepChunkRow
    PROVE  FsckInv'
<1> USE DEF FsckInv
<1>1. phase = "chunks" /\ UNCHANGED <<phase, todo, rows, found, healthy>>
  BY DEF SweepChunk, SweepChunkRow
<1>2. (work \cup doomed) \cap HealthyChunks = {}
  BY <1>1 DEF WorkInv
<1>3. work' \cup doomed' \subseteq work \cup doomed
  BY DEF SweepChunk, SweepChunkRow
<1>4. Kept
  <2>1. CASE SweepChunk
    <3>1. PICK c \in work : chunkStore' = Remove(chunkStore, {c})
      BY <2>1 DEF SweepChunk
    <3>2. UNCHANGED <<db, store, healthy>>
      BY <2>1 DEF SweepChunk
    <3> QED
      BY <1>2, <3>1, <3>2, DeleteChunkFileKeeps
  <2>2. CASE SweepChunkRow
    <3>1. PICK c \in doomed : db' = DeleteChunkByID(db, c)
      BY <2>2 DEF SweepChunkRow
    <3>2. UNCHANGED <<store, chunkStore, healthy>>
      BY <2>2 DEF SweepChunkRow
    <3> QED
      BY <1>2, <3>1, <3>2, DeleteChunkKeeps
  <2> QED
    BY <2>1, <2>2
<1>5. World'
  BY <1>4 DEF Kept
<1>6. RowsAgree'
  BY <1>1, <1>4, StaysAgreed DEF Control
<1>7. HealthyChunks' \subseteq HealthyChunks
  BY <1>4, StaysUnneeded
<1>8. Control'
  BY <1>1, <1>6 DEF Control
<1>9. FoundInv'
  BY <1>1 DEF FoundInv
<1>10. WorkInv'
  BY <1>1, <1>2, <1>3, <1>7 DEF WorkInv
<1> QED
  BY <1>5, <1>8, <1>9, <1>10

\* The repairs of a check are over, or all repairs.
LEMMA RepairedStep ==
    ASSUME FsckInv, CheckRepaired \/ Repaired
    PROVE  FsckInv'
<1> USE DEF FsckInv
<1>1. /\ phase \in {"repair", "items", "narinfos", "chunks"} /\ phase' \in {"idle", "repair"}
      /\ todo' = todo \/ (todo # << >> /\ todo' = Tail(todo))
      /\ doomed' = {}
      /\ UNCHANGED <<stores, rows, found, healthy>>
  BY DEF CheckRepaired, Repaired, Control, WorkInv
<1>2. World' /\ (RowsAgree => RowsAgree')
  BY <1>1, Quiet
<1>3. todo' \in Seq(Checks)
  BY <1>1, HeadIsCheck DEF Control
<1>4. Control'
  BY <1>1, <1>2, <1>3 DEF Control
<1>5. FoundInv'
  BY <1>1 DEF FoundInv
<1>6. WorkInv'
  BY <1>1 DEF WorkInv
<1> QED
  BY <1>2, <1>4, <1>5, <1>6

\* Whatever is left in the database and the stores, and fsck has not begun.
LEMMA InitInv == Init => FsckInv
<1> SUFFICES ASSUME Init PROVE FsckInv
  OBVIOUS
<1>1. PICK shape \in {f \in [Nars -> UNION Range(Shapes)] : \A n \in Nars : f[n] \in Shapes[n]},
           cdc \in BOOLEAN, left \in {{}, {Spare}} :
        db = [ narinfos |->
                 [h \in {h \in NarInfos : HasNarInfo(shape[NarOf[h]])} |->
                    NarInfoRow(h, UrlOf(NarOf[h], shape[NarOf[h]]))],
               nar_files |->
                 [u \in UNION {RowsOf(n, shape[n]) : n \in Nars} |-> RowOf(u, shape[u[1]])],
               narinfo_nar_files |->
                 {<<h, UrlOf(NarOf[h], shape[NarOf[h]])>> : h \in
                    {h \in NarInfos : HasNarInfo(shape[NarOf[h]]) /\ HasRow(shape[NarOf[h]])}},
               chunks |-> {l.chunk : l \in UNION {LinksOf(n, shape[n]) : n \in Nars}} \cup left,
               nar_file_chunks |-> UNION {LinksOf(n, shape[n]) : n \in Nars},
               config |-> IF cdc THEN [cdc_enabled |-> TRUE] ELSE << >> ]
  BY ZenonT(60) DEF Init
<1>2. /\ store \subseteq Nars \X {"xz"} /\ phase = "idle" /\ todo = << >>
      /\ found = NoSuspects /\ doomed = {} /\ healthy = {}
  BY DEF Init, Url
<1>3. HasTables(db)
  BY <1>1 DEF HasTables
<1>4. RowsSound(db)
  <2>1. \A n \in Nars : UrlOf(n, shape[n]) \in Urls /\ UrlOf(n, shape[n]) \in {n} \X {"none", "xz"}
    BY DEF UrlOf, Url, Urls
  <2>2. \A h \in DOMAIN db.narinfos : h \in NarInfos /\ db.narinfos[h] \in NarInfoRows(h)
    BY <1>1, <2>1, FsckAssumption DEF NarInfoRow, NarInfoRows
  <2>3. \A u \in DOMAIN db.nar_files :
          /\ u \in Urls /\ db.nar_files[u] = RowOf(u, shape[u[1]])
          /\ IsChunked(shape[u[1]]) => u[2] = "none"
    BY <1>1 DEF RowsOf, UrlOf, Url, Urls, IsChunked
  <2>4. ASSUME NEW u \in Urls
        PROVE  /\ RowOf(u, shape[u[1]]) \in NarFileRow
               /\ RowOf(u, shape[u[1]]).total > 0 => IsChunked(shape[u[1]])
               /\ RowOf(u, shape[u[1]]).started # Null => RowOf(u, shape[u[1]]).total = 0
    <3> DEFINE len == Len(ContentOf[u[1]])
               sh == shape[u[1]]
               started == IF sh = "chunking" /\ u[2] = "none" THEN "fresh" ELSE Null
               size == IF sh = "truncated" THEN len - 1 ELSE len
    <3>1. len \in Nat /\ len > 0
      BY ContentLen DEF Urls
    <3>2. RowOf(u, sh) = [ size |-> size, total |-> IF IsChunked(sh) THEN len ELSE 0,
                           started |-> started, created |-> "old", verified |-> FALSE ]
      <4> DEFINE row == [ size |-> len, total |-> IF IsChunked(sh) THEN len ELSE 0,
                          started |-> Null, created |-> "old", verified |-> FALSE ]
      <4>1. (IF IsChunked(sh) THEN Chunked(u[1]) ELSE Unchunked(len)) = row
        BY DEF Chunked, Unchunked
      <4>2. RowOf(u, sh) = [row EXCEPT !.size = IF sh = "truncated" THEN @ - 1 ELSE @,
                                       !.started = started]
        BY <4>1 DEF RowOf
      <4> QED
        BY <4>2
    <3>3. size \in Nat /\ started \in {Null, "fresh"} /\ (started # Null => ~ IsChunked(sh))
      BY <3>1 DEF IsChunked
    <3> HIDE DEF len, sh, started, size
    <3>4. /\ RowOf(u, sh) \in NarFileRow
          /\ RowOf(u, sh).total > 0 => IsChunked(sh)
          /\ RowOf(u, sh).started # Null => RowOf(u, sh).total = 0
      BY <3>1, <3>2, <3>3 DEF NarFileRow
    <3> QED
      BY <3>4 DEF sh
  <2> QED
    BY <2>2, <2>3, <2>4 DEF RowsSound
<1>5. LinksSound(db)
  <2>1. \A l \in db.narinfo_nar_files : l \in NarInfos \X Urls /\ l[2][1] = NarOf[l[1]]
    BY <1>1, FsckAssumption DEF UrlOf, Url, Urls
  <2>2. \A l \in db.nar_file_chunks : l.chunk \in db.chunks
    BY <1>1
  <2>3. \A l \in db.nar_file_chunks :
          \E n \in Nars : l = [nar |-> Url(n, "none"), index |-> l.index, chunk |-> ContentOf[n][l.index]]
    BY <1>1 DEF LinksOf, Links
  <2>4. \A l, k \in db.nar_file_chunks : l.nar = k.nar /\ l.index = k.index => l = k
    BY <2>3 DEF Url
  <2> QED
    BY <2>1, <2>2, <2>4 DEF LinksSound
<1>6. World
  BY <1>2, <1>3, <1>4, <1>5 DEF World, Tables
<1>7. Control
  BY <1>2 DEF Control
<1>8. FoundInv
  <2>1. "narFilesMissingInStorage" \in Checks /\ ChunkedChecks \subseteq Checks
    BY ChunkedChecksAre DEF Checks, linkChecks, fileChecks, cdcChecks,
       chunkFileChecks, contentChecks, Range
  <2> QED
    BY <1>2, <2>1 DEF FoundInv, NoSuspects
<1>9. WorkInv
  BY <1>2 DEF WorkInv
<1> QED
  BY <1>6, <1>7, <1>8, <1>9 DEF FsckInv

\* Every step of fsck and of the servers next to it keeps the invariant.
LEMMA NextInv == FsckInv /\ [Next]_vars => FsckInv'
<1> SUFFICES ASSUME FsckInv, [Next]_vars PROVE FsckInv'
  OBVIOUS
<1>1. CASE Step
  BY <1>1, ReadStep, CollectStep, CollectedStep, VerifyStep, RepairCheckStep, RepairLookStep,
     RepairDeleteStep, SweepStartStep, SweepNarInfoStep, SweepChunkStep, RepairedStep DEF Step
<1>2. CASE Server
  <2>1. Kept
    BY <1>2, ServerKeeps DEF FsckInv
  <2>2. UNCHANGED fsckVars
    BY <1>2 DEF Server, Write, PutNar, RecordNar, PutNarInfo, StartChunking, RecordChunks,
       CompleteChunking
  <2> QED
    BY <2>1, <2>2, KeptByOthers
<1>3. CASE UNCHANGED vars
  <2>1. Kept
    BY <1>3, NothingKeeps DEF FsckInv, vars
  <2> QED
    BY <1>3, <2>1, KeptByOthers DEF vars, fsckVars
<1> QED
  BY <1>1, <1>2, <1>3, StartStep, VerifiedStep DEF Next

\* fsck's tables, its suspects and what it is about to delete are as its checks need
\* them, whatever was left in the database and whatever the servers do meanwhile.
THEOREM InvariantHolds == Spec => []FsckInv
  BY InitInv, NextInv, PTL DEF Spec

\* Neither the three looks of repairFsckIssues nor the sweeps for what its deletions
\* orphaned take a narinfo, a NAR or a chunk that was in order when fsck began and that
\* no server has moved: for any number of NARs that are compressed files or in chunks, with
\* any remains of such NARs beside them, next to any uploads and chunkings.  It says nothing
\* of NARs stored without compression, as .nar.zst files, which fsck does delete.
THEOREM HealthyStay == Spec => []HealthyKept
<1>1. FsckInv => HealthyKept
  BY DEF FsckInv, World, HealthyKept
<1> QED
  BY <1>1, InvariantHolds, PTL

=============================================================================
