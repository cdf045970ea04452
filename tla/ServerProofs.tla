---------------------------- MODULE ServerProofs ----------------------------
(***************************************************************************)
(* What the HTTP server says of the bodies it sends, that a NAR stays      *)
(* servable while it is migrated to chunks, and that the settings of a     *)
(* cluster are decided once, for any number of clients and processes and   *)
(* any number of faults.                                                   *)
(***************************************************************************)
EXTENDS Services, TLAPS

-----------------------------------------------------------------------------
(* The responses of the HTTP server.                                       *)

\* The requests getNar makes of the headers.
Asked == [comp : {"none", "xz"}, head : BOOLEAN, upload : BOOLEAN,
          accept : SUBSET {"zstd", "br", "gzip"}, transparent : BOOLEAN]

\* What HeadersDescribeBody says of one request and its response.
Describes(r, p) ==
    p # Null /\ ~r.head /\ ~p.streamed =>
        /\ p.length # Null => p.length = Http!Bytes[p.body] /\ ~p.recoded
        /\ p.encoding # Null /\ ~p.recoded => p.body = p.encoding
        /\ r.comp = "none" => p.body = "none" \/ (p.encoding = "zstd" /\ ~p.recoded)

\* Chunks are there under CDC only, and then the row has no size or that of the
\* uncompressed NAR: the one of a .nar.zst stored before is gone.
HttpInv ==
    /\ cdc \in BOOLEAN
    /\ remote \in {"none", "xz"}
    /\ stored \subseteq Http!Formats
    /\ rows \in [{"none", "xz"} -> {Null} \cup Nat]
    /\ chunking \in {"no", "going", "done"}
    /\ pull \in {Null, "none", "xz"}
    /\ pc \in [Clients -> {"idle", "size", "get", "stream", "replied"}]
    /\ request \in [Clients -> {Null} \cup Asked]
    /\ DOMAIN reply = Clients
    /\ chunking # "no" => cdc /\ rows["none"] \in {0, Http!Bytes["none"]}
    /\ \A c \in Clients :
         /\ pc[c] \in {"size", "get", "stream"} => request[c] \in Asked
         /\ pc[c] = "size" => request[c].head
         /\ pc[c] # "replied" => reply[c] = Null
         /\ Describes(request[c], reply[c])

\* Number of bytes of the NAR in each format.
LEMMA BytesOf ==
    /\ Http!Bytes["none"] = 3 /\ Http!Bytes["zstd"] = 2 /\ Http!Bytes["xz"] = 1
  BY DEF Http!Bytes

\* An answer of GetNar that a response can be made of: its size is unknown or that
\* of its bytes, and only a zstd stream passes for one.
Sound(r, a) ==
    /\ a.size \in {0, Http!Bytes[a.format]}
    /\ a.transparent \in BOOLEAN
    /\ a.transparent => a.comp = "none" /\ a.format = "zstd"
    /\ r.comp = "none" => a.format = "none" \/ a.transparent

\* getNar describes what such an answer yields.
LEMMA SoundDescribed ==
    ASSUME NEW r \in Asked, NEW a, Sound(r, a)
    PROVE  Describes(r, Http!Respond(r, a))
<1> DEFINE encoding == Http!selectedEncoding(r, a)
           p == Http!Respond(r, a)
<1> SUFFICES ASSUME ~r.head, ~p.streamed PROVE Describes(r, p)
  BY DEF Describes
<1>1. /\ p.encoding = encoding
      /\ p.length = Http!contentLength(r, a, encoding)
      /\ p.body = a.format
      /\ p.recoded = (encoding # Null /\ ~a.transparent)
  BY DEF Http!Respond
<1>2. encoding # Null /\ a.transparent => encoding = "zstd"
  BY DEF Http!selectedEncoding
<1>3. a.transparent => encoding = "zstd"
  BY DEF Http!selectedEncoding, Sound
<1>4. p.length # Null => encoding = Null /\ p.length = Http!Bytes[a.format]
  BY <1>1 DEF Http!contentLength, Sound
<1> HIDE DEF encoding, p
<1> QED
  BY <1>1, <1>2, <1>3, <1>4, ServicesAssumption DEF Describes, Sound

\* A whole file is sent as it is, decompressed, or as the zstd stream the client
\* asked for.
LEMMA FileSound ==
    ASSUME HttpInv, NEW r \in Asked, Http!HasNarInStore(r.comp)
    PROVE  Sound(r, Http!getNarFromStore(r))
<1>1. r.comp \in {"none", "xz"} /\ r.transparent \in BOOLEAN
  BY DEF Asked
<1> QED
  BY <1>1, BytesOf DEF Sound, Http!getNarFromStore, Http!Answer

\* The size of chunks is known once the chunker has taken the row.
LEMMA ChunksSound ==
    ASSUME HttpInv, NEW r \in Asked, chunking # "no"
    PROVE  Sound(r, Http!getNarFromChunks(r))
  BY BytesOf, ServicesAssumption
  DEF HttpInv, Sound, Http!getNarFromChunks, Http!Answer, Http!getNarFileFromDB

\* Both together, at the choice of serveNarFromStorageViaPipe.
LEMMA ServedDescribed ==
    ASSUME HttpInv, NEW r \in Asked, Http!HasNarInStore(r.comp) \/ chunking # "no"
    PROVE  Describes(r, Http!Respond(r, Http!serveNarFromStorageViaPipe(r)))
  BY SoundDescribed, FileSound, ChunksSound DEF Http!serveNarFromStorageViaPipe

\* A response is the last a client gets for its request.
LEMMA ReplyKeeps ==
    ASSUME HttpInv, NEW c \in Clients, NEW p, Http!Reply(c, p), UNCHANGED Http!cache,
           Describes(request[c], p)
    PROVE  HttpInv'
  BY DEF HttpInv, Http!Reply, Http!cache, Describes

\* Every step of a client's request keeps HttpInv.
LEMMA HandlerKeeps ==
    ASSUME HttpInv, NEW c \in Clients, Http!Handler(c)
    PROVE  HttpInv'
<1> DEFINE r == request[c]
<1>1. CASE Http!getNar(c)
  BY <1>1 DEF HttpInv, Http!getNar, Http!cache, Asked, Describes
<1>2. CASE Http!GetNarFileSize(c)
  <2>1. r \in Asked /\ r.head
    BY <1>2 DEF HttpInv, Http!GetNarFileSize
  <2>2. CASE Http!getNarFileFromDB(r.comp) \notin {Null, 0}
    BY <1>2, <2>1, <2>2, ReplyKeeps DEF Http!GetNarFileSize, Describes
  <2>3. CASE Http!getNarFileFromDB(r.comp) \in {Null, 0}
    BY <1>2, <2>3 DEF HttpInv, Http!GetNarFileSize, Http!cache, Describes
  <2> QED
    BY <2>2, <2>3
<1>3. CASE Http!GetNarHit(c)
  <2>1. r \in Asked /\ (Http!HasNarInStore(r.comp) \/ chunking # "no")
    BY <1>3 DEF HttpInv, Http!GetNarHit
  <2> QED
    BY <1>3, <2>1, ServedDescribed, ReplyKeeps DEF Http!GetNarHit
<1>4. CASE Http!GetNarMiss(c)
  <2>1. r \in Asked
    BY <1>4 DEF HttpInv, Http!GetNarMiss
  <2>2. CASE Http!Fail(c) /\ UNCHANGED Http!cache
    BY <2>2, ReplyKeeps DEF Http!Fail, Describes
  <2>3. CASE ~Http!Fail(c) \/ ~UNCHANGED Http!cache
    <3>1. /\ request' = [request EXCEPT ![c].transparent = @ /\ info # r.comp]
          /\ pc' = [pc EXCEPT ![c] = "stream"]
          /\ UNCHANGED <<reply, cdc, remote, stored, rows, chunking, info>>
          /\ pull' = IF pull # Null THEN pull
                     ELSE Http!tempFileCompression(Http!downloadURL(r.comp),
                                                   r.comp = "none" /\ info = "none")
          /\ pull # Null \/ Http!downloadURL(r.comp) = remote
      BY <1>4, <2>3 DEF Http!GetNarMiss
    <3>2. pull' \in {Null, "none", "xz"}
      BY <3>1, <2>1 DEF HttpInv, Http!tempFileCompression, Http!downloadURL, Asked
    <3>3. [r EXCEPT !.transparent = @ /\ info # r.comp] \in Asked
      BY <2>1 DEF Asked
    <3>4. request' \in [Clients -> {Null} \cup Asked] /\ request'[c] \in Asked
      BY <3>1, <3>3 DEF HttpInv
    <3>5. reply[c] = Null
      BY <1>4 DEF HttpInv, Http!GetNarMiss
    <3> QED
      BY <3>1, <3>2, <3>4, <3>5 DEF HttpInv, Describes
  <2> QED
    BY <2>2, <2>3
<1>5. CASE Http!GetNarStream(c)
  <2>1. r \in Asked
    BY <1>5 DEF HttpInv, Http!GetNarStream
  <2>2. CASE Http!HasNarInStore(r.comp) \/ (pull = Null /\ chunking # "no")
    <3>1. Http!Reply(c, Http!Respond(r, Http!serveNarFromStorageViaPipe(r))) /\ UNCHANGED Http!cache
      BY <1>5, <2>2 DEF Http!GetNarStream
    <3> QED
      BY <2>1, <2>2, <3>1, ServedDescribed, ReplyKeeps
  <2>3. CASE ~Http!HasNarInStore(r.comp) /\ pull # Null
    <3>1. Http!Reply(c, Http!Respond(r, Http!StreamFromTempFile(r))) /\ UNCHANGED Http!cache
      BY <1>5, <2>3 DEF Http!GetNarStream
    <3>2. Describes(r, Http!Respond(r, Http!StreamFromTempFile(r)))
      BY DEF Describes, Http!Respond, Http!StreamFromTempFile, Http!Answer
    <3> QED
      BY <3>1, <3>2, ReplyKeeps
  <2>4. CASE /\ ~Http!HasNarInStore(r.comp) /\ pull = Null /\ chunking = "no"
    <3>1. Http!Fail(c) /\ UNCHANGED Http!cache
      BY <1>5, <2>4 DEF Http!GetNarStream
    <3> QED
      BY <3>1, ReplyKeeps DEF Http!Fail, Describes
  <2> QED
    BY <2>2, <2>3, <2>4
<1>6. CASE Http!Done(c)
  BY <1>6 DEF HttpInv, Http!Done, Http!cache, Describes
<1> QED
  BY <1>1, <1>2, <1>3, <1>4, <1>5, <1>6 DEF Http!Handler

\* Every step of the server and of its background work keeps HttpInv: the chunker
\* resets the size when it takes a row, and no one else gives the row of a chunked
\* NAR another size.
LEMMA HttpInvStep == HttpInv /\ Http!Next => HttpInv'
<1> SUFFICES ASSUME HttpInv, Http!Next PROVE HttpInv'
  OBVIOUS
<1> USE BytesOf, ServicesAssumption DEF HttpInv, Http!clients, Http!Formats
<1>1. ASSUME NEW comp \in {"none", "xz"}, Http!putNar(comp) PROVE HttpInv'
  <2>1. CASE cdc
    <3>1. /\ chunking' = "going" /\ rows' = [rows EXCEPT !["none"] = 0]
          /\ UNCHANGED <<cdc, remote, stored, info, pull, pc, request, reply>>
      BY <1>1, <2>1 DEF Http!putNar, Http!Begin
    <3> QED
      BY <3>1, <2>1
  <2>2. CASE ~cdc
    <3>1. /\ stored' = stored \cup {comp}
          /\ rows' = [rows EXCEPT ![comp] = Http!Bytes[comp]]
          /\ UNCHANGED <<cdc, remote, chunking, info, pull, pc, request, reply>>
      BY <1>1, <2>2 DEF Http!putNar
    <3>2. Http!Bytes[comp] \in Nat /\ chunking = "no" /\ stored' \subseteq Http!Formats
      BY <2>2, <3>1
    <3> QED
      BY <3>1, <3>2
  <2> QED
    BY <2>1, <2>2
<1>2. ASSUME NEW comp \in {"none", "xz"}, Http!deleteNar(comp) PROVE HttpInv'
  BY <1>2 DEF Http!deleteNar
<1>3. CASE Http!putNarInfo
  BY <1>3 DEF Http!putNarInfo
<1>4. CASE Http!getNarInfo
  BY <1>4 DEF Http!getNarInfo, Http!tempFileCompression
<1>5. CASE Http!deleteNarInfo
  BY <1>5 DEF Http!deleteNarInfo
<1>6. CASE Http!PullStored
  BY <1>6 DEF Http!PullStored
<1>7. CASE Http!PullBegins
  BY <1>7 DEF Http!PullBegins, Http!Begin
<1>8. CASE Http!PullFails
  BY <1>8 DEF Http!PullFails
<1>9. CASE Http!ChunkingDone
  BY <1>9 DEF Http!ChunkingDone
<1>10. CASE Http!EnableCDC
  BY <1>10 DEF Http!EnableCDC
<1> QED
  BY <1>1, <1>2, <1>3, <1>4, <1>5, <1>6, <1>7, <1>8, <1>9, <1>10, HandlerKeeps
  DEF Http!Next

\* HeadersDescribeBody: what is served from the storage has the length and the
\* encoding its headers say, while the NAR is put, deleted, downloaded and chunked
\* under the request, and across the restart that enables CDC.
THEOREM ResponsesDescribed == Spec => []HeadersDescribeBody
<1>1. Init => (part = "http" => HttpInv)
  BY DEF Init, Http!Init, HttpInv, Describes
<1>2. (part = "http" => HttpInv) /\ [Next]_vars => (part = "http" => HttpInv)'
  <2> SUFFICES ASSUME HttpInv, part = "http", [Next]_vars PROVE HttpInv'
    BY DEF Next, vars
  <2>1. CASE UNCHANGED Http!vars
    BY <2>1 DEF Http!vars, HttpInv, Describes
  <2>2. Http!Next \/ UNCHANGED Http!vars
    BY DEF Next, vars, shared, httpVars, Http!vars
  <2> QED
    BY <2>1, <2>2, HttpInvStep
<1>3. (part = "http" => HttpInv) => HeadersDescribeBody
  BY DEF HttpInv, Describes, HeadersDescribeBody, Http!HeadersDescribeBody
<1> QED
  BY <1>1, <1>2, <1>3, PTL DEF Spec

-----------------------------------------------------------------------------
(* The migrations of a NAR to chunks and of its narinfo to the database.   *)

\* The URLs a NAR is known under, and the file of each.
NarURLs == {<<"n", "none">>, <<"n", "xz">>, <<"n", "zstd">>}
FileOf(url) == IF url = <<"n", "none">> THEN "zstd" ELSE url[2]

\* The rows of the two tables.
NarInfoRow == [url : NarURLs \cup {Null}, fileSize : {"size", Null}, fileHash : {"hash", Null}]
NarFileRow == [size : {"size"}, total : Nat, started : {Null, "fresh", "stale"},
               created : {"old", "new"}, verified : BOOLEAN]

\* The tables of one NAR and its narinfo: only the uncompressed row gets chunks.
Tables(t) ==
    /\ t \in [narinfos : [{"h"} -> NarInfoRow], nar_files : [DOMAIN t.nar_files -> NarFileRow],
              narinfo_nar_files : SUBSET ({"h"} \X NarURLs),
              chunks : {{}}, nar_file_chunks : {{}}, config : {t.config}]
    /\ DOMAIN t.nar_files \subseteq NarURLs
    /\ \A u \in DOMAIN t.nar_files : u # <<"n", "none">> => t.nar_files[u].total = 0

\* The NAR is in chunks.
InChunks(t) == <<"n", "none">> \in DOMAIN t.nar_files /\ t.nar_files[<<"n", "none">>].total > 0

\* The NAR is being chunked, for less than an hour.
Locked(t) ==
    /\ <<"n", "none">> \in DOMAIN t.nar_files
    /\ t.nar_files[<<"n", "none">>].started = "fresh"
    /\ ~InChunks(t)

\* The URLs the code is written with.
LEMMA MigrationURLs ==
    /\ Migrate!Plain = <<"n", "none">>
    /\ Migrate!NarInfoHash = "h"
    /\ \A c : Migrate!URL(c) = <<"n", c>>
  BY DEF Migrate!Plain, Migrate!URL, Migrate!NarHash, Migrate!NarInfoHash

\* nar_files is replaced and nothing else.
LEMMA ReplaceNarFiles ==
    ASSUME NEW t, Tables(t), NEW f, f \in [DOMAIN f -> NarFileRow], DOMAIN f \subseteq NarURLs,
           \A u \in DOMAIN f : u # <<"n", "none">> => f[u].total = 0
    PROVE  LET s == [t EXCEPT !.nar_files = f]
           IN  Tables(s) /\ s.nar_files = f /\ s.narinfos = t.narinfos
  BY DEF Tables

\* A row for a NAR file, if there is none, changes nothing else.
LEMMA CreateNarFileKeeps ==
    ASSUME NEW t, Tables(t), NEW u \in NarURLs
    PROVE  LET s == Migrate!CreateNarFile(t, u, "size")
           IN  /\ Tables(s) /\ u \in DOMAIN s.nar_files
               /\ s.narinfos = t.narinfos
               /\ DOMAIN t.nar_files \subseteq DOMAIN s.nar_files
               /\ InChunks(s) <=> InChunks(t)
               /\ Locked(t) => Locked(s)
<1> DEFINE row == [size |-> "size", total |-> 0, started |-> Null, created |-> "new",
                   verified |-> FALSE]
           f == Migrate!Insert(t.nar_files, u, row)
           s == Migrate!CreateNarFile(t, u, "size")
<1>1. CASE u \in DOMAIN t.nar_files
  BY <1>1 DEF Migrate!CreateNarFile
<1>2. CASE u \notin DOMAIN t.nar_files
  <2>1. row \in NarFileRow /\ row.total = 0
    BY DEF NarFileRow
  <2>2. /\ DOMAIN f = DOMAIN t.nar_files \cup {u} /\ f[u] = row
        /\ \A v \in DOMAIN t.nar_files : f[v] = t.nar_files[v]
        /\ f = [v \in DOMAIN t.nar_files \cup {u} |-> f[v]]
    BY <1>2 DEF Migrate!Insert
  <2>3. s = [t EXCEPT !.nar_files = f]
    BY <1>2 DEF Migrate!CreateNarFile
  <2> HIDE DEF row, f, s
  <2>4. f \in [DOMAIN f -> NarFileRow] /\ DOMAIN f \subseteq NarURLs
    BY <2>1, <2>2 DEF Tables
  <2>5. \A v \in DOMAIN f : v # <<"n", "none">> => f[v].total = 0
    BY <2>1, <2>2 DEF Tables
  <2>6. Tables(s) /\ s.nar_files = f /\ s.narinfos = t.narinfos
    BY <2>3, <2>4, <2>5, ReplaceNarFiles
  <2> QED
    BY <1>2, <2>1, <2>2, <2>6 DEF InChunks, Locked, s
<1> QED
  BY <1>1, <1>2

\* chunking_started_at says nothing of whether there are chunks.
LEMMA SetStartedKeeps ==
    ASSUME NEW t, Tables(t), NEW started \in {Null, "fresh", "stale"}
    PROVE  LET s == Migrate!SetStarted(t, <<"n", "none">>, started)
           IN  /\ Tables(s) /\ s.narinfos = t.narinfos
               /\ DOMAIN s.nar_files = DOMAIN t.nar_files
               /\ InChunks(s) <=> InChunks(t)
               /\ started = "fresh" /\ <<"n", "none">> \in DOMAIN t.nar_files /\ ~InChunks(t)
                    => Locked(s)
<1> DEFINE plain == <<"n", "none">>
           row == [t.nar_files[plain] EXCEPT !.started = started]
           f == [t.nar_files EXCEPT ![plain] = row]
           s == Migrate!SetStarted(t, <<"n", "none">>, started)
<1>1. CASE plain \notin DOMAIN t.nar_files
  BY <1>1 DEF Migrate!SetStarted, Migrate!HasNarFile, InChunks
<1>2. CASE plain \in DOMAIN t.nar_files
  <2>1. t.nar_files[plain] \in NarFileRow
    BY <1>2 DEF Tables
  <2>2. /\ row \in NarFileRow /\ row.total = t.nar_files[plain].total
        /\ row.started = started
    BY <2>1 DEF NarFileRow
  <2>3. s = [t EXCEPT !.nar_files = f]
    BY <1>2 DEF Migrate!SetStarted, Migrate!HasNarFile
  <2>4. /\ DOMAIN f = DOMAIN t.nar_files /\ f[plain] = row
        /\ \A v \in DOMAIN f : v # plain => f[v] = t.nar_files[v]
        /\ f = [v \in DOMAIN t.nar_files |-> f[v]]
    BY <1>2
  <2> HIDE DEF row, f, s
  <2>5. f \in [DOMAIN f -> NarFileRow] /\ DOMAIN f \subseteq NarURLs
    BY <2>2, <2>4 DEF Tables
  <2>6. \A v \in DOMAIN f : v # plain => f[v].total = 0
    BY <2>4 DEF Tables
  <2>7. Tables(s) /\ s.nar_files = f /\ s.narinfos = t.narinfos
    BY <2>3, <2>5, <2>6, ReplaceNarFiles
  <2> QED
    BY <1>2, <2>1, <2>2, <2>4, <2>7 DEF InChunks, Locked, s
<1> QED
  BY <1>1, <1>2

\* total_chunks is set on the row that the chunking has made.
LEMMA TotalChunksKeeps ==
    ASSUME NEW t, Tables(t)
    PROVE  LET s == Migrate!UpdateNarFileTotalChunks(t, <<"n", "none">>, 1, "size")
           IN  /\ Tables(s) /\ s.narinfos = t.narinfos
               /\ DOMAIN s.nar_files = DOMAIN t.nar_files
               /\ <<"n", "none">> \in DOMAIN t.nar_files => InChunks(s)
               /\ InChunks(t) => InChunks(s)
<1> DEFINE plain == <<"n", "none">>
           row == [t.nar_files[plain] EXCEPT !.total = 1, !.size = "size", !.started = Null]
           f == [t.nar_files EXCEPT ![plain] = row]
           s == Migrate!UpdateNarFileTotalChunks(t, <<"n", "none">>, 1, "size")
<1>1. CASE plain \notin DOMAIN t.nar_files
  BY <1>1 DEF Migrate!UpdateNarFileTotalChunks, Migrate!HasNarFile, InChunks
<1>2. CASE plain \in DOMAIN t.nar_files
  <2>1. t.nar_files[plain] \in NarFileRow
    BY <1>2 DEF Tables
  <2>2. row \in NarFileRow /\ row.total = 1
    BY <2>1 DEF NarFileRow
  <2>3. s = [t EXCEPT !.nar_files = f]
    BY <1>2 DEF Migrate!UpdateNarFileTotalChunks, Migrate!HasNarFile
  <2>4. /\ DOMAIN f = DOMAIN t.nar_files /\ f[plain] = row
        /\ \A v \in DOMAIN f : v # plain => f[v] = t.nar_files[v]
        /\ f = [v \in DOMAIN t.nar_files |-> f[v]]
    BY <1>2
  <2> HIDE DEF row, f, s
  <2>5. f \in [DOMAIN f -> NarFileRow] /\ DOMAIN f \subseteq NarURLs
    BY <2>2, <2>4 DEF Tables
  <2>6. \A v \in DOMAIN f : v # plain => f[v].total = 0
    BY <2>4 DEF Tables
  <2>7. Tables(s) /\ s.nar_files = f /\ s.narinfos = t.narinfos
    BY <2>3, <2>5, <2>6, ReplaceNarFiles
  <2> QED
    BY <1>2, <2>2, <2>4, <2>7 DEF InChunks, s
<1> QED
  BY <1>1, <1>2

\* A compressed row can go.
LEMMA DeleteNarFileKeeps ==
    ASSUME NEW t, Tables(t), NEW u \in NarURLs, u # <<"n", "none">>
    PROVE  LET s == Migrate!DeleteNarFileByHash(t, u)
           IN  /\ Tables(s) /\ s.narinfos = t.narinfos
               /\ DOMAIN s.nar_files = DOMAIN t.nar_files \ {u}
               /\ InChunks(s) <=> InChunks(t)
               /\ Locked(t) => Locked(s)
  BY DEF Tables, InChunks, Locked, NarFileRow, Migrate!DeleteNarFileByHash, Migrate!Remove,
         Migrate!Restrict

\* Links are not looked at.
LEMMA LinkKeeps ==
    ASSUME NEW t, Tables(t), NEW u \in NarURLs
    PROVE  LET s == Migrate!LinkNarInfoToNarFile(t, "h", u)
           IN  Tables(s) /\ s.narinfos = t.narinfos /\ s.nar_files = t.nar_files
  BY DEF Tables, Migrate!LinkNarInfoToNarFile

\* Nor are those that a relink makes.
LEMMA LinkByURLKeeps ==
    ASSUME NEW t, Tables(t), NEW u \in NarURLs, NEW v
    PROVE  LET s == Migrate!LinkNarInfosByURLToNarFile(t, u, v)
           IN  Tables(s) /\ s.narinfos = t.narinfos /\ s.nar_files = t.nar_files
  BY DEF Tables, Migrate!LinkNarInfosByURLToNarFile, Migrate!GetNarInfoHashesByURL

\* A narinfo that is migrated gets the URL it had in the store.
LEMMA CreateNarInfoKeeps ==
    ASSUME NEW t, Tables(t), NEW u \in NarURLs, t.narinfos["h"].url = Null
    PROVE  LET s == Migrate!CreateNarInfo(t, "h", Migrate!Row(u))
           IN  Tables(s) /\ s.narinfos["h"].url = u /\ s.nar_files = t.nar_files
  BY DEF Tables, NarInfoRow, Migrate!CreateNarInfo, Migrate!Row, Migrate!Insert

\* The URLs of narinfos say nothing of chunks.
LEMMA UpdateNarInfoKeeps ==
    ASSUME NEW t, Tables(t), NEW u
    PROVE  LET s == Migrate!UpdateNarInfoCompressionFileSizeHashAndURL(
                        t, u, <<"n", "none">>, Null, Null)
           IN  Tables(s) /\ s.nar_files = t.nar_files
  BY ZenonT(60) DEF Tables, NarURLs, NarInfoRow, Migrate!UpdateNarInfoCompressionFileSizeHashAndURL

\* Where a goroutine of the migrations can be, and where only if the NAR is in
\* chunks or was taken to be.
MigrationSteps == {"idle", "recheck", "lock", "look", "chunk", "clean", "chunking", "overtaken",
                   "failed", "migrateNarInfo", "deleteNarInfo", "relink", "rewrite", "delete",
                   "deleted", "again", "dropRow", "dropFile"}
AfterChunking == {"relink", "rewrite", "delete", "deleted", "again", "dropRow", "dropFile"}

\* The files are all there until the NAR is in chunks, and no one is past the
\* chunking before; the chunked row is never deleted.
MigrationInv ==
    /\ Tables(db)
    /\ files \subseteq {"xz", "zstd"}
    /\ legacy \in NarURLs \cup {Null}
    /\ pc \in [Processes -> MigrationSteps]
    /\ todo \in [Processes -> NarURLs]
    /\ misled \in BOOLEAN
    /\ \/ misled \/ InChunks(db)
       \/ /\ \A url \in {db.narinfos["h"].url, legacy} \ {Null} : FileOf(url) \in files
          /\ \A p \in Processes : pc[p] = "migrateNarInfo" => FileOf(todo[p]) \in files
    /\ \A p \in Processes :
         /\ pc[p] \in AfterChunking => misled \/ InChunks(db)
         /\ pc[p] \in {"clean", "chunking", "overtaken"} => <<"n", "none">> \in DOMAIN db.nar_files
         /\ pc[p] \in {"relink", "dropRow"} => todo[p] # <<"n", "none">>

\* HasNarInChunks finds chunks under every URL of the NAR, or none.
LEMMA ChunksFound ==
    ASSUME Tables(db), NEW url \in NarURLs
    PROVE  Migrate!HasNarInChunks(url) <=> InChunks(db)
<1> DEFINE plain == <<"n", "none">>
<1>1. CASE plain \in DOMAIN db.nar_files
  <2>1. db.nar_files[plain] \in NarFileRow
    BY <1>1 DEF Tables
  <2>2. db.nar_files[plain] # Null
    BY <2>1, ServicesAssumption DEF NarFileRow
  <2> QED
    BY <1>1, <2>2, MigrationURLs DEF InChunks, Migrate!HasNarInChunks, Migrate!NarFile
<1>2. CASE plain \notin DOMAIN db.nar_files
  <2>1. CASE url \in DOMAIN db.nar_files
    <3>1. db.nar_files[url].total = 0
      BY <1>2, <2>1 DEF Tables
    <3>2. Migrate!NarFile(url) = db.nar_files[url]
      BY <1>2, <2>1, MigrationURLs
      DEF Migrate!NarFile, Migrate!GetNarFileByHashAndCompressionAndQuery
    <3> QED
      BY <1>2, <3>1, <3>2 DEF InChunks, Migrate!HasNarInChunks
  <2>2. CASE url \notin DOMAIN db.nar_files
    BY <1>2, <2>2, MigrationURLs DEF InChunks, Migrate!HasNarInChunks, Migrate!NarFile,
       Migrate!GetNarFileByHashAndCompressionAndQuery
  <2> QED
    BY <2>1, <2>2
<1> QED
  BY <1>1, <1>2

\* The URL in the database.
LEMMA NarInfoURLIs ==
    ASSUME Tables(db)
    PROVE  /\ Migrate!NarInfoURL = db.narinfos["h"].url
           /\ Migrate!NarInfoURL \in NarURLs \cup {Null}
  BY MigrationURLs DEF Tables, NarInfoRow, Migrate!NarInfoURL, Migrate!GetNarInfoByHash

\* A goroutine that begins knows nothing yet; one that deletes a compressed row
\* has seen the chunks.
LEMMA BeginKeeps ==
    ASSUME MigrationInv, NEW p \in Processes, NEW state \in MigrationSteps, NEW for,
           NEW url \in NarURLs, Migrate!Begin(p, state, for, url),
           state \in {"lock", "recheck", "chunk", "dropRow", "migrateNarInfo", "deleteNarInfo"},
           state = "dropRow" => InChunks(db) /\ url # <<"n", "none">>,
           state = "migrateNarInfo" => url = legacy /\ legacy # Null
    PROVE  MigrationInv'
  BY DEF MigrationInv, Migrate!Begin, Migrate!Goto, AfterChunking, MigrationSteps

\* One goroutine moves on; the tables and the files are the same.
LEMMA GotoKeeps ==
    ASSUME MigrationInv, NEW p \in Processes, NEW state \in MigrationSteps,
           Migrate!Goto(p, state), UNCHANGED <<db, files, legacy, todo>>,
           misled' \in BOOLEAN, misled => misled',
           state \in AfterChunking => misled' \/ InChunks(db),
           state \notin {"clean", "chunking", "overtaken", "relink", "dropRow", "migrateNarInfo"}
    PROVE  MigrationInv'
  BY DEF MigrationInv, Migrate!Goto, AfterChunking, MigrationSteps

\* Files go when the NAR is in chunks.
LEMMA FilesKeep ==
    ASSUME MigrationInv, NEW p \in Processes, NEW state \in MigrationSteps,
           Migrate!Goto(p, state), UNCHANGED <<db, legacy, todo, misled>>,
           files' \subseteq files, misled \/ InChunks(db),
           state \notin {"clean", "chunking", "overtaken", "relink", "dropRow", "migrateNarInfo"}
    PROVE  MigrationInv'
  BY DEF MigrationInv, Migrate!Goto, AfterChunking, MigrationSteps

\* The tables change, and the NAR is in chunks if it was.
LEMMA TablesKeep ==
    ASSUME MigrationInv, NEW p \in Processes, NEW state \in MigrationSteps,
           Migrate!Goto(p, state), UNCHANGED <<files, legacy, todo, misled>>,
           Tables(db'), InChunks(db) => InChunks(db'),
           db'.narinfos = db.narinfos \/ misled \/ InChunks(db),
           state \in AfterChunking => misled \/ InChunks(db'),
           <<"n", "none">> \in DOMAIN db.nar_files => <<"n", "none">> \in DOMAIN db'.nar_files,
           state \in {"clean", "chunking", "overtaken"} => <<"n", "none">> \in DOMAIN db'.nar_files,
           state = "relink" => todo[p] # <<"n", "none">>,
           state \notin {"dropRow", "migrateNarInfo"}
    PROVE  MigrationInv'
  BY DEF MigrationInv, Migrate!Goto, AfterChunking, MigrationSteps

\* A goroutine takes the chunking over from those that are at it.
LEMMA OvertakeKeeps ==
    ASSUME MigrationInv, NEW p \in Processes, NEW state \in {"clean", "chunking"},
           Migrate!Overtake(p, state), UNCHANGED <<files, legacy, todo, misled>>,
           Tables(db'), InChunks(db) <=> InChunks(db'), db'.narinfos = db.narinfos,
           <<"n", "none">> \in DOMAIN db'.nar_files
    PROVE  MigrationInv'
<1>1. \A q \in Processes :
         pc'[q] = IF q = p THEN state ELSE IF pc[q] = "chunking" THEN "overtaken" ELSE pc[q]
  BY DEF Migrate!Overtake
<1>2. pc' \in [Processes -> MigrationSteps]
  BY <1>1 DEF MigrationInv, MigrationSteps, Migrate!Overtake
<1>3. \A q \in Processes : pc'[q] = pc[q] \/ pc'[q] \in {"clean", "chunking", "overtaken"}
  BY <1>1
<1> QED
  BY <1>2, <1>3 DEF MigrationInv, AfterChunking

\* Every step of a goroutine keeps MigrationInv.
LEMMA MigrationStep ==
    ASSUME MigrationInv, NEW p \in Processes, Migrate!Step(p)
    PROVE  MigrationInv'
<1> DEFINE plain == <<"n", "none">>
<1>a. /\ Tables(db) /\ todo[p] \in NarURLs /\ files \subseteq {"xz", "zstd"}
      /\ misled \in BOOLEAN /\ plain \in NarURLs
      /\ pc[p] \in AfterChunking => misled \/ InChunks(db)
  BY DEF MigrationInv, NarURLs
<1>b. \A url \in NarURLs : Migrate!HasNarInChunks(url) <=> InChunks(db)
  BY <1>a, ChunksFound
<1>1. CASE Migrate!Background(p)
  <2>1. PICK url \in {Migrate!NarInfoURL} \cup {Migrate!URL(c) : c \in files} :
              url # Null /\ Migrate!Begin(p, "lock", "server", url)
    BY <1>1 DEF Migrate!Background
  <2>2. url \in NarURLs
    BY <1>a, <2>1, MigrationURLs, NarInfoURLIs DEF NarURLs
  <2> QED
    BY <2>1, <2>2, BeginKeeps DEF MigrationSteps
<1>2. CASE Migrate!LazyRecovery(p)
  <2>1. PICK url \in DOMAIN db.nar_files : Migrate!Begin(p, "lock", "server", url)
    BY <1>2 DEF Migrate!LazyRecovery, Migrate!GetStuckNarFiles, Migrate!GetNarFilesToChunk
  <2>2. url \in NarURLs
    BY <1>a, <2>1 DEF Tables
  <2> QED
    BY <2>1, <2>2, BeginKeeps DEF MigrationSteps
<1>3. CASE Migrate!Command(p)
  <2>1. PICK url \in DOMAIN db.nar_files : Migrate!Begin(p, "recheck", "command", url)
    BY <1>3 DEF Migrate!Command, Migrate!GetNarFilesToChunk
  <2>2. url \in NarURLs
    BY <1>a, <2>1 DEF Tables
  <2> QED
    BY <2>1, <2>2, BeginKeeps DEF MigrationSteps
<1>4. CASE Migrate!Put(p)
  <2>1. Migrate!URL("xz") \in NarURLs
    BY MigrationURLs DEF NarURLs
  <2> QED
    BY <1>4, <2>1, BeginKeeps DEF MigrationSteps, Migrate!Put
<1>5. CASE Migrate!Recheck(p)
  <2>1. CASE InChunks(db)
    BY <1>5, <1>a, <1>b, <2>1, FilesKeep DEF MigrationSteps, Migrate!Recheck
  <2>2. CASE ~InChunks(db)
    BY <1>5, <1>a, <1>b, <2>2, GotoKeeps DEF MigrationSteps, AfterChunking, Migrate!Recheck
  <2> QED
    BY <2>1, <2>2
<1>6. CASE Migrate!TryLock(p)
  BY <1>6, <1>a, GotoKeeps DEF MigrationSteps, AfterChunking, Migrate!TryLock
<1>7. CASE Migrate!Look(p)
  <2>1. CASE InChunks(db)
    <3>1. PICK state \in {"rewrite", "deleted"} : Migrate!Goto(p, state)
      BY <1>7, <1>a, <1>b, <2>1 DEF Migrate!Look
    <3> QED
      BY <1>7, <1>a, <2>1, <3>1, GotoKeeps DEF MigrationSteps, Migrate!Look
  <2>2. CASE ~InChunks(db)
    <3>1. PICK state \in {"chunk", "failed"} : Migrate!Goto(p, state)
      BY <1>7, <1>a, <1>b, <2>2 DEF Migrate!Look
    <3> QED
      BY <1>7, <1>a, <3>1, GotoKeeps DEF MigrationSteps, AfterChunking, Migrate!Look
  <2> QED
    BY <2>1, <2>2
<1>8. CASE Migrate!StartChunking(p)
  <2> DEFINE created == Migrate!CreateNarFile(db, plain, "size")
             row == created.nar_files[plain]
             s == Migrate!SetStarted(created, plain, "fresh")
  <2>1. /\ Tables(created) /\ plain \in DOMAIN created.nar_files
        /\ created.narinfos = db.narinfos /\ DOMAIN db.nar_files \subseteq DOMAIN created.nar_files
        /\ InChunks(created) <=> InChunks(db)
    BY <1>a, CreateNarFileKeeps
  <2>2. CASE row.total > 0 \/ row.started = "fresh"
    <3>1. PICK state \in {"idle", "rewrite"} :
              /\ Migrate!Goto(p, state)
              /\ state = "rewrite" => task[p] # "put"
      BY <1>8, <2>2, MigrationURLs DEF Migrate!StartChunking
    <3>2. /\ misled' = (misled \/ (row.total = 0 /\ task[p] # "put"))
          /\ UNCHANGED <<db, files, legacy, todo>>
      BY <1>8, <2>2, MigrationURLs DEF Migrate!StartChunking
    <3>3. row \in NarFileRow
      BY <2>1 DEF Tables
    <3>4. row.total = 0 \/ InChunks(db)
      BY <2>1, <3>3 DEF NarFileRow, InChunks
    <3> HIDE DEF row
    <3> QED
      BY <1>a, <3>1, <3>2, <3>4, GotoKeeps DEF MigrationSteps, AfterChunking
  <2>3. CASE ~(row.total > 0 \/ row.started = "fresh")
    <3>1. /\ Migrate!Goto(p, "chunking") \/ Migrate!Overtake(p, "clean")
          /\ db' = s /\ UNCHANGED <<files, legacy, todo, misled>>
      BY <1>8, <2>3, MigrationURLs
      DEF Migrate!StartChunking, Migrate!SetNarFileChunkingStarted
    <3>2. /\ Tables(s) /\ s.narinfos = db.narinfos
          /\ DOMAIN s.nar_files = DOMAIN created.nar_files
          /\ InChunks(s) <=> InChunks(db)
      BY <2>1, SetStartedKeeps
    <3> HIDE DEF s, created
    <3> QED
      BY <2>1, <3>1, <3>2, TablesKeep, OvertakeKeeps DEF MigrationSteps, AfterChunking
  <2> QED
    BY <2>2, <2>3
<1>23. CASE Migrate!CleanStale(p)
  <2>1. /\ pc[p] = "clean" /\ Migrate!Overtake(p, "chunking")
        /\ UNCHANGED <<db, files, legacy, todo, misled>>
    BY <1>23 DEF Migrate!CleanStale
  <2>2. plain \in DOMAIN db.nar_files
    BY <2>1 DEF MigrationInv
  <2> QED
    BY <1>a, <2>1, <2>2, OvertakeKeeps
<1>9. CASE Migrate!MarkComplete(p)
  <2> DEFINE s == Migrate!UpdateNarFileTotalChunks(db, plain, 1, "size")
  <2>1. plain \in DOMAIN db.nar_files
    BY <1>9 DEF MigrationInv, Migrate!MarkComplete
  <2>2. /\ Tables(s) /\ s.narinfos = db.narinfos /\ InChunks(s)
        /\ DOMAIN s.nar_files = DOMAIN db.nar_files
    BY <1>a, <2>1, TotalChunksKeeps
  <2>3. PICK state \in {"relink", "idle", "rewrite"} :
              Migrate!Goto(p, state) /\ (state = "relink" => todo[p] # plain)
    BY <1>9, MigrationURLs DEF Migrate!MarkComplete
  <2>4. db' = s /\ UNCHANGED <<files, legacy, todo, misled>>
    BY <1>9, MigrationURLs DEF Migrate!MarkComplete
  <2> HIDE DEF s
  <2> QED
    BY <2>2, <2>3, <2>4, TablesKeep DEF MigrationSteps
<1>10. CASE Migrate!ChunkingFails(p)
  <2> DEFINE s == Migrate!SetStarted(db, plain, Null)
  <2>1. /\ Tables(s) /\ s.narinfos = db.narinfos
        /\ DOMAIN s.nar_files = DOMAIN db.nar_files
        /\ InChunks(s) <=> InChunks(db)
    BY <1>a, SetStartedKeeps
  <2>2. PICK state \in {"idle", "failed"} : Migrate!Goto(p, state)
    BY <1>10 DEF Migrate!ChunkingFails
  <2>3. db' \in {db, s} /\ UNCHANGED <<files, legacy, todo, misled>>
    BY <1>10, MigrationURLs DEF Migrate!ChunkingFails, Migrate!ClearNarFileChunkingStarted
  <2>4. /\ Tables(db') /\ db'.narinfos = db.narinfos
        /\ DOMAIN db'.nar_files = DOMAIN db.nar_files
        /\ InChunks(db') <=> InChunks(db)
    BY <1>a, <2>1, <2>3
  <2> HIDE DEF s
  <2> QED
    BY <2>2, <2>3, <2>4, TablesKeep DEF MigrationSteps, AfterChunking
<1>11. CASE Migrate!Relink(p)
  <2> DEFINE t == Migrate!DeleteNarFileByHash(db, todo[p])
             s == Migrate!LinkNarInfosByURLToNarFile(t, plain, todo[p])
  <2>1. todo[p] # plain /\ (misled \/ InChunks(db))
    BY <1>11 DEF MigrationInv, AfterChunking, Migrate!Relink
  <2>2. /\ Tables(t) /\ t.narinfos = db.narinfos
        /\ DOMAIN t.nar_files = DOMAIN db.nar_files \ {todo[p]}
        /\ InChunks(t) <=> InChunks(db)
    BY <1>a, <2>1, DeleteNarFileKeeps
  <2>3. Tables(s) /\ s.narinfos = t.narinfos /\ s.nar_files = t.nar_files
    BY <1>a, <2>2, LinkByURLKeeps
  <2>4. PICK state \in {"idle", "rewrite"} : Migrate!Goto(p, state)
    BY <1>11 DEF Migrate!Relink
  <2>5. db' \in {db, s} /\ UNCHANGED <<files, legacy, todo, misled>>
    BY <1>11, MigrationURLs DEF Migrate!Relink
  <2>6. /\ Tables(db') /\ db'.narinfos = db.narinfos
        /\ plain \in DOMAIN db.nar_files => plain \in DOMAIN db'.nar_files
        /\ InChunks(db) <=> InChunks(db')
    BY <1>a, <2>1, <2>2, <2>3, <2>5 DEF InChunks
  <2> HIDE DEF s, t
  <2> QED
    BY <2>1, <2>4, <2>5, <2>6, TablesKeep DEF MigrationSteps
<1>12. CASE Migrate!RewriteURL(p)
  <2> DEFINE s == Migrate!UpdateNarInfoCompressionFileSizeHashAndURL(db, todo[p], plain, Null, Null)
  <2>1. misled \/ InChunks(db)
    BY <1>12 DEF MigrationInv, AfterChunking, Migrate!RewriteURL
  <2>2. Tables(s) /\ s.nar_files = db.nar_files
    BY <1>a, UpdateNarInfoKeeps
  <2>3. PICK state \in {"deleted", "delete"} : Migrate!Goto(p, state)
    BY <1>12 DEF Migrate!RewriteURL
  <2>4. db' \in {db, s} /\ UNCHANGED <<files, legacy, todo, misled>>
    BY <1>12, MigrationURLs DEF Migrate!RewriteURL
  <2>5. Tables(db') /\ db'.nar_files = db.nar_files
    BY <1>a, <2>2, <2>4
  <2> HIDE DEF s
  <2> QED
    BY <2>1, <2>3, <2>4, <2>5, TablesKeep DEF MigrationSteps, InChunks
<1>13. CASE Migrate!DeleteWhole(p)
  BY <1>13, <1>a, FilesKeep DEF MigrationSteps, AfterChunking, Migrate!DeleteWhole
<1>14. CASE Migrate!Unlock(p)
  <2>1. PICK state \in {"again", "idle"} :
            Migrate!Goto(p, state) /\ (state = "again" => pc[p] = "deleted")
    BY <1>14 DEF Migrate!Unlock
  <2> QED
    BY <1>14, <1>a, <2>1, GotoKeeps DEF MigrationSteps, AfterChunking, Migrate!Unlock
<1>15. CASE Migrate!DeleteAgain(p)
  BY <1>15, <1>a, FilesKeep DEF MigrationSteps, AfterChunking, Migrate!DeleteAgain
<1>16. CASE Migrate!CleanupList(p)
  <2>1. PICK url \in DOMAIN db.nar_files :
              /\ Migrate!Begin(p, "dropRow", "server", url)
              /\ url[2] # "none"
              /\ \E v \in DOMAIN db.nar_files :
                   v[1] = url[1] /\ v[2] = "none" /\ db.nar_files[v].total > 0
    BY <1>16 DEF Migrate!CleanupList, Migrate!GetOldCompressedNarFiles, Migrate!GetNarFilesToChunk
  <2>2. url \in NarURLs /\ url # plain
    BY <1>a, <2>1 DEF Tables
  <2>3. InChunks(db)
    BY <1>a, <2>1 DEF Tables, NarURLs, InChunks
  <2> QED
    BY <2>1, <2>2, <2>3, BeginKeeps DEF MigrationSteps
<1>17. CASE Migrate!DropRow(p)
  <2> DEFINE t == Migrate!DeleteNarFileByHash(db, todo[p])
  <2>1. todo[p] # plain /\ (misled \/ InChunks(db))
    BY <1>17 DEF MigrationInv, AfterChunking, Migrate!DropRow
  <2>2. /\ Tables(t) /\ t.narinfos = db.narinfos
        /\ DOMAIN t.nar_files = DOMAIN db.nar_files \ {todo[p]}
        /\ InChunks(t) <=> InChunks(db)
    BY <1>a, <2>1, DeleteNarFileKeeps
  <2>3. /\ db' = t /\ UNCHANGED <<files, legacy, todo, misled>>
        /\ Migrate!Goto(p, "dropFile")
    BY <1>17 DEF Migrate!DropRow, Migrate!DeleteNarFileByID
  <2> HIDE DEF t
  <2> QED
    BY <2>1, <2>2, <2>3, TablesKeep DEF MigrationSteps
<1>18. CASE Migrate!DropFile(p)
  BY <1>18, <1>a, FilesKeep DEF MigrationSteps, AfterChunking, Migrate!DropFile
<1>19. CASE Migrate!NarInfoCommand(p)
  <2>1. CASE legacy # Null /\ Migrate!Begin(p, "migrateNarInfo", "command", legacy)
    BY <2>1, BeginKeeps DEF MigrationInv, MigrationSteps
  <2>2. CASE /\ Migrate!NarInfoHash \in Migrate!GetMigratedNarInfoHashes(db)
             /\ Migrate!Begin(p, "deleteNarInfo", "command", Migrate!NarInfoURL)
    <3>1. Migrate!NarInfoURL \in NarURLs
      BY <1>a, <2>2, MigrationURLs, NarInfoURLIs DEF Migrate!GetMigratedNarInfoHashes
    <3> QED
      BY <2>2, <3>1, BeginKeeps DEF MigrationSteps
  <2> QED
    BY <1>19, <2>1, <2>2 DEF Migrate!NarInfoCommand
<1>20. CASE Migrate!MigrateNarInfo(p)
  <2>1. CASE Migrate!NarInfoURL # Null
    BY <1>20, <1>a, <2>1, GotoKeeps DEF MigrationSteps, AfterChunking, Migrate!MigrateNarInfo
  <2>2. CASE Migrate!NarInfoURL = Null
    <3> DEFINE a == Migrate!CreateNarInfo(db, "h", Migrate!Row(todo[p]))
               b == Migrate!CreateNarFile(a, todo[p], "size")
               s == Migrate!LinkNarInfoToNarFile(b, "h", todo[p])
    <3>1. Tables(a) /\ a.narinfos["h"].url = todo[p] /\ a.nar_files = db.nar_files
      BY <1>a, <2>2, NarInfoURLIs, CreateNarInfoKeeps
    <3>2. /\ Tables(b) /\ b.narinfos = a.narinfos
          /\ DOMAIN a.nar_files \subseteq DOMAIN b.nar_files
          /\ InChunks(b) <=> InChunks(a)
      BY <1>a, <3>1, CreateNarFileKeeps
    <3>3. Tables(s) /\ s.narinfos = b.narinfos /\ s.nar_files = b.nar_files
      BY <1>a, <3>2, LinkKeeps
    <3>4. /\ db' = s /\ UNCHANGED <<files, legacy, todo, misled>>
          /\ Migrate!Goto(p, "deleteNarInfo") /\ pc[p] = "migrateNarInfo"
      BY <1>20, <2>2, MigrationURLs DEF Migrate!MigrateNarInfo
    <3>5. /\ Tables(db') /\ db'.narinfos["h"].url = todo[p]
          /\ InChunks(db) <=> InChunks(db')
          /\ DOMAIN db.nar_files \subseteq DOMAIN db'.nar_files
      BY <3>1, <3>2, <3>3, <3>4 DEF InChunks
    <3> HIDE DEF a, b, s
    <3>6. \/ misled \/ InChunks(db)
          \/ /\ FileOf(todo[p]) \in files
             /\ legacy # Null => FileOf(legacy) \in files
             /\ \A q \in Processes : pc[q] = "migrateNarInfo" => FileOf(todo[q]) \in files
      BY <3>4 DEF MigrationInv
    <3> QED
      BY <3>4, <3>5, <3>6 DEF MigrationInv, Migrate!Goto, AfterChunking, MigrationSteps
  <2> QED
    BY <2>1, <2>2
<1>21. CASE Migrate!DeleteNarInfo(p)
  BY <1>21 DEF Migrate!DeleteNarInfo, Migrate!Goto, MigrationInv, AfterChunking, MigrationSteps
<1>22. CASE Migrate!Crash(p)
  BY <1>22, <1>a, GotoKeeps DEF MigrationSteps, AfterChunking, Migrate!Crash
<1> QED
  BY <1>1, <1>2, <1>3, <1>4, <1>5, <1>6, <1>7, <1>8, <1>9, <1>10, <1>11, <1>12, <1>13,
     <1>14, <1>15, <1>16, <1>17, <1>18, <1>19, <1>20, <1>21, <1>22, <1>23 DEF Migrate!Step

\* The tables of a NAR that was downloaded long ago.
LEMMA MigrationInit == Migrate!Init => MigrationInv
<1> SUFFICES ASSUME Migrate!Init PROVE MigrationInv
  OBVIOUS
<1> PICK compression \in {"xz", "none"}, migrated \in BOOLEAN :
         LET url == Migrate!URL(compression)
             row == Migrate!Row(IF migrated THEN url ELSE Null)
             made == Migrate!CreateNarFile(
                        Migrate!CreateNarInfo(Migrate!NoTables, Migrate!NarInfoHash, row), url, "size")
             aged == [made EXCEPT !.nar_files[url].created = "old"]
         IN /\ db = IF migrated
                    THEN Migrate!LinkNarInfoToNarFile(aged, Migrate!NarInfoHash, url) ELSE aged
            /\ files = {IF compression = "none" THEN "zstd" ELSE compression}
            /\ legacy = IF migrated THEN Null ELSE url
  BY DEF Migrate!Init
<1> DEFINE url == <<"n", compression>>
           row == Migrate!Row(IF migrated THEN url ELSE Null)
           new == Migrate!CreateNarInfo(Migrate!NoTables, "h", row)
           made == Migrate!CreateNarFile(new, url, "size")
           aged == [made EXCEPT !.nar_files[url].created = "old"]
<1>1. url \in NarURLs /\ row \in NarInfoRow /\ row.url = IF migrated THEN url ELSE Null
  BY DEF NarURLs, NarInfoRow, Migrate!Row
<1>2. /\ new \in [narinfos : [{"h"} -> NarInfoRow], nar_files : {<< >>},
                  narinfo_nar_files : {{}}, chunks : {{}}, nar_file_chunks : {{}},
                  config : {new.config}]
      /\ new.narinfos["h"] = row
  <2> HIDE DEF row
  <2>1. DOMAIN << >> = {}
    OBVIOUS
  <2>2. Migrate!Insert(<< >>, "h", row) \in [{"h"} -> NarInfoRow]
        /\ Migrate!Insert(<< >>, "h", row)["h"] = row
    BY <1>1, <2>1 DEF Migrate!Insert
  <2>3. new = [Migrate!NoTables EXCEPT !.narinfos = Migrate!Insert(<< >>, "h", row)]
    BY <2>1 DEF Migrate!CreateNarInfo, Migrate!NoTables
  <2> QED
    BY <2>2, <2>3 DEF Migrate!NoTables
<1>3. DOMAIN new.nar_files = {} /\ Tables(new)
  <2> HIDE DEF new
  <2>1. new.nar_files = << >> /\ DOMAIN << >> = {}
    BY <1>2
  <2>2. << >> \in [{} -> NarFileRow]
    BY <2>1
  <2>3. new \in [narinfos : [{"h"} -> NarInfoRow], nar_files : [DOMAIN new.nar_files -> NarFileRow],
                 narinfo_nar_files : SUBSET ({"h"} \X NarURLs),
                 chunks : {{}}, nar_file_chunks : {{}}, config : {new.config}]
    BY <1>2, <2>1, <2>2
  <2> QED
    BY <2>1, <2>3 DEF Tables
<1>4. /\ Tables(made) /\ url \in DOMAIN made.nar_files /\ made.narinfos = new.narinfos
      /\ ~InChunks(made)
  <2> HIDE DEF new
  <2> QED
    BY <1>1, <1>3, CreateNarFileKeeps DEF InChunks
<1>5. Tables(aged) /\ aged.narinfos = new.narinfos /\ ~InChunks(aged)
  <2> DEFINE was == made.nar_files[url]
             f == [made.nar_files EXCEPT ![url] = [was EXCEPT !.created = "old"]]
  <2> HIDE DEF new, made
  <2>1. was \in NarFileRow
    BY <1>4 DEF Tables
  <2>2. [was EXCEPT !.created = "old"] \in NarFileRow /\ [was EXCEPT !.created = "old"].total = was.total
    BY <2>1 DEF NarFileRow
  <2>3. /\ f \in [DOMAIN f -> NarFileRow] /\ DOMAIN f = DOMAIN made.nar_files
        /\ \A v \in DOMAIN f : f[v].total = made.nar_files[v].total
    BY <1>4, <2>2 DEF Tables
  <2>4. aged = [made EXCEPT !.nar_files = f]
    BY <1>4
  <2> HIDE DEF f, aged
  <2>5. \A v \in DOMAIN f : v # <<"n", "none">> => f[v].total = 0
    BY <1>4, <2>3 DEF Tables
  <2>6. DOMAIN f \subseteq NarURLs
    BY <1>4, <2>3 DEF Tables
  <2>7. Tables(aged) /\ aged.nar_files = f /\ aged.narinfos = made.narinfos
    BY <1>4, <2>3, <2>4, <2>5, <2>6, ReplaceNarFiles
  <2> QED
    BY <1>4, <2>3, <2>7 DEF InChunks
<1>6. Tables(db) /\ db.narinfos["h"] = row
  <2>1. db = IF migrated THEN Migrate!LinkNarInfoToNarFile(aged, "h", url) ELSE aged
    BY MigrationURLs
  <2> HIDE DEF aged, new, row, url
  <2>2. LET s == Migrate!LinkNarInfoToNarFile(aged, "h", url)
        IN  Tables(s) /\ s.narinfos = aged.narinfos
    BY <1>1, <1>5, LinkKeeps
  <2> QED
    BY <1>2, <1>5, <2>1, <2>2
<1>7. /\ files = {FileOf(url)} /\ legacy = IF migrated THEN Null ELSE url
      /\ files \subseteq {"xz", "zstd"}
  BY MigrationURLs DEF FileOf
<1>8. /\ pc = [p \in Processes |-> "idle"] /\ todo = [p \in Processes |-> <<"n", "none">>]
      /\ misled = FALSE
  BY MigrationURLs DEF Migrate!Init
<1> HIDE DEF row, url
<1> QED
  BY <1>1, <1>6, <1>7, <1>8 DEF MigrationInv, MigrationSteps, AfterChunking, NarURLs

\* No chunking is ever taken over from one that is at work, and none has completed
\* over missing links: one goroutine at most is at it, and the row says so.
Alone ==
    /\ ~torn
    /\ \A p \in Processes : pc[p] # "overtaken"
    /\ \A p \in Processes : pc[p] \in {"clean", "chunking"} => Locked(db)
    /\ \A p, q \in Processes :
         pc[p] \in {"clean", "chunking"} /\ pc[q] \in {"clean", "chunking"} => p = q

\* Nobody is at anything at first.
LEMMA AloneInit == Migrate!Init => Alone
  BY DEF Migrate!Init, Alone

\* A goroutine that does not come to chunk, or no longer does, disturbs no one.
LEMMA AwayKeeps ==
    ASSUME Alone, NEW p \in Processes, NEW state,
           pc' = [pc EXCEPT ![p] = state], torn' = torn,
           state \notin {"clean", "chunking", "overtaken"}, pc \in [Processes -> MigrationSteps],
           Locked(db) => Locked(db') \/ pc[p] \in {"clean", "chunking"}
    PROVE  Alone'
<1>1. \A q \in Processes : pc'[q] = IF q = p THEN state ELSE pc[q]
  OBVIOUS
<1>2. ASSUME NEW q \in Processes, pc'[q] \in {"clean", "chunking"} PROVE Locked(db)'
  <2>1. q # p /\ pc[q] \in {"clean", "chunking"} /\ Locked(db)
    BY <1>1, <1>2 DEF Alone
  <2>2. pc[p] \notin {"clean", "chunking"}
    BY <2>1 DEF Alone
  <2> QED
    BY <2>1, <2>2 DEF Locked, InChunks
<1> QED
  BY <1>1, <1>2 DEF Alone

\* Every step of a goroutine keeps Alone: as long as no chunking takes over an hour, a
\* lock that is taken over is a dead one's.
LEMMA AloneStep ==
    ASSUME MigrationInv, Alone, NEW p \in Processes, Migrate!Step(p)
    PROVE  Alone'
<1> DEFINE plain == <<"n", "none">>
           busy == {"clean", "chunking"}
<1>a. Tables(db) /\ todo[p] \in NarURLs /\ plain \in NarURLs /\ pc \in [Processes -> MigrationSteps]
  BY DEF MigrationInv, NarURLs
<1>b. Migrate!HasNarInChunks(plain) <=> InChunks(db)
  BY <1>a, ChunksFound
<1>c. ASSUME NEW t PROVE db' = t => (Locked(db)' <=> Locked(t))
  BY DEF Locked, InChunks
<1>1. CASE \/ Migrate!Background(p) \/ Migrate!LazyRecovery(p) \/ Migrate!Command(p)
           \/ Migrate!Put(p) \/ Migrate!CleanupList(p) \/ Migrate!NarInfoCommand(p)
  <2>1. \E state \in {"lock", "recheck", "chunk", "dropRow", "migrateNarInfo", "deleteNarInfo"} :
           pc' = [pc EXCEPT ![p] = state]
    BY <1>1 DEF Migrate!Background, Migrate!LazyRecovery, Migrate!Command, Migrate!Put,
       Migrate!CleanupList, Migrate!NarInfoCommand, Migrate!Begin, Migrate!Goto
  <2>2. UNCHANGED <<db, torn>>
    BY <1>1 DEF Migrate!Background, Migrate!LazyRecovery, Migrate!Command, Migrate!Put,
       Migrate!CleanupList, Migrate!NarInfoCommand, Migrate!Begin
  <2> QED
    BY <1>a, <2>1, <2>2, AwayKeeps
<1>2. CASE \/ Migrate!Recheck(p) \/ Migrate!TryLock(p) \/ Migrate!Look(p) \/ Migrate!DeleteWhole(p)
           \/ Migrate!Unlock(p) \/ Migrate!DeleteAgain(p) \/ Migrate!DropFile(p)
           \/ Migrate!DeleteNarInfo(p) \/ Migrate!Crash(p)
  <2>1. \E state \in {"idle", "lock", "look", "rewrite", "deleted", "chunk", "failed", "again"} :
           pc' = [pc EXCEPT ![p] = state]
    BY <1>2 DEF Migrate!Recheck, Migrate!TryLock, Migrate!Look, Migrate!DeleteWhole, Migrate!Unlock,
       Migrate!DeleteAgain, Migrate!DropFile, Migrate!DeleteNarInfo, Migrate!Crash, Migrate!Goto
  <2>2. UNCHANGED <<db, torn>>
    BY <1>2 DEF Migrate!Recheck, Migrate!TryLock, Migrate!Look, Migrate!DeleteWhole, Migrate!Unlock,
       Migrate!DeleteAgain, Migrate!DropFile, Migrate!DeleteNarInfo, Migrate!Crash
  <2> QED
    BY <1>a, <2>1, <2>2, AwayKeeps
<1>3. CASE Migrate!StartChunking(p)
  <2> DEFINE created == Migrate!CreateNarFile(db, plain, "size")
             row == created.nar_files[plain]
             s == Migrate!SetStarted(created, plain, "fresh")
  <2>1. /\ Tables(created) /\ plain \in DOMAIN created.nar_files
        /\ Locked(db) => Locked(created)
    BY <1>a, CreateNarFileKeeps
  <2>2. CASE row.total > 0 \/ row.started = "fresh"
    <3>1. /\ \E state \in {"idle", "rewrite"} : pc' = [pc EXCEPT ![p] = state]
          /\ UNCHANGED <<db, torn>>
      BY <1>3, <2>2, MigrationURLs DEF Migrate!StartChunking, Migrate!Goto
    <3> QED
      BY <1>a, <3>1, AwayKeeps
  <2>3. CASE ~(row.total > 0 \/ row.started = "fresh")
    <3>1. \A q \in Processes : pc[q] \notin busy
      BY <2>1, <2>3 DEF Alone, Locked
    <3>2. /\ Migrate!Goto(p, "chunking") \/ Migrate!Overtake(p, "clean")
          /\ db' = s /\ torn' = torn
      BY <1>3, <2>3, MigrationURLs
      DEF Migrate!StartChunking, Migrate!SetNarFileChunkingStarted
    <3>3. ~InChunks(created)
      BY <2>3 DEF InChunks
    <3>4. Locked(s)
      BY <2>1, <3>3, SetStartedKeeps
    <3>5. /\ pc'[p] \in busy
          /\ \A q \in Processes : q # p => pc'[q] = pc[q]
      BY <1>a, <3>1, <3>2 DEF Migrate!Goto, Migrate!Overtake
    <3> HIDE DEF s
    <3>6. Locked(db)'
      BY <1>c, <3>2, <3>4
    <3> QED
      BY <3>1, <3>2, <3>5, <3>6 DEF Alone
  <2> QED
    BY <2>2, <2>3
<1>4. CASE Migrate!CleanStale(p)
  <2>1. /\ pc[p] = "clean" /\ Migrate!Overtake(p, "chunking") /\ db' = db
        /\ torn' \in {torn, Migrate!HasNarInChunks(plain)}
    BY <1>4, MigrationURLs DEF Migrate!CleanStale
  <2>2. /\ Locked(db) /\ \A q \in Processes : q # p => pc[q] \notin busy
    BY <2>1 DEF Alone
  <2>3. ~torn'
    BY <1>b, <2>1, <2>2 DEF Alone, Locked
  <2>4. /\ pc'[p] = "chunking"
        /\ \A q \in Processes : q # p => pc'[q] = pc[q]
    BY <2>1, <2>2 DEF Migrate!Overtake
  <2>5. Locked(db)'
    BY <1>c, <2>1, <2>2
  <2> QED
    BY <2>2, <2>3, <2>4, <2>5 DEF Alone
<1>5. CASE Migrate!MarkComplete(p) \/ Migrate!ChunkingFails(p)
  <2>1. pc[p] = "chunking"
    BY <1>5 DEF Migrate!MarkComplete, Migrate!ChunkingFails, Alone
  <2>2. /\ \E state \in {"relink", "idle", "rewrite", "failed"} : pc' = [pc EXCEPT ![p] = state]
        /\ torn' = FALSE \/ torn' = torn
    BY <1>5, <2>1 DEF Migrate!MarkComplete, Migrate!ChunkingFails, Migrate!Goto
  <2>3. torn' <=> torn
    BY <2>2 DEF Alone
  <2>4. \A q \in Processes : pc'[q] \notin {"clean", "chunking", "overtaken"}
    BY <1>a, <2>1, <2>2 DEF Alone
  <2> QED
    BY <2>3, <2>4 DEF Alone
<1>6. CASE Migrate!Relink(p)
  <2> DEFINE t == Migrate!DeleteNarFileByHash(db, todo[p])
             s == Migrate!LinkNarInfosByURLToNarFile(t, plain, todo[p])
  <2>1. todo[p] # plain
    BY <1>6 DEF MigrationInv, Migrate!Relink
  <2>2. Tables(t) /\ (Locked(db) => Locked(t))
    BY <1>a, <2>1, DeleteNarFileKeeps
  <2>3. s.nar_files = t.nar_files
    BY <1>a, <2>2, LinkByURLKeeps
  <2>4. /\ \E state \in {"idle", "rewrite"} : pc' = [pc EXCEPT ![p] = state]
        /\ db' \in {db, s} /\ torn' = torn
    BY <1>6, MigrationURLs DEF Migrate!Relink, Migrate!Goto
  <2>5. Locked(db) => Locked(s)
    BY <2>2, <2>3 DEF Locked, InChunks
  <2> HIDE DEF s, t
  <2> QED
    BY <1>a, <1>c, <2>4, <2>5, AwayKeeps
<1>7. CASE Migrate!RewriteURL(p)
  <2> DEFINE s == Migrate!UpdateNarInfoCompressionFileSizeHashAndURL(db, todo[p], plain, Null, Null)
  <2>1. s.nar_files = db.nar_files
    BY <1>a, UpdateNarInfoKeeps
  <2>2. /\ \E state \in {"deleted", "delete"} : pc' = [pc EXCEPT ![p] = state]
        /\ db' \in {db, s} /\ torn' = torn
    BY <1>7, MigrationURLs DEF Migrate!RewriteURL, Migrate!Goto
  <2>3. Locked(db) => Locked(s)
    BY <2>1 DEF Locked, InChunks
  <2> HIDE DEF s
  <2> QED
    BY <1>a, <1>c, <2>2, <2>3, AwayKeeps
<1>8. CASE Migrate!DropRow(p)
  <2> DEFINE t == Migrate!DeleteNarFileByHash(db, todo[p])
  <2>1. todo[p] # plain
    BY <1>8 DEF MigrationInv, Migrate!DropRow
  <2>2. Locked(db) => Locked(t)
    BY <1>a, <2>1, DeleteNarFileKeeps
  <2>3. db' = t /\ pc' = [pc EXCEPT ![p] = "dropFile"] /\ torn' = torn
    BY <1>8 DEF Migrate!DropRow, Migrate!DeleteNarFileByID, Migrate!Goto
  <2> HIDE DEF t
  <2> QED
    BY <1>a, <1>c, <2>2, <2>3, AwayKeeps
<1>9. CASE Migrate!MigrateNarInfo(p)
  <2>1. CASE Migrate!NarInfoURL # Null
    BY <1>9, <1>a, <2>1, AwayKeeps DEF Migrate!MigrateNarInfo, Migrate!Goto
  <2>2. CASE Migrate!NarInfoURL = Null
    <3> DEFINE a == Migrate!CreateNarInfo(db, "h", Migrate!Row(todo[p]))
               b == Migrate!CreateNarFile(a, todo[p], "size")
               s == Migrate!LinkNarInfoToNarFile(b, "h", todo[p])
    <3>1. Tables(a) /\ a.nar_files = db.nar_files
      BY <1>a, <2>2, NarInfoURLIs, CreateNarInfoKeeps
    <3>2. Tables(b) /\ (Locked(a) => Locked(b))
      BY <1>a, <3>1, CreateNarFileKeeps
    <3>3. s.nar_files = b.nar_files
      BY <1>a, <3>2, LinkKeeps
    <3>4. db' = s /\ torn' = torn /\ pc' = [pc EXCEPT ![p] = "deleteNarInfo"]
      BY <1>9, <2>2, MigrationURLs DEF Migrate!MigrateNarInfo, Migrate!Goto
    <3> HIDE DEF a, b, s
    <3>5. Locked(db) => Locked(s)
      BY <3>1, <3>2, <3>3 DEF Locked, InChunks
    <3> QED
      BY <1>a, <1>c, <3>4, <3>5, AwayKeeps
  <2> QED
    BY <2>1, <2>2
<1> QED
  BY <1>1, <1>2, <1>3, <1>4, <1>5, <1>6, <1>7, <1>8, <1>9 DEF Migrate!Step

\* NarKept: whoever migrates the NAR at once and wherever they die, the NAR can be served
\* under the URL of its narinfo, unless a chunking in progress was taken for a finished
\* one, or a slow chunking completed after it had been taken over.
THEOREM NarStaysServable == Spec => []NarKept
<1> DEFINE Inv == part = "migrations" => MigrationInv /\ ("stale" \notin MigrationFaults => Alone)
<1>1. Init => Inv
  BY MigrationInit, AloneInit DEF Init
<1>2. Inv /\ [Next]_vars => Inv'
  <2> SUFFICES ASSUME MigrationInv, "stale" \notin MigrationFaults => Alone,
                      part = "migrations", [Next]_vars
               PROVE  MigrationInv' /\ ("stale" \notin MigrationFaults => Alone')
    BY DEF Next, vars
  <2>1. CASE UNCHANGED Migrate!vars
    BY <2>1 DEF Migrate!vars, MigrationInv, Alone
  <2>2. Migrate!Next \/ UNCHANGED Migrate!vars
    BY DEF Next, vars, shared, migrationVars, Migrate!vars
  <2>3. CASE Migrate!LockExpires
    BY <2>3 DEF Migrate!LockExpires, Migrate!procVars, MigrationInv, Alone
  <2>4. CASE Migrate!ChunkingGoesStale
    <3> DEFINE s == Migrate!SetStarted(db, <<"n", "none">>, "stale")
    <3>1. /\ Tables(s) /\ s.narinfos = db.narinfos
          /\ DOMAIN s.nar_files = DOMAIN db.nar_files
          /\ InChunks(s) <=> InChunks(db)
      BY SetStartedKeeps DEF MigrationInv
    <3>2. db' = s /\ UNCHANGED <<files, legacy, pc, todo, misled>>
      BY <2>4, MigrationURLs DEF Migrate!ChunkingGoesStale, Migrate!procVars
    <3>3. ASSUME "stale" \notin MigrationFaults PROVE Alone'
      <4>1. \A p \in Processes : pc[p] \notin {"clean", "chunking"}
        BY <2>4, <3>3 DEF Migrate!ChunkingGoesStale, Migrate!Spend
      <4>2. pc' = pc /\ torn' = torn
        BY <2>4 DEF Migrate!ChunkingGoesStale, Migrate!procVars
      <4> QED
        BY <3>3, <4>1, <4>2 DEF Alone
    <3> HIDE DEF s
    <3> QED
      BY <3>1, <3>2, <3>3 DEF MigrationInv
  <2> QED
    BY <2>1, <2>2, <2>3, <2>4, MigrationStep, AloneStep DEF Migrate!Next
<1>3. Inv => NarKept
  <2> SUFFICES ASSUME MigrationInv, ~misled, ~torn, NEW url \in Migrate!KnownURLs
               PROVE  Migrate!Servable(url)
    BY DEF NarKept, Migrate!NarKept, Alone
  <2>1. Tables(db) /\ url \in NarURLs /\ url \in {db.narinfos["h"].url, legacy} \ {Null}
    BY NarInfoURLIs DEF MigrationInv, Migrate!KnownURLs
  <2>2. CASE InChunks(db)
    BY <2>1, <2>2, ChunksFound DEF Migrate!Servable
  <2>3. CASE ~InChunks(db)
    <3>1. FileOf(url) \in files
      BY <2>1, <2>3 DEF MigrationInv
    <3> QED
      BY <3>1, MigrationURLs DEF FileOf, Migrate!Servable
  <2> QED
    BY <2>2, <2>3
<1> QED
  BY <1>1, <1>2, <1>3, PTL DEF Spec

-----------------------------------------------------------------------------
(* The starts of processes.                                                *)

\* Where a start can be; its CDC settings; a row of the config table.
StartSteps == {"off", "uuid", "newUUID", "key", "oldKey", "putKey", "migrateKey", "deleteKey",
               "cdc", "load", "validate", "store", "storeSizes", "compare", "running"}
CdcSettings == [enabled : BOOLEAN, sizes : [1..3 -> Nat]]
Config(t, k) == Start!GetConfigByKey(t, k)
Size(t, i) == Config(t, Start!SizeKeys[i])

\* What a start has read and what it has written, as long as no setting was written
\* under another start: the key it is about to write is the file's or there is none,
\* the CDC settings it is about to write are not there yet, and those it has
\* compared or written are its own.
Unraced(p) ==
    /\ pc[p] \in {"oldKey", "migrateKey"} => Config(db, "secret_key") = Null
    /\ pc[p] = "migrateKey" => secretKey[p] = oldKey
    /\ pc[p] = "putKey" =>
         secretKey[p] = FileKey \/ (Config(db, "secret_key") = Null /\ oldKey = Null)
    /\ pc[p] = "store" => Config(db, "cdc_enabled") = Null
    /\ pc[p] = "storeSizes" =>
         \A i \in 1..3 : Size(db, i) = IF i < next[p] THEN cdc[p].sizes[i] ELSE Null
    /\ pc[p] = "compare" => \A i \in 1..3 : i < next[p] => Size(db, i) = cdc[p].sizes[i]
    /\ pc[p] = "running" /\ cdc[p].enabled => \A i \in 1..3 : Size(db, i) = cdc[p].sizes[i]

\* What a start knows in any case.
Started(p) ==
    /\ pc[p] # "off" => flags[p] \in CommandLines /\ cdc[p] \in CdcSettings
    /\ pc[p] \in {"validate", "store"} => next[p] = 1
    /\ pc[p] \in {"putKey", "migrateKey"} => secretKey[p] # Null
    /\ pc[p] = "deleteKey" => Config(db, "secret_key") # Null
    /\ pc[p] = "storeSizes" => Config(db, "cdc_enabled") # Null

\* The sizes are there only after the flag.
ConfigOK(t) ==
    /\ t = [Start!NoTables EXCEPT !.config = t.config]
    /\ \A i \in 1..3 : Size(t, i) \in Nat \cup {Null}
    /\ Config(t, "cdc_enabled") = Null => \A i \in 1..3 : Size(t, i) = Null

\* The inductive invariant of the starts.
StartInv ==
    /\ ConfigOK(db)
    /\ raced \in BOOLEAN
    /\ pc \in [Processes -> StartSteps]
    /\ next \in [Processes -> 1..3]
    /\ DOMAIN flags = Processes /\ DOMAIN cdc = Processes /\ DOMAIN secretKey = Processes
    /\ \A p \in Processes : Started(p)
    /\ ~raced => \A p \in Processes : Unraced(p)

\* The names of the settings are different.
LEMMA SizeKeysDiffer ==
    /\ \A i \in 1..3 : Start!SizeKeys[i] \notin {"secret_key", "cdc_enabled", "cluster_uuid"}
    /\ \A i, j \in 1..3 : Start!SizeKeys[i] = Start!SizeKeys[j] => i = j
<1>1. /\ Start!SizeKeys[1] = "cdc_min" /\ Start!SizeKeys[2] = "cdc_avg"
      /\ Start!SizeKeys[3] = "cdc_max"
  BY DEF Start!SizeKeys
<1>2. \A i \in 1..3 : i = 1 \/ i = 2 \/ i = 3
  OBVIOUS
<1> QED
  BY <1>1, <1>2

\* A setting is what was last written.
LEMMA ConfigSet ==
    ASSUME NEW t, ConfigOK(t), NEW k, NEW v
    PROVE  LET s == Start!SetConfig(t, k, v)
           IN  /\ s = [Start!NoTables EXCEPT !.config = s.config]
               /\ \A j : Config(s, j) = IF j = k THEN v ELSE Config(t, j)
<1> DEFINE c == Start!Insert(t.config, k, v)
           s == Start!SetConfig(t, k, v)
<1>1. s = [t EXCEPT !.config = c]
  BY DEF Start!SetConfig
<1>2. s = [Start!NoTables EXCEPT !.config = c] /\ s.config = c
  BY <1>1 DEF ConfigOK, Start!NoTables
<1>3. DOMAIN c = DOMAIN t.config \cup {k}
      /\ \A j \in DOMAIN c : c[j] = IF j = k THEN v ELSE t.config[j]
  BY DEF Start!Insert
<1> HIDE DEF c, s
<1> QED
  BY <1>2, <1>3 DEF Config, Start!GetConfigByKey, s

\* A step of p that writes no setting.
LEMMA ReadStep ==
    ASSUME StartInv, NEW p \in Processes,
           UNCHANGED <<db, oldKey, raced>>,
           pc' \in [Processes -> StartSteps], next' \in [Processes -> 1..3],
           DOMAIN flags' = Processes, DOMAIN cdc' = Processes, DOMAIN secretKey' = Processes,
           \A q \in Processes \ {p} :
               /\ pc'[q] = pc[q] /\ next'[q] = next[q] /\ flags'[q] = flags[q]
               /\ cdc'[q] = cdc[q] /\ secretKey'[q] = secretKey[q],
           Started(p)', ~raced => Unraced(p)'
    PROVE  StartInv'
  BY DEF StartInv, Started, Unraced

\* A step of p that writes a setting: if that is no race the others do not start,
\* and those that run with CDC have the sizes that are there.
LEMMA WriteStep ==
    ASSUME StartInv, NEW p \in Processes, NEW k, NEW v, NEW state \in StartSteps,
           Start!setConfig(p, k, v), Start!Goto(p, state),
           next' \in [Processes -> 1..3], \A q \in Processes \ {p} : next'[q] = next[q],
           UNCHANGED <<oldKey, flags, cdc, secretKey>>,
           ConfigOK(db'),
           \A j \in {"secret_key", "cdc_enabled"} :
               Config(db, j) # Null => Config(db', j) # Null,
           \A q \in Processes \ {p} :
               ~raced /\ pc[q] = "running" /\ cdc[q].enabled =>
                   \A i \in 1..3 : Size(db', i) = Size(db, i),
           Started(p)', ~raced => Unraced(p)'
    PROVE  StartInv'
<1>1. /\ pc' = [pc EXCEPT ![p] = state] /\ pc' \in [Processes -> StartSteps]
      /\ raced' = (raced \/ \E q \in Processes \ {p} : Start!Starting(q))
  BY DEF Start!setConfig, Start!Goto, StartInv
<1>2. \A q \in Processes : Started(q)'
  BY <1>1 DEF StartInv, Started
<1>3. ASSUME ~raced', NEW q \in Processes \ {p} PROVE Unraced(q)'
  <2>1. ~raced /\ pc[q] \in {"off", "running"}
    BY <1>1, <1>3 DEF Start!Starting, StartInv
  <2> QED
    BY <1>1, <2>1 DEF StartInv, Unraced
<1> QED
  BY <1>1, <1>2, <1>3 DEF StartInv

\* Every step of a start keeps StartInv.
LEMMA StartStep ==
    ASSUME StartInv, NEW p \in Processes, Start!Step(p)
    PROVE  StartInv'
<1>a. /\ ConfigOK(db) /\ raced \in BOOLEAN /\ pc[p] \in StartSteps /\ next[p] \in 1..3
      /\ pc \in [Processes -> StartSteps] /\ next \in [Processes -> 1..3]
      /\ DOMAIN flags = Processes /\ DOMAIN cdc = Processes /\ DOMAIN secretKey = Processes
      /\ Started(p) /\ (~raced => Unraced(p))
  BY DEF StartInv
<1>b. \A k : Start!getConfig(k) = Config(db, k)
  BY DEF Start!getConfig, Config
<1>1. ASSUME NEW f \in CommandLines, Start!Start(p, f) PROVE StartInv'
  <2>1. [enabled |-> f.enabled = "true", sizes |-> f.sizes] \in CdcSettings
    BY ServicesAssumption DEF CdcSettings
  <2> QED
    BY <1>a, <1>1, <2>1, ReadStep
    DEF Start!Start, Start!Goto, StartSteps, Started, Unraced
<1>2. CASE Start!GetClusterUUID(p)
  BY <1>a, <1>2, ReadStep DEF Start!GetClusterUUID, Start!Goto, StartSteps, Started, Unraced
<1>3. CASE Start!SetClusterUUID(p)
  <2>1. /\ db' = [Start!NoTables EXCEPT !.config = db'.config]
        /\ \A j : j # "cluster_uuid" => Config(db', j) = Config(db, j)
    BY <1>a, <1>3, ConfigSet DEF Start!SetClusterUUID
  <2>2. \A i \in 1..3 : Size(db', i) = Size(db, i)
    BY <2>1, SizeKeysDiffer DEF Size
  <2>3. /\ Config(db', "secret_key") = Config(db, "secret_key")
        /\ Config(db', "cdc_enabled") = Config(db, "cdc_enabled")
    BY <2>1
  <2>4. ConfigOK(db')
    BY <1>a, <2>1, <2>2, <2>3 DEF ConfigOK
  <2> QED
    BY <1>a, <1>3, <2>2, <2>3, <2>4
    DEF StartInv, Start!SetClusterUUID, Start!Goto, StartSteps, Started, Unraced
<1>4. CASE Start!SecretKeyFromFile(p)
  BY <1>a, <1>4, ReadStep, ServicesAssumption
  DEF Start!SecretKeyFromFile, Start!Goto, StartSteps, Started, Unraced
<1>5. CASE Start!SecretKeyFromDatabase(p)
  BY <1>a, <1>b, <1>5, ReadStep
  DEF Start!SecretKeyFromDatabase, Start!Goto, StartSteps, Started, Unraced
<1>6. CASE Start!SecretKeyFromStore(p)
  BY <1>a, <1>6, ReadStep, ServicesAssumption
  DEF Start!SecretKeyFromStore, Start!Goto, StartSteps, Started, Unraced
<1>7. ASSUME NEW state \in {"cdc", "deleteKey"}, pc[p] \in {"putKey", "migrateKey"},
             Start!setConfig(p, "secret_key", secretKey[p]), Start!Goto(p, state),
             UNCHANGED <<oldKey, flags, cdc, next, secretKey>>
      PROVE  StartInv'
  <2>1. /\ db' = [Start!NoTables EXCEPT !.config = db'.config]
        /\ \A j : Config(db', j) = IF j = "secret_key" THEN secretKey[p] ELSE Config(db, j)
    BY <1>a, <1>7, ConfigSet DEF Start!setConfig
  <2>2. \A i \in 1..3 : Size(db', i) = Size(db, i)
    BY <2>1, SizeKeysDiffer DEF Size
  <2>3. /\ Config(db', "secret_key") = secretKey[p]
        /\ Config(db', "cdc_enabled") = Config(db, "cdc_enabled")
        /\ secretKey[p] # Null
    BY <1>a, <1>7, <2>1 DEF Started
  <2>4. ConfigOK(db')
    BY <1>a, <2>1, <2>2, <2>3 DEF ConfigOK
  <2>5. Started(p)' /\ Unraced(p)'
    BY <1>a, <1>7, <2>3 DEF Started, Unraced, Start!Goto
  <2> QED
    BY <1>a, <1>7, <2>2, <2>3, <2>4, <2>5, WriteStep DEF StartSteps
<1>8. CASE Start!PutSecretKey(p)
  <2>1. CASE UNCHANGED <<db, raced>>
    BY <1>a, <1>8, <2>1, ReadStep DEF Start!PutSecretKey, Start!Goto, StartSteps, Started, Unraced
  <2> QED
    BY <1>7, <1>8, <2>1 DEF Start!PutSecretKey
<1>9. CASE Start!MigrateSecretKey(p)
  BY <1>7, <1>9 DEF Start!MigrateSecretKey
<1>10. CASE Start!DeleteSecretKey(p)
  <2>1. Config(db, "secret_key") # Null
    BY <1>a, <1>10 DEF Start!DeleteSecretKey, Started
  <2> QED
    BY <1>a, <1>10, <2>1
    DEF StartInv, Start!DeleteSecretKey, Start!Goto, StartSteps, Started, Unraced
<1>11. CASE Start!LoadCDCConfig(p)
  <2>1. cdc'[p] \in CdcSettings
    <3>1. cdc[p] \in CdcSettings
      BY <1>a, <1>11 DEF Start!LoadCDCConfig, Started
    <3>2. \A b \in BOOLEAN : [cdc[p] EXCEPT !.enabled = b] \in CdcSettings
      BY <3>1 DEF CdcSettings
    <3>3. (cdc[p].enabled \/ flags[p].enabled = "unset") \in BOOLEAN
      OBVIOUS
    <3>4. cdc'[p] \in {cdc[p], [cdc[p] EXCEPT !.enabled = @ \/ flags[p].enabled = "unset"]}
      BY <1>a, <1>11 DEF Start!LoadCDCConfig
    <3> QED
      BY <3>1, <3>2, <3>3, <3>4
  <2> QED
    BY <1>a, <1>11, <2>1, ReadStep
    DEF Start!LoadCDCConfig, Start!Goto, StartSteps, Started, Unraced
<1>12. CASE Start!LoadSize(p)
  <2>1. Size(db, next[p]) \in Nat \cup {Null}
    BY <1>a DEF ConfigOK
  <2>2. cdc[p] \in CdcSettings
    BY <1>a, <1>12 DEF Start!LoadSize, Started
  <2>3. cdc'[p] \in CdcSettings
    BY <1>a, <1>b, <1>12, <2>1, <2>2 DEF Start!LoadSize, CdcSettings, Size
  <2> QED
    BY <1>a, <1>12, <2>3, ReadStep
    DEF Start!LoadSize, Start!Goto, StartSteps, Started, Unraced
<1>13. CASE Start!ValidateOrStore(p)
  <2>1. PICK state \in {"running", "off", "store", "compare"} :
            /\ Start!Goto(p, state)
            /\ state = "running" => ~cdc[p].enabled
            /\ state = "store" => Config(db, "cdc_enabled") = Null
    BY <1>b, <1>13 DEF Start!ValidateOrStore
  <2>2. next[p] = 1
    BY <1>a, <1>13 DEF Start!ValidateOrStore, Started
  <2> QED
    BY <1>a, <1>13, <2>1, <2>2, ReadStep
    DEF Start!ValidateOrStore, Start!Goto, StartSteps, Started, Unraced
<1>14. CASE Start!StoreEnabled(p)
  <2>1. /\ db' = [Start!NoTables EXCEPT !.config = db'.config]
        /\ \A j : Config(db', j) = IF j = "cdc_enabled" THEN "true" ELSE Config(db, j)
    BY <1>a, <1>14, ConfigSet DEF Start!StoreEnabled, Start!setConfig
  <2>2. \A i \in 1..3 : Size(db', i) = Size(db, i)
    BY <2>1, SizeKeysDiffer DEF Size
  <2>3. /\ Config(db', "secret_key") = Config(db, "secret_key")
        /\ Config(db', "cdc_enabled") # Null
    BY <2>1, ServicesAssumption
  <2>4. ConfigOK(db')
    BY <1>a, <2>1, <2>2, <2>3 DEF ConfigOK
  <2>5. next[p] = 1 /\ (~raced => \A i \in 1..3 : Size(db, i) = Null)
    BY <1>a, <1>14 DEF Start!StoreEnabled, Started, Unraced, ConfigOK
  <2>6. pc'[p] = "storeSizes" /\ UNCHANGED <<oldKey, flags, cdc, next, secretKey>>
    BY <1>a, <1>14 DEF Start!StoreEnabled, Start!Goto
  <2>7. Started(p)'
    BY <1>a, <1>14, <2>3, <2>6 DEF Start!StoreEnabled, Started
  <2>8. ~raced => Unraced(p)'
    BY <2>2, <2>5, <2>6 DEF Unraced
  <2> QED
    BY <1>a, <1>14, <2>2, <2>3, <2>4, <2>7, <2>8, WriteStep
    DEF StartSteps, Start!StoreEnabled
<1>15. CASE Start!StoreSize(p)
  <2> DEFINE k == Start!SizeKeys[next[p]]
             v == cdc[p].sizes[next[p]]
  <2>1. /\ Start!setConfig(p, k, v) /\ pc[p] = "storeSizes" /\ cdc[p] \in CdcSettings /\ v \in Nat
        /\ UNCHANGED <<oldKey, flags, cdc, secretKey>>
        /\ Config(db, "cdc_enabled") # Null
    BY <1>a, <1>15 DEF Start!StoreSize, Started, CdcSettings
  <2>2. /\ db' = [Start!NoTables EXCEPT !.config = db'.config]
        /\ \A j : Config(db', j) = IF j = k THEN v ELSE Config(db, j)
    BY <1>a, <2>1, ConfigSet DEF Start!setConfig
  <2>3. /\ Config(db', "secret_key") = Config(db, "secret_key")
        /\ Config(db', "cdc_enabled") = Config(db, "cdc_enabled")
    BY <1>a, <2>2, SizeKeysDiffer
  <2>4. \A i \in 1..3 : Size(db', i) = IF i = next[p] THEN v ELSE Size(db, i)
    BY <1>a, <2>2, SizeKeysDiffer DEF Size
  <2>5. ConfigOK(db')
    BY <1>a, <2>1, <2>2, <2>3, <2>4 DEF ConfigOK
  <2>6. ASSUME NEW q \in Processes \ {p}, ~raced, pc[q] = "running", cdc[q].enabled
        PROVE  FALSE
    <3>1. Size(db, next[p]) = Null
      BY <1>a, <2>1, <2>6 DEF Unraced
    <3>2. Unraced(q) /\ Started(q)
      BY <2>6 DEF StartInv
    <3>3. Size(db, next[p]) = cdc[q].sizes[next[p]] /\ cdc[q] \in CdcSettings
      BY <1>a, <2>6, <3>2 DEF Unraced, Started
    <3> QED
      BY <1>a, <3>1, <3>3, ServicesAssumption DEF CdcSettings
  <2>7. CASE next[p] = 3
    <3>1. next' = [next EXCEPT ![p] = 1] /\ Start!Goto(p, "running")
      BY <1>15, <2>7 DEF Start!StoreSize
    <3>2. pc'[p] = "running" /\ cdc'[p] = cdc[p]
      BY <1>a, <2>1, <3>1 DEF Start!Goto
    <3>3. Started(p)'
      BY <1>a, <2>1, <3>2 DEF Started
    <3>4. ~raced => \A i \in 1..3 : Size(db', i) = cdc[p].sizes[i]
      BY <1>a, <2>1, <2>4, <2>7 DEF Unraced
    <3>5. ~raced => Unraced(p)'
      BY <3>2, <3>4 DEF Unraced
    <3> HIDE DEF k, v
    <3> QED
      BY <1>a, <2>1, <2>3, <2>5, <2>6, <3>1, <3>3, <3>5, WriteStep DEF StartSteps
  <2>8. CASE next[p] # 3
    <3>1. next' = [next EXCEPT ![p] = next[p] + 1] /\ Start!Goto(p, "storeSizes")
      BY <1>a, <1>15, <2>8 DEF Start!StoreSize
    <3>2. pc'[p] = "storeSizes" /\ cdc'[p] = cdc[p] /\ next'[p] = next[p] + 1
      BY <1>a, <2>1, <3>1 DEF Start!Goto
    <3>3. Started(p)'
      BY <1>a, <2>1, <2>3, <3>2 DEF Started
    <3>4. ~raced => \A i \in 1..3 : Size(db', i) = IF i < next'[p] THEN cdc[p].sizes[i] ELSE Null
      BY <1>a, <2>1, <2>4, <3>2 DEF Unraced
    <3>5. ~raced => Unraced(p)'
      BY <3>2, <3>4 DEF Unraced
    <3> HIDE DEF k, v
    <3>6. next' \in [Processes -> 1..3]
      BY <1>a, <2>8, <3>1
    <3> QED
      BY <1>a, <2>1, <2>3, <2>5, <2>6, <3>1, <3>3, <3>5, <3>6, WriteStep DEF StartSteps
  <2> QED
    BY <2>7, <2>8
<1>16. CASE Start!CompareSize(p)
  <2>1. pc[p] = "compare" /\ UNCHANGED <<db, oldKey, flags, cdc, secretKey, raced>>
    BY <1>16 DEF Start!CompareSize
  <2>2. /\ next' \in [Processes -> 1..3]
        /\ next'[p] = IF next[p] = 3 THEN 1 ELSE next[p] + 1
        /\ \A q \in Processes \ {p} : next'[q] = next[q]
    BY <1>a, <1>16 DEF Start!CompareSize
  <2>3. PICK state \in {"off", "running", "compare"} :
            /\ Start!Goto(p, state)
            /\ state # "off" => Size(db, next[p]) = cdc[p].sizes[next[p]]
            /\ state = "running" => next[p] = 3
            /\ state = "compare" => next[p] # 3
    BY <1>b, <1>16 DEF Start!CompareSize, Size
  <2>4. pc' \in [Processes -> StartSteps] /\ pc'[p] = state
        /\ \A q \in Processes \ {p} : pc'[q] = pc[q]
    BY <1>a, <2>3 DEF Start!Goto, StartSteps
  <2>5. Started(p)'
    BY <1>a, <2>1, <2>3, <2>4 DEF Started
  <2>6. ~raced => Unraced(p)'
    <3>1. ~raced /\ state # "off" => \A i \in 1..3 : i <= next[p] => Size(db, i) = cdc[p].sizes[i]
      BY <1>a, <2>1, <2>3 DEF Unraced
    <3> QED
      BY <1>a, <2>1, <2>2, <2>3, <2>4, <3>1 DEF Unraced
  <2> QED
    BY <1>a, <2>1, <2>2, <2>4, <2>5, <2>6, ReadStep
<1>17. CASE Start!Stop(p)
  BY <1>a, <1>17, ReadStep DEF Start!Stop, Start!Goto, StartSteps, Started, Unraced
<1> QED
  BY <1>1, <1>2, <1>3, <1>4, <1>5, <1>6, <1>8, <1>9, <1>10, <1>11, <1>12, <1>13, <1>14,
     <1>15, <1>16, <1>17 DEF Start!Step

\* A step that is no race leaves the signing key, or writes the file's.
LEMMA KeySettled ==
    ASSUME StartInv, NEW p \in Processes, Start!Step(p), ~raced', Start!TrustedKey # Null
    PROVE  Start!TrustedKey' \in {Start!TrustedKey, FileKey}
<1> DEFINE Trusted(t, old) == IF Config(t, "secret_key") # Null THEN Config(t, "secret_key") ELSE old
<1>a. /\ Start!TrustedKey = Trusted(db, oldKey) /\ Start!TrustedKey' = Trusted(db', oldKey')
  BY DEF Start!TrustedKey, Start!getConfig, Config
<1>b. ConfigOK(db) /\ raced \in BOOLEAN /\ Started(p) /\ (~raced => Unraced(p))
  BY DEF StartInv
<1>1. ASSUME NEW k, NEW v, k # "secret_key", db' = Start!SetConfig(db, k, v), UNCHANGED oldKey
      PROVE  Start!TrustedKey' = Start!TrustedKey
  BY <1>1, <1>a, <1>b, ConfigSet
<1>2. CASE UNCHANGED <<db, oldKey>>
  BY <1>2, <1>a
<1>3. ASSUME Start!setConfig(p, "secret_key", secretKey[p]), UNCHANGED oldKey,
             pc[p] \in {"putKey", "migrateKey"}
      PROVE  Start!TrustedKey' \in {Start!TrustedKey, FileKey}
  <2>1. Config(db', "secret_key") = secretKey[p]
    BY <1>3, <1>b, ConfigSet DEF Start!setConfig
  <2>2. ~raced /\ secretKey[p] # Null
    BY <1>3, <1>b DEF Start!setConfig, Started
  <2>3. secretKey[p] \in {Start!TrustedKey, FileKey}
    BY <1>3, <1>a, <1>b, <2>2 DEF Unraced
  <2> QED
    BY <1>a, <2>1, <2>2, <2>3
<1>4. CASE Start!SetClusterUUID(p)
  BY <1>1, <1>4 DEF Start!SetClusterUUID
<1>5. CASE Start!PutSecretKey(p)
  BY <1>2, <1>3, <1>5 DEF Start!PutSecretKey
<1>6. CASE Start!MigrateSecretKey(p)
  BY <1>3, <1>6 DEF Start!MigrateSecretKey
<1>7. CASE Start!DeleteSecretKey(p)
  BY <1>7, <1>a, <1>b DEF Start!DeleteSecretKey, Started
<1>8. CASE Start!StoreEnabled(p)
  BY <1>1, <1>8 DEF Start!StoreEnabled, Start!setConfig
<1>9. CASE Start!StoreSize(p)
  <2>1. Start!SizeKeys[next[p]] # "secret_key"
    BY SizeKeysDiffer DEF StartInv
  <2> QED
    BY <1>1, <1>9, <2>1 DEF Start!StoreSize, Start!setConfig
<1>10. CASE \/ \E f \in CommandLines : Start!Start(p, f)
            \/ Start!GetClusterUUID(p) \/ Start!SecretKeyFromFile(p)
            \/ Start!SecretKeyFromDatabase(p) \/ Start!SecretKeyFromStore(p)
            \/ Start!LoadCDCConfig(p) \/ Start!LoadSize(p) \/ Start!ValidateOrStore(p)
            \/ Start!CompareSize(p) \/ Start!Stop(p)
  BY <1>2, <1>10
  DEF Start!Start, Start!GetClusterUUID, Start!SecretKeyFromFile, Start!SecretKeyFromDatabase,
      Start!SecretKeyFromStore, Start!LoadCDCConfig, Start!LoadSize, Start!ValidateOrStore,
      Start!CompareSize, Start!Stop
<1> QED
  BY <1>4, <1>5, <1>6, <1>7, <1>8, <1>9, <1>10 DEF Start!Step

\* Processes that run with CDC have the sizes that are stored.
LEMMA SizesSettled ==
    ASSUME StartInv, ~raced, NEW p \in Processes, pc[p] = "running", cdc[p].enabled
    PROVE  cdc[p].sizes = Start!StoredSizes
<1>1. Unraced(p) /\ Started(p)
  BY DEF StartInv
<1>2. cdc[p].sizes \in [1..3 -> Nat] /\ \A i \in 1..3 : Size(db, i) = cdc[p].sizes[i]
  BY <1>1 DEF Started, Unraced, CdcSettings
<1>3. \A i \in 1..3 : Start!getConfig(Start!SizeKeys[i]) = Size(db, i)
  BY DEF Start!getConfig, Size, Config
<1> QED
  BY <1>2, <1>3 DEF Start!StoredSizes

\* Of every process, once no start has raced.
SizesAgree ==
    ~raced => \A p \in Processes :
        pc[p] = "running" /\ cdc[p].enabled => cdc[p].sizes = Start!StoredSizes

\* SettledOnce: unless a setting is written while another process starts, the
\* signing key is replaced by the file's only and processes agree on the CDC sizes,
\* wherever starts die.
THEOREM SettingsSettled == Spec => SettledOnce
<1>1. Init => (part = "startup" => StartInv)
  <2> SUFFICES ASSUME Start!Init PROVE StartInv
    BY DEF Init
  <2>1. \A k : Config(db, k) = Null
    BY DEF Start!Init, Start!NoTables, Config, Start!GetConfigByKey
  <2>2. db = [Start!NoTables EXCEPT !.config = db.config]
    BY DEF Start!Init, Start!NoTables
  <2>3. ConfigOK(db)
    BY <2>1, <2>2 DEF ConfigOK, Size
  <2>4. /\ pc = [p \in Processes |-> "off"] /\ next = [p \in Processes |-> 1]
        /\ raced = FALSE
        /\ DOMAIN flags = Processes /\ DOMAIN cdc = Processes /\ DOMAIN secretKey = Processes
    BY DEF Start!Init
  <2>5. \A p \in Processes : Started(p) /\ Unraced(p)
    BY <2>4 DEF Started, Unraced
  <2>6. pc \in [Processes -> StartSteps] /\ next \in [Processes -> 1..3]
    BY <2>4 DEF StartSteps
  <2> QED
    BY <2>3, <2>4, <2>5, <2>6 DEF StartInv
<1>2. [Next]_vars /\ part = "startup" => part' = "startup" /\ (Start!Next \/ UNCHANGED Start!vars)
  BY DEF Next, vars, shared, startupVars, Start!vars
<1>3. (part = "startup" => StartInv) /\ [Next]_vars => (part = "startup" => StartInv)'
  <2> SUFFICES ASSUME StartInv, part = "startup", [Next]_vars PROVE StartInv'
    BY DEF Next, vars
  <2>1. CASE UNCHANGED Start!vars
    BY <2>1 DEF Start!vars, StartInv, Started, Unraced
  <2> QED
    BY <2>1, <1>2, StartStep DEF Start!Next
<1>4. (part = "startup" => StartInv) => (part = "startup" => SizesAgree)
  BY SizesSettled DEF SizesAgree
<1>5. /\ part = "startup" => StartInv
      /\ (part = "startup" => SizesAgree)'
      /\ [Next]_vars
      => [part = "startup" => Start!Settled]_vars
  <2> SUFFICES ASSUME StartInv, SizesAgree', part = "startup", Next, ~raced'
               PROVE  Start!Settled
    BY <1>2 DEF Start!Settled
  <2>1. \A p \in Processes : pc'[p] = "running" /\ cdc'[p].enabled => cdc'[p].sizes = Start!StoredSizes'
    BY DEF SizesAgree
  <2>2. CASE UNCHANGED Start!vars
    BY <2>1, <2>2 DEF Start!vars, Start!Settled, Start!TrustedKey, Start!getConfig
  <2>3. CASE Start!Next
    BY <2>1, <2>3, KeySettled DEF Start!Next, Start!Settled
  <2> QED
    BY <1>2, <2>2, <2>3
<1> QED
  BY <1>1, <1>3, <1>4, <1>5, PTL DEF Spec, SettledOnce

=============================================================================
