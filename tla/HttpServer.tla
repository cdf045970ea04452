----------------------------- MODULE HttpServer -----------------------------
(***************************************************************************)
(* The HTTP server (server.go): what a response to a request for a NAR     *)
(* says of its body, and what the body is.  The cache is kept to one NAR   *)
(* and to the forms in which it can hold it: whole files, the chunks of    *)
(* CDC, or a download in progress.  A NAR of given content has a different *)
(* number of bytes in every format (Bytes).  Chunking is eager.            *)
(***************************************************************************)
EXTENDS Naturals

CONSTANTS Clients, Null

VARIABLES
    cdc,        \* CDC is enabled (a restart may enable it)
    remote,     \* the compression in which the upstreams have the NAR
    stored,     \* the extensions of the whole files in the store
    rows,       \* compression -> the file_size of its nar_file, or Null
    chunking,   \* of the row (hash, none): "no", "going" or "done"
    info,       \* the compression in the narinfo's URL, or Null
    pull,       \* the compression of a download's temporary file, or Null
    pc,         \* client -> "idle", "size", "get", "stream" or "replied"
    request,    \* client -> its request
    reply       \* client -> the response to it

vars == <<cdc, remote, stored, rows, chunking, info, pull, pc, request, reply>>
cache == <<cdc, remote, stored, rows, chunking, info, pull>>

Formats == {"none", "zstd", "xz"}
Bytes == [none |-> 3, zstd |-> 2, xz |-> 1]

-----------------------------------------------------------------------------
\* A server that has just been started without CDC, and an empty cache.
Init ==
    /\ cdc = FALSE
    /\ remote \in {"none", "xz"}
    /\ stored = {}
    /\ rows = [c \in {"none", "xz"} |-> Null]
    /\ chunking = "no"
    /\ info = Null
    /\ pull = Null
    /\ pc = [c \in Clients |-> "idle"]
    /\ request = [c \in Clients |-> Null]
    /\ reply = [c \in Clients |-> Null]

\* The row for a URL of this compression, by the order in which they are tried.
getNarFileFromDB(comp) ==
    LET first == IF cdc THEN "none" ELSE comp
        second == IF cdc THEN comp ELSE "none"
    IN  IF rows[first] # Null THEN rows[first] ELSE rows[second]

\* The file of an uncompressed NAR may be a .nar.zst.
HasNarInStore(comp) == comp \in stored \/ (comp = "none" /\ "zstd" \in stored)

-----------------------------------------------------------------------------
(* What GetNar answers: the compression and the TransparentZstd of the URL *)
(* it returns, the size, and the format of the bytes that can be read.     *)

Answer(comp, transparent, size, format, streamed) ==
    [comp |-> comp, transparent |-> transparent, size |-> size, format |-> format,
     streamed |-> streamed]

\* The row found gives the URL its compression.  (A file without a row, which this
\* function gives one, comes of a crash and is not met here.)
getNarFromStore(r) ==
    LET zst == r.comp = "none" /\ "zstd" \in stored
        decompress == zst /\ ~r.transparent
        url == IF rows["none"] # Null /\ (cdc \/ rows[r.comp] = Null)
               THEN "none" ELSE r.comp
    IN  Answer(url, zst /\ r.transparent,
               IF decompress THEN 0 ELSE Bytes[IF zst THEN "zstd" ELSE r.comp],
               IF zst /\ ~decompress THEN "zstd" ELSE r.comp, FALSE)

\* Chunks hold the uncompressed NAR, and are put out as such.
getNarFromChunks(r) == Answer("none", FALSE, getNarFileFromDB(r.comp), "none", FALSE)

\* The temporary file of the download, whatever its compression.
StreamFromTempFile(r) == Answer(pull, r.transparent, 0, pull, TRUE)

serveNarFromStorageViaPipe(r) ==
    IF ~HasNarInStore(r.comp) \/ (cdc /\ chunking = "done")
    THEN getNarFromChunks(r)
    ELSE getNarFromStore(r)

-----------------------------------------------------------------------------
(* What getNar makes of it.                                                *)

\* The encoding to use of those a client accepts.
parseAcceptEncoding(accept) ==
    CASE "zstd" \in accept -> "zstd"
      [] "zstd" \notin accept /\ "br" \in accept -> "br"
      [] "zstd" \notin accept /\ "br" \notin accept /\ "gzip" \in accept -> "gzip"
      [] OTHER -> Null

selectedEncoding(r, a) ==
    IF a.comp # "none" \/ r.head THEN Null
    ELSE IF a.transparent THEN "zstd" ELSE parseAcceptEncoding(r.accept)

\* Content-Length: none for an encoded body; HEAD counts what it does not know.
contentLength(r, a, encoding) ==
    IF encoding # Null THEN Null
    ELSE IF a.size > 0 THEN a.size
    ELSE IF r.head THEN Bytes[a.format] ELSE Null

\* The body: the bytes read, compressed again unless they are the zstd stream
\* that was asked for.
Respond(r, a) ==
    LET encoding == selectedEncoding(r, a)
    IN  [encoding |-> encoding, length |-> contentLength(r, a, encoding),
         body |-> IF r.head THEN Null ELSE a.format,
         recoded |-> encoding # Null /\ ~a.transparent,
         streamed |-> a.streamed]

Reply(c, response) ==
    /\ pc' = [pc EXCEPT ![c] = "replied"]
    /\ reply' = [reply EXCEPT ![c] = response]
    /\ UNCHANGED request

\* An error: http.Error, or nothing when the client has gone.
Fail(c) == Reply(c, Null)

\* withNarURL, and what getNar reads from the headers.  Requests under /upload are
\* not forwarded to the upstreams.
getNar(c) ==
    /\ pc[c] = "idle"
    /\ \E comp \in {"none", "xz"}, head, upload \in BOOLEAN,
          accept \in {{}, {"zstd"}, {"br", "gzip"}} :
        /\ request' = [request EXCEPT ![c] =
             [comp |-> comp, head |-> head, upload |-> upload, accept |-> accept,
              transparent |-> comp = "none" /\ "zstd" \in accept /\ ~head]]
        /\ pc' = [pc EXCEPT ![c] = IF head THEN "size" ELSE "get"]
    /\ UNCHANGED <<reply, cache>>

\* A HEAD request is answered from the row when there is one with a size.
GetNarFileSize(c) ==
    /\ pc[c] = "size"
    /\ LET size == getNarFileFromDB(request[c].comp)
       IN  IF size \notin {Null, 0}
           THEN Reply(c, [encoding |-> Null, length |-> size, body |-> Null,
                          recoded |-> FALSE, streamed |-> FALSE])
           ELSE pc' = [pc EXCEPT ![c] = "get"] /\ UNCHANGED <<request, reply>>
    /\ UNCHANGED cache

\* The NAR is here: whole, in chunks, or being chunked.  The server that downloads
\* it streams its temporary file rather than the chunks as they come.
GetNarHit(c) ==
    LET r == request[c]
    IN  /\ pc[c] = "get"
        /\ \/ HasNarInStore(r.comp)
           \/ cdc /\ chunking \in {"done", "going"}
        /\ Reply(c, Respond(r, serveNarFromStorageViaPipe(r)))
        /\ UNCHANGED cache

\* The URL to download: that of the upstream's narinfo when CDC knows the narinfo.
downloadURL(comp) == IF cdc /\ comp = "none" /\ info = "none" THEN remote ELSE comp

\* CDC decompresses what it downloads when it has the narinfo.
tempFileCompression(download, withNarInfo) ==
    IF cdc /\ withNarInfo THEN "none" ELSE download

\* The NAR is not here: join the download, or begin it if an upstream has the URL.
\* A URL that lookupOriginalNarURL finds in the database has no TransparentZstd.
GetNarMiss(c) ==
    LET r == request[c]
    IN  /\ pc[c] = "get"
        /\ ~HasNarInStore(r.comp)
        /\ chunking = "no" \/ (chunking = "going" /\ pull # Null)
        /\ \/ (r.upload \/ (pull = Null /\ downloadURL(r.comp) # remote))
              /\ Fail(c) /\ UNCHANGED cache
           \/ /\ ~r.upload
              /\ pull # Null \/ downloadURL(r.comp) = remote
              /\ pull' = IF pull # Null THEN pull
                         ELSE tempFileCompression(downloadURL(r.comp),
                                                  r.comp = "none" /\ info = "none")
              /\ request' = [request EXCEPT ![c].transparent = @ /\ info # r.comp]
              /\ pc' = [pc EXCEPT ![c] = "stream"]
              /\ UNCHANGED <<reply, cdc, remote, stored, rows, chunking, info>>

\* The download has started, or is over and has left something in the storage.
GetNarStream(c) ==
    LET r == request[c]
    IN  /\ pc[c] = "stream"
        /\ CASE HasNarInStore(r.comp) \/ (pull = Null /\ chunking # "no") ->
                    Reply(c, Respond(r, serveNarFromStorageViaPipe(r)))
             [] ~HasNarInStore(r.comp) /\ pull # Null ->
                    Reply(c, Respond(r, StreamFromTempFile(r)))
             [] OTHER -> Fail(c)
        /\ UNCHANGED cache

\* The client has read the response.
Done(c) ==
    /\ pc[c] = "replied"
    /\ pc' = [pc EXCEPT ![c] = "idle"]
    /\ request' = [request EXCEPT ![c] = Null]
    /\ reply' = [reply EXCEPT ![c] = Null]
    /\ UNCHANGED cache

clients == <<pc, request, reply>>

-----------------------------------------------------------------------------
(* The handlers that write, when they are permitted: otherwise, and when   *)
(* there is nothing to delete, they change nothing.                        *)

BeginKeepsSize(size) ==
    /\ chunking' = "going"
    /\ rows' = [rows EXCEPT !["none"] = IF @ = Null THEN size ELSE @]

\* The chunker takes the row: it does not know the size of an upload.
Begin(size) == chunking' = "going" /\ rows' = [rows EXCEPT !["none"] = size]

putNar(comp) ==
    /\ IF cdc
       THEN chunking = "no" /\ Begin(0) /\ UNCHANGED stored
       ELSE /\ stored' = stored \union {comp}
            /\ rows' = [rows EXCEPT ![comp] = Bytes[comp]]
            /\ UNCHANGED chunking
    /\ UNCHANGED <<cdc, remote, info, pull, clients>>

\* The file of this very URL is removed; its row stays.
deleteNar(comp) ==
    /\ comp \in stored
    /\ stored' = stored \ {comp}
    /\ UNCHANGED <<cdc, remote, rows, chunking, info, pull, clients>>

\* The narinfo and, when there is none, the row of the NAR it is about.  The URL of
\* a narinfo is made that of an uncompressed NAR under CDC.
putNarInfo ==
    LET comp == IF cdc THEN "none" ELSE remote
    IN  /\ info' = comp
        /\ rows' = [rows EXCEPT ![comp] =
                      IF @ = Null THEN IF comp = "none" THEN 0 ELSE Bytes[comp] ELSE @]
        /\ UNCHANGED <<cdc, remote, stored, chunking, pull, clients>>

\* A narinfo that is not here is fetched, and with it, at once, its NAR; the narinfo
\* is then stored as an uploaded one is (putNarInfo).
getNarInfo ==
    /\ info = Null /\ pull = Null
    /\ ~HasNarInStore(remote) /\ chunking = "no"
    /\ pull' = tempFileCompression(remote, TRUE)
    /\ UNCHANGED <<cdc, remote, stored, rows, chunking, info, clients>>

deleteNarInfo ==
    /\ info # Null
    /\ info' = Null
    /\ UNCHANGED <<cdc, remote, stored, rows, chunking, pull, clients>>

-----------------------------------------------------------------------------
(* The download and the chunker.                                           *)

\* Without CDC: uncompressed NARs are stored as .nar.zst, under a URL that says none.
PullStored ==
    /\ pull # Null /\ ~cdc
    /\ LET ext == IF pull = "none" THEN "zstd" ELSE pull
       IN  /\ stored' = stored \union {ext}
           /\ rows' = [rows EXCEPT ![pull] = Bytes[ext]]
    /\ pull' = Null
    /\ UNCHANGED <<cdc, remote, chunking, info, clients>>

\* With CDC: the size is that of the narinfo, for a NAR decompressed on arrival.
PullBegins ==
    /\ pull # Null /\ cdc /\ chunking = "no"
    /\ Begin(IF pull = "none" /\ remote = "xz" THEN Bytes["none"] ELSE 0)
    /\ UNCHANGED <<cdc, remote, stored, info, pull, clients>>

\* The download or the chunker fails.
PullFails ==
    /\ pull # Null \/ chunking = "going"
    /\ pull' = Null
    /\ chunking' = IF chunking = "going" THEN "no" ELSE chunking
    /\ UNCHANGED <<cdc, remote, stored, rows, info, clients>>

ChunkingDone ==
    /\ chunking = "going"
    /\ chunking' = "done"
    /\ rows' = [rows EXCEPT !["none"] = Bytes["none"]]
    /\ pull' = Null
    /\ UNCHANGED <<cdc, remote, stored, info, clients>>

\* The server is started again, with CDC.
EnableCDC ==
    /\ ~cdc /\ pull = Null
    /\ \A c \in Clients : pc[c] = "idle"
    /\ cdc' = TRUE
    /\ UNCHANGED <<remote, stored, rows, chunking, info, pull, clients>>

Handler(c) ==
    \/ getNar(c) \/ GetNarFileSize(c) \/ GetNarHit(c) \/ GetNarMiss(c)
    \/ GetNarStream(c) \/ Done(c)

Next ==
    \/ \E c \in Clients : Handler(c)
    \/ \E comp \in {"none", "xz"} : putNar(comp) \/ deleteNar(comp)
    \/ getNarInfo \/ putNarInfo \/ deleteNarInfo
    \/ PullStored \/ PullBegins \/ PullFails \/ ChunkingDone \/ EnableCDC

Spec == Init /\ [][Next]_vars

-----------------------------------------------------------------------------
\* The response to a GET that is served from the storage describes its body: the
\* Content-Length is the number of bytes sent, a Content-Encoding is one that was
\* applied, and under an URL that names no compression what the client decodes is
\* the NAR.  getNar, getNarFromStore, getNarFromChunks and the chunker that resets
\* the size of a row it takes over decide this between them.
HeadersDescribeBody ==
    \A c \in Clients :
        LET r == request[c]
            p == reply[c]
        IN  p # Null /\ ~r.head /\ ~p.streamed =>
              /\ p.length # Null => p.length = Bytes[p.body] /\ ~p.recoded
              /\ p.encoding # Null /\ ~p.recoded => p.body = p.encoding
              /\ r.comp = "none" => p.body = "none" \/ (p.encoding = "zstd" /\ ~p.recoded)

=============================================================================
