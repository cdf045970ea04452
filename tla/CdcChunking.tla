---------------------------- MODULE CdcChunking ----------------------------
(***************************************************************************)
(* Content-defined chunking of NARs: storeNarWithCDCFromReader and its     *)
(* helpers, the chunk phase of runLRU and getNarFromChunks, all of         *)
(* pkg/cache/cache.go, over the nar_files, nar_file_chunks and chunks      *)
(* tables and the chunk store.                                             *)
(*                                                                         *)
(* A chunk is its hash, a positive number; -c is what a stream cut inside  *)
(* chunk c leaves of it.  Two NARs may share chunks.  A transaction is one *)
(* step.  Ids are never reused (AUTOINCREMENT), so a row is named by its   *)
(* key and the number of rows the key has had before it.                   *)
(***************************************************************************)
EXTENDS Integers, Sequences, FiniteSets

CONSTANTS
    Nars,       \* NARs
    Content,    \* Content[n]: the chunks the chunker cuts n into
    Chunked,    \* NARs that are chunked at the start
    Attempts,   \* calls of storeNarWithCDCFromReader
    NarOf,      \* the NAR each attempt chunks
    Sized,      \* attempts that were told the NarSize (fileSize > 0)
    Readers,    \* calls of getNarFromChunks
    NarRead,    \* the NAR each reader asks for
    MaxBatch,   \* cdcMaxBatchSize
    MaxGC,      \* bound on the runs of runLRU
    Faults      \* what may go wrong

ASSUME CdcChunkingAssumption ==
    /\ Content \in [Nars -> Seq(Nat \ {0})]
    /\ \A n \in Nars : Content[n] # << >>
    /\ Chunked \subseteq Nars
    /\ NarOf \in [Attempts -> Nars]
    /\ Sized \subseteq Attempts
    /\ NarRead \in [Readers -> Nars]
    /\ MaxBatch \in Nat \ {0}
    /\ MaxGC \in Nat

VARIABLES
    \* nar_files: "plain" is total_chunks 0 and chunking_started_at NULL, "fresh"
    \* and "stale" is 0 and younger or older than cdcChunkingLockTTL, "done" is > 0
    row, narId, total,
    links,              \* links[n]: nar_file_chunks of n, from index to chunk
    rows, made,         \* chunks: the hashes present; the rows each hash has had
    files,              \* the chunk store
    \* storeNarWithCDCFromReader
    at, aid, stream, next, flushed, doomed, victim,
    \* runLRU, and the files without a row that a failing or interrupted deletion,
    \* its own or an attempt's, has left in the chunk store
    gcLeft, gcFiles, lost,
    \* getNarFromChunks
    rpc, rid, rtotal, batch, got

narVars     == <<row, narId, total>>
chunkVars   == <<rows, made>>
attemptVars == <<at, aid, stream, next, flushed, doomed, victim>>
gcVars      == <<gcLeft, gcFiles, lost>>
readerVars  == <<rpc, rid, rtotal, batch, got>>
vars == <<narVars, links, chunkVars, files, attemptVars, gcVars, readerVars>>

Image(f) == {f[x] : x \in DOMAIN f}

Whole  == UNION {Image(Content[n]) : n \in Nars}
Chunks == Whole \cup {-c : c \in Whole}
Empty  == [i \in {} |-> 0]

\* Where the attempts may record a chunk; a hash gets a new row only there.
Places  == UNION {{a} \X (1..Len(Content[NarOf[a]])) : a \in Attempts}
MaxMade == 1 + Cardinality(Places)

Active == {"orphans", "delete", "unlink", "chunk", "mark"}

TypeOK ==
    /\ row \in [Nars -> {"absent", "plain", "fresh", "stale", "done"}]
    /\ narId \in [Nars -> 0..MaxGC]
    /\ total \in [Nars -> Nat]
    /\ \A n \in Nars : /\ total[n] <= Len(Content[n])
                       /\ DOMAIN links[n] \subseteq 1..Len(Content[n])
                       /\ Image(links[n]) \subseteq rows
    /\ rows \subseteq Chunks
    /\ made \in [Chunks -> 0..MaxMade]
    /\ files \subseteq Chunks
    /\ at \in [Attempts -> Active \cup {"idle", "done", "skipped", "failed", "dead"}]
    /\ aid \in [Attempts -> 0..MaxGC]
    /\ \A a \in Attempts : /\ 0 <= flushed[a] /\ flushed[a] <= next[a]
                           /\ next[a] <= Len(stream[a].data)
                           /\ Len(stream[a].data) <= Len(Content[NarOf[a]])
    /\ \A a \in Attempts : doomed[a] \subseteq Chunks \X (0..MaxMade)
    /\ victim \in [Attempts -> Chunks \cup {0}]
    /\ gcLeft \in 0..MaxGC
    /\ gcFiles \subseteq Chunks
    /\ lost \subseteq Chunks
    /\ rpc \in [Readers -> {"idle", "complete", "query", "fetch", "check", "ok", "error"}]
    /\ rid \in [Readers -> 0..MaxGC]
    /\ rtotal \in [Readers -> Nat]
    /\ \A r \in Readers : /\ rtotal[r] <= Len(Content[NarRead[r]])
                          /\ Image(batch[r]) \subseteq Chunks
                          /\ Image(got[r]) \subseteq Chunks

Init ==
    /\ row = [n \in Nars |-> IF n \in Chunked THEN "done" ELSE "absent"]
    /\ narId = [n \in Nars |-> 0]
    /\ total = [n \in Nars |-> IF n \in Chunked THEN Len(Content[n]) ELSE 0]
    /\ links = [n \in Nars |-> IF n \in Chunked THEN Content[n] ELSE Empty]
    /\ rows = UNION {Image(Content[n]) : n \in Chunked}
    /\ made = [c \in Chunks |-> IF c \in rows THEN 1 ELSE 0]
    /\ files = rows
    /\ at = [a \in Attempts |-> "idle"]
    /\ aid = [a \in Attempts |-> 0]
    /\ stream = [a \in Attempts |-> [data |-> << >>, end |-> "eof"]]
    /\ next = [a \in Attempts |-> 0]
    /\ flushed = [a \in Attempts |-> 0]
    /\ doomed = [a \in Attempts |-> {}]
    /\ victim = [a \in Attempts |-> 0]
    /\ gcLeft = MaxGC
    /\ gcFiles = {}
    /\ lost = {}
    /\ rpc = [r \in Readers |-> "idle"]
    /\ rid = [r \in Readers |-> 0]
    /\ rtotal = [r \in Readers |-> 0]
    /\ batch = [r \in Readers |-> << >>]
    /\ got = [r \in Readers |-> << >>]

-----------------------------------------------------------------------------
(* The database.                                                           *)

\* The id of the row of chunk c.
ChunkId(c) == <<c, made[c]>>

\* GetOrphanedChunks, over the links l.
Orphans(l) == {c \in rows : \A n \in Nars : c \notin Image(l[n])}

\* The links of l without those to the chunks of C (ON DELETE CASCADE).
Unlinked(l, C) ==
    [n \in Nars |-> [i \in {j \in DOMAIN l[n] : l[n][j] \notin C} |-> l[n][i]]]

\* GetChunksByNarFileIDFromIndex: the linked chunks past an index, in order.
LinkedFrom(n, index) ==
    LET S == {i \in DOMAIN links[n] : i > index}
        Nth(k) == CHOOSE i \in S : Cardinality({j \in S : j < i}) = k - 1
    IN [k \in 1..Cardinality(S) |-> links[n][Nth(k)]]

\* The nar_files row whose id attempt a remembers is still there.
HasRow(a) == row[NarOf[a]] # "absent" /\ narId[NarOf[a]] = aid[a]

-----------------------------------------------------------------------------
(* storeNarWithCDCFromReader.                                              *)

Cut(n, k) == SubSeq(Content[n], 1, k)

\* What may come out of the reader: the NAR; a clean end too early, at the end
\* of a chunk or inside one; an error.
Streams(n) ==
    {[data |-> Content[n], end |-> "eof"]}
    \cup (IF "truncate" \in Faults
          THEN UNION {{[data |-> Cut(n, k - 1), end |-> "eof"],
                       [data |-> Append(Cut(n, k - 1), -Content[n][k]), end |-> "eof"]}
                      : k \in 1..Len(Content[n])}
          ELSE {})
    \cup (IF "readError" \in Faults
          THEN {[data |-> Cut(n, k), end |-> "error"] : k \in 0..Len(Content[n])}
          ELSE {})

\* Mutant of Begin: a fresh lock is taken over like a stale one.
BeginTakesOver(a) ==
    LET n == NarOf[a]
    IN /\ at[a] = "idle"
       /\ row[n] # "done"
       /\ aid' = [aid EXCEPT ![a] = narId[n]]
       /\ row' = [row EXCEPT ![n] = "fresh"]
       /\ \E s \in Streams(n) : stream' = [stream EXCEPT ![a] = s]
       /\ doomed' = [doomed EXCEPT ![a] = {ChunkId(c) : c \in Image(links[n])}]
       /\ links' = [links EXCEPT ![n] = Empty]
       /\ at' = [at EXCEPT ![a] = IF doomed'[a] = {} THEN "chunk" ELSE "orphans"]
       /\ UNCHANGED <<narId, total>>
    /\ UNCHANGED <<chunkVars, files, next, flushed, victim, gcVars, readerVars>>

\* findOrCreateNarFileForCDC: a NAR that is chunked or freshly locked is left
\* alone; a stale lock is taken over and the links of its attempt deleted.
Begin(a) ==
    LET n == NarOf[a]
    IN /\ at[a] = "idle"
       /\ IF row[n] \in {"done", "fresh"}
          THEN /\ at' = [at EXCEPT ![a] = "skipped"]
               /\ UNCHANGED <<narVars, links, aid, stream, doomed>>
          ELSE /\ aid' = [aid EXCEPT ![a] = narId[n]]
               /\ row' = [row EXCEPT ![n] = "fresh"]
               /\ \E s \in Streams(n) : stream' = [stream EXCEPT ![a] = s]
               /\ IF row[n] = "stale"
                  THEN /\ doomed' = [doomed EXCEPT ![a] = {ChunkId(c) : c \in Image(links[n])}]
                       /\ links' = [links EXCEPT ![n] = Empty]
                  ELSE UNCHANGED <<doomed, links>>
               /\ at' = [at EXCEPT ![a] = IF doomed'[a] = {} THEN "chunk" ELSE "orphans"]
               /\ UNCHANGED <<narId, total>>
    /\ UNCHANGED <<chunkVars, files, next, flushed, victim, gcVars, readerVars>>

\* cleanupStaleLockChunks: which chunks of the stale attempt are orphans now.
\* A failing query leaves them to runLRU.
FindOrphans(a) ==
    /\ at[a] = "orphans"
    /\ \/ doomed' = [doomed EXCEPT ![a] = {id \in @ : \E c \in Orphans(links) : id = ChunkId(c)}]
       \/ "store" \in Faults /\ doomed' = [doomed EXCEPT ![a] = {}]
    /\ at' = [at EXCEPT ![a] = IF doomed'[a] = {} THEN "chunk" ELSE "delete"]
    /\ UNCHANGED <<narVars, links, chunkVars, files, aid, stream, next, flushed, victim,
                   gcVars, readerVars>>

\* DeleteChunkByID of the next orphan, or its failure, which keeps the file too.
DeleteChunkRow(a) ==
    /\ at[a] = "delete"
    /\ \E id \in doomed[a] :
         LET c == id[1]
         IN /\ doomed' = [doomed EXCEPT ![a] = @ \ {id}]
            /\ \/ /\ IF c \in rows /\ ChunkId(c) = id
                     THEN /\ rows' = rows \ {c}
                          /\ links' = Unlinked(links, {c})
                     ELSE UNCHANGED <<rows, links>>
                  /\ victim' = [victim EXCEPT ![a] = c]
                  /\ at' = [at EXCEPT ![a] = "unlink"]
               \/ /\ "store" \in Faults
                  /\ at' = [at EXCEPT ![a] = IF doomed'[a] = {} THEN "chunk" ELSE "delete"]
                  /\ UNCHANGED <<rows, links, victim>>
    /\ UNCHANGED <<narVars, made, files, aid, stream, next, flushed, gcVars, readerVars>>

\* Those of the files C that have no row; nobody is going to delete them any more.
Lost(C) == (C \cap files) \ rows

\* chunkStore.DeleteChunk of its file; a failure is only logged.
DeleteChunkFile(a) ==
    /\ at[a] = "unlink"
    /\ \/ /\ files' = files \ {victim[a]}
          /\ lost' = lost \ {victim[a]}
       \/ /\ "store" \in Faults
          /\ lost' = lost \cup Lost({victim[a]})
          /\ UNCHANGED files
    /\ victim' = [victim EXCEPT ![a] = 0]
    /\ at' = [at EXCEPT ![a] = IF doomed[a] = {} THEN "chunk" ELSE "delete"]
    /\ UNCHANGED <<narVars, links, chunkVars, aid, stream, next, flushed, doomed, gcLeft,
                   gcFiles, readerVars>>

\* Mutant of PutChunk: a failure to store the chunk goes unnoticed.
PutChunkUnnoticed(a) ==
    /\ at[a] = "chunk"
    /\ next[a] < Len(stream[a].data)
    /\ next[a] - flushed[a] < MaxBatch
    /\ \/ files' = files \cup {stream[a].data[next[a] + 1]}
       \/ "store" \in Faults /\ UNCHANGED files
    /\ next' = [next EXCEPT ![a] = @ + 1]
    /\ UNCHANGED <<narVars, links, chunkVars, at, aid, stream, flushed, doomed, victim,
                   gcVars, readerVars>>

\* The next chunk comes out of chunksChan: PutChunk, a no-op when the file is
\* there.  A full batch is flushed first.
PutChunk(a) ==
    /\ at[a] = "chunk"
    /\ next[a] < Len(stream[a].data)
    /\ next[a] - flushed[a] < MaxBatch
    /\ files' = files \cup {stream[a].data[next[a] + 1]}
    /\ next' = [next EXCEPT ![a] = @ + 1]
    /\ UNCHANGED <<narVars, links, chunkVars, at, aid, stream, flushed, doomed, victim,
                   gcVars, readerVars>>

\* Mutant of Record: the batch is linked one index too far.
RecordShifted(a) ==
    LET n   == NarOf[a]
        new == {stream[a].data[i] : i \in (flushed[a] + 1)..next[a]}
        to  == DOMAIN links[n] \cup (flushed[a] + 2)..(next[a] + 1)
    IN /\ rows' = rows \cup new
       /\ made' = [c \in Chunks |-> IF c \in new \ rows THEN made[c] + 1 ELSE made[c]]
       /\ links' = [links EXCEPT ![n] = [i \in to |->
                       IF i \in DOMAIN @ THEN @[i] ELSE stream[a].data[i - 1]]]
       /\ flushed' = [flushed EXCEPT ![a] = next[a]]
       /\ lost' = lost \ new

\* recordChunkBatch: create the missing chunk rows and link the batch; an index
\* that is linked already keeps its chunk (ON CONFLICT DO NOTHING).
Record(a) ==
    LET n   == NarOf[a]
        new == {stream[a].data[i] : i \in (flushed[a] + 1)..next[a]}
        to  == DOMAIN links[n] \cup (flushed[a] + 1)..next[a]
    IN /\ rows' = rows \cup new
       /\ made' = [c \in Chunks |-> IF c \in new \ rows THEN made[c] + 1 ELSE made[c]]
       /\ links' = [links EXCEPT ![n] = [i \in to |->
                       IF i \in DOMAIN @ THEN @[i] ELSE stream[a].data[i]]]
       /\ flushed' = [flushed EXCEPT ![a] = next[a]]
       /\ lost' = lost \ new

\* ClearNarFileChunkingStarted, deferred: it clears the lock of the row whoever
\* has set it and leaves the links; a failure to do so is only logged.
Abort(a) ==
    /\ at' = [at EXCEPT ![a] = "failed"]
    /\ \/ row' = [row EXCEPT ![NarOf[a]] =
                    IF HasRow(a) /\ @ \in {"fresh", "stale"} THEN "plain" ELSE @]
       \/ "store" \in Faults /\ UNCHANGED row
    /\ UNCHANGED <<narId, total>>

\* The batch is flushed: the timer fired or the batch is full.
Flush(a) ==
    /\ at[a] = "chunk"
    /\ next[a] > flushed[a]
    /\ HasRow(a)
    /\ Record(a)
    /\ UNCHANGED <<narVars, files, at, aid, stream, next, doomed, victim, gcLeft, gcFiles,
                   readerVars>>

\* Mutant of Finish: the rest of the batch is not flushed.
FinishUnflushed(a) ==
    /\ at[a] = "chunk"
    /\ next[a] = Len(stream[a].data)
    /\ at' = [at EXCEPT ![a] = "mark"]
    /\ UNCHANGED <<narVars, links, chunkVars, files, aid, stream, next, flushed, doomed,
                   victim, gcVars, readerVars>>

\* chunksChan is closed: flush the rest.  The chunker closes it after an error
\* as well, and select may take the closed channel before errChan.
Finish(a) ==
    /\ at[a] = "chunk"
    /\ next[a] = Len(stream[a].data)
    /\ next[a] > flushed[a] => HasRow(a)
    /\ IF next[a] > flushed[a] THEN Record(a) ELSE UNCHANGED <<links, chunkVars, flushed, lost>>
    /\ at' = [at EXCEPT ![a] = "mark"]
    /\ UNCHANGED <<narVars, files, aid, stream, next, doomed, victim, gcLeft, gcFiles,
                   readerVars>>

\* The bytes chunked are compared with the NarSize, when it is known; then
\* UpdateNarFileTotalChunks, which does nothing when the row is gone.
Mark(a) ==
    LET n == NarOf[a]
    IN /\ at[a] = "mark"
       /\ IF a \in Sized /\ stream[a].data # Content[n]
          THEN Abort(a)
          ELSE /\ at' = [at EXCEPT ![a] = "done"]
               /\ IF HasRow(a)
                  THEN /\ row' = [row EXCEPT ![n] = IF next[a] = 0 THEN "plain" ELSE "done"]
                       /\ total' = [total EXCEPT ![n] = next[a]]
                       /\ UNCHANGED narId
                  ELSE UNCHANGED narVars
       /\ UNCHANGED <<links, chunkVars, files, aid, stream, next, flushed, doomed, victim,
                      gcVars, readerVars>>

\* The attempt returns an error: the reader's, the client's, a constraint
\* violation because the row is gone, or one of the store or the database.
Fails(a) ==
    /\ \/ at[a] = "chunk" /\ next[a] = Len(stream[a].data) /\ stream[a].end = "error"
       \/ at[a] = "chunk" /\ next[a] > flushed[a] /\ ~HasRow(a)
       \/ at[a] = "chunk" /\ "cancel" \in Faults
       \/ at[a] \in {"chunk", "mark"} /\ "store" \in Faults
    /\ Abort(a)
    /\ UNCHANGED <<links, chunkVars, files, aid, stream, next, flushed, doomed, victim,
                   gcVars, readerVars>>

-----------------------------------------------------------------------------
(* The chunk phase of runLRU.                                              *)

\* deleteLRURecordsFromDB: the rows of the NARs E go, their links with them, and
\* the chunks that are orphans then.  One instance runs it at a time.
Evict(E) ==
    LET left == [n \in Nars |-> IF n \in E THEN Empty ELSE links[n]]
        gone == Orphans(left)
    IN /\ gcLeft > 0
       /\ gcFiles = {}
       /\ \A n \in E : row[n] # "absent"
       /\ E # {} \/ gone # {}
       /\ gcLeft' = gcLeft - 1
       /\ row' = [n \in Nars |-> IF n \in E THEN "absent" ELSE row[n]]
       /\ narId' = [n \in Nars |-> IF n \in E THEN narId[n] + 1 ELSE narId[n]]
       /\ total' = [n \in Nars |-> IF n \in E THEN 0 ELSE total[n]]
       /\ links' = left
       /\ rows' = rows \ gone
       /\ gcFiles' = gone
    /\ UNCHANGED <<made, files, lost, attemptVars, readerVars>>

\* parallelDeleteFromStores, after the commit; a failure is only logged.
DeleteOrphanFile ==
    /\ \E c \in gcFiles :
         /\ gcFiles' = gcFiles \ {c}
         /\ \/ /\ files' = files \ {c}
               /\ lost' = lost \ {c}
            \/ /\ "store" \in Faults
               /\ lost' = lost \cup Lost({c})
               /\ UNCHANGED files
    /\ UNCHANGED <<narVars, links, chunkVars, attemptVars, gcLeft, readerVars>>

-----------------------------------------------------------------------------
(* getNarFromChunks.                                                       *)

\* The row reader r has opened is still there.
SeesRow(r) == row[NarRead[r]] # "absent" /\ narId[NarRead[r]] = rid[r]

\* The row is read once: a chunked NAR takes the fast path, any other is
\* streamed as its chunks appear.
Open(r) ==
    LET n == NarRead[r]
    IN /\ rpc[r] = "idle"
       /\ row[n] # "absent"
       /\ rid' = [rid EXCEPT ![r] = narId[n]]
       /\ rtotal' = [rtotal EXCEPT ![r] = total[n]]
       /\ rpc' = [rpc EXCEPT ![r] = IF row[n] = "done" THEN "complete" ELSE "query"]
    /\ UNCHANGED <<narVars, links, chunkVars, files, attemptVars, gcVars, batch, got>>

\* The chunks linked to the row reader r has opened, past those it has.
Found(r) == IF SeesRow(r) THEN LinkedFrom(NarRead[r], Len(got[r])) ELSE << >>

\* streamCompleteChunks: all chunks at once, and as many as there must be.
QueryAll(r) ==
    /\ rpc[r] = "complete"
    /\ batch' = [batch EXCEPT ![r] = Found(r)]
    /\ rpc' = [rpc EXCEPT ![r] = IF Len(Found(r)) = rtotal[r] THEN "fetch" ELSE "error"]
    /\ UNCHANGED <<narVars, links, chunkVars, files, attemptVars, gcVars, rid, rtotal, got>>

\* streamProgressiveChunks: the chunks there are past the index it has reached.
Query(r) ==
    /\ rpc[r] = "query"
    /\ batch' = [batch EXCEPT ![r] = Found(r)]
    /\ rpc' = [rpc EXCEPT ![r] = IF Found(r) = << >> THEN "check" ELSE "fetch"]
    /\ UNCHANGED <<narVars, links, chunkVars, files, attemptVars, gcVars, rid, rtotal, got>>

\* GetChunk of the next chunk of the batch.
Fetch(r) ==
    /\ rpc[r] = "fetch"
    /\ batch' = [batch EXCEPT ![r] = Tail(@)]
    /\ IF Head(batch[r]) \in files
       THEN /\ got' = [got EXCEPT ![r] = Append(@, Head(batch[r]))]
            /\ rpc' = [rpc EXCEPT ![r] =
                         IF Len(batch[r]) > 1 THEN "fetch"
                         ELSE IF rtotal[r] > 0 /\ Len(got'[r]) >= rtotal[r] THEN "ok"
                         ELSE "query"]
       ELSE /\ rpc' = [rpc EXCEPT ![r] = "error"]
            /\ UNCHANGED got
    /\ UNCHANGED <<narVars, links, chunkVars, files, attemptVars, gcVars, rid, rtotal>>

\* Mutant of CheckRow: a NAR that is chunked by now has been streamed.
CheckRowDone(r) ==
    LET n == NarRead[r]
    IN /\ rpc[r] = "check"
       /\ rpc' = [rpc EXCEPT ![r] =
                    IF ~SeesRow(r) \/ row[n] = "plain" THEN "error"
                    ELSE IF row[n] = "done" THEN "ok" ELSE "query"]
    /\ UNCHANGED <<narVars, links, chunkVars, files, attemptVars, gcVars, rid, rtotal, batch,
                   got>>

\* No chunk past the index: the row tells whether all were streamed, whether the
\* chunking was aborted, or that the reader has to look again.
CheckRow(r) ==
    LET n == NarRead[r]
    IN /\ rpc[r] = "check"
       /\ IF ~SeesRow(r) \/ row[n] = "plain"
          THEN /\ rpc' = [rpc EXCEPT ![r] = "error"]
               /\ UNCHANGED rtotal
          ELSE /\ rtotal' = [rtotal EXCEPT ![r] = total[n]]
               /\ rpc' = [rpc EXCEPT ![r] =
                            IF row[n] = "done" /\ Len(got[r]) >= total[n] THEN "ok" ELSE "query"]
    /\ UNCHANGED <<narVars, links, chunkVars, files, attemptVars, gcVars, rid, batch, got>>

\* Mutant of WaitTimeout: the reader waits as long as the lock is set.
WaitForever(r) == CheckRow(r)

\* maxWaitPerChunk passed without a new chunk.
WaitTimeout(r) ==
    /\ rpc[r] = "check"
    /\ SeesRow(r)
    /\ row[NarRead[r]] \in {"fresh", "stale"}
    /\ rpc' = [rpc EXCEPT ![r] = "error"]
    /\ UNCHANGED <<narVars, links, chunkVars, files, attemptVars, gcVars, rid, rtotal, batch,
                   got>>

-----------------------------------------------------------------------------
(* The environment.                                                        *)

\* The process of attempt a dies; what it wrote stays, the lock included, and so does
\* the file whose row it has just deleted.
Crash(a) ==
    /\ "crash" \in Faults
    /\ at[a] \in Active
    /\ at' = [at EXCEPT ![a] = "dead"]
    /\ lost' = IF at[a] = "unlink" THEN lost \cup Lost({victim[a]}) ELSE lost
    /\ UNCHANGED <<narVars, links, chunkVars, files, aid, stream, next, flushed, doomed, victim,
                   gcLeft, gcFiles, readerVars>>

\* The process that runs runLRU dies between its commit and the last deletion.
EvictionDies ==
    /\ "crash" \in Faults
    /\ gcFiles # {}
    /\ gcFiles' = {}
    /\ lost' = lost \cup Lost(gcFiles)
    /\ UNCHANGED <<narVars, links, chunkVars, files, attemptVars, gcLeft, readerVars>>

\* The lock gets older than cdcChunkingLockTTL; the attempt that set it is dead,
\* or ("slow") still at work.
GoesStale(n) ==
    /\ row[n] = "fresh"
    /\ "slow" \in Faults \/ \A a \in Attempts : NarOf[a] = n => at[a] \notin Active
    /\ row' = [row EXCEPT ![n] = "stale"]
    /\ UNCHANGED <<narId, total, links, chunkVars, files, attemptVars, gcVars, readerVars>>

-----------------------------------------------------------------------------
AttemptStep(a) ==
    \/ FindOrphans(a) \/ DeleteChunkRow(a) \/ DeleteChunkFile(a)
    \/ PutChunk(a) \/ Flush(a) \/ Finish(a) \/ Mark(a) \/ Fails(a)

ReaderStep(r) == QueryAll(r) \/ Query(r) \/ Fetch(r) \/ CheckRow(r)

Next ==
    \/ \E a \in Attempts : Begin(a) \/ AttemptStep(a) \/ Crash(a)
    \/ \E E \in SUBSET Nars : Evict(E)
    \/ DeleteOrphanFile \/ EvictionDies
    \/ \E r \in Readers : Open(r) \/ ReaderStep(r) \/ WaitTimeout(r)
    \/ \E n \in Nars : GoesStale(n)

\* Attempts, readers and the deletions go on; a reader that keeps finding no
\* chunk times out in the end.
Fairness ==
    /\ \A a \in Attempts : WF_vars(AttemptStep(a))
    /\ WF_vars(DeleteOrphanFile)
    /\ \A r \in Readers : WF_vars(ReaderStep(r)) /\ SF_vars(WaitTimeout(r))

Spec     == Init /\ [][Next]_vars
FairSpec == Spec /\ Fairness

-----------------------------------------------------------------------------
(* Properties.                                                             *)

\* A NAR marked chunked is linked to exactly its chunks, in order, and stays so:
\* neither an attempt that died or failed, nor the deletion of the chunks of a
\* stale attempt (cleanupStaleLockChunks), which may share some with it, nor
\* runLRU takes or changes a link.
ChunkedIsIntact ==
    \A n \in Nars : row[n] = "done" =>
        total[n] = Len(Content[n]) /\ links[n] = Content[n]

\* The file of every chunk of a chunked NAR is in the chunk store: it was put
\* there before the link was recorded, and only the files of orphans go.
ChunkFilesPresent ==
    \A n \in Nars : row[n] = "done" => Image(links[n]) \subseteq files

\* A chunk file that is no chunk's file in the database is about to be recorded
\* or to be deleted, or was put by an attempt that failed or died before it had
\* recorded it, or was left behind when the process that had deleted its row died or
\* the store did not delete it: whatever succeeds leaks nothing.
FilesTracked ==
    \A c \in files :
        \/ c \in rows
        \/ c \in gcFiles
        \/ c \in lost
        \/ \E a \in Attempts :
             \/ at[a] = "unlink" /\ victim[a] = c
             \/ /\ at[a] \in Active \cup {"failed", "dead"}
                /\ \E i \in (flushed[a] + 1)..next[a] : stream[a].data[i] = c

\* A reader that comes to the end of the stream without an error has streamed
\* the NAR, on the fast path and progressively, across a restarted chunking too.
StreamedIsContent ==
    \A r \in Readers : rpc[r] = "ok" => got[r] = Content[NarRead[r]]

\* A reader comes to an end.
ReadersFinish == \A r \in Readers : rpc[r] # "idle" ~> rpc[r] \in {"ok", "error"}

=============================================================================
