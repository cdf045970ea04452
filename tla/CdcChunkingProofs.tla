-------------------------- MODULE CdcChunkingProofs --------------------------
(***************************************************************************)
(* What chunking, eviction and the cleanup after a dead attempt guarantee  *)
(* for any NARs, however they share chunks, and any number of attempts.    *)
(***************************************************************************)
EXTENDS CdcChunking, FiniteSetTheorems, TLAPS

-----------------------------------------------------------------------------
(* Files of the chunk store.                                               *)

\* The stream s consists of chunks; 0 stands for no victim and is none.
OfChunks(s) == Len(s.data) \in Nat /\ \A i \in 1..Len(s.data) : s.data[i] # 0

\* Where an attempt is in its stream, and that it has a victim only between the
\* deletion of a row and that of the file.
ProgressInv ==
    /\ at \in [Attempts -> Active \cup {"idle", "done", "skipped", "failed", "dead"}]
    /\ DOMAIN stream = Attempts
    /\ next \in [Attempts -> Nat] /\ flushed \in [Attempts -> Nat]
    /\ victim = [a \in Attempts |-> victim[a]]
    /\ 0 \notin files
    /\ \A a \in Attempts :
         /\ OfChunks(stream[a])
         /\ flushed[a] <= next[a]
         /\ next[a] <= Len(stream[a].data)
         /\ at[a] = "idle" => next[a] = 0
         /\ at[a] \in {"mark", "done"} => flushed[a] = next[a]
         /\ at[a] \in {"idle", "orphans", "delete", "chunk", "mark"} => victim[a] = 0

\* Chunks of NAR n and what a stream cut inside one leaves of it.
Of(n) == Image(Content[n]) \cup {-c : c \in Image(Content[n])}

\* Cut(n, k) is the first k chunks of NAR n.
LEMMA CutIs ==
    ASSUME NEW n \in Nars, NEW k \in 0..Len(Content[n])
    PROVE  /\ Cut(n, k) \in Seq(Int) /\ Len(Cut(n, k)) = k
           /\ \A i \in 1..k : Cut(n, k)[i] = Content[n][i]
<1>1. Content[n] \in Seq(Int) /\ Len(Content[n]) \in Nat
  BY CdcChunkingAssumption
<1> QED
  BY <1>1 DEF Cut

\* What the reader may deliver: the NAR, or the beginning of it, with an error or
\* without one, which may end inside a chunk.
LEMMA StreamsAre ==
    ASSUME NEW n \in Nars, NEW s \in Streams(n)
    PROVE  \/ s.data = Content[n]
           \/ /\ "truncate" \in Faults
              /\ \E k \in 1..Len(Content[n]) :
                    \/ s.data = Cut(n, k - 1)
                    \/ s.data = Append(Cut(n, k - 1), -Content[n][k])
           \/ /\ "readError" \in Faults
              /\ \E k \in 0..Len(Content[n]) : s.data = Cut(n, k)
<1>1. CASE s \in {[data |-> Content[n], end |-> "eof"]}
  BY <1>1
<1>2. CASE /\ "truncate" \in Faults
           /\ s \in UNION {{[data |-> Cut(n, k - 1), end |-> "eof"],
                            [data |-> Append(Cut(n, k - 1), -Content[n][k]), end |-> "eof"]}
                           : k \in 1..Len(Content[n])}
  <2>1. PICK k \in 1..Len(Content[n]) :
           s \in {[data |-> Cut(n, k - 1), end |-> "eof"],
                  [data |-> Append(Cut(n, k - 1), -Content[n][k]), end |-> "eof"]}
    BY <1>2
  <2>2. s.data = Cut(n, k - 1) \/ s.data = Append(Cut(n, k - 1), -Content[n][k])
    BY <2>1
  <2> QED
    BY <1>2, <2>2
<1>3. CASE /\ "readError" \in Faults
           /\ s \in {[data |-> Cut(n, k), end |-> "error"] : k \in 0..Len(Content[n])}
  BY <1>3
<1> QED
  BY <1>1, <1>2, <1>3 DEF Streams

\* All that the reader may deliver are chunks of the NAR, the last maybe cut short.
LEMMA StreamsOf ==
    ASSUME NEW n \in Nars, NEW s \in Streams(n)
    PROVE  Len(s.data) \in Nat /\ \A i \in 1..Len(s.data) : s.data[i] \in Of(n)
<1> DEFINE C == Content[n]
           N == Len(C)
           Goal == Len(s.data) \in Nat /\ \A i \in 1..Len(s.data) : s.data[i] \in Of(n)
<1>1. C \in Seq(Int) /\ N \in Nat /\ \A i \in 1..N : C[i] \in Int /\ C[i] \in Of(n) /\ -C[i] \in Of(n)
  BY CdcChunkingAssumption DEF Of, Image
<1>2. ASSUME NEW k \in 0..N
      PROVE  /\ Cut(n, k) \in Seq(Int) /\ Len(Cut(n, k)) = k
             /\ \A i \in 1..k : Cut(n, k)[i] = C[i]
  BY CutIs
<1>3. \/ s.data = C
      \/ \E k \in 1..N : s.data = Cut(n, k - 1) \/ s.data = Append(Cut(n, k - 1), -C[k])
      \/ \E k \in 0..N : s.data = Cut(n, k)
  BY StreamsAre
<1>4. CASE s.data = C
  BY <1>1, <1>4
<1> HIDE DEF C, N
<1>5. ASSUME NEW k \in 0..N, s.data = Cut(n, k) PROVE Goal
  <2>1. \A i \in 1..k : i \in 1..N
    BY <1>1
  <2>2. Len(s.data) = k /\ \A i \in 1..k : s.data[i] = C[i]
    BY <1>2, <1>5
  <2> QED
    BY <1>1, <2>1, <2>2
<1>6. ASSUME NEW k \in 1..N, s.data = Append(Cut(n, k - 1), -C[k]) PROVE Goal
  <2>1. k - 1 \in 0..N /\ -C[k] \in Int
    BY <1>1
  <2>2. /\ Cut(n, k - 1) \in Seq(Int) /\ Len(Cut(n, k - 1)) = k - 1
        /\ \A i \in 1..(k - 1) : Cut(n, k - 1)[i] = C[i]
    BY <1>2, <2>1
  <2>3. Len(s.data) = k /\ s.data[k] = -C[k]
    BY <1>1, <1>6, <2>1, <2>2
  <2>4. \A i \in 1..(k - 1) : s.data[i] = Cut(n, k - 1)[i]
    BY <1>1, <1>6, <2>1, <2>2
  <2>5. \A i \in 1..k : i = k \/ (i \in 1..(k - 1) /\ i \in 1..N)
    BY <1>1
  <2>6. ASSUME NEW i \in 1..k PROVE s.data[i] \in Of(n)
    <3>1. CASE i = k
      BY <1>1, <2>3, <3>1
    <3>2. CASE i \in 1..(k - 1) /\ i \in 1..N
      <4>1. s.data[i] = C[i]
        BY <2>2, <2>4, <3>2
      <4> QED
        BY <1>1, <3>2, <4>1
    <3> QED
      BY <2>5, <3>1, <3>2
  <2> QED
    BY <1>1, <2>3, <2>6
<1>7. \A k \in 1..N : k - 1 \in 0..N
  BY <1>1
<1> QED
  BY <1>3, <1>4, <1>5, <1>6, <1>7

\* No chunk is 0.
LEMMA StreamsOfChunks ==
    ASSUME NEW n \in Nars, NEW s \in Streams(n)
    PROVE  OfChunks(s)
<1>1. 0 \notin Of(n)
  BY CdcChunkingAssumption DEF Of, Image
<1> QED
  BY <1>1, StreamsOf DEF OfChunks

\* ProgressInv holds at first.
LEMMA ProgressInit == Init => ProgressInv
<1> SUFFICES ASSUME Init PROVE ProgressInv
  OBVIOUS
<1>1. 0 \notin files
  BY CdcChunkingAssumption DEF Init, Image
<1>2. \A a \in Attempts : OfChunks(stream[a])
  BY DEF Init, OfChunks
<1> QED
  BY <1>1, <1>2 DEF Init, ProgressInv, OfChunks

\* Every step keeps ProgressInv.
LEMMA ProgressStep == ProgressInv /\ [Next]_vars => ProgressInv'
<1> SUFFICES ASSUME ProgressInv, [Next]_vars PROVE ProgressInv'
  OBVIOUS
<1> USE CdcChunkingAssumption
    DEF ProgressInv, Active, narVars, chunkVars, attemptVars, gcVars, readerVars
<1>1. ASSUME NEW a \in Attempts, Begin(a) PROVE ProgressInv'
  <2>1. at[a] = "idle" /\ NarOf[a] \in Nars
    BY <1>1 DEF Begin
  <2>2. UNCHANGED <<files, next, flushed, victim>>
    BY <1>1 DEF Begin
  <2>3. PICK state \in {"skipped", "chunk", "orphans"} : at' = [at EXCEPT ![a] = state]
    BY <1>1 DEF Begin
  <2>4. stream' = stream \/ \E s \in Streams(NarOf[a]) : stream' = [stream EXCEPT ![a] = s]
    BY <1>1 DEF Begin
  <2>5. DOMAIN stream' = Attempts /\ \A b \in Attempts : OfChunks(stream'[b])
    BY <2>1, <2>4, StreamsOfChunks
  <2>6. \A b \in Attempts \ {a} : stream'[b] = stream[b]
    BY <2>4
  <2>7. next[a] = 0 /\ Len(stream'[a].data) \in Nat
    BY <2>1, <2>5 DEF OfChunks
  <2>8. \A b \in Attempts : next[b] <= Len(stream'[b].data)
    <3> TAKE b \in Attempts
    <3>1. CASE b = a
      BY <2>7, <3>1
    <3>2. CASE b # a
      BY <2>6, <3>2
    <3> QED
      BY <3>1, <3>2
  <2> QED
    BY <2>1, <2>2, <2>3, <2>5, <2>8
<1>2. ASSUME NEW a \in Attempts, FindOrphans(a) PROVE ProgressInv'
  <2>1. PICK state \in {"chunk", "delete"} : at' = [at EXCEPT ![a] = state]
    BY <1>2 DEF FindOrphans
  <2>2. at[a] = "orphans" /\ UNCHANGED <<files, stream, next, flushed, victim>>
    BY <1>2 DEF FindOrphans
  <2> QED
    BY <2>1, <2>2
<1>12. ASSUME NEW a \in Attempts, DeleteChunkFile(a) PROVE ProgressInv'
  <2>1. PICK state \in {"chunk", "delete"} : at' = [at EXCEPT ![a] = state]
    BY <1>12 DEF DeleteChunkFile
  <2>2. victim' = [victim EXCEPT ![a] = 0] /\ 0 \notin files'
    BY <1>12 DEF DeleteChunkFile
  <2>3. at[a] = "unlink" /\ UNCHANGED <<stream, next, flushed>>
    BY <1>12 DEF DeleteChunkFile
  <2> QED
    BY <2>1, <2>2, <2>3
<1>3. ASSUME NEW a \in Attempts, DeleteChunkRow(a) PROVE ProgressInv'
  <2>1. \/ \E state \in {"chunk", "delete"} : at' = [at EXCEPT ![a] = state] /\ UNCHANGED victim
        \/ at' = [at EXCEPT ![a] = "unlink"] /\ \E c : victim' = [victim EXCEPT ![a] = c]
    BY <1>3 DEF DeleteChunkRow
  <2>2. at[a] = "delete" /\ UNCHANGED <<files, stream, next, flushed>>
    BY <1>3 DEF DeleteChunkRow
  <2>3. CASE \E state \in {"chunk", "delete"} : at' = [at EXCEPT ![a] = state] /\ UNCHANGED victim
    BY <2>2, <2>3
  <2>4. ASSUME at' = [at EXCEPT ![a] = "unlink"],
               NEW c, victim' = [victim EXCEPT ![a] = c]
        PROVE  ProgressInv'
    BY <2>2, <2>4
  <2> QED
    BY <2>1, <2>3, <2>4
<1>4. ASSUME NEW a \in Attempts, PutChunk(a) PROVE ProgressInv'
  <2>1. /\ at[a] = "chunk" /\ next[a] < Len(stream[a].data)
        /\ next' = [next EXCEPT ![a] = next[a] + 1]
        /\ files' = files \cup {stream[a].data[next[a] + 1]}
        /\ UNCHANGED <<at, stream, flushed, victim>>
    BY <1>4 DEF PutChunk
  <2>2. Len(stream[a].data) \in Nat /\ next[a] + 1 \in 1..Len(stream[a].data)
    BY <2>1 DEF OfChunks
  <2>3. stream[a].data[next[a] + 1] # 0
    BY <2>2 DEF OfChunks
  <2>4. next' \in [Attempts -> Nat] /\ \A b \in Attempts : next[b] <= next'[b]
    BY <2>1
  <2>5. \A b \in Attempts : next'[b] <= Len(stream[b].data) /\ flushed[b] <= next'[b]
    BY <2>1, <2>2, <2>4
  <2>6. \A b \in Attempts \ {a} : next'[b] = next[b]
    BY <2>1
  <2> QED
    BY <2>1, <2>3, <2>4, <2>5, <2>6
<1>5. ASSUME NEW a \in Attempts, Flush(a) \/ Finish(a) PROVE ProgressInv'
  <2>1. /\ at[a] = "chunk" /\ UNCHANGED <<files, stream, next, victim>>
        /\ \/ at' = at /\ flushed' = [flushed EXCEPT ![a] = next[a]]
           \/ at' = [at EXCEPT ![a] = "mark"] /\ flushed' = [flushed EXCEPT ![a] = next[a]]
           \/ at' = [at EXCEPT ![a] = "mark"] /\ flushed' = flushed /\ ~(next[a] > flushed[a])
    BY <1>5 DEF Flush, Finish, Record
  <2>2. CASE at' = at /\ flushed' = [flushed EXCEPT ![a] = next[a]]
    BY <2>1, <2>2
  <2>3. CASE at' = [at EXCEPT ![a] = "mark"] /\ flushed' = [flushed EXCEPT ![a] = next[a]]
    BY <2>1, <2>3
  <2>4. CASE at' = [at EXCEPT ![a] = "mark"] /\ flushed' = flushed /\ ~(next[a] > flushed[a])
    <3>1. flushed[a] = next[a]
      BY <2>4
    <3> QED
      BY <2>1, <2>4, <3>1
  <2> QED
    BY <2>1, <2>2, <2>3, <2>4
<1>6. ASSUME NEW a \in Attempts, Mark(a) \/ Fails(a) \/ Crash(a) PROVE ProgressInv'
  <2>1. UNCHANGED <<files, stream, next, flushed, victim>>
    BY <1>6 DEF Mark, Fails, Crash
  <2>2. \/ at' = [at EXCEPT ![a] = "failed"] \/ at' = [at EXCEPT ![a] = "dead"]
        \/ at' = [at EXCEPT ![a] = "done"] /\ at[a] = "mark"
    BY <1>6 DEF Mark, Fails, Crash, Abort
  <2>3. CASE at' = [at EXCEPT ![a] = "failed"] \/ at' = [at EXCEPT ![a] = "dead"]
    BY <2>1, <2>3, ZenonT(60)
  <2>4. CASE at' = [at EXCEPT ![a] = "done"] /\ at[a] = "mark"
    BY <2>1, <2>4
  <2> QED
    BY <2>2, <2>3, <2>4
<1>7. ASSUME NEW E \in SUBSET Nars, Evict(E) PROVE ProgressInv'
  BY <1>7 DEF Evict
<1>8. CASE DeleteOrphanFile \/ EvictionDies
  BY <1>8 DEF DeleteOrphanFile, EvictionDies
<1>9. ASSUME NEW r \in Readers, Open(r) \/ ReaderStep(r) \/ WaitTimeout(r) PROVE ProgressInv'
  BY <1>9 DEF Open, ReaderStep, QueryAll, Query, Fetch, CheckRow, WaitTimeout
<1>10. ASSUME NEW n \in Nars, GoesStale(n) PROVE ProgressInv'
  BY <1>10 DEF GoesStale
<1>11. CASE UNCHANGED vars
  BY <1>11 DEF vars
<1> QED
  BY <1>1, <1>2, <1>3, <1>4, <1>5, <1>6, <1>7, <1>8, <1>9, <1>10, <1>11, <1>12
  DEF Next, AttemptStep

\* Attempt a is about to delete the file of chunk c.
Unlinks(a, c) == at[a] = "unlink" /\ victim[a] = c

\* Attempt a has put chunk c into the store and has not recorded it yet.
Holds(a, c) ==
    /\ at[a] \in Active \cup {"failed", "dead"}
    /\ \E i \in (flushed[a] + 1)..next[a] : stream[a].data[i] = c

\* A row, a deletion in progress, an attempt or a failed deletion accounts for the
\* file of c.
Tracked(c) ==
    c \in rows \cup gcFiles \cup lost \/ \E a \in Attempts : Unlinks(a, c) \/ Holds(a, c)

\* An attempt whose position, stream and victim a step leaves alone, and that has not
\* left the deletion of a file and is not done after it unless it was, tracks what it
\* tracked.
LEMMA TrackedByOther ==
    ASSUME NEW a \in Attempts, NEW c,
           \/ at'[a] = at[a]
           \/ at[a] # "unlink" /\ at'[a] \in Active \cup {"failed", "dead"},
           stream'[a] = stream[a], next'[a] = next[a], flushed'[a] = flushed[a],
           victim'[a] = victim[a], Unlinks(a, c) \/ Holds(a, c)
    PROVE  Unlinks(a, c)' \/ Holds(a, c)'
BY DEF Unlinks, Holds

\* A step that leaves the attempts' positions alone and keeps every row, or puts it
\* on runLRU's list or among the lost files, tracks what was tracked.
LEMMA TrackedRows ==
    ASSUME ProgressInv, NEW c, Tracked(c),
           UNCHANGED <<stream, next, flushed, victim>>,
           \A a \in Attempts : \/ at'[a] = at[a]
                               \/ at[a] # "unlink" /\ at'[a] \in Active \cup {"failed", "dead"},
           c \in rows \cup gcFiles \cup lost => c \in rows' \cup gcFiles' \cup lost'
    PROVE  Tracked(c)'
<1>1. CASE c \in rows \cup gcFiles \cup lost
  BY <1>1 DEF Tracked
<1>2. ASSUME NEW a \in Attempts, Unlinks(a, c) \/ Holds(a, c) PROVE Tracked(c)'
  <2>1. Unlinks(a, c)' \/ Holds(a, c)'
    BY <1>2, TrackedByOther
  <2> QED
    BY <2>1 DEF Tracked
<1> QED
  BY <1>1, <1>2 DEF Tracked

\* Every step keeps FilesTracked.
LEMMA FilesStep ==
    ASSUME ProgressInv, ProgressInv', FilesTracked, [Next]_vars
    PROVE  FilesTracked'
<1> SUFFICES ASSUME NEW c \in files' PROVE Tracked(c)'
  BY DEF FilesTracked, Tracked, Unlinks, Holds
<1> USE DEF narVars, chunkVars, attemptVars, gcVars, readerVars
<1>a. c \in files => Tracked(c)
  BY DEF FilesTracked, Tracked, Unlinks, Holds
<1>1. ASSUME NEW a \in Attempts, Begin(a) PROVE Tracked(c)'
  <2>1. at[a] = "idle" /\ UNCHANGED <<files, next, flushed, victim, rows, gcFiles, lost>>
    BY <1>1 DEF Begin
  <2>2. at' = [at EXCEPT ![a] = at'[a]]
    BY <1>1 DEF Begin, ProgressInv
  <2>3. \A b \in Attempts \ {a} : stream'[b] = stream[b]
    BY <1>1 DEF Begin, ProgressInv
  <2>4. CASE c \in rows \cup gcFiles \cup lost
    BY <2>1, <2>4 DEF Tracked
  <2>5. ASSUME NEW b \in Attempts, Unlinks(b, c) \/ Holds(b, c) PROVE Tracked(c)'
    <3>1. b # a
      <4>1. ~Holds(a, c)
        BY <2>1 DEF Holds, Active
      <4> QED
        BY <2>1, <2>5, <4>1 DEF Unlinks
    <3>2. at'[b] = at[b]
      BY <2>2, <3>1 DEF ProgressInv
    <3>3. Unlinks(b, c)' \/ Holds(b, c)'
      BY <2>1, <2>3, <2>5, <3>1, <3>2, TrackedByOther
    <3> QED
      BY <3>3 DEF Tracked
  <2> QED
    BY <1>a, <2>1, <2>4, <2>5 DEF Tracked
<1>2. ASSUME NEW a \in Attempts, FindOrphans(a) PROVE Tracked(c)'
  <2>1. UNCHANGED <<files, stream, next, flushed, victim, rows, gcFiles, lost>>
    BY <1>2 DEF FindOrphans
  <2>2. \A b \in Attempts : at'[b] = at[b] \/ (at[b] # "unlink" /\ at'[b] \in Active)
    BY <1>2 DEF FindOrphans, ProgressInv, Active
  <2> QED
    BY <1>a, <2>1, <2>2, TrackedRows
<1>3. ASSUME NEW a \in Attempts, DeleteChunkRow(a) PROVE Tracked(c)'
  <2>1. UNCHANGED <<files, stream, next, flushed, gcFiles, lost>> /\ at[a] = "delete"
    BY <1>3 DEF DeleteChunkRow
  <2>2. \/ \E v : /\ victim' = [victim EXCEPT ![a] = v]
                  /\ at' = [at EXCEPT ![a] = "unlink"]
                  /\ rows' = rows \ {v} \/ rows' = rows
        \/ /\ \E state \in {"chunk", "delete"} : at' = [at EXCEPT ![a] = state]
           /\ UNCHANGED <<rows, victim>>
    BY <1>3 DEF DeleteChunkRow
  <2>3. ~Unlinks(a, c)
    BY <2>1 DEF Unlinks
  <2>4. ASSUME NEW v, victim' = [victim EXCEPT ![a] = v],
               at' = [at EXCEPT ![a] = "unlink"], rows' = rows \ {v} \/ rows' = rows
        PROVE  Tracked(c)'
    <3>1. victim'[a] = v /\ at'[a] = "unlink"
      BY <2>4 DEF ProgressInv
    <3>2. CASE c = v
      BY <3>1, <3>2 DEF Tracked, Unlinks
    <3>3. CASE c # v /\ c \in rows \cup gcFiles \cup lost
      BY <2>1, <2>4, <3>3 DEF Tracked
    <3>4. ASSUME NEW b \in Attempts, Unlinks(b, c) \/ Holds(b, c), b # a PROVE Tracked(c)'
      <4>1. at'[b] = at[b] /\ victim'[b] = victim[b]
        BY <2>4, <3>4 DEF ProgressInv
      <4>2. Unlinks(b, c)' \/ Holds(b, c)'
        BY <2>1, <3>4, <4>1, TrackedByOther
      <4> QED
        BY <4>2 DEF Tracked
    <3>5. CASE Holds(a, c)
      <4>1. Holds(a, c)'
        BY <2>1, <3>1, <3>5 DEF Holds, Active
      <4> QED
        BY <4>1 DEF Tracked
    <3> QED
      BY <1>a, <2>1, <2>3, <3>2, <3>3, <3>4, <3>5 DEF Tracked
  <2>5. CASE /\ \E state \in {"chunk", "delete"} : at' = [at EXCEPT ![a] = state]
             /\ UNCHANGED <<rows, victim>>
    <3>1. \A b \in Attempts : at'[b] = at[b] \/ (at[b] # "unlink" /\ at'[b] \in Active)
      BY <2>1, <2>5 DEF ProgressInv, Active
    <3> QED
      BY <1>a, <2>1, <2>5, <3>1, TrackedRows
  <2> QED
    BY <2>2, <2>4, <2>5
<1>4. ASSUME NEW a \in Attempts, DeleteChunkFile(a) PROVE Tracked(c)'
  <2>1. /\ UNCHANGED <<stream, next, flushed, rows, gcFiles>> /\ at[a] = "unlink"
        /\ victim' = [victim EXCEPT ![a] = 0]
        /\ \/ files' = files \ {victim[a]} /\ lost' = lost \ {victim[a]}
           \/ files' = files /\ lost' = lost \cup (({victim[a]} \cap files) \ rows)
    BY <1>4 DEF DeleteChunkFile, Lost
  <2>2. PICK state \in {"chunk", "delete"} : at' = [at EXCEPT ![a] = state]
    BY <1>4 DEF DeleteChunkFile
  <2>3. CASE c \in rows \cup gcFiles \cup lost
    BY <2>1, <2>3 DEF Tracked
  <2>4. CASE Unlinks(a, c)
    BY <2>1, <2>4 DEF Tracked, Unlinks
  <2>5. ASSUME NEW b \in Attempts, Unlinks(b, c) \/ Holds(b, c), b # a PROVE Tracked(c)'
    <3>1. at'[b] = at[b] /\ victim'[b] = victim[b]
      BY <2>1, <2>2, <2>5 DEF ProgressInv
    <3>2. Unlinks(b, c)' \/ Holds(b, c)'
      BY <2>1, <2>5, <3>1, TrackedByOther
    <3> QED
      BY <3>2 DEF Tracked
  <2>6. CASE Holds(a, c)
    <3>1. at'[a] \in Active
      BY <2>2 DEF ProgressInv, Active
    <3>2. Holds(a, c)'
      BY <2>1, <2>6, <3>1 DEF Holds
    <3> QED
      BY <3>2 DEF Tracked
  <2> QED
    BY <1>a, <2>1, <2>3, <2>4, <2>5, <2>6 DEF Tracked
<1>5. ASSUME NEW a \in Attempts, PutChunk(a) PROVE Tracked(c)'
  <2>1. /\ at[a] = "chunk" /\ next' = [next EXCEPT ![a] = next[a] + 1]
        /\ files' = files \cup {stream[a].data[next[a] + 1]}
        /\ UNCHANGED <<at, stream, flushed, victim, rows, gcFiles, lost>>
    BY <1>5 DEF PutChunk
  <2>2. next'[a] = next[a] + 1 /\ \A b \in Attempts : next[b] <= next'[b]
    BY <2>1 DEF ProgressInv
  <2>3. CASE c = stream[a].data[next[a] + 1]
    <3>1. next[a] + 1 \in (flushed'[a] + 1)..next'[a]
      BY <2>1, <2>2 DEF ProgressInv
    <3>2. Holds(a, c)'
      BY <2>1, <2>3, <3>1 DEF Holds, Active
    <3> QED
      BY <3>2 DEF Tracked
  <2>4. CASE c \in rows \cup gcFiles \cup lost
    BY <2>1, <2>4 DEF Tracked
  <2>5. ASSUME NEW b \in Attempts, Unlinks(b, c) PROVE Tracked(c)'
    BY <2>1, <2>5 DEF Tracked, Unlinks
  <2>6. ASSUME NEW b \in Attempts, Holds(b, c) PROVE Tracked(c)'
    <3>1. PICK i \in (flushed[b] + 1)..next[b] : stream[b].data[i] = c
      BY <2>6 DEF Holds
    <3>2. i \in (flushed'[b] + 1)..next'[b]
      BY <2>1, <2>2, <3>1 DEF ProgressInv
    <3>3. Holds(b, c)'
      BY <2>1, <2>6, <3>1, <3>2 DEF Holds
    <3> QED
      BY <3>3 DEF Tracked
  <2> QED
    BY <1>a, <2>1, <2>3, <2>4, <2>5, <2>6 DEF Tracked
<1>6. ASSUME NEW a \in Attempts, Flush(a) \/ Finish(a) PROVE Tracked(c)'
  <2>1. /\ at[a] = "chunk" /\ UNCHANGED <<files, stream, next, victim, gcFiles>>
        /\ at' = at \/ at' = [at EXCEPT ![a] = "mark"]
        /\ \/ /\ flushed' = [flushed EXCEPT ![a] = next[a]]
              /\ rows' = rows \cup {stream[a].data[i] : i \in (flushed[a] + 1)..next[a]}
              /\ lost' = lost \ {stream[a].data[i] : i \in (flushed[a] + 1)..next[a]}
           \/ flushed' = flushed /\ rows' = rows /\ lost' = lost
    BY <1>6 DEF Flush, Finish, Record
  <2>2. \A b \in Attempts : at'[b] = at[b] \/ (at[b] # "unlink" /\ at'[b] \in Active)
    BY <2>1 DEF ProgressInv, Active
  <2>3. CASE flushed' = flushed /\ rows' = rows /\ lost' = lost
    BY <1>a, <2>1, <2>2, <2>3, TrackedRows
  <2>4. CASE /\ flushed' = [flushed EXCEPT ![a] = next[a]]
             /\ rows' = rows \cup {stream[a].data[i] : i \in (flushed[a] + 1)..next[a]}
             /\ lost' = lost \ {stream[a].data[i] : i \in (flushed[a] + 1)..next[a]}
    <3>1. CASE c \in rows \cup gcFiles \cup lost
      BY <2>1, <2>4, <3>1 DEF Tracked
    <3>2. CASE Holds(a, c)
      BY <2>4, <3>2 DEF Tracked, Holds
    <3>3. ASSUME NEW b \in Attempts, Unlinks(b, c) PROVE Tracked(c)'
      <4>1. at'[b] = "unlink"
        BY <2>1, <3>3 DEF Unlinks, ProgressInv
      <4> QED
        BY <2>1, <3>3, <4>1 DEF Tracked, Unlinks
    <3>4. ASSUME NEW b \in Attempts, Holds(b, c), b # a PROVE Tracked(c)'
      <4>1. flushed'[b] = flushed[b]
        BY <2>4, <3>4 DEF ProgressInv
      <4>2. Holds(b, c)'
        BY <2>1, <2>2, <3>4, <4>1 DEF Holds
      <4> QED
        BY <4>2 DEF Tracked
    <3> QED
      BY <1>a, <2>1, <3>1, <3>2, <3>3, <3>4 DEF Tracked
  <2> QED
    BY <2>1, <2>3, <2>4
<1>7. ASSUME NEW a \in Attempts, Mark(a) PROVE Tracked(c)'
  <2>1. /\ at[a] = "mark"
        /\ UNCHANGED <<files, stream, next, flushed, victim, rows, gcFiles, lost>>
    BY <1>7 DEF Mark
  <2>2. at' = [at EXCEPT ![a] = "failed"] \/ at' = [at EXCEPT ![a] = "done"]
    BY <1>7 DEF Mark, Abort
  <2>3. flushed[a] = next[a] /\ flushed[a] \in Nat /\ next[a] \in Nat
    BY <2>1 DEF ProgressInv
  <2>4. ~Holds(a, c)
    BY <2>3 DEF Holds
  <2>5. \A b \in Attempts \ {a} : at'[b] = at[b]
    BY <2>2 DEF ProgressInv
  <2>6. CASE c \in rows \cup gcFiles \cup lost
    BY <2>1, <2>6 DEF Tracked
  <2>7. ASSUME NEW b \in Attempts, Unlinks(b, c) PROVE Tracked(c)'
    BY <2>1, <2>5, <2>7 DEF Tracked, Unlinks
  <2>8. ASSUME NEW b \in Attempts, Holds(b, c) PROVE Tracked(c)'
    <3>1. Holds(b, c)'
      BY <2>1, <2>4, <2>5, <2>8 DEF Holds
    <3> QED
      BY <3>1 DEF Tracked
  <2> QED
    BY <1>a, <2>1, <2>6, <2>7, <2>8 DEF Tracked
<1>8. ASSUME NEW a \in Attempts, Fails(a) PROVE Tracked(c)'
  <2>1. UNCHANGED <<files, stream, next, flushed, victim, rows, gcFiles, lost>>
    BY <1>8 DEF Fails
  <2>2. at' = [at EXCEPT ![a] = "failed"] /\ at[a] # "unlink"
    BY <1>8 DEF Fails, Abort
  <2>3. \A b \in Attempts : at'[b] = at[b] \/ (at[b] # "unlink" /\ at'[b] = "failed")
    BY <2>2 DEF ProgressInv
  <2> QED
    BY <1>a, <2>1, <2>3, TrackedRows
<1>14. ASSUME NEW a \in Attempts, Crash(a) PROVE Tracked(c)'
  <2>1. /\ UNCHANGED <<files, stream, next, flushed, victim, rows, gcFiles>>
        /\ at' = [at EXCEPT ![a] = "dead"]
        /\ IF at[a] = "unlink" THEN lost' = lost \cup (({victim[a]} \cap files) \ rows)
                               ELSE lost' = lost
    BY <1>14 DEF Crash, Lost
  <2>2. CASE c \in rows \cup gcFiles \cup lost
    BY <2>1, <2>2 DEF Tracked
  <2>3. CASE Unlinks(a, c)
    BY <2>1, <2>3 DEF Tracked, Unlinks
  <2>4. ASSUME NEW b \in Attempts, Unlinks(b, c) PROVE b = a \/ Tracked(c)'
    BY <2>1, <2>4 DEF Tracked, Unlinks, ProgressInv
  <2>5. ASSUME NEW b \in Attempts, Holds(b, c) PROVE Tracked(c)'
    <3>1. at'[b] = at[b] \/ at'[b] = "dead"
      BY <2>1 DEF ProgressInv
    <3>2. Holds(b, c)'
      BY <2>1, <2>5, <3>1 DEF Holds
    <3> QED
      BY <3>2 DEF Tracked
  <2> QED
    BY <1>a, <2>1, <2>2, <2>3, <2>4, <2>5 DEF Tracked
<1>9. ASSUME NEW E \in SUBSET Nars, Evict(E) PROVE Tracked(c)'
  <2>1. UNCHANGED <<files, stream, next, flushed, victim, at, lost>>
    BY <1>9 DEF Evict
  <2>2. gcFiles = {} /\ rows' = rows \ gcFiles'
    BY <1>9 DEF Evict
  <2> QED
    BY <1>a, <2>1, <2>2, TrackedRows
<1>10. CASE DeleteOrphanFile
  <2>1. UNCHANGED <<stream, next, flushed, victim, at, rows>>
    BY <1>10 DEF DeleteOrphanFile
  <2>2. PICK d \in gcFiles :
           /\ gcFiles' = gcFiles \ {d}
           /\ \/ files' = files \ {d} /\ lost' = lost \ {d}
              \/ files' = files /\ lost' = lost \cup (({d} \cap files) \ rows)
    BY <1>10 DEF DeleteOrphanFile, Lost
  <2> QED
    BY <1>a, <2>1, <2>2, TrackedRows
<1>15. CASE EvictionDies
  <2>1. /\ UNCHANGED <<files, stream, next, flushed, victim, at, rows>>
        /\ lost' = lost \cup ((gcFiles \cap files) \ rows)
    BY <1>15 DEF EvictionDies, Lost
  <2> QED
    BY <1>a, <2>1, TrackedRows
<1>11. ASSUME NEW r \in Readers, Open(r) \/ ReaderStep(r) \/ WaitTimeout(r) PROVE Tracked(c)'
  <2>1. UNCHANGED <<files, stream, next, flushed, victim, at, rows, gcFiles, lost>>
    BY <1>11 DEF Open, ReaderStep, QueryAll, Query, Fetch, CheckRow, WaitTimeout
  <2> QED
    BY <1>a, <2>1, TrackedRows
<1>12. ASSUME NEW n \in Nars, GoesStale(n) PROVE Tracked(c)'
  <2>1. UNCHANGED <<files, stream, next, flushed, victim, at, rows, gcFiles, lost>>
    BY <1>12 DEF GoesStale
  <2> QED
    BY <1>a, <2>1, TrackedRows
<1>13. CASE UNCHANGED vars
  <2>1. UNCHANGED <<files, stream, next, flushed, victim, at, rows, gcFiles, lost>>
    BY <1>13 DEF vars
  <2> QED
    BY <1>a, <2>1, TrackedRows
<1> QED
  BY <1>1, <1>2, <1>3, <1>4, <1>5, <1>6, <1>7, <1>8, <1>9, <1>10, <1>11, <1>12, <1>13,
     <1>14, <1>15
  DEF Next, AttemptStep

\* No chunk file is without a row but one that an attempt has put and not recorded, and
\* one whose deletion is under way, has failed, or was cut short by the death of the
\* process that had deleted the row: for any NARs and sharing of chunks, any attempts
\* that crash, fail, are cut short or take over stale locks, and any eviction between
\* their steps.
THEOREM NoChunkFileLeaks == Spec => []FilesTracked
<1>1. Init => ProgressInv /\ FilesTracked
  BY ProgressInit DEF Init, FilesTracked
<1>2. (ProgressInv /\ FilesTracked) /\ [Next]_vars => (ProgressInv /\ FilesTracked)'
  BY ProgressStep, FilesStep
<1> QED
  BY <1>1, <1>2, PTL DEF Spec

-----------------------------------------------------------------------------
(* Links and files of chunked NARs.                                        *)

\* runLRU leaves chunked NARs alone, and the NARs that attempts chunk have no
\* chunk in common with one another; they may with NARs that are chunked already.
Apart ==
    /\ MaxGC = 0
    /\ \A a, b \in Attempts : NarOf[a] = NarOf[b] \/ Of(NarOf[a]) \cap Of(NarOf[b]) = {}

\* The chunks an attempt is about to delete are linked to no NAR.
DoomedUnlinked ==
    \A a \in Attempts : at[a] = "delete" =>
        \A id \in doomed[a], n \in Nars : id[1] \notin Image(links[n])

\* Of Apart, for attempt a: it is the only one at its NAR, whose row is locked; it
\* deletes orphans of its own NAR, and only before it stores the first chunk; the
\* files of what it stored are there.
Clean(a) ==
    /\ at[a] = "idle" => doomed[a] = {}
    /\ \A id \in doomed[a] : id[1] \in Of(NarOf[a])
    /\ at[a] \in Active =>
         /\ row[NarOf[a]] = "fresh"
         /\ \A b \in Attempts : NarOf[b] = NarOf[a] /\ at[b] \in Active => b = a
         /\ \A i \in 1..Len(stream[a].data) : stream[a].data[i] \in Of(NarOf[a])
         /\ \A i \in 1..next[a] : stream[a].data[i] \in files
    /\ at[a] \in {"orphans", "delete", "unlink"} =>
         next[a] = 0 /\ Image(links[NarOf[a]]) = {}
    /\ at[a] \in {"delete", "unlink"} =>
         \A id \in doomed[a], n \in Nars : id[1] \notin Image(links[n])
    /\ at[a] = "unlink" =>
         victim[a] \in Of(NarOf[a]) /\ \A n \in Nars : victim[a] \notin Image(links[n])

\* Of Apart: no file is missing of a chunk that is linked.
CleanInv ==
    /\ row \in [Nars -> {"absent", "plain", "fresh", "stale", "done"}]
    /\ DOMAIN links = Nars /\ DOMAIN doomed = Attempts
    /\ gcLeft = 0 /\ gcFiles = {}
    /\ \A n \in Nars : Image(links[n]) \subseteq files \cap Of(n)
    /\ \A a \in Attempts : Clean(a)

\* An attempt that a step leaves alone stays Clean when its row, its files and the
\* links to its chunks are left alone and nobody else begins at its NAR.
LEMMA CleanOther ==
    ASSUME NEW a \in Attempts, Clean(a), next[a] <= Len(stream[a].data),
           next[a] \in Nat, Len(stream[a].data) \in Nat,
           at'[a] = at[a], doomed'[a] = doomed[a], stream'[a] = stream[a],
           next'[a] = next[a], victim'[a] = victim[a],
           at[a] \in Active =>
             /\ row'[NarOf[a]] = row[NarOf[a]]
             /\ \A b \in Attempts : NarOf[b] = NarOf[a] /\ at'[b] \in Active => at[b] \in Active
             /\ \A c \in Of(NarOf[a]) : c \in files => c \in files'
             /\ \A c \in Of(NarOf[a]), n \in Nars : c \in Image(links'[n]) => c \in Image(links[n])
             /\ Image(links'[NarOf[a]]) \subseteq Image(links[NarOf[a]])
    PROVE  Clean(a)'
<1> USE DEF Clean
<1>1. at[a] \in {"orphans", "delete", "unlink"} => at[a] \in Active
  BY DEF Active
<1>2. NarOf' = NarOf /\ Of(NarOf[a])' = Of(NarOf[a])
  BY DEF Of, Image
<1>3. /\ at'[a] = "idle" => doomed'[a] = {}
      /\ \A id \in doomed'[a] : id[1] \in Of(NarOf[a])
  OBVIOUS
<1>4. ASSUME at[a] \in Active
      PROVE  /\ row'[NarOf[a]] = "fresh"
             /\ \A b \in Attempts : NarOf[b] = NarOf[a] /\ at'[b] \in Active => b = a
             /\ \A i \in 1..Len(stream[a].data) : stream[a].data[i] \in Of(NarOf[a])
             /\ \A i \in 1..next[a] : stream[a].data[i] \in files'
  <2>1. \A i \in 1..next[a] : i \in 1..Len(stream[a].data)
    OBVIOUS
  <2> QED
    BY <1>4, <2>1
<1>5. at[a] \in {"orphans", "delete", "unlink"} =>
         next[a] = 0 /\ Image(links'[NarOf[a]]) = {}
  BY <1>1
<1>6. at[a] \in {"delete", "unlink"} =>
         \A id \in doomed[a], n \in Nars : id[1] \notin Image(links'[n])
  BY <1>1
<1>7. at[a] = "unlink" =>
         victim[a] \in Of(NarOf[a]) /\ \A n \in Nars : victim[a] \notin Image(links'[n])
  BY <1>1
<1>8. \A n : Image(links[n])' = Image(links'[n])
  BY DEF Image
<1>9. Active' = Active
  BY DEF Active
<1> QED
  BY <1>2, <1>3, <1>4, <1>5, <1>6, <1>7, <1>8, <1>9

\* The deletion of a chunk takes links to it and leaves the others.
LEMMA UnlinkedIs ==
    ASSUME NEW l, NEW C, NEW n \in Nars
    PROVE  /\ DOMAIN Unlinked(l, C) = Nars
           /\ Image(Unlinked(l, C)[n]) \subseteq Image(l[n])
<1> DEFINE u == [i \in {j \in DOMAIN l[n] : l[n][j] \notin C} |-> l[n][i]]
<1>1. DOMAIN Unlinked(l, C) = Nars /\ Unlinked(l, C)[n] = u
  BY DEF Unlinked
<1>2. \A i \in DOMAIN u : i \in DOMAIN l[n] /\ u[i] = l[n][i]
  OBVIOUS
<1> HIDE DEF u
<1> QED
  BY <1>1, <1>2 DEF Image

\* Every step keeps CleanInv.
LEMMA CleanStep ==
    ASSUME Apart, "slow" \notin Faults, ProgressInv, CleanInv, [Next]_vars
    PROVE  CleanInv'
<1> USE CdcChunkingAssumption DEF narVars, chunkVars, attemptVars, gcVars, readerVars
<1>a. \A a \in Attempts :
        /\ NarOf[a] \in Nars /\ Clean(a)
        /\ next[a] \in Nat /\ Len(stream[a].data) \in Nat /\ next[a] <= Len(stream[a].data)
  BY DEF CleanInv, ProgressInv, OfChunks
<1>b. \A n : Of(n)' = Of(n) /\ Image(links[n])' = Image(links'[n])
  BY DEF Of, Image
<1>c. \A a, b \in Attempts : a # b /\ at[a] \in Active /\ at[b] \in Active =>
        NarOf[a] # NarOf[b] /\ Of(NarOf[a]) \cap Of(NarOf[b]) = {}
  BY <1>a DEF Clean, Apart
\* It is enough that the links have their files and the attempts that move are clean.
<1>d. ASSUME row' \in [Nars -> {"absent", "plain", "fresh", "stale", "done"}],
             DOMAIN links' = Nars, DOMAIN doomed' = Attempts,
             UNCHANGED <<gcLeft, gcFiles>>,
             \A n \in Nars : Image(links'[n]) \subseteq files' \cap Of(n),
             \A a \in Attempts : Clean(a)'
      PROVE  CleanInv'
  BY <1>b, <1>d DEF CleanInv
<1>1. ASSUME NEW a \in Attempts, Begin(a) PROVE CleanInv'
  <2> DEFINE n == NarOf[a]
  <2>1. at[a] = "idle" /\ UNCHANGED <<files, next, flushed, victim, gcLeft, gcFiles>>
    BY <1>1 DEF Begin
  <2>2. CASE row[n] \in {"done", "fresh"}
    <3>1. at' = [at EXCEPT ![a] = "skipped"] /\ UNCHANGED <<row, links, stream, doomed>>
      BY <1>1, <2>2 DEF Begin
    <3>2. ASSUME NEW b \in Attempts PROVE Clean(b)'
      <4>1. CASE b = a
        <5>1. at'[a] = "skipped"
          BY <3>1 DEF ProgressInv
        <5> QED
          BY <1>a, <1>b, <3>1, <4>1, <5>1 DEF Clean, Active
      <4>2. CASE b # a
        <5>1. at'[b] = at[b] /\ \A d \in Attempts : at'[d] \in Active => at[d] \in Active
          BY <3>1, <4>2 DEF ProgressInv, Active
        <5> QED
          BY <1>a, <2>1, <3>1, <5>1, CleanOther
      <4> QED
        BY <4>1, <4>2
    <3> QED
      BY <1>d, <2>1, <3>1, <3>2 DEF CleanInv
  <2>3. CASE row[n] \notin {"done", "fresh"}
    <3>1. /\ row' = [row EXCEPT ![n] = "fresh"]
          /\ \E s \in Streams(n) : stream' = [stream EXCEPT ![a] = s]
          /\ at' = [at EXCEPT ![a] = IF doomed'[a] = {} THEN "chunk" ELSE "orphans"]
          /\ \/ /\ doomed' = [doomed EXCEPT ![a] = {ChunkId(c) : c \in Image(links[n])}]
                /\ links' = [links EXCEPT ![n] = Empty]
             \/ UNCHANGED <<doomed, links>>
      BY <1>1, <2>3 DEF Begin
    <3>2. \A b \in Attempts : NarOf[b] = n => at[b] \notin Active
      BY <1>a, <2>3 DEF Clean
    <3>3. Image(Empty) = {} /\ n \in Nars
      BY <1>a DEF Empty, Image
    <3>4. \A m \in Nars : links'[m] = links[m] \/ (m = n /\ Image(links'[m]) = {})
      BY <3>1, <3>3 DEF CleanInv
    <3>5. \A m \in Nars : Image(links'[m]) \subseteq Image(links[m])
      BY <3>4
    <3>6. \A b \in Attempts \ {a} :
            /\ at'[b] = at[b] /\ stream'[b] = stream[b] /\ doomed'[b] = doomed[b]
            /\ NarOf[b] # n => row'[NarOf[b]] = row[NarOf[b]]
      BY <1>a, <3>1, <3>3 DEF CleanInv, ProgressInv
    <3>7. ASSUME NEW b \in Attempts \ {a} PROVE Clean(b)'
      <4>1. at[b] \in Active => NarOf[b] # n
        BY <3>2
      <4>2. at[b] \in Active => row'[NarOf[b]] = row[NarOf[b]]
        BY <3>6, <4>1
      <4>3. at[b] \in Active =>
              \A d \in Attempts : NarOf[d] = NarOf[b] /\ at'[d] \in Active => at[d] \in Active
        BY <3>6, <4>1
      <4>4. at'[b] = at[b] /\ stream'[b] = stream[b] /\ doomed'[b] = doomed[b]
        BY <3>6
      <4> QED
        BY <1>a, <2>1, <3>5, <4>2, <4>3, <4>4, CleanOther
    <3>8. Clean(a)'
      <4>1. at'[a] \in {"chunk", "orphans"} /\ row'[n] = "fresh"
        BY <3>1, <3>3 DEF ProgressInv, CleanInv
      <4>2. next[a] = 0
        BY <2>1 DEF ProgressInv
      <4>3. \A b \in Attempts : NarOf[b] = n /\ at'[b] \in Active => b = a
        BY <3>2, <3>6
      <4>4. PICK s \in Streams(n) : stream'[a] = s
        BY <3>1 DEF ProgressInv
      <4>5. \A i \in 1..Len(stream'[a].data) : stream'[a].data[i] \in Of(n)
        BY <3>3, <4>4, StreamsOf
      <4>6. doomed[a] = {}
        BY <1>a, <2>1 DEF Clean
      <4>7. \A id \in doomed'[a] : id[1] \in Of(n)
        <5>1. Image(links[n]) \subseteq Of(n)
          BY <3>3 DEF CleanInv
        <5>2. \A c : ChunkId(c)[1] = c
          BY DEF ChunkId
        <5> QED
          BY <3>1, <4>6, <5>1, <5>2 DEF CleanInv
      <4>8. at'[a] = "orphans" => Image(links'[n]) = {}
        <5>1. at'[a] = "orphans" => doomed'[a] # {}
          BY <3>1 DEF ProgressInv
        <5> QED
          BY <3>1, <3>3, <4>6, <5>1 DEF CleanInv
      <4> QED
        BY <1>b, <2>1, <4>1, <4>2, <4>3, <4>5, <4>7, <4>8 DEF Clean
    <3>9. \A m \in Nars : Image(links'[m]) \subseteq files' \cap Of(m)
      BY <2>1, <3>5 DEF CleanInv
    <3>10. /\ row' \in [Nars -> {"absent", "plain", "fresh", "stale", "done"}]
           /\ DOMAIN links' = Nars /\ DOMAIN doomed' = Attempts
      BY <3>1, <3>3 DEF CleanInv
    <3> QED
      BY <1>d, <2>1, <3>7, <3>8, <3>9, <3>10
  <2> QED
    BY <2>2, <2>3
<1>2. ASSUME NEW a \in Attempts, FindOrphans(a) PROVE CleanInv'
  <2>1. /\ at[a] = "orphans" /\ at[a] \in Active
        /\ UNCHANGED <<row, links, files, stream, next, flushed, victim, gcLeft, gcFiles>>
    BY <1>2 DEF FindOrphans, Active
  <2>2. /\ doomed' = [doomed EXCEPT ![a] = doomed'[a]]
        /\ doomed'[a] \subseteq doomed[a]
        /\ \A id \in doomed'[a] : \E c \in Orphans(links) : id = ChunkId(c)
    BY <1>2 DEF FindOrphans, CleanInv
  <2>3. PICK state \in {"chunk", "delete"} : at' = [at EXCEPT ![a] = state]
    BY <1>2 DEF FindOrphans
  <2>4. \A d \in Attempts : at'[d] \in Active => at[d] \in Active
    BY <2>1, <2>3 DEF ProgressInv
  <2>5. ASSUME NEW b \in Attempts \ {a} PROVE Clean(b)'
    <3>1. at'[b] = at[b] /\ doomed'[b] = doomed[b]
      BY <2>2, <2>3 DEF ProgressInv, CleanInv
    <3> QED
      BY <1>a, <2>1, <2>4, <3>1, CleanOther
  <2>6. Clean(a)'
    <3>1. \A id \in doomed'[a], n \in Nars : id[1] \notin Image(links[n])
      BY <2>2 DEF ChunkId, Orphans
    <3>2. at'[a] \in {"chunk", "delete"}
      BY <2>3 DEF ProgressInv
    <3> QED
      BY <1>a, <1>b, <2>1, <2>2, <2>4, <3>1, <3>2 DEF Clean
  <2> QED
    BY <1>d, <2>1, <2>2, <2>5, <2>6 DEF CleanInv
<1>3. ASSUME NEW a \in Attempts, DeleteChunkRow(a) PROVE CleanInv'
  <2>1. /\ at[a] = "delete" /\ at[a] \in Active
        /\ UNCHANGED <<row, files, stream, next, flushed, gcLeft, gcFiles>>
    BY <1>3 DEF DeleteChunkRow, Active
  <2>2. PICK id \in doomed[a] :
          /\ doomed' = [doomed EXCEPT ![a] = @ \ {id}]
          /\ \/ /\ links' = Unlinked(links, {id[1]}) \/ links' = links
                /\ victim' = [victim EXCEPT ![a] = id[1]]
                /\ at' = [at EXCEPT ![a] = "unlink"]
             \/ /\ at' = [at EXCEPT ![a] = "chunk"] \/ at' = [at EXCEPT ![a] = "delete"]
                /\ UNCHANGED <<links, victim>>
    BY <1>3 DEF DeleteChunkRow
  <2>3. DOMAIN links' = Nars /\ \A n \in Nars : Image(links'[n]) \subseteq Image(links[n])
    <3>1. CASE links' = links
      BY <3>1 DEF CleanInv
    <3>2. CASE links' = Unlinked(links, {id[1]})
      <4>1. \A n \in Nars : /\ DOMAIN Unlinked(links, {id[1]}) = Nars
                            /\ Image(Unlinked(links, {id[1]})[n]) \subseteq Image(links[n])
        BY UnlinkedIs
      <4> QED
        BY <1>a, <3>2, <4>1
    <3> QED
      BY <2>2, <3>1, <3>2
  <2>4. /\ \A d \in Attempts : at'[d] \in Active => at[d] \in Active
        /\ \A d \in Attempts \ {a} : at'[d] = at[d] /\ doomed'[d] = doomed[d] /\ victim'[d] = victim[d]
        /\ DOMAIN doomed' = Attempts /\ doomed'[a] \subseteq doomed[a]
        /\ at'[a] \in {"unlink", "chunk", "delete"} /\ (at'[a] = "unlink" => victim'[a] = id[1])
    BY <2>1, <2>2, ZenonT(40) DEF ProgressInv, CleanInv
  <2>5. ASSUME NEW b \in Attempts \ {a} PROVE Clean(b)'
    BY <1>a, <2>1, <2>3, <2>4, CleanOther
  <2>6. Clean(a)'
    <3>1. /\ next[a] = 0 /\ Image(links[NarOf[a]]) = {}
          /\ \A d \in doomed[a] : d[1] \in Of(NarOf[a]) /\ \A n \in Nars : d[1] \notin Image(links[n])
      BY <1>a, <2>1 DEF Clean
    <3>2. /\ Image(links'[NarOf[a]]) = {}
          /\ \A d \in doomed[a], n \in Nars : d[1] \notin Image(links'[n])
      BY <1>a, <2>3, <3>1
    <3> QED
      BY <1>a, <1>b, <2>1, <2>4, <3>1, <3>2 DEF Clean, Active
  <2>7. \A n \in Nars : Image(links'[n]) \subseteq files' \cap Of(n)
    BY <2>1, <2>3 DEF CleanInv
  <2> QED
    BY <1>d, <2>1, <2>3, <2>4, <2>5, <2>6, <2>7 DEF CleanInv
<1>4. ASSUME NEW a \in Attempts, DeleteChunkFile(a) PROVE CleanInv'
  <2>1. /\ at[a] = "unlink" /\ at[a] \in Active
        /\ UNCHANGED <<row, links, stream, next, flushed, doomed, gcLeft, gcFiles>>
        /\ files' = files \ {victim[a]} \/ files' = files
        /\ victim' = [victim EXCEPT ![a] = 0]
    BY <1>4 DEF DeleteChunkFile, Active
  <2>2. /\ victim[a] \in Of(NarOf[a]) /\ \A n \in Nars : victim[a] \notin Image(links[n])
        /\ next[a] = 0 /\ Image(links[NarOf[a]]) = {}
    BY <1>a, <2>1 DEF Clean
  <2>3. PICK state \in {"chunk", "delete"} : at' = [at EXCEPT ![a] = state]
    BY <1>4 DEF DeleteChunkFile
  <2>4. /\ \A d \in Attempts : at'[d] \in Active => at[d] \in Active
        /\ \A d \in Attempts \ {a} : at'[d] = at[d] /\ victim'[d] = victim[d]
        /\ at'[a] = state
    BY <2>1, <2>3 DEF ProgressInv
  <2>5. ASSUME NEW b \in Attempts \ {a} PROVE Clean(b)'
    <3>1. at[b] \in Active => victim[a] \notin Of(NarOf[b])
      BY <1>c, <2>1, <2>2
    <3>2. at[b] \in Active => \A c \in Of(NarOf[b]) : c \in files => c \in files'
      BY <2>1, <3>1
    <3> QED
      BY <1>a, <2>1, <2>4, <3>2, CleanOther
  <2>6. \A n \in Nars : Image(links'[n]) \subseteq files' \cap Of(n)
    BY <2>1, <2>2 DEF CleanInv
  <2>7. Clean(a)'
    BY <1>a, <1>b, <2>1, <2>2, <2>4 DEF Clean, Active
  <2> QED
    BY <1>d, <2>1, <2>5, <2>6, <2>7 DEF CleanInv
<1>5. ASSUME NEW a \in Attempts, PutChunk(a) PROVE CleanInv'
  <2>1. /\ at[a] = "chunk" /\ at[a] \in Active /\ next[a] < Len(stream[a].data)
        /\ next' = [next EXCEPT ![a] = next[a] + 1]
        /\ files' = files \cup {stream[a].data[next[a] + 1]}
        /\ UNCHANGED <<row, links, at, stream, flushed, doomed, victim, gcLeft, gcFiles>>
    BY <1>5 DEF PutChunk, Active
  <2>2. next'[a] = next[a] + 1 /\ \A b \in Attempts \ {a} : next'[b] = next[b]
    BY <2>1 DEF ProgressInv
  <2>3. ASSUME NEW b \in Attempts \ {a} PROVE Clean(b)'
    BY <1>a, <2>1, <2>2, CleanOther
  <2>4. Clean(a)'
    <3>1. \A i \in 1..next'[a] : i \in 1..next[a] \/ i = next[a] + 1
      BY <1>a, <2>2
    <3>2. \A i \in 1..next'[a] : stream[a].data[i] \in files'
      BY <1>a, <2>1, <3>1 DEF Clean
    <3> QED
      BY <1>a, <1>b, <2>1, <3>2 DEF Clean
  <2>5. \A n \in Nars : Image(links'[n]) \subseteq files' \cap Of(n)
    BY <2>1 DEF CleanInv
  <2> QED
    BY <1>d, <2>1, <2>3, <2>4, <2>5 DEF CleanInv
<1>6. ASSUME NEW a \in Attempts, Flush(a) \/ Finish(a) PROVE CleanInv'
  <2> DEFINE n == NarOf[a]
             new == {stream[a].data[i] : i \in (flushed[a] + 1)..next[a]}
  <2>1. /\ at[a] = "chunk" /\ at[a] \in Active
        /\ UNCHANGED <<row, files, stream, next, doomed, victim, gcLeft, gcFiles>>
        /\ at' = at \/ at' = [at EXCEPT ![a] = "mark"]
    BY <1>6 DEF Flush, Finish, Active
  <2>2. \/ links' = links
        \/ links' = [links EXCEPT ![n] =
                       [i \in DOMAIN links[n] \cup (flushed[a] + 1)..next[a] |->
                          IF i \in DOMAIN links[n] THEN links[n][i] ELSE stream[a].data[i]]]
    BY <1>6 DEF Flush, Finish, Record
  <2>3. new \subseteq files \cap Of(n)
    <3>1. \A i \in (flushed[a] + 1)..next[a] : i \in 1..next[a]
      BY <1>a DEF ProgressInv
    <3>2. \A i \in 1..next[a] : i \in 1..Len(stream[a].data)
      BY <1>a DEF ProgressInv, OfChunks
    <3> QED
      BY <1>a, <2>1, <3>1, <3>2 DEF Clean
  <2>4. /\ DOMAIN links' = Nars
        /\ \A m \in Nars \ {n} : links'[m] = links[m]
        /\ Image(links'[n]) \subseteq Image(links[n]) \cup new
    <3>1. CASE links' = links
      BY <3>1 DEF CleanInv
    <3>2. CASE links' = [links EXCEPT ![n] =
                           [i \in DOMAIN links[n] \cup (flushed[a] + 1)..next[a] |->
                              IF i \in DOMAIN links[n] THEN links[n][i] ELSE stream[a].data[i]]]
      <4>1. n \in Nars
        BY <1>a
      <4>2. links'[n] = [i \in DOMAIN links[n] \cup (flushed[a] + 1)..next[a] |->
                           IF i \in DOMAIN links[n] THEN links[n][i] ELSE stream[a].data[i]]
        BY <3>2, <4>1 DEF CleanInv
      <4>3. Image(links'[n]) \subseteq Image(links[n]) \cup new
        <5>1. ASSUME NEW i \in DOMAIN links'[n]
              PROVE  links'[n][i] \in Image(links[n]) \cup new
          <6>1. CASE i \in DOMAIN links[n]
            BY <4>2, <6>1 DEF Image
          <6>2. CASE i \notin DOMAIN links[n] /\ i \in (flushed[a] + 1)..next[a]
            BY <4>2, <6>2
          <6> QED
            BY <4>2, <6>1, <6>2
        <5> HIDE DEF new, n
        <5> QED
          BY <5>1 DEF Image
      <4> QED
        BY <3>2, <4>3 DEF CleanInv
    <3> QED
      BY <2>2, <3>1, <3>2
  <2> HIDE DEF new
  <2>5. \A m \in Nars : Image(links'[m]) \subseteq files' \cap Of(m)
    BY <2>1, <2>3, <2>4 DEF CleanInv
  <2>6. /\ \A d \in Attempts : at'[d] \in Active => at[d] \in Active
        /\ \A d \in Attempts \ {a} : at'[d] = at[d]
        /\ at'[a] \in {"chunk", "mark"}
    BY <2>1 DEF ProgressInv
  <2>7. ASSUME NEW b \in Attempts \ {a} PROVE Clean(b)'
    <3>1. at[b] \in Active =>
             /\ \A c \in Of(NarOf[b]), m \in Nars : c \in Image(links'[m]) => c \in Image(links[m])
             /\ Image(links'[NarOf[b]]) \subseteq Image(links[NarOf[b]])
      BY <1>a, <1>c, <2>1, <2>3, <2>4
    <3> QED
      BY <1>a, <2>1, <2>6, <3>1, CleanOther
  <2>8. Clean(a)'
    BY <1>a, <1>b, <2>1, <2>6 DEF Clean, Active
  <2> QED
    BY <1>d, <2>1, <2>4, <2>5, <2>7, <2>8 DEF CleanInv
<1>7. ASSUME NEW a \in Attempts, Mark(a) \/ Fails(a) \/ Crash(a) PROVE CleanInv'
  <2>1. /\ at[a] \in Active
        /\ UNCHANGED <<links, files, stream, next, doomed, victim, gcLeft, gcFiles>>
    BY <1>7 DEF Mark, Fails, Crash, Active
  <2>2. PICK state \in {"done", "failed", "dead"} : at' = [at EXCEPT ![a] = state]
    BY <1>7 DEF Mark, Fails, Crash, Abort
  <2>3. PICK new \in {"plain", "done", row[NarOf[a]]} : row' = [row EXCEPT ![NarOf[a]] = new]
    BY <1>7 DEF Mark, Fails, Crash, Abort, CleanInv
  <2>4. /\ \A d \in Attempts : at'[d] \in Active => at[d] \in Active
        /\ \A d \in Attempts \ {a} : at'[d] = at[d]
        /\ at'[a] = state
    BY <2>1, <2>2 DEF ProgressInv
  <2>5. ASSUME NEW b \in Attempts \ {a} PROVE Clean(b)'
    <3>1. at[b] \in Active => row'[NarOf[b]] = row[NarOf[b]]
      BY <1>a, <1>c, <2>1, <2>3 DEF CleanInv
    <3> QED
      BY <1>a, <2>1, <2>4, <3>1, CleanOther
  <2>6. Clean(a)'
    BY <1>a, <1>b, <2>1, <2>4 DEF Clean, Active
  <2>7. row' \in [Nars -> {"absent", "plain", "fresh", "stale", "done"}]
    BY <1>a, <2>3 DEF CleanInv
  <2> QED
    BY <1>d, <2>1, <2>5, <2>6, <2>7 DEF CleanInv
<1>8. ASSUME NEW E \in SUBSET Nars PROVE ~Evict(E)
  BY DEF Evict, CleanInv
<1>9. ~DeleteOrphanFile /\ ~EvictionDies
  BY DEF DeleteOrphanFile, EvictionDies, CleanInv
<1>10. ASSUME NEW n \in Nars, GoesStale(n) PROVE CleanInv'
  <2>1. /\ row' = [row EXCEPT ![n] = "stale"]
        /\ \A a \in Attempts : NarOf[a] = n => at[a] \notin Active
        /\ UNCHANGED <<links, files, at, stream, next, doomed, victim, gcLeft, gcFiles>>
    BY <1>10 DEF GoesStale
  <2>2. ASSUME NEW b \in Attempts PROVE Clean(b)'
    <3>1. at[b] \in Active => row'[NarOf[b]] = row[NarOf[b]]
      BY <1>a, <2>1 DEF CleanInv
    <3> QED
      BY <1>a, <2>1, <3>1, CleanOther
  <2> QED
    BY <1>d, <2>1, <2>2 DEF CleanInv
<1>11. ASSUME UNCHANGED <<row, links, files, at, stream, next, doomed, victim, gcLeft, gcFiles>>
       PROVE  CleanInv'
  <2>1. ASSUME NEW b \in Attempts PROVE Clean(b)'
    BY <1>a, <1>11, CleanOther
  <2> QED
    BY <1>d, <1>11, <2>1 DEF CleanInv
<1>12. ASSUME NEW r \in Readers, Open(r) \/ ReaderStep(r) \/ WaitTimeout(r) PROVE CleanInv'
  <2>1. UNCHANGED <<row, links, files, at, stream, next, doomed, victim, gcLeft, gcFiles>>
    BY <1>12 DEF Open, ReaderStep, QueryAll, Query, Fetch, CheckRow, WaitTimeout
  <2> QED
    BY <1>11, <2>1
<1>13. CASE UNCHANGED vars
  BY <1>11, <1>13 DEF vars
<1> QED
  BY <1>1, <1>2, <1>3, <1>4, <1>5, <1>6, <1>7, <1>8, <1>9, <1>10, <1>12, <1>13
  DEF Next, AttemptStep

\* CleanInv holds at first.
LEMMA CleanInit == Apart /\ Init => CleanInv
<1> SUFFICES ASSUME Apart, Init PROVE CleanInv
  OBVIOUS
<1>1. \A a \in Attempts : Clean(a)
  BY DEF Init, Clean, Active
<1>2. ASSUME NEW n \in Nars PROVE Image(links[n]) \subseteq files \cap Of(n)
  <2>1. CASE n \in Chunked
    BY <2>1 DEF Init, Of
  <2>2. CASE n \notin Chunked
    <3>1. Image(links[n]) = {}
      BY <2>2 DEF Init, Empty, Image
    <3> QED
      BY <3>1
  <2> QED
    BY <2>1, <2>2
<1>3. gcLeft = 0
  BY DEF Init, Apart
<1> QED
  BY <1>1, <1>2, <1>3 DEF Init, CleanInv

\* A chunked NAR has all its files, and whoever retries the chunking of another one
\* deletes none of them: for any number of chunked NARs that share chunks with one
\* another and with those being chunked, any number of attempts and of NARs they
\* are at, that die, fail, are cut short, take over and clean up after one another,
\* and any failures of the store.  What it takes: no eviction, whose deletions after
\* the commit may meet a chunk that has been stored again; attempts at different
\* NARs that share no chunk, for the cleanup of the one may meet what the other has
\* just stored; and no attempt that outlives cdcChunkingLockTTL.
THEOREM ChunkFilesStay ==
    ASSUME Apart, "slow" \notin Faults
    PROVE  Spec => []ChunkFilesPresent
<1>1. Init => ProgressInv /\ CleanInv
  BY ProgressInit, CleanInit
<1>2. (ProgressInv /\ CleanInv) /\ [Next]_vars => (ProgressInv /\ CleanInv)'
  BY ProgressStep, CleanStep
<1>3. CleanInv => ChunkFilesPresent
  BY DEF CleanInv, ChunkFilesPresent
<1> QED
  BY <1>1, <1>2, <1>3, PTL DEF Spec

-----------------------------------------------------------------------------
(* Links of chunked NARs.                                                  *)

\* An attempt that begins ends, and takes its lock back when it fails.
NoneDies == "crash" \notin Faults /\ "store" \notin Faults

\* An attempt ends within cdcChunkingLockTTL; a stream that ends early does so with
\* an error, and is not taken for complete where the size is known.
Faithful ==
    /\ "slow" \notin Faults
    /\ "truncate" \notin Faults
    /\ Sized = Attempts \/ "readError" \notin Faults

\* Of NoneDies: no lock is ever without its attempt, so none is taken over.
OwnedInv ==
    /\ row \in [Nars -> {"absent", "plain", "fresh", "done"}]
    /\ doomed = [a \in Attempts |-> {}] /\ DOMAIN aid = Attempts
    /\ \A a \in Attempts : at[a] \notin {"orphans", "delete", "unlink", "dead"}
    /\ \A n \in Nars : row[n] = "fresh" =>
         \E a \in Attempts : NarOf[a] = n /\ at[a] \in {"chunk", "mark"} /\ HasRow(a)

\* Every step keeps OwnedInv.
LEMMA OwnedStep ==
    ASSUME NoneDies, "slow" \notin Faults, ProgressInv, OwnedInv, [Next]_vars
    PROVE  OwnedInv'
<1> USE CdcChunkingAssumption DEF narVars, chunkVars, attemptVars, gcVars, readerVars
<1> DEFINE Owner(a, n) == NarOf[a] = n /\ at[a] \in {"chunk", "mark"} /\ HasRow(a)
<1>a. \A n \in Nars : row[n] = "fresh" => \E a \in Attempts : Owner(a, n)
  BY DEF OwnedInv
<1>b. ASSUME row' \in [Nars -> {"absent", "plain", "fresh", "done"}],
             doomed' = [a \in Attempts |-> {}], DOMAIN aid' = Attempts,
             \A a \in Attempts : at'[a] \notin {"orphans", "delete", "unlink", "dead"},
             \A n \in Nars : row'[n] = "fresh" => \E a \in Attempts : Owner(a, n)'
      PROVE  OwnedInv'
  BY <1>b DEF OwnedInv
<1>1. ASSUME NEW a \in Attempts, Begin(a) PROVE OwnedInv'
  <2>1. CASE row[NarOf[a]] \in {"done", "fresh"}
    <3>1. /\ at[a] = "idle" /\ at' = [at EXCEPT ![a] = "skipped"]
          /\ UNCHANGED <<row, narId, aid, doomed>>
      BY <1>1, <2>1 DEF Begin
    <3>2. \A b \in Attempts, n \in Nars : Owner(b, n) => Owner(b, n)'
      BY <3>1 DEF HasRow, ProgressInv
    <3> HIDE DEF Owner
    <3> QED
      BY <1>a, <1>b, <3>1, <3>2 DEF OwnedInv, ProgressInv
  <2>2. CASE row[NarOf[a]] \notin {"done", "fresh"}
    <3>1. /\ at[a] = "idle" /\ NarOf[a] \in Nars
          /\ row[NarOf[a]] # "stale"
      BY <1>1, ZenonT(40) DEF Begin, OwnedInv
    <3>2. /\ aid' = [aid EXCEPT ![a] = narId[NarOf[a]]]
          /\ row' = [row EXCEPT ![NarOf[a]] = "fresh"]
          /\ UNCHANGED <<narId, doomed>>
          /\ at' = [at EXCEPT ![a] = IF doomed'[a] = {} THEN "chunk" ELSE "orphans"]
      BY <1>1, <2>2, <3>1 DEF Begin
    <3>3. at' = [at EXCEPT ![a] = "chunk"]
      BY <3>2 DEF OwnedInv
    <3>4. \A b \in Attempts \ {a}, n \in Nars : Owner(b, n) => Owner(b, n)'
      BY <3>1, <3>2, <3>3 DEF HasRow, ProgressInv, OwnedInv
    <3>5. Owner(a, NarOf[a])'
      BY <3>1, <3>2, <3>3 DEF HasRow, ProgressInv, OwnedInv
    <3>6. \A n \in Nars : ~Owner(a, n)
      BY <3>1
    <3>7. \A n \in Nars : row'[n] = "fresh" => n = NarOf[a] \/ row[n] = "fresh"
      BY <3>2 DEF OwnedInv
    <3>8. /\ row' \in [Nars -> {"absent", "plain", "fresh", "done"}]
          /\ \A b \in Attempts : at'[b] \notin {"orphans", "delete", "unlink", "dead"}
      BY <3>1, <3>2, <3>3 DEF OwnedInv, ProgressInv
    <3> HIDE DEF Owner
    <3>9. ASSUME NEW n \in Nars, row'[n] = "fresh" PROVE \E b \in Attempts : Owner(b, n)'
      <4>1. CASE n = NarOf[a]
        BY <3>5, <4>1
      <4>2. CASE row[n] = "fresh"
        BY <1>a, <3>4, <3>6, <4>2
      <4> QED
        BY <3>7, <3>9, <4>1, <4>2
    <3>10. doomed' = [b \in Attempts |-> {}] /\ DOMAIN aid' = Attempts
      BY <3>2 DEF OwnedInv
    <3> QED
      BY <1>b, <3>8, <3>9, <3>10
  <2> QED
    BY <2>1, <2>2
<1>2. ASSUME NEW a \in Attempts PROVE ~FindOrphans(a) /\ ~DeleteChunkRow(a) /\ ~DeleteChunkFile(a)
  BY DEF FindOrphans, DeleteChunkRow, DeleteChunkFile, OwnedInv
<1>3. ASSUME NEW a \in Attempts, PutChunk(a) \/ Flush(a) \/ Finish(a) PROVE OwnedInv'
  <2>1. /\ at[a] = "chunk" /\ UNCHANGED <<row, narId, aid, doomed>>
        /\ at' = at \/ at' = [at EXCEPT ![a] = "mark"]
    BY <1>3 DEF PutChunk, Flush, Finish
  <2>2. \A b \in Attempts, n \in Nars : Owner(b, n) => Owner(b, n)'
    BY <2>1 DEF HasRow, ProgressInv
  <2> HIDE DEF Owner
  <2> QED
    BY <1>a, <1>b, <2>1, <2>2, SMTT(40) DEF OwnedInv, ProgressInv
<1>4. ASSUME NEW a \in Attempts, Mark(a) \/ Fails(a) PROVE OwnedInv'
  <2>1. UNCHANGED <<narId, aid, doomed>> /\ NarOf[a] \in Nars
    BY <1>4 DEF Mark, Fails, Abort
  <2>2. at' = [at EXCEPT ![a] = "done"] \/ at' = [at EXCEPT ![a] = "failed"]
    BY <1>4 DEF Mark, Fails, Abort
  <2>3. \/ row' = row /\ (HasRow(a) => row[NarOf[a]] # "fresh")
        \/ row' = [row EXCEPT ![NarOf[a]] = "plain"]
        \/ row' = [row EXCEPT ![NarOf[a]] = "done"]
    <3>1. CASE Abort(a)
      <4>1. row' = [row EXCEPT ![NarOf[a]] =
                       IF HasRow(a) /\ @ \in {"fresh", "stale"} THEN "plain" ELSE @]
        BY <3>1 DEF Abort, NoneDies
      <4> QED
        BY <2>1, <4>1, ZenonT(60) DEF OwnedInv
    <3>2. CASE ~Abort(a)
      BY <1>4, <3>2 DEF Mark, Fails
    <3> QED
      BY <3>1, <3>2
  <2>4. row' \in [Nars -> {"absent", "plain", "fresh", "done"}]
    BY <2>1, <2>3, ZenonT(60) DEF OwnedInv
  <2>5. ASSUME NEW n \in Nars, row'[n] = "fresh" PROVE \E b \in Attempts : Owner(b, n)'
    <3>1. row[n] = "fresh" /\ (n = NarOf[a] => ~HasRow(a) /\ row' = row)
      BY <2>1, <2>3, <2>5 DEF OwnedInv
    <3>2. PICK b \in Attempts : Owner(b, n)
      BY <1>a, <3>1
    <3>3. b # a
      BY <3>1, <3>2
    <3>4. at'[b] = at[b] /\ row'[n] = row[n]
      BY <2>2, <2>5, <3>1, <3>3 DEF ProgressInv
    <3> QED
      BY <2>1, <3>2, <3>4 DEF HasRow
  <2>6. \A b \in Attempts : at'[b] \notin {"orphans", "delete", "unlink", "dead"}
    BY <2>2 DEF OwnedInv, ProgressInv
  <2> HIDE DEF Owner
  <2> QED
    BY <1>b, <2>1, <2>4, <2>5, <2>6 DEF OwnedInv
<1>5. ASSUME NEW a \in Attempts PROVE ~Crash(a)
  BY DEF Crash, NoneDies
<1>6. ASSUME NEW E \in SUBSET Nars, Evict(E) PROVE OwnedInv'
  <2>1. /\ row' = [n \in Nars |-> IF n \in E THEN "absent" ELSE row[n]]
        /\ narId' = [n \in Nars |-> IF n \in E THEN narId[n] + 1 ELSE narId[n]]
        /\ UNCHANGED <<at, aid, doomed>>
    BY <1>6 DEF Evict
  <2>2. \A n \in Nars : row'[n] = "fresh" =>
          /\ row[n] = "fresh"
          /\ \A b \in Attempts : Owner(b, n) => Owner(b, n)'
    BY <2>1 DEF HasRow
  <2>3. row' \in [Nars -> {"absent", "plain", "fresh", "done"}]
    BY <2>1 DEF OwnedInv
  <2> HIDE DEF Owner
  <2> QED
    BY <1>a, <1>b, <2>1, <2>2, <2>3 DEF OwnedInv
<1>7. ASSUME NEW n \in Nars PROVE ~GoesStale(n)
  <2>1. row[n] = "fresh" => \E a \in Attempts : NarOf[a] = n /\ at[a] \in Active
    BY <1>a DEF Active
  <2> QED
    BY <2>1 DEF GoesStale
<1>8. ASSUME UNCHANGED <<row, narId, at, aid, doomed>> PROVE OwnedInv'
  BY <1>8 DEF OwnedInv, HasRow
<1>9. CASE DeleteOrphanFile \/ EvictionDies
  BY <1>8, <1>9 DEF DeleteOrphanFile, EvictionDies
<1>10. ASSUME NEW r \in Readers, Open(r) \/ ReaderStep(r) \/ WaitTimeout(r) PROVE OwnedInv'
  <2>1. UNCHANGED <<row, narId, at, aid, doomed>>
    BY <1>10 DEF Open, ReaderStep, QueryAll, Query, Fetch, CheckRow, WaitTimeout
  <2> QED
    BY <1>8, <2>1
<1>11. CASE UNCHANGED vars
  BY <1>8, <1>11 DEF vars
<1> QED
  BY <1>1, <1>2, <1>3, <1>4, <1>5, <1>6, <1>7, <1>9, <1>10, <1>11
  DEF Next, AttemptStep

\* The first m links of NAR n.
Prefix(n, m) == [i \in 1..m |-> Content[n][i]]

\* The links of NAR n are to the first of its chunks, to all of them when it is
\* chunked.
NarLinks(n) ==
    /\ \E m \in 0..Len(Content[n]) : links[n] = Prefix(n, m)
    /\ row[n] = "done" => links[n] = Prefix(n, Len(Content[n]))
    /\ total[n] = IF row[n] = "done" THEN Len(Content[n]) ELSE 0
    /\ row[n] = "stale" => \A a \in Attempts : NarOf[a] = n => at[a] \notin Active

\* Attempt a has linked what it flushed if it still has its row, and reads the
\* beginning of its NAR, or all of it where nobody told it the size.
AttemptLinks(a) ==
    at[a] \in Active =>
      /\ Len(stream[a].data) <= Len(Content[NarOf[a]])
      /\ \A i \in 1..Len(stream[a].data) : stream[a].data[i] = Content[NarOf[a]][i]
      /\ a \notin Sized => stream[a].data = Content[NarOf[a]]
      /\ aid[a] <= narId[NarOf[a]]
      /\ row[NarOf[a]] = "absent" => aid[a] < narId[NarOf[a]]
      /\ HasRow(a) => 1..flushed[a] \subseteq DOMAIN links[NarOf[a]]
      /\ at[a] = "mark" => next[a] = Len(stream[a].data)

\* What the rows and the links say, of every NAR and of every attempt at one.
LinkInv ==
    /\ row \in [Nars -> {"absent", "plain", "fresh", "stale", "done"}]
    /\ narId \in [Nars -> Nat] /\ aid \in [Attempts -> Nat]
    /\ DOMAIN total = Nars /\ links = [n \in Nars |-> links[n]]
    /\ \A n \in Nars : NarLinks(n)
    /\ \A a \in Attempts : AttemptLinks(a)

\* A NAR whose row and links a step leaves alone, and at which nobody begins.
LEMMA NarLinksSame ==
    ASSUME NEW n \in Nars, NarLinks(n),
           row'[n] = row[n], total'[n] = total[n], links'[n] = links[n],
           row[n] = "stale" =>
             \A a \in Attempts : NarOf[a] = n /\ at'[a] \in Active => at[a] \in Active
    PROVE  NarLinks(n)'
<1>1. Active' = Active /\ \A m : Prefix(n, m)' = Prefix(n, m)
  BY DEF Active, Prefix
<1> QED
  BY <1>1 DEF NarLinks

\* An attempt that is not moved forward, and that has its row after a step only if
\* it had it before and its links are still there.
LEMMA AttemptLinksSame ==
    ASSUME NEW a \in Attempts, AttemptLinks(a),
           at'[a] \in Active => at[a] \in Active /\ (at'[a] = "mark" => at[a] = "mark"),
           stream'[a] = stream[a], next'[a] = next[a], flushed'[a] = flushed[a],
           aid'[a] = aid[a],
           at[a] \in Active =>
             /\ aid[a] <= narId'[NarOf[a]]
             /\ row'[NarOf[a]] = "absent" => aid[a] < narId'[NarOf[a]]
             /\ HasRow(a)' => HasRow(a) /\ DOMAIN links[NarOf[a]] \subseteq DOMAIN links'[NarOf[a]]
    PROVE  AttemptLinks(a)'
<1>1. Active' = Active
  BY DEF Active
<1> QED
  BY <1>1 DEF AttemptLinks

\* The deletion of a chunk that is not linked takes no link.
LEMMA UnlinkedSame ==
    ASSUME NEW l, NEW C, NEW n \in Nars, NEW m \in Nat, l[n] = Prefix(n, m),
           Image(l[n]) \cap C = {}
    PROVE  Unlinked(l, C)[n] = l[n]
<1>1. \A i \in DOMAIN l[n] : l[n][i] \notin C
  BY DEF Image
<1>2. {j \in DOMAIN l[n] : l[n][j] \notin C} = DOMAIN l[n]
  BY <1>1
<1>3. Unlinked(l, C)[n] = [i \in DOMAIN l[n] |-> l[n][i]]
  BY <1>2 DEF Unlinked
<1> QED
  BY <1>3 DEF Prefix

\* Every step keeps LinkInv.
LEMMA LinkStep ==
    ASSUME Faithful, ProgressInv, DoomedUnlinked, LinkInv, [Next]_vars
    PROVE  LinkInv'
<1> USE CdcChunkingAssumption DEF narVars, chunkVars, attemptVars, gcVars, readerVars
<1>a. \A a \in Attempts :
        /\ NarOf[a] \in Nars /\ AttemptLinks(a)
        /\ next[a] \in Nat /\ flushed[a] \in Nat /\ Len(stream[a].data) \in Nat
        /\ flushed[a] <= next[a] /\ next[a] <= Len(stream[a].data)
        /\ aid[a] \in Nat /\ narId[NarOf[a]] \in Nat
  BY DEF LinkInv, ProgressInv, OfChunks
<1>b. \A n \in Nars : NarLinks(n) /\ Len(Content[n]) \in Nat /\ Len(Content[n]) > 0
  BY DEF LinkInv
<1>c. ASSUME row' \in [Nars -> {"absent", "plain", "fresh", "stale", "done"}],
             narId' \in [Nars -> Nat], aid' \in [Attempts -> Nat],
             DOMAIN total' = Nars, links' = [n \in Nars |-> links'[n]],
             \A n \in Nars : NarLinks(n)', \A a \in Attempts : AttemptLinks(a)'
      PROVE  LinkInv'
  BY <1>c DEF LinkInv
<1>d. Active' = Active /\ \A n, m : Prefix(n, m)' = Prefix(n, m)
  BY DEF Active, Prefix
\* A step that leaves the tables alone and moves no attempt forward.
<1>e. ASSUME UNCHANGED <<row, narId, total, aid, links, stream, next, flushed>>,
             \A a \in Attempts :
                at'[a] \in Active => at[a] \in Active /\ (at'[a] = "mark" => at[a] = "mark")
      PROVE  LinkInv'
  <2>1. \A n \in Nars : NarLinks(n)'
    BY <1>b, <1>e, NarLinksSame
  <2>2. ASSUME NEW a \in Attempts PROVE AttemptLinks(a)'
    <3>1. HasRow(a)' <=> HasRow(a)
      BY <1>e DEF HasRow
    <3> QED
      BY <1>a, <1>e, <3>1, AttemptLinksSame DEF AttemptLinks
  <2> QED
    BY <1>c, <1>e, <2>1, <2>2 DEF LinkInv
<1>1. ASSUME NEW a \in Attempts, Begin(a) PROVE LinkInv'
  <2> DEFINE n == NarOf[a]
  <2>1. /\ at[a] = "idle" /\ n \in Nars
        /\ UNCHANGED <<narId, total, next, flushed>>
    BY <1>1, <1>a DEF Begin
  <2>2. CASE row[n] \in {"done", "fresh"}
    <3>1. at' = [at EXCEPT ![a] = "skipped"] /\ UNCHANGED <<row, links, aid, stream>>
      BY <1>1, <2>2 DEF Begin
    <3>2. \A b \in Attempts :
            at'[b] \in Active => at[b] \in Active /\ (at'[b] = "mark" => at[b] = "mark")
      BY <3>1 DEF ProgressInv, Active
    <3> QED
      BY <1>e, <2>1, <3>1, <3>2
  <2>3. CASE row[n] \notin {"done", "fresh"}
    <3>1. /\ aid' = [aid EXCEPT ![a] = narId[n]]
          /\ row' = [row EXCEPT ![n] = "fresh"]
          /\ \E s \in Streams(n) : stream' = [stream EXCEPT ![a] = s]
          /\ \E state \in {"chunk", "orphans"} : at' = [at EXCEPT ![a] = state]
          /\ \/ row[n] = "stale" /\ links' = [links EXCEPT ![n] = Empty]
             \/ row[n] # "stale" /\ links' = links
      BY <1>1, <2>3 DEF Begin
    <3>2. /\ \A b \in Attempts \ {a} : at'[b] = at[b] /\ stream'[b] = stream[b] /\ aid'[b] = aid[b]
          /\ \A m \in Nars \ {n} : row'[m] = row[m] /\ links'[m] = links[m]
          /\ row'[n] = "fresh" /\ aid'[a] = narId[n]
          /\ at'[a] \in Active /\ at'[a] # "mark"
      BY <2>1, <3>1 DEF LinkInv, ProgressInv, Active
    <3>3. \E m \in 0..Len(Content[n]) : links'[n] = Prefix(n, m)
      <4>1. CASE links' = links
        BY <1>b, <2>1, <4>1 DEF NarLinks
      <4>2. CASE links' = [links EXCEPT ![n] = Empty]
        <5>1. links'[n] = Empty
          BY <2>1, <4>2 DEF LinkInv
        <5>2. Empty = Prefix(n, 0)
          BY DEF Empty, Prefix
        <5> QED
          BY <1>b, <2>1, <5>1, <5>2
      <4> QED
        BY <3>1, <4>1, <4>2
    <3>4. NarLinks(n)'
      BY <1>b, <1>d, <2>1, <2>3, <3>2, <3>3 DEF NarLinks
    <3>5. ASSUME NEW m \in Nars \ {n} PROVE NarLinks(m)'
      <4>1. \A b \in Attempts : NarOf[b] = m /\ at'[b] \in Active => at[b] \in Active
        BY <3>2
      <4> QED
        BY <1>b, <2>1, <3>2, <4>1, NarLinksSame
    <3>6. ASSUME NEW b \in Attempts \ {a} PROVE AttemptLinks(b)'
      <4>1. at[b] \in Active /\ NarOf[b] = n => row[n] # "stale"
        BY <1>b, <2>1 DEF NarLinks
      <4>2. at[b] \in Active =>
              /\ aid[b] <= narId'[NarOf[b]]
              /\ row'[NarOf[b]] = "absent" => aid[b] < narId'[NarOf[b]]
        BY <1>a, <2>1, <3>2 DEF AttemptLinks
      <4>3. ASSUME at[b] \in Active, HasRow(b)'
            PROVE  HasRow(b) /\ DOMAIN links[NarOf[b]] \subseteq DOMAIN links'[NarOf[b]]
        <5>1. CASE NarOf[b] # n
          BY <1>a, <2>1, <3>2, <4>3, <5>1 DEF HasRow
        <5>2. CASE NarOf[b] = n
          <6>1. narId[n] = aid[b] /\ links' = links
            BY <2>1, <3>1, <3>2, <4>1, <4>3, <5>2 DEF HasRow
          <6>2. row[n] # "absent"
            BY <1>a, <4>3, <5>2, <6>1 DEF AttemptLinks
          <6> QED
            BY <5>2, <6>1, <6>2 DEF HasRow
        <5> QED
          BY <5>1, <5>2
      <4> QED
        BY <1>a, <2>1, <3>2, <4>2, <4>3, AttemptLinksSame
    <3>7. AttemptLinks(a)'
      <4>1. PICK s \in Streams(n) : stream'[a] = s
        BY <3>1 DEF ProgressInv
      <4>2. \/ s.data = Content[n]
            \/ a \in Sized /\ \E k \in 0..Len(Content[n]) : s.data = Cut(n, k)
        BY <2>1, StreamsAre DEF Faithful
      <4>3. /\ Len(s.data) <= Len(Content[n])
            /\ \A i \in 1..Len(s.data) : s.data[i] = Content[n][i]
            /\ a \notin Sized => s.data = Content[n]
        <5>1. CASE s.data = Content[n]
          BY <1>b, <2>1, <5>1
        <5>2. ASSUME a \in Sized, NEW k \in 0..Len(Content[n]), s.data = Cut(n, k)
              PROVE  /\ Len(s.data) <= Len(Content[n])
                     /\ \A i \in 1..Len(s.data) : s.data[i] = Content[n][i]
          <6>1. Len(s.data) = k /\ \A i \in 1..k : s.data[i] = Content[n][i]
            BY <2>1, <5>2, CutIs
          <6> QED
            BY <1>b, <2>1, <6>1
        <5> QED
          BY <4>2, <5>1, <5>2
      <4>4. flushed[a] = 0
        BY <1>a, <2>1 DEF ProgressInv
      <4>5. 1..flushed'[a] \subseteq DOMAIN links'[n]
        BY <2>1, <4>4
      <4> QED
        BY <1>a, <2>1, <3>2, <4>1, <4>3, <4>5 DEF AttemptLinks
    <3>8. /\ row' \in [Nars -> {"absent", "plain", "fresh", "stale", "done"}]
          /\ narId' \in [Nars -> Nat] /\ aid' \in [Attempts -> Nat]
          /\ DOMAIN total' = Nars /\ links' = [m \in Nars |-> links'[m]]
      BY <2>1, <3>1 DEF LinkInv
    <3> QED
      BY <1>c, <3>4, <3>5, <3>6, <3>7, <3>8
  <2> QED
    BY <2>2, <2>3
<1>2. ASSUME NEW a \in Attempts, FindOrphans(a) \/ DeleteChunkFile(a) PROVE LinkInv'
  <2>1. UNCHANGED <<row, narId, total, aid, links, stream, next, flushed>>
    BY <1>2 DEF FindOrphans, DeleteChunkFile
  <2>2. /\ at[a] \in {"orphans", "unlink"}
        /\ \E state \in {"chunk", "delete"} : at' = [at EXCEPT ![a] = state]
    BY <1>2 DEF FindOrphans, DeleteChunkFile
  <2>3. \A b \in Attempts :
          at'[b] \in Active => at[b] \in Active /\ (at'[b] = "mark" => at[b] = "mark")
    BY <2>2 DEF ProgressInv, Active
  <2> QED
    BY <1>e, <2>1, <2>3
<1>3. ASSUME NEW a \in Attempts, DeleteChunkRow(a) PROVE LinkInv'
  <2>1. at[a] = "delete" /\ UNCHANGED <<row, narId, total, aid, stream, next, flushed>>
    BY <1>3 DEF DeleteChunkRow
  <2>2. \E state \in {"chunk", "delete", "unlink"} : at' = [at EXCEPT ![a] = state]
    BY <1>3 DEF DeleteChunkRow
  <2>3. PICK id \in doomed[a] : links' = links \/ links' = Unlinked(links, {id[1]})
    BY <1>3 DEF DeleteChunkRow
  <2>4. \A b \in Attempts :
          at'[b] \in Active => at[b] \in Active /\ (at'[b] = "mark" => at[b] = "mark")
    BY <2>1, <2>2 DEF ProgressInv, Active
  <2>5. links' = links
    <3>1. CASE links' = Unlinked(links, {id[1]})
      <4>1. ASSUME NEW n \in Nars PROVE links'[n] = links[n]
        <5>1. PICK m \in 0..Len(Content[n]) : links[n] = Prefix(n, m)
          BY <1>b DEF NarLinks
        <5>2. m \in Nat /\ Image(links[n]) \cap {id[1]} = {}
          BY <1>b, <2>1, <2>3 DEF DoomedUnlinked
        <5>3. Unlinked(links, {id[1]})[n] = links[n]
          BY <5>1, <5>2, UnlinkedSame, SMTT(40)
        <5> QED
          BY <3>1, <5>3
      <4>2. links' = [n \in Nars |-> links'[n]]
        BY <3>1 DEF Unlinked
      <4> QED
        BY <4>1, <4>2 DEF LinkInv
    <3> QED
      BY <2>3, <3>1
  <2> QED
    BY <1>e, <2>1, <2>4, <2>5
<1>4. ASSUME NEW a \in Attempts, PutChunk(a) PROVE LinkInv'
  <2>1. /\ at[a] = "chunk" /\ next' = [next EXCEPT ![a] = @ + 1]
        /\ UNCHANGED <<row, narId, total, at, aid, links, stream, flushed>>
    BY <1>4 DEF PutChunk
  <2>2. \A n \in Nars : NarLinks(n)'
    BY <1>b, <2>1, NarLinksSame
  <2>3. ASSUME NEW b \in Attempts PROVE AttemptLinks(b)'
    <3>1. HasRow(b)' <=> HasRow(b)
      BY <2>1 DEF HasRow
    <3>2. at[b] = "mark" => next'[b] = next[b]
      BY <2>1 DEF ProgressInv
    <3> QED
      BY <1>a, <1>d, <2>1, <3>1, <3>2 DEF AttemptLinks
  <2> QED
    BY <1>c, <2>1, <2>2, <2>3 DEF LinkInv
<1>5. ASSUME NEW a \in Attempts, at[a] = "chunk", HasRow(a), Record(a),
             at' = at \/ (at' = [at EXCEPT ![a] = "mark"] /\ next[a] = Len(stream[a].data)),
             UNCHANGED <<row, narId, total, aid, stream, next>>
      PROVE  LinkInv'
  <2> DEFINE n == NarOf[a]
  <2>1. /\ flushed' = [flushed EXCEPT ![a] = next[a]]
        /\ links' = [links EXCEPT ![n] =
                       [i \in DOMAIN links[n] \cup (flushed[a] + 1)..next[a] |->
                          IF i \in DOMAIN links[n] THEN links[n][i] ELSE stream[a].data[i]]]
    BY <1>5 DEF Record
  <2>2. n \in Nars /\ at[a] \in Active
    BY <1>a, <1>5 DEF Active
  <2>3. /\ next[a] <= Len(Content[n])
        /\ \A i \in (flushed[a] + 1)..next[a] : stream[a].data[i] = Content[n][i]
        /\ 1..flushed[a] \subseteq DOMAIN links[n]
    <3>1. /\ Len(stream[a].data) <= Len(Content[n])
          /\ \A i \in 1..Len(stream[a].data) : stream[a].data[i] = Content[n][i]
          /\ 1..flushed[a] \subseteq DOMAIN links[n]
      BY <1>5, <1>a, <2>2 DEF AttemptLinks
    <3>2. \A i \in (flushed[a] + 1)..next[a] : i \in 1..Len(stream[a].data)
      BY <1>a
    <3> QED
      BY <1>a, <1>b, <2>2, <3>1, <3>2
  <2>4. ASSUME NEW m \in 0..Len(Content[n]), links[n] = Prefix(n, m)
        PROVE  links'[n] = Prefix(n, IF next[a] > m THEN next[a] ELSE m)
    <3>1. m \in Nat /\ DOMAIN links[n] = 1..m /\ \A i \in 1..m : links[n][i] = Content[n][i]
      BY <1>b, <2>2, <2>4 DEF Prefix
    <3>2. flushed[a] <= m
      <4>1. flushed[a] = 0 \/ flushed[a] \in 1..m
        BY <1>a, <2>3, <3>1
      <4> QED
        BY <3>1, <4>1
    <3>3. DOMAIN links[n] \cup (flushed[a] + 1)..next[a] = 1..(IF next[a] > m THEN next[a] ELSE m)
      BY <1>a, <3>1, <3>2
    <3>4. links'[n] = [i \in DOMAIN links[n] \cup (flushed[a] + 1)..next[a] |->
                         IF i \in DOMAIN links[n] THEN links[n][i] ELSE stream[a].data[i]]
      BY <2>1, <2>2 DEF LinkInv
    <3>5. \A i \in DOMAIN links[n] \cup (flushed[a] + 1)..next[a] :
             (IF i \in DOMAIN links[n] THEN links[n][i] ELSE stream[a].data[i]) = Content[n][i]
      BY <2>3, <3>1
    <3>6. links'[n] = [i \in DOMAIN links[n] \cup (flushed[a] + 1)..next[a] |-> Content[n][i]]
      BY <3>4, <3>5
    <3> QED
      BY <3>3, <3>6 DEF Prefix
  <2>5. PICK m \in 0..Len(Content[n]) :
           links[n] = Prefix(n, m) /\ (row[n] = "done" => m = Len(Content[n]))
    BY <1>b, <2>2 DEF NarLinks
  <2> DEFINE top == IF next[a] > m THEN next[a] ELSE m
  <2>6. /\ links'[n] = Prefix(n, top) /\ top \in 0..Len(Content[n])
        /\ next[a] <= top /\ m <= top
    BY <1>a, <1>b, <2>2, <2>3, <2>4, <2>5
  <2>7. DOMAIN links'[n] = 1..top /\ DOMAIN links[n] = 1..m
    BY <2>5, <2>6 DEF Prefix
  <2>8. row[n] = "done" => top = Len(Content[n])
    BY <1>b, <2>2, <2>5, <2>6
  <2> HIDE DEF top
  <2>9. /\ \A k \in Nars \ {n} : links'[k] = links[k]
        /\ \A b \in Attempts \ {a} : flushed'[b] = flushed[b] /\ at'[b] = at[b]
        /\ flushed'[a] = next[a] /\ at'[a] \in {"chunk", "mark"}
        /\ at'[a] = "mark" => next[a] = Len(stream[a].data)
    BY <1>5, <2>1 DEF LinkInv, ProgressInv
  <2>10. \A b \in Attempts : at'[b] \in Active => at[b] \in Active
    BY <2>2, <2>9
  <2>11. NarLinks(n)'
    BY <1>5, <1>b, <1>d, <2>2, <2>6, <2>8, <2>10 DEF NarLinks
  <2>12. ASSUME NEW k \in Nars \ {n} PROVE NarLinks(k)'
    BY <1>5, <1>b, <2>9, <2>10, NarLinksSame
  <2>13. \A b \in Attempts : HasRow(b)' <=> HasRow(b)
    BY <1>5 DEF HasRow
  <2>14. \A k \in Nars : DOMAIN links[k] \subseteq DOMAIN links'[k]
    <3>1. 1..m \subseteq 1..top
      BY <1>b, <2>2, <2>6
    <3> QED
      BY <2>7, <2>9, <3>1
  <2>15. ASSUME NEW b \in Attempts \ {a} PROVE AttemptLinks(b)'
    <3>1. at[b] \in Active =>
            /\ aid[b] <= narId'[NarOf[b]]
            /\ row'[NarOf[b]] = "absent" => aid[b] < narId'[NarOf[b]]
            /\ HasRow(b)' => HasRow(b) /\ DOMAIN links[NarOf[b]] \subseteq DOMAIN links'[NarOf[b]]
      BY <1>5, <1>a, <2>13, <2>14 DEF AttemptLinks
    <3> QED
      BY <1>5, <1>a, <2>9, <3>1, AttemptLinksSame
  <2>16. AttemptLinks(a)'
    <3>1. 1..flushed'[a] \subseteq DOMAIN links'[n]
      BY <1>a, <1>b, <2>2, <2>6, <2>7, <2>9
    <3> QED
      BY <1>5, <1>a, <2>2, <2>9, <3>1 DEF AttemptLinks
  <2>17. links' = [k \in Nars |-> links'[k]]
    BY <2>1 DEF LinkInv
  <2> QED
    BY <1>5, <1>c, <2>11, <2>12, <2>15, <2>16, <2>17 DEF LinkInv
<1>6. ASSUME NEW a \in Attempts, Flush(a) PROVE LinkInv'
  BY <1>5, <1>6 DEF Flush
<1>7. ASSUME NEW a \in Attempts, Finish(a) PROVE LinkInv'
  <2>1. /\ at[a] = "chunk" /\ at' = [at EXCEPT ![a] = "mark"] /\ next[a] = Len(stream[a].data)
        /\ UNCHANGED <<row, narId, total, aid, stream, next>>
    BY <1>7 DEF Finish
  <2>2. CASE next[a] > flushed[a]
    BY <1>5, <1>7, <2>1, <2>2 DEF Finish
  <2>3. CASE ~(next[a] > flushed[a])
    <3>1. UNCHANGED <<links, flushed>>
      BY <1>7, <2>3 DEF Finish
    <3>2. \A b \in Attempts : at'[b] \in Active => at[b] \in Active
      BY <2>1 DEF ProgressInv, Active
    <3>3. \A n \in Nars : NarLinks(n)'
      BY <1>b, <2>1, <3>1, <3>2, NarLinksSame
    <3>4. ASSUME NEW b \in Attempts PROVE AttemptLinks(b)'
      <4>1. HasRow(b)' <=> HasRow(b)
        BY <2>1 DEF HasRow
      <4>2. at'[b] = "mark" => next[b] = Len(stream[b].data)
        BY <1>a, <2>1 DEF ProgressInv, AttemptLinks, Active
      <4> QED
        BY <1>a, <1>d, <2>1, <3>1, <3>2, <4>1, <4>2 DEF AttemptLinks
    <3> QED
      BY <1>c, <2>1, <3>1, <3>3, <3>4 DEF LinkInv
  <2> QED
    BY <2>2, <2>3
<1>8. ASSUME NEW a \in Attempts, Mark(a) \/ Fails(a) PROVE LinkInv'
  <2> DEFINE n == NarOf[a]
  <2>1. at[a] \in {"chunk", "mark"} /\ UNCHANGED <<narId, aid, links, stream, next, flushed>>
    BY <1>8 DEF Mark, Fails, Abort
  <2>2. \E state \in {"done", "failed"} : at' = [at EXCEPT ![a] = state]
    BY <1>8 DEF Mark, Fails, Abort
  <2>3. \A b \in Attempts :
          at'[b] \in Active => at[b] \in Active /\ (at'[b] = "mark" => at[b] = "mark")
    BY <2>1, <2>2 DEF ProgressInv, Active
  <2>4. n \in Nars /\ at[a] \in Active
    BY <1>a, <2>1 DEF Active
  <2>5. \/ row' = row /\ total' = total
        \/ /\ row[n] \in {"fresh", "stale"}
           /\ row' = [row EXCEPT ![n] = "plain"] /\ total' = total
        \/ /\ HasRow(a) /\ links[n] = Prefix(n, Len(Content[n]))
           /\ row' = [row EXCEPT ![n] = "done"]
           /\ total' = [total EXCEPT ![n] = Len(Content[n])]
    <3>1. CASE Abort(a)
      <4>1. /\ UNCHANGED total
            /\ \/ row' = row
               \/ row' = [row EXCEPT ![n] =
                            IF HasRow(a) /\ @ \in {"fresh", "stale"} THEN "plain" ELSE @]
        BY <3>1 DEF Abort
      <4> QED
        BY <2>4, <4>1 DEF LinkInv
    <3>2. CASE ~Abort(a)
      <4>1. /\ at[a] = "mark" /\ ~(a \in Sized /\ stream[a].data # Content[n])
            /\ IF HasRow(a)
               THEN /\ row' = [row EXCEPT ![n] = IF next[a] = 0 THEN "plain" ELSE "done"]
                    /\ total' = [total EXCEPT ![n] = next[a]]
               ELSE row' = row /\ total' = total
        BY <1>8, <3>2 DEF Mark, Fails
      <4>2. CASE ~HasRow(a)
        BY <4>1, <4>2
      <4>3. CASE HasRow(a)
        <5>1. stream[a].data = Content[n]
          BY <1>a, <2>4, <4>1 DEF AttemptLinks
        <5>2. next[a] = Len(Content[n]) /\ flushed[a] = next[a]
          BY <1>a, <2>4, <4>1, <5>1 DEF AttemptLinks, ProgressInv
        <5>3. 1..Len(Content[n]) \subseteq DOMAIN links[n]
          BY <1>a, <2>4, <4>3, <5>2 DEF AttemptLinks
        <5>4. PICK m \in 0..Len(Content[n]) : links[n] = Prefix(n, m)
          BY <1>b, <2>4 DEF NarLinks
        <5>5. m = Len(Content[n])
          <6>1. DOMAIN links[n] = 1..m /\ Len(Content[n]) \in 1..Len(Content[n])
            BY <1>b, <2>4, <5>4 DEF Prefix
          <6>2. Len(Content[n]) \in 1..m
            BY <5>3, <6>1
          <6> QED
            BY <1>b, <2>4, <6>2
        <5>6. next[a] # 0
          BY <1>b, <2>4, <5>2
        <5> QED
          BY <4>1, <4>3, <5>2, <5>4, <5>5, <5>6
      <4> QED
        BY <4>2, <4>3
    <3> QED
      BY <3>1, <3>2
  <2>6. ASSUME NEW k \in Nars PROVE NarLinks(k)'
    <3>1. CASE row'[k] = row[k] /\ total'[k] = total[k]
      BY <1>b, <2>1, <2>3, <3>1, NarLinksSame
    <3>2. CASE k = n /\ row'[n] = "plain" /\ total'[n] = total[n] /\ row[n] \in {"fresh", "stale"}
      BY <1>b, <1>d, <2>1, <2>4, <3>2 DEF NarLinks
    <3>3. CASE /\ k = n /\ row'[n] = "done" /\ total'[n] = Len(Content[n])
               /\ links[n] = Prefix(n, Len(Content[n]))
      BY <1>b, <1>d, <2>1, <2>4, <3>3 DEF NarLinks
    <3> QED
      BY <2>4, <2>5, <3>1, <3>2, <3>3 DEF LinkInv
  <2>7. ASSUME NEW b \in Attempts PROVE AttemptLinks(b)'
    <3>1. \A k \in Nars : row'[k] = "absent" <=> row[k] = "absent"
      BY <2>4, <2>5 DEF HasRow, LinkInv
    <3>2. HasRow(b)' <=> HasRow(b)
      BY <1>a, <2>1, <3>1 DEF HasRow
    <3>3. at[b] \in Active =>
            /\ aid[b] <= narId'[NarOf[b]]
            /\ row'[NarOf[b]] = "absent" => aid[b] < narId'[NarOf[b]]
      BY <1>a, <2>1, <3>1 DEF AttemptLinks
    <3> QED
      BY <1>a, <2>1, <2>3, <3>2, <3>3, AttemptLinksSame
  <2>8. /\ row' \in [Nars -> {"absent", "plain", "fresh", "stale", "done"}]
        /\ DOMAIN total' = Nars
    BY <2>4, <2>5 DEF LinkInv
  <2> QED
    BY <1>c, <2>1, <2>6, <2>7, <2>8 DEF LinkInv
<1>9. ASSUME NEW a \in Attempts, Crash(a) PROVE LinkInv'
  <2>1. /\ at' = [at EXCEPT ![a] = "dead"]
        /\ UNCHANGED <<row, narId, total, aid, links, stream, next, flushed>>
    BY <1>9 DEF Crash
  <2>2. \A b \in Attempts :
          at'[b] \in Active => at[b] \in Active /\ (at'[b] = "mark" => at[b] = "mark")
    BY <2>1 DEF ProgressInv, Active
  <2> QED
    BY <1>e, <2>1, <2>2
<1>10. ASSUME NEW E \in SUBSET Nars, Evict(E) PROVE LinkInv'
  <2>1. /\ row' = [n \in Nars |-> IF n \in E THEN "absent" ELSE row[n]]
        /\ narId' = [n \in Nars |-> IF n \in E THEN narId[n] + 1 ELSE narId[n]]
        /\ total' = [n \in Nars |-> IF n \in E THEN 0 ELSE total[n]]
        /\ links' = [n \in Nars |-> IF n \in E THEN Empty ELSE links[n]]
        /\ UNCHANGED <<at, aid, stream, next, flushed>>
    BY <1>10 DEF Evict
  <2>2. ASSUME NEW n \in Nars PROVE NarLinks(n)'
    <3>1. CASE n \in E
      <4>1. Empty = Prefix(n, 0)
        BY DEF Empty, Prefix
      <4> QED
        BY <1>b, <1>d, <2>1, <3>1, <4>1 DEF NarLinks
    <3>2. CASE n \notin E
      BY <1>b, <2>1, <3>2, NarLinksSame
    <3> QED
      BY <3>1, <3>2
  <2>3. ASSUME NEW a \in Attempts PROVE AttemptLinks(a)'
    <3>1. CASE NarOf[a] \in E
      <4>1. at[a] \in Active => aid[a] < narId'[NarOf[a]] /\ aid[a] <= narId'[NarOf[a]]
        BY <1>a, <2>1, <3>1 DEF AttemptLinks
      <4>2. ~HasRow(a)'
        BY <1>a, <2>1, <3>1 DEF HasRow
      <4> QED
        BY <1>a, <2>1, <4>1, <4>2, AttemptLinksSame
    <3>2. CASE NarOf[a] \notin E
      <4>1. row'[NarOf[a]] = row[NarOf[a]] /\ narId'[NarOf[a]] = narId[NarOf[a]]
            /\ links'[NarOf[a]] = links[NarOf[a]]
        BY <1>a, <2>1, <3>2
      <4>2. HasRow(a)' <=> HasRow(a)
        BY <2>1, <4>1 DEF HasRow
      <4>3. at[a] \in Active =>
              /\ aid[a] <= narId'[NarOf[a]]
              /\ row'[NarOf[a]] = "absent" => aid[a] < narId'[NarOf[a]]
        BY <1>a, <4>1 DEF AttemptLinks
      <4> QED
        BY <1>a, <2>1, <4>1, <4>2, <4>3, AttemptLinksSame
    <3> QED
      BY <3>1, <3>2
  <2>4. /\ row' \in [Nars -> {"absent", "plain", "fresh", "stale", "done"}]
        /\ narId' \in [Nars -> Nat] /\ DOMAIN total' = Nars
        /\ links' = [n \in Nars |-> links'[n]] /\ aid' \in [Attempts -> Nat]
    BY <2>1 DEF LinkInv
  <2> QED
    BY <1>c, <2>2, <2>3, <2>4
<1>11. ASSUME NEW n \in Nars, GoesStale(n) PROVE LinkInv'
  <2>1. /\ row[n] = "fresh" /\ row' = [row EXCEPT ![n] = "stale"]
        /\ \A a \in Attempts : NarOf[a] = n => at[a] \notin Active
        /\ UNCHANGED <<narId, total, links, at, aid, stream, next, flushed>>
    BY <1>11 DEF GoesStale, Faithful
  <2>2. row'[n] = "stale" /\ \A k \in Nars \ {n} : row'[k] = row[k]
    BY <2>1 DEF LinkInv
  <2>3. NarLinks(n)'
    BY <1>b, <1>d, <2>1, <2>2 DEF NarLinks
  <2>4. ASSUME NEW k \in Nars \ {n} PROVE NarLinks(k)'
    BY <1>b, <2>1, <2>2, NarLinksSame
  <2>5. ASSUME NEW a \in Attempts PROVE AttemptLinks(a)'
    <3>1. at[a] \in Active => row'[NarOf[a]] = row[NarOf[a]]
      BY <1>a, <2>1, <2>2
    <3>2. at[a] \in Active => (HasRow(a)' <=> HasRow(a))
      BY <2>1, <3>1 DEF HasRow
    <3>3. at[a] \in Active =>
            /\ aid[a] <= narId'[NarOf[a]]
            /\ row'[NarOf[a]] = "absent" => aid[a] < narId'[NarOf[a]]
      BY <1>a, <2>1, <3>1 DEF AttemptLinks
    <3> QED
      BY <1>a, <2>1, <3>2, <3>3, AttemptLinksSame
  <2>6. row' \in [Nars -> {"absent", "plain", "fresh", "stale", "done"}]
    BY <2>1 DEF LinkInv
  <2> QED
    BY <1>c, <2>1, <2>3, <2>4, <2>5, <2>6 DEF LinkInv
<1>12. CASE DeleteOrphanFile \/ EvictionDies
  <2>1. UNCHANGED <<row, narId, total, aid, links, stream, next, flushed, at>>
    BY <1>12 DEF DeleteOrphanFile, EvictionDies
  <2> QED
    BY <1>e, <2>1
<1>13. ASSUME NEW r \in Readers, Open(r) \/ ReaderStep(r) \/ WaitTimeout(r) PROVE LinkInv'
  <2>1. UNCHANGED <<row, narId, total, aid, links, stream, next, flushed, at>>
    BY <1>13 DEF Open, ReaderStep, QueryAll, Query, Fetch, CheckRow, WaitTimeout
  <2> QED
    BY <1>e, <2>1
<1>14. CASE UNCHANGED vars
  BY <1>e, <1>14 DEF vars
<1> QED
  BY <1>1, <1>2, <1>3, <1>4, <1>6, <1>7, <1>8, <1>9, <1>10, <1>11, <1>12, <1>13, <1>14
  DEF Next, AttemptStep

\* LinkInv holds at first.
LEMMA LinkInit == Init => LinkInv
<1> SUFFICES ASSUME Init PROVE LinkInv
  OBVIOUS
<1>1. ASSUME NEW n \in Nars PROVE NarLinks(n)
  <2>1. Len(Content[n]) \in Nat /\ Content[n] = Prefix(n, Len(Content[n]))
    BY CdcChunkingAssumption DEF Prefix
  <2>2. Empty = Prefix(n, 0)
    BY DEF Empty, Prefix
  <2> QED
    BY <2>1, <2>2 DEF Init, NarLinks
<1>2. \A a \in Attempts : AttemptLinks(a)
  BY DEF Init, AttemptLinks, Active
<1> QED
  BY <1>1, <1>2 DEF Init, LinkInv

\* OwnedInv holds at first.
LEMMA OwnedInit == Init => OwnedInv
BY DEF Init, OwnedInv

\* In either case LinkInv is an invariant, for no attempt deletes what is linked.
LEMMA Linked ==
    ASSUME Faithful, Apart \/ NoneDies
    PROVE  Spec => [](ProgressInv /\ LinkInv)
<1> DEFINE Inv == ProgressInv /\ LinkInv /\ (Apart => CleanInv) /\ (NoneDies => OwnedInv)
<1>1. Init => Inv
  BY ProgressInit, LinkInit, CleanInit, OwnedInit
<1>2. Inv /\ [Next]_vars => Inv'
  <2> SUFFICES ASSUME Inv, [Next]_vars PROVE Inv'
    OBVIOUS
  <2>1. "slow" \notin Faults
    BY DEF Faithful
  <2>2. CleanInv => DoomedUnlinked
    BY DEF CleanInv, Clean, DoomedUnlinked
  <2>3. OwnedInv => DoomedUnlinked
    BY DEF OwnedInv, DoomedUnlinked
  <2>4. LinkInv'
    BY <2>2, <2>3, LinkStep
  <2>5. Apart' = Apart /\ NoneDies' = NoneDies
    BY DEF Apart, NoneDies, Of, Image
  <2> QED
    BY <2>1, <2>4, <2>5, ProgressStep, CleanStep, OwnedStep
<1>3. Inv => ProgressInv /\ LinkInv
  OBVIOUS
<1> QED
  BY <1>1, <1>2, <1>3, PTL DEF Spec

\* A NAR marked chunked is linked to exactly its chunks and stays so until it is
\* evicted, for any NARs and sharing of chunks, any number of attempts and readers:
\* when attempts die, clean up after one another and the database fails, provided
\* there is no eviction and attempts at different NARs share no chunk (Apart); with
\* any eviction and any sharing, provided no attempt dies (NoneDies).
THEOREM ChunkedNarsIntact ==
    ASSUME Faithful, Apart \/ NoneDies
    PROVE  Spec => []ChunkedIsIntact
<1>1. LinkInv => ChunkedIsIntact
  <2> SUFFICES ASSUME LinkInv, NEW n \in Nars, row[n] = "done"
               PROVE  total[n] = Len(Content[n]) /\ links[n] = Content[n]
    BY DEF ChunkedIsIntact
  <2>1. Content[n] = Prefix(n, Len(Content[n]))
    BY CdcChunkingAssumption DEF Prefix
  <2> QED
    BY <2>1 DEF LinkInv, NarLinks
<1> QED
  BY <1>1, Linked, PTL

-----------------------------------------------------------------------------
(* Readers.                                                                *)

\* The chunks of NAR n from index k + 1 to index m.
Slice(n, k, m) == [i \in 1..(m - k) |-> Content[n][k + i]]

\* What reader r has sent, and what it is about to fetch, are the chunks of its NAR
\* in order; if it was told how many there are, it was told right.
Reads(r) ==
    /\ rtotal[r] \in {0, Len(Content[NarRead[r]])}
    /\ rpc[r] \in {"idle", "complete"} => got[r] = << >>
    /\ rpc[r] = "complete" => rtotal[r] = Len(Content[NarRead[r]])
    /\ \E k \in 0..Len(Content[NarRead[r]]) :
         /\ got[r] = Prefix(NarRead[r], k)
         /\ rpc[r] = "fetch" =>
              \E m \in (k + 1)..Len(Content[NarRead[r]]) : batch[r] = Slice(NarRead[r], k, m)
    /\ rpc[r] = "ok" => got[r] = Content[NarRead[r]]

\* What every reader has sent is the beginning of its NAR.
ReaderInv ==
    /\ rpc \in [Readers -> {"idle", "complete", "query", "fetch", "check", "ok", "error"}]
    /\ rtotal = [r \in Readers |-> rtotal[r]]
    /\ batch = [r \in Readers |-> batch[r]] /\ got = [r \in Readers |-> got[r]]
    /\ \A r \in Readers : Reads(r)

\* The query finds the linked chunks past index k, in order.
LEMMA LinkedFromIs ==
    ASSUME NEW n \in Nars, NEW m \in Nat, NEW k \in Nat, links[n] = Prefix(n, m)
    PROVE  /\ m <= k => LinkedFrom(n, k) = << >>
           /\ m > k  => LinkedFrom(n, k) = Slice(n, k, m)
<1> DEFINE S == {i \in DOMAIN links[n] : i > k}
           Nth(j) == CHOOSE i \in S : Cardinality({x \in S : x < i}) = j - 1
<1>1. LinkedFrom(n, k) = [j \in 1..Cardinality(S) |-> links[n][Nth(j)]]
  BY DEF LinkedFrom
<1>2. DOMAIN links[n] = 1..m /\ \A i \in 1..m : links[n][i] = Content[n][i]
  BY DEF Prefix
<1>3. S = (k + 1)..m
  BY <1>2
<1>c. Cardinality(S) = IF k + 1 > m THEN 0 ELSE m - (k + 1) + 1
  <2>1. Cardinality((k + 1)..m) = IF k + 1 > m THEN 0 ELSE m - (k + 1) + 1
    BY FS_Interval
  <2> HIDE DEF S
  <2> QED
    BY <1>3, <2>1
<1> HIDE DEF S
<1>4. CASE m <= k
  <2>1. Cardinality(S) = 0
    BY <1>c, <1>4
  <2>2. LinkedFrom(n, k) = [j \in 1..0 |-> links[n][Nth(j)]]
    BY <1>1, <2>1
  <2> HIDE DEF Nth
  <2> QED
    BY <1>4, <2>2
<1>5. CASE m > k
  <2>1. Cardinality(S) = m - k
    BY <1>c, <1>5
  <2>2. ASSUME NEW i \in S PROVE Cardinality({x \in S : x < i}) = i - 1 - k
    <3>1. {x \in S : x < i} = (k + 1)..(i - 1)
      BY <1>3
    <3>2. i \in Nat /\ i >= k + 1
      BY <1>3
    <3>3. Cardinality((k + 1)..(i - 1)) = IF k + 1 > i - 1 THEN 0 ELSE (i - 1) - (k + 1) + 1
      BY <3>2, FS_Interval
    <3>4. Cardinality({x \in S : x < i}) = Cardinality((k + 1)..(i - 1))
      BY <3>1, Zenon
    <3>5. (IF k + 1 > i - 1 THEN 0 ELSE (i - 1) - (k + 1) + 1) = i - 1 - k
      BY <3>2
    <3> QED
      BY <3>3, <3>4, <3>5, Zenon
  <2>3. ASSUME NEW j \in 1..(m - k) PROVE links[n][Nth(j)] = Content[n][k + j]
    <3>1. k + j \in S
      BY <1>3, <1>5
    <3>2. Cardinality({x \in S : x < k + j}) = j - 1
      BY <2>2, <3>1
    <3>3. Nth(j) \in S /\ Cardinality({x \in S : x < Nth(j)}) = j - 1
      BY <3>1, <3>2
    <3>4. Nth(j) = k + j
      <4>1. Cardinality({x \in S : x < Nth(j)}) = Nth(j) - 1 - k
        BY <2>2, <3>3
      <4>2. Nth(j) \in Nat
        BY <1>3, <3>3
      <4> HIDE DEF Nth
      <4> QED
        BY <3>3, <4>1, <4>2
    <3>5. k + j \in 1..m
      BY <1>5
    <3> HIDE DEF Nth
    <3> QED
      BY <1>2, <3>4, <3>5
  <2>4. LinkedFrom(n, k) = [j \in 1..(m - k) |-> links[n][Nth(j)]]
    BY <1>1, <2>1
  <2> HIDE DEF Nth
  <2> QED
    BY <1>5, <2>3, <2>4 DEF Slice
<1> QED
  BY <1>4, <1>5

\* Prefixes and slices as sequences.
LEMMA SliceIs ==
    ASSUME NEW n \in Nars, NEW k \in 0..Len(Content[n]), NEW m \in (k + 1)..Len(Content[n])
    PROVE  /\ Prefix(n, k) \in Seq(Int) /\ Len(Prefix(n, k)) = k
           /\ Slice(n, k, m) \in Seq(Int) /\ Len(Slice(n, k, m)) = m - k
           /\ Head(Slice(n, k, m)) = Content[n][k + 1]
           /\ m > k + 1 => Tail(Slice(n, k, m)) = Slice(n, k + 1, m)
           /\ Append(Prefix(n, k), Content[n][k + 1]) = Prefix(n, k + 1)
<1>1. Len(Content[n]) \in Nat /\ \A i \in 1..Len(Content[n]) : Content[n][i] \in Int
  BY CdcChunkingAssumption
<1>2. k \in Nat /\ m \in Nat /\ k < m /\ k + 1 \in 1..Len(Content[n]) /\ m - k \in Nat
  BY <1>1
<1>3. Prefix(n, k) \in [1..k -> Int] /\ Prefix(n, k) \in Seq(Int) /\ Len(Prefix(n, k)) = k
  <2>1. \A i \in 1..k : i \in 1..Len(Content[n])
    BY <1>1, <1>2
  <2>2. Prefix(n, k) \in [1..k -> Int]
    BY <1>1, <2>1 DEF Prefix
  <2> QED
    BY <1>2, <2>2
<1>4. /\ Slice(n, k, m) \in [1..(m - k) -> Int]
      /\ Slice(n, k, m) \in Seq(Int) /\ Len(Slice(n, k, m)) = m - k
  <2>1. \A i \in 1..(m - k) : k + i \in 1..Len(Content[n])
    BY <1>1, <1>2
  <2>2. Slice(n, k, m) \in [1..(m - k) -> Int]
    BY <1>1, <2>1 DEF Slice
  <2> QED
    BY <1>2, <2>2
<1>5. Head(Slice(n, k, m)) = Content[n][k + 1]
  <2>1. 1 \in 1..(m - k) /\ Slice(n, k, m)[1] = Content[n][k + 1]
    BY <1>2 DEF Slice
  <2> QED
    BY <1>4, <2>1
<1>6. ASSUME m > k + 1 PROVE Tail(Slice(n, k, m)) = Slice(n, k + 1, m)
  <2> DEFINE t == Tail(Slice(n, k, m))
  <2>1. t \in Seq(Int) /\ Len(t) = m - (k + 1)
    BY <1>2, <1>4
  <2>2. \A i \in 1..(m - (k + 1)) : t[i] = Slice(n, k, m)[i + 1]
    BY <1>2, <1>4
  <2>3. \A i \in 1..(m - (k + 1)) : Slice(n, k, m)[i + 1] = Content[n][(k + 1) + i]
    BY <1>2 DEF Slice
  <2> HIDE DEF t
  <2>4. t = [i \in 1..(m - (k + 1)) |-> t[i]]
    <3>1. t = [i \in 1..Len(t) |-> t[i]]
      BY <2>1
    <3> QED
      BY <2>1, <3>1
  <2>5. t = [i \in 1..(m - (k + 1)) |-> Content[n][(k + 1) + i]]
    BY <2>2, <2>3, <2>4
  <2> QED
    BY <2>5 DEF Slice, t
<1>7. Append(Prefix(n, k), Content[n][k + 1]) = Prefix(n, k + 1)
  <2> DEFINE s == Append(Prefix(n, k), Content[n][k + 1])
  <2>1. s \in Seq(Int) /\ Len(s) = k + 1 /\ s[k + 1] = Content[n][k + 1]
    BY <1>1, <1>2, <1>3
  <2>2. \A i \in 1..k : s[i] = Prefix(n, k)[i]
    BY <1>1, <1>2, <1>3
  <2>3. \A i \in 1..k : Prefix(n, k)[i] = Content[n][i]
    BY DEF Prefix
  <2>4. s = [i \in 1..(k + 1) |-> s[i]]
    BY <2>1
  <2>5. \A i \in 1..(k + 1) : i = k + 1 \/ i \in 1..k
    BY <1>2
  <2> HIDE DEF s
  <2>6. \A i \in 1..(k + 1) : s[i] = Content[n][i]
    BY <2>1, <2>2, <2>3, <2>5
  <2>7. s = [i \in 1..(k + 1) |-> Content[n][i]]
    BY <2>4, <2>6
  <2> QED
    BY <2>7 DEF Prefix, s
<1> QED
  BY <1>3, <1>4, <1>5, <1>6, <1>7

\* Every step keeps ReaderInv.
LEMMA ReadersStep == LinkInv /\ ReaderInv /\ [Next]_vars => ReaderInv'
<1> SUFFICES ASSUME LinkInv, ReaderInv, [Next]_vars PROVE ReaderInv'
  OBVIOUS
<1> USE DEF narVars, chunkVars, attemptVars, gcVars, readerVars
<1>a. \A r \in Readers :
        /\ NarRead[r] \in Nars /\ Reads(r)
        /\ Len(Content[NarRead[r]]) \in Nat /\ Len(Content[NarRead[r]]) > 0
        /\ Content[NarRead[r]] = Prefix(NarRead[r], Len(Content[NarRead[r]]))
  <2> TAKE r \in Readers
  <2>1. NarRead[r] \in Nars /\ Reads(r)
    BY CdcChunkingAssumption DEF ReaderInv
  <2>2. Content[NarRead[r]] \in Seq(Nat \ {0}) /\ Content[NarRead[r]] # << >>
    BY <2>1, CdcChunkingAssumption
  <2> QED
    BY <2>1, <2>2, SMTT(40) DEF Prefix
<1>b. \A n, k, m : Prefix(n, k)' = Prefix(n, k) /\ Slice(n, k, m)' = Slice(n, k, m)
  BY DEF Prefix, Slice
\* A reader that does not move.
<1>c. ASSUME NEW r \in Readers, rpc'[r] = rpc[r], rtotal'[r] = rtotal[r],
             batch'[r] = batch[r], got'[r] = got[r]
      PROVE  Reads(r)'
  BY <1>a, <1>b, <1>c DEF Reads
\* It is enough to look at the reader that moves.
<1> DEFINE Only(r) ==
      /\ rpc' \in [Readers -> {"idle", "complete", "query", "fetch", "check", "ok", "error"}]
      /\ rtotal' = [q \in Readers |-> rtotal'[q]]
      /\ batch' = [q \in Readers |-> batch'[q]] /\ got' = [q \in Readers |-> got'[q]]
      /\ \A q \in Readers \ {r} :
           rpc'[q] = rpc[q] /\ rtotal'[q] = rtotal[q] /\ batch'[q] = batch[q] /\ got'[q] = got[q]
<1>d. ASSUME NEW r \in Readers, Reads(r)', Only(r) PROVE ReaderInv'
  <2>1. ASSUME NEW q \in Readers \ {r} PROVE Reads(q)'
    BY <1>c, <1>d
  <2> QED
    BY <1>d, <2>1 DEF ReaderInv
<1>f. ASSUME NEW r \in Readers PROVE \E m \in 0..Len(Content[NarRead[r]]) : links[NarRead[r]] = Prefix(NarRead[r], m)
  BY <1>a DEF LinkInv, NarLinks
<1>1. ASSUME NEW r \in Readers, Open(r) PROVE ReaderInv'
  <2> DEFINE n == NarRead[r]
             state == IF row[n] = "done" THEN "complete" ELSE "query"
  <2>1. /\ rpc[r] = "idle" /\ rtotal' = [rtotal EXCEPT ![r] = total[n]]
        /\ rpc' = [rpc EXCEPT ![r] = state] /\ UNCHANGED <<batch, got>>
    BY <1>1 DEF Open
  <2>2. rpc'[r] = state /\ rtotal'[r] = total[n] /\ batch'[r] = batch[r] /\ got'[r] = got[r]
    BY <2>1 DEF ReaderInv
  <2>3. total[n] = IF row[n] = "done" THEN Len(Content[n]) ELSE 0
    BY <1>a DEF LinkInv, NarLinks
  <2>4. \E k \in 0..Len(Content[n]) : got[r] = Prefix(n, k)
    BY <1>a DEF Reads
  <2>5. got[r] = << >>
    BY <1>a, <2>1 DEF Reads
  <2>6. Reads(r)'
    BY <1>a, <1>b, <2>2, <2>3, <2>4, <2>5 DEF Reads
  <2>7. Only(r)
    BY <2>1 DEF ReaderInv
  <2> HIDE DEF Only
  <2> QED
    BY <1>d, <2>6, <2>7
\* The two queries: what they find goes on where the reader is.
<1>2. ASSUME NEW r \in Readers, rpc[r] \in {"complete", "query"}
      PROVE  \E k \in 0..Len(Content[NarRead[r]]) :
               /\ got[r] = Prefix(NarRead[r], k)
               /\ \/ Found(r) = << >>
                  \/ \E m \in (k + 1)..Len(Content[NarRead[r]]) : Found(r) = Slice(NarRead[r], k, m)
  <2> DEFINE n == NarRead[r]
  <2>1. PICK k \in 0..Len(Content[n]) : got[r] = Prefix(n, k)
    BY <1>a DEF Reads
  <2>2. PICK m \in 0..Len(Content[n]) : links[n] = Prefix(n, m)
    BY <1>f
  <2>3. k \in Nat /\ m \in Nat /\ Len(got[r]) = k
    <3>1. k \in Nat /\ m \in Nat
      BY <1>a
    <3>2. Len(Prefix(n, k)) = k
      BY <3>1 DEF Prefix
    <3> QED
      BY <2>1, <3>1, <3>2
  <2>4. /\ m <= k => LinkedFrom(n, k) = << >>
        /\ m > k  => LinkedFrom(n, k) = Slice(n, k, m)
    BY <1>a, <2>2, <2>3, LinkedFromIs
  <2>5. Found(r) = << >> \/ (m > k /\ Found(r) = Slice(n, k, m))
    BY <2>3, <2>4 DEF Found
  <2>6. m > k => m \in (k + 1)..Len(Content[n])
    BY <1>a, <2>3
  <2> QED
    BY <2>1, <2>5, <2>6
<1>3. ASSUME NEW r \in Readers, QueryAll(r) PROVE ReaderInv'
  <2> DEFINE n == NarRead[r]
             state == IF Len(Found(r)) = rtotal[r] THEN "fetch" ELSE "error"
  <2>1. /\ rpc[r] = "complete" /\ batch' = [batch EXCEPT ![r] = Found(r)]
        /\ rpc' = [rpc EXCEPT ![r] = state] /\ UNCHANGED <<rtotal, got>>
    BY <1>3 DEF QueryAll
  <2>2. rpc'[r] = state /\ rtotal'[r] = rtotal[r] /\ batch'[r] = Found(r) /\ got'[r] = got[r]
    BY <2>1 DEF ReaderInv
  <2>3. PICK k \in 0..Len(Content[n]) :
               /\ got[r] = Prefix(n, k)
               /\ \/ Found(r) = << >>
                  \/ \E m \in (k + 1)..Len(Content[n]) : Found(r) = Slice(n, k, m)
    BY <1>2, <2>1
  <2>4. rtotal[r] = Len(Content[n]) /\ Len(Content[n]) > 0 /\ Len(Content[n]) \in Nat
    BY <1>a, <2>1 DEF Reads
  <2>5. state = "fetch" => Found(r) # << >>
    BY <2>4
  <2> HIDE DEF state
  <2>6. state \in {"fetch", "error"}
    BY DEF state
  <2>7. Reads(r)'
    BY <1>b, <2>2, <2>3, <2>4, <2>5, <2>6 DEF Reads
  <2>8. Only(r)
    BY <2>1, <2>6 DEF ReaderInv
  <2> HIDE DEF Only
  <2> QED
    BY <1>d, <2>7, <2>8
<1>4. ASSUME NEW r \in Readers, Query(r) PROVE ReaderInv'
  <2> DEFINE n == NarRead[r]
             state == IF Found(r) = << >> THEN "check" ELSE "fetch"
  <2>1. /\ rpc[r] = "query" /\ batch' = [batch EXCEPT ![r] = Found(r)]
        /\ rpc' = [rpc EXCEPT ![r] = state] /\ UNCHANGED <<rtotal, got>>
    BY <1>4 DEF Query
  <2>2. rpc'[r] = state /\ rtotal'[r] = rtotal[r] /\ batch'[r] = Found(r) /\ got'[r] = got[r]
    BY <2>1 DEF ReaderInv
  <2>3. PICK k \in 0..Len(Content[n]) :
               /\ got[r] = Prefix(n, k)
               /\ \/ Found(r) = << >>
                  \/ \E m \in (k + 1)..Len(Content[n]) : Found(r) = Slice(n, k, m)
    BY <1>2, <2>1
  <2>4. rtotal[r] \in {0, Len(Content[n])}
    BY <1>a DEF Reads
  <2>5. state = "fetch" => Found(r) # << >>
    OBVIOUS
  <2>6. state \in {"fetch", "check"}
    OBVIOUS
  <2> HIDE DEF state
  <2>7. Reads(r)'
    BY <1>b, <2>2, <2>3, <2>4, <2>5, <2>6 DEF Reads
  <2>8. Only(r)
    BY <2>1, <2>6 DEF ReaderInv
  <2> HIDE DEF Only
  <2> QED
    BY <1>d, <2>7, <2>8
<1>5. ASSUME NEW r \in Readers, Fetch(r) PROVE ReaderInv'
  <2> DEFINE n == NarRead[r]
  <2>1. rpc[r] = "fetch" /\ batch' = [batch EXCEPT ![r] = Tail(batch[r])] /\ UNCHANGED rtotal
    BY <1>5 DEF Fetch
  <2>a. PICK k \in 0..Len(Content[n]) :
           /\ got[r] = Prefix(n, k)
           /\ \E m \in (k + 1)..Len(Content[n]) : batch[r] = Slice(n, k, m)
    BY <1>a, <2>1 DEF Reads
  <2>b. PICK m \in (k + 1)..Len(Content[n]) : batch[r] = Slice(n, k, m)
    BY <2>a
  <2>2. got[r] = Prefix(n, k) /\ batch[r] = Slice(n, k, m)
    BY <2>a, <2>b
  <2>3. /\ Len(Prefix(n, k)) = k /\ Len(batch[r]) = m - k
        /\ Head(batch[r]) = Content[n][k + 1]
        /\ m > k + 1 => Tail(batch[r]) = Slice(n, k + 1, m)
        /\ Append(got[r], Head(batch[r])) = Prefix(n, k + 1)
    <3>1. /\ Len(Prefix(n, k)) = k /\ Len(Slice(n, k, m)) = m - k
          /\ Head(Slice(n, k, m)) = Content[n][k + 1]
          /\ m > k + 1 => Tail(Slice(n, k, m)) = Slice(n, k + 1, m)
          /\ Append(Prefix(n, k), Content[n][k + 1]) = Prefix(n, k + 1)
      BY <1>a, SliceIs
    <3> QED
      BY <2>2, <3>1
  <2>4. rtotal[r] \in {0, Len(Content[n])} /\ rtotal'[r] = rtotal[r] /\ batch'[r] = Tail(batch[r])
    BY <1>a, <2>1 DEF Reads, ReaderInv
  <2>5. CASE Head(batch[r]) \notin files
    <3>1. rpc' = [rpc EXCEPT ![r] = "error"] /\ UNCHANGED got
      BY <1>5, <2>5 DEF Fetch
    <3>2. rpc'[r] = "error" /\ got'[r] = Prefix(n, k)
      BY <2>2, <3>1 DEF ReaderInv
    <3>3. Reads(r)'
      BY <1>b, <2>4, <3>2 DEF Reads
    <3>4. Only(r)
      BY <2>1, <3>1 DEF ReaderInv
    <3> HIDE DEF Only
    <3> QED
      BY <1>d, <3>3, <3>4
  <2>6. CASE Head(batch[r]) \in files
    <3> DEFINE state == IF Len(batch[r]) > 1 THEN "fetch"
                        ELSE IF rtotal[r] > 0 /\ Len(got'[r]) >= rtotal[r] THEN "ok"
                        ELSE "query"
    <3>1. /\ got' = [got EXCEPT ![r] = Append(got[r], Head(batch[r]))]
          /\ rpc' = [rpc EXCEPT ![r] = state]
      BY <1>5, <2>6 DEF Fetch
    <3>2. rpc'[r] = state /\ got'[r] = Prefix(n, k + 1)
      BY <2>3, <3>1 DEF ReaderInv
    <3>3. Len(Prefix(n, k + 1)) = k + 1 /\ k + 1 \in 0..Len(Content[n]) /\ k \in Nat /\ m \in Nat
      <4>1. k + 1 \in Nat /\ k + 1 \in 0..Len(Content[n]) /\ k \in Nat /\ m \in Nat
        BY <1>a
      <4>2. Len(Prefix(n, k + 1)) = k + 1
        BY <4>1 DEF Prefix
      <4> QED
        BY <4>1, <4>2
    <3>4. state = "fetch" => m > k + 1 /\ m \in (k + 1 + 1)..Len(Content[n])
      BY <1>a, <2>3, <3>3
    <3>5. state = "ok" => k + 1 = Len(Content[n])
      BY <1>a, <2>4, <3>2, <3>3
    <3>6. state \in {"fetch", "ok", "query"}
      OBVIOUS
    <3> HIDE DEF state
    <3>7. state = "fetch" => \E j \in ((k + 1) + 1)..Len(Content[n]) : batch'[r] = Slice(n, k + 1, j)
      BY <2>3, <2>4, <3>4
    <3>8. state = "ok" => got'[r] = Content[n]
      BY <1>a, <3>2, <3>5
    <3>9. Reads(r)'
      BY <1>b, <2>4, <3>2, <3>3, <3>6, <3>7, <3>8 DEF Reads
    <3>10. Only(r)
      BY <2>1, <3>1, <3>6 DEF ReaderInv
    <3> HIDE DEF Only
    <3> QED
      BY <1>d, <3>9, <3>10
  <2> QED
    BY <2>5, <2>6
<1>6. ASSUME NEW r \in Readers, CheckRow(r) PROVE ReaderInv'
  <2> DEFINE n == NarRead[r]
  <2>1. rpc[r] = "check" /\ UNCHANGED <<batch, got>>
    BY <1>6 DEF CheckRow
  <2>2. \E state \in {"error", "ok", "query"}, t \in {total[n], rtotal[r]} :
          /\ rpc' = [rpc EXCEPT ![r] = state] /\ rtotal' = [rtotal EXCEPT ![r] = t]
          /\ state = "ok" => row[n] = "done" /\ Len(got[r]) >= total[n]
    <3>1. CASE ~SeesRow(r) \/ row[n] = "plain"
      <4>1. rpc' = [rpc EXCEPT ![r] = "error"] /\ rtotal' = rtotal
        BY <1>6, <3>1 DEF CheckRow
      <4>2. rtotal' = [rtotal EXCEPT ![r] = rtotal[r]]
        BY <4>1 DEF ReaderInv
      <4> QED
        BY <4>1, <4>2
    <3>2. CASE ~(~SeesRow(r) \/ row[n] = "plain")
      <4> DEFINE s == IF row[n] = "done" /\ Len(got[r]) >= total[n] THEN "ok" ELSE "query"
      <4>1. rpc' = [rpc EXCEPT ![r] = s] /\ rtotal' = [rtotal EXCEPT ![r] = total[n]]
        BY <1>6, <3>2 DEF CheckRow
      <4> QED
        BY <4>1
    <3> QED
      BY <3>1, <3>2
  <2>3. PICK state \in {"error", "ok", "query"}, t \in {total[n], rtotal[r]} :
          /\ rpc' = [rpc EXCEPT ![r] = state] /\ rtotal' = [rtotal EXCEPT ![r] = t]
          /\ state = "ok" => row[n] = "done" /\ Len(got[r]) >= total[n]
    BY <2>2
  <2>4. rpc'[r] = state /\ rtotal'[r] = t /\ got'[r] = got[r] /\ batch'[r] = batch[r]
    BY <2>1, <2>3 DEF ReaderInv
  <2>5. total[n] = IF row[n] = "done" THEN Len(Content[n]) ELSE 0
    BY <1>a DEF LinkInv, NarLinks
  <2>6. PICK k \in 0..Len(Content[n]) : got[r] = Prefix(n, k)
    BY <1>a DEF Reads
  <2>7. Len(got[r]) = k /\ k \in Nat
    <3>1. k \in Nat
      BY <1>a
    <3>2. Len(Prefix(n, k)) = k
      BY <3>1 DEF Prefix
    <3> QED
      BY <2>6, <3>1, <3>2
  <2>8. state = "ok" => k = Len(Content[n])
    BY <1>a, <2>3, <2>5, <2>7
  <2>9. state = "ok" => got[r] = Content[n]
    BY <1>a, <2>6, <2>8
  <2>10. t \in {0, Len(Content[n])}
    BY <1>a, <2>3, <2>5 DEF Reads
  <2>11. Reads(r)'
    BY <1>b, <2>3, <2>4, <2>6, <2>9, <2>10 DEF Reads
  <2>12. Only(r)
    BY <2>1, <2>3 DEF ReaderInv
  <2> HIDE DEF Only
  <2> QED
    BY <1>d, <2>11, <2>12
<1>7. ASSUME NEW r \in Readers, WaitTimeout(r) PROVE ReaderInv'
  <2>1. rpc' = [rpc EXCEPT ![r] = "error"] /\ UNCHANGED <<rtotal, batch, got>>
    BY <1>7 DEF WaitTimeout
  <2>2. rpc'[r] = "error" /\ rtotal'[r] = rtotal[r] /\ got'[r] = got[r]
    BY <2>1 DEF ReaderInv
  <2>3. Reads(r)'
    BY <1>a, <1>b, <2>2 DEF Reads
  <2>4. Only(r)
    BY <2>1 DEF ReaderInv
  <2> HIDE DEF Only
  <2> QED
    BY <1>d, <2>3, <2>4
<1>8. CASE UNCHANGED readerVars
  <2>1. \A r \in Readers : Reads(r)'
    BY <1>8, <1>c
  <2> QED
    BY <1>8, <2>1 DEF ReaderInv
<1>9. ASSUME NEW a \in Attempts, Begin(a) \/ AttemptStep(a) \/ Crash(a) PROVE UNCHANGED readerVars
  BY <1>9 DEF Begin, AttemptStep, FindOrphans, DeleteChunkRow, DeleteChunkFile, PutChunk, Flush,
     Finish, Mark, Fails, Crash
<1>10. ASSUME NEW E \in SUBSET Nars, Evict(E) PROVE UNCHANGED readerVars
  BY <1>10 DEF Evict
<1>11. DeleteOrphanFile \/ EvictionDies \/ (\E n \in Nars : GoesStale(n)) \/ UNCHANGED vars => UNCHANGED readerVars
  BY DEF DeleteOrphanFile, EvictionDies, GoesStale, vars
<1> QED
  BY <1>1, <1>3, <1>4, <1>5, <1>6, <1>7, <1>8, <1>9, <1>10, <1>11 DEF Next, ReaderStep

\* A reader that ends without an error has sent exactly the chunks of the NAR, in
\* order, on either path of getNarFromChunks, whatever goes on around it: chunking
\* given up and restarted under its feet, eviction and a new row, files deleted.
\* The hypotheses are those under which the links are right (ChunkedNarsIntact).
THEOREM StreamIsTheNar ==
    ASSUME Faithful, Apart \/ NoneDies
    PROVE  Spec => []StreamedIsContent
<1>1. Init => ReaderInv
  <2> SUFFICES ASSUME Init PROVE ReaderInv
    OBVIOUS
  <2>1. ASSUME NEW r \in Readers PROVE Reads(r)
    <3>1. Len(Content[NarRead[r]]) \in Nat
      BY CdcChunkingAssumption
    <3>2. << >> = Prefix(NarRead[r], 0)
      BY DEF Prefix
    <3>3. got[r] = << >> /\ rtotal[r] = 0 /\ rpc[r] = "idle"
      BY DEF Init
    <3> QED
      BY <3>1, <3>2, <3>3 DEF Reads
  <2> QED
    BY <2>1 DEF Init, ReaderInv
<1>2. (ProgressInv /\ LinkInv) /\ ReaderInv /\ [Next]_vars => ReaderInv'
  BY ReadersStep
<1>3. ReaderInv => StreamedIsContent
  BY DEF ReaderInv, Reads, StreamedIsContent
<1> QED
  BY <1>1, <1>2, <1>3, Linked, PTL DEF Spec

-----------------------------------------------------------------------------
(* Types.                                                                  *)

\* Ids: every eviction uses up one of the runs of runLRU.
RowTypes ==
    /\ row \in [Nars -> {"absent", "plain", "fresh", "stale", "done"}]
    /\ narId \in [Nars -> Nat] /\ gcLeft \in 0..MaxGC
    /\ \A n \in Nars : narId[n] + gcLeft <= MaxGC
    /\ aid \in [Attempts -> 0..MaxGC]
    /\ rid \in [Readers -> 0..MaxGC]
    /\ rpc \in [Readers -> {"idle", "complete", "query", "fetch", "check", "ok", "error"}]

\* No reader delivers more than the NAR has.
StreamTypes ==
    \A a \in Attempts : /\ Len(stream[a].data) <= Len(Content[NarOf[a]])
                        /\ \A i \in 1..Len(stream[a].data) : stream[a].data[i] \in Chunks

\* Neither does anybody count more.
TotalTypes ==
    /\ total \in [Nars -> Nat] /\ rtotal \in [Readers -> Nat]
    /\ \A n \in Nars : total[n] <= Len(Content[n])
    /\ \A r \in Readers : rtotal[r] <= Len(Content[NarRead[r]])

\* A NAR that is done has chunks, and a reader on the fast path knows how many.
CountTypes ==
    /\ \A n \in Nars : row[n] = "done" => total[n] > 0
    /\ \A r \in Readers : rpc[r] = "complete" => rtotal[r] > 0

\* The link and chunk tables, the chunk store, and what is about to be deleted.
TableTypes ==
    /\ links = [n \in Nars |-> links[n]]
    /\ \A n \in Nars : /\ DOMAIN links[n] \subseteq 1..Len(Content[n])
                       /\ Image(links[n]) \subseteq rows
    /\ rows \subseteq Chunks /\ files \subseteq Chunks /\ gcFiles \subseteq Chunks
    /\ victim \in [Attempts -> Chunks \cup {0}]

\* A hash has had no more rows than the attempts have recorded chunks, and one.
Recorded == {p \in Places : p[2] <= flushed[p[1]]}
MadeTypes ==
    /\ made \in [Chunks -> Nat]
    /\ \A c \in Chunks : made[c] <= 1 + Cardinality(Recorded)
    /\ doomed = [a \in Attempts |-> doomed[a]]
    /\ \A a \in Attempts : doomed[a] \subseteq Chunks \X (0..MaxMade)

\* What a reader fetches and has sent are chunks.
ReaderTypes ==
    /\ batch \in [Readers -> Seq(Chunks)] /\ got \in [Readers -> Seq(Chunks)]
    /\ \A r \in Readers : rpc[r] = "fetch" => batch[r] # << >>

\* The files given up for lost are chunks.
LostTypes == lost \subseteq Chunks

\* The inductive invariant of TypeOK.
TypeInv ==
    /\ RowTypes /\ StreamTypes /\ TotalTypes /\ CountTypes
    /\ TableTypes /\ MadeTypes /\ ReaderTypes /\ LostTypes

\* Every step keeps RowTypes.
LEMMA RowTypesStep == RowTypes /\ [Next]_vars => RowTypes'
<1> SUFFICES ASSUME RowTypes, [Next]_vars PROVE RowTypes'
  OBVIOUS
<1> USE CdcChunkingAssumption
    DEF RowTypes, narVars, chunkVars, attemptVars, gcVars, readerVars
<1>1. \A n \in Nars : narId[n] \in 0..MaxGC
  OBVIOUS
<1>2. ASSUME NEW a \in Attempts, Begin(a) PROVE RowTypes'
  <2>1. aid' = aid \/ aid' = [aid EXCEPT ![a] = narId[NarOf[a]]]
    BY <1>2 DEF Begin
  <2>2. row' = row \/ row' = [row EXCEPT ![NarOf[a]] = "fresh"]
    BY <1>2 DEF Begin
  <2>3. UNCHANGED <<narId, gcLeft, rid, rpc>>
    BY <1>2 DEF Begin
  <2>4. aid' \in [Attempts -> 0..MaxGC]
    BY <1>1, <2>1
  <2>5. row' \in [Nars -> {"absent", "plain", "fresh", "stale", "done"}]
    BY <2>2
  <2> QED
    BY <2>3, <2>4, <2>5
<1>3. ASSUME NEW a \in Attempts, Mark(a) \/ Fails(a) PROVE RowTypes'
  <2>1. row' = row \/ \E x \in {"plain", "done"} : row' = [row EXCEPT ![NarOf[a]] = x]
    BY <1>3 DEF Mark, Fails, Abort
  <2>2. UNCHANGED <<narId, gcLeft, aid, rid, rpc>>
    BY <1>3 DEF Mark, Fails, Abort
  <2>3. row' \in [Nars -> {"absent", "plain", "fresh", "stale", "done"}]
    BY <2>1
  <2> QED
    BY <2>2, <2>3
<1>4. ASSUME NEW a \in Attempts,
             \/ FindOrphans(a) \/ DeleteChunkRow(a) \/ DeleteChunkFile(a)
             \/ PutChunk(a) \/ Flush(a) \/ Finish(a) \/ Crash(a)
      PROVE  RowTypes'
  BY <1>4 DEF FindOrphans, DeleteChunkRow, DeleteChunkFile, PutChunk, Flush, Finish, Crash
<1>5. ASSUME NEW E \in SUBSET Nars, Evict(E) PROVE RowTypes'
  <2>1. /\ gcLeft > 0 /\ gcLeft' = gcLeft - 1
        /\ row' = [n \in Nars |-> IF n \in E THEN "absent" ELSE row[n]]
        /\ narId' = [n \in Nars |-> IF n \in E THEN narId[n] + 1 ELSE narId[n]]
        /\ UNCHANGED <<aid, rid, rpc>>
    BY <1>5 DEF Evict
  <2>2. narId' \in [Nars -> Nat] /\ \A n \in Nars : narId'[n] <= narId[n] + 1
    BY <2>1
  <2>3. gcLeft' \in 0..MaxGC /\ \A n \in Nars : narId'[n] + gcLeft' <= MaxGC
    BY <2>1, <2>2
  <2> QED
    BY <2>1, <2>2, <2>3
<1>6. ASSUME NEW r \in Readers, Open(r) \/ ReaderStep(r) \/ WaitTimeout(r) PROVE RowTypes'
  <2>1. rid' = rid \/ rid' = [rid EXCEPT ![r] = narId[NarRead[r]]]
    BY <1>6 DEF Open, ReaderStep, QueryAll, Query, Fetch, CheckRow, WaitTimeout
  <2>2. \/ rpc' = rpc
        \/ \E x \in {"complete", "query", "fetch", "check", "ok", "error"} : rpc' = [rpc EXCEPT ![r] = x]
    BY <1>6 DEF Open, ReaderStep, QueryAll, Query, Fetch, CheckRow, WaitTimeout
  <2>3. UNCHANGED <<row, narId, gcLeft, aid>>
    BY <1>6 DEF Open, ReaderStep, QueryAll, Query, Fetch, CheckRow, WaitTimeout
  <2>4. rid' \in [Readers -> 0..MaxGC]
    BY <1>1, <2>1
  <2>5. rpc' \in [Readers -> {"idle", "complete", "query", "fetch", "check", "ok", "error"}]
    BY <2>2
  <2> QED
    BY <2>3, <2>4, <2>5
<1>7. CASE DeleteOrphanFile \/ EvictionDies
  BY <1>7 DEF DeleteOrphanFile, EvictionDies
<1>8. ASSUME NEW n \in Nars, GoesStale(n) PROVE RowTypes'
  <2>1. row' = [row EXCEPT ![n] = "stale"] /\ UNCHANGED <<narId, gcLeft, aid, rid, rpc>>
    BY <1>8 DEF GoesStale
  <2> QED
    BY <2>1
<1>9. CASE UNCHANGED vars
  BY <1>9 DEF vars
<1> QED
  BY <1>2, <1>3, <1>4, <1>5, <1>6, <1>7, <1>8, <1>9 DEF Next, AttemptStep

\* The chunks of a NAR, and what is left of one that is cut short.
LEMMA StreamsBounded ==
    ASSUME NEW n \in Nars, NEW s \in Streams(n)
    PROVE  /\ Len(s.data) \in Nat /\ Len(s.data) <= Len(Content[n])
           /\ \A i \in 1..Len(s.data) : s.data[i] \in Chunks
<1>1. Len(s.data) \in Nat /\ \A i \in 1..Len(s.data) : s.data[i] \in Of(n)
  BY StreamsOf
<1>2. Of(n) \subseteq Chunks
  BY DEF Of, Chunks, Whole
<1>3. Len(s.data) <= Len(Content[n])
  <2> DEFINE N == Len(Content[n])
  <2>1. N \in Nat /\ \A k \in 1..N : -Content[n][k] \in Int
    BY CdcChunkingAssumption
  <2>2. \A k \in 0..N : Cut(n, k) \in Seq(Int) /\ Len(Cut(n, k)) = k
    BY CutIs
  <2>3. \/ s.data = Content[n]
        \/ \E k \in 1..N : s.data = Cut(n, k - 1) \/ s.data = Append(Cut(n, k - 1), -Content[n][k])
        \/ \E k \in 0..N : s.data = Cut(n, k)
    BY StreamsAre
  <2>4. ASSUME NEW k \in 1..N, s.data = Append(Cut(n, k - 1), -Content[n][k]) PROVE Len(s.data) = k
    <3>1. k - 1 \in 0..N
      BY <2>1
    <3>2. Cut(n, k - 1) \in Seq(Int) /\ Len(Cut(n, k - 1)) = k - 1
      BY <2>2, <3>1
    <3> QED
      BY <2>1, <2>4, <3>2
  <2>5. ASSUME NEW k \in 1..N, s.data = Cut(n, k - 1) PROVE Len(s.data) <= N
    <3>1. k - 1 \in 0..N
      BY <2>1
    <3>2. Len(Cut(n, k - 1)) = k - 1
      BY <2>2, <3>1
    <3> QED
      BY <2>1, <2>5, <3>2
  <2>6. ASSUME NEW k \in 0..N, s.data = Cut(n, k) PROVE Len(s.data) <= N
    BY <2>1, <2>2, <2>6
  <2>7. ASSUME NEW k \in 1..N, s.data = Append(Cut(n, k - 1), -Content[n][k]) PROVE Len(s.data) <= N
    <3>1. Len(s.data) = k
      BY <2>4, <2>7
    <3>2. k <= N
      BY <2>1
    <3> QED
      BY <3>1, <3>2
  <2>8. s.data = Content[n] => Len(s.data) <= N
    BY <2>1
  <2> HIDE DEF N
  <2> QED
    BY <2>3, <2>5, <2>6, <2>7, <2>8 DEF N
<1> QED
  BY <1>1, <1>2, <1>3

\* Every step keeps StreamTypes.
LEMMA StreamTypesStep == ProgressInv /\ StreamTypes /\ [Next]_vars => StreamTypes'
<1> SUFFICES ASSUME ProgressInv, StreamTypes, [Next]_vars PROVE StreamTypes'
  OBVIOUS
<1>1. \/ stream' = stream
      \/ \E a \in Attempts : \E s \in Streams(NarOf[a]) : stream' = [stream EXCEPT ![a] = s]
  BY DEF Next, AttemptStep, ReaderStep, Begin, FindOrphans, DeleteChunkRow, DeleteChunkFile,
     PutChunk, Flush, Finish, Mark, Fails, Crash, Evict, DeleteOrphanFile, EvictionDies, Open, QueryAll, Query,
     Fetch, CheckRow, WaitTimeout, GoesStale, vars, attemptVars
<1>2. ASSUME NEW a \in Attempts, NEW s \in Streams(NarOf[a]), stream' = [stream EXCEPT ![a] = s]
      PROVE  StreamTypes'
  <2>1. NarOf[a] \in Nars
    BY CdcChunkingAssumption
  <2>2. /\ Len(s.data) <= Len(Content[NarOf[a]])
        /\ \A i \in 1..Len(s.data) : s.data[i] \in Chunks
    BY <2>1, StreamsBounded
  <2>3. \A b \in Attempts : stream'[b] = IF b = a THEN s ELSE stream[b]
    BY <1>2 DEF ProgressInv
  <2> QED
    BY <2>2, <2>3 DEF StreamTypes
<1> QED
  BY <1>1, <1>2 DEF StreamTypes

\* Every step keeps TotalTypes.
LEMMA TotalTypesStep == ProgressInv /\ StreamTypes /\ TotalTypes /\ [Next]_vars => TotalTypes'
<1> SUFFICES ASSUME ProgressInv, StreamTypes, TotalTypes, [Next]_vars PROVE TotalTypes'
  OBVIOUS
<1> USE CdcChunkingAssumption
    DEF TotalTypes, narVars, chunkVars, attemptVars, gcVars, readerVars
<1>1. \A n \in Nars : Len(Content[n]) \in Nat
  OBVIOUS
<1>2. ASSUME NEW a \in Attempts, Mark(a) PROVE TotalTypes'
  <2>1. total' = total \/ total' = [total EXCEPT ![NarOf[a]] = next[a]]
    BY <1>2 DEF Mark, Abort
  <2>2. next[a] \in Nat /\ next[a] <= Len(Content[NarOf[a]])
    <3>1. next[a] \in Nat /\ next[a] <= Len(stream[a].data) /\ Len(stream[a].data) \in Nat
      BY DEF ProgressInv, OfChunks
    <3>2. Len(stream[a].data) <= Len(Content[NarOf[a]])
      BY DEF StreamTypes
    <3>3. Len(Content[NarOf[a]]) \in Nat
      BY <1>1
    <3> QED
      BY <3>1, <3>2, <3>3
  <2>3. rtotal' = rtotal
    BY <1>2 DEF Mark
  <2> QED
    BY <2>1, <2>2, <2>3
<1>3. ASSUME NEW a \in Attempts,
             \/ Begin(a) \/ FindOrphans(a) \/ DeleteChunkRow(a) \/ DeleteChunkFile(a)
             \/ PutChunk(a) \/ Flush(a) \/ Finish(a) \/ Fails(a) \/ Crash(a)
      PROVE  UNCHANGED <<total, rtotal>>
  BY <1>3 DEF Begin, FindOrphans, DeleteChunkRow, DeleteChunkFile, PutChunk, Flush, Finish,
     Fails, Abort, Crash
<1>4. ASSUME NEW E \in SUBSET Nars, Evict(E) PROVE TotalTypes'
  <2>1. total' = [n \in Nars |-> IF n \in E THEN 0 ELSE total[n]] /\ rtotal' = rtotal
    BY <1>4 DEF Evict
  <2> QED
    BY <1>1, <2>1
<1>5. ASSUME NEW r \in Readers, Open(r) \/ ReaderStep(r) \/ WaitTimeout(r) PROVE TotalTypes'
  <2>1. total' = total /\ (rtotal' = rtotal \/ rtotal' = [rtotal EXCEPT ![r] = total[NarRead[r]]])
    BY <1>5 DEF Open, ReaderStep, QueryAll, Query, Fetch, CheckRow, WaitTimeout
  <2> QED
    BY <2>1
<1>6. DeleteOrphanFile \/ EvictionDies \/ (\E n \in Nars : GoesStale(n)) \/ UNCHANGED vars => UNCHANGED <<total, rtotal>>
  BY DEF DeleteOrphanFile, EvictionDies, GoesStale, vars
<1> QED
  BY <1>2, <1>3, <1>4, <1>5, <1>6 DEF Next, AttemptStep

\* Every step keeps CountTypes.
LEMMA CountTypesStep ==
    ProgressInv /\ RowTypes /\ TotalTypes /\ CountTypes /\ [Next]_vars => CountTypes'
<1> SUFFICES ASSUME ProgressInv, RowTypes, TotalTypes, CountTypes, [Next]_vars PROVE CountTypes'
  OBVIOUS
<1> USE CdcChunkingAssumption
    DEF RowTypes, TotalTypes, CountTypes, narVars, chunkVars, attemptVars, gcVars, readerVars
<1>1. ASSUME NEW a \in Attempts, Begin(a) PROVE CountTypes'
  <2>1. row' = row \/ row' = [row EXCEPT ![NarOf[a]] = "fresh"]
    BY <1>1 DEF Begin
  <2>2. UNCHANGED <<total, rpc, rtotal>>
    BY <1>1 DEF Begin
  <2> QED
    BY <2>1, <2>2
<1>2. ASSUME NEW a \in Attempts, Mark(a) \/ Fails(a) PROVE CountTypes'
  <2>1. \/ row' = row /\ total' = total
        \/ row' = [row EXCEPT ![NarOf[a]] = "plain"] /\ total' = total
        \/ /\ row' = [row EXCEPT ![NarOf[a]] = IF next[a] = 0 THEN "plain" ELSE "done"]
           /\ total' = [total EXCEPT ![NarOf[a]] = next[a]]
    BY <1>2 DEF Mark, Fails, Abort
  <2>2. UNCHANGED <<rpc, rtotal>> /\ next[a] \in Nat
    BY <1>2 DEF Mark, Fails, ProgressInv
  <2>3. \A n \in Nars : row'[n] = "done" => total'[n] > 0
    BY <2>1, <2>2
  <2> QED
    BY <2>2, <2>3
<1>3. ASSUME NEW a \in Attempts,
             \/ FindOrphans(a) \/ DeleteChunkRow(a) \/ DeleteChunkFile(a)
             \/ PutChunk(a) \/ Flush(a) \/ Finish(a) \/ Crash(a)
      PROVE  UNCHANGED <<row, total, rpc, rtotal>>
  BY <1>3 DEF FindOrphans, DeleteChunkRow, DeleteChunkFile, PutChunk, Flush, Finish, Crash
<1>4. ASSUME NEW E \in SUBSET Nars, Evict(E) PROVE CountTypes'
  <2>1. /\ row' = [n \in Nars |-> IF n \in E THEN "absent" ELSE row[n]]
        /\ total' = [n \in Nars |-> IF n \in E THEN 0 ELSE total[n]]
        /\ UNCHANGED <<rpc, rtotal>>
    BY <1>4 DEF Evict
  <2> QED
    BY <2>1
<1>5. ASSUME NEW r \in Readers, Open(r) PROVE CountTypes'
  <2>1. /\ rtotal' = [rtotal EXCEPT ![r] = total[NarRead[r]]]
        /\ rpc' = [rpc EXCEPT ![r] = IF row[NarRead[r]] = "done" THEN "complete" ELSE "query"]
        /\ UNCHANGED <<row, total>>
    BY <1>5 DEF Open
  <2> QED
    BY <2>1
<1>6. ASSUME NEW r \in Readers, ReaderStep(r) \/ WaitTimeout(r) PROVE CountTypes'
  <2>1. \E x \in {"query", "fetch", "check", "ok", "error"} : rpc' = [rpc EXCEPT ![r] = x]
    BY <1>6 DEF ReaderStep, QueryAll, Query, Fetch, CheckRow, WaitTimeout
  <2>2. /\ UNCHANGED <<row, total>>
        /\ rtotal' = rtotal \/ rtotal' = [rtotal EXCEPT ![r] = total[NarRead[r]]]
    BY <1>6 DEF ReaderStep, QueryAll, Query, Fetch, CheckRow, WaitTimeout
  <2> QED
    BY <2>1, <2>2
<1>7. ASSUME NEW n \in Nars, GoesStale(n) PROVE CountTypes'
  BY <1>7 DEF GoesStale
<1>8. DeleteOrphanFile \/ EvictionDies \/ UNCHANGED vars => UNCHANGED <<row, total, rpc, rtotal>>
  BY DEF DeleteOrphanFile, EvictionDies, vars
<1> QED
  BY <1>1, <1>2, <1>3, <1>4, <1>5, <1>6, <1>7, <1>8 DEF Next, AttemptStep

\* A batch that is recorded goes into the link and the chunk tables.
LEMMA RecordTables ==
    ASSUME ProgressInv, StreamTypes, TableTypes, NEW a \in Attempts, Record(a)
    PROVE  /\ links' = [n \in Nars |-> links'[n]] /\ rows' \subseteq Chunks
           /\ \A n \in Nars : /\ DOMAIN links'[n] \subseteq 1..Len(Content[n])
                              /\ Image(links'[n]) \subseteq rows'
<1> DEFINE m   == NarOf[a]
           new == {stream[a].data[i] : i \in (flushed[a] + 1)..next[a]}
           to  == DOMAIN links[m] \cup (flushed[a] + 1)..next[a]
           f   == [i \in to |-> IF i \in DOMAIN links[m] THEN links[m][i] ELSE stream[a].data[i]]
<1>1. rows' = rows \cup new /\ links' = [links EXCEPT ![m] = f]
  BY DEF Record
<1>2. m \in Nars /\ Len(Content[m]) \in Nat
  BY CdcChunkingAssumption
<1>3. /\ flushed[a] \in Nat /\ next[a] \in Nat /\ Len(stream[a].data) \in Nat
      /\ next[a] <= Len(stream[a].data) /\ Len(stream[a].data) <= Len(Content[m])
  BY DEF ProgressInv, OfChunks, StreamTypes
<1>4. \A i \in (flushed[a] + 1)..next[a] :
        i \in 1..Len(Content[m]) /\ stream[a].data[i] \in Chunks /\ stream[a].data[i] \in new
  <2>1. \A i \in (flushed[a] + 1)..next[a] : i \in 1..Len(stream[a].data) /\ i \in 1..Len(Content[m])
    BY <1>2, <1>3
  <2> QED
    BY <2>1 DEF StreamTypes
<1>5. DOMAIN f \subseteq 1..Len(Content[m])
  BY <1>2, <1>4 DEF TableTypes
<1>6. \A i \in DOMAIN f : f[i] \in rows \cup new
  BY <1>2, <1>4 DEF TableTypes, Image
<1>7. rows' \subseteq Chunks
  BY <1>1, <1>4 DEF TableTypes
<1> HIDE DEF m, new, f
<1>8. links' = [n \in Nars |-> links'[n]] /\ \A n \in Nars : links'[n] = IF n = m THEN f ELSE links[n]
  BY <1>1, <1>2 DEF TableTypes
<1>9. Image(f) \subseteq rows \cup new
  BY <1>6 DEF Image
<1> QED
  BY <1>1, <1>5, <1>7, <1>8, <1>9 DEF TableTypes

\* Every step keeps TableTypes.
LEMMA TableTypesStep ==
    ProgressInv /\ StreamTypes /\ TableTypes /\ MadeTypes /\ [Next]_vars => TableTypes'
<1> SUFFICES ASSUME ProgressInv, StreamTypes, TableTypes, MadeTypes, [Next]_vars PROVE TableTypes'
  OBVIOUS
<1> USE CdcChunkingAssumption DEF narVars, chunkVars, attemptVars, gcVars, readerVars
<1>1. ASSUME NEW a \in Attempts, Begin(a) PROVE TableTypes'
  <2>1. links' = links \/ links' = [links EXCEPT ![NarOf[a]] = Empty]
    BY <1>1 DEF Begin
  <2>2. UNCHANGED <<rows, files, gcFiles, victim>>
    BY <1>1 DEF Begin
  <2>3. DOMAIN Empty = {} /\ Image(Empty) = {}
    BY DEF Empty, Image
  <2> HIDE DEF Empty
  <2>4. /\ links' = [n \in Nars |-> links'[n]]
        /\ \A n \in Nars : links'[n] = links[n] \/ links'[n] = Empty
    BY <2>1 DEF TableTypes
  <2> QED
    BY <2>2, <2>3, <2>4 DEF TableTypes
<1>2. ASSUME NEW a \in Attempts, DeleteChunkRow(a) PROVE TableTypes'
  <2>1. PICK id \in doomed[a] :
          /\ \/ rows' = rows \ {id[1]} /\ links' = Unlinked(links, {id[1]})
             \/ UNCHANGED <<rows, links>>
          /\ victim' = [victim EXCEPT ![a] = id[1]] \/ victim' = victim
    BY <1>2 DEF DeleteChunkRow
  <2>2. UNCHANGED <<files, gcFiles>>
    BY <1>2 DEF DeleteChunkRow
  <2> DEFINE c == id[1]
  <2>3. c \in Chunks
    BY DEF MadeTypes
  <2> HIDE DEF c
  <2>4. victim' \in [Attempts -> Chunks \cup {0}]
    BY <2>1, <2>3 DEF TableTypes, c
  <2>5. CASE UNCHANGED <<rows, links>>
    BY <2>2, <2>4, <2>5 DEF TableTypes
  <2>6. CASE rows' = rows \ {c} /\ links' = Unlinked(links, {c})
    <3>1. links' = [n \in Nars |-> links'[n]]
      BY <2>6 DEF Unlinked
    <3>2. ASSUME NEW n \in Nars
          PROVE  /\ DOMAIN links'[n] \subseteq DOMAIN links[n]
                 /\ \A x \in Image(links'[n]) : x \in Image(links[n]) /\ x # c
      <4> DEFINE u == [i \in {j \in DOMAIN links[n] : links[n][j] \notin {c}} |-> links[n][i]]
      <4>1. links'[n] = u
        BY <2>6 DEF Unlinked
      <4>2. \A i \in DOMAIN u : i \in DOMAIN links[n] /\ u[i] = links[n][i] /\ u[i] # c
        OBVIOUS
      <4> HIDE DEF u
      <4> QED
        BY <4>1, <4>2 DEF Image
    <3> QED
      BY <2>2, <2>4, <2>6, <3>1, <3>2 DEF TableTypes
  <2> QED
    BY <2>1, <2>5, <2>6 DEF c
<1>3. ASSUME NEW a \in Attempts, DeleteChunkFile(a) PROVE TableTypes'
  <2>1. /\ files' \subseteq files /\ victim' = [victim EXCEPT ![a] = 0]
        /\ UNCHANGED <<links, rows, gcFiles>>
    BY <1>3 DEF DeleteChunkFile
  <2> QED
    BY <2>1 DEF TableTypes
<1>4. ASSUME NEW a \in Attempts, PutChunk(a) PROVE TableTypes'
  <2>1. /\ next[a] < Len(stream[a].data) /\ files' = files \cup {stream[a].data[next[a] + 1]}
        /\ UNCHANGED <<links, rows, gcFiles, victim>>
    BY <1>4 DEF PutChunk
  <2>2. next[a] + 1 \in 1..Len(stream[a].data)
    BY <2>1 DEF ProgressInv, OfChunks
  <2>3. stream[a].data[next[a] + 1] \in Chunks
    BY <2>2 DEF StreamTypes
  <2> QED
    BY <2>1, <2>3 DEF TableTypes
<1>5. ASSUME NEW a \in Attempts, Flush(a) \/ Finish(a) PROVE TableTypes'
  <2>1. UNCHANGED <<files, gcFiles, victim>> /\ (Record(a) \/ UNCHANGED <<links, rows>>)
    BY <1>5 DEF Flush, Finish
  <2>2. CASE Record(a)
    BY <2>1, <2>2, RecordTables DEF TableTypes
  <2> QED
    BY <2>1, <2>2 DEF TableTypes
<1>6. ASSUME NEW a \in Attempts, FindOrphans(a) \/ Mark(a) \/ Fails(a) \/ Crash(a)
      PROVE  UNCHANGED <<links, rows, files, gcFiles, victim>>
  BY <1>6 DEF FindOrphans, Mark, Fails, Crash
<1>7. ASSUME NEW E \in SUBSET Nars, Evict(E) PROVE TableTypes'
  <2> DEFINE left == [n \in Nars |-> IF n \in E THEN Empty ELSE links[n]]
             gone == Orphans(left)
  <2>1. links' = left /\ rows' = rows \ gone /\ gcFiles' = gone /\ UNCHANGED <<files, victim>>
    BY <1>7 DEF Evict
  <2>2. DOMAIN Empty = {} /\ Image(Empty) = {}
    BY DEF Empty, Image
  <2>3. \A n \in Nars : left[n] = Empty \/ left[n] = links[n]
    OBVIOUS
  <2>4. gone \subseteq rows /\ \A n \in Nars : Image(left[n]) \cap gone = {}
    BY DEF Orphans
  <2>5. left = [n \in Nars |-> left[n]]
    OBVIOUS
  <2> HIDE DEF left, gone, Empty
  <2> QED
    BY <2>1, <2>2, <2>3, <2>4, <2>5 DEF TableTypes
<1>8. CASE DeleteOrphanFile \/ EvictionDies
  <2>1. /\ gcFiles' \subseteq gcFiles /\ files' \subseteq files
        /\ UNCHANGED <<links, rows, victim>>
    BY <1>8 DEF DeleteOrphanFile, EvictionDies
  <2> QED
    BY <2>1 DEF TableTypes
<1>9. ASSUME NEW r \in Readers, Open(r) \/ ReaderStep(r) \/ WaitTimeout(r)
      PROVE  UNCHANGED <<links, rows, files, gcFiles, victim>>
  BY <1>9 DEF Open, ReaderStep, QueryAll, Query, Fetch, CheckRow, WaitTimeout
<1>10. (\E n \in Nars : GoesStale(n)) \/ UNCHANGED vars => UNCHANGED <<links, rows, files, gcFiles, victim>>
  BY DEF GoesStale, vars
<1>11. UNCHANGED <<links, rows, files, gcFiles, victim>> => TableTypes'
  BY DEF TableTypes
<1> QED
  BY <1>1, <1>2, <1>3, <1>4, <1>5, <1>6, <1>7, <1>8, <1>9, <1>10, <1>11 DEF Next, AttemptStep

\* Every step keeps LostTypes: a file is lost only when it is there.
LEMMA LostTypesStep == TableTypes /\ LostTypes /\ [Next]_vars => LostTypes'
<1> SUFFICES ASSUME TableTypes, LostTypes, [Next]_vars PROVE LostTypes'
  OBVIOUS
<1> USE DEF narVars, chunkVars, attemptVars, gcVars, readerVars
<1>1. ASSUME NEW a \in Attempts, Begin(a) \/ FindOrphans(a) \/ DeleteChunkRow(a) \/ PutChunk(a)
                                   \/ Mark(a) \/ Fails(a)
      PROVE  lost' = lost
  BY <1>1 DEF Begin, FindOrphans, DeleteChunkRow, PutChunk, Mark, Fails
<1>2. ASSUME NEW a \in Attempts, DeleteChunkFile(a) \/ Crash(a)
      PROVE  lost' \subseteq lost \cup files
  BY <1>2 DEF DeleteChunkFile, Crash, Lost
<1>3. ASSUME NEW a \in Attempts, Flush(a) \/ Finish(a) PROVE lost' \subseteq lost
  <2>1. Record(a) \/ lost' = lost
    BY <1>3 DEF Flush, Finish
  <2> QED
    BY <2>1 DEF Record
<1>4. ASSUME NEW E \in SUBSET Nars, Evict(E) PROVE lost' = lost
  BY <1>4 DEF Evict
<1>5. DeleteOrphanFile \/ EvictionDies => lost' \subseteq lost \cup files
  BY DEF DeleteOrphanFile, EvictionDies, Lost
<1>6. ASSUME NEW r \in Readers, Open(r) \/ ReaderStep(r) \/ WaitTimeout(r) PROVE lost' = lost
  BY <1>6 DEF Open, ReaderStep, QueryAll, Query, Fetch, CheckRow, WaitTimeout
<1>7. (\E n \in Nars : GoesStale(n)) \/ UNCHANGED vars => lost' = lost
  BY DEF GoesStale, vars
<1>8. lost' \subseteq lost \cup files
  BY <1>1, <1>2, <1>3, <1>4, <1>5, <1>6, <1>7 DEF Next, AttemptStep
<1> QED
  BY <1>8 DEF TableTypes, LostTypes

\* Finitely many attempts record in finitely many places.
LEMMA PlacesFinite ==
    ASSUME IsFiniteSet(Attempts)
    PROVE  IsFiniteSet(Places)
<1> DEFINE Of1(a) == {a} \X (1..Len(Content[NarOf[a]]))
           S == {Of1(a) : a \in Attempts}
           f == [a \in Attempts |-> Of1(a)]
<1>1. f \in Surjection(Attempts, S)
  BY DEF Surjection
<1>2. IsFiniteSet(S)
  BY <1>1, FS_Surjection
<1>3. ASSUME NEW a \in Attempts PROVE IsFiniteSet(Of1(a))
  <2>1. Len(Content[NarOf[a]]) \in Int
    BY CdcChunkingAssumption
  <2>2. IsFiniteSet(1..Len(Content[NarOf[a]]))
    BY <2>1, FS_Interval
  <2>3. IsFiniteSet({a})
    BY FS_Singleton
  <2> QED
    BY <2>2, <2>3, FS_Product
<1>4. \A T \in S : IsFiniteSet(T)
  BY <1>3
<1>5. Places = UNION S
  BY DEF Places
<1> HIDE DEF S
<1> QED
  BY <1>2, <1>4, <1>5, FS_UNION

\* What is in Places, and that the recorded ones can be counted.
LEMMA PlacesAre ==
    \A a \in Attempts : \A i : <<a, i>> \in Places <=> i \in 1..Len(Content[NarOf[a]])
  BY DEF Places

\* The recorded places can be counted.
LEMMA RecordedFinite ==
    ASSUME IsFiniteSet(Attempts)
    PROVE  /\ IsFiniteSet(Recorded) /\ Cardinality(Recorded) \in Nat
           /\ Cardinality(Places) \in Nat /\ Cardinality(Recorded) <= Cardinality(Places)
<1>1. IsFiniteSet(Places)
  BY PlacesFinite
<1>2. Recorded \in SUBSET Places
  BY DEF Recorded
<1> HIDE DEF Recorded, Places
<1> QED
  BY <1>1, <1>2, FS_Subset, FS_CardinalityType

\* A batch that is recorded adds to what has been recorded, and to each hash one row
\* at most.
LEMMA RecordCounts ==
    ASSUME IsFiniteSet(Attempts), ProgressInv, StreamTypes, MadeTypes,
           NEW a \in Attempts, next[a] > flushed[a], Record(a), next' = next
    PROVE  /\ made' \in [Chunks -> Nat]
           /\ \A c \in Chunks : made'[c] <= 1 + Cardinality(Recorded')
<1>1. /\ flushed[a] \in Nat /\ next[a] \in Nat /\ Len(stream[a].data) \in Nat
      /\ next[a] <= Len(stream[a].data) /\ Len(stream[a].data) <= Len(Content[NarOf[a]])
  BY DEF ProgressInv, OfChunks, StreamTypes
<1>2. Len(Content[NarOf[a]]) \in Nat
  BY CdcChunkingAssumption
<1>3. \A b \in Attempts : flushed'[b] = IF b = a THEN next[a] ELSE flushed[b]
  BY DEF Record, ProgressInv
<1>4. \A p \in Places : p[1] \in Attempts /\ p[2] \in Nat
  BY DEF Places
<1>5. Recorded \subseteq Recorded'
  <2>1. \A b \in Attempts : flushed[b] \in Nat /\ flushed'[b] \in Nat /\ flushed[b] <= flushed'[b]
    BY <1>1, <1>3 DEF ProgressInv
  <2>2. \A p \in Places : p[2] <= flushed[p[1]] => p[2] <= flushed'[p[1]]
    BY <1>4, <2>1
  <2> QED
    BY <2>2 DEF Recorded
<1>6. <<a, next[a]>> \in Recorded' /\ <<a, next[a]>> \notin Recorded
  <2>1. next[a] \in 1..Len(Content[NarOf[a]])
    BY <1>1, <1>2
  <2>2. <<a, next[a]>> \in Places
    BY <2>1, PlacesAre
  <2> QED
    BY <1>1, <1>3, <2>2 DEF Recorded
<1>7. IsFiniteSet(Recorded') /\ Cardinality(Recorded') \in Nat
  <2>1. IsFiniteSet(Places) /\ Recorded' \in SUBSET Places
    BY PlacesFinite DEF Recorded
  <2> HIDE DEF Recorded, Places
  <2> QED
    BY <2>1, FS_Subset, FS_CardinalityType
<1>8. Cardinality(Recorded) \in Nat
  BY RecordedFinite
<1>9. Cardinality(Recorded) + 1 <= Cardinality(Recorded')
  <2> DEFINE R == Recorded
             Q == Recorded'
  <2>1. R \in SUBSET Q /\ R # Q /\ IsFiniteSet(Q) /\ Cardinality(Q) \in Nat /\ Cardinality(R) \in Nat
    BY <1>5, <1>6, <1>7, <1>8
  <2> HIDE DEF R, Q
  <2>2. Cardinality(R) <= Cardinality(Q) /\ Cardinality(R) # Cardinality(Q)
    BY <2>1, FS_Subset
  <2>3. Cardinality(R) + 1 <= Cardinality(Q)
    BY <2>1, <2>2
  <2> QED
    BY <2>3 DEF R, Q
<1>10. PICK new : made' = [c \in Chunks |-> IF c \in new \ rows THEN made[c] + 1 ELSE made[c]]
  BY DEF Record
<1>11. \A c \in Chunks : made'[c] \in Nat /\ made'[c] <= made[c] + 1
  BY <1>10 DEF MadeTypes
<1>12. made' \in [Chunks -> Nat]
  BY <1>10, <1>11
<1> DEFINE m == Cardinality(Recorded)
           k == Cardinality(Recorded')
<1> HIDE DEF m, k
<1>13. \A c \in Chunks : made[c] \in Nat /\ made[c] <= 1 + m
  BY DEF MadeTypes, m
<1>14. m \in Nat /\ k \in Nat /\ m + 1 <= k
  BY <1>7, <1>8, <1>9 DEF m, k
<1>15. \A c \in Chunks : made'[c] <= 1 + k
  BY <1>11, <1>13, <1>14
<1> QED
  BY <1>12, <1>15 DEF k

\* The id of the row of a linked chunk.
LEMMA IdsBounded ==
    ASSUME IsFiniteSet(Attempts), MadeTypes, TableTypes, NEW n \in Nars, NEW c \in Image(links[n])
    PROVE  ChunkId(c) \in Chunks \X (0..MaxMade)
<1>1. c \in Chunks
  BY DEF TableTypes
<1>2. made[c] \in Nat /\ made[c] <= 1 + Cardinality(Recorded)
  BY <1>1 DEF MadeTypes
<1>3. /\ Cardinality(Recorded) \in Nat /\ Cardinality(Places) \in Nat
      /\ Cardinality(Recorded) <= Cardinality(Places)
  BY RecordedFinite
<1>4. made[c] \in 0..MaxMade
  BY <1>2, <1>3 DEF MaxMade
<1> QED
  BY <1>1, <1>4 DEF ChunkId

\* Every step keeps MadeTypes.
LEMMA MadeTypesStep ==
    ASSUME IsFiniteSet(Attempts), ProgressInv, StreamTypes, TableTypes, MadeTypes, [Next]_vars
    PROVE  MadeTypes'
<1> USE DEF narVars, chunkVars, attemptVars, gcVars, readerVars
<1> DEFINE Ids == Chunks \X (0..MaxMade)
           DoomedTyped == /\ doomed' = [b \in Attempts |-> doomed'[b]]
                          /\ \A b \in Attempts : doomed'[b] \subseteq Ids
           Uncounted == UNCHANGED <<made, flushed>>
<1>1. ASSUME Uncounted, DoomedTyped PROVE MadeTypes'
  <2>1. Recorded' = Recorded
    BY <1>1 DEF Recorded
  <2>2. made' = made
    BY <1>1
  <2>3. /\ made' \in [Chunks -> Nat]
        /\ \A c \in Chunks : made'[c] <= 1 + Cardinality(Recorded')
    BY <2>1, <2>2 DEF MadeTypes
  <2> QED
    BY <1>1, <2>3 DEF MadeTypes
<1>2. \A a \in Attempts : \A D : doomed' = [doomed EXCEPT ![a] = D] /\ D \subseteq Ids => DoomedTyped
  BY DEF MadeTypes
<1>3. doomed' = doomed => DoomedTyped
  BY DEF MadeTypes
<1> HIDE DEF DoomedTyped
<1>4. ASSUME NEW a \in Attempts, Begin(a) PROVE Uncounted /\ DoomedTyped
  <2> DEFINE D == {ChunkId(c) : c \in Image(links[NarOf[a]])}
  <2>1. Uncounted /\ (doomed' = doomed \/ doomed' = [doomed EXCEPT ![a] = D])
    BY <1>4 DEF Begin
  <2>2. NarOf[a] \in Nars
    BY CdcChunkingAssumption
  <2>3. D \subseteq Ids
    BY <2>2, IdsBounded
  <2> HIDE DEF D, Ids
  <2> QED
    BY <1>2, <1>3, <2>1, <2>3
<1>5. ASSUME NEW a \in Attempts, FindOrphans(a) \/ DeleteChunkRow(a) PROVE Uncounted /\ DoomedTyped
  <2>1. /\ Uncounted
        /\ \E D \in SUBSET doomed[a] : doomed' = [doomed EXCEPT ![a] = D]
    BY <1>5 DEF FindOrphans, DeleteChunkRow
  <2>2. doomed[a] \subseteq Ids
    BY DEF MadeTypes
  <2> HIDE DEF Ids
  <2> QED
    BY <1>2, <2>1, <2>2
<1>6. ASSUME NEW a \in Attempts, Flush(a) \/ Finish(a) PROVE MadeTypes'
  <2>1. /\ UNCHANGED <<next, doomed>>
        /\ Uncounted \/ (next[a] > flushed[a] /\ Record(a))
    BY <1>6 DEF Flush, Finish
  <2>2. DoomedTyped
    BY <1>3, <2>1
  <2>3. ASSUME next[a] > flushed[a], Record(a) PROVE MadeTypes'
    <3>1. /\ made' \in [Chunks -> Nat]
          /\ \A c \in Chunks : made'[c] <= 1 + Cardinality(Recorded')
      BY <2>1, <2>3, RecordCounts
    <3> QED
      BY <2>2, <3>1 DEF MadeTypes, DoomedTyped
  <2> QED
    BY <1>1, <2>1, <2>2, <2>3
<1>7. ASSUME NEW a \in Attempts,
             DeleteChunkFile(a) \/ PutChunk(a) \/ Mark(a) \/ Fails(a) \/ Crash(a)
      PROVE  Uncounted /\ doomed' = doomed
  BY <1>7 DEF DeleteChunkFile, PutChunk, Mark, Fails, Crash
<1>8. ASSUME NEW E \in SUBSET Nars, Evict(E) PROVE Uncounted /\ doomed' = doomed
  BY <1>8 DEF Evict
<1>9. ASSUME NEW r \in Readers, Open(r) \/ ReaderStep(r) \/ WaitTimeout(r)
      PROVE  Uncounted /\ doomed' = doomed
  BY <1>9 DEF Open, ReaderStep, QueryAll, Query, Fetch, CheckRow, WaitTimeout
<1>10. DeleteOrphanFile \/ EvictionDies \/ (\E n \in Nars : GoesStale(n)) \/ UNCHANGED vars
         => Uncounted /\ doomed' = doomed
  BY DEF DeleteOrphanFile, EvictionDies, GoesStale, vars
<1> HIDE DEF Uncounted
<1> QED
  BY <1>1, <1>3, <1>4, <1>5, <1>6, <1>7, <1>8, <1>9, <1>10 DEF Next, AttemptStep

\* Every non-empty set of naturals has a least element.
LEMMA LeastNatural ==
    ASSUME NEW T, T \subseteq Nat, T # {}
    PROVE  \E x \in T : \A y \in T : x <= y
<1> DEFINE R == OpToRel(<, Nat)
<1>1. IsWellFoundedOn(R, Nat)
  BY NatLessThanWellFounded, Zenon
<1>2. \A x, y \in Nat : <<y, x>> \in R <=> y < x
  BY DEF OpToRel
<1> HIDE DEF R
<1>3. PICK x \in T : \A y \in T : ~ (<<y, x>> \in R)
  BY <1>1, WFMin
<1>4. \A y \in T : ~ (y < x)
  BY <1>2, <1>3
<1> QED
  BY <1>3, <1>4

\* The k-th element of a finite set of naturals.
LEMMA NthExists ==
    ASSUME NEW m \in Nat, NEW S, S \subseteq 1..m, NEW k \in 1..Cardinality(S)
    PROVE  \E i \in S : Cardinality({j \in S : j < i}) = k - 1
<1> DEFINE Below(x) == {j \in S : j < x}
           T == {x \in 0..(m + 1) : Cardinality(Below(x)) >= k}
<1>1. IsFiniteSet(S) /\ Cardinality(S) \in Nat
  <2>1. IsFiniteSet(1..m)
    BY FS_Interval
  <2> QED
    BY <2>1, FS_Subset, FS_CardinalityType
<1>2. \A x : IsFiniteSet(Below(x)) /\ Cardinality(Below(x)) \in Nat
  <2> TAKE x
  <2>1. Below(x) \in SUBSET S
    OBVIOUS
  <2> HIDE DEF Below
  <2> QED
    BY <1>1, <2>1, FS_Subset, FS_CardinalityType
<1>3. m + 1 \in T
  <2>1. Below(m + 1) = S
    <3>1. \A j \in S : j < m + 1
      OBVIOUS
    <3> QED
      BY <3>1, Zenon
  <2> QED
    BY <1>1, <2>1
<1>4. T \subseteq Nat
  OBVIOUS
<1>5. PICK x \in T : \A y \in T : x <= y
  BY <1>3, <1>4, LeastNatural
<1>6. x \in 0..(m + 1) /\ Cardinality(Below(x)) >= k
  OBVIOUS
<1>7. x # 0
  <2>1. Below(0) = {}
    <3>1. \A j \in S : ~ (j < 0)
      OBVIOUS
    <3> QED
      BY <3>1, Zenon
  <2>2. Cardinality(Below(0)) = 0
    BY <2>1, FS_EmptySet
  <2> HIDE DEF Below
  <2> QED
    BY <1>6, <2>2
<1> DEFINE y == x - 1
<1>8. y \in 0..(m + 1) /\ x = y + 1 /\ ~ (x <= y)
  BY <1>6, <1>7
<1>9. ~ (Cardinality(Below(y)) >= k)
  BY <1>5, <1>8
<1>10. IF y \in S THEN Below(x) = Below(y) \cup {y} ELSE Below(x) = Below(y)
  <2>1. \A j \in S : j < x <=> (j < y \/ j = y)
    BY <1>8
  <2> HIDE DEF y
  <2> QED
    BY <2>1, Zenon
<1>11. y \notin Below(y)
  BY <1>8
<1> HIDE DEF Below, y
<1>12. y \in S
  BY <1>6, <1>9, <1>10
<1>13. Cardinality(Below(x)) = Cardinality(Below(y)) + 1
  BY <1>2, <1>10, <1>11, <1>12, FS_AddElement
<1>14. Cardinality(Below(y)) = k - 1
  <2>1. Cardinality(Below(y)) \in Nat /\ k \in Nat
    BY <1>1, <1>2
  <2> QED
    BY <1>6, <1>9, <1>13, <2>1
<1> QED
  BY <1>12, <1>14 DEF Below

\* The query returns chunks, whatever links there are.
LEMMA LinkedFromChunks ==
    ASSUME TableTypes, NEW n \in Nars, NEW index
    PROVE  LinkedFrom(n, index) \in Seq(Chunks)
<1> DEFINE S == {i \in DOMAIN links[n] : i > index}
           Nth(k) == CHOOSE i \in S : Cardinality({j \in S : j < i}) = k - 1
<1>1. LinkedFrom(n, index) = [k \in 1..Cardinality(S) |-> links[n][Nth(k)]]
  BY DEF LinkedFrom
<1>2. S \subseteq 1..Len(Content[n]) /\ Len(Content[n]) \in Nat
  BY CdcChunkingAssumption DEF TableTypes
<1>3. Cardinality(S) \in Nat
  <2>1. IsFiniteSet(1..Len(Content[n]))
    BY <1>2, FS_Interval
  <2> HIDE DEF S
  <2> QED
    BY <1>2, <2>1, FS_Subset, FS_CardinalityType
<1>4. \A i \in S : links[n][i] \in Chunks
  BY DEF TableTypes, Image
<1> HIDE DEF S
<1>5. ASSUME NEW k \in 1..Cardinality(S) PROVE Nth(k) \in S
  <2>1. \E i \in S : Cardinality({j \in S : j < i}) = k - 1
    BY <1>2, NthExists
  <2> QED
    BY <2>1
<1> HIDE DEF Nth
<1>6. [k \in 1..Cardinality(S) |-> links[n][Nth(k)]] \in [1..Cardinality(S) -> Chunks]
  BY <1>4, <1>5
<1> QED
  BY <1>1, <1>3, <1>6

\* Every step keeps ReaderTypes.
LEMMA ReaderTypesStep ==
    RowTypes /\ CountTypes /\ TableTypes /\ ReaderTypes /\ [Next]_vars => ReaderTypes'
<1> SUFFICES ASSUME RowTypes, CountTypes, TableTypes, ReaderTypes, [Next]_vars PROVE ReaderTypes'
  OBVIOUS
<1> USE DEF narVars, chunkVars, attemptVars, gcVars, readerVars
<1>1. ASSUME NEW r \in Readers PROVE Found(r) \in Seq(Chunks)
  <2>1. NarRead[r] \in Nars
    BY CdcChunkingAssumption
  <2>2. LinkedFrom(NarRead[r], Len(got[r])) \in Seq(Chunks)
    BY <2>1, LinkedFromChunks
  <2> QED
    BY <2>2 DEF Found
<1>2. ASSUME NEW r \in Readers, QueryAll(r) \/ Query(r) PROVE ReaderTypes'
  <2>1. /\ batch' = [batch EXCEPT ![r] = Found(r)] /\ got' = got
        /\ \E x : rpc' = [rpc EXCEPT ![r] = x] /\ (x = "fetch" => Len(Found(r)) > 0)
    <3>1. CASE QueryAll(r)
      <4> DEFINE x == IF Len(Found(r)) = rtotal[r] THEN "fetch" ELSE "error"
      <4>1. rtotal[r] > 0
        BY <3>1 DEF QueryAll, CountTypes
      <4>2. /\ batch' = [batch EXCEPT ![r] = Found(r)] /\ got' = got
            /\ rpc' = [rpc EXCEPT ![r] = x]
        BY <3>1 DEF QueryAll
      <4>3. x = "fetch" => Len(Found(r)) > 0
        BY <4>1
      <4> HIDE DEF x
      <4> QED
        BY <4>2, <4>3
    <3>2. CASE Query(r)
      <4>1. Found(r) # << >> => Len(Found(r)) > 0
        BY <1>1
      <4> QED
        BY <3>2, <4>1 DEF Query
    <3> QED
      BY <1>2, <3>1, <3>2
  <2>2. batch' \in [Readers -> Seq(Chunks)]
    BY <1>1, <2>1 DEF ReaderTypes
  <2>3. Len(Found(r)) > 0 => Found(r) # << >>
    BY <1>1
  <2>4. \A q \in Readers : rpc'[q] = "fetch" => batch'[q] # << >>
    BY <2>1, <2>3 DEF ReaderTypes, RowTypes
  <2> QED
    BY <2>1, <2>2, <2>4 DEF ReaderTypes
<1>3. ASSUME NEW r \in Readers, Fetch(r) PROVE ReaderTypes'
  <2> DEFINE t == Tail(batch[r])
             c == Head(batch[r])
  <2>1. /\ rpc[r] = "fetch" /\ batch' = [batch EXCEPT ![r] = t]
        /\ got' = got \/ (c \in files /\ got' = [got EXCEPT ![r] = Append(@, c)])
        /\ rpc' = [rpc EXCEPT ![r] = rpc'[r]] /\ (rpc'[r] = "fetch" => Len(batch[r]) > 1)
    <3>1. /\ rpc[r] = "fetch" /\ batch' = [batch EXCEPT ![r] = t]
          /\ got' = got \/ (c \in files /\ got' = [got EXCEPT ![r] = Append(@, c)])
      BY <1>3 DEF Fetch
    <3>2. /\ rpc' = [rpc EXCEPT ![r] = rpc'[r]]
          /\ rpc'[r] = "fetch" => Len(batch[r]) > 1
      BY <1>3 DEF Fetch, RowTypes
    <3> QED
      BY <3>1, <3>2
  <2>2. batch[r] \in Seq(Chunks) /\ batch[r] # << >>
    BY <2>1 DEF ReaderTypes
  <2>3. t \in Seq(Chunks) /\ (Len(batch[r]) > 1 => t # << >>)
    <3>1. t \in Seq(Chunks) /\ Len(t) = Len(batch[r]) - 1 /\ Len(batch[r]) \in Nat
      BY <2>2
    <3>2. Len(<< >>) = 0
      OBVIOUS
    <3> HIDE DEF t
    <3> QED
      BY <3>1, <3>2
  <2>4. c \in files => c \in Chunks
    BY DEF TableTypes
  <2> HIDE DEF t, c
  <2>5. batch' \in [Readers -> Seq(Chunks)]
    BY <2>1, <2>3 DEF ReaderTypes
  <2>6. got' \in [Readers -> Seq(Chunks)]
    <3>1. CASE got' = got
      BY <3>1 DEF ReaderTypes
    <3>2. CASE c \in files /\ got' = [got EXCEPT ![r] = Append(@, c)]
      <4>1. Append(got[r], c) \in Seq(Chunks)
        BY <2>4, <3>2 DEF ReaderTypes
      <4> QED
        BY <3>2, <4>1 DEF ReaderTypes
    <3> QED
      BY <2>1, <3>1, <3>2
  <2>7. \A q \in Readers : rpc'[q] = "fetch" => batch'[q] # << >>
    BY <2>1, <2>3 DEF ReaderTypes, RowTypes
  <2> QED
    BY <2>5, <2>6, <2>7 DEF ReaderTypes
<1>4. ASSUME NEW r \in Readers, Open(r) \/ CheckRow(r) \/ WaitTimeout(r) PROVE ReaderTypes'
  <2>1. /\ UNCHANGED <<batch, got>>
        /\ \E x \in {"complete", "query", "ok", "error"} : rpc' = [rpc EXCEPT ![r] = x]
    BY <1>4 DEF Open, CheckRow, WaitTimeout
  <2> QED
    BY <2>1 DEF ReaderTypes, RowTypes
<1>5. ASSUME NEW a \in Attempts, Begin(a) \/ AttemptStep(a) \/ Crash(a) PROVE UNCHANGED readerVars
  BY <1>5 DEF Begin, AttemptStep, FindOrphans, DeleteChunkRow, DeleteChunkFile, PutChunk, Flush,
     Finish, Mark, Fails, Crash
<1>6. ASSUME NEW E \in SUBSET Nars, Evict(E) PROVE UNCHANGED readerVars
  BY <1>6 DEF Evict
<1>7. DeleteOrphanFile \/ EvictionDies \/ (\E n \in Nars : GoesStale(n)) \/ UNCHANGED vars => UNCHANGED readerVars
  BY DEF DeleteOrphanFile, EvictionDies, GoesStale, vars
<1>8. UNCHANGED readerVars => ReaderTypes'
  BY DEF ReaderTypes
<1> QED
  BY <1>2, <1>3, <1>4, <1>5, <1>6, <1>7, <1>8 DEF Next, ReaderStep

\* The types at the start.
LEMMA TypeInit == ASSUME IsFiniteSet(Attempts), Init PROVE TypeInv
<1> USE CdcChunkingAssumption
<1>1. RowTypes
  BY DEF Init, RowTypes
<1>2. StreamTypes
  BY DEF Init, StreamTypes
<1>3. \A n \in Nars : Content[n] \in Seq(Nat \ {0}) /\ Len(Content[n]) \in Nat /\ Len(Content[n]) > 0
  OBVIOUS
<1>4. TotalTypes /\ CountTypes
  BY <1>3 DEF Init, TotalTypes, CountTypes
<1>5. rows \subseteq Chunks
  BY DEF Init, Chunks, Whole
<1>6. TableTypes
  <2>1. DOMAIN Empty = {} /\ Image(Empty) = {}
    BY DEF Empty, Image
  <2>2. \A n \in Nars : DOMAIN Content[n] = 1..Len(Content[n])
    BY <1>3
  <2>3. /\ links = [n \in Nars |-> IF n \in Chunked THEN Content[n] ELSE Empty]
        /\ rows = UNION {Image(Content[n]) : n \in Chunked} /\ files = rows /\ gcFiles = {}
        /\ victim = [a \in Attempts |-> 0]
    BY DEF Init
  <2>4. victim \in [Attempts -> Chunks \cup {0}]
    BY <2>3
  <2> HIDE DEF Empty
  <2>5. \A n \in Nars : DOMAIN links[n] \subseteq 1..Len(Content[n]) /\ Image(links[n]) \subseteq rows
    BY <2>1, <2>2, <2>3
  <2> QED
    BY <1>5, <2>3, <2>4, <2>5 DEF TableTypes
<1>7. MadeTypes
  <2>1. /\ made = [c \in Chunks |-> IF c \in rows THEN 1 ELSE 0]
        /\ doomed = [a \in Attempts |-> {}]
    BY DEF Init
  <2>2. Cardinality(Recorded) \in Nat
    BY RecordedFinite
  <2> QED
    BY <2>1, <2>2 DEF MadeTypes
<1>8. ReaderTypes
  BY DEF Init, ReaderTypes
<1>9. LostTypes
  BY DEF Init, LostTypes
<1> QED
  BY <1>1, <1>2, <1>4, <1>6, <1>7, <1>8, <1>9 DEF TypeInv

\* The tables of chunked NARs are well formed for any NARs, attempts that fail, die or
\* are cancelled, evictions and readers: links and chunk files only of chunks that have
\* been put, no index past the end of the NAR, and no more rows for a hash than batches
\* have been recorded.  How often that is can be counted as there are finitely many
\* attempts.
THEOREM ChunkingTypes ==
    ASSUME IsFiniteSet(Attempts)
    PROVE  Spec => []TypeOK
<1>1. Init => ProgressInv /\ TypeInv
  BY ProgressInit, TypeInit
<1>2. ProgressInv /\ TypeInv /\ [Next]_vars => ProgressInv' /\ TypeInv'
  BY ProgressStep, RowTypesStep, StreamTypesStep, TotalTypesStep, CountTypesStep,
     TableTypesStep, MadeTypesStep, ReaderTypesStep, LostTypesStep DEF TypeInv
<1>3. ProgressInv /\ TypeInv => TypeOK
  <2> SUFFICES ASSUME ProgressInv, TypeInv PROVE TypeOK
    OBVIOUS
  <2> USE DEF TypeInv
  <2>1. narId \in [Nars -> 0..MaxGC] /\ gcLeft \in 0..MaxGC
    <3>1. \A n \in Nars : narId[n] \in 0..MaxGC
      BY CdcChunkingAssumption DEF RowTypes
    <3> QED
      BY <3>1 DEF RowTypes
  <2>2. made \in [Chunks -> 0..MaxMade]
    <3>1. /\ Cardinality(Recorded) \in Nat /\ Cardinality(Places) \in Nat
          /\ Cardinality(Recorded) <= Cardinality(Places)
      BY RecordedFinite
    <3>2. \A c \in Chunks : made[c] \in 0..MaxMade
      BY <3>1 DEF MadeTypes, MaxMade
    <3> QED
      BY <3>2 DEF MadeTypes
  <2>3. \A a \in Attempts : 0 <= flushed[a] /\ flushed[a] <= next[a]
    BY DEF ProgressInv
  <2>4. \A r \in Readers : Image(batch[r]) \subseteq Chunks /\ Image(got[r]) \subseteq Chunks
    BY DEF ReaderTypes, Image
  <2> QED
    BY <2>1, <2>2, <2>3, <2>4
    DEF TypeOK, RowTypes, StreamTypes, TotalTypes, TableTypes, MadeTypes, LostTypes,
        ProgressInv
<1> QED
  BY <1>1, <1>2, <1>3, PTL DEF Spec

=============================================================================
