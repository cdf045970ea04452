---------------------------- MODULE NarDownload ----------------------------
(***************************************************************************)
(* One NAR hash fetched through ncps: GetNar, prePullNar,                  *)
(* coordinateDownload and pullNarIntoStore of pkg/cache/cache.go.          *)
(*                                                                         *)
(* Several servers share the storage backend, the nar_files table and the  *)
(* download lock; each keeps its own upstreamJobs map.  A request creates  *)
(* at most one downloadState, so a downloadState is named by the request   *)
(* that created it: written[d], closed[d], ... are the fields of the       *)
(* downloadState of request d.  A sync.WaitGroup is the set of those who   *)
(* have called Add and not Done.                                           *)
(*                                                                         *)
(* Steps that no other goroutine can tell apart are one action: closing    *)
(* several channels and the Broadcast after it, and the storage, database  *)
(* and job-map lookups that open GetNar (they are repeated under the       *)
(* lock).  The bytes of a NAR are NarLen blocks.                           *)
(***************************************************************************)
EXTENDS Naturals, FiniteSets

CONSTANTS
    Servers,      \* ncps instances
    Requests,     \* GetNar calls for the NAR, each served once
    ServerOf,     \* the instance each request reaches
    None,         \* the nil downloadState, lock owner and job
    Chunker,      \* the CDC goroutine, as a member of a WaitGroup
    NarLen,       \* length of the NAR
    Mode,         \* "plain": CDC off; "pipe": CDC while downloading (compressed
                  \* NAR with a narinfo); "eager": CDC after the download
    Distributed,  \* TRUE for the Redis lock, FALSE for the local one
    Faults,       \* the environment's faults that may happen
    MaxFaults     \* bound on failing fetches, transactions and crashes, lost locks

ASSUME NarDownloadAssumption ==
    /\ ServerOf \in [Requests -> Servers]
    /\ None \notin Requests
    /\ None \notin Servers
    /\ Chunker \notin Requests
    /\ NarLen \in Nat
    /\ MaxFaults \in Nat
    /\ Mode \in {"plain", "pipe", "eager"}
    /\ Distributed \in BOOLEAN

VARIABLES
    file,       \* the whole NAR is in the NarStore
    row,        \* the nar_files row of the NAR
    lock,       \* owner of the download lock
    held,       \* held[s]: the mutex server s remembers for the lock's key
    job,        \* job[s]: upstreamJobs[narJobKey(hash)] of server s
    budget,     \* crashes, expiries and stale locks that may still happen
    \* downloadState
    written, final, failed, start, stored, done, closed, wg, temp,
    \* goroutines: pullNarIntoStore, CDC, cleanup, deferred unlock
    pull, cdc, offset, clean, duty,
    \* requests
    pc, ds, sent, avail, whole

storageVars == <<file, row>>
lockVars    == <<lock, held>>
stateVars   == <<written, final, failed, start, stored, done, closed, wg, temp>>
routineVars == <<pull, cdc, offset, clean, duty>>
requestVars == <<pc, ds, sent, avail, whole>>
vars == <<storageVars, lockVars, job, budget, stateVars, routineVars, requestVars>>

CDC == Mode # "plain"

\* total_chunks and chunking_started_at of the row: "plain" is 0 and NULL,
\* "chunking" is 0 and less than cdcChunkingLockTTL old, "stale" is 0 and older,
\* "chunked" is positive.  To the code "left" is "chunking": the name records that
\* the database failed when the chunker that ended wanted to clear the mark.
RowState == {"absent", "plain", "chunking", "left", "stale", "chunked"}

\* chunking_started_at is set and fresh.
Marked == row \in {"chunking", "left"}

PullState  == {"none", "fetch", "temp", "stream", "store", "record", "finish", "close",
               "ended"}
CdcState   == {"none", "record", "chunk", "leave", "unlist", "close", "ended"}
CleanState == {"none", "waiting", "closed", "ended"}
Final      == {"served", "full", "truncated", "error", "aborted", "crashed"}
Streaming  == {"loop", "cond", "woken", "copy"}
RequestState == {"idle", "coord", "lock", "poll", "locked", "create", "await", "join",
                 "joined", "waitStart", "waitStored", "progressive"} \cup Streaming \cup Final

TypeOK ==
    /\ file \in BOOLEAN
    /\ row \in RowState
    /\ lock \in Requests \cup {None}
    /\ held \in [Servers -> Requests \cup {None}]
    /\ job \in [Servers -> Requests \cup {None}]
    /\ budget \in 0..MaxFaults
    /\ written \in [Requests -> 0..NarLen]
    /\ final \in [Requests -> 0..NarLen]
    /\ failed \in [Requests -> BOOLEAN]
    /\ start \in [Requests -> BOOLEAN]
    /\ stored \in [Requests -> BOOLEAN]
    /\ done \in [Requests -> BOOLEAN]
    /\ closed \in [Requests -> BOOLEAN]
    /\ wg \in [Requests -> SUBSET (Requests \cup {Chunker})]
    /\ temp \in [Requests -> {"none", "exists", "removed"}]
    /\ pull \in [Requests -> PullState]
    /\ cdc \in [Requests -> CdcState]
    /\ offset \in [Requests -> 0..NarLen]
    /\ clean \in [Requests -> CleanState]
    /\ duty \in [Requests -> {"none", "owed", "waiting", "ended"}]
    /\ pc \in [Requests -> RequestState]
    /\ ds \in [Requests -> Requests \cup {None}]
    /\ sent \in [Requests -> 0..NarLen]
    /\ avail \in [Requests -> 0..NarLen]
    /\ whole \in [Requests -> BOOLEAN]

Init ==
    /\ file = FALSE
    /\ row \in {"absent", "plain"}     \* storeInDatabase may have left a placeholder
    /\ lock = None
    /\ held = [s \in Servers |-> None]
    /\ job = [s \in Servers |-> None]
    /\ budget = MaxFaults
    /\ written = [d \in Requests |-> 0]
    /\ final = [d \in Requests |-> 0]
    /\ failed = [d \in Requests |-> FALSE]
    /\ start = [d \in Requests |-> FALSE]
    /\ stored = [d \in Requests |-> FALSE]
    /\ done = [d \in Requests |-> FALSE]
    /\ closed = [d \in Requests |-> FALSE]
    /\ wg = [d \in Requests |-> {}]
    /\ temp = [d \in Requests |-> "none"]
    /\ pull = [d \in Requests |-> "none"]
    /\ cdc = [d \in Requests |-> "none"]
    /\ offset = [d \in Requests |-> 0]
    /\ clean = [d \in Requests |-> "none"]
    /\ duty = [r \in Requests |-> "none"]
    /\ pc = [r \in Requests |-> "idle"]
    /\ ds = [r \in Requests |-> None]
    /\ sent = [r \in Requests |-> 0]
    /\ avail = [r \in Requests |-> 0]
    /\ whole = [r \in Requests |-> FALSE]

-----------------------------------------------------------------------------
(* Shared pieces.                                                          *)

Goto(r, state) == pc' = [pc EXCEPT ![r] = state]

\* ds.cond.Broadcast(): every reader asleep on d's condition variable wakes.
Broadcast(d) == pc' = [r \in Requests |->
                         IF pc[r] = "cond" /\ ds[r] = d THEN "woken" ELSE pc[r]]

\* hasAsset of prePullNar.
HasAsset == file \/ (CDC /\ (row = "chunked" \/ Marked))

\* serveNarFromStorageViaPipe: the whole file, complete chunks, or chunks as
\* another chunker records them.
ServeOutcome ==
    IF file THEN "served"
    ELSE IF ~CDC \/ row = "absent" THEN "error"
    ELSE IF row = "chunked" THEN "served" ELSE "progressive"

\* Mutant of Serve: the orphan is not healed.
ServeWithoutHealing(r) == Goto(r, ServeOutcome) /\ UNCHANGED storageVars

\* Serving from the store also recreates a missing nar_files row (a failure to
\* do so is only logged).
Serve(r) ==
    /\ Goto(r, ServeOutcome)
    /\ row' \in IF file /\ row = "absent"
               THEN {"plain"} \cup (IF "database" \in Faults THEN {row} ELSE {})
               ELSE {row}
    /\ UNCHANGED file

\* downloadLocker.Unlock(key): it releases the mutex the server remembers for
\* the key, whoever put it there; a mutex that has expired changes nothing.
Unlock(s) ==
    /\ held' = [held EXCEPT ![s] = None]
    /\ lock' = IF lock = held[s] THEN None ELSE lock

-----------------------------------------------------------------------------
(* GetNar and coordinateDownload, on behalf of request r.                  *)

\* GetNar: serve what is stored, stream what another instance is chunking,
\* else go and download.
Get(r) ==
    /\ pc[r] = "idle"
    /\ LET inChunks == CDC /\ row = "chunked"
           chunking == CDC /\ Marked /\ job[ServerOf[r]] = None
       IN IF file \/ inChunks \/ chunking
          THEN Serve(r)
          ELSE Goto(r, "coord") /\ UNCHANGED storageVars
    /\ UNCHANGED <<lockVars, job, budget, stateVars, routineVars,
                   ds, sent, avail, whole>>

\* streamProgressiveChunks: done when the row is chunked, an error when the
\* chunking was aborted.
Progressive(r) ==
    /\ pc[r] = "progressive"
    /\ ~Marked /\ row # "stale"
    /\ Goto(r, IF row = "chunked" THEN "served" ELSE "error")
    /\ UNCHANGED <<storageVars, lockVars, job, budget, stateVars, routineVars,
                   ds, sent, avail, whole>>

\* streamProgressiveChunks gives up after maxWaitPerChunk without a new chunk.
ProgressiveTimeout(r) ==
    /\ pc[r] = "progressive"
    /\ Marked \/ row = "stale"
    /\ Goto(r, "error")
    /\ UNCHANGED <<storageVars, lockVars, job, budget, stateVars, routineVars,
                   ds, sent, avail, whole>>

\* The first look at upstreamJobs: join the local download, or go for the lock.
FindJob(r) ==
    /\ pc[r] = "coord"
    /\ LET d == job[ServerOf[r]]
       IN /\ Goto(r, IF d # None THEN "await" ELSE "lock")
          /\ ds' = [ds EXCEPT ![r] = d]
    /\ UNCHANGED <<storageVars, lockVars, job, budget, stateVars, routineVars,
                   sent, avail, whole>>

\* downloadLocker.Lock succeeds.
Acquire(r) ==
    /\ pc[r] = "lock"
    /\ lock = None
    /\ lock' = r
    /\ held' = [held EXCEPT ![ServerOf[r]] = r]
    /\ Goto(r, "locked")
    /\ UNCHANGED <<storageVars, job, budget, stateVars, routineVars,
                   ds, sent, avail, whole>>

\* downloadLocker.Lock fails after MaxAttempts tries: poll the storage.
AcquireFails(r) ==
    /\ pc[r] = "lock"
    /\ Distributed
    /\ lock # None
    /\ Goto(r, "poll")
    /\ UNCHANGED <<storageVars, lockVars, job, budget, stateVars, routineVars,
                   ds, sent, avail, whole>>

\* A poll finds the asset: a closed downloadState, so storage serves it.
PollHit(r) ==
    /\ pc[r] = "poll"
    /\ HasAsset
    /\ Serve(r)
    /\ UNCHANGED <<lockVars, job, budget, stateVars, routineVars,
                   ds, sent, avail, whole>>

\* Mutant of PollTimeout: polls until the asset appears.
PollForever(r) == PollHit(r)

\* downloadPollTimeout: a downloadState that carries an error.
PollTimeout(r) ==
    /\ pc[r] = "poll"
    /\ IF file THEN Serve(r) ELSE Goto(r, "error") /\ UNCHANGED storageVars
    /\ UNCHANGED <<lockVars, job, budget, stateVars, routineVars,
                   ds, sent, avail, whole>>

\* The check under the lock: somebody else stored the asset meanwhile.
CheckUnderLock(r) ==
    /\ pc[r] = "locked"
    /\ IF HasAsset
       THEN Unlock(ServerOf[r]) /\ Serve(r)
       ELSE Goto(r, "create") /\ UNCHANGED <<storageVars, lockVars>>
    /\ UNCHANGED <<job, budget, stateVars, routineVars,
                   ds, sent, avail, whole>>

\* The second look at upstreamJobs: join the job found there, or register a
\* new downloadState and start pullNarIntoStore.
CreateJob(r) ==
    /\ pc[r] = "create"
    /\ LET s == ServerOf[r]
           d == IF job[s] # None THEN job[s] ELSE r
       IN /\ job' = [job EXCEPT ![s] = d]
          /\ pull' = IF job[s] = None THEN [pull EXCEPT ![r] = "fetch"] ELSE pull
          /\ ds' = [ds EXCEPT ![r] = d]
    /\ duty' = [duty EXCEPT ![r] = "owed"]
    /\ Goto(r, "await")
    /\ UNCHANGED <<storageVars, lockVars, budget, stateVars, cdc, offset, clean,
                   sent, avail, whole>>

\* Mutant of StopAwaiting: no goroutine is left behind.
StopAwaitingOnly(r) ==
    /\ duty' = IF duty[r] = "owed" THEN [duty EXCEPT ![r] = "ended"] ELSE duty
    /\ Goto(r, "join")
    /\ UNCHANGED <<storageVars, lockVars, job, budget, stateVars, pull, cdc, offset,
                   clean, ds, sent, avail, whole>>

\* Who holds the lock leaves a goroutine behind to release it.
StopAwaiting(r) ==
    /\ duty' = IF duty[r] = "owed" THEN [duty EXCEPT ![r] = "waiting"] ELSE duty
    /\ Goto(r, "join")
    /\ UNCHANGED <<storageVars, lockVars, job, budget, stateVars, pull, cdc, offset,
                   clean, ds, sent, avail, whole>>

\* Wait for the download to start or to end.
AwaitStart(r) ==
    /\ pc[r] = "await"
    /\ start[ds[r]] \/ done[ds[r]]
    /\ StopAwaiting(r)

\* The caller goes away first; GetNar goes on with the downloadState it has.
AbandonAwait(r) ==
    /\ pc[r] = "await"
    /\ "cancel" \in Faults
    /\ StopAwaiting(r)

\* Mutant of Join: canStream without ds.wg.Add(1).
JoinUncounted(r) ==
    /\ pc[r] = "join"
    /\ IF closed[ds[r]] THEN Serve(r) ELSE Goto(r, "joined") /\ UNCHANGED storageVars
    /\ UNCHANGED <<lockVars, job, budget, stateVars, routineVars, ds, sent, avail, whole>>

\* canStream := !ds.closed, and ds.wg.Add(1) under the same mutex.
Join(r) ==
    /\ pc[r] = "join"
    /\ IF closed[ds[r]]
       THEN /\ Serve(r)
            /\ UNCHANGED wg
       ELSE /\ wg' = [wg EXCEPT ![ds[r]] = @ \cup {r}]
            /\ Goto(r, "joined")
            /\ UNCHANGED storageVars
    /\ UNCHANGED <<lockVars, job, budget, written, final, failed, start,
                   stored, done, closed, temp, routineVars, ds, sent, avail, whole>>

\* HasNarInStore after joining: prefer the stored file to the temp file.
PreferStore(r) ==
    /\ pc[r] = "joined"
    /\ IF file
       THEN /\ wg' = [wg EXCEPT ![ds[r]] = @ \ {r}]
            /\ Serve(r)
       ELSE /\ Goto(r, "waitStart")
            /\ UNCHANGED <<storageVars, wg>>
    /\ UNCHANGED <<lockVars, job, budget, written, final, failed, start,
                   stored, done, closed, temp, routineVars, ds, sent, avail, whole>>

\* <-ds.start, then ds.getError().  The early return does not call wg.Done.
StartStream(r) ==
    /\ pc[r] = "waitStart"
    /\ start[ds[r]]
    /\ Goto(r, IF failed[ds[r]] THEN "error" ELSE "loop")
    /\ UNCHANGED <<storageVars, lockVars, job, budget, stateVars, routineVars,
                   ds, sent, avail, whole>>

\* <-ctx.Done() before the download started.  No wg.Done either.
GiveUp(r) ==
    /\ pc[r] = "waitStart"
    /\ "cancel" \in Faults
    /\ Goto(r, "error")
    /\ UNCHANGED <<storageVars, lockVars, job, budget, stateVars, routineVars,
                   ds, sent, avail, whole>>

\* The head of the streaming loop, under ds.mu: go to sleep when there is
\* nothing new and the size is not known, else note what can be read.
LoopHead(r) ==
    /\ pc[r] = "loop"
    /\ LET d == ds[r]
       IN IF sent[r] >= written[d] /\ final[d] = 0
          THEN /\ Goto(r, "cond")
               /\ UNCHANGED <<avail, whole>>
          ELSE /\ Goto(r, "copy")
               /\ avail' = [avail EXCEPT ![r] = written[d]]
               /\ whole' = [whole EXCEPT ![r] = final[d] # 0]
    /\ UNCHANGED <<storageVars, lockVars, job, budget, stateVars, routineVars,
                   ds, sent>>

\* cond.Wait returned: the error is looked at here and nowhere else.
WakeUp(r) ==
    /\ pc[r] = "woken"
    /\ IF failed[ds[r]]
       THEN /\ wg' = [wg EXCEPT ![ds[r]] = @ \ {r}]
            /\ Goto(r, "truncated")
       ELSE /\ Goto(r, "loop")
            /\ UNCHANGED wg
    /\ UNCHANGED <<storageVars, lockVars, job, budget, written, final, failed, start,
                   stored, done, closed, temp, routineVars, ds, sent, avail, whole>>

\* Copy the bytes that were available to the client.
Copy(r) ==
    /\ pc[r] = "copy"
    /\ sent' = [sent EXCEPT ![r] = avail[r]]
    /\ Goto(r, IF whole[r] /\ avail[r] >= final[ds[r]] THEN "waitStored" ELSE "loop")
    /\ avail' = [avail EXCEPT ![r] = 0]
    /\ whole' = [whole EXCEPT ![r] = FALSE]
    /\ UNCHANGED <<storageVars, lockVars, job, budget, stateVars, routineVars, ds>>

\* The client has gone: the pipe is closed and the copy fails.
CopyFails(r) ==
    /\ pc[r] = "copy"
    /\ "cancel" \in Faults
    /\ wg' = [wg EXCEPT ![ds[r]] = @ \ {r}]
    /\ Goto(r, "aborted")
    /\ avail' = [avail EXCEPT ![r] = 0]
    /\ whole' = [whole EXCEPT ![r] = FALSE]
    /\ UNCHANGED <<storageVars, lockVars, job, budget, written, final, failed, start,
                   stored, done, closed, temp, routineVars, ds, sent>>

\* Mutant of EndStream: the stream ends with the last byte.
EndStreamAtOnce(r) ==
    /\ pc[r] = "waitStored"
    /\ wg' = [wg EXCEPT ![ds[r]] = @ \ {r}]
    /\ Goto(r, "full")
    /\ UNCHANGED <<storageVars, lockVars, job, budget, written, final, failed, start,
                   stored, done, closed, temp, routineVars, ds, sent, avail, whole>>

\* Mutant of EndStream: ds.wg.Done is forgotten.
EndStreamUncounted(r) ==
    /\ pc[r] = "waitStored"
    /\ stored[ds[r]] \/ done[ds[r]]
    /\ Goto(r, "full")
    /\ UNCHANGED <<storageVars, lockVars, job, budget, stateVars, routineVars, ds, sent,
                   avail, whole>>

\* The stream ends once the asset is stored or the download is over.
EndStream(r) ==
    /\ pc[r] = "waitStored"
    /\ stored[ds[r]] \/ done[ds[r]]
    /\ wg' = [wg EXCEPT ![ds[r]] = @ \ {r}]
    /\ Goto(r, "full")
    /\ UNCHANGED <<storageVars, lockVars, job, budget, written, final, failed, start,
                   stored, done, closed, temp, routineVars, ds, sent, avail, whole>>

\* Mutant of ReleaseLock: the lock goes when the download starts.
ReleaseLockAtStart(r) ==
    /\ duty[r] = "waiting"
    /\ start[ds[r]]
    /\ Unlock(ServerOf[r])
    /\ duty' = [duty EXCEPT ![r] = "ended"]
    /\ UNCHANGED <<storageVars, job, budget, stateVars, pull, cdc, offset, clean,
                   requestVars>>

\* Mutant of ReleaseLock: ds.done is not waited for.
ReleaseLockWhenStored(r) == duty[r] = "waiting" /\ stored[ds[r]] /\ ReleaseLockAtStart(r)

\* The goroutine coordinateDownload leaves behind to release the lock.
ReleaseLock(r) ==
    /\ duty[r] = "waiting"
    /\ stored[ds[r]] \/ done[ds[r]]
    /\ Unlock(ServerOf[r])
    /\ duty' = [duty EXCEPT ![r] = "ended"]
    /\ UNCHANGED <<storageVars, job, budget, stateVars, pull, cdc, offset, clean,
                   requestVars>>

-----------------------------------------------------------------------------
(* pullNarIntoStore, filling downloadState d.                              *)

\* ds.setError(err); return.
PullFails(d) ==
    /\ failed' = [failed EXCEPT ![d] = TRUE]
    /\ pull' = [pull EXCEPT ![d] = "finish"]

\* getNarFromUpstream answers; the cleanup goroutine starts.
FetchOk(d) ==
    /\ pull[d] = "fetch"
    /\ pull' = [pull EXCEPT ![d] = "temp"]
    /\ clean' = [clean EXCEPT ![d] = "waiting"]
    /\ UNCHANGED <<storageVars, lockVars, job, budget, stateVars, cdc, offset, duty,
                   requestVars>>

FetchFails(d) ==
    /\ pull[d] = "fetch"
    /\ "upstream" \in Faults
    /\ budget > 0
    /\ budget' = budget - 1
    /\ PullFails(d)
    /\ UNCHANGED <<storageVars, lockVars, job, written, final, start, stored,
                   done, closed, wg, temp, cdc, offset, clean, duty, requestVars>>

\* createTempNarFile, close(ds.start); in the pipe mode also the CDC goroutine.
TempOk(d) ==
    /\ pull[d] = "temp"
    /\ temp' = [temp EXCEPT ![d] = "exists"]
    /\ start' = [start EXCEPT ![d] = TRUE]
    /\ pull' = [pull EXCEPT ![d] = "stream"]
    /\ IF Mode = "pipe"
       THEN /\ cdc' = [cdc EXCEPT ![d] = "record"]
            /\ wg' = [wg EXCEPT ![d] = @ \cup {Chunker}]
       ELSE UNCHANGED <<cdc, wg>>
    /\ UNCHANGED <<storageVars, lockVars, job, budget, written, final, failed, stored,
                   done, closed, offset, clean, duty, requestVars>>

TempFails(d) ==
    /\ pull[d] = "temp"
    /\ "store" \in Faults
    /\ PullFails(d)
    /\ UNCHANGED <<storageVars, lockVars, job, budget, written, final, start, stored,
                   done, closed, wg, temp, cdc, offset, clean, duty, requestVars>>

\* Mutant of Write: one block too many.
WriteBeyondEnd(d) ==
    /\ pull[d] = "stream"
    /\ written[d] <= NarLen
    /\ written' = [written EXCEPT ![d] = @ + 1]
    /\ Broadcast(d)
    /\ UNCHANGED <<storageVars, lockVars, job, budget, final, failed, start, stored,
                   done, closed, wg, temp, routineVars, ds, sent, avail, whole>>

\* streamReaderToFile: one block reaches the temp file, and a Broadcast.
Write(d) ==
    /\ pull[d] = "stream"
    /\ written[d] < NarLen
    /\ written' = [written EXCEPT ![d] = @ + 1]
    /\ Broadcast(d)
    /\ UNCHANGED <<storageVars, lockVars, job, budget, final, failed, start, stored,
                   done, closed, wg, temp, routineVars, ds, sent, avail, whole>>

\* End of the body: finalSize is published, then the mode decides who stores
\* the NAR.  A decompressor may report a clean EOF on a truncated body.
Eof(d) ==
    /\ pull[d] = "stream"
    /\ written[d] = NarLen \/ "truncate" \in Faults
    /\ final' = [final EXCEPT ![d] = written[d]]
    /\ Broadcast(d)
    /\ pull' = [pull EXCEPT ![d] = IF Mode = "plain" THEN "store" ELSE "finish"]
    /\ IF Mode = "eager"
       THEN /\ cdc' = [cdc EXCEPT ![d] = "record"]
            /\ wg' = [wg EXCEPT ![d] = @ \cup {Chunker}]
       ELSE UNCHANGED <<cdc, wg>>
    /\ UNCHANGED <<storageVars, lockVars, job, budget, written, failed, start, stored,
                   done, closed, temp, offset, clean, duty, ds, sent, avail, whole>>

StreamFails(d) ==
    /\ pull[d] = "stream"
    /\ "upstream" \in Faults
    /\ budget > 0
    /\ budget' = budget - 1
    /\ PullFails(d)
    /\ UNCHANGED <<storageVars, lockVars, job, written, final, start, stored,
                   done, closed, wg, temp, cdc, offset, clean, duty, requestVars>>

\* storeNarFromTempFile, first half: PutNar (ErrAlreadyExists is fine).
StoreNar(d) ==
    /\ pull[d] = "store"
    /\ file' = TRUE
    /\ pull' = [pull EXCEPT ![d] = "record"]
    /\ UNCHANGED <<row, lockVars, job, budget, stateVars, cdc, offset, clean, duty,
                   requestVars>>

\* storeNarFromTempFile, second half: ensureNarFileRecord; then close(ds.stored).
RecordNar(d) ==
    /\ pull[d] = "record"
    /\ row' = IF row = "absent" THEN "plain" ELSE row
    /\ stored' = [stored EXCEPT ![d] = TRUE]
    /\ pull' = [pull EXCEPT ![d] = "finish"]
    /\ UNCHANGED <<file, lockVars, job, budget, written, final, failed, start, done,
                   closed, wg, temp, cdc, offset, clean, duty, requestVars>>

StoreFails(d) ==
    /\ pull[d] \in {"store", "record"}
    /\ "store" \in Faults
    /\ PullFails(d)
    /\ UNCHANGED <<storageVars, lockVars, job, budget, written, final, start, stored,
                   done, closed, wg, temp, cdc, offset, clean, duty, requestVars>>

\* Mutant of LeaveToChunker: keepJobAlive is ignored.
UnlistUnderChunker(d) ==
    /\ pull[d] = "finish"
    /\ cdc[d] # "none"
    /\ job' = [job EXCEPT ![ServerOf[d]] = None]
    /\ start' = [start EXCEPT ![d] = TRUE]
    /\ Broadcast(d)
    /\ pull' = [pull EXCEPT ![d] = "ended"]
    /\ UNCHANGED <<storageVars, lockVars, budget, written, final, failed, stored, done,
                   closed, wg, temp, cdc, offset, clean, duty, ds, sent, avail, whole>>

\* The deferred function when a CDC goroutine was started (keepJobAlive).
LeaveToChunker(d) ==
    /\ pull[d] = "finish"
    /\ cdc[d] # "none"
    /\ start' = [start EXCEPT ![d] = TRUE]
    /\ Broadcast(d)
    /\ pull' = [pull EXCEPT ![d] = "ended"]
    /\ UNCHANGED <<storageVars, lockVars, job, budget, written, final, failed, stored,
                   done, closed, wg, temp, cdc, offset, clean, duty, ds, sent, avail,
                   whole>>

\* The deferred function otherwise: delete(c.upstreamJobs, key) ...
UnlistJob(d) ==
    /\ pull[d] = "finish"
    /\ cdc[d] = "none"
    /\ job' = [job EXCEPT ![ServerOf[d]] = None]
    /\ pull' = [pull EXCEPT ![d] = "close"]
    /\ UNCHANGED <<storageVars, lockVars, budget, stateVars, cdc, offset, clean, duty,
                   requestVars>>

\* ... then close(ds.start), close(ds.done) and the final Broadcast.
CloseJob(d) ==
    /\ pull[d] = "close"
    /\ start' = [start EXCEPT ![d] = TRUE]
    /\ done' = [done EXCEPT ![d] = TRUE]
    /\ Broadcast(d)
    /\ pull' = [pull EXCEPT ![d] = "ended"]
    /\ UNCHANGED <<storageVars, lockVars, job, budget, written, final, failed, stored,
                   closed, wg, temp, cdc, offset, clean, duty, ds, sent, avail, whole>>

-----------------------------------------------------------------------------
(* The CDC goroutine of downloadState d.                                   *)

\* findOrCreateNarFileForCDC takes the chunking lock of the row, or finds the
\* row chunked or freshly locked; either way onNarFileReady closes ds.stored.
RecordChunking(d) ==
    /\ cdc[d] = "record"
    /\ stored' = [stored EXCEPT ![d] = TRUE]
    /\ IF Marked \/ row = "chunked"
       THEN /\ cdc' = [cdc EXCEPT ![d] = "leave"]
            /\ UNCHANGED row
       ELSE /\ cdc' = [cdc EXCEPT ![d] = "chunk"]
            /\ row' = "chunking"
    /\ UNCHANGED <<file, lockVars, job, budget, written, final, failed, start, done,
                   closed, wg, temp, pull, offset, clean, duty, requestVars>>

\* The database or the temp file cannot be opened.
RecordChunkingFails(d) ==
    /\ cdc[d] = "record"
    /\ "database" \in Faults
    /\ budget > 0
    /\ budget' = budget - 1
    /\ failed' = [failed EXCEPT ![d] = TRUE]
    /\ cdc' = [cdc EXCEPT ![d] = "leave"]
    /\ UNCHANGED <<storageVars, lockVars, job, written, final, start, stored,
                   done, closed, wg, temp, pull, offset, clean, duty, requestVars>>

\* fileAvailableReader.Read returns the next block, which is chunked and stored.
ChunkBlock(d) ==
    /\ cdc[d] = "chunk"
    /\ offset[d] < written[d]
    /\ Mode = "pipe" => ~failed[d]
    /\ offset' = [offset EXCEPT ![d] = @ + 1]
    /\ UNCHANGED <<storageVars, lockVars, job, budget, stateVars, pull, cdc, clean, duty,
                   requestVars>>

\* fileAvailableReader blocks until finalSize is set; the eager mode reads a
\* complete file.
AtEof(d) ==
    /\ offset[d] = written[d]
    /\ Mode = "pipe" => final[d] # 0 /\ ~failed[d]

\* Mutant of ChunkingAborted: chunking_started_at stays set.
ChunkingAbortedLocked(d) ==
    /\ failed' = [failed EXCEPT ![d] = TRUE]
    /\ cdc' = [cdc EXCEPT ![d] = "leave"]
    /\ UNCHANGED <<row, budget>>

\* A failed attempt sets ds.downloadError and clears chunking_started_at,
\* whoever has set it; when the database fails there too, that is only logged.
ChunkingAborted(d) ==
    /\ failed' = [failed EXCEPT ![d] = TRUE]
    /\ \/ /\ row' = IF Marked \/ row = "stale" THEN "plain" ELSE row
          /\ UNCHANGED budget
       \/ /\ "database" \in Faults
          /\ budget > 0
          /\ budget' = budget - 1
          /\ row' = IF Marked /\ \A e \in Requests \ {d} : cdc[e] # "chunk" THEN "left" ELSE row
    /\ cdc' = [cdc EXCEPT ![d] = "leave"]

\* Mutant of ChunkingEnds: no comparison with NarSize.
ChunkingEndsUnchecked(d) ==
    /\ cdc[d] = "chunk"
    /\ AtEof(d)
    /\ row' = IF offset[d] = 0 THEN "plain" ELSE "chunked"
    /\ cdc' = [cdc EXCEPT ![d] = "leave"]
    /\ UNCHANGED <<file, lockVars, job, budget, stateVars, pull, offset, clean, duty,
                   requestVars>>

\* All chunks recorded: the pipe mode compares their size with the narinfo's
\* NarSize, then total_chunks is set.
ChunkingEnds(d) ==
    /\ cdc[d] = "chunk"
    /\ AtEof(d)
    /\ IF Mode = "pipe" /\ offset[d] # NarLen
       THEN ChunkingAborted(d)
       ELSE /\ row' = IF offset[d] = 0 THEN "plain" ELSE "chunked"
            /\ cdc' = [cdc EXCEPT ![d] = "leave"]
            /\ UNCHANGED <<failed, budget>>
    /\ UNCHANGED <<file, lockVars, job, written, final, start, stored, done,
                   closed, wg, temp, pull, offset, clean, duty, requestVars>>

\* A read of the temp file reports the download's error, or a chunk, its link or
\* the number of chunks cannot be stored.
ChunkingFails(d) ==
    /\ cdc[d] = "chunk"
    /\ "store" \in Faults \/ (Mode = "pipe" /\ failed[d])
    /\ ChunkingAborted(d)
    /\ UNCHANGED <<file, lockVars, job, written, final, start, stored, done,
                   closed, wg, temp, pull, offset, clean, duty, requestVars>>

\* The deferred functions: ds.wg.Done and ds.cdcWg.Done ...
ChunkerLeaves(d) ==
    /\ cdc[d] = "leave"
    /\ wg' = [wg EXCEPT ![d] = @ \ {Chunker}]
    /\ cdc' = [cdc EXCEPT ![d] = "unlist"]
    /\ UNCHANGED <<storageVars, lockVars, job, budget, written, final, failed, start,
                   stored, done, closed, temp, pull, offset, clean, duty, requestVars>>

\* ... delete(c.upstreamJobs, key) ...
ChunkerUnlists(d) ==
    /\ cdc[d] = "unlist"
    /\ job' = [job EXCEPT ![ServerOf[d]] = None]
    /\ cdc' = [cdc EXCEPT ![d] = "close"]
    /\ UNCHANGED <<storageVars, lockVars, budget, stateVars, pull, offset, clean, duty,
                   requestVars>>

\* ... close(ds.done) and a Broadcast.
ChunkerCloses(d) ==
    /\ cdc[d] = "close"
    /\ done' = [done EXCEPT ![d] = TRUE]
    /\ Broadcast(d)
    /\ cdc' = [cdc EXCEPT ![d] = "ended"]
    /\ UNCHANGED <<storageVars, lockVars, job, budget, written, final, failed, start,
                   stored, closed, wg, temp, pull, offset, clean, duty, ds, sent, avail,
                   whole>>

-----------------------------------------------------------------------------
(* The cleanup goroutine of downloadState d.                               *)

\* cleanupWg and cdcWg are zero: no new readers.
CloseReaders(d) ==
    /\ clean[d] = "waiting"
    /\ pull[d] = "ended"
    /\ cdc[d] \in {"none", "unlist", "close", "ended"}
    /\ closed' = [closed EXCEPT ![d] = TRUE]
    /\ clean' = [clean EXCEPT ![d] = "closed"]
    /\ UNCHANGED <<storageVars, lockVars, job, budget, written, final, failed, start,
                   stored, done, wg, temp, pull, cdc, offset, duty, requestVars>>

\* ds.wg.Wait() returned: remove the temp file.
RemoveTemp(d) ==
    /\ clean[d] = "closed"
    /\ wg[d] = {}
    /\ temp' = [temp EXCEPT ![d] = IF @ = "exists" THEN "removed" ELSE @]
    /\ clean' = [clean EXCEPT ![d] = "ended"]
    /\ UNCHANGED <<storageVars, lockVars, job, budget, written, final, failed, start,
                   stored, done, closed, wg, pull, cdc, offset, duty, requestVars>>

-----------------------------------------------------------------------------
(* The environment.                                                        *)

\* Server s dies and restarts with an empty memory; a Redis lock stays taken
\* until it expires, temp files and the chunking lock of the row stay.
Crash(s) ==
    LET here == {r \in Requests : ServerOf[r] = s}
        Ends(f) == [r \in Requests |-> IF r \in here /\ f[r] # "none" THEN "ended" ELSE f[r]]
    IN /\ "crash" \in Faults
       /\ budget > 0
       /\ budget' = budget - 1
       /\ job' = [job EXCEPT ![s] = None]
       /\ held' = [held EXCEPT ![s] = None]
       /\ lock' = IF Distributed THEN lock ELSE None
       /\ pull' = Ends(pull)
       /\ cdc' = Ends(cdc)
       /\ clean' = Ends(clean)
       /\ duty' = Ends(duty)
       /\ wg' = [d \in Requests |-> IF d \in here THEN {} ELSE wg[d]]
       /\ pc' = [r \in Requests |-> IF r \in here /\ pc[r] \notin Final \cup {"idle"}
                                    THEN "crashed" ELSE pc[r]]
       /\ UNCHANGED <<storageVars, written, final, failed, start, stored, done, closed,
                      temp, offset, ds, sent, avail, whole>>

\* The Redis lock of a server that died reaches its TTL.
DeadLockExpires ==
    /\ Distributed
    /\ lock # None
    /\ held[ServerOf[lock]] # lock
    /\ lock' = None
    /\ UNCHANGED <<storageVars, held, job, budget, stateVars, routineVars, requestVars>>

\* The lock of a live server expires: its refresher could not extend it in time.
LiveLockExpires ==
    /\ "expire" \in Faults
    /\ Distributed
    /\ budget > 0
    /\ lock # None
    /\ held[ServerOf[lock]] = lock
    /\ budget' = budget - 1
    /\ lock' = None
    /\ UNCHANGED <<storageVars, held, job, stateVars, routineVars, requestVars>>

\* chunking_started_at gets older than cdcChunkingLockTTL.
RowGoesStale ==
    /\ "stale" \in Faults
    /\ budget > 0
    /\ Marked
    /\ budget' = budget - 1
    /\ row' = "stale"
    /\ UNCHANGED <<file, lockVars, job, stateVars, routineVars, requestVars>>

-----------------------------------------------------------------------------
\* What the goroutine of request r does once it has arrived.
RequestStep(r) ==
    \/ Progressive(r) \/ ProgressiveTimeout(r)
    \/ FindJob(r) \/ Acquire(r) \/ AcquireFails(r) \/ PollHit(r) \/ PollTimeout(r)
    \/ CheckUnderLock(r) \/ CreateJob(r) \/ AwaitStart(r) \/ Join(r) \/ PreferStore(r)
    \/ StartStream(r) \/ LoopHead(r) \/ WakeUp(r) \/ Copy(r) \/ EndStream(r)

\* The three places where GetNar notices that its client has gone.
ClientLeaves(r) == AbandonAwait(r) \/ GiveUp(r) \/ CopyFails(r)

PullStep(d) ==
    \/ FetchOk(d) \/ FetchFails(d) \/ TempOk(d) \/ TempFails(d)
    \/ Write(d) \/ Eof(d) \/ StreamFails(d)
    \/ StoreNar(d) \/ RecordNar(d) \/ StoreFails(d)
    \/ LeaveToChunker(d) \/ UnlistJob(d) \/ CloseJob(d)

ChunkerStep(d) ==
    \/ RecordChunking(d) \/ RecordChunkingFails(d)
    \/ ChunkBlock(d) \/ ChunkingEnds(d) \/ ChunkingFails(d)
    \/ ChunkerLeaves(d) \/ ChunkerUnlists(d) \/ ChunkerCloses(d)

CleanupStep(d) == CloseReaders(d) \/ RemoveTemp(d)

Environment ==
    \/ \E r \in Requests : Get(r) \/ ClientLeaves(r)
    \/ \E s \in Servers : Crash(s)
    \/ DeadLockExpires \/ LiveLockExpires \/ RowGoesStale

Next ==
    \/ \E r \in Requests :
         RequestStep(r) \/ ReleaseLock(r) \/ PullStep(r) \/ ChunkerStep(r) \/ CleanupStep(r)
    \/ Environment

\* Every goroutine that can run does; the TTL of an abandoned lock passes.
\* Nothing makes clients come or leave, and nothing makes a fault happen.
Fairness ==
    /\ \A r \in Requests :
         /\ WF_vars(RequestStep(r))
         /\ WF_vars(ReleaseLock(r))
         /\ WF_vars(PullStep(r))
         /\ WF_vars(ChunkerStep(r))
         /\ WF_vars(CleanupStep(r))
    /\ WF_vars(DeadLockExpires)

Spec     == Init /\ [][Next]_vars
FairSpec == Spec /\ Fairness

-----------------------------------------------------------------------------
(* Safety.                                                                 *)

\* Whoever reads the temp file (a client being streamed to, the chunker) finds
\* it: the cleanup goroutine of pullNarIntoStore removes it only after the last
\* reader that ds.closed let in has called ds.wg.Done.
TempFilePresent ==
    \A r \in Requests :
        /\ pc[r] \in Streaming => temp[ds[r]] = "exists"
        /\ cdc[r] = "chunk" => temp[r] = "exists"

\* coordinateDownload: the download lock and upstreamJobs let only one request,
\* over all servers, fetch the NAR from upstream, as long as no lock is lost; a
\* download whose chunking has failed may still be writing its temp file.
SingleDownload ==
    \A d, e \in {x \in Requests : pull[x] \in {"fetch", "temp", "stream", "store", "record"}} :
        failed[d] \/ failed[e] \/ d = e

\* Whether a goroutine of download d still has to take it out of upstreamJobs.
MustUnlist(d) ==
    \/ cdc[d] = "none" /\ pull[d] \notin {"none", "close", "ended"}
    \/ cdc[d] \in {"record", "chunk", "leave", "unlist"}

\* upstreamJobs lists exactly the downloads that will still be taken out: the
\* deletes, which go by key, never remove another download's entry, and no
\* entry is left behind.
JobsAreListed ==
    \A s \in Servers, d \in Requests :
        job[s] = d <=> ServerOf[d] = s /\ MustUnlist(d)

\* A client that got the end of the stream got every byte, and the NAR can then
\* be found in storage, unless the download is marked failed (GetNar waits for
\* ds.stored or ds.done after the last byte).
StreamedIsStored ==
    \A r \in Requests : pc[r] = "full" =>
        /\ sent[r] = final[ds[r]]
        /\ failed[ds[r]] \/ file \/ (CDC /\ row \in {"chunking", "chunked"})

\* The holder of the download lock has yet to release it, unless its server died.
LockHasReleaser ==
    \A r \in Requests : lock = r /\ held[ServerOf[r]] = r =>
        pc[r] \in {"locked", "create"} \/ duty[r] \in {"owed", "waiting"}

\* chunking_started_at is set only while a chunker works on the row, and only
\* one works on it: no path out of storeNarWithCDCFromReader leaves it behind,
\* but for the database failing in the statement that clears it ("left").
ChunkingLockOwned ==
    /\ row = "chunking" => \E d \in Requests : cdc[d] = "chunk"
    /\ \A d, e \in Requests : cdc[d] = "chunk" /\ cdc[e] = "chunk" => d = e

\* A row is marked chunked only when the whole NAR went through the chunker:
\* the NarSize check catches a truncated download that ended with a clean EOF.
ChunkedIsWhole ==
    row = "chunked" => \E d \in Requests : offset[d] = NarLen

\* A NAR served from the store has a nar_files row, also when a server died
\* between PutNar and ensureNarFileRecord (getNarFromStore heals the orphan).
ServedIsTracked ==
    \A r \in Requests : pc[r] = "served" => row # "absent"

-----------------------------------------------------------------------------
(* Liveness.                                                               *)

\* Requests are finitely many, so that what holds again and again holds in the
\* end for each of them.

\* Every GetNar comes to an end.
RequestsFinish == []<>(\A r \in Requests : pc[r] \in Final \cup {"idle"})

\* The download lock does not stay taken.
LockReleased == []<>(lock = None)

\* The temp file of a download is removed in the end, unless its server died or
\* GetNar returned between ds.wg.Add and the goroutine that calls ds.wg.Done.
TempReclaimed ==
    []<>(\A d \in Requests : temp[d] = "exists" =>
            \/ clean[d] = "ended"
            \/ \E r \in wg[d] \cap Requests : pc[r] = "error")

\* A reader asleep on the condition variable of a failed download wakes up.
FailedDownloadWakesReaders ==
    \A r \in Requests : pc[r] = "cond" /\ failed[ds[r]] ~> pc[r] # "cond"

=============================================================================
