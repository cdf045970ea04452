------------------------- MODULE NarDownloadProofs -------------------------
(***************************************************************************)
(* What NarDownload guarantees for any number of servers and requests, any *)
(* NAR length, every mode and every set of faults.                         *)
(***************************************************************************)
EXTENDS NarDownload, TLAPS

\* A request past coordinateDownload holds a downloadState.
HoldsState ==
    \A r \in Requests :
        pc[r] \in {"await", "join", "joined", "waitStart", "waitStored"} \cup Streaming
        => ds[r] \in Requests

\* ds.wg.Done and ds.wg.Add keep the WaitGroup a set of requests and chunker.
LEMMA WaitGroupType ==
    ASSUME TypeOK, NEW d, NEW x
    PROVE  /\ [wg EXCEPT ![d] = @ \ {x}] \in [Requests -> SUBSET (Requests \cup {Chunker})]
           /\ x \in Requests \cup {Chunker} =>
                [wg EXCEPT ![d] = @ \cup {x}] \in [Requests -> SUBSET (Requests \cup {Chunker})]
  BY DEF TypeOK

\* The initial states have the types of the fields of downloadState and Cache.
LEMMA InitTypeOK == Init => TypeOK
<1> SUFFICES ASSUME Init PROVE TypeOK
  OBVIOUS
<1> USE NarDownloadAssumption
<1>0. row \in RowState
  BY DEF Init, RowState
<1>1. /\ lock \in Requests \cup {None}
      /\ held \in [Servers -> Requests \cup {None}]
      /\ job \in [Servers -> Requests \cup {None}]
  BY DEF Init
<1>7. budget \in 0..MaxFaults
  BY DEF Init
<1>8. file \in BOOLEAN
  BY DEF Init
<1>2. /\ written \in [Requests -> 0..NarLen]
      /\ final \in [Requests -> 0..NarLen]
      /\ offset \in [Requests -> 0..NarLen]
      /\ sent \in [Requests -> 0..NarLen]
      /\ avail \in [Requests -> 0..NarLen]
  BY DEF Init
<1>3. /\ failed \in [Requests -> BOOLEAN]
      /\ start \in [Requests -> BOOLEAN]
      /\ stored \in [Requests -> BOOLEAN]
      /\ done \in [Requests -> BOOLEAN]
      /\ closed \in [Requests -> BOOLEAN]
      /\ whole \in [Requests -> BOOLEAN]
  BY DEF Init
<1>4. wg \in [Requests -> SUBSET (Requests \cup {Chunker})]
  BY DEF Init
<1>5. /\ temp \in [Requests -> {"none", "exists", "removed"}]
      /\ pull \in [Requests -> PullState]
      /\ cdc \in [Requests -> CdcState]
      /\ clean \in [Requests -> CleanState]
      /\ duty \in [Requests -> {"none", "owed", "waiting", "ended"}]
  BY DEF Init, PullState, CdcState, CleanState
<1>6. /\ pc \in [Requests -> RequestState]
      /\ ds \in [Requests -> Requests \cup {None}]
  BY DEF Init, RequestState
<1> QED
  BY <1>0, <1>1, <1>2, <1>3, <1>4, <1>5, <1>6, <1>7, <1>8 DEF TypeOK

\* Every step of a request preserves the types.
LEMMA RequestTypeOK ==
    ASSUME TypeOK, HoldsState, NEW r \in Requests,
           Get(r) \/ RequestStep(r) \/ ClientLeaves(r) \/ ReleaseLock(r)
    PROVE  TypeOK'
<1> USE NarDownloadAssumption
<1> USE DEF RequestState, Streaming, Final, storageVars, lockVars, stateVars, routineVars, requestVars
<1>0. ServeOutcome \in RequestState
  BY DEF ServeOutcome
<1>1. CASE Get(r)
  BY <1>0, <1>1 DEF Get, Serve, Goto, TypeOK, RowState
<1>2. CASE Progressive(r)
  BY <1>2 DEF Progressive, Goto, TypeOK
<1>3. CASE ProgressiveTimeout(r)
  BY <1>3 DEF ProgressiveTimeout, Goto, TypeOK
<1>4. CASE FindJob(r)
  BY <1>4 DEF FindJob, Goto, TypeOK
<1>5. CASE Acquire(r)
  BY <1>5 DEF Acquire, Goto, TypeOK
<1>6. CASE AcquireFails(r)
  BY <1>6 DEF AcquireFails, Goto, TypeOK
<1>7. CASE PollHit(r)
  BY <1>0, <1>7 DEF PollHit, Serve, Goto, TypeOK, RowState
<1>8. CASE PollTimeout(r)
  BY <1>0, <1>8 DEF PollTimeout, Serve, Goto, TypeOK, RowState
<1>9. CASE CheckUnderLock(r)
  <2>1. held' \in [Servers -> Requests \cup {None}] /\ lock' \in Requests \cup {None}
    BY <1>9 DEF CheckUnderLock, Unlock, TypeOK
  <2>2. row' \in RowState /\ file' \in BOOLEAN
    BY <1>9 DEF CheckUnderLock, Serve, TypeOK, RowState
  <2>3. pc' \in [Requests -> RequestState]
    BY <1>0, <1>9 DEF CheckUnderLock, Serve, Goto, TypeOK
  <2> QED
    BY <1>9, <2>1, <2>2, <2>3 DEF CheckUnderLock, TypeOK
<1>10. CASE CreateJob(r)
  BY <1>10 DEF CreateJob, Goto, TypeOK, PullState
<1>11. CASE AwaitStart(r) \/ AbandonAwait(r)
  <2>1. StopAwaiting(r)
    BY <1>11 DEF AwaitStart, AbandonAwait
  <2> QED
    BY <2>1 DEF StopAwaiting, Goto, TypeOK
<1>12. CASE Join(r)
  BY <1>0, <1>12, WaitGroupType DEF Join, Serve, Goto, TypeOK, RowState
<1>13. CASE PreferStore(r)
  BY <1>0, <1>13, WaitGroupType DEF PreferStore, Serve, Goto, TypeOK, RowState
<1>14. CASE StartStream(r)
  BY <1>14 DEF StartStream, Goto, TypeOK
<1>15. CASE GiveUp(r)
  BY <1>15 DEF GiveUp, Goto, TypeOK
<1>16. CASE LoopHead(r)
  <2>1. ds[r] \in Requests
    BY <1>16 DEF LoopHead, HoldsState
  <2>2. whole' \in [Requests -> BOOLEAN]
    BY <1>16, ZenonT(40) DEF LoopHead, TypeOK
  <2>3. avail' \in [Requests -> 0..NarLen]
    BY <1>16, <2>1 DEF LoopHead, TypeOK
  <2>4. pc' \in [Requests -> RequestState]
    BY <1>16 DEF LoopHead, Goto, TypeOK
  <2> QED
    BY <1>16, <2>2, <2>3, <2>4 DEF LoopHead, TypeOK
<1>17. CASE WakeUp(r)
  BY <1>17, WaitGroupType DEF WakeUp, Goto, TypeOK
<1>18. CASE Copy(r)
  BY <1>18 DEF Copy, Goto, TypeOK
<1>19. CASE CopyFails(r)
  <2>1. wg' \in [Requests -> SUBSET (Requests \cup {Chunker})]
    BY <1>19, WaitGroupType DEF CopyFails
  <2> QED
    BY <1>19, <2>1 DEF CopyFails, Goto, TypeOK
<1>20. CASE EndStream(r)
  BY <1>20, WaitGroupType DEF EndStream, Goto, TypeOK
<1>21. CASE ReleaseLock(r)
  BY <1>21 DEF ReleaseLock, Unlock, TypeOK
<1> QED
  BY <1>1, <1>2, <1>3, <1>4, <1>5, <1>6, <1>7, <1>8, <1>9, <1>10, <1>11, <1>12, <1>13,
     <1>14, <1>15, <1>16, <1>17, <1>18, <1>19, <1>20, <1>21 DEF RequestStep, ClientLeaves

\* Every step of pullNarIntoStore preserves the types.
LEMMA PullTypeOK ==
    ASSUME TypeOK, NEW d \in Requests, PullStep(d)
    PROVE  TypeOK'
<1> USE NarDownloadAssumption
<1> USE DEF PullState, storageVars, lockVars, stateVars, routineVars, requestVars
<1>0. Broadcast(d) => pc' \in [Requests -> RequestState]
  BY DEF Broadcast, TypeOK, RequestState, Streaming
<1>00. [wg EXCEPT ![d] = @ \cup {Chunker}] \in [Requests -> SUBSET (Requests \cup {Chunker})]
  BY WaitGroupType
<1>1. CASE FetchOk(d)
  BY <1>1 DEF FetchOk, TypeOK, CleanState
<1>2. CASE FetchFails(d)
  BY <1>2 DEF FetchFails, PullFails, TypeOK
<1>3. CASE TempOk(d)
  <2>1. wg' \in [Requests -> SUBSET (Requests \cup {Chunker})]
    BY <1>3, <1>00 DEF TempOk, TypeOK
  <2> QED
    BY <1>3, <2>1 DEF TempOk, TypeOK, CdcState
<1>4. CASE TempFails(d)
  BY <1>4 DEF TempFails, PullFails, TypeOK
<1>5. CASE Write(d)
  <2>1. written' \in [Requests -> 0..NarLen]
    BY <1>5 DEF Write, TypeOK
  <2> QED
    BY <1>0, <1>5, <2>1 DEF Write, TypeOK
<1>6. CASE Eof(d)
  <2>1. wg' \in [Requests -> SUBSET (Requests \cup {Chunker})]
    BY <1>6, <1>00 DEF Eof, TypeOK
  <2>2. cdc' \in [Requests -> CdcState]
    BY <1>6 DEF Eof, TypeOK, CdcState
  <2> QED
    BY <1>0, <1>6, <2>1, <2>2 DEF Eof, TypeOK
<1>7. CASE StreamFails(d)
  BY <1>7 DEF StreamFails, PullFails, TypeOK
<1>8. CASE StoreNar(d)
  BY <1>8 DEF StoreNar, TypeOK
<1>9. CASE RecordNar(d)
  BY <1>9 DEF RecordNar, TypeOK, RowState
<1>10. CASE StoreFails(d)
  BY <1>10 DEF StoreFails, PullFails, TypeOK
<1>11. CASE LeaveToChunker(d)
  BY <1>0, <1>11 DEF LeaveToChunker, TypeOK
<1>12. CASE UnlistJob(d)
  BY <1>12 DEF UnlistJob, TypeOK
<1>13. CASE CloseJob(d)
  BY <1>0, <1>13 DEF CloseJob, TypeOK
<1> QED
  BY <1>1, <1>2, <1>3, <1>4, <1>5, <1>6, <1>7, <1>8, <1>9, <1>10, <1>11, <1>12, <1>13
  DEF PullStep

\* Every step of the CDC and of the cleanup goroutine preserves the types.
LEMMA BackgroundTypeOK ==
    ASSUME TypeOK, NEW d \in Requests, ChunkerStep(d) \/ CleanupStep(d)
    PROVE  TypeOK'
<1> USE NarDownloadAssumption
<1> USE DEF CdcState, CleanState, RowState, storageVars, lockVars, stateVars, routineVars, requestVars
<1>1. CASE RecordChunking(d)
  BY <1>1 DEF RecordChunking, TypeOK
<1>2. CASE RecordChunkingFails(d)
  BY <1>2 DEF RecordChunkingFails, TypeOK
<1>3. CASE ChunkBlock(d)
  <2>1. offset' \in [Requests -> 0..NarLen]
    BY <1>3 DEF ChunkBlock, TypeOK
  <2> QED
    BY <1>3, <2>1 DEF ChunkBlock, TypeOK
<1>4. CASE ChunkingEnds(d)
  <2>1. budget' \in 0..MaxFaults
    BY <1>4, NarDownloadAssumption DEF ChunkingEnds, ChunkingAborted, TypeOK
  <2>2. /\ row' \in RowState
        /\ failed' \in [Requests -> BOOLEAN] /\ cdc' \in [Requests -> CdcState]
    BY <1>4 DEF ChunkingEnds, ChunkingAborted, TypeOK
  <2> QED
    BY <1>4, <2>1, <2>2, ZenonT(40) DEF ChunkingEnds, TypeOK
<1>5. CASE ChunkingFails(d)
  <2>1. budget' \in 0..MaxFaults
    BY <1>5, NarDownloadAssumption DEF ChunkingFails, ChunkingAborted, TypeOK
  <2>2. /\ row' \in RowState
        /\ failed' \in [Requests -> BOOLEAN] /\ cdc' \in [Requests -> CdcState]
    BY <1>5 DEF ChunkingFails, ChunkingAborted, TypeOK
  <2> QED
    BY <1>5, <2>1, <2>2 DEF ChunkingFails, TypeOK
<1>6. CASE ChunkerLeaves(d)
  BY <1>6, WaitGroupType DEF ChunkerLeaves, TypeOK
<1>7. CASE ChunkerUnlists(d)
  BY <1>7 DEF ChunkerUnlists, TypeOK
<1>8. CASE ChunkerCloses(d)
  <2>1. pc' \in [Requests -> RequestState]
    BY <1>8 DEF ChunkerCloses, Broadcast, TypeOK, RequestState, Streaming
  <2> QED
    BY <1>8, <2>1 DEF ChunkerCloses, TypeOK
<1>9. CASE CloseReaders(d)
  BY <1>9 DEF CloseReaders, TypeOK
<1>10. CASE RemoveTemp(d)
  BY <1>10 DEF RemoveTemp, TypeOK
<1> QED
  BY <1>1, <1>2, <1>3, <1>4, <1>5, <1>6, <1>7, <1>8, <1>9, <1>10 DEF ChunkerStep, CleanupStep

\* Crashes, expiries and stale rows preserve the types.
LEMMA EnvironmentTypeOK ==
    ASSUME TypeOK,
           (\E s \in Servers : Crash(s)) \/ DeadLockExpires \/ LiveLockExpires \/ RowGoesStale
    PROVE  TypeOK'
<1> USE NarDownloadAssumption
<1> USE DEF storageVars, lockVars, stateVars, routineVars, requestVars
<1>1. ASSUME NEW s \in Servers, Crash(s) PROVE TypeOK'
  <2>1. /\ pull' \in [Requests -> PullState]
        /\ cdc' \in [Requests -> CdcState]
        /\ clean' \in [Requests -> CleanState]
        /\ duty' \in [Requests -> {"none", "owed", "waiting", "ended"}]
    BY <1>1 DEF Crash, TypeOK, PullState, CdcState, CleanState
  <2>2. wg' \in [Requests -> SUBSET (Requests \cup {Chunker})]
    BY <1>1 DEF Crash, TypeOK
  <2>3. pc' \in [Requests -> RequestState]
    BY <1>1 DEF Crash, TypeOK, RequestState, Final
  <2>4. budget' \in 0..MaxFaults
    BY <1>1 DEF Crash, TypeOK
  <2> QED
    BY <1>1, <2>1, <2>2, <2>3, <2>4 DEF Crash, TypeOK
<1>2. CASE DeadLockExpires
  BY <1>2 DEF DeadLockExpires, TypeOK
<1>3. CASE LiveLockExpires
  BY <1>3 DEF LiveLockExpires, TypeOK
<1>4. CASE RowGoesStale
  BY <1>4 DEF RowGoesStale, TypeOK, RowState
<1> QED
  BY <1>1, <1>2, <1>3, <1>4

\* coordinateDownload hands every caller a downloadState.
LEMMA HoldsStateStep == TypeOK /\ HoldsState /\ [Next]_vars => HoldsState'
<1> SUFFICES ASSUME TypeOK, HoldsState, [Next]_vars PROVE HoldsState'
  OBVIOUS
<1> USE NarDownloadAssumption
<1> USE DEF HoldsState, Streaming, storageVars, lockVars, stateVars, routineVars, requestVars
<1>0. ServeOutcome \notin {"await", "join", "joined", "waitStart", "waitStored"} \cup Streaming
  BY DEF ServeOutcome
<1>1. CASE UNCHANGED vars
  BY <1>1 DEF vars
<1>2. ASSUME NEW r \in Requests, Get(r) \/ RequestStep(r) \/ ClientLeaves(r) PROVE HoldsState'
  <2> USE DEF Goto, TypeOK
  <2>1. CASE Get(r)
    BY <1>0, <2>1 DEF Get, Serve
  <2>2. CASE Progressive(r) \/ ProgressiveTimeout(r) \/ AcquireFails(r) \/ Acquire(r)
    BY <2>2 DEF Progressive, ProgressiveTimeout, AcquireFails, Acquire
  <2>3. CASE FindJob(r)
    BY <2>3 DEF FindJob
  <2>4. CASE PollHit(r) \/ PollTimeout(r)
    BY <1>0, <2>4 DEF PollHit, PollTimeout, Serve
  <2>5. CASE CheckUnderLock(r)
    BY <1>0, <2>5 DEF CheckUnderLock, Serve
  <2>6. CASE CreateJob(r)
    BY <2>6 DEF CreateJob
  <2>7. CASE AwaitStart(r) \/ AbandonAwait(r)
    BY <2>7 DEF AwaitStart, AbandonAwait, StopAwaiting
  <2>8. CASE Join(r) \/ PreferStore(r)
    BY <1>0, <2>8 DEF Join, PreferStore, Serve
  <2>9. CASE StartStream(r) \/ GiveUp(r)
    BY <2>9 DEF StartStream, GiveUp
  <2>10. CASE LoopHead(r) \/ WakeUp(r)
    BY <2>10 DEF LoopHead, WakeUp
  <2>11. CASE Copy(r) \/ CopyFails(r) \/ EndStream(r)
    BY <2>11 DEF Copy, CopyFails, EndStream
  <2> QED
    BY <1>2, <2>1, <2>2, <2>3, <2>4, <2>5, <2>6, <2>7, <2>8, <2>9, <2>10, <2>11
    DEF RequestStep, ClientLeaves
<1>3. ASSUME NEW d \in Requests,
             ReleaseLock(d) \/ PullStep(d) \/ ChunkerStep(d) \/ CleanupStep(d)
      PROVE  HoldsState'
  <2>1. Broadcast(d) /\ ds' = ds => HoldsState'
    BY DEF Broadcast, TypeOK
  <2>2. ds' = ds /\ (Broadcast(d) \/ pc' = pc)
    BY <1>3 DEF ReleaseLock, PullStep, ChunkerStep, CleanupStep, FetchOk, FetchFails, TempOk,
                TempFails, Write, Eof, StreamFails, StoreNar, RecordNar, StoreFails,
                LeaveToChunker, UnlistJob, CloseJob, RecordChunking, RecordChunkingFails,
                ChunkBlock, ChunkingEnds, ChunkingFails, ChunkerLeaves, ChunkerUnlists,
                ChunkerCloses, CloseReaders, RemoveTemp
  <2> QED
    BY <2>1, <2>2
<1>4. ASSUME NEW s \in Servers, Crash(s) PROVE HoldsState'
  BY <1>4 DEF Crash, TypeOK
<1>5. CASE DeadLockExpires \/ LiveLockExpires \/ RowGoesStale
  BY <1>5 DEF DeadLockExpires, LiveLockExpires, RowGoesStale
<1> QED
  BY <1>1, <1>2, <1>3, <1>4, <1>5 DEF Next, Environment

\* Every step preserves the types.
LEMMA TypeStep == TypeOK /\ HoldsState /\ [Next]_vars => TypeOK'
<1> SUFFICES ASSUME TypeOK, HoldsState, [Next]_vars PROVE TypeOK'
  OBVIOUS
<1>1. CASE UNCHANGED vars
  BY <1>1 DEF vars, storageVars, lockVars, stateVars, routineVars, requestVars, TypeOK
<1>2. ASSUME NEW r \in Requests,
             RequestStep(r) \/ ReleaseLock(r) \/ PullStep(r) \/ ChunkerStep(r) \/ CleanupStep(r)
      PROVE  TypeOK'
  BY <1>2, RequestTypeOK, PullTypeOK, BackgroundTypeOK
<1>3. CASE Environment
  BY <1>3, RequestTypeOK, EnvironmentTypeOK DEF Environment
<1> QED
  BY <1>1, <1>2, <1>3 DEF Next

\* NarDownload is type correct.
THEOREM TypeCorrect == Spec => []TypeOK
<1>1. Init => TypeOK /\ HoldsState
  BY InitTypeOK DEF Init, HoldsState, Streaming
<1>2. TypeOK /\ HoldsState /\ [Next]_vars => (TypeOK /\ HoldsState)'
  BY TypeStep, HoldsStateStep
<1> QED
  BY <1>1, <1>2, PTL DEF Spec

-----------------------------------------------------------------------------
(* The inductive invariant behind TempFilePresent and JobsAreListed.       *)

\* A request that has not reached upstreamJobs has no download of its own.
NotYet ==
    \A r \in Requests :
        pc[r] \in {"idle", "coord", "lock", "poll", "locked", "create"}
        => pull[r] = "none" /\ cdc[r] = "none"

\* pullNarIntoStore starts the CDC goroutine once: with the temp file, or after
\* the download in the eager mode.
ChunkerStartsOnce ==
    \A d \in Requests :
        /\ pull[d] \in {"none", "fetch", "temp"} => cdc[d] = "none"
        /\ pull[d] = "stream" /\ Mode = "eager" => cdc[d] = "none"

\* Requests share a downloadState only within a server.
SameServerState ==
    \A r \in Requests : ds[r] # None => ServerOf[ds[r]] = ServerOf[r]

\* Whoever may still read the temp file is counted in ds.wg.
Counted ==
    \A r \in Requests :
        /\ pc[r] \in {"joined", "waitStart", "waitStored"} \cup Streaming => r \in wg[ds[r]]
        /\ cdc[r] \in {"record", "chunk", "leave"} => Chunker \in wg[r]

\* The cleanup goroutine closes ds after the download and the chunker, and
\* removes the temp file after the last reader.
ClosedAfterAll ==
    \A d \in Requests :
        /\ clean[d] = "closed" => closed[d]
        /\ closed[d] => pull[d] = "ended" /\ cdc[d] \in {"none", "unlist", "close", "ended"}
        /\ temp[d] = "removed" => closed[d] /\ wg[d] = {}

\* ds.start is closed with the temp file in place or with ds.downloadError set.
CreatedBeforeStart ==
    \A d \in Requests :
        /\ pull[d] \in {"stream", "store", "record"} \/ cdc[d] # "none" => temp[d] # "none"
        /\ pull[d] \in {"finish", "close"} \/ start[d] => failed[d] \/ temp[d] # "none"

\* Streaming starts from a temp file that was created.
CreatedBeforeRead ==
    \A r \in Requests : pc[r] \in Streaming => temp[ds[r]] # "none"

\* The inductive invariant of a download.
IInv ==
    /\ TypeOK
    /\ HoldsState
    /\ JobsAreListed
    /\ NotYet
    /\ ChunkerStartsOnce
    /\ SameServerState
    /\ Counted
    /\ ClosedAfterAll
    /\ CreatedBeforeStart
    /\ CreatedBeforeRead

\* What a step on behalf of request r leaves alone.
LEMMA RequestFrame ==
    ASSUME TypeOK, NEW r \in Requests,
           Get(r) \/ RequestStep(r) \/ ClientLeaves(r) \/ ReleaseLock(r)
    PROVE  /\ cdc' = cdc /\ clean' = clean /\ closed' = closed
           /\ temp' = temp /\ start' = start /\ failed' = failed
           /\ \A x \in Requests : x # r => pc'[x] = pc[x] /\ ds'[x] = ds[x] /\ pull'[x] = pull[x]
           /\ CreateJob(r) \/ (pull' = pull /\ job' = job)
           /\ CreateJob(r) \/ FindJob(r) \/ ds' = ds
           /\ \/ wg' = wg
              \/ wg' = [wg EXCEPT ![ds[r]] = @ \ {r}] /\ pc'[r] \in Final /\ ds' = ds
              \/ Join(r) /\ ~closed[ds[r]] /\ wg' = [wg EXCEPT ![ds[r]] = @ \cup {r}]
<1> USE DEF TypeOK
<1>1. /\ cdc' = cdc /\ clean' = clean /\ closed' = closed
      /\ temp' = temp /\ start' = start /\ failed' = failed
  BY DEF RequestStep, ClientLeaves, Goto, Serve, StopAwaiting, Get, Progressive,
             ProgressiveTimeout, FindJob, Acquire, AcquireFails, PollHit, PollTimeout,
             CheckUnderLock, CreateJob, AwaitStart, AbandonAwait, Join, PreferStore,
             StartStream, GiveUp, LoopHead, WakeUp, Copy, CopyFails, EndStream, ReleaseLock,
             storageVars, lockVars, stateVars, routineVars, requestVars
<1>2. \A x \in Requests : x # r => pc'[x] = pc[x] /\ ds'[x] = ds[x] /\ pull'[x] = pull[x]
  BY DEF RequestStep, ClientLeaves, Goto, Serve, StopAwaiting, Get, Progressive,
             ProgressiveTimeout, FindJob, Acquire, AcquireFails, PollHit, PollTimeout,
             CheckUnderLock, CreateJob, AwaitStart, AbandonAwait, Join, PreferStore,
             StartStream, GiveUp, LoopHead, WakeUp, Copy, CopyFails, EndStream, ReleaseLock,
             storageVars, lockVars, stateVars, routineVars, requestVars
<1>3. /\ CreateJob(r) \/ (pull' = pull /\ job' = job)
      /\ CreateJob(r) \/ FindJob(r) \/ ds' = ds
  BY DEF RequestStep, ClientLeaves, Goto, Serve, StopAwaiting, Get, Progressive,
             ProgressiveTimeout, FindJob, Acquire, AcquireFails, PollHit, PollTimeout,
             CheckUnderLock, CreateJob, AwaitStart, AbandonAwait, Join, PreferStore,
             StartStream, GiveUp, LoopHead, WakeUp, Copy, CopyFails, EndStream, ReleaseLock,
             storageVars, lockVars, stateVars, routineVars, requestVars
<1>4. PreferStore(r) /\ file => ServeOutcome \in Final
  BY DEF ServeOutcome, Final
<1>5. \/ wg' = wg
      \/ wg' = [wg EXCEPT ![ds[r]] = @ \ {r}] /\ pc'[r] \in Final /\ ds' = ds
      \/ Join(r) /\ ~closed[ds[r]] /\ wg' = [wg EXCEPT ![ds[r]] = @ \cup {r}]
  BY <1>4 DEF Final, RequestStep, ClientLeaves, Goto, Serve, StopAwaiting, Get, Progressive,
             ProgressiveTimeout, FindJob, Acquire, AcquireFails, PollHit, PollTimeout,
             CheckUnderLock, CreateJob, AwaitStart, AbandonAwait, Join, PreferStore,
             StartStream, GiveUp, LoopHead, WakeUp, Copy, CopyFails, EndStream, ReleaseLock,
             storageVars, lockVars, stateVars, routineVars, requestVars
<1> QED
  BY <1>1, <1>2, <1>3, <1>5

\* What a step of the goroutines of download d leaves alone.
LEMMA DownloadFrame ==
    ASSUME TypeOK, NEW d \in Requests, PullStep(d) \/ ChunkerStep(d) \/ CleanupStep(d)
    PROVE  /\ ds' = ds
           /\ \A x \in Requests : pc'[x] = pc[x] \/ (pc[x] = "cond" /\ pc'[x] = "woken")
           /\ \A x \in Requests : x # d =>
                /\ pull'[x] = pull[x] /\ cdc'[x] = cdc[x] /\ clean'[x] = clean[x]
                /\ closed'[x] = closed[x] /\ wg'[x] = wg[x] /\ temp'[x] = temp[x]
                /\ start'[x] = start[x] /\ failed'[x] = failed[x]
           /\ PullStep(d) => pull[d] \notin {"none", "ended"}
           /\ ChunkerStep(d) => cdc[d] \notin {"none", "ended"}
<1> USE DEF TypeOK
<1>1. /\ ds' = ds
      /\ \A x \in Requests : pc'[x] = pc[x] \/ (pc[x] = "cond" /\ pc'[x] = "woken")
  BY DEF PullStep, ChunkerStep, CleanupStep, FetchOk, FetchFails, TempOk, TempFails,
             Write, Eof, StreamFails, StoreNar, RecordNar, StoreFails, LeaveToChunker,
             UnlistJob, CloseJob, RecordChunking, RecordChunkingFails, ChunkBlock,
             ChunkingEnds, ChunkingFails, ChunkerLeaves, ChunkerUnlists, ChunkerCloses,
             CloseReaders, RemoveTemp, PullFails, ChunkingAborted, Broadcast,
             storageVars, lockVars, stateVars, routineVars, requestVars
<1>2. \A x \in Requests : x # d =>
                /\ pull'[x] = pull[x] /\ cdc'[x] = cdc[x] /\ clean'[x] = clean[x]
                /\ closed'[x] = closed[x] /\ wg'[x] = wg[x] /\ temp'[x] = temp[x]
  BY DEF PullStep, ChunkerStep, CleanupStep, FetchOk, FetchFails, TempOk, TempFails,
             Write, Eof, StreamFails, StoreNar, RecordNar, StoreFails, LeaveToChunker,
             UnlistJob, CloseJob, RecordChunking, RecordChunkingFails, ChunkBlock,
             ChunkingEnds, ChunkingFails, ChunkerLeaves, ChunkerUnlists, ChunkerCloses,
             CloseReaders, RemoveTemp, PullFails, ChunkingAborted, Broadcast,
             storageVars, lockVars, stateVars, routineVars, requestVars
<1>3. \A x \in Requests : x # d => start'[x] = start[x] /\ failed'[x] = failed[x]
  BY DEF PullStep, ChunkerStep, CleanupStep, FetchOk, FetchFails, TempOk, TempFails,
             Write, Eof, StreamFails, StoreNar, RecordNar, StoreFails, LeaveToChunker,
             UnlistJob, CloseJob, RecordChunking, RecordChunkingFails, ChunkBlock,
             ChunkingEnds, ChunkingFails, ChunkerLeaves, ChunkerUnlists, ChunkerCloses,
             CloseReaders, RemoveTemp, PullFails, ChunkingAborted, Broadcast,
             storageVars, lockVars, stateVars, routineVars, requestVars
<1>4. /\ PullStep(d) => pull[d] \notin {"none", "ended"}
      /\ ChunkerStep(d) => cdc[d] \notin {"none", "ended"}
  BY DEF PullStep, ChunkerStep, CleanupStep, FetchOk, FetchFails, TempOk, TempFails,
             Write, Eof, StreamFails, StoreNar, RecordNar, StoreFails, LeaveToChunker,
             UnlistJob, CloseJob, RecordChunking, RecordChunkingFails, ChunkBlock,
             ChunkingEnds, ChunkingFails, ChunkerLeaves, ChunkerUnlists, ChunkerCloses,
             CloseReaders, RemoveTemp, PullFails, ChunkingAborted, Broadcast,
             storageVars, lockVars, stateVars, routineVars, requestVars
<1> QED
  BY <1>1, <1>2, <1>3, <1>4

\* Only CreateJob starts a download, and only for a request that has none.
LEMMA NotYetStep == IInv /\ [Next]_vars => NotYet'
<1> SUFFICES ASSUME IInv, [Next]_vars PROVE NotYet'
  OBVIOUS
<1> USE DEF IInv, NotYet, TypeOK
<1>1. CASE UNCHANGED vars
  BY <1>1 DEF vars, routineVars, requestVars
<1>2. ASSUME NEW r \in Requests, Get(r) \/ RequestStep(r) \/ ClientLeaves(r) \/ ReleaseLock(r)
      PROVE  NotYet'
  <2>1. ServeOutcome \notin {"idle", "coord", "lock", "poll", "locked", "create"}
    BY DEF ServeOutcome
  <2>2. pc'[r] \in {"idle", "coord", "lock", "poll", "locked", "create"}
        => pull' = pull /\ pc[r] \in {"idle", "coord", "lock", "poll", "locked", "create"}
    BY <1>2, <2>1 DEF RequestStep, ClientLeaves, Goto, Serve, StopAwaiting, Get, Progressive,
             ProgressiveTimeout, FindJob, Acquire, AcquireFails, PollHit, PollTimeout,
             CheckUnderLock, CreateJob, AwaitStart, AbandonAwait, Join, PreferStore,
             StartStream, GiveUp, LoopHead, WakeUp, Copy, CopyFails, EndStream, ReleaseLock,
             storageVars, lockVars, stateVars, routineVars, requestVars
  <2> QED
    BY <1>2, <2>2, RequestFrame
<1>3. ASSUME NEW d \in Requests, PullStep(d) \/ ChunkerStep(d) \/ CleanupStep(d)
      PROVE  NotYet'
  <2>1. CleanupStep(d) => pull' = pull /\ cdc' = cdc
    BY DEF CleanupStep, CloseReaders, RemoveTemp
  <2> QED
    BY <1>3, <2>1, DownloadFrame
<1>4. ASSUME NEW s \in Servers, Crash(s) PROVE NotYet'
  BY <1>4 DEF Crash, Final
<1>5. CASE DeadLockExpires \/ LiveLockExpires \/ RowGoesStale
  BY <1>5 DEF DeadLockExpires, LiveLockExpires, RowGoesStale, routineVars, requestVars
<1> QED
  BY <1>1, <1>2, <1>3, <1>4, <1>5 DEF Next, Environment

\* The CDC goroutine is started at most once.
LEMMA ChunkerStartsOnceStep == IInv /\ [Next]_vars => ChunkerStartsOnce'
<1> SUFFICES ASSUME IInv, [Next]_vars PROVE ChunkerStartsOnce'
  OBVIOUS
<1> USE NarDownloadAssumption DEF IInv, ChunkerStartsOnce, TypeOK
<1>1. CASE UNCHANGED vars
  BY <1>1 DEF vars, routineVars
<1>2. ASSUME NEW r \in Requests, Get(r) \/ RequestStep(r) \/ ClientLeaves(r) \/ ReleaseLock(r)
      PROVE  ChunkerStartsOnce'
  <2>1. CASE CreateJob(r)
    BY <2>1 DEF CreateJob, NotYet
  <2> QED
    BY <1>2, <2>1, RequestFrame
<1>3. ASSUME NEW d \in Requests, PullStep(d) \/ ChunkerStep(d) \/ CleanupStep(d)
      PROVE  ChunkerStartsOnce'
  <2>1. /\ pull'[d] \in {"none", "fetch", "temp"} => cdc'[d] = "none"
        /\ pull'[d] = "stream" /\ Mode = "eager" => cdc'[d] = "none"
    BY <1>3 DEF PullStep, ChunkerStep, CleanupStep, FetchOk, FetchFails, TempOk, TempFails,
             Write, Eof, StreamFails, StoreNar, RecordNar, StoreFails, LeaveToChunker,
             UnlistJob, CloseJob, RecordChunking, RecordChunkingFails, ChunkBlock,
             ChunkingEnds, ChunkingFails, ChunkerLeaves, ChunkerUnlists, ChunkerCloses,
             CloseReaders, RemoveTemp, PullFails, ChunkingAborted, Broadcast,
             storageVars, lockVars, stateVars, routineVars, requestVars
  <2> QED
    BY <1>3, <2>1, DownloadFrame
<1>4. ASSUME NEW s \in Servers, Crash(s) PROVE ChunkerStartsOnce'
  BY <1>4 DEF Crash
<1>5. CASE DeadLockExpires \/ LiveLockExpires \/ RowGoesStale
  BY <1>5 DEF DeadLockExpires, LiveLockExpires, RowGoesStale, routineVars
<1> QED
  BY <1>1, <1>2, <1>3, <1>4, <1>5 DEF Next, Environment

\* A downloadState comes from the upstreamJobs of the request's own server.
LEMMA SameServerStateStep == IInv /\ [Next]_vars => SameServerState'
<1> SUFFICES ASSUME IInv, [Next]_vars PROVE SameServerState'
  OBVIOUS
<1> USE NarDownloadAssumption DEF IInv, SameServerState, TypeOK
<1>1. CASE UNCHANGED vars
  BY <1>1 DEF vars, requestVars
<1>2. ASSUME NEW r \in Requests, Get(r) \/ RequestStep(r) \/ ClientLeaves(r) \/ ReleaseLock(r)
      PROVE  SameServerState'
  <2>1. job[ServerOf[r]] # None => ServerOf[job[ServerOf[r]]] = ServerOf[r]
    BY DEF JobsAreListed
  <2>2. CASE FindJob(r) \/ CreateJob(r)
    BY <2>1, <2>2 DEF FindJob, CreateJob
  <2> QED
    BY <1>2, <2>2, RequestFrame
<1>3. ASSUME NEW d \in Requests, PullStep(d) \/ ChunkerStep(d) \/ CleanupStep(d)
      PROVE  SameServerState'
  BY <1>3, DownloadFrame
<1>4. ASSUME NEW s \in Servers, Crash(s) PROVE SameServerState'
  BY <1>4 DEF Crash
<1>5. CASE DeadLockExpires \/ LiveLockExpires \/ RowGoesStale
  BY <1>5 DEF DeadLockExpires, LiveLockExpires, RowGoesStale, requestVars
<1> QED
  BY <1>1, <1>2, <1>3, <1>4, <1>5 DEF Next, Environment

\* upstreamJobs follows the goroutines that will take a download out of it.
LEMMA JobsStep == IInv /\ [Next]_vars => JobsAreListed'
<1> SUFFICES ASSUME IInv, [Next]_vars PROVE JobsAreListed'
  OBVIOUS
<1> USE NarDownloadAssumption DEF IInv, JobsAreListed, MustUnlist, TypeOK
<1>1. CASE UNCHANGED vars
  BY <1>1 DEF vars, routineVars
<1>2. ASSUME NEW r \in Requests, Get(r) \/ RequestStep(r) \/ ClientLeaves(r) \/ ReleaseLock(r)
      PROVE  JobsAreListed'
  <2>1. CASE CreateJob(r)
    <3>1. pull[r] = "none" /\ cdc[r] = "none"
      BY <2>1 DEF CreateJob, NotYet
    <3> QED
      BY <2>1, <3>1 DEF CreateJob
  <2> QED
    BY <1>2, <2>1, RequestFrame
<1>3. ASSUME NEW d \in Requests, CleanupStep(d) PROVE JobsAreListed'
  BY <1>3 DEF CleanupStep, CloseReaders, RemoveTemp
<1>4. ASSUME NEW d \in Requests, PullStep(d) PROVE JobsAreListed'
  <2>1. CASE UnlistJob(d)
    BY <2>1 DEF UnlistJob
  <2>2. CASE ~UnlistJob(d)
    <3>1. job' = job /\ (MustUnlist(d)' <=> MustUnlist(d))
      BY <1>4, <2>2 DEF ChunkerStartsOnce, PullStep, ChunkerStep, CleanupStep, FetchOk, FetchFails, TempOk, TempFails,
             Write, Eof, StreamFails, StoreNar, RecordNar, StoreFails, LeaveToChunker,
             UnlistJob, CloseJob, RecordChunking, RecordChunkingFails, ChunkBlock,
             ChunkingEnds, ChunkingFails, ChunkerLeaves, ChunkerUnlists, ChunkerCloses,
             CloseReaders, RemoveTemp, PullFails, ChunkingAborted, Broadcast,
             storageVars, lockVars, stateVars, routineVars, requestVars
    <3> QED
      BY <1>4, <3>1, DownloadFrame
  <2> QED
    BY <2>1, <2>2
<1>5. ASSUME NEW d \in Requests, ChunkerStep(d) PROVE JobsAreListed'
  <2>1. CASE ChunkerUnlists(d)
    BY <2>1 DEF ChunkerUnlists
  <2>2. CASE ~ChunkerUnlists(d)
    <3>1. job' = job /\ (MustUnlist(d)' <=> MustUnlist(d))
      BY <1>5, <2>2 DEF PullStep, ChunkerStep, CleanupStep, FetchOk, FetchFails, TempOk, TempFails,
             Write, Eof, StreamFails, StoreNar, RecordNar, StoreFails, LeaveToChunker,
             UnlistJob, CloseJob, RecordChunking, RecordChunkingFails, ChunkBlock,
             ChunkingEnds, ChunkingFails, ChunkerLeaves, ChunkerUnlists, ChunkerCloses,
             CloseReaders, RemoveTemp, PullFails, ChunkingAborted, Broadcast,
             storageVars, lockVars, stateVars, routineVars, requestVars
    <3> QED
      BY <1>5, <3>1, DownloadFrame
  <2> QED
    BY <2>1, <2>2
<1>6. ASSUME NEW s \in Servers, Crash(s) PROVE JobsAreListed'
  BY <1>6 DEF Crash
<1>7. CASE DeadLockExpires \/ LiveLockExpires \/ RowGoesStale
  BY <1>7 DEF DeadLockExpires, LiveLockExpires, RowGoesStale, routineVars
<1> QED
  BY <1>1, <1>2, <1>3, <1>4, <1>5, <1>6, <1>7 DEF Next, Environment

\* Readers call ds.wg.Add before they read and ds.wg.Done when they are through.
LEMMA CountedStep == IInv /\ [Next]_vars => Counted'
<1> SUFFICES ASSUME IInv, [Next]_vars PROVE Counted'
  OBVIOUS
<1> USE NarDownloadAssumption DEF IInv, Counted, TypeOK
<1>1. CASE UNCHANGED vars
  BY <1>1 DEF vars, stateVars, routineVars, requestVars
<1>2. ASSUME NEW r \in Requests, Get(r) \/ RequestStep(r) \/ ClientLeaves(r) \/ ReleaseLock(r)
      PROVE  Counted'
  <2> DEFINE Waits == {"joined", "waitStart", "waitStored"} \cup Streaming
  <2>0. \/ wg' = wg
        \/ wg' = [wg EXCEPT ![ds[r]] = @ \ {r}]
        \/ wg' = [wg EXCEPT ![ds[r]] = @ \cup {r}]
    BY <1>2, RequestFrame
  <2>1. \A x \in Requests : Chunker \in wg[x] => Chunker \in wg'[x]
    BY <2>0
  <2>2. \A x \in Requests : x # r /\ pc[x] \in Waits => x \in wg'[ds[x]]
    BY <1>2, RequestFrame DEF HoldsState, Streaming
  <2>3. pc'[r] \in Waits => r \in wg'[ds'[r]]
    <3>0. ServeOutcome \notin Waits
      BY DEF ServeOutcome, Streaming
    <3>1. pc'[r] \in Waits /\ pc[r] \in Waits => ds'[r] = ds[r] /\ wg' = wg
      BY <1>2, <3>0 DEF Streaming, RequestStep, ClientLeaves, Goto, Serve, StopAwaiting, Get, Progressive,
             ProgressiveTimeout, FindJob, Acquire, AcquireFails, PollHit, PollTimeout,
             CheckUnderLock, CreateJob, AwaitStart, AbandonAwait, Join, PreferStore,
             StartStream, GiveUp, LoopHead, WakeUp, Copy, CopyFails, EndStream, ReleaseLock,
             storageVars, lockVars, stateVars, routineVars, requestVars
    <3>3. pc'[r] \in Waits /\ pc[r] \notin Waits => Join(r) /\ wg' = [wg EXCEPT ![ds[r]] = @ \cup {r}]
      BY <1>2, <3>0 DEF Streaming, RequestStep, ClientLeaves, Goto, Serve, StopAwaiting, Get, Progressive,
             ProgressiveTimeout, FindJob, Acquire, AcquireFails, PollHit, PollTimeout,
             CheckUnderLock, CreateJob, AwaitStart, AbandonAwait, Join, PreferStore,
             StartStream, GiveUp, LoopHead, WakeUp, Copy, CopyFails, EndStream, ReleaseLock,
             storageVars, lockVars, stateVars, routineVars, requestVars
    <3>4. CASE pc'[r] \in Waits /\ pc[r] \notin Waits
      BY <3>3, <3>4 DEF Join, HoldsState
    <3> QED
      BY <3>1, <3>4
  <2>4. cdc' = cdc /\ \A x \in Requests : x # r => pc'[x] = pc[x] /\ ds'[x] = ds[x]
    BY <1>2, RequestFrame
  <2> QED
    BY <2>1, <2>2, <2>3, <2>4
<1>3. ASSUME NEW d \in Requests, PullStep(d) \/ ChunkerStep(d) \/ CleanupStep(d)
      PROVE  Counted'
  <2>1. cdc'[d] \in {"record", "chunk", "leave"} => Chunker \in wg'[d]
    BY <1>3 DEF PullStep, ChunkerStep, CleanupStep, FetchOk, FetchFails, TempOk, TempFails,
             Write, Eof, StreamFails, StoreNar, RecordNar, StoreFails, LeaveToChunker,
             UnlistJob, CloseJob, RecordChunking, RecordChunkingFails, ChunkBlock,
             ChunkingEnds, ChunkingFails, ChunkerLeaves, ChunkerUnlists, ChunkerCloses,
             CloseReaders, RemoveTemp, PullFails, ChunkingAborted, Broadcast,
             storageVars, lockVars, stateVars, routineVars, requestVars
  <2>2. \A x \in Requests : x \in wg[d] => x \in wg'[d]
    BY <1>3 DEF PullStep, ChunkerStep, CleanupStep, FetchOk, FetchFails, TempOk, TempFails,
             Write, Eof, StreamFails, StoreNar, RecordNar, StoreFails, LeaveToChunker,
             UnlistJob, CloseJob, RecordChunking, RecordChunkingFails, ChunkBlock,
             ChunkingEnds, ChunkingFails, ChunkerLeaves, ChunkerUnlists, ChunkerCloses,
             CloseReaders, RemoveTemp, PullFails, ChunkingAborted, Broadcast,
             storageVars, lockVars, stateVars, routineVars, requestVars
  <2> QED
    BY <1>3, <2>1, <2>2, DownloadFrame DEF Streaming, HoldsState
<1>4. ASSUME NEW s \in Servers, Crash(s) PROVE Counted'
  BY <1>4 DEF Crash, Final, Streaming, SameServerState, HoldsState
<1>5. CASE DeadLockExpires \/ LiveLockExpires \/ RowGoesStale
  BY <1>5 DEF DeadLockExpires, LiveLockExpires, RowGoesStale, stateVars, routineVars, requestVars
<1> QED
  BY <1>1, <1>2, <1>3, <1>4, <1>5 DEF Next, Environment

\* Once closed, a downloadState gets no new reader and its goroutines are over.
LEMMA ClosedAfterAllStep == IInv /\ [Next]_vars => ClosedAfterAll'
<1> SUFFICES ASSUME IInv, [Next]_vars PROVE ClosedAfterAll'
  OBVIOUS
<1> USE NarDownloadAssumption DEF IInv, ClosedAfterAll, TypeOK
<1>1. CASE UNCHANGED vars
  BY <1>1 DEF vars, stateVars, routineVars
<1>2. ASSUME NEW r \in Requests, Get(r) \/ RequestStep(r) \/ ClientLeaves(r) \/ ReleaseLock(r)
      PROVE  ClosedAfterAll'
  <2>1. \A d \in Requests : closed[d] => pull'[d] = pull[d]
    <3>1. CASE CreateJob(r)
      BY <3>1 DEF CreateJob, NotYet
    <3> QED
      BY <1>2, <3>1, RequestFrame
  <2>2. \A d \in Requests : closed[d] /\ wg[d] = {} => wg'[d] = {}
    BY <1>2, RequestFrame, SMTT(30)
  <2> QED
    BY <1>2, <2>1, <2>2, RequestFrame, SMTT(30)
<1>3. ASSUME NEW d \in Requests, PullStep(d) \/ ChunkerStep(d) \/ CleanupStep(d)
      PROVE  ClosedAfterAll'
  <2>1. clean'[d] = "closed" => closed'[d]
    BY <1>3 DEF PullStep, ChunkerStep, CleanupStep, FetchOk, FetchFails, TempOk, TempFails,
             Write, Eof, StreamFails, StoreNar, RecordNar, StoreFails, LeaveToChunker,
             UnlistJob, CloseJob, RecordChunking, RecordChunkingFails, ChunkBlock,
             ChunkingEnds, ChunkingFails, ChunkerLeaves, ChunkerUnlists, ChunkerCloses,
             CloseReaders, RemoveTemp, PullFails, ChunkingAborted, Broadcast,
             storageVars, lockVars, stateVars, routineVars, requestVars
  <2>2. closed'[d] => pull'[d] = "ended" /\ cdc'[d] \in {"none", "unlist", "close", "ended"}
    BY <1>3 DEF PullStep, ChunkerStep, CleanupStep, FetchOk, FetchFails, TempOk, TempFails,
             Write, Eof, StreamFails, StoreNar, RecordNar, StoreFails, LeaveToChunker,
             UnlistJob, CloseJob, RecordChunking, RecordChunkingFails, ChunkBlock,
             ChunkingEnds, ChunkingFails, ChunkerLeaves, ChunkerUnlists, ChunkerCloses,
             CloseReaders, RemoveTemp, PullFails, ChunkingAborted, Broadcast,
             storageVars, lockVars, stateVars, routineVars, requestVars
  <2>3. temp'[d] = "removed" => closed'[d] /\ wg'[d] = {}
    BY <1>3 DEF PullStep, ChunkerStep, CleanupStep, FetchOk, FetchFails, TempOk, TempFails,
             Write, Eof, StreamFails, StoreNar, RecordNar, StoreFails, LeaveToChunker,
             UnlistJob, CloseJob, RecordChunking, RecordChunkingFails, ChunkBlock,
             ChunkingEnds, ChunkingFails, ChunkerLeaves, ChunkerUnlists, ChunkerCloses,
             CloseReaders, RemoveTemp, PullFails, ChunkingAborted, Broadcast,
             storageVars, lockVars, stateVars, routineVars, requestVars
  <2> QED
    BY <1>3, <2>1, <2>2, <2>3, DownloadFrame
<1>4. ASSUME NEW s \in Servers, Crash(s) PROVE ClosedAfterAll'
  BY <1>4 DEF Crash
<1>5. CASE DeadLockExpires \/ LiveLockExpires \/ RowGoesStale
  BY <1>5 DEF DeadLockExpires, LiveLockExpires, RowGoesStale, stateVars, routineVars
<1> QED
  BY <1>1, <1>2, <1>3, <1>4, <1>5 DEF Next, Environment

\* pullNarIntoStore creates the temp file before it closes ds.start, or fails.
LEMMA CreatedBeforeStartStep == IInv /\ [Next]_vars => CreatedBeforeStart'
<1> SUFFICES ASSUME IInv, [Next]_vars PROVE CreatedBeforeStart'
  OBVIOUS
<1> USE NarDownloadAssumption DEF IInv, CreatedBeforeStart, TypeOK
<1>1. CASE UNCHANGED vars
  BY <1>1 DEF vars, stateVars, routineVars
<1>2. ASSUME NEW r \in Requests, Get(r) \/ RequestStep(r) \/ ClientLeaves(r) \/ ReleaseLock(r)
      PROVE  CreatedBeforeStart'
  <2>1. CASE CreateJob(r)
    BY <2>1 DEF CreateJob, stateVars
  <2> QED
    BY <1>2, <2>1, RequestFrame
<1>3. ASSUME NEW d \in Requests, PullStep(d) \/ ChunkerStep(d) \/ CleanupStep(d)
      PROVE  CreatedBeforeStart'
  <2>1. pull'[d] \in {"stream", "store", "record"} \/ cdc'[d] # "none" => temp'[d] # "none"
    BY <1>3 DEF PullStep, ChunkerStep, CleanupStep, FetchOk, FetchFails, TempOk, TempFails,
             Write, Eof, StreamFails, StoreNar, RecordNar, StoreFails, LeaveToChunker,
             UnlistJob, CloseJob, RecordChunking, RecordChunkingFails, ChunkBlock,
             ChunkingEnds, ChunkingFails, ChunkerLeaves, ChunkerUnlists, ChunkerCloses,
             CloseReaders, RemoveTemp, PullFails, ChunkingAborted, Broadcast,
             storageVars, lockVars, stateVars, routineVars, requestVars
  <2>2. pull'[d] \in {"finish", "close"} \/ start'[d] => failed'[d] \/ temp'[d] # "none"
    BY <1>3 DEF PullStep, ChunkerStep, CleanupStep, FetchOk, FetchFails, TempOk, TempFails,
             Write, Eof, StreamFails, StoreNar, RecordNar, StoreFails, LeaveToChunker,
             UnlistJob, CloseJob, RecordChunking, RecordChunkingFails, ChunkBlock,
             ChunkingEnds, ChunkingFails, ChunkerLeaves, ChunkerUnlists, ChunkerCloses,
             CloseReaders, RemoveTemp, PullFails, ChunkingAborted, Broadcast,
             storageVars, lockVars, stateVars, routineVars, requestVars
  <2> QED
    BY <1>3, <2>1, <2>2, DownloadFrame
<1>4. ASSUME NEW s \in Servers, Crash(s) PROVE CreatedBeforeStart'
  BY <1>4 DEF Crash
<1>5. CASE DeadLockExpires \/ LiveLockExpires \/ RowGoesStale
  BY <1>5 DEF DeadLockExpires, LiveLockExpires, RowGoesStale, stateVars, routineVars
<1> QED
  BY <1>1, <1>2, <1>3, <1>4, <1>5 DEF Next, Environment

\* GetNar streams only after ds.start is closed without an error.
LEMMA CreatedBeforeReadStep == IInv /\ [Next]_vars => CreatedBeforeRead'
<1> SUFFICES ASSUME IInv, [Next]_vars PROVE CreatedBeforeRead'
  OBVIOUS
<1> USE NarDownloadAssumption DEF IInv, CreatedBeforeRead, TypeOK
<1>1. CASE UNCHANGED vars
  BY <1>1 DEF vars, stateVars, requestVars
<1>2. ASSUME NEW r \in Requests, Get(r) \/ RequestStep(r) \/ ClientLeaves(r) \/ ReleaseLock(r)
      PROVE  CreatedBeforeRead'
  <2>1. ServeOutcome \notin Streaming
    BY DEF ServeOutcome, Streaming
  <2>2. pc'[r] \in Streaming
        => ds' = ds /\ (pc[r] \in Streaming \/ (StartStream(r) /\ ~failed[ds[r]]))
    BY <1>2, <2>1 DEF Streaming, RequestStep, ClientLeaves, Goto, Serve, StopAwaiting, Get, Progressive,
             ProgressiveTimeout, FindJob, Acquire, AcquireFails, PollHit, PollTimeout,
             CheckUnderLock, CreateJob, AwaitStart, AbandonAwait, Join, PreferStore,
             StartStream, GiveUp, LoopHead, WakeUp, Copy, CopyFails, EndStream, ReleaseLock,
             storageVars, lockVars, stateVars, routineVars, requestVars
  <2>3. StartStream(r) /\ ~failed[ds[r]] => temp[ds[r]] # "none"
    BY DEF StartStream, CreatedBeforeStart, HoldsState
  <2> QED
    BY <1>2, <2>2, <2>3, RequestFrame
<1>3. ASSUME NEW d \in Requests, PullStep(d) \/ ChunkerStep(d) \/ CleanupStep(d)
      PROVE  CreatedBeforeRead'
  <2>1. temp[d] # "none" => temp'[d] # "none"
    BY <1>3 DEF PullStep, ChunkerStep, CleanupStep, FetchOk, FetchFails, TempOk, TempFails,
             Write, Eof, StreamFails, StoreNar, RecordNar, StoreFails, LeaveToChunker,
             UnlistJob, CloseJob, RecordChunking, RecordChunkingFails, ChunkBlock,
             ChunkingEnds, ChunkingFails, ChunkerLeaves, ChunkerUnlists, ChunkerCloses,
             CloseReaders, RemoveTemp, PullFails, ChunkingAborted, Broadcast,
             storageVars, lockVars, stateVars, routineVars, requestVars
  <2> QED
    BY <1>3, <2>1, DownloadFrame DEF Streaming, HoldsState
<1>4. ASSUME NEW s \in Servers, Crash(s) PROVE CreatedBeforeRead'
  BY <1>4 DEF Crash, Streaming
<1>5. CASE DeadLockExpires \/ LiveLockExpires \/ RowGoesStale
  BY <1>5 DEF DeadLockExpires, LiveLockExpires, RowGoesStale, stateVars, requestVars
<1> QED
  BY <1>1, <1>2, <1>3, <1>4, <1>5 DEF Next, Environment

\* IInv is inductive.
LEMMA Inductive == Spec => []IInv
<1>1. Init => IInv
  <2> SUFFICES ASSUME Init PROVE IInv
    OBVIOUS
  <2>1. TypeOK
    BY InitTypeOK
  <2>2. HoldsState /\ NotYet /\ ChunkerStartsOnce /\ SameServerState
    BY DEF Init, HoldsState, NotYet, ChunkerStartsOnce, SameServerState, Streaming
  <2>3. JobsAreListed
    BY NarDownloadAssumption DEF Init, JobsAreListed, MustUnlist
  <2>4. Counted /\ ClosedAfterAll /\ CreatedBeforeStart /\ CreatedBeforeRead
    BY DEF Init, Counted, ClosedAfterAll, CreatedBeforeStart, CreatedBeforeRead, Streaming
  <2> QED
    BY <2>1, <2>2, <2>3, <2>4 DEF IInv
<1>2. IInv /\ [Next]_vars => IInv'
  <2> SUFFICES ASSUME IInv, [Next]_vars PROVE IInv'
    OBVIOUS
  <2>1. TypeOK' /\ HoldsState'
    BY TypeStep, HoldsStateStep DEF IInv
  <2>2. NotYet' /\ ChunkerStartsOnce' /\ SameServerState' /\ JobsAreListed'
    BY NotYetStep, ChunkerStartsOnceStep, SameServerStateStep, JobsStep
  <2>3. Counted' /\ ClosedAfterAll' /\ CreatedBeforeStart' /\ CreatedBeforeRead'
    BY CountedStep, ClosedAfterAllStep, CreatedBeforeStartStep, CreatedBeforeReadStep
  <2> QED
    BY <2>1, <2>2, <2>3 DEF IInv
<1> QED
  BY <1>1, <1>2, PTL DEF Spec

\* upstreamJobs lists exactly the downloads that a goroutine of pullNarIntoStore
\* will still take out of it, whatever crashes, fails or expires.
THEOREM JobsListed == Spec => []JobsAreListed
<1>1. IInv => JobsAreListed
  BY DEF IInv
<1> QED
  BY <1>1, Inductive, PTL

\* The cleanup goroutine of pullNarIntoStore never removes a temp file that a
\* client or the chunker still reads, whatever crashes, fails or expires.
THEOREM TempFileKept == Spec => []TempFilePresent
<1>1. IInv => TempFilePresent
  <2> SUFFICES ASSUME IInv, NEW r \in Requests
               PROVE  /\ pc[r] \in Streaming => temp[ds[r]] = "exists"
                      /\ cdc[r] = "chunk" => temp[r] = "exists"
    BY DEF TempFilePresent
  <2>1. \A d \in Requests : temp[d] # "none" /\ wg[d] # {} => temp[d] = "exists"
    BY DEF IInv, TypeOK, ClosedAfterAll
  <2>2. pc[r] \in Streaming => ds[r] \in Requests /\ temp[ds[r]] # "none" /\ wg[ds[r]] # {}
    BY DEF IInv, HoldsState, CreatedBeforeRead, Counted
  <2>3. cdc[r] = "chunk" => temp[r] # "none" /\ wg[r] # {}
    BY DEF IInv, CreatedBeforeStart, Counted
  <2> QED
    BY <2>1, <2>2, <2>3
<1> QED
  BY <1>1, Inductive, PTL

\* A step that forgets the duty to unlock, or leaves the code between Lock and
\* the deferred unlock, releases the lock or passes the duty on.
LEMMA ReleaserStep == TypeOK /\ LockHasReleaser /\ [Next]_vars => LockHasReleaser'
<1> SUFFICES ASSUME TypeOK, LockHasReleaser, [Next]_vars PROVE LockHasReleaser'
  OBVIOUS
<1> USE NarDownloadAssumption DEF LockHasReleaser, TypeOK
<1>1. CASE UNCHANGED vars
  BY <1>1 DEF vars, lockVars, routineVars, requestVars
<1>2. ASSUME NEW r \in Requests, Get(r) \/ RequestStep(r) \/ ClientLeaves(r) \/ ReleaseLock(r)
      PROVE  LockHasReleaser'
  <2>0. \A x \in Requests : x # r => pc'[x] = pc[x]
    BY <1>2, RequestFrame
  <2>1. CASE Acquire(r)
    BY <2>0, <2>1 DEF Acquire, Goto, routineVars
  <2>2. CASE CheckUnderLock(r)
    <3>1. CASE HasAsset
      BY <2>0, <2>2, <3>1 DEF CheckUnderLock, Unlock, routineVars
    <3>2. CASE ~HasAsset
      BY <2>0, <2>2, <3>2 DEF CheckUnderLock, Goto, routineVars, lockVars
    <3> QED
      BY <3>1, <3>2
  <2>3. CASE CreateJob(r)
    BY <2>0, <2>3 DEF CreateJob, lockVars
  <2>4. CASE AwaitStart(r) \/ AbandonAwait(r)
    BY <2>0, <2>4 DEF AwaitStart, AbandonAwait, StopAwaiting, lockVars
  <2>5. CASE ReleaseLock(r)
    BY <2>0, <2>5 DEF ReleaseLock, Unlock, requestVars
  <2>6. CASE ~(\/ Acquire(r) \/ CheckUnderLock(r) \/ CreateJob(r)
               \/ AwaitStart(r) \/ AbandonAwait(r) \/ ReleaseLock(r))
    <3>1. lock' = lock /\ held' = held /\ duty' = duty /\ pc[r] \notin {"locked", "create"}
      BY <1>2, <2>6 DEF Streaming, RequestStep, ClientLeaves, Get, Progressive,
             ProgressiveTimeout, FindJob, AcquireFails, PollHit, PollTimeout, Join,
             PreferStore, StartStream, GiveUp, LoopHead, WakeUp, Copy, CopyFails, EndStream,
             lockVars, routineVars
    <3> QED
      BY <2>0, <3>1
  <2> QED
    BY <2>1, <2>2, <2>3, <2>4, <2>5, <2>6
<1>3. ASSUME NEW d \in Requests, PullStep(d) \/ ChunkerStep(d) \/ CleanupStep(d)
      PROVE  LockHasReleaser'
  <2>1. lock' = lock /\ held' = held /\ duty' = duty
    BY <1>3 DEF PullStep, ChunkerStep, CleanupStep, FetchOk, FetchFails, TempOk, TempFails,
             Write, Eof, StreamFails, StoreNar, RecordNar, StoreFails, LeaveToChunker,
             UnlistJob, CloseJob, RecordChunking, RecordChunkingFails, ChunkBlock,
             ChunkingEnds, ChunkingFails, ChunkerLeaves, ChunkerUnlists, ChunkerCloses,
             CloseReaders, RemoveTemp, PullFails, ChunkingAborted, Broadcast,
             storageVars, lockVars, stateVars, routineVars, requestVars
  <2> QED
    BY <1>3, <2>1, DownloadFrame
<1>4. ASSUME NEW s \in Servers, Crash(s) PROVE LockHasReleaser'
  BY <1>4 DEF Crash
<1>5. CASE DeadLockExpires \/ LiveLockExpires
  BY <1>5 DEF DeadLockExpires, LiveLockExpires, routineVars, requestVars
<1>6. CASE RowGoesStale
  BY <1>6 DEF RowGoesStale, lockVars, routineVars, requestVars
<1> QED
  BY <1>1, <1>2, <1>3, <1>4, <1>5, <1>6 DEF Next, Environment

\* coordinateDownload: as long as the server that took the download lock lives, a
\* goroutine of it is still on its way to Unlock, on every early return and after
\* every lost lock.
THEOREM ReleaserExists == Spec => []LockHasReleaser
<1>1. Init => LockHasReleaser
  BY NarDownloadAssumption DEF Init, LockHasReleaser
<1> QED
  BY <1>1, ReleaserStep, TypeCorrect, PTL DEF Spec

-----------------------------------------------------------------------------
(* Storage: which rows appear, what a client got when its stream ended,    *)
(* and that only one download runs.                                        *)

\* What a step on behalf of request r leaves alone, besides RequestFrame.
LEMMA RequestKeeps ==
    ASSUME TypeOK, NEW r \in Requests,
           Get(r) \/ RequestStep(r) \/ ClientLeaves(r) \/ ReleaseLock(r)
    PROVE  /\ file' = file /\ written' = written /\ final' = final
           /\ stored' = stored /\ done' = done /\ offset' = offset
           /\ row' = row \/ (row = "absent" /\ row' = "plain")
           /\ \A x \in Requests : x # r =>
                /\ sent'[x] = sent[x] /\ avail'[x] = avail[x] /\ whole'[x] = whole[x]
                /\ duty'[x] = duty[x]
<1> USE DEF TypeOK
<1>1. /\ file' = file /\ written' = written /\ final' = final
      /\ stored' = stored /\ done' = done /\ offset' = offset
  BY DEF RequestStep, ClientLeaves, Goto, Serve, StopAwaiting, Get, Progressive,
             ProgressiveTimeout, FindJob, Acquire, AcquireFails, PollHit, PollTimeout,
             CheckUnderLock, CreateJob, AwaitStart, AbandonAwait, Join, PreferStore,
             StartStream, GiveUp, LoopHead, WakeUp, Copy, CopyFails, EndStream, ReleaseLock,
             storageVars, lockVars, stateVars, routineVars, requestVars
<1>2. row' = row \/ (row = "absent" /\ row' = "plain")
  BY DEF RequestStep, ClientLeaves, Goto, Serve, StopAwaiting, Get, Progressive,
             ProgressiveTimeout, FindJob, Acquire, AcquireFails, PollHit, PollTimeout,
             CheckUnderLock, CreateJob, AwaitStart, AbandonAwait, Join, PreferStore,
             StartStream, GiveUp, LoopHead, WakeUp, Copy, CopyFails, EndStream, ReleaseLock,
             storageVars, lockVars, stateVars, routineVars, requestVars
<1>3. \A x \in Requests : x # r =>
                /\ sent'[x] = sent[x] /\ avail'[x] = avail[x] /\ whole'[x] = whole[x]
                /\ duty'[x] = duty[x]
  BY DEF RequestStep, ClientLeaves, Goto, Serve, StopAwaiting, Get, Progressive,
             ProgressiveTimeout, FindJob, Acquire, AcquireFails, PollHit, PollTimeout,
             CheckUnderLock, CreateJob, AwaitStart, AbandonAwait, Join, PreferStore,
             StartStream, GiveUp, LoopHead, WakeUp, Copy, CopyFails, EndStream, ReleaseLock,
             storageVars, lockVars, stateVars, routineVars, requestVars
<1> QED
  BY <1>1, <1>2, <1>3

\* What a step of the goroutines of download d leaves alone, besides DownloadFrame.
LEMMA DownloadKeeps ==
    ASSUME TypeOK, NEW d \in Requests, PullStep(d) \/ ChunkerStep(d) \/ CleanupStep(d)
    PROVE  /\ sent' = sent /\ avail' = avail /\ whole' = whole
           /\ duty' = duty /\ lock' = lock /\ held' = held
           /\ file => file'
           /\ \A x \in Requests : x # d =>
                /\ written'[x] = written[x] /\ final'[x] = final[x]
                /\ stored'[x] = stored[x] /\ done'[x] = done[x] /\ offset'[x] = offset[x]
<1> USE DEF TypeOK
<1>1. /\ sent' = sent /\ avail' = avail /\ whole' = whole
      /\ duty' = duty /\ lock' = lock /\ held' = held
      /\ file => file'
  BY DEF PullStep, ChunkerStep, CleanupStep, FetchOk, FetchFails, TempOk, TempFails,
             Write, Eof, StreamFails, StoreNar, RecordNar, StoreFails, LeaveToChunker,
             UnlistJob, CloseJob, RecordChunking, RecordChunkingFails, ChunkBlock,
             ChunkingEnds, ChunkingFails, ChunkerLeaves, ChunkerUnlists, ChunkerCloses,
             CloseReaders, RemoveTemp, PullFails, ChunkingAborted, Broadcast,
             storageVars, lockVars, stateVars, routineVars, requestVars
<1>2. \A x \in Requests : x # d =>
                /\ written'[x] = written[x] /\ final'[x] = final[x]
                /\ stored'[x] = stored[x] /\ done'[x] = done[x] /\ offset'[x] = offset[x]
  BY DEF PullStep, ChunkerStep, CleanupStep, FetchOk, FetchFails, TempOk, TempFails,
             Write, Eof, StreamFails, StoreNar, RecordNar, StoreFails, LeaveToChunker,
             UnlistJob, CloseJob, RecordChunking, RecordChunkingFails, ChunkBlock,
             ChunkingEnds, ChunkingFails, ChunkerLeaves, ChunkerUnlists, ChunkerCloses,
             CloseReaders, RemoveTemp, PullFails, ChunkingAborted, Broadcast,
             storageVars, lockVars, stateVars, routineVars, requestVars
<1> QED
  BY <1>1, <1>2

-----------------------------------------------------------------------------
(* Rows.                                                                   *)

\* A step never takes a nar_files row away, and serving from the store recreates
\* a missing one unless the database refuses.
LEMMA ServedStep ==
    ASSUME "database" \notin Faults
    PROVE  TypeOK /\ ServedIsTracked /\ [Next]_vars => ServedIsTracked'
<1> SUFFICES ASSUME TypeOK, ServedIsTracked, [Next]_vars PROVE ServedIsTracked'
  OBVIOUS
<1> USE NarDownloadAssumption DEF ServedIsTracked, TypeOK
<1>1. CASE UNCHANGED vars
  BY <1>1 DEF vars, storageVars, requestVars
<1>2. ASSUME NEW r \in Requests, Get(r) \/ RequestStep(r) \/ ClientLeaves(r) \/ ReleaseLock(r)
      PROVE  ServedIsTracked'
  <2>1. Serve(r) => (pc'[r] = "served" => row' # "absent")
    BY DEF Serve, Goto, ServeOutcome
  <2>2. pc'[r] = "served" => pc[r] = "served" \/ Serve(r) \/ row = "chunked"
    BY <1>2 DEF RequestStep, ClientLeaves, Goto, StopAwaiting, Get, Progressive,
             ProgressiveTimeout, FindJob, Acquire, AcquireFails, PollHit, PollTimeout,
             CheckUnderLock, CreateJob, AwaitStart, AbandonAwait, Join, PreferStore,
             StartStream, GiveUp, LoopHead, WakeUp, Copy, CopyFails, EndStream, ReleaseLock,
             storageVars, lockVars, stateVars, routineVars, requestVars
  <2> QED
    BY <1>2, <2>1, <2>2, RequestFrame, RequestKeeps
<1>3. ASSUME NEW d \in Requests, PullStep(d) \/ ChunkerStep(d) \/ CleanupStep(d)
      PROVE  ServedIsTracked'
  <2>1. row # "absent" => row' # "absent"
    BY <1>3 DEF PullStep, ChunkerStep, CleanupStep, FetchOk, FetchFails, TempOk, TempFails,
             Write, Eof, StreamFails, StoreNar, RecordNar, StoreFails, LeaveToChunker,
             UnlistJob, CloseJob, RecordChunking, RecordChunkingFails, ChunkBlock,
             ChunkingEnds, ChunkingFails, ChunkerLeaves, ChunkerUnlists, ChunkerCloses,
             CloseReaders, RemoveTemp, PullFails, ChunkingAborted, Broadcast,
             storageVars, lockVars, stateVars, routineVars, requestVars
  <2> QED
    BY <1>3, <2>1, DownloadFrame
<1>4. ASSUME NEW s \in Servers, Crash(s) PROVE ServedIsTracked'
  BY <1>4 DEF Crash, storageVars
<1>5. CASE DeadLockExpires \/ LiveLockExpires \/ RowGoesStale
  BY <1>5 DEF DeadLockExpires, LiveLockExpires, RowGoesStale, storageVars, requestVars
<1> QED
  BY <1>1, <1>2, <1>3, <1>4, <1>5 DEF Next, Environment

\* A NAR served from the store has a nar_files row, whatever crashes between
\* PutNar and ensureNarFileRecord, as long as the database answers.
THEOREM ServedTracked ==
    ASSUME "database" \notin Faults
    PROVE  Spec => []ServedIsTracked
<1>1. Init => ServedIsTracked
  BY DEF Init, ServedIsTracked
<1>2. TypeOK /\ ServedIsTracked /\ [Next]_vars => ServedIsTracked'
  BY ServedStep
<1> QED
  BY <1>1, <1>2, TypeCorrect, PTL DEF Spec

-----------------------------------------------------------------------------
(* Chunked rows.                                                           *)

\* Without CDC no chunker runs, and an eager chunker reads a complete temp file
\* when a body cannot end early.
ChunkerReadsWhole ==
    /\ Mode = "plain" => \A d \in Requests : cdc[d] = "none"
    /\ Mode = "eager" => \A d \in Requests : cdc[d] # "none" => written[d] = NarLen

\* storeNarWithCDCFromReader sets total_chunks after the last block.
LEMMA ChunkedStep ==
    ASSUME Mode = "eager" => "truncate" \notin Faults
    PROVE  IInv /\ ChunkerReadsWhole /\ ChunkedIsWhole /\ [Next]_vars
           => (ChunkerReadsWhole /\ ChunkedIsWhole)'
<1> SUFFICES ASSUME IInv, ChunkerReadsWhole, ChunkedIsWhole, [Next]_vars
             PROVE  (ChunkerReadsWhole /\ ChunkedIsWhole)'
  OBVIOUS
<1> USE NarDownloadAssumption DEF IInv, ChunkerReadsWhole, ChunkedIsWhole, TypeOK
<1>1. CASE UNCHANGED vars
  BY <1>1 DEF vars, storageVars, stateVars, routineVars
<1>2. ASSUME NEW r \in Requests, Get(r) \/ RequestStep(r) \/ ClientLeaves(r) \/ ReleaseLock(r)
      PROVE  (ChunkerReadsWhole /\ ChunkedIsWhole)'
  BY <1>2, RequestFrame, RequestKeeps
<1>3. ASSUME NEW d \in Requests, PullStep(d) \/ ChunkerStep(d) \/ CleanupStep(d)
      PROVE  (ChunkerReadsWhole /\ ChunkedIsWhole)'
  <2>1. Mode = "plain" => cdc'[d] = "none"
    BY <1>3 DEF PullStep, ChunkerStep, CleanupStep, FetchOk, FetchFails, TempOk, TempFails,
             Write, Eof, StreamFails, StoreNar, RecordNar, StoreFails, LeaveToChunker,
             UnlistJob, CloseJob, RecordChunking, RecordChunkingFails, ChunkBlock,
             ChunkingEnds, ChunkingFails, ChunkerLeaves, ChunkerUnlists, ChunkerCloses,
             CloseReaders, RemoveTemp, PullFails, ChunkingAborted, Broadcast,
             storageVars, lockVars, stateVars, routineVars, requestVars
  <2>2. Mode = "eager" /\ cdc'[d] # "none" => written'[d] = NarLen
    <3>1. CASE Eof(d)
      BY <3>1 DEF Eof
    <3>2. CASE Write(d)
      BY <3>2, <1>3 DEF Write, ChunkerStartsOnce, routineVars
    <3>3. CASE ~Eof(d) /\ ~Write(d)
      BY <1>3, <3>3 DEF PullStep, ChunkerStep, CleanupStep, FetchOk, FetchFails, TempOk, TempFails,
             Write, Eof, StreamFails, StoreNar, RecordNar, StoreFails, LeaveToChunker,
             UnlistJob, CloseJob, RecordChunking, RecordChunkingFails, ChunkBlock,
             ChunkingEnds, ChunkingFails, ChunkerLeaves, ChunkerUnlists, ChunkerCloses,
             CloseReaders, RemoveTemp, PullFails, ChunkingAborted, Broadcast,
             storageVars, lockVars, stateVars, routineVars, requestVars
    <3> QED
      BY <3>1, <3>2, <3>3
  <2>3. offset[d] = NarLen => offset'[d] = NarLen
    BY <1>3 DEF PullStep, ChunkerStep, CleanupStep, FetchOk, FetchFails, TempOk, TempFails,
             Write, Eof, StreamFails, StoreNar, RecordNar, StoreFails, LeaveToChunker,
             UnlistJob, CloseJob, RecordChunking, RecordChunkingFails, ChunkBlock,
             ChunkingEnds, ChunkingFails, ChunkerLeaves, ChunkerUnlists, ChunkerCloses,
             CloseReaders, RemoveTemp, PullFails, ChunkingAborted, Broadcast,
             storageVars, lockVars, stateVars, routineVars, requestVars
  <2>4. row' = "chunked" => row = "chunked" \/ offset'[d] = NarLen
    <3>1. CASE ChunkingEnds(d)
      BY <3>1 DEF ChunkingEnds, AtEof, ChunkingAborted
    <3>2. CASE ~ChunkingEnds(d)
      BY <1>3, <3>2 DEF PullStep, ChunkerStep, CleanupStep, FetchOk, FetchFails, TempOk, TempFails,
             Write, Eof, StreamFails, StoreNar, RecordNar, StoreFails, LeaveToChunker,
             UnlistJob, CloseJob, RecordChunking, RecordChunkingFails, ChunkBlock,
             ChunkingEnds, ChunkingFails, ChunkerLeaves, ChunkerUnlists, ChunkerCloses,
             CloseReaders, RemoveTemp, PullFails, ChunkingAborted, Broadcast,
             storageVars, lockVars, stateVars, routineVars, requestVars
    <3> QED
      BY <3>1, <3>2
  <2> QED
    BY <1>3, <2>1, <2>2, <2>3, <2>4, DownloadFrame, DownloadKeeps
<1>4. ASSUME NEW s \in Servers, Crash(s) PROVE (ChunkerReadsWhole /\ ChunkedIsWhole)'
  BY <1>4 DEF Crash, storageVars
<1>5. CASE DeadLockExpires \/ LiveLockExpires \/ RowGoesStale
  BY <1>5 DEF DeadLockExpires, LiveLockExpires, RowGoesStale, storageVars, stateVars, routineVars
<1> QED
  BY <1>1, <1>2, <1>3, <1>4, <1>5 DEF Next, Environment

\* A row marked chunked stands for the whole NAR.  The eager mode has no NarSize
\* to compare with, so there the end of the body must not come early.
THEOREM ChunkedWhole ==
    ASSUME Mode = "eager" => "truncate" \notin Faults
    PROVE  Spec => []ChunkedIsWhole
<1>1. Init => ChunkerReadsWhole /\ ChunkedIsWhole
  BY DEF Init, ChunkerReadsWhole, ChunkedIsWhole
<1>2. IInv /\ ChunkerReadsWhole /\ ChunkedIsWhole /\ [Next]_vars
      => (ChunkerReadsWhole /\ ChunkedIsWhole)'
  BY ChunkedStep
<1> QED
  BY <1>1, <1>2, Inductive, PTL DEF Spec

\* The row of a NAR is marked while it is chunked, and by one chunker; a row gone
\* stale can be taken over by another server only.
ChunkerMarksRow ==
    /\ "stale" \notin Faults =>
         /\ row # "stale"
         /\ \A d \in Requests : cdc[d] = "chunk" => row = "chunking"
    /\ \A d, e \in Requests : cdc[d] = "chunk" /\ cdc[e] = "chunk" => d = e

\* findOrCreateNarFileForCDC admits one chunker.
LEMMA ChunkerMarksRowStep ==
    ASSUME "stale" \in Faults => \A q, r \in Requests : ServerOf[q] = ServerOf[r]
    PROVE  IInv /\ ChunkerMarksRow /\ [Next]_vars => ChunkerMarksRow'
<1> SUFFICES ASSUME IInv, ChunkerMarksRow, [Next]_vars PROVE ChunkerMarksRow'
  OBVIOUS
<1> USE NarDownloadAssumption DEF ChunkerMarksRow
<1>0. TypeOK
  BY DEF IInv
<1>1. CASE UNCHANGED vars
  BY <1>1 DEF vars, storageVars, routineVars
<1>2. ASSUME NEW r \in Requests, Get(r) \/ RequestStep(r) \/ ClientLeaves(r) \/ ReleaseLock(r)
      PROVE  ChunkerMarksRow'
  BY <1>0, <1>2, RequestFrame, RequestKeeps
<1>3. ASSUME NEW d \in Requests, PullStep(d) \/ ChunkerStep(d) \/ CleanupStep(d)
      PROVE  ChunkerMarksRow'
  <2>1. CASE RecordChunking(d)
    <3>1. cdc'[d] = "chunk" => \A e \in Requests : cdc[e] # "chunk"
      <4>1. CASE "stale" \in Faults
        <5> SUFFICES ASSUME NEW e \in Requests, cdc[e] = "chunk" PROVE FALSE
          OBVIOUS
        <5>1. job[ServerOf[e]] = e /\ job[ServerOf[d]] = d
          BY <2>1 DEF RecordChunking, IInv, JobsAreListed, MustUnlist
        <5>2. cdc[d] = "record"
          BY <2>1 DEF RecordChunking
        <5> QED
          BY <4>1, <5>1, <5>2
      <4>2. CASE "stale" \notin Faults
        BY <1>0, <2>1, <4>2 DEF RecordChunking, Marked, TypeOK
      <4> QED
        BY <4>1, <4>2
    <3>2. row' = row \/ row' = "chunking"
      BY <2>1 DEF RecordChunking
    <3>3. row' # row => cdc'[d] = "chunk"
      BY <1>0, <2>1 DEF RecordChunking, TypeOK
    <3>4. cdc'[d] = "chunk" => row' = "chunking"
      BY <1>0, <2>1 DEF RecordChunking, TypeOK
    <3> QED
      BY <1>0, <1>3, <3>1, <3>2, <3>3, <3>4, DownloadFrame
  <2>2. CASE cdc[d] = "chunk" /\ cdc'[d] # "chunk"
    <3>1. row' # "stale" \/ row = "stale"
      BY <1>3, <2>2 DEF PullStep, ChunkerStep, CleanupStep, FetchOk, FetchFails, TempOk, TempFails,
             Write, Eof, StreamFails, StoreNar, RecordNar, StoreFails, LeaveToChunker,
             UnlistJob, CloseJob, RecordChunking, RecordChunkingFails, ChunkBlock,
             ChunkingEnds, ChunkingFails, ChunkerLeaves, ChunkerUnlists, ChunkerCloses,
             CloseReaders, RemoveTemp, PullFails, ChunkingAborted, Broadcast,
             storageVars, lockVars, stateVars, routineVars, requestVars
    <3> QED
      BY <1>0, <1>3, <2>2, <3>1, DownloadFrame
  <2>3. CASE ~RecordChunking(d) /\ (cdc'[d] = "chunk" => cdc[d] = "chunk")
              /\ ~(cdc[d] = "chunk" /\ cdc'[d] # "chunk")
    <3>1. row' = row \/ (row = "absent" /\ row' = "plain")
      BY <1>0, <1>3, <2>3 DEF TypeOK, PullStep, ChunkerStep, CleanupStep, FetchOk, FetchFails, TempOk, TempFails,
             Write, Eof, StreamFails, StoreNar, RecordNar, StoreFails, LeaveToChunker,
             UnlistJob, CloseJob, RecordChunking, RecordChunkingFails, ChunkBlock,
             ChunkingEnds, ChunkingFails, ChunkerLeaves, ChunkerUnlists, ChunkerCloses,
             CloseReaders, RemoveTemp, PullFails, ChunkingAborted, Broadcast,
             storageVars, lockVars, stateVars, routineVars, requestVars
    <3> QED
      BY <1>0, <1>3, <2>3, <3>1, DownloadFrame
  <2>4. RecordChunking(d) \/ (cdc'[d] = "chunk" => cdc[d] = "chunk")
    BY <1>0, <1>3 DEF TypeOK, PullStep, ChunkerStep, CleanupStep, FetchOk, FetchFails, TempOk, TempFails,
             Write, Eof, StreamFails, StoreNar, RecordNar, StoreFails, LeaveToChunker,
             UnlistJob, CloseJob, RecordChunking, RecordChunkingFails, ChunkBlock,
             ChunkingEnds, ChunkingFails, ChunkerLeaves, ChunkerUnlists, ChunkerCloses,
             CloseReaders, RemoveTemp, PullFails, ChunkingAborted, Broadcast,
             storageVars, lockVars, stateVars, routineVars, requestVars
  <2> QED
    BY <2>1, <2>2, <2>3, <2>4
<1>4. ASSUME NEW s \in Servers, Crash(s) PROVE ChunkerMarksRow'
  BY <1>0, <1>4 DEF Crash, storageVars, TypeOK
<1>5. CASE DeadLockExpires \/ LiveLockExpires
  BY <1>5 DEF DeadLockExpires, LiveLockExpires, storageVars, routineVars
<1>6. CASE RowGoesStale
  BY <1>6 DEF RowGoesStale, routineVars
<1> QED
  BY <1>1, <1>2, <1>3, <1>4, <1>5, <1>6 DEF Next, Environment

\* A chunker has the row to itself, unless a slow one is taken over by another server.
LEMMA ChunkerMarks ==
    ASSUME "stale" \in Faults => \A q, r \in Requests : ServerOf[q] = ServerOf[r]
    PROVE  Spec => []ChunkerMarksRow
<1>1. Init => ChunkerMarksRow
  BY DEF Init, ChunkerMarksRow
<1>2. IInv /\ ChunkerMarksRow /\ [Next]_vars => ChunkerMarksRow'
  BY ChunkerMarksRowStep
<1> QED
  BY <1>1, <1>2, Inductive, PTL DEF Spec

\* The chunker that set chunking_started_at clears it on every way out, if the
\* database lets it.
ChunkingHasChunker == row = "chunking" => \E d \in Requests : cdc[d] = "chunk"

\* Every way out of storeNarWithCDCFromReader gives the chunking lock back.
LEMMA ChunkingHasChunkerStep ==
    ASSUME "crash" \notin Faults
    PROVE  IInv /\ ChunkingHasChunker /\ [Next]_vars => ChunkingHasChunker'
<1> SUFFICES ASSUME IInv, ChunkingHasChunker, [Next]_vars PROVE ChunkingHasChunker'
  OBVIOUS
<1> USE DEF IInv, ChunkingHasChunker, ChunkerStartsOnce, TypeOK
<1>1. CASE UNCHANGED vars
  BY <1>1 DEF vars, storageVars, routineVars
<1>2. ASSUME NEW r \in Requests, Get(r) \/ RequestStep(r) \/ ClientLeaves(r) \/ ReleaseLock(r)
      PROVE  ChunkingHasChunker'
  BY <1>2, RequestFrame, RequestKeeps
<1>3. ASSUME NEW d \in Requests, PullStep(d) \/ ChunkerStep(d) \/ CleanupStep(d)
      PROVE  ChunkingHasChunker'
  <2>1. CASE RecordChunking(d)
    BY <2>1, <1>3, DownloadFrame DEF RecordChunking
  <2>2. CASE ChunkingEnds(d) \/ ChunkingFails(d)
    <3>1. \/ row' # "chunking"
          \/ \E e \in Requests \ {d} : cdc[e] = "chunk"
      BY <2>2 DEF ChunkingEnds, ChunkingFails, ChunkingAborted, Marked
    <3> QED
      BY <1>3, <3>1, DownloadFrame
  <2>3. CASE ~RecordChunking(d) /\ ~ChunkingEnds(d) /\ ~ChunkingFails(d)
    <3>1. row' = row \/ row' = "plain"
      BY <1>3, <2>3 DEF PullStep, ChunkerStep, CleanupStep, FetchOk, FetchFails, TempOk, TempFails,
             Write, Eof, StreamFails, StoreNar, RecordNar, StoreFails, LeaveToChunker,
             UnlistJob, CloseJob, RecordChunkingFails, ChunkBlock,
             ChunkerLeaves, ChunkerUnlists, ChunkerCloses,
             CloseReaders, RemoveTemp, PullFails, Broadcast,
             storageVars, lockVars, stateVars, routineVars, requestVars
    <3>2. cdc[d] = "chunk" => cdc'[d] = "chunk"
      BY <1>3, <2>3 DEF PullStep, ChunkerStep, CleanupStep, FetchOk, FetchFails, TempOk, TempFails,
             Write, Eof, StreamFails, StoreNar, RecordNar, StoreFails, LeaveToChunker,
             UnlistJob, CloseJob, RecordChunkingFails, ChunkBlock,
             ChunkerLeaves, ChunkerUnlists, ChunkerCloses,
             CloseReaders, RemoveTemp, PullFails, Broadcast,
             storageVars, lockVars, stateVars, routineVars, requestVars
    <3> QED
      BY <1>3, <3>1, <3>2, DownloadFrame
  <2> QED
    BY <2>1, <2>2, <2>3
<1>4. \A s \in Servers : ~Crash(s)
  BY DEF Crash
<1>5. CASE DeadLockExpires \/ LiveLockExpires \/ RowGoesStale
  BY <1>5 DEF DeadLockExpires, LiveLockExpires, RowGoesStale, storageVars, routineVars
<1> QED
  BY <1>1, <1>2, <1>3, <1>4, <1>5 DEF Next, Environment

\* chunking_started_at is set only while a chunker works on the row, and one does,
\* unless a server dies (its row stays marked until it is stale), another server
\* takes over a row gone stale, or the clearing itself fails ("left").
THEOREM ChunkingOwned ==
    ASSUME "crash" \notin Faults,
           "stale" \in Faults => \A q, r \in Requests : ServerOf[q] = ServerOf[r]
    PROVE  Spec => []ChunkingLockOwned
<1>1. Init => ChunkingHasChunker
  BY DEF Init, ChunkingHasChunker
<1>2. IInv /\ ChunkingHasChunker /\ [Next]_vars => ChunkingHasChunker'
  BY ChunkingHasChunkerStep
<1>3. ChunkingHasChunker /\ ChunkerMarksRow => ChunkingLockOwned
  BY DEF ChunkingHasChunker, ChunkerMarksRow, ChunkingLockOwned
<1>4. Spec => []ChunkerMarksRow
  BY ChunkerMarks
<1> QED
  BY <1>1, <1>2, <1>3, <1>4, Inductive, PTL DEF Spec

-----------------------------------------------------------------------------
(* Complete streams.                                                       *)

\* finalSize is published once, at the end of the body, and the temp file does
\* not grow after it.
PublishedAtEnd ==
    \A d \in Requests : final[d] # 0 =>
        /\ pull[d] \notin {"none", "fetch", "temp", "stream"}
        /\ final[d] = written[d]

\* A reader that takes what it reads for the whole NAR has seen finalSize.
ReadsPublished ==
    \A r \in Requests :
        /\ pc[r] = "copy" /\ whole[r] => final[ds[r]] # 0 /\ avail[r] = final[ds[r]]
        /\ pc[r] \in {"waitStored", "full"} =>
             ds[r] \in Requests /\ final[ds[r]] # 0 /\ sent[r] = final[ds[r]]

\* Every step keeps PublishedAtEnd: after Eof nobody writes.
LEMMA PublishedStep == IInv /\ PublishedAtEnd /\ [Next]_vars => PublishedAtEnd'
<1> SUFFICES ASSUME IInv, PublishedAtEnd, [Next]_vars PROVE PublishedAtEnd'
  OBVIOUS
<1> USE NarDownloadAssumption DEF IInv, TypeOK, PublishedAtEnd
<1>1. CASE UNCHANGED vars
  BY <1>1 DEF vars, stateVars, routineVars
<1>2. ASSUME NEW r \in Requests, Get(r) \/ RequestStep(r) \/ ClientLeaves(r) \/ ReleaseLock(r)
      PROVE  PublishedAtEnd'
  <2>1. final[r] # 0 => pull'[r] = pull[r]
    <3>1. CASE CreateJob(r)
      BY <3>1 DEF CreateJob, NotYet
    <3> QED
      BY <1>2, <3>1, RequestFrame
  <2> QED
    BY <1>2, <2>1, RequestFrame, RequestKeeps
<1>3. ASSUME NEW d \in Requests, PullStep(d) \/ ChunkerStep(d) \/ CleanupStep(d)
      PROVE  PublishedAtEnd'
  <2>1. final'[d] # 0 => /\ pull'[d] \notin {"none", "fetch", "temp", "stream"}
                         /\ final'[d] = written'[d]
    <3>1. CASE Eof(d)
      BY <3>1 DEF Eof
    <3>2. CASE Write(d)
      BY <3>2 DEF Write
    <3>3. CASE ~Eof(d) /\ ~Write(d)
      BY <1>3, <3>3 DEF PullStep, ChunkerStep, CleanupStep, FetchOk, FetchFails, TempOk, TempFails,
             Write, Eof, StreamFails, StoreNar, RecordNar, StoreFails, LeaveToChunker,
             UnlistJob, CloseJob, RecordChunking, RecordChunkingFails, ChunkBlock,
             ChunkingEnds, ChunkingFails, ChunkerLeaves, ChunkerUnlists, ChunkerCloses,
             CloseReaders, RemoveTemp, PullFails, ChunkingAborted, Broadcast,
             storageVars, lockVars, stateVars, routineVars, requestVars
    <3> QED
      BY <3>1, <3>2, <3>3
  <2> QED
    BY <1>3, <2>1, DownloadFrame, DownloadKeeps
<1>4. ASSUME NEW s \in Servers, Crash(s) PROVE PublishedAtEnd'
  BY <1>4 DEF Crash
<1>5. CASE DeadLockExpires \/ LiveLockExpires \/ RowGoesStale
  BY <1>5 DEF DeadLockExpires, LiveLockExpires, RowGoesStale, stateVars, routineVars
<1> QED
  BY <1>1, <1>2, <1>3, <1>4, <1>5 DEF Next, Environment

\* A step of the goroutines of a download leaves a published finalSize alone.
LEMMA FinalKept ==
    ASSUME IInv, PublishedAtEnd, NEW d \in Requests,
           PullStep(d) \/ ChunkerStep(d) \/ CleanupStep(d), NEW x \in Requests, final[x] # 0
    PROVE  final'[x] = final[x]
<1> USE DEF IInv, TypeOK, PublishedAtEnd
<1>1. CASE x = d /\ Eof(d)
  BY <1>1 DEF Eof
<1>2. CASE x = d /\ ~Eof(d)
  BY <1>2 DEF PullStep, ChunkerStep, CleanupStep, FetchOk, FetchFails, TempOk, TempFails,
             Write, Eof, StreamFails, StoreNar, RecordNar, StoreFails, LeaveToChunker,
             UnlistJob, CloseJob, RecordChunking, RecordChunkingFails, ChunkBlock,
             ChunkingEnds, ChunkingFails, ChunkerLeaves, ChunkerUnlists, ChunkerCloses,
             CloseReaders, RemoveTemp, PullFails, ChunkingAborted, Broadcast,
             storageVars, lockVars, stateVars, routineVars, requestVars
<1>3. CASE x # d
  BY <1>3, DownloadKeeps
<1> QED
  BY <1>1, <1>2, <1>3

\* Every step keeps ReadsPublished: a published finalSize stays.
LEMMA ReadsPublishedStep ==
    IInv /\ PublishedAtEnd /\ ReadsPublished /\ [Next]_vars => ReadsPublished'
<1> SUFFICES ASSUME IInv, PublishedAtEnd, ReadsPublished, [Next]_vars PROVE ReadsPublished'
  OBVIOUS
<1> USE NarDownloadAssumption DEF ReadsPublished
<1>0. TypeOK /\ HoldsState
  BY DEF IInv
<1>1. CASE UNCHANGED vars
  BY <1>1 DEF vars, stateVars, requestVars
<1>2. ASSUME NEW r \in Requests, Get(r) \/ RequestStep(r) \/ ClientLeaves(r) \/ ReleaseLock(r)
      PROVE  ReadsPublished'
  <2>1. CASE LoopHead(r)
    <3>1. ds[r] \in Requests
      BY <1>0, <2>1 DEF LoopHead, HoldsState, Streaming
    <3>2. pc'[r] = "copy" /\ whole'[r] => final'[ds'[r]] # 0 /\ avail'[r] = final'[ds'[r]]
      BY <1>0, <2>1, <3>1, ZenonT(60) DEF LoopHead, Goto, TypeOK, PublishedAtEnd, stateVars
    <3>3. pc'[r] \notin {"waitStored", "full"}
      BY <1>0, <2>1 DEF LoopHead, Goto, TypeOK
    <3>4. ds' = ds /\ sent' = sent /\ final' = final
      BY <2>1 DEF LoopHead, stateVars
    <3> QED
      BY <1>0, <1>2, <3>2, <3>3, <3>4, RequestFrame, RequestKeeps
  <2>2. CASE Copy(r)
    <3>1. ds[r] \in Requests
      BY <1>0, <2>2 DEF Copy, HoldsState, Streaming
    <3> QED
      BY <1>0, <2>2, <3>1 DEF Copy, Goto, TypeOK, stateVars
  <2>3. CASE EndStream(r)
    BY <1>0, <2>3 DEF EndStream, Goto, TypeOK
  <2>4. CASE ~LoopHead(r) /\ ~Copy(r) /\ ~EndStream(r)
    <3>1. ServeOutcome \notin {"copy", "waitStored", "full"}
      BY DEF ServeOutcome
    <3>2. pc'[r] \in {"copy", "waitStored", "full"} => pc'[r] = pc[r] /\ requestVars' = requestVars
      <4>1. CASE ReleaseLock(r)
        BY <4>1 DEF ReleaseLock, requestVars
      <4>2. pc'[r] \in {"copy", "waitStored", "full"} => ReleaseLock(r)
        BY <1>0, <1>2, <2>4, <3>1 DEF TypeOK, RequestStep, ClientLeaves, Goto, Serve,
             StopAwaiting, Get, Progressive, ProgressiveTimeout, FindJob, Acquire,
             AcquireFails, PollHit, PollTimeout, CheckUnderLock, CreateJob, AwaitStart,
             AbandonAwait, Join, PreferStore, StartStream, GiveUp, WakeUp, CopyFails
      <4> QED
        BY <4>1, <4>2 DEF requestVars
    <3> QED
      BY <1>0, <1>2, <3>2, RequestFrame, RequestKeeps DEF requestVars
  <2> QED
    BY <2>1, <2>2, <2>3, <2>4
<1>3. ASSUME NEW d \in Requests, PullStep(d) \/ ChunkerStep(d) \/ CleanupStep(d)
      PROVE  ReadsPublished'
  <2>1. \A r \in Requests : pc[r] = "copy" => ds[r] \in Requests
    BY <1>0 DEF HoldsState, Streaming
  <2> QED
    BY <1>0, <1>3, <2>1, DownloadFrame, DownloadKeeps, FinalKept
<1>4. ASSUME NEW s \in Servers, Crash(s) PROVE ReadsPublished'
  BY <1>0, <1>4 DEF Crash, TypeOK
<1>5. CASE DeadLockExpires \/ LiveLockExpires \/ RowGoesStale
  BY <1>5 DEF DeadLockExpires, LiveLockExpires, RowGoesStale, stateVars, requestVars
<1> QED
  BY <1>1, <1>2, <1>3, <1>4, <1>5 DEF Next, Environment

\* Both hold in every state.
LEMMA Published == Spec => [](PublishedAtEnd /\ ReadsPublished)
<1>1. Init => PublishedAtEnd /\ ReadsPublished
  BY DEF Init, PublishedAtEnd, ReadsPublished
<1>2. IInv /\ (PublishedAtEnd /\ ReadsPublished) /\ [Next]_vars
      => (PublishedAtEnd /\ ReadsPublished)'
  BY PublishedStep, ReadsPublishedStep
<1> QED
  BY <1>1, <1>2, Inductive, PTL DEF Spec

-----------------------------------------------------------------------------
(* The download lock.                                                      *)

\* Request r has taken the download lock and is to release it.
Owns(r) == pc[r] \in {"locked", "create"} \/ duty[r] \in {"owed", "waiting"}

\* A lock that does not expire is held by the one request that has to release it.
OwnersHold ==
    \A r \in Requests :
        /\ pc[r] \in {"idle", "coord", "lock", "poll", "locked", "create"} => duty[r] = "none"
        /\ Owns(r) => lock = r /\ held[ServerOf[r]] = r

\* coordinateDownload releases only what it has acquired.
LEMMA OwnersHoldStep ==
    ASSUME "expire" \notin Faults,
           ~Distributed => \A s, t \in Servers : s = t
    PROVE  TypeOK /\ OwnersHold /\ [Next]_vars => OwnersHold'
<1> SUFFICES ASSUME TypeOK, OwnersHold, [Next]_vars PROVE OwnersHold'
  OBVIOUS
<1> USE NarDownloadAssumption DEF TypeOK, OwnersHold, Owns
<1>1. CASE UNCHANGED vars
  BY <1>1 DEF vars, lockVars, routineVars, requestVars
<1>2. ASSUME NEW r \in Requests, Get(r) \/ RequestStep(r) \/ ClientLeaves(r) \/ ReleaseLock(r)
      PROVE  OwnersHold'
  <2>0. \A x \in Requests : x # r => pc'[x] = pc[x] /\ duty'[x] = duty[x]
    BY <1>2, RequestFrame, RequestKeeps
  <2>1. CASE Acquire(r)
    BY <2>0, <2>1 DEF Acquire, Goto, routineVars
  <2>2. CASE CheckUnderLock(r)
    <3>0. duty' = duty /\ pc[r] = "locked"
      BY <2>2 DEF CheckUnderLock, routineVars
    <3>1. CASE HasAsset
      <4>1. \A x \in Requests : x # r => ~Owns(x)
        BY <3>0
      <4>2. pc'[r] = ServeOutcome
        BY <2>2, <3>1 DEF CheckUnderLock, Serve, Goto
      <4>3. pc'[r] \notin {"idle", "coord", "lock", "poll", "locked", "create"}
        BY <4>2 DEF ServeOutcome
      <4> QED
        BY <2>0, <3>0, <4>1, <4>3
    <3>2. CASE ~HasAsset
      BY <2>0, <2>2, <3>0, <3>2 DEF CheckUnderLock, Goto, lockVars
    <3> QED
      BY <3>1, <3>2
  <2>3. CASE CreateJob(r)
    BY <2>0, <2>3 DEF CreateJob, Goto, lockVars
  <2>4. CASE AwaitStart(r) \/ AbandonAwait(r)
    BY <2>0, <2>4 DEF AwaitStart, AbandonAwait, StopAwaiting, Goto, lockVars
  <2>5. CASE ReleaseLock(r)
    <3>1. \A x \in Requests : x # r => ~Owns(x)
      BY <2>5 DEF ReleaseLock
    <3>2. pc' = pc /\ duty'[r] = "ended" /\ pc[r] \notin {"idle", "coord", "lock", "poll", "locked", "create"}
      BY <2>5 DEF ReleaseLock, requestVars
    <3> QED
      BY <2>0, <3>1, <3>2
  <2>6. CASE ~(\/ Acquire(r) \/ CheckUnderLock(r) \/ CreateJob(r)
               \/ AwaitStart(r) \/ AbandonAwait(r) \/ ReleaseLock(r))
    <3>0. ServeOutcome \notin {"idle", "coord", "lock", "poll", "locked", "create"}
      BY DEF ServeOutcome
    <3>1. lock' = lock /\ held' = held /\ duty' = duty
      BY <1>2, <2>6 DEF Streaming, RequestStep, ClientLeaves, Get, Progressive,
             ProgressiveTimeout, FindJob, AcquireFails, PollHit, PollTimeout, Join,
             PreferStore, StartStream, GiveUp, LoopHead, WakeUp, Copy, CopyFails, EndStream,
             lockVars, routineVars
    <3>2. /\ pc'[r] \notin {"idle", "locked", "create"}
          /\ pc'[r] \in {"coord", "lock", "poll"} => pc[r] \in {"idle", "coord", "lock"}
      BY <1>2, <2>6, <3>0 DEF Streaming, RequestStep, ClientLeaves, Get, Progressive,
             ProgressiveTimeout, FindJob, AcquireFails, PollHit, PollTimeout, Join, Goto, Serve,
             PreferStore, StartStream, GiveUp, LoopHead, WakeUp, Copy, CopyFails, EndStream
    <3> QED
      BY <2>0, <3>1, <3>2
  <2> QED
    BY <2>1, <2>2, <2>3, <2>4, <2>5, <2>6
<1>3. ASSUME NEW d \in Requests, PullStep(d) \/ ChunkerStep(d) \/ CleanupStep(d)
      PROVE  OwnersHold'
  BY <1>3, DownloadFrame, DownloadKeeps
<1>4. ASSUME NEW s \in Servers, Crash(s) PROVE OwnersHold'
  <2>1. \A x \in Requests : ServerOf[x] = s =>
          /\ pc'[x] \notin {"locked", "create"} /\ duty'[x] \notin {"owed", "waiting"}
          /\ duty[x] = "none" => duty'[x] = "none"
          /\ pc'[x] \in {"idle", "coord", "lock", "poll", "locked", "create"} => pc'[x] = pc[x]
    BY <1>4 DEF Crash, Final
  <2>2. \A x \in Requests : ServerOf[x] # s =>
          pc'[x] = pc[x] /\ duty'[x] = duty[x] /\ held'[ServerOf[x]] = held[ServerOf[x]]
    BY <1>4 DEF Crash
  <2>3. Distributed => lock' = lock
    BY <1>4 DEF Crash
  <2>4. ~Distributed => \A x \in Requests : ServerOf[x] = s
    OBVIOUS
  <2> QED
    BY <2>1, <2>2, <2>3, <2>4
<1>5. CASE DeadLockExpires
  <2>1. \A x \in Requests : ~Owns(x)
    BY <1>5 DEF DeadLockExpires
  <2> QED
    BY <1>5, <2>1 DEF DeadLockExpires, routineVars, requestVars
<1>6. CASE RowGoesStale
  BY <1>6 DEF RowGoesStale, lockVars, routineVars, requestVars
<1> QED
  BY <1>1, <1>2, <1>3, <1>4, <1>5, <1>6 DEF Next, Environment, LiveLockExpires

-----------------------------------------------------------------------------
(* Handing the NAR over.                                                   *)

\* The mode decides who stores the NAR.
ModeOrder ==
    \A d \in Requests :
        /\ ~CDC => cdc[d] = "none"
        /\ CDC => pull[d] \notin {"store", "record"}
        /\ Mode = "pipe" /\ pull[d] = "stream" => cdc[d] # "none"
        /\ pull[d] = "close" => cdc[d] = "none"

\* A download that is over, or that the chunker has taken, has failed or is stored.
HandedOver ==
    \A d \in Requests :
        /\ pull[d] = "none" => ~stored[d] /\ ~done[d]
        /\ \/ done[d]
           \/ cdc[d] \in {"chunk", "leave", "unlist", "close"}
           \/ pull[d] \in {"finish", "close"} /\ cdc[d] = "none"
           => failed[d] \/ stored[d]
        /\ ~CDC /\ (stored[d] \/ pull[d] = "record") => file

\* Every step keeps ModeOrder.
LEMMA ModeOrderStep == IInv /\ ModeOrder /\ [Next]_vars => ModeOrder'
<1> SUFFICES ASSUME IInv, ModeOrder, [Next]_vars PROVE ModeOrder'
  OBVIOUS
<1> USE NarDownloadAssumption DEF IInv, TypeOK, ModeOrder, CDC
<1>1. CASE UNCHANGED vars
  BY <1>1 DEF vars, routineVars
<1>2. ASSUME NEW r \in Requests, Get(r) \/ RequestStep(r) \/ ClientLeaves(r) \/ ReleaseLock(r)
      PROVE  ModeOrder'
  <2>1. CASE CreateJob(r)
    BY <2>1 DEF CreateJob
  <2> QED
    BY <1>2, <2>1, RequestFrame
<1>3. ASSUME NEW d \in Requests, PullStep(d) \/ ChunkerStep(d) \/ CleanupStep(d)
      PROVE  ModeOrder'
  <2>1. /\ ~CDC => cdc'[d] = "none"
        /\ CDC => pull'[d] \notin {"store", "record"}
        /\ Mode = "pipe" /\ pull'[d] = "stream" => cdc'[d] # "none"
    BY <1>3 DEF PullStep, ChunkerStep, CleanupStep, FetchOk, FetchFails, TempOk, TempFails,
             Write, Eof, StreamFails, StoreNar, RecordNar, StoreFails, LeaveToChunker,
             UnlistJob, CloseJob, RecordChunking, RecordChunkingFails, ChunkBlock,
             ChunkingEnds, ChunkingFails, ChunkerLeaves, ChunkerUnlists, ChunkerCloses,
             CloseReaders, RemoveTemp, PullFails, ChunkingAborted, Broadcast,
             storageVars, lockVars, stateVars, routineVars, requestVars
  <2>2. pull'[d] = "close" => cdc'[d] = "none"
    BY <1>3 DEF PullStep, ChunkerStep, CleanupStep, FetchOk, FetchFails, TempOk, TempFails,
             Write, Eof, StreamFails, StoreNar, RecordNar, StoreFails, LeaveToChunker,
             UnlistJob, CloseJob, RecordChunking, RecordChunkingFails, ChunkBlock,
             ChunkingEnds, ChunkingFails, ChunkerLeaves, ChunkerUnlists, ChunkerCloses,
             CloseReaders, RemoveTemp, PullFails, ChunkingAborted, Broadcast,
             storageVars, lockVars, stateVars, routineVars, requestVars
  <2> QED
    BY <1>3, <2>1, <2>2, DownloadFrame
<1>4. ASSUME NEW s \in Servers, Crash(s) PROVE ModeOrder'
  BY <1>4 DEF Crash
<1>5. CASE DeadLockExpires \/ LiveLockExpires \/ RowGoesStale
  BY <1>5 DEF DeadLockExpires, LiveLockExpires, RowGoesStale, routineVars
<1> QED
  BY <1>1, <1>2, <1>3, <1>4, <1>5 DEF Next, Environment

\* Every step keeps HandedOver.
LEMMA HandedOverStep == IInv /\ ModeOrder /\ HandedOver /\ [Next]_vars => HandedOver'
<1> SUFFICES ASSUME IInv, ModeOrder, HandedOver, [Next]_vars PROVE HandedOver'
  OBVIOUS
<1> USE NarDownloadAssumption DEF IInv, TypeOK, HandedOver
<1>1. CASE UNCHANGED vars
  BY <1>1 DEF vars, storageVars, stateVars, routineVars
<1>2. ASSUME NEW r \in Requests, Get(r) \/ RequestStep(r) \/ ClientLeaves(r) \/ ReleaseLock(r)
      PROVE  HandedOver'
  <2>1. CASE CreateJob(r)
    <3>1. pull[r] = "none" /\ cdc[r] = "none" /\ ~stored[r] /\ ~done[r]
      BY <2>1 DEF CreateJob, NotYet
    <3>2. pull'[r] \in {"none", "fetch"} /\ file' = file
      BY <2>1, <3>1 DEF CreateJob, storageVars
    <3>3. cdc' = cdc /\ stored' = stored /\ done' = done /\ failed' = failed
      BY <1>2, RequestFrame, RequestKeeps
    <3> QED
      BY <1>2, <3>1, <3>2, <3>3, RequestFrame
  <2> QED
    BY <1>2, <2>1, RequestFrame, RequestKeeps
<1>3. ASSUME NEW d \in Requests, PullStep(d) \/ ChunkerStep(d) \/ CleanupStep(d)
      PROVE  HandedOver'
  <2>1. pull'[d] # "none"
    <3>1. pull[d] # "none"
      BY <1>3, DownloadFrame DEF ChunkerStartsOnce, CleanupStep, CloseReaders, RemoveTemp, ClosedAfterAll
    <3> QED
      BY <1>3, <3>1 DEF PullStep, ChunkerStep, CleanupStep, FetchOk, FetchFails, TempOk, TempFails,
             Write, Eof, StreamFails, StoreNar, RecordNar, StoreFails, LeaveToChunker,
             UnlistJob, CloseJob, RecordChunking, RecordChunkingFails, ChunkBlock,
             ChunkingEnds, ChunkingFails, ChunkerLeaves, ChunkerUnlists, ChunkerCloses,
             CloseReaders, RemoveTemp, PullFails, ChunkingAborted, Broadcast,
             storageVars, lockVars, stateVars, routineVars, requestVars
  <2>2. \/ done'[d]
        \/ cdc'[d] \in {"chunk", "leave", "unlist", "close"}
        \/ pull'[d] \in {"finish", "close"} /\ cdc'[d] = "none"
        => failed'[d] \/ stored'[d]
    <3>1. CASE PullStep(d)
      BY <3>1 DEF ModeOrder, CDC, ChunkerStartsOnce, PullStep, ChunkerStep, CleanupStep, FetchOk, FetchFails, TempOk, TempFails,
             Write, Eof, StreamFails, StoreNar, RecordNar, StoreFails, LeaveToChunker,
             UnlistJob, CloseJob, RecordChunking, RecordChunkingFails, ChunkBlock,
             ChunkingEnds, ChunkingFails, ChunkerLeaves, ChunkerUnlists, ChunkerCloses,
             CloseReaders, RemoveTemp, PullFails, ChunkingAborted, Broadcast,
             storageVars, lockVars, stateVars, routineVars, requestVars
    <3>2. CASE ChunkerStep(d)
      BY <3>2 DEF ModeOrder, CDC, ChunkerStartsOnce, PullStep, ChunkerStep, CleanupStep, FetchOk, FetchFails, TempOk, TempFails,
             Write, Eof, StreamFails, StoreNar, RecordNar, StoreFails, LeaveToChunker,
             UnlistJob, CloseJob, RecordChunking, RecordChunkingFails, ChunkBlock,
             ChunkingEnds, ChunkingFails, ChunkerLeaves, ChunkerUnlists, ChunkerCloses,
             CloseReaders, RemoveTemp, PullFails, ChunkingAborted, Broadcast,
             storageVars, lockVars, stateVars, routineVars, requestVars
    <3>3. CASE CleanupStep(d)
      BY <3>3 DEF CleanupStep, CloseReaders, RemoveTemp
    <3> QED
      BY <1>3, <3>1, <3>2, <3>3
  <2>3. ~CDC /\ (stored'[d] \/ pull'[d] = "record") => file'
    BY <1>3 DEF ModeOrder, PullStep, ChunkerStep, CleanupStep, FetchOk, FetchFails, TempOk, TempFails,
             Write, Eof, StreamFails, StoreNar, RecordNar, StoreFails, LeaveToChunker,
             UnlistJob, CloseJob, RecordChunking, RecordChunkingFails, ChunkBlock,
             ChunkingEnds, ChunkingFails, ChunkerLeaves, ChunkerUnlists, ChunkerCloses,
             CloseReaders, RemoveTemp, PullFails, ChunkingAborted, Broadcast,
             storageVars, lockVars, stateVars, routineVars, requestVars
  <2> QED
    BY <1>3, <2>1, <2>2, <2>3, DownloadFrame, DownloadKeeps
<1>4. ASSUME NEW s \in Servers, Crash(s) PROVE HandedOver'
  BY <1>4 DEF Crash, storageVars
<1>5. CASE DeadLockExpires \/ LiveLockExpires \/ RowGoesStale
  BY <1>5 DEF DeadLockExpires, LiveLockExpires, RowGoesStale, storageVars, stateVars, routineVars
<1> QED
  BY <1>1, <1>2, <1>3, <1>4, <1>5 DEF Next, Environment

\* Both hold in every state.
LEMMA Ordered == Spec => [](ModeOrder /\ HandedOver)
<1>1. Init => ModeOrder /\ HandedOver
  BY DEF Init, ModeOrder, HandedOver
<1>2. IInv /\ (ModeOrder /\ HandedOver) /\ [Next]_vars => (ModeOrder /\ HandedOver)'
  BY ModeOrderStep, HandedOverStep
<1> QED
  BY <1>1, <1>2, Inductive, PTL DEF Spec

-----------------------------------------------------------------------------
(* One download.                                                           *)

\* Download d asks its upstream or stores what it gets.
Fetching(d) == pull[d] \in {"fetch", "temp", "stream", "store", "record"}

\* Download d is under way and nothing in storage tells the others of it.
Unannounced(d) == (Fetching(d) /\ cdc[d] = "none") \/ cdc[d] = "record"

\* Until its NAR is announced, the request that started a download waits for it
\* with the download lock in its hands.
WaitsForOwn ==
    \A d \in Requests : Unannounced(d) =>
        duty[d] \in {"owed", "waiting"} /\ ds[d] = d /\ ~stored[d] /\ ~done[d]

\* What the check under the lock has found stays true until then.
NotAnnounced ==
    \A r \in Requests : pc[r] = "create" \/ Unannounced(r) =>
        ~(CDC /\ (Marked \/ row = "chunked"))

\* A download that goes on after its NAR was announced is being chunked.
ChunkedMeanwhile ==
    \A d \in Requests : Fetching(d) /\ ~failed[d] => Unannounced(d) \/ cdc[d] = "chunk"

\* The goroutines of a download leave the unannounced state only.
LEMMA UnannouncedBefore ==
    ASSUME IInv, ModeOrder, NEW d \in Requests,
           PullStep(d) \/ ChunkerStep(d) \/ CleanupStep(d), Unannounced(d)'
    PROVE  Unannounced(d) /\ stored'[d] = stored[d] /\ done'[d] = done[d]
<1> USE DEF IInv, TypeOK, Unannounced, Fetching
<1>1. CASE PullStep(d)
  BY <1>1 DEF ModeOrder, ChunkerStartsOnce, PullStep, ChunkerStep, CleanupStep, FetchOk, FetchFails, TempOk, TempFails,
             Write, Eof, StreamFails, StoreNar, RecordNar, StoreFails, LeaveToChunker,
             UnlistJob, CloseJob, RecordChunking, RecordChunkingFails, ChunkBlock,
             ChunkingEnds, ChunkingFails, ChunkerLeaves, ChunkerUnlists, ChunkerCloses,
             CloseReaders, RemoveTemp, PullFails, ChunkingAborted, Broadcast,
             storageVars, lockVars, stateVars, routineVars, requestVars
<1>2. CASE ChunkerStep(d)
  BY <1>2 DEF ModeOrder, ChunkerStartsOnce, PullStep, ChunkerStep, CleanupStep, FetchOk, FetchFails, TempOk, TempFails,
             Write, Eof, StreamFails, StoreNar, RecordNar, StoreFails, LeaveToChunker,
             UnlistJob, CloseJob, RecordChunking, RecordChunkingFails, ChunkBlock,
             ChunkingEnds, ChunkingFails, ChunkerLeaves, ChunkerUnlists, ChunkerCloses,
             CloseReaders, RemoveTemp, PullFails, ChunkingAborted, Broadcast,
             storageVars, lockVars, stateVars, routineVars, requestVars
<1>3. CASE CleanupStep(d)
  BY <1>3 DEF CleanupStep, CloseReaders, RemoveTemp, routineVars
<1> QED
  BY <1>1, <1>2, <1>3

\* Every step keeps WaitsForOwn.
LEMMA WaitsForOwnStep ==
    IInv /\ ModeOrder /\ HandedOver /\ WaitsForOwn /\ [Next]_vars => WaitsForOwn'
<1> SUFFICES ASSUME IInv, ModeOrder, HandedOver, WaitsForOwn, [Next]_vars PROVE WaitsForOwn'
  OBVIOUS
<1> USE NarDownloadAssumption DEF WaitsForOwn
<1>0. TypeOK
  BY DEF IInv
<1>1. CASE UNCHANGED vars
  BY <1>1 DEF vars, stateVars, routineVars, requestVars, Unannounced, Fetching
<1>2. ASSUME NEW r \in Requests, Get(r) \/ RequestStep(r) \/ ClientLeaves(r) \/ ReleaseLock(r)
      PROVE  WaitsForOwn'
  <2>0. \A x \in Requests : x # r => (Unannounced(x)' <=> Unannounced(x))
    BY <1>0, <1>2, RequestFrame DEF Unannounced, Fetching
  <2>1. CASE CreateJob(r)
    <3>1. pull[r] = "none" /\ cdc[r] = "none" /\ ~stored[r] /\ ~done[r]
      BY <2>1 DEF CreateJob, IInv, NotYet, HandedOver
    <3>2. Unannounced(r)' => ds'[r] = r /\ duty'[r] = "owed"
      BY <1>0, <2>1, <3>1 DEF CreateJob, Unannounced, Fetching, TypeOK
    <3> QED
      BY <1>0, <1>2, <2>0, <3>1, <3>2, RequestFrame, RequestKeeps
  <2>2. CASE FindJob(r)
    <3>1. ~Unannounced(r)'
      BY <2>2 DEF FindJob, IInv, NotYet, Unannounced, Fetching, routineVars
    <3> QED
      BY <1>0, <1>2, <2>0, <3>1, RequestFrame, RequestKeeps
  <2>3. CASE ReleaseLock(r)
    <3>1. ~Unannounced(r)'
      BY <2>3 DEF ReleaseLock, Unannounced, Fetching
    <3> QED
      BY <1>0, <1>2, <2>0, <3>1, RequestFrame, RequestKeeps
  <2>4. CASE ~CreateJob(r) /\ ~FindJob(r) /\ ~ReleaseLock(r)
    <3>1. duty[r] \in {"owed", "waiting"} => duty'[r] \in {"owed", "waiting"}
      BY <1>0, <1>2, <2>4 DEF TypeOK, RequestStep, ClientLeaves, StopAwaiting, Get, Progressive,
             ProgressiveTimeout, Acquire, AcquireFails, PollHit, PollTimeout,
             CheckUnderLock, AwaitStart, AbandonAwait, Join, PreferStore,
             StartStream, GiveUp, LoopHead, WakeUp, Copy, CopyFails, EndStream, routineVars
    <3>2. Unannounced(r)' <=> Unannounced(r)
      BY <1>0, <1>2, <2>4, RequestFrame DEF Unannounced, Fetching
    <3> QED
      BY <1>0, <1>2, <2>0, <2>4, <3>1, <3>2, RequestFrame, RequestKeeps
  <2> QED
    BY <2>1, <2>2, <2>3, <2>4
<1>3. ASSUME NEW d \in Requests, PullStep(d) \/ ChunkerStep(d) \/ CleanupStep(d)
      PROVE  WaitsForOwn'
  <2>1. \A x \in Requests : x # d => (Unannounced(x)' <=> Unannounced(x))
    BY <1>0, <1>3, DownloadFrame DEF Unannounced, Fetching
  <2> QED
    BY <1>0, <1>3, <2>1, UnannouncedBefore, DownloadFrame, DownloadKeeps
<1>4. ASSUME NEW s \in Servers, Crash(s) PROVE WaitsForOwn'
  BY <1>0, <1>4 DEF Crash, TypeOK, Unannounced, Fetching
<1>5. CASE DeadLockExpires \/ LiveLockExpires \/ RowGoesStale
  BY <1>5 DEF DeadLockExpires, LiveLockExpires, RowGoesStale, stateVars, routineVars,
              requestVars, Unannounced, Fetching
<1> QED
  BY <1>1, <1>2, <1>3, <1>4, <1>5 DEF Next, Environment

\* Every step keeps NotAnnounced: who could announce the NAR holds the lock, too.
LEMMA NotAnnouncedStep ==
    ASSUME "stale" \notin Faults
    PROVE  IInv /\ ModeOrder /\ ChunkerMarksRow /\ OwnersHold /\ WaitsForOwn /\ NotAnnounced
           /\ [Next]_vars => NotAnnounced'
<1> SUFFICES ASSUME IInv, ModeOrder, ChunkerMarksRow, OwnersHold, WaitsForOwn, NotAnnounced,
                    [Next]_vars
             PROVE  NotAnnounced'
  OBVIOUS
<1> USE NarDownloadAssumption DEF NotAnnounced, Marked
<1>0. TypeOK
  BY DEF IInv
<1>1. CASE UNCHANGED vars
  BY <1>1 DEF vars, storageVars, routineVars, requestVars, Unannounced, Fetching
<1>2. ASSUME NEW r \in Requests, Get(r) \/ RequestStep(r) \/ ClientLeaves(r) \/ ReleaseLock(r)
      PROVE  NotAnnounced'
  <2>0. \A x \in Requests : x # r => (Unannounced(x)' <=> Unannounced(x)) /\ pc'[x] = pc[x]
    BY <1>0, <1>2, RequestFrame DEF Unannounced, Fetching
  <2>1. row' \in {"chunking", "left", "chunked"} => row' = row
    BY <1>0, <1>2, RequestKeeps
  <2>2. pc'[r] = "create" => pc[r] = "create" \/ ~HasAsset
    <3>1. ServeOutcome # "create"
      BY DEF ServeOutcome
    <3> QED
      BY <1>0, <1>2, <3>1 DEF TypeOK, RequestStep, ClientLeaves, Goto, Serve, StopAwaiting, Get, Progressive,
             ProgressiveTimeout, FindJob, Acquire, AcquireFails, PollHit, PollTimeout,
             CheckUnderLock, CreateJob, AwaitStart, AbandonAwait, Join, PreferStore,
             StartStream, GiveUp, LoopHead, WakeUp, Copy, CopyFails, EndStream, ReleaseLock,
             storageVars, lockVars, stateVars, routineVars, requestVars
  <2>3. Unannounced(r)' => Unannounced(r) \/ pc[r] = "create"
    BY <1>0, <1>2, RequestFrame DEF Unannounced, Fetching, CreateJob
  <2> QED
    BY <2>0, <2>1, <2>2, <2>3 DEF HasAsset
<1>3. ASSUME NEW d \in Requests, PullStep(d) \/ ChunkerStep(d) \/ CleanupStep(d)
      PROVE  NotAnnounced'
  <2>0. /\ \A x \in Requests : Unannounced(x)' => Unannounced(x)
        /\ \A x \in Requests : pc'[x] = "create" => pc[x] = "create"
    BY <1>0, <1>3, DownloadFrame, UnannouncedBefore DEF Unannounced, Fetching
  <2>1. CASE RecordChunking(d)
    <3>1. Unannounced(d) /\ duty[d] \in {"owed", "waiting"}
      BY <2>1 DEF RecordChunking, Unannounced, WaitsForOwn
    <3>2. \A x \in Requests : pc[x] = "create" \/ Unannounced(x) => x = d
      BY <3>1 DEF OwnersHold, Owns, WaitsForOwn
    <3>3. pc[d] # "create" /\ ~Unannounced(d)'
      BY <1>0, <2>1 DEF RecordChunking, IInv, NotYet, Unannounced, Fetching, TypeOK
    <3> QED
      BY <2>0, <3>2, <3>3
  <2>2. CASE cdc[d] = "chunk"
    BY <2>0, <2>2 DEF ChunkerMarksRow, ModeOrder
  <2>3. CASE ~RecordChunking(d) /\ cdc[d] # "chunk"
    <3>1. row' \in {"chunking", "left", "chunked"} => row' = row
      BY <1>3, <2>3 DEF PullStep, ChunkerStep, CleanupStep, FetchOk, FetchFails, TempOk, TempFails,
             Write, Eof, StreamFails, StoreNar, RecordNar, StoreFails, LeaveToChunker,
             UnlistJob, CloseJob, RecordChunking, RecordChunkingFails, ChunkBlock,
             ChunkingEnds, ChunkingFails, ChunkerLeaves, ChunkerUnlists, ChunkerCloses,
             CloseReaders, RemoveTemp, PullFails, ChunkingAborted, Broadcast,
             storageVars, lockVars, stateVars, routineVars, requestVars
    <3> QED
      BY <2>0, <3>1
  <2> QED
    BY <2>1, <2>2, <2>3
<1>4. ASSUME NEW s \in Servers, Crash(s) PROVE NotAnnounced'
  BY <1>0, <1>4 DEF Crash, storageVars, TypeOK, Unannounced, Fetching
<1>5. CASE DeadLockExpires \/ LiveLockExpires
  BY <1>5 DEF DeadLockExpires, LiveLockExpires, storageVars, routineVars, requestVars,
              Unannounced, Fetching
<1> QED
  BY <1>1, <1>2, <1>3, <1>4, <1>5 DEF Next, Environment, RowGoesStale

\* Every step keeps ChunkedMeanwhile.
LEMMA ChunkedMeanwhileStep ==
    IInv /\ ModeOrder /\ PublishedAtEnd /\ NotAnnounced /\ ChunkedMeanwhile /\ [Next]_vars
    => ChunkedMeanwhile'
<1> SUFFICES ASSUME IInv, ModeOrder, PublishedAtEnd, NotAnnounced, ChunkedMeanwhile, [Next]_vars
             PROVE  ChunkedMeanwhile'
  OBVIOUS
<1> USE NarDownloadAssumption DEF ChunkedMeanwhile, Unannounced, Fetching
<1>0. TypeOK
  BY DEF IInv
<1>1. CASE UNCHANGED vars
  BY <1>1 DEF vars, stateVars, routineVars
<1>2. ASSUME NEW r \in Requests, Get(r) \/ RequestStep(r) \/ ClientLeaves(r) \/ ReleaseLock(r)
      PROVE  ChunkedMeanwhile'
  <2>1. CASE CreateJob(r)
    <3>1. cdc[r] = "none" /\ cdc' = cdc
      BY <1>0, <1>2, <2>1, RequestFrame DEF CreateJob, IInv, NotYet
    <3> QED
      BY <1>0, <1>2, <3>1, RequestFrame
  <2> QED
    BY <1>0, <1>2, <2>1, RequestFrame
<1>3. ASSUME NEW d \in Requests, PullStep(d) \/ ChunkerStep(d) \/ CleanupStep(d)
      PROVE  ChunkedMeanwhile'
  <2> SUFFICES ASSUME Fetching(d)', ~failed'[d] PROVE Unannounced(d)' \/ cdc'[d] = "chunk"
    BY <1>0, <1>3, DownloadFrame
  <2>1. CASE RecordChunking(d)
    BY <1>0, <2>1 DEF RecordChunking, TypeOK, NotAnnounced, ModeOrder
  <2>2. CASE ChunkingEnds(d)
    <3>1. final[d] = 0
      BY <2>2 DEF ChunkingEnds, ModeOrder, PublishedAtEnd, routineVars
    <3>2. Mode = "pipe"
      BY <2>2 DEF ChunkingEnds, IInv, ChunkerStartsOnce, ModeOrder, CDC, routineVars,
                  NarDownloadAssumption
    <3> QED
      BY <2>2, <3>1, <3>2 DEF ChunkingEnds, AtEof
  <2>3. CASE RecordChunkingFails(d) \/ ChunkingFails(d)
    BY <1>0, <2>3 DEF RecordChunkingFails, ChunkingFails, ChunkingAborted, TypeOK
  <2>4. CASE ChunkBlock(d) \/ ChunkerLeaves(d) \/ ChunkerUnlists(d) \/ ChunkerCloses(d)
             \/ CleanupStep(d)
    BY <1>0, <2>4 DEF ChunkBlock, ChunkerLeaves, ChunkerUnlists, ChunkerCloses, CleanupStep,
                      CloseReaders, RemoveTemp, TypeOK, stateVars, routineVars
  <2>5. CASE PullStep(d)
    BY <1>0, <2>5 DEF TypeOK, PullStep, ChunkerStep, CleanupStep, FetchOk, FetchFails, TempOk, TempFails,
             Write, Eof, StreamFails, StoreNar, RecordNar, StoreFails, LeaveToChunker,
             UnlistJob, CloseJob, RecordChunking, RecordChunkingFails, ChunkBlock,
             ChunkingEnds, ChunkingFails, ChunkerLeaves, ChunkerUnlists, ChunkerCloses,
             CloseReaders, RemoveTemp, PullFails, ChunkingAborted, Broadcast,
             storageVars, lockVars, stateVars, routineVars, requestVars
  <2> QED
    BY <1>3, <2>1, <2>2, <2>3, <2>4, <2>5 DEF ChunkerStep
<1>4. ASSUME NEW s \in Servers, Crash(s) PROVE ChunkedMeanwhile'
  BY <1>0, <1>4 DEF Crash, TypeOK
<1>5. CASE DeadLockExpires \/ LiveLockExpires \/ RowGoesStale
  BY <1>5 DEF DeadLockExpires, LiveLockExpires, RowGoesStale, stateVars, routineVars
<1> QED
  BY <1>1, <1>2, <1>3, <1>4, <1>5 DEF Next, Environment

\* The inductive invariant behind SingleDownload and StreamedIsStored.
LockInv ==
    /\ OwnersHold
    /\ WaitsForOwn
    /\ NotAnnounced
    /\ ChunkedMeanwhile

\* LockInv holds as long as no lock is lost to its time limit.
LEMMA LockInductive ==
    ASSUME "expire" \notin Faults, "stale" \notin Faults,
           ~Distributed => \A s, t \in Servers : s = t
    PROVE  Spec => []LockInv
<1>1. Init => LockInv
  <2> SUFFICES ASSUME Init PROVE LockInv
    OBVIOUS
  <2> QED
    BY DEF Init, LockInv, OwnersHold, Owns, WaitsForOwn, NotAnnounced, ChunkedMeanwhile,
           Unannounced, Fetching
<1>2. /\ IInv /\ (ModeOrder /\ HandedOver) /\ (PublishedAtEnd /\ ReadsPublished)
      /\ ChunkerMarksRow /\ LockInv /\ [Next]_vars
      => LockInv'
  BY OwnersHoldStep, WaitsForOwnStep, NotAnnouncedStep, ChunkedMeanwhileStep DEF LockInv, IInv
<1>3. Spec => []ChunkerMarksRow
  BY ChunkerMarks
<1> QED
  BY <1>1, <1>2, <1>3, Inductive, Ordered, Published, PTL DEF Spec

\* The download lock and upstreamJobs let one request fetch a NAR from upstream,
\* over any number of servers, whatever crashes or fails, as long as neither lock
\* (the download lock, the row's chunking lock) is lost to its time limit.
THEOREM OneDownload ==
    ASSUME "expire" \notin Faults, "stale" \notin Faults,
           ~Distributed => \A s, t \in Servers : s = t
    PROVE  Spec => []SingleDownload
<1>1. LockInv /\ ModeOrder /\ ChunkerMarksRow => SingleDownload
  <2> SUFFICES ASSUME LockInv, ModeOrder, ChunkerMarksRow,
                      NEW d \in Requests, NEW e \in Requests,
                      Fetching(d), Fetching(e), ~failed[d], ~failed[e]
               PROVE  d = e
    BY DEF SingleDownload, Fetching
  <2>1. CASE Unannounced(d) /\ Unannounced(e)
    BY <2>1 DEF LockInv, WaitsForOwn, OwnersHold, Owns
  <2>2. CASE cdc[d] = "chunk" /\ cdc[e] = "chunk"
    BY <2>2 DEF ChunkerMarksRow
  <2>3. \A x, y \in Requests : ~(Unannounced(x) /\ cdc[y] = "chunk")
    BY DEF LockInv, NotAnnounced, ModeOrder, ChunkerMarksRow, Marked
  <2> QED
    BY <2>1, <2>2, <2>3 DEF LockInv, ChunkedMeanwhile
<1>2. Spec => []ChunkerMarksRow
  BY ChunkerMarks
<1> QED
  BY <1>1, <1>2, LockInductive, Ordered, PTL

-----------------------------------------------------------------------------
(* What a finished stream leaves in storage.                               *)

\* A NAR whose chunking was announced stays announced: by its own chunker, then
\* by its chunks.  Only an eager download of an empty body ends without chunks.
StoredMarked ==
    \A d \in Requests : CDC /\ stored[d] /\ ~failed[d] =>
        \/ row \in {"chunking", "chunked"} /\ \A e \in Requests : cdc[e] = "chunk" => e = d
        \/ final[d] = 0 /\ Mode = "eager" /\ pull[d] \notin {"none", "fetch", "temp", "stream"}

\* A stream ends after ds.stored or ds.done.
EndedAfterStored ==
    \A r \in Requests : pc[r] = "full" => stored[ds[r]] \/ done[ds[r]]

\* Every step keeps StoredMarked.
LEMMA StoredMarkedStep ==
    ASSUME "stale" \notin Faults
    PROVE  /\ IInv /\ ModeOrder /\ HandedOver /\ PublishedAtEnd /\ ChunkerMarksRow
           /\ NotAnnounced /\ StoredMarked /\ [Next]_vars
           => StoredMarked'
<1> SUFFICES ASSUME IInv, ModeOrder, HandedOver, PublishedAtEnd, ChunkerMarksRow,
                    NotAnnounced, StoredMarked, [Next]_vars
             PROVE  StoredMarked'
  OBVIOUS
<1> USE NarDownloadAssumption DEF StoredMarked, CDC
<1>0. TypeOK
  BY DEF IInv
<1>1. CASE UNCHANGED vars
  BY <1>1 DEF vars, storageVars, stateVars, routineVars
<1>2. ASSUME NEW r \in Requests, Get(r) \/ RequestStep(r) \/ ClientLeaves(r) \/ ReleaseLock(r)
      PROVE  StoredMarked'
  <2>1. stored[r] => pull'[r] = pull[r]
    BY <1>2, RequestFrame DEF CreateJob, IInv, NotYet, HandedOver, TypeOK
  <2>2. row \in {"chunking", "chunked"} => row' = row
    BY <1>2, <1>0, RequestKeeps
  <2> QED
    BY <1>0, <1>2, <2>1, <2>2, RequestFrame, RequestKeeps
<1>3. ASSUME NEW d \in Requests, PullStep(d) \/ ChunkerStep(d) \/ CleanupStep(d)
      PROVE  StoredMarked'
  <2>1. CASE RecordChunking(d)
    <3>1. CDC /\ row \notin {"chunking", "left", "chunked"}
      BY <2>1 DEF RecordChunking, NotAnnounced, Unannounced, ModeOrder, Marked
    <3>2. row' = "chunking" /\ \A e \in Requests : cdc[e] # "chunk"
      BY <2>1, <3>1 DEF RecordChunking, ChunkerMarksRow, Marked
    <3>3. pull' = pull /\ final' = final /\ failed' = failed
      BY <2>1 DEF RecordChunking
    <3> QED
      BY <1>0, <1>3, <3>1, <3>2, <3>3, DownloadFrame, DownloadKeeps
  <2>2. CASE ChunkingEnds(d) \/ ChunkingFails(d)
    <3>1. /\ cdc[d] = "chunk" /\ stored' = stored /\ pull' = pull /\ final' = final
          /\ \A e \in Requests : cdc[e] = "chunk" => e = d
      BY <2>2 DEF ChunkingEnds, ChunkingFails, ChunkerMarksRow
    <3>2. cdc'[d] = "leave" /\ \A e \in Requests : cdc'[e] # "chunk"
      BY <1>0, <1>3, <2>2, <3>1, DownloadFrame DEF ChunkingEnds, ChunkingFails, ChunkingAborted, TypeOK
    <3>3. \/ failed'[d]
          \/ row' = "chunked"
          \/ final[d] = 0 /\ Mode = "eager" /\ pull[d] \notin {"none", "fetch", "temp", "stream"}
      <4>1. CASE ChunkingFails(d)
        BY <1>0, <4>1 DEF ChunkingFails, ChunkingAborted, TypeOK
      <4>2. CASE ChunkingEnds(d)
        <5>1. failed'[d] \/ row' = "chunked" \/ offset[d] = 0
          BY <1>0, <4>2 DEF ChunkingEnds, ChunkingAborted, TypeOK
        <5>2. offset[d] = 0 => final[d] = 0
          BY <4>2 DEF ChunkingEnds, AtEof, PublishedAtEnd
        <5>3. final[d] = 0 => Mode = "eager"
          BY <3>1, <4>2 DEF ChunkingEnds, AtEof, ModeOrder
        <5>4. Mode = "eager" => pull[d] \notin {"none", "fetch", "temp", "stream"}
          BY <3>1 DEF IInv, ChunkerStartsOnce
        <5> QED
          BY <5>1, <5>2, <5>3, <5>4
      <4> QED
        BY <2>2, <4>1, <4>2
    <3>4. \A x \in Requests : x # d /\ stored'[x] /\ ~failed'[x] /\ CDC =>
            final[x] = 0 /\ Mode = "eager" /\ pull[x] \notin {"none", "fetch", "temp", "stream"}
      BY <1>0, <1>3, <3>1, DownloadFrame
    <3> QED
      BY <3>1, <3>2, <3>3, <3>4
  <2>3. CASE ~RecordChunking(d) /\ ~ChunkingEnds(d) /\ ~ChunkingFails(d)
    <3>1. row \in {"chunking", "chunked"} => row' = row
      BY <1>3, <2>3 DEF PullStep, ChunkerStep, CleanupStep, FetchOk, FetchFails, TempOk, TempFails,
             Write, Eof, StreamFails, StoreNar, RecordNar, StoreFails, LeaveToChunker,
             UnlistJob, CloseJob, RecordChunking, RecordChunkingFails, ChunkBlock,
             ChunkingEnds, ChunkingFails, ChunkerLeaves, ChunkerUnlists, ChunkerCloses,
             CloseReaders, RemoveTemp, PullFails, ChunkingAborted, Broadcast,
             storageVars, lockVars, stateVars, routineVars, requestVars
    <3>2. cdc'[d] = "chunk" => cdc[d] = "chunk"
      BY <1>0, <1>3, <2>3 DEF TypeOK, PullStep, ChunkerStep, CleanupStep, FetchOk, FetchFails, TempOk, TempFails,
             Write, Eof, StreamFails, StoreNar, RecordNar, StoreFails, LeaveToChunker,
             UnlistJob, CloseJob, RecordChunking, RecordChunkingFails, ChunkBlock,
             ChunkingEnds, ChunkingFails, ChunkerLeaves, ChunkerUnlists, ChunkerCloses,
             CloseReaders, RemoveTemp, PullFails, ChunkingAborted, Broadcast,
             storageVars, lockVars, stateVars, routineVars, requestVars
    <3>3. failed[d] => failed'[d]
      BY <1>0, <1>3, <2>3 DEF TypeOK, PullStep, ChunkerStep, CleanupStep, FetchOk, FetchFails, TempOk, TempFails,
             Write, Eof, StreamFails, StoreNar, RecordNar, StoreFails, LeaveToChunker,
             UnlistJob, CloseJob, RecordChunking, RecordChunkingFails, ChunkBlock,
             ChunkingEnds, ChunkingFails, ChunkerLeaves, ChunkerUnlists, ChunkerCloses,
             CloseReaders, RemoveTemp, PullFails, ChunkingAborted, Broadcast,
             storageVars, lockVars, stateVars, routineVars, requestVars
    <3>4. CDC => stored'[d] = stored[d]
      BY <1>3, <2>3 DEF ModeOrder, PullStep, ChunkerStep, CleanupStep, FetchOk, FetchFails, TempOk, TempFails,
             Write, Eof, StreamFails, StoreNar, RecordNar, StoreFails, LeaveToChunker,
             UnlistJob, CloseJob, RecordChunking, RecordChunkingFails, ChunkBlock,
             ChunkingEnds, ChunkingFails, ChunkerLeaves, ChunkerUnlists, ChunkerCloses,
             CloseReaders, RemoveTemp, PullFails, ChunkingAborted, Broadcast,
             storageVars, lockVars, stateVars, routineVars, requestVars
    <3>5. pull[d] \notin {"none", "fetch", "temp", "stream"}
          => pull'[d] \notin {"none", "fetch", "temp", "stream"} /\ final'[d] = final[d]
      BY <1>0, <1>3, <2>3 DEF TypeOK, PullStep, ChunkerStep, CleanupStep, FetchOk, FetchFails, TempOk, TempFails,
             Write, Eof, StreamFails, StoreNar, RecordNar, StoreFails, LeaveToChunker,
             UnlistJob, CloseJob, RecordChunking, RecordChunkingFails, ChunkBlock,
             ChunkingEnds, ChunkingFails, ChunkerLeaves, ChunkerUnlists, ChunkerCloses,
             CloseReaders, RemoveTemp, PullFails, ChunkingAborted, Broadcast,
             storageVars, lockVars, stateVars, routineVars, requestVars
    <3> QED
      BY <1>0, <1>3, <3>1, <3>2, <3>3, <3>4, <3>5, DownloadFrame, DownloadKeeps
  <2> QED
    BY <2>1, <2>2, <2>3
<1>4. ASSUME NEW s \in Servers, Crash(s) PROVE StoredMarked'
  BY <1>0, <1>4 DEF Crash, storageVars, TypeOK
<1>5. CASE DeadLockExpires \/ LiveLockExpires
  BY <1>5 DEF DeadLockExpires, LiveLockExpires, storageVars, stateVars, routineVars
<1> QED
  BY <1>1, <1>2, <1>3, <1>4, <1>5 DEF Next, Environment, RowGoesStale

\* Every step keeps EndedAfterStored.
LEMMA EndedAfterStoredStep ==
    IInv /\ ReadsPublished /\ EndedAfterStored /\ [Next]_vars => EndedAfterStored'
<1> SUFFICES ASSUME IInv, ReadsPublished, EndedAfterStored, [Next]_vars PROVE EndedAfterStored'
  OBVIOUS
<1> USE NarDownloadAssumption DEF EndedAfterStored
<1>0. TypeOK
  BY DEF IInv
<1>1. CASE UNCHANGED vars
  BY <1>1 DEF vars, stateVars, requestVars
<1>2. ASSUME NEW r \in Requests, Get(r) \/ RequestStep(r) \/ ClientLeaves(r) \/ ReleaseLock(r)
      PROVE  EndedAfterStored'
  <2>0. ServeOutcome # "full"
    BY DEF ServeOutcome
  <2>1. pc'[r] = "full" => ds' = ds /\ (pc[r] = "full" \/ EndStream(r))
    <3>1. CASE ReleaseLock(r)
      BY <3>1 DEF ReleaseLock, requestVars
    <3>2. CASE EndStream(r)
      BY <3>2 DEF EndStream
    <3>3. pc'[r] = "full" => EndStream(r) \/ ReleaseLock(r)
      BY <1>0, <1>2, <2>0 DEF TypeOK, RequestStep, ClientLeaves, Goto, Serve,
             StopAwaiting, Get, Progressive, ProgressiveTimeout, FindJob, Acquire,
             AcquireFails, PollHit, PollTimeout, CheckUnderLock, CreateJob, AwaitStart,
             AbandonAwait, Join, PreferStore, StartStream, GiveUp, LoopHead, WakeUp, Copy,
             CopyFails
    <3> QED
      BY <3>1, <3>2, <3>3
  <2> QED
    BY <1>0, <1>2, <2>1, RequestFrame, RequestKeeps DEF EndStream
<1>3. ASSUME NEW d \in Requests, PullStep(d) \/ ChunkerStep(d) \/ CleanupStep(d)
      PROVE  EndedAfterStored'
  <2>1. (stored[d] => stored'[d]) /\ (done[d] => done'[d])
    BY <1>0, <1>3 DEF TypeOK, PullStep, ChunkerStep, CleanupStep, FetchOk, FetchFails, TempOk, TempFails,
             Write, Eof, StreamFails, StoreNar, RecordNar, StoreFails, LeaveToChunker,
             UnlistJob, CloseJob, RecordChunking, RecordChunkingFails, ChunkBlock,
             ChunkingEnds, ChunkingFails, ChunkerLeaves, ChunkerUnlists, ChunkerCloses,
             CloseReaders, RemoveTemp, PullFails, ChunkingAborted, Broadcast,
             storageVars, lockVars, stateVars, routineVars, requestVars
  <2>2. \A r \in Requests : pc[r] = "full" => ds[r] \in Requests
    BY DEF ReadsPublished
  <2> QED
    BY <1>0, <1>3, <2>1, <2>2, DownloadFrame, DownloadKeeps
<1>4. ASSUME NEW s \in Servers, Crash(s) PROVE EndedAfterStored'
  BY <1>0, <1>4 DEF Crash, TypeOK
<1>5. CASE DeadLockExpires \/ LiveLockExpires \/ RowGoesStale
  BY <1>5 DEF DeadLockExpires, LiveLockExpires, RowGoesStale, stateVars, requestVars
<1> QED
  BY <1>1, <1>2, <1>3, <1>4, <1>5 DEF Next, Environment

\* It holds in every state.
LEMMA EndedStored == Spec => []EndedAfterStored
<1>1. Init => EndedAfterStored
  BY DEF Init, EndedAfterStored
<1>2. IInv /\ (PublishedAtEnd /\ ReadsPublished) /\ EndedAfterStored /\ [Next]_vars
      => EndedAfterStored'
  BY EndedAfterStoredStep
<1> QED
  BY <1>1, <1>2, Inductive, Published, PTL DEF Spec

\* Without CDC the NAR of a finished stream is in the store or its download is
\* marked failed, whatever crashes, fails or expires.
THEOREM PlainStreamStored ==
    ASSUME Mode = "plain"
    PROVE  Spec => []StreamedIsStored
<1>1. /\ EndedAfterStored /\ (ModeOrder /\ HandedOver) /\ (PublishedAtEnd /\ ReadsPublished)
      => StreamedIsStored
  BY DEF EndedAfterStored, HandedOver, ReadsPublished, StreamedIsStored, CDC
<1> QED
  BY <1>1, EndedStored, Ordered, Published, PTL

\* With CDC it is chunked or being chunked, as long as neither the download lock
\* nor the row's chunking lock is lost to its time limit.
THEOREM ChunkedStreamStored ==
    ASSUME "expire" \notin Faults, "stale" \notin Faults,
           ~Distributed => \A s, t \in Servers : s = t
    PROVE  Spec => []StreamedIsStored
<1>1. Init => StoredMarked
  BY DEF Init, StoredMarked
<1>2. /\ IInv /\ (ModeOrder /\ HandedOver) /\ (PublishedAtEnd /\ ReadsPublished)
      /\ ChunkerMarksRow /\ LockInv /\ StoredMarked /\ [Next]_vars
      => StoredMarked'
  BY StoredMarkedStep DEF LockInv
<1>3. Spec => []ChunkerMarksRow
  BY ChunkerMarks
<1>4. /\ EndedAfterStored /\ (ModeOrder /\ HandedOver) /\ (PublishedAtEnd /\ ReadsPublished)
      /\ StoredMarked
      => StreamedIsStored
  BY DEF EndedAfterStored, HandedOver, ReadsPublished, StoredMarked, StreamedIsStored, CDC
<1> QED
  BY <1>1, <1>2, <1>3, <1>4, Inductive, LockInductive, EndedStored, Ordered, Published, PTL
  DEF Spec

=============================================================================
