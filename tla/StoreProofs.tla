---------------------------- MODULE StoreProofs ----------------------------
(***************************************************************************)
(* What the NAR stores, the chunk stores and the selection of an upstream  *)
(* guarantee for any number of callers, processes and upstreams and any    *)
(* number of crashes and failures.                                         *)
(***************************************************************************)
EXTENDS Services, FiniteSetTheorems, TLAPS

\* Cardinality is the same in the modules Services takes instances of.
LEMMA CardinalityInInstances ==
    ASSUME NEW S
    PROVE  Chunks!Cardinality(S) = Cardinality(S) /\ Race!Cardinality(S) = Cardinality(S)
  BY DEF Cardinality, Chunks!Cardinality, Race!Cardinality

-----------------------------------------------------------------------------
(* The NAR and narinfo stores.                                             *)

\* A NAR is whole before it is renamed, so the name has a whole NAR or none, and
\* what a caller reads was under the name when it was opened.
StoreInv ==
    /\ file \in [Store!Kinds -> {None, "whole"} \cup Processes]
    /\ temp \in [Processes -> {None, "whole"} \cup Processes]
    /\ pc \in [Processes -> Store!Steps]
    /\ kind \in [Processes -> Store!Kinds]
    /\ got \in [Processes -> {None, "whole"} \cup Processes]
    /\ file["nar"] \in {None, "whole"}
    /\ \A p \in Processes :
         /\ pc[p] = "rename" => temp[p] \in {None, "whole"}
         /\ got[p] # None => pc[p] = "reading"
         /\ kind[p] = "nar" => got[p] \in {None, "whole"}

\* Every step of a store keeps StoreInv.
LEMMA StoreInvStep == StoreInv /\ Store!Next => StoreInv'
<1> SUFFICES ASSUME StoreInv, NEW p \in Processes, Store!Step(p) PROVE StoreInv'
  BY DEF Store!Next
<1> USE ServicesAssumption
    DEF StoreInv, Store!Goto, Store!At, Store!Kinds, Store!Steps, Store!Calls
<1>1. ASSUME NEW k \in Store!Kinds, NEW call \in Store!Calls, Store!Call(p, k, call)
      PROVE StoreInv'
  BY <1>1 DEF Store!Call
<1>2. ASSUME NEW k \in Store!Kinds, NEW b, NEW call, NEW there \in Store!Steps,
             NEW missing \in Store!Steps, there # "rename", missing # "rename",
             call # "reading", Store!Stat(p, k, b, call, there, missing)
      PROVE StoreInv'
  BY <1>2 DEF Store!Stat
<1>3. CASE \/ Store!PutNar(p) \/ Store!PutNarInfo(p)
           \/ Store!PutNarObject(p) \/ Store!PutNarInfoObject(p)
  <2> HIDE DEF StoreInv
  <2> QED
    BY <1>2, <1>3 DEF Store!PutNar, Store!PutNarInfo, Store!PutNarObject, Store!PutNarInfoObject
<1>4. CASE \/ Store!HasNar(p) \/ Store!HasNarInfo(p)
           \/ Store!HasNarObject(p) \/ Store!HasNarInfoObject(p)
  <2> HIDE DEF StoreInv
  <2> QED
    BY <1>2, <1>4 DEF Store!HasNar, Store!HasNarInfo, Store!HasNarObject, Store!HasNarInfoObject
<1>5. CASE Store!DeleteNarObject(p) \/ Store!DeleteNarInfoObject(p)
  <2> HIDE DEF StoreInv
  <2> QED
    BY <1>2, <1>5 DEF Store!DeleteNarObject, Store!DeleteNarInfoObject
<1>6. ASSUME NEW k \in Store!Kinds, NEW b, Store!Open(p, k, b) PROVE StoreInv'
  BY <1>6 DEF Store!Open
<1>7. CASE \/ Store!GetNar(p) \/ Store!GetNarInfo(p)
           \/ Store!GetNarObject(p) \/ Store!GetNarInfoObject(p)
  BY <1>6, <1>7 DEF Store!GetNar, Store!GetNarInfo, Store!GetNarObject, Store!GetNarInfoObject
<1>8. CASE Store!DeleteNar(p) \/ Store!DeleteNarInfo(p)
  BY <1>8 DEF Store!DeleteNar, Store!DeleteNarInfo, Store!Remove
<1>9. CASE Store!MkdirAll(p) \/ Store!Chmod(p)
  BY <1>9 DEF Store!MkdirAll, Store!Chmod
<1>10. CASE Store!CreateTemp(p)
  BY <1>10 DEF Store!CreateTemp
<1>11. CASE Store!Copy(p) \/ Store!CopyFails(p)
  BY <1>11 DEF Store!Copy, Store!CopyFails
<1>12. CASE Store!Rename(p)
  BY <1>12 DEF Store!Rename
<1>13. CASE Store!CreateNarInfo(p) \/ Store!WriteNarInfo(p)
  BY <1>13 DEF Store!CreateNarInfo, Store!WriteNarInfo
<1>14. CASE Store!PutObject(p) \/ Store!RemoveObject(p)
  BY <1>14 DEF Store!PutObject, Store!RemoveObject
<1>15. CASE Store!Close(p) \/ Store!RemoveDirs(p)
  BY <1>15 DEF Store!Close, Store!RemoveDirs
<1>16. CASE Store!RemoveTmp(p) \/ Store!MakeTmp(p)
  BY <1>16 DEF Store!RemoveTmp, Store!MakeTmp
<1>17. CASE Store!Crash(p)
  BY <1>17 DEF Store!Crash
<1> QED
  BY <1>1, <1>3, <1>4, <1>5, <1>7, <1>8, <1>9, <1>10, <1>11, <1>12, <1>13, <1>14, <1>15,
     <1>16, <1>17 DEF Store!Step

\* NarReadsAreWhole: whoever gets a NAR from a store gets all of it, while others
\* put, delete, start processes that clear store/tmp, and crash.
THEOREM NarReads == Spec => []NarReadsAreWhole
<1>1. Init => (part = "stores" => StoreInv)
  BY DEF Init, Store!Init, StoreInv, Store!Kinds, Store!Steps
<1>2. (part = "stores" => StoreInv) /\ [Next]_vars => (part = "stores" => StoreInv)'
  <2> SUFFICES ASSUME StoreInv, part = "stores", [Next]_vars PROVE StoreInv'
    BY DEF Next, vars
  <2>1. CASE UNCHANGED Store!vars
    BY <2>1 DEF Store!vars, StoreInv
  <2>2. Store!Next \/ UNCHANGED Store!vars
    BY DEF Next, vars, shared, storeVars, Store!vars
  <2> QED
    BY <2>1, <2>2, StoreInvStep
<1>3. (part = "stores" => StoreInv) => NarReadsAreWhole
  BY DEF StoreInv, NarReadsAreWhole, Store!NarReadsAreWhole
<1> QED
  BY <1>1, <1>2, <1>3, PTL DEF Spec

-----------------------------------------------------------------------------
(* The chunk stores.                                                       *)

\* A chunk is whole and has one creator at most; a temporary file that is linked
\* is whole; a caller that puts an object holds the lock and has found no chunk.
ChunkInv ==
    /\ chunk \in {"none", "whole"}
    /\ temps \in [Callers -> Chunks!Contents]
    /\ pc \in [Callers -> Chunks!Steps]
    /\ got \in [Callers -> {"none", "whole"}]
    /\ creators = {} \/ \E p \in Callers : creators = {p}
    /\ chunk = "none" => creators = {}
    /\ \A p \in Callers :
         /\ pc[p] = "link" => temps[p] = "whole"
         /\ pc[p] \in {"create", "write", "link", "unlink", "rmdir"} => backend = "local"
         /\ pc[p] \in {"lock", "look", "put", "unlock"} => backend = "s3"
         /\ pc[p] \in {"look", "put", "unlock"} => lock = p
         /\ pc[p] = "put" => chunk = "none"

\* Every step of a chunk store keeps ChunkInv.
LEMMA ChunkInvStep == ChunkInv /\ Chunks!Next => ChunkInv'
<1> SUFFICES ASSUME ChunkInv, Chunks!Next PROVE ChunkInv'
  OBVIOUS
<1> PICK p \in Callers :
        \/ Chunks!PutChunk(p) \/ Chunks!PutChunkObject(p) \/ Chunks!CreateTemp(p)
        \/ Chunks!WriteTemp(p) \/ Chunks!Link(p) \/ Chunks!RemoveTemp(p)
        \/ Chunks!Lock(p) \/ Chunks!Look(p) \/ Chunks!PutObject(p) \/ Chunks!Unlock(p)
        \/ Chunks!GetChunk(p) \/ Chunks!GetChunkObject(p) \/ Chunks!Close(p)
        \/ Chunks!DeleteChunk(p) \/ Chunks!DeleteChunkObject(p) \/ Chunks!RemoveDir(p)
        \/ Chunks!Crash(p)
  BY DEF Chunks!Next
<1> USE ServicesAssumption DEF ChunkInv, Chunks!Goto, Chunks!Contents, Chunks!Steps
<1>1. CASE Chunks!PutChunk(p) \/ Chunks!PutChunkObject(p)
  BY <1>1 DEF Chunks!PutChunk, Chunks!PutChunkObject
<1>2. CASE Chunks!CreateTemp(p) \/ Chunks!WriteTemp(p)
  BY <1>2 DEF Chunks!CreateTemp, Chunks!WriteTemp
<1>3. CASE Chunks!Link(p)
  BY <1>3 DEF Chunks!Link
<1>4. CASE Chunks!RemoveTemp(p) \/ Chunks!RemoveDir(p)
  BY <1>4 DEF Chunks!RemoveTemp, Chunks!RemoveDir
<1>5. CASE Chunks!Lock(p)
  BY <1>5 DEF Chunks!Lock
<1>6. CASE Chunks!Look(p) \/ Chunks!Unlock(p)
  BY <1>6 DEF Chunks!Look, Chunks!Unlock
<1>7. CASE Chunks!PutObject(p)
  BY <1>7 DEF Chunks!PutObject
<1>8. CASE Chunks!GetChunk(p) \/ Chunks!GetChunkObject(p) \/ Chunks!Close(p)
  BY <1>8 DEF Chunks!GetChunk, Chunks!GetChunkObject, Chunks!Open, Chunks!Close
<1>9. CASE Chunks!DeleteChunk(p) \/ Chunks!DeleteChunkObject(p)
  BY <1>9 DEF Chunks!DeleteChunk, Chunks!DeleteChunkObject, Chunks!Remove
<1>10. CASE Chunks!Crash(p)
  BY <1>10 DEF Chunks!Crash
<1> QED
  BY <1>1, <1>2, <1>3, <1>4, <1>5, <1>6, <1>7, <1>8, <1>9, <1>10

\* CreatedOnce: one caller is told that the chunk is new, by os.Link or under the
\* lock of the S3 store, and what GetChunk reads is complete.
THEOREM ChunkCreatedOnce == Spec => []CreatedOnce
<1>1. Init => (part = "chunks" => ChunkInv)
  BY DEF Init, Chunks!Init, ChunkInv, Chunks!Contents, Chunks!Steps
<1>2. (part = "chunks" => ChunkInv) /\ [Next]_vars => (part = "chunks" => ChunkInv)'
  <2> SUFFICES ASSUME ChunkInv, part = "chunks", [Next]_vars PROVE ChunkInv'
    BY DEF Next, vars
  <2>1. CASE UNCHANGED Chunks!vars
    BY <2>1 DEF Chunks!vars, ChunkInv
  <2>2. Chunks!Next \/ UNCHANGED Chunks!vars
    BY DEF Next, vars, shared, chunkVars, Chunks!vars
  <2> QED
    BY <2>1, <2>2, ChunkInvStep
<1>3. ASSUME ChunkInv PROVE Chunks!CreatedOnce
  <2>1. CASE creators = {}
    BY <1>3, <2>1, FS_EmptySet, CardinalityInInstances DEF ChunkInv, Chunks!CreatedOnce
  <2>2. ASSUME NEW p \in Callers, creators = {p} PROVE Chunks!CreatedOnce
    <3>1. Cardinality(creators) = 1
      BY <2>2, FS_Singleton
    <3> QED
      BY <1>3, <3>1, CardinalityInInstances DEF ChunkInv, Chunks!CreatedOnce
  <2> QED
    BY <1>3, <2>1, <2>2 DEF ChunkInv
<1> QED
  BY <1>1, <1>2, <1>3, PTL DEF Spec, CreatedOnce

-----------------------------------------------------------------------------
(* The selection of an upstream.                                           *)

\* While a request waits, the channel of upstreams holds every yes, and an error
\* received or in the other channel is one that was answered.
RaceInv ==
    /\ added \subseteq Upstreams
    /\ pc \in [Requests -> {"idle", "race", "fetch"} \cup Race!Outcomes]
    /\ asset \in [Requests -> {None, "narinfo", "nar"}]
    /\ answer \in [Requests -> [Upstreams -> Race!Answers]]
    /\ ch \in [Requests -> SUBSET Upstreams]
    /\ errC \in [Requests -> SUBSET Upstreams]
    /\ errs \in [Requests -> SUBSET Upstreams]
    /\ picked \in [Requests -> Upstreams \cup {None}]
    /\ \A r \in Requests :
         /\ pc[r] = "idle" => \A u \in Upstreams : answer[r][u] = "unasked"
         /\ pc[r] = "race" => \A u \in Upstreams : answer[r][u] = "yes" => u \in ch[r]
         /\ \A u \in errC[r] \cup errs[r] : answer[r][u] = "error"
         /\ pc[r] = "fetch" => picked[r] # None
    /\ Race!MissIsUnanimous

\* A call of selectUpstream with any set of upstreams keeps RaceInv.
LEMMA SelectStep ==
    ASSUME RaceInv, NEW r \in Requests, NEW a \in {"narinfo", "nar"},
           NEW ucs \in SUBSET Upstreams, Race!Select(r, a, ucs)
    PROVE  RaceInv'
<1> DEFINE Nobody == ucs = {} /\ Race!Goto(r, "notFound") /\ UNCHANGED <<answer, picked>>
           One == /\ ucs # {} /\ Race!Goto(r, "fetch") /\ UNCHANGED answer
                  /\ picked' = [picked EXCEPT ![r] = CHOOSE u \in ucs : TRUE]
           Many == /\ Race!Goto(r, "race") /\ UNCHANGED picked
                   /\ answer' = [answer EXCEPT ![r] =
                                    [u \in Upstreams |-> IF u \in ucs THEN "asking" ELSE "unasked"]]
<1>1. Nobody \/ One \/ Many
  <2>1. /\ Race!Cardinality(ucs) \in Nat
        /\ Race!Cardinality(ucs) = 0 <=> ucs = {}
    BY ServicesAssumption, FS_Subset, FS_CardinalityType, FS_EmptySet, CardinalityInInstances
  <2>2. CASE ucs = {}
    <3>1. Race!Cardinality(ucs) # 1 /\ ~(Race!Cardinality(ucs) > 1)
      BY <2>1, <2>2
    <3> QED
      BY <2>2, <3>1 DEF Race!Select
  <2>3. CASE ucs # {} /\ Race!Cardinality(ucs) = 1
    <3>1. ~(Race!Cardinality(ucs) > 1)
      BY <2>3
    <3> QED
      BY <2>3, <3>1 DEF Race!Select
  <2>4. CASE ucs # {} /\ Race!Cardinality(ucs) > 1
    <3>1. Race!Cardinality(ucs) # 1
      BY <2>1, <2>4
    <3> QED
      BY <2>4, <3>1 DEF Race!Select
  <2>5. ucs # {} => Race!Cardinality(ucs) = 1 \/ Race!Cardinality(ucs) > 1
    BY <2>1
  <2> QED
    BY <2>2, <2>3, <2>4, <2>5
<1>2. /\ pc[r] = "idle" /\ asset' = [asset EXCEPT ![r] = a]
      /\ UNCHANGED <<added, ch, errC, errs>>
  BY DEF Race!Select, Race!checker
<1>3. errC[r] = {} /\ errs[r] = {}
  <2>1. \A u \in errC[r] \cup errs[r] : u \in Upstreams /\ answer[r][u] = "error"
    BY DEF RaceInv
  <2>2. \A u \in Upstreams : answer[r][u] = "unasked"
    BY <1>2 DEF RaceInv
  <2> QED
    BY <2>1, <2>2
<1> USE ServicesAssumption
    DEF RaceInv, Race!Goto, Race!Outcomes, Race!Answers, Race!MissIsUnanimous
<1>4. CASE Nobody
  BY <1>2, <1>3, <1>4
<1>5. CASE One
  <2>1. (CHOOSE u \in ucs : TRUE) \in Upstreams
    BY <1>5
  <2> QED
    BY <1>2, <1>3, <1>5, <2>1
<1>6. CASE Many
  BY <1>2, <1>3, <1>6
<1> QED
  BY <1>1, <1>4, <1>5, <1>6

\* Every step of the upstreams keeps RaceInv.
LEMMA RaceInvStep == RaceInv /\ Race!Next => RaceInv'
<1> SUFFICES ASSUME RaceInv, Race!Next PROVE RaceInv'
  OBVIOUS
<1> USE ServicesAssumption
    DEF RaceInv, Race!Goto, Race!Outcomes, Race!Answers, Race!MissIsUnanimous,
        Race!checker, Race!request
<1>1. CASE \/ Race!AddUpstreamCaches \/ Race!AddUpstreams \/ Race!StartCheck
           \/ Race!SetHealthy \/ Race!ProcessHealthChange
  BY <1>1 DEF Race!AddUpstreamCaches, Race!AddUpstreams, Race!StartCheck, Race!SetHealthy,
              Race!ProcessHealthChange
<1>2. ASSUME NEW u \in Upstreams, Race!ParsePriority(u) \/ Race!Change(u) PROVE RaceInv'
  BY <1>2 DEF Race!ParsePriority, Race!Change
<1>3. ASSUME NEW r \in Requests, Race!selectNarInfoUpstream(r) \/ Race!selectNarUpstream(r)
      PROVE RaceInv'
  <2>1. Race!getHealthyUpstreams \in SUBSET Upstreams
    BY DEF Race!getHealthyUpstreams
  <2>2. \A uc \in Upstreams : {uc} \in SUBSET Upstreams
    OBVIOUS
  <2> HIDE DEF RaceInv
  <2>3. CASE Race!Select(r, "narinfo", Race!getHealthyUpstreams)
    BY <2>1, <2>3, SelectStep
  <2>4. CASE Race!Select(r, "nar", Race!getHealthyUpstreams)
    BY <2>1, <2>4, SelectStep
  <2>5. ASSUME NEW uc \in Upstreams, Race!Select(r, "nar", {uc}) PROVE RaceInv'
    BY <2>2, <2>5, SelectStep
  <2> QED
    BY <1>3, <2>3, <2>4, <2>5 DEF Race!selectNarInfoUpstream, Race!selectNarUpstream
<1>4. ASSUME NEW r \in Requests, Race!Closed(r) PROVE RaceInv'
  <2>1. /\ pc[r] = "race" /\ \A u \in Upstreams : answer[r][u] \notin {"asking", "yes"}
        /\ pc' = [pc EXCEPT ![r] = IF errs[r] = {} THEN "notFound" ELSE "error"]
        /\ ch' = [ch EXCEPT ![r] = {}] /\ errC' = [errC EXCEPT ![r] = {}]
        /\ errs' = [errs EXCEPT ![r] = {}]
        /\ UNCHANGED <<added, asset, answer, picked>>
    BY <1>4 DEF Race!Closed, Race!Return
  <2>2. errs[r] # {} => \E u \in Upstreams : answer[r][u] = "error"
    OBVIOUS
  <2> QED
    BY <2>1, <2>2
<1>5. ASSUME NEW r \in Requests, Race!Cancel(r) PROVE RaceInv'
  BY <1>5 DEF Race!Cancel, Race!Return
<1>6. ASSUME NEW r \in Requests, Race!GetNarInfo(r) \/ Race!GetNar(r) PROVE RaceInv'
  <2>1. PICK state \in {"found", "notFound", "error"} :
           /\ pc[r] = "fetch" /\ pc' = [pc EXCEPT ![r] = state]
           /\ UNCHANGED <<added, asset, answer, ch, errC, errs, picked>>
    BY <1>6 DEF Race!GetNarInfo, Race!GetNar, Race!Get
  <2> QED
    BY <2>1
<1>7. ASSUME NEW r \in Requests, NEW u \in Upstreams, Race!HasNarInfo(r, u) \/ Race!HasNar(r, u)
      PROVE RaceInv'
  <2>1. PICK answered \in {"yes", "no", "error"} :
           /\ pc[r] = "race" /\ answer[r][u] = "asking"
           /\ answer' = [answer EXCEPT ![r][u] = answered]
           /\ ch' = [ch EXCEPT ![r] = IF answered = "yes" THEN @ \cup {u} ELSE @]
           /\ errC' = [errC EXCEPT ![r] = IF answered = "error" THEN @ \cup {u} ELSE @]
           /\ UNCHANGED <<added, pc, asset, errs, picked>>
    BY <1>7 DEF Race!HasNarInfo, Race!HasNar, Race!Ask
  <2>2. answer' \in [Requests -> [Upstreams -> Race!Answers]]
    BY <2>1
  <2>3. \A q \in Requests, w \in Upstreams :
           answer'[q][w] = IF q = r /\ w = u THEN answered ELSE answer[q][w]
    BY <2>1
  <2>4. ch' \in [Requests -> SUBSET Upstreams] /\ errC' \in [Requests -> SUBSET Upstreams]
    BY <2>1
  <2>5. \A q \in Requests :
           /\ ch[q] \subseteq ch'[q] /\ (q = r /\ answered = "yes" => u \in ch'[q])
           /\ \A w \in errC'[q] : w \in errC[q] \/ (q = r /\ w = u /\ answered = "error")
    BY <2>1
  <2>6. Race!MissIsUnanimous'
    BY <2>1, <2>3
  <2> QED
    BY <2>1, <2>2, <2>3, <2>4, <2>5, <2>6
<1>8. ASSUME NEW r \in Requests, NEW u \in Upstreams, Race!Receive(r, u) PROVE RaceInv'
  <2>1. /\ pc[r] = "race"
        /\ picked' = [picked EXCEPT ![r] = u]
        /\ pc' = [pc EXCEPT ![r] = IF errs[r] = {} THEN "fetch" ELSE "error"]
        /\ ch' = [ch EXCEPT ![r] = {}] /\ errC' = [errC EXCEPT ![r] = {}]
        /\ errs' = [errs EXCEPT ![r] = {}]
        /\ UNCHANGED <<added, asset, answer>>
    BY <1>8 DEF Race!Receive, Race!Return
  <2> QED
    BY <2>1
<1>9. ASSUME NEW r \in Requests, NEW u \in Upstreams, Race!ReceiveError(r, u) PROVE RaceInv'
  BY <1>9 DEF Race!ReceiveError
<1> QED
  BY <1>1, <1>2, <1>3, <1>4, <1>5, <1>6, <1>7, <1>8, <1>9 DEF Race!Next

\* MissIsUnanimous: a miss means that no upstream that was asked had the asset, in
\* whatever order the answers, the errors and the end of the probes are received.
THEOREM UnanimousMiss == Spec => []MissIsUnanimous
<1>1. Init => (part = "upstreams" => RaceInv)
  BY DEF Init, Race!Init, RaceInv, Race!Outcomes, Race!Answers, Race!MissIsUnanimous
<1>2. (part = "upstreams" => RaceInv) /\ [Next]_vars => (part = "upstreams" => RaceInv)'
  <2> SUFFICES ASSUME RaceInv, part = "upstreams", [Next]_vars PROVE RaceInv'
    BY DEF Next, vars
  <2>1. CASE UNCHANGED Race!vars
    BY <2>1 DEF Race!vars, Race!checker, Race!request, RaceInv, Race!MissIsUnanimous
  <2>2. Race!Next \/ UNCHANGED Race!vars
    BY DEF Next, vars, shared, upstreamVars, Race!vars, Race!checker, Race!request
  <2> QED
    BY <2>1, <2>2, RaceInvStep
<1>3. RaceInv => Race!MissIsUnanimous
  BY DEF RaceInv
<1> QED
  BY <1>1, <1>2, <1>3, PTL DEF Spec, MissIsUnanimous

=============================================================================
