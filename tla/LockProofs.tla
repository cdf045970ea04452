----------------------------- MODULE LockProofs -----------------------------
(***************************************************************************)
(* What the locks of pkg/lock guarantee for any number of callers, servers *)
(* and keyLock allocations, any retry limit and any faults.                *)
(***************************************************************************)
EXTENDS Services, TLAPS

\* A behaviour is one of a single component.
LEMMA PartKept == [Next]_vars => part' = part
  BY DEF Next, vars

-----------------------------------------------------------------------------
(* The local lock.                                                         *)

\* Every caller that is not idle is counted by the keyLock in the map, and that
\* keyLock knows who has locked it; any other is as new.
LocalInv ==
    /\ Local!TypeOK
    /\ \A p \in Callers :
         /\ obj[p] = IF pc[p] = "idle" THEN None ELSE entry
         /\ pc[p] # "idle" => entry # None /\ p \in refs[entry]
         /\ pc[p] = "writing" => writer[entry] = p /\ readers[entry] = {}
         /\ pc[p] = "reading" => p \in readers[entry] /\ writer[entry] = None
    /\ entry # None =>
         /\ refs[entry] # {}
         /\ \A p \in refs[entry] : pc[p] # "idle"
         /\ writer[entry] # None => pc[writer[entry]] = "writing"
         /\ \A p \in readers[entry] : pc[p] = "reading"
    /\ \A o \in Objects : o # entry => refs[o] = {} /\ writer[o] = None /\ readers[o] = {}

\* Every step of the local locks keeps LocalInv.
LEMMA LocalInvStep == LocalInv /\ Local!Next => LocalInv'
<1> SUFFICES ASSUME LocalInv, NEW p \in Callers, Local!Step(p) PROVE LocalInv'
  BY DEF Local!Next
<1> USE ServicesAssumption DEF LocalInv, Local!TypeOK, Local!Calls, Local!Holding
<1>1. ASSUME NEW call \in Local!Calls, Local!GetLock(p, call) PROVE LocalInv'
  BY <1>1 DEF Local!GetLock
<1>2. CASE Local!Lock(p) \/ Local!TryLock(p)
  BY <1>2 DEF Local!Lock, Local!TryLock, Local!Free
<1>3. CASE Local!RLock(p)
  BY <1>3 DEF Local!RLock
<1>4. CASE Local!GiveUp(p)
  BY <1>4 DEF Local!GiveUp, Local!Release
<1>5. CASE Local!Unlock(p)
  BY <1>5 DEF Local!Unlock, Local!Release
<1>6. CASE Local!RUnlock(p)
  BY <1>6 DEF Local!RUnlock, Local!Release
<1> QED
  BY <1>1, <1>2, <1>3, <1>4, <1>5, <1>6 DEF Local!Step

-----------------------------------------------------------------------------
\* A behaviour about the local lock is one of Local, in which LocalInv holds.
LEMMA LocalInductive == Spec => [](part = "local" => LocalInv)
<1>1. Init => (part = "local" => LocalInv)
  BY ServicesAssumption
  DEF Init, Local!Init, LocalInv, Local!TypeOK, Local!Calls, Local!Holding
<1>2. (part = "local" => LocalInv) /\ [Next]_vars => (part = "local" => LocalInv)'
  <2> SUFFICES ASSUME LocalInv, part = "local", [Next]_vars PROVE LocalInv'
    BY PartKept
  <2>1. CASE Local!Next
    BY <2>1, LocalInvStep
  <2>2. CASE UNCHANGED <<localVars, pc>>
    BY <2>2 DEF LocalInv, Local!TypeOK, localVars
  <2>3. Local!Next \/ UNCHANGED <<localVars, pc>>
    BY DEF Next, vars, shared
  <2> QED
    BY <2>1, <2>2, <2>3
<1> QED
  BY <1>1, <1>2, PTL DEF Spec

\* LocalExclusive: whoever holds the lock as a writer holds the keyLock of the
\* map, and so does any other holder.
THEOREM LocalWriterAlone == Spec => []LocalExclusive
<1>1. LocalInv => Local!Exclusive
  BY DEF LocalInv, Local!TypeOK, Local!Exclusive, Local!Holding
<1> QED
  BY <1>1, LocalInductive, PTL DEF LocalExclusive

\* LocalEntryWhileUsed: the references of the entry are the callers at work.
THEOREM LocalEntryTracked == Spec => []LocalEntryWhileUsed
<1>1. LocalInv => Local!EntryWhileUsed
  BY ServicesAssumption DEF LocalInv, Local!TypeOK, Local!EntryWhileUsed
<1> QED
  BY <1>1, LocalInductive, PTL DEF LocalEntryWhileUsed

-----------------------------------------------------------------------------
\* The callers that have the lock for writing.
Writers == {p \in Callers : pc[p] = "writing"}

\* Who is the only caller to write is the only writer.
LEMMA OnlyWriter ==
    ASSUME NEW q \in Callers, \A p \in Callers : pc'[p] = "writing" <=> p = q
    PROVE  Writers' = {q}
  BY Zenon DEF Writers

\* The local locker as a lock.Locker: its writers are the holders.
LocalPromise == INSTANCE AbstractLock WITH
    Procs <- Callers, holders <- IF part = "local" THEN Writers ELSE {}

\* A step of the local locks lets a writer in where there is none, lets the only one
\* out, or leaves the writers alone: what is free is free of writers, since the
\* keyLock in the map is the one every holder has.
LEMMA LocalPromiseStep ==
    ASSUME LocalInv, Local!Next
    PROVE  \/ \E p \in Callers : Writers = {} /\ Writers' = {p}
           \/ \E p \in Callers : Writers = {p} /\ Writers' = {}
           \/ Writers' = Writers
<1> PICK p \in Callers : Local!Step(p)
  BY DEF Local!Next
<1>1. \A q, r \in Writers : q = r
  BY DEF LocalInv, Local!TypeOK, Writers
<1> USE ServicesAssumption DEF LocalInv, Local!TypeOK, Local!Calls, Local!Holding, Writers
<1>2. CASE Local!Lock(p) \/ Local!TryLock(p)
  <2>1. CASE pc' = [pc EXCEPT ![p] = "missed"] /\ pc[p] # "writing"
    BY <2>1
  <2>2. CASE pc' = [pc EXCEPT ![p] = "writing"] /\ writer[entry] = None
    <3>1. \A q \in Callers : pc[q] # "writing"
      BY <2>2
    <3>2. Writers = {}
      BY <3>1
    <3>3. \A q \in Callers : pc'[q] = "writing" <=> q = p
      BY <2>2, <3>1
    <3>4. Writers' = {p}
      BY <3>3, OnlyWriter
    <3> QED
      BY <3>2, <3>4
  <2> QED
    BY <1>2, <2>1, <2>2 DEF Local!Lock, Local!TryLock, Local!Free
<1>3. CASE Local!Unlock(p)
  <2>1. Writers = {p}
    BY <1>1, <1>3 DEF Local!Unlock
  <2>2. Writers' = {}
    BY <1>3, <2>1 DEF Local!Unlock, Local!Release
  <2> QED
    BY <2>1, <2>2
<1>4. CASE ~(Local!Lock(p) \/ Local!TryLock(p) \/ Local!Unlock(p))
  <2>1. \E state : /\ pc' = [pc EXCEPT ![p] = state]
                   /\ state # "writing" /\ pc[p] # "writing"
    BY <1>4 DEF Local!Step, Local!GetLock, Local!RLock, Local!GiveUp, Local!RUnlock,
               Local!Release
  <2> QED
    BY <2>1
<1> QED
  BY <1>2, <1>3, <1>4

\* The local locker keeps the promise of lock.Locker although keyLocks are dropped
\* from the map and made anew.
THEOREM LocalRefinesLock == Spec => LocalPromise!Spec
<1> DEFINE held == IF part = "local" THEN Writers ELSE {}
<1>1. Init => LocalPromise!Init
  BY DEF Init, LocalPromise!Init, Local!Init, Writers
<1>2. (part = "local" => LocalInv) /\ [Next]_vars => [LocalPromise!Next]_held
  <2> SUFFICES ASSUME part = "local" => LocalInv, [Next]_vars
               PROVE  LocalPromise!Next \/ held' = held
    OBVIOUS
  <2>1. CASE part # "local"
    BY <2>1, PartKept
  <2>2. CASE part = "local"
    <3>1. part' = "local"
      BY <2>2, PartKept
    <3>2. Local!Next \/ pc' = pc
      BY <2>2 DEF Next, vars, shared
    <3>3. CASE pc' = pc
      BY <2>2, <3>1, <3>3 DEF Writers
    <3>4. CASE Local!Next
      BY <2>2, <3>1, <3>4, LocalPromiseStep
      DEF LocalPromise!Next, LocalPromise!Acquire, LocalPromise!Release
    <3> QED
      BY <3>2, <3>3, <3>4
  <2> QED
    BY <2>1, <2>2
<1> QED
  BY <1>1, <1>2, LocalInductive, PTL DEF Spec, LocalPromise!Spec

-----------------------------------------------------------------------------
(* The Redis lock.                                                         *)

\* The breaker's operators keep its state in Breakers.
LEMMA BreakerTypes ==
    ASSUME NEW cb \in Redis!Breakers
    PROVE  /\ Redis!NewBreaker \in Redis!Breakers
           /\ Redis!ForcedOpen \in Redis!Breakers
           /\ Redis!RecordFailure(cb) \in Redis!Breakers
           /\ Redis!RecordSuccess(cb) \in Redis!Breakers
           /\ Redis!AllowRequest(cb) \in Redis!Breakers
           /\ Redis!TimedOut(cb) \in Redis!Breakers
  BY ServicesAssumption
  DEF Redis!Breakers, Redis!NewBreaker, Redis!ForcedOpen, Redis!RecordFailure,
      Redis!RecordSuccess, Redis!AllowRequest, Redis!TimedOut

\* The types of the Redis lock, for every kind of fault.
LEMMA RedisTypeStep == Redis!TypeOK /\ Redis!Next => Redis!TypeOK'
<1> SUFFICES ASSUME Redis!TypeOK, Redis!Next PROVE Redis!TypeOK'
  OBVIOUS
<1> USE ServicesAssumption DEF Redis!TypeOK, Redis!Goto
<1>1. ASSUME NEW p \in Callers, Redis!Call(p, MaxAttempts) \/ Redis!Call(p, 0)
      PROVE Redis!TypeOK'
  BY <1>1, BreakerTypes DEF Redis!Call, Redis!Asked
<1>2. ASSUME NEW p \in Callers, Redis!SetKey(p) \/ Redis!Taken(p) PROVE Redis!TypeOK'
  BY <1>2 DEF Redis!SetKey, Redis!Taken
<1>3. ASSUME NEW p \in Callers, Redis!ConnectionError(p) PROVE Redis!TypeOK'
  BY <1>3, BreakerTypes DEF Redis!ConnectionError
<1>4. ASSUME NEW p \in Callers, Redis!Store(p) \/ Redis!MissFallback(p)
      PROVE Redis!TypeOK'
  BY <1>4, BreakerTypes DEF Redis!Store, Redis!MissFallback
<1>9. ASSUME NEW p \in Callers, Redis!LockFallback(p) PROVE Redis!TypeOK'
  <2>1. intact' \in BOOLEAN
    BY <1>9, Zenon DEF Redis!LockFallback
  <2> QED
    BY <1>9, <2>1 DEF Redis!LockFallback
<1>5. ASSUME NEW p \in Callers, Redis!Unlock(p) \/ Redis!Extend(p) PROVE Redis!TypeOK'
  BY <1>5, BreakerTypes DEF Redis!Unlock, Redis!Extend, Redis!Asked, Redis!DeleteKey
<1>6. ASSUME NEW s \in Servers, Redis!BreakerTimeout(s) PROVE Redis!TypeOK'
  BY <1>6, BreakerTypes DEF Redis!BreakerTimeout
<1>10. ASSUME NEW s \in Servers, Redis!Crash(s) PROVE Redis!TypeOK'
  <2>1. breaker[s] \in Redis!Breakers
    OBVIOUS
  <2>2. breaker' \in [Servers -> Redis!Breakers]
    BY <1>10, <2>1, BreakerTypes DEF Redis!Crash
  <2>3. /\ pc' \in [Callers -> {"idle", "attempt", "store", "fallback", "held", "heldLocally"}]
        /\ tries' \in [Callers -> 0..MaxAttempts]
    BY <1>10 DEF Redis!Crash
  <2> QED
    BY <1>10, <2>2, <2>3 DEF Redis!Crash, Redis!Fault
<1>7. CASE Redis!DeadExpires \/ Redis!LiveExpires
  <2>1. intact' \in BOOLEAN
    BY <1>7, Zenon DEF Redis!DeadExpires, Redis!LiveExpires
  <2> QED
    BY <1>7, <2>1 DEF Redis!DeadExpires, Redis!LiveExpires, Redis!Expires, Redis!Fault
<1>8. CASE Redis!RedisDown \/ Redis!RedisUp
  <2>1. up' \in BOOLEAN
    BY <1>8, Zenon DEF Redis!RedisDown, Redis!RedisUp
  <2> QED
    BY <1>8, <2>1 DEF Redis!RedisDown, Redis!RedisUp, Redis!Fault
<1> QED
  BY <1>1, <1>2, <1>3, <1>4, <1>9, <1>5, <1>6, <1>10, <1>7, <1>8 DEF Redis!Next, Redis!Step

\* While no key has expired under its holder and no server has fallen back, the
\* key has the token of the one holder, which its server remembers.
HeldByKey ==
    intact => \A p \in Callers :
        /\ pc[p] # "heldLocally"
        /\ pc[p] \in {"store", "held"} => key = p
        /\ pc[p] = "held" => mutexes[ServerOf[p]] = p

\* What the invariant says of the holders the promise is about.
LEMMA OneHolder ==
    ASSUME HeldByKey
    PROVE  /\ intact => Redis!PromisedHolders = {p \in Callers : pc[p] \in {"store", "held"}}
           /\ ~intact => Redis!PromisedHolders = {}
           /\ Redis!PromisedHolders \subseteq Callers
           /\ \A p, q \in Redis!PromisedHolders : p = q
  BY DEF HeldByKey, Redis!PromisedHolders, Redis!Holders

\* A step after which the holders are among those before is a release, or none.
LEMMA FewerHolders ==
    ASSUME HeldByKey, Redis!PromisedHolders' \subseteq Redis!PromisedHolders
    PROVE  \/ \E p \in Callers : Redis!PromisedHolders = {p} /\ Redis!PromisedHolders' = {}
           \/ Redis!PromisedHolders' = Redis!PromisedHolders
  BY OneHolder

\* Every step of the Redis lock keeps HeldByKey: the key of a holder is set once,
\* with SETNX, and only the holder deletes it.
LEMMA HeldByKeyStep == Redis!TypeOK /\ HeldByKey /\ Redis!Next => HeldByKey'
<1> SUFFICES ASSUME Redis!TypeOK, HeldByKey, Redis!Next PROVE HeldByKey'
  OBVIOUS
<1> USE ServicesAssumption DEF Redis!TypeOK, HeldByKey, Redis!Goto
<1>1. ASSUME NEW p \in Callers, Redis!Call(p, MaxAttempts) \/ Redis!Call(p, 0)
      PROVE HeldByKey'
  <2>1. /\ UNCHANGED <<intact, key, mutexes>>
        /\ \E x : pc' = [pc EXCEPT ![p] = x] /\ x \in {"attempt", "fallback", "idle"}
    BY <1>1 DEF Redis!Call
  <2> QED
    BY <2>1
<1>2. ASSUME NEW p \in Callers, Redis!SetKey(p) \/ Redis!Taken(p) PROVE HeldByKey'
  <2>1. CASE Redis!SetKey(p)
    BY <2>1 DEF Redis!SetKey
  <2>2. CASE Redis!Taken(p)
    BY <2>2 DEF Redis!Taken
  <2> QED
    BY <1>2, <2>1, <2>2
<1>3. ASSUME NEW p \in Callers, Redis!ConnectionError(p) PROVE HeldByKey'
  BY <1>3 DEF Redis!ConnectionError
<1>4. ASSUME NEW p \in Callers,
             Redis!Store(p) \/ Redis!LockFallback(p) \/ Redis!MissFallback(p)
      PROVE HeldByKey'
  <2>1. CASE Redis!Store(p)
    BY <2>1 DEF Redis!Store
  <2>2. CASE Redis!LockFallback(p)
    BY <2>2 DEF Redis!LockFallback
  <2>3. CASE Redis!MissFallback(p)
    BY <2>3 DEF Redis!MissFallback
  <2> QED
    BY <1>4, <2>1, <2>2, <2>3
<1>5. ASSUME NEW p \in Callers, Redis!Unlock(p) \/ Redis!Extend(p) PROVE HeldByKey'
  BY <1>5, ZenonT(40) DEF Redis!Unlock, Redis!Extend, Redis!DeleteKey
<1>6. ASSUME NEW s \in Servers, Redis!BreakerTimeout(s) \/ Redis!Crash(s) PROVE HeldByKey'
  <2>1. CASE Redis!BreakerTimeout(s)
    BY <2>1 DEF Redis!BreakerTimeout
  <2>2. CASE Redis!Crash(s)
    BY <2>2 DEF Redis!Crash
  <2> QED
    BY <1>6, <2>1, <2>2
<1>7. CASE Redis!DeadExpires
  BY <1>7 DEF Redis!DeadExpires, Redis!Refreshed, Redis!Expires
<1>8. CASE Redis!LiveExpires
  BY <1>8 DEF Redis!LiveExpires
<1>9. CASE Redis!RedisDown \/ Redis!RedisUp
  BY <1>9 DEF Redis!RedisDown, Redis!RedisUp
<1> QED
  BY <1>1, <1>2, <1>3, <1>4, <1>5, <1>6, <1>7, <1>8, <1>9 DEF Redis!Next, Redis!Step

\* Every step of the Redis lock is one of the promise, or leaves its holders.
LEMMA PromiseStep ==
    Redis!TypeOK /\ HeldByKey /\ Redis!Next =>
        (\E p \in Callers : \/ Redis!PromisedHolders = {} /\ Redis!PromisedHolders' = {p}
                            \/ Redis!PromisedHolders = {p} /\ Redis!PromisedHolders' = {})
        \/ Redis!PromisedHolders' = Redis!PromisedHolders
<1> SUFFICES ASSUME Redis!TypeOK, HeldByKey, Redis!Next
    PROVE \/ \E p \in Callers : Redis!PromisedHolders = {} /\ Redis!PromisedHolders' = {p}
          \/ Redis!PromisedHolders' \subseteq Redis!PromisedHolders
  BY FewerHolders
<1> USE ServicesAssumption DEF Redis!TypeOK, HeldByKey, Redis!Goto, Redis!PromisedHolders,
        Redis!Holders
<1>1. ASSUME NEW p \in Callers, Redis!SetKey(p)
      PROVE \/ Redis!PromisedHolders = {} /\ Redis!PromisedHolders' = {p}
            \/ Redis!PromisedHolders' \subseteq Redis!PromisedHolders
  BY <1>1 DEF Redis!SetKey
<1>2. ASSUME NEW p \in Callers,
             \/ Redis!Call(p, MaxAttempts) \/ Redis!Call(p, 0) \/ Redis!Taken(p)
             \/ Redis!ConnectionError(p) \/ Redis!MissFallback(p)
      PROVE Redis!PromisedHolders' \subseteq Redis!PromisedHolders
  BY <1>2 DEF Redis!Call, Redis!Taken, Redis!ConnectionError, Redis!MissFallback
<1>3. ASSUME NEW p \in Callers,
             \/ Redis!Store(p) \/ Redis!LockFallback(p) \/ Redis!Unlock(p) \/ Redis!Extend(p)
      PROVE Redis!PromisedHolders' \subseteq Redis!PromisedHolders
  BY <1>3 DEF Redis!Store, Redis!LockFallback, Redis!Unlock, Redis!Extend
<1>4. ASSUME NEW s \in Servers, Redis!BreakerTimeout(s) \/ Redis!Crash(s)
      PROVE Redis!PromisedHolders' \subseteq Redis!PromisedHolders
  BY <1>4 DEF Redis!BreakerTimeout, Redis!Crash
<1>5. CASE Redis!DeadExpires \/ Redis!LiveExpires \/ Redis!RedisDown \/ Redis!RedisUp
  BY <1>5 DEF Redis!DeadExpires, Redis!LiveExpires, Redis!Expires, Redis!RedisDown,
              Redis!RedisUp
<1> QED
  BY <1>1, <1>2, <1>3, <1>4, <1>5 DEF Redis!Next, Redis!Step

\* The type invariant of the Redis lock, and that its holders have their keys.
RedisInv == part = "redis" => Redis!TypeOK /\ HeldByKey

\* RedisInv holds: the Redis lock starts with no key and no holder.
LEMMA RedisInductive == Spec => []RedisInv
<1>1. Init => RedisInv
  <2> SUFFICES ASSUME Redis!Init PROVE Redis!TypeOK /\ HeldByKey
    BY DEF Init, RedisInv
  <2>1. up \in BOOLEAN /\ intact \in BOOLEAN /\ degraded \in BOOLEAN
    BY Zenon DEF Redis!Init
  <2> QED
    BY <2>1, ServicesAssumption
    DEF Redis!Init, Redis!TypeOK, HeldByKey, Redis!Breakers, Redis!NewBreaker,
        Redis!ForcedOpen
<1>2. RedisInv /\ [Next]_vars => RedisInv'
  <2> SUFFICES ASSUME Redis!TypeOK, HeldByKey, part = "redis", [Next]_vars
               PROVE  (Redis!TypeOK /\ HeldByKey)'
    BY PartKept DEF RedisInv
  <2>1. CASE Redis!Next
    BY <2>1, RedisTypeStep, HeldByKeyStep
  <2>2. CASE UNCHANGED Redis!vars
    BY <2>2 DEF Redis!vars, Redis!TypeOK, HeldByKey
  <2>3. Redis!Next \/ UNCHANGED Redis!vars
    BY DEF Next, vars, shared, redisVars, Redis!vars
  <2> QED
    BY <2>1, <2>2, <2>3
<1> QED
  BY <1>1, <1>2, PTL DEF Spec

\* RedisImplementsLock: until a key expires under its holder or a server falls back
\* to its local lock, the callers between SETNX and the release of the key are the
\* holders that lock.Locker promises, whatever answers are lost, breakers open,
\* servers die and Redis goes away meanwhile.
THEOREM RedisRefinesLock == Spec => RedisImplementsLock
<1> DEFINE held == IF part = "redis" THEN Redis!PromisedHolders ELSE {}
<1>1. Init => Promise!Init
  <2> SUFFICES ASSUME Redis!Init PROVE Redis!PromisedHolders = {}
    BY DEF Init, Promise!Init
  <2> QED
    BY DEF Redis!Init, Redis!PromisedHolders, Redis!Holders
<1>2. RedisInv /\ [Next]_vars => [Promise!Next]_held
  <2> SUFFICES ASSUME RedisInv, [Next]_vars PROVE Promise!Next \/ held' = held
    OBVIOUS
  <2>1. CASE part # "redis"
    BY <2>1, PartKept
  <2>2. CASE part = "redis"
    <3>1. part' = "redis"
      BY <2>2, PartKept
    <3>2. Redis!Next \/ UNCHANGED Redis!vars
      BY <2>2 DEF Next, vars, shared, redisVars, Redis!vars
    <3>3. CASE UNCHANGED Redis!vars
      BY <2>2, <3>1, <3>3 DEF Redis!vars, Redis!PromisedHolders, Redis!Holders
    <3>4. CASE Redis!Next
      BY <2>2, <3>1, <3>4, PromiseStep
      DEF RedisInv, Promise!Next, Promise!Acquire, Promise!Release
    <3> QED
      BY <3>2, <3>3, <3>4
  <2> QED
    BY <2>1, <2>2
<1> QED
  BY <1>1, <1>2, RedisInductive, PTL DEF Spec, RedisImplementsLock, Promise!Spec

-----------------------------------------------------------------------------
(* The Redis read-write lock.                                              *)

\* The writer key is that of whoever drains the readers or writes, and a reader is
\* in the hash.
RWInv ==
    /\ writerKey \in Callers \cup {None}
    /\ readersHash \subseteq Callers
    /\ pc \in [Callers -> {"idle", "set", "drain", "try", "tryDrain", "writing",
                           "wait", "add", "reading"}]
    /\ \A p \in Callers :
         /\ pc[p] \in {"drain", "tryDrain", "writing"} => writerKey = p
         /\ pc[p] = "reading" => p \in readersHash

\* Every step of the read-write lock keeps RWInv: a key is set where there is none,
\* and deleted by its own token or when nobody uses it.
LEMMA RWInvStep == RWInv /\ RW!Next => RWInv'
<1> SUFFICES ASSUME RWInv, RW!Next PROVE RWInv'
  OBVIOUS
<1> USE ServicesAssumption DEF RWInv, RW!Goto, RW!Retry, RW!Deleted, Each
<1>1. ASSUME NEW p \in Callers, RW!SetWriter(p) PROVE RWInv'
  BY <1>1 DEF RW!SetWriter
<1>2. ASSUME NEW p \in Callers, RW!Drained(p) PROVE RWInv'
  BY <1>2 DEF RW!Drained
<1>3. ASSUME NEW p \in Callers, RW!DrainFails(p) PROVE RWInv'
  BY <1>3 DEF RW!DrainFails
<1>4. ASSUME NEW p \in Callers, RW!TrySetWriter(p) PROVE RWInv'
  BY <1>4 DEF RW!TrySetWriter
<1>5. ASSUME NEW p \in Callers, RW!TryDrain(p) PROVE RWInv'
  BY <1>5 DEF RW!TryDrain
<1>6. ASSUME NEW p \in Callers, RW!Unlock(p) PROVE RWInv'
  BY <1>6 DEF RW!Unlock
<1>7. ASSUME NEW p \in Callers, RW!NoWriter(p) \/ RW!WriterTimeout(p) PROVE RWInv'
  BY <1>7 DEF RW!NoWriter, RW!WriterTimeout
<1>8. ASSUME NEW p \in Callers, RW!AddReader(p) PROVE RWInv'
  BY <1>8 DEF RW!AddReader
<1>9. ASSUME NEW p \in Callers, RW!RUnlock(p) PROVE RWInv'
  BY <1>9 DEF RW!RUnlock
<1>10. ASSUME NEW p \in Callers, RW!Extend(p) \/ RW!ConnectionError(p) PROVE RWInv'
  BY <1>10 DEF RW!Extend, RW!ConnectionError
<1>11. ASSUME NEW p \in Callers, RW!Call(p, "set") \/ RW!Call(p, "try") \/ RW!Call(p, "wait")
       PROVE RWInv'
  BY <1>11 DEF RW!Call
<1>12. ASSUME NEW s \in Callers, RW!BreakerTimeout(s) PROVE RWInv'
  BY <1>12 DEF RW!BreakerTimeout
<1>13. ASSUME NEW s \in Callers, RW!Crash(s) PROVE RWInv'
  BY <1>13 DEF RW!Crash
<1>14. CASE RW!DeadExpires
  BY <1>14 DEF RW!DeadExpires
<1> QED
  BY <1>1, <1>2, <1>3, <1>4, <1>5, <1>6, <1>7, <1>8, <1>9, <1>10, <1>11, <1>12, <1>13,
     <1>14 DEF RW!Next, RW!Step

\* A writer enters by Drained or TryDrain only, with its token in the writer key and
\* no reader in the hash.
LEMMA WriterEnters ==
    ASSUME RWInv, RW!Next, NEW q \in Callers, pc[q] # "writing", pc'[q] = "writing"
    PROVE  /\ readersHash = {} /\ writerKey = q
           /\ pc' = [pc EXCEPT ![q] = "writing"]
<1> USE ServicesAssumption DEF RWInv, RW!Goto, RW!Retry
<1>1. RW!Drained(q) \/ RW!TryDrain(q)
  <2>1. ASSUME NEW p \in Callers,
               \/ RW!SetWriter(p) \/ RW!DrainFails(p) \/ RW!TrySetWriter(p) \/ RW!Unlock(p)
               \/ RW!NoWriter(p) \/ RW!WriterTimeout(p) \/ RW!AddReader(p) \/ RW!RUnlock(p)
        PROVE FALSE
    BY <2>1 DEF RW!SetWriter, RW!DrainFails, RW!TrySetWriter, RW!Unlock, RW!NoWriter,
                RW!WriterTimeout, RW!AddReader, RW!RUnlock
  <2>2. ASSUME NEW p \in Callers,
               \/ RW!Extend(p) \/ RW!ConnectionError(p)
               \/ RW!Call(p, "set") \/ RW!Call(p, "try") \/ RW!Call(p, "wait")
        PROVE FALSE
    BY <2>2 DEF RW!Extend, RW!ConnectionError, RW!Call
  <2>3. ASSUME NEW s \in Callers, RW!BreakerTimeout(s) \/ RW!Crash(s) PROVE FALSE
    BY <2>3 DEF RW!BreakerTimeout, RW!Crash
  <2>4. CASE RW!DeadExpires
    BY <2>4 DEF RW!DeadExpires
  <2>5. ASSUME NEW p \in Callers, RW!Drained(p) \/ RW!TryDrain(p) PROVE p = q
    BY <2>5 DEF RW!Drained, RW!TryDrain
  <2> QED
    BY <2>1, <2>2, <2>3, <2>4, <2>5 DEF RW!Next, RW!Step
<1> QED
  BY <1>1 DEF RW!Drained, RW!TryDrain

\* So it finds no reader, and no writer, whose key it would be.
LEMMA EntersAloneStep == RWInv /\ RW!Next => RW!EntersAlone
<1> SUFFICES ASSUME RWInv, RW!Next, NEW q \in Callers, pc[q] # "writing", pc'[q] = "writing"
    PROVE \A p \in Callers \ {q} :
              pc'[p] # "writing" /\ ~(pc[p] = "reading" /\ pc'[p] = "reading")
  BY DEF RW!EntersAlone
<1>1. readersHash = {} /\ writerKey = q /\ pc' = [pc EXCEPT ![q] = "writing"]
  BY WriterEnters
<1> QED
  BY <1>1, ServicesAssumption DEF RWInv

\* A behaviour about the read-write lock is one of RW ...
LEMMA RWSteps == [Next]_vars /\ part = "rw" => part' = "rw" /\ (RW!Next \/ UNCHANGED RW!vars)
  BY PartKept DEF Next, vars, shared, rwVars, RW!vars

\* ... in which RWInv holds.
LEMMA RWInductive == Spec => [](part = "rw" => RWInv)
<1>1. Init => (part = "rw" => RWInv)
  BY DEF Init, RW!Init, RWInv
<1>2. (part = "rw" => RWInv) /\ [Next]_vars => (part = "rw" => RWInv)'
  <2> SUFFICES ASSUME RWInv, part = "rw", [Next]_vars PROVE RWInv'
    BY PartKept
  <2>1. CASE UNCHANGED RW!vars
    BY <2>1 DEF RW!vars, RWInv
  <2> QED
    BY <2>1, RWSteps, RWInvStep
<1> QED
  BY <1>1, <1>2, PTL DEF Spec

\* WriterEntersAlone: a writer of the Redis read-write lock meets no writer and no
\* reader from before, although the two keys are looked at one after the other and
\* tokens are lost in restarts.
THEOREM RWEntersAlone == Spec => WriterEntersAlone
<1>1. (part = "rw" => RWInv) /\ [Next]_vars => [part = "rw" => RW!EntersAlone]_vars
  <2> SUFFICES ASSUME RWInv, part = "rw", Next PROVE RW!EntersAlone
    OBVIOUS
  <2>1. CASE UNCHANGED RW!vars
    BY <2>1 DEF RW!vars, RW!EntersAlone
  <2> QED
    BY <2>1, RWSteps, EntersAloneStep
<1> QED
  BY <1>1, RWInductive, PTL DEF Spec, WriterEntersAlone

\* The Redis read-write locker as a lock.Locker: its writers are the holders.
RWPromise == INSTANCE AbstractLock WITH
    Procs <- Callers, holders <- IF part = "rw" THEN Writers ELSE {}

\* Whoever is let in has the writer key, as do those who are in; a restart of an
\* instance, like an Unlock, lets out the one that is.
LEMMA RWPromiseStep ==
    ASSUME RWInv, RW!Next
    PROVE  \/ \E p \in Callers : Writers = {} /\ Writers' = {p}
           \/ \E p \in Callers : Writers = {p} /\ Writers' = {}
           \/ Writers' = Writers
<1>1. \A q, r \in Writers : q = r
  BY DEF RWInv, Writers
<1>2. CASE Writers' \subseteq Writers
  <2>1. \A p \in Writers : Writers = {p}
    BY <1>1
  <2> QED
    BY <1>2, <2>1 DEF Writers
<1>3. CASE \E q \in Writers' : q \notin Writers
  <2>1. PICK q \in Callers : pc[q] # "writing" /\ pc'[q] = "writing"
    BY <1>3 DEF Writers
  <2>2. writerKey = q /\ pc' = [pc EXCEPT ![q] = "writing"]
    BY <2>1, WriterEnters
  <2>3. Writers = {}
    BY <2>1, <2>2 DEF RWInv, Writers
  <2>4. \A p \in Callers : pc'[p] = "writing" <=> p = q
    BY <2>2, <2>3 DEF RWInv, Writers
  <2>5. Writers' = {q}
    BY <2>4, OnlyWriter
  <2> QED
    BY <2>3, <2>5
<1> QED
  BY <1>2, <1>3

\* The Redis read-write locker keeps the promise of lock.Locker to its writers: while
\* no key expires under a writer, one at most is in, over all instances.
THEOREM RWRefinesLock == Spec => RWPromise!Spec
<1> DEFINE held == IF part = "rw" THEN Writers ELSE {}
<1>1. Init => RWPromise!Init
  BY DEF Init, RWPromise!Init, RW!Init, Writers
<1>2. (part = "rw" => RWInv) /\ [Next]_vars => [RWPromise!Next]_held
  <2> SUFFICES ASSUME part = "rw" => RWInv, [Next]_vars
               PROVE  RWPromise!Next \/ held' = held
    OBVIOUS
  <2>1. CASE part # "rw"
    BY <2>1, PartKept
  <2>2. CASE part = "rw"
    <3>1. part' = "rw"
      BY <2>2, PartKept
    <3>2. CASE UNCHANGED RW!vars
      BY <2>2, <3>1, <3>2 DEF RW!vars, Writers
    <3>3. CASE RW!Next
      BY <2>2, <3>1, <3>3, RWPromiseStep
      DEF RWPromise!Next, RWPromise!Acquire, RWPromise!Release
    <3> QED
      BY <2>2, <3>2, <3>3, RWSteps
  <2> QED
    BY <2>1, <2>2
<1> QED
  BY <1>1, <1>2, RWInductive, PTL DEF Spec, RWPromise!Spec

-----------------------------------------------------------------------------
(* The circuit breaker.                                                    *)

\* A breaker that is not closed has seen as many failures as it takes to open it.
Counting == {cb \in Redis!Breakers : cb.openedAt # "zero" => cb.failures = Threshold}

\* The breaker's operators keep it so; the timeout is over for an open breaker only.
LEMMA BreakerCounts ==
    ASSUME NEW cb \in Counting
    PROVE  /\ Redis!NewBreaker \in Counting /\ RW!NewBreaker \in Counting
           /\ Redis!ForcedOpen \in Counting
           /\ Redis!RecordFailure(cb) \in Counting /\ RW!RecordFailure(cb) \in Counting
           /\ Redis!RecordSuccess(cb) \in Counting /\ RW!RecordSuccess(cb) \in Counting
           /\ Redis!AllowRequest(cb) \in Counting /\ RW!AllowRequest(cb) \in Counting
           /\ cb.openedAt = "recent" =>
                 Redis!TimedOut(cb) \in Counting /\ RW!TimedOut(cb) \in Counting
  BY ServicesAssumption
  DEF Counting, Redis!Breakers, Redis!NewBreaker, Redis!ForcedOpen, Redis!RecordFailure,
      Redis!RecordSuccess, Redis!AllowRequest, Redis!TimedOut, RW!NewBreaker,
      RW!RecordFailure, RW!RecordSuccess, RW!AllowRequest, RW!TimedOut

\* A new one is closed.
LEMMA NewCounts == Redis!NewBreaker \in Counting /\ Redis!ForcedOpen \in Counting
  BY ServicesAssumption DEF Counting, Redis!Breakers, Redis!NewBreaker, Redis!ForcedOpen

\* The inductive invariant of ReopensAtOnce.
BreakerInv ==
    /\ part = "redis" => breaker \in [Servers -> Counting]
    /\ part = "rw" => breaker \in [Callers -> Counting]

\* What the Redis locks do with their breakers.
LEMMA RedisBreakerStep ==
    breaker \in [Servers -> Counting] /\ Redis!Next => breaker' \in [Servers -> Counting]
<1> SUFFICES ASSUME breaker \in [Servers -> Counting], Redis!Next
             PROVE  breaker' \in [Servers -> Counting]
  OBVIOUS
<1>1. ASSUME NEW s \in Servers, NEW b \in Counting, breaker' = [breaker EXCEPT ![s] = b]
      PROVE  breaker' \in [Servers -> Counting]
  BY <1>1
<1>2. \A p \in Callers : ServerOf[p] \in Servers
  BY ServicesAssumption
<1>3. \A s \in Servers : breaker[s] \in Counting
  OBVIOUS
<1>4. ASSUME NEW p \in Callers,
             Redis!Call(p, MaxAttempts) \/ Redis!Call(p, 0) \/ Redis!Unlock(p) \/ Redis!Extend(p)
      PROVE  breaker' \in [Servers -> Counting]
  BY <1>1, <1>2, <1>3, <1>4, BreakerCounts
  DEF Redis!Call, Redis!Unlock, Redis!Extend, Redis!Asked
<1>5. ASSUME NEW p \in Callers, Redis!ConnectionError(p) \/ Redis!Store(p)
      PROVE  breaker' \in [Servers -> Counting]
  BY <1>1, <1>2, <1>3, <1>5, BreakerCounts DEF Redis!ConnectionError, Redis!Store
<1>6. ASSUME NEW s \in Servers, Redis!BreakerTimeout(s) \/ Redis!Crash(s)
      PROVE  breaker' \in [Servers -> Counting]
  BY <1>1, <1>3, <1>6, BreakerCounts DEF Redis!BreakerTimeout, Redis!Crash
<1>7. CASE UNCHANGED breaker
  BY <1>7
<1>8. \/ \E p \in Callers :
            \/ Redis!Call(p, MaxAttempts) \/ Redis!Call(p, 0) \/ Redis!Unlock(p)
            \/ Redis!Extend(p) \/ Redis!ConnectionError(p) \/ Redis!Store(p)
      \/ \E s \in Servers : Redis!BreakerTimeout(s) \/ Redis!Crash(s)
      \/ UNCHANGED breaker
  BY DEF Redis!Next, Redis!Step, Redis!SetKey, Redis!Taken, Redis!LockFallback,
         Redis!MissFallback, Redis!DeadExpires, Redis!LiveExpires, Redis!Expires,
         Redis!RedisDown, Redis!RedisUp
<1> QED
  BY <1>4, <1>5, <1>6, <1>7, <1>8

\* What the read-write locks do with theirs.
LEMMA RWBreakerStep ==
    breaker \in [Callers -> Counting] /\ RW!Next => breaker' \in [Callers -> Counting]
<1> SUFFICES ASSUME breaker \in [Callers -> Counting], RW!Next
             PROVE  breaker' \in [Callers -> Counting]
  OBVIOUS
<1>1. ASSUME NEW s \in Callers, NEW b \in Counting, breaker' = [breaker EXCEPT ![s] = b]
      PROVE  breaker' \in [Callers -> Counting]
  BY <1>1
<1>2. \A p \in Callers : Each[p] = p /\ breaker[p] \in Counting
  BY DEF Each
<1>3. ASSUME NEW p \in Callers,
             \/ RW!Call(p, "set") \/ RW!Call(p, "try") \/ RW!Call(p, "wait")
             \/ RW!Unlock(p) \/ RW!Extend(p) \/ RW!RUnlock(p)
      PROVE  breaker' \in [Callers -> Counting]
  BY <1>1, <1>2, <1>3, BreakerCounts DEF RW!Call, RW!Unlock, RW!Extend, RW!RUnlock, RW!Asked
<1>4. ASSUME NEW p \in Callers,
             RW!Drained(p) \/ RW!TryDrain(p) \/ RW!AddReader(p) \/ RW!ConnectionError(p)
      PROVE  breaker' \in [Callers -> Counting]
  BY <1>1, <1>2, <1>4, BreakerCounts
  DEF RW!Drained, RW!TryDrain, RW!AddReader, RW!ConnectionError, RW!Succeeded
<1>5. ASSUME NEW s \in Callers, RW!BreakerTimeout(s) \/ RW!Crash(s)
      PROVE  breaker' \in [Callers -> Counting]
  BY <1>1, <1>2, <1>5, BreakerCounts DEF RW!BreakerTimeout, RW!Crash
<1>6. CASE UNCHANGED breaker
  BY <1>6
<1>7. \/ \E p \in Callers :
            \/ RW!Call(p, "set") \/ RW!Call(p, "try") \/ RW!Call(p, "wait")
            \/ RW!Unlock(p) \/ RW!Extend(p) \/ RW!RUnlock(p)
            \/ RW!Drained(p) \/ RW!TryDrain(p) \/ RW!AddReader(p) \/ RW!ConnectionError(p)
      \/ \E s \in Callers : RW!BreakerTimeout(s) \/ RW!Crash(s)
      \/ UNCHANGED breaker
  BY DEF RW!Next, RW!Step, RW!SetWriter, RW!DrainFails, RW!TrySetWriter, RW!NoWriter,
         RW!WriterTimeout, RW!DeadExpires
<1> QED
  BY <1>3, <1>4, <1>5, <1>6, <1>7

\* A failure that is reported while the circuit is not closed opens it again at once:
\* the probe that AllowRequest lets through needs no second failure (the comment in
\* AllowRequest of pkg/circuitbreaker).
ReopensAtOnce ==
    /\ part = "redis" => \A s \in Servers :
          breaker[s].openedAt # "zero" => Redis!RecordFailure(breaker[s]).openedAt = "recent"
    /\ part = "rw" => \A s \in Callers :
          breaker[s].openedAt # "zero" => RW!RecordFailure(breaker[s]).openedAt = "recent"

\* ReopensAtOnce, for both Redis lockers with all their calls, timeouts and restarts:
\* the count is reset only when the circuit is closed.
THEOREM ProbeFailureReopens == Spec => []ReopensAtOnce
<1>1. Init => BreakerInv
  BY NewCounts DEF Init, Redis!Init, RW!Init, BreakerInv, Redis!NewBreaker, RW!NewBreaker
<1>2. BreakerInv /\ [Next]_vars => BreakerInv'
  <2> SUFFICES ASSUME BreakerInv, [Next]_vars PROVE BreakerInv'
    OBVIOUS
  <2>1. CASE part = "redis"
    <3>1. part' = "redis" /\ (Redis!Next \/ UNCHANGED breaker)
      BY <2>1, PartKept DEF Next, vars, shared
    <3> QED
      BY <2>1, <3>1, RedisBreakerStep DEF BreakerInv
  <2>2. CASE part = "rw"
    <3>1. part' = "rw" /\ (RW!Next \/ UNCHANGED breaker)
      BY <2>2, PartKept DEF Next, vars, shared
    <3> QED
      BY <2>2, <3>1, RWBreakerStep DEF BreakerInv
  <2> QED
    BY <2>1, <2>2, PartKept DEF BreakerInv
<1>3. BreakerInv => ReopensAtOnce
  <2>1. ASSUME NEW cb \in Counting, cb.openedAt # "zero"
        PROVE  /\ Redis!RecordFailure(cb).openedAt = "recent"
               /\ RW!RecordFailure(cb).openedAt = "recent"
    BY <2>1, ServicesAssumption
    DEF Counting, Redis!Breakers, Redis!RecordFailure, RW!RecordFailure
  <2> QED
    BY <2>1 DEF BreakerInv, ReopensAtOnce
<1> QED
  BY <1>1, <1>2, <1>3, PTL DEF Spec

=============================================================================
