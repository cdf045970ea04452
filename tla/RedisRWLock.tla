---------------------------- MODULE RedisRWLock ----------------------------
(***************************************************************************)
(* The distributed RWLocker of pkg/lock/redis/rwlocker.go for one key: a   *)
(* writer key set with SETNX and a time to live, a hash of readers with    *)
(* one field per locker instance, and the circuit breaker.  Tokens are the *)
(* callers.  The degraded mode, whose fallback is a LocalLock, is the one  *)
(* of RedisLock: here a request the breaker turns away returns an error.   *)
(***************************************************************************)
EXTENDS Naturals, FiniteSets, CircuitBreaker

CONSTANTS
    Procs,        \* callers, each locking again and again
    Servers,      \* locker instances
    ServerOf,     \* the instance of each caller
    None,
    MaxAttempts,  \* retryConfig.MaxAttempts
    MaxFaults     \* bound on connection errors, restarts and expiries

VARIABLES
    writerKey,    \* the token under {key}:writer
    readersHash,  \* the instances with a field in {key}:readers
    tokens,       \* writeLockTokens[key] of each instance
    breaker,      \* the circuit breaker of each instance
    pc, tries,    \* of each caller
    budget

vars == <<writerKey, readersHash, tokens, breaker, pc, tries, budget>>

TypeOK ==
    /\ writerKey \in Procs \cup {None}
    /\ readersHash \subseteq Servers
    /\ tokens \in [Servers -> Procs \cup {None}]
    /\ breaker \in [Servers -> Breakers]
    /\ pc \in [Procs -> {"idle", "set", "drain", "try", "tryDrain", "writing",
                         "wait", "add", "reading"}]
    /\ tries \in [Procs -> 0..MaxAttempts]
    /\ budget \in 0..MaxFaults

Init ==
    /\ writerKey = None
    /\ readersHash = {}
    /\ tokens = [s \in Servers |-> None]
    /\ breaker = [s \in Servers |-> NewBreaker]
    /\ pc = [p \in Procs |-> "idle"]
    /\ tries = [p \in Procs |-> 0]
    /\ budget = MaxFaults

Goto(p, state) == pc' = [pc EXCEPT ![p] = state]
Asked(s) == [breaker EXCEPT ![s] = AllowRequest(@)]
Succeeded(s) == [breaker EXCEPT ![s] = RecordSuccess(@)]

\* The unlock script: delete the key if it still holds the token.
Deleted(token) == IF token # None /\ writerKey = token THEN None ELSE writerKey

\* The head of Lock, TryLock and RLock.
Call(p, state) ==
    /\ pc[p] = "idle"
    /\ breaker' = Asked(ServerOf[p])
    /\ Goto(p, IF Allows(breaker[ServerOf[p]]) THEN state ELSE "idle")
    /\ tries' = [tries EXCEPT ![p] = IF state = "set" THEN MaxAttempts ELSE 0]
    /\ UNCHANGED <<writerKey, readersHash, tokens, budget>>

\* The next attempt of Lock after this one has failed, or an error: no attempts
\* are left, or the caller goes away during the backoff.
Retry(p) ==
    /\ tries' = [tries EXCEPT ![p] = @ - 1]
    /\ \/ Goto(p, "idle")
       \/ tries[p] > 1 /\ Goto(p, "set")

\* SETNX of Lock; the token is remembered before the readers are waited for.
SetWriter(p) ==
    /\ pc[p] = "set"
    /\ IF writerKey = None
       THEN /\ writerKey' = p
            /\ tokens' = [tokens EXCEPT ![ServerOf[p]] = p]
            /\ Goto(p, "drain")
            /\ UNCHANGED tries
       ELSE Retry(p) /\ UNCHANGED <<writerKey, tokens>>
    /\ UNCHANGED <<readersHash, breaker, budget>>

\* Mutant of Drained: it does not wait for the readers.
DrainedAtOnce(p) ==
    /\ pc[p] = "drain"
    /\ breaker' = Succeeded(ServerOf[p])
    /\ Goto(p, "writing")
    /\ UNCHANGED <<writerKey, readersHash, tokens, tries, budget>>

\* HGETALL finds no active reader: the write lock is taken.
Drained(p) ==
    /\ pc[p] = "drain"
    /\ readersHash = {}
    /\ breaker' = Succeeded(ServerOf[p])
    /\ Goto(p, "writing")
    /\ UNCHANGED <<writerKey, readersHash, tokens, tries, budget>>

\* Readers are still there when the ttl is over, the caller goes away, or
\* HGETALL fails: give the key back.
DrainFails(p) ==
    /\ pc[p] = "drain"
    /\ writerKey' = Deleted(p)
    /\ tokens' = [tokens EXCEPT ![ServerOf[p]] = None]
    /\ Retry(p)
    /\ UNCHANGED <<readersHash, breaker, budget>>

\* TryLock: SETNX ...
TrySetWriter(p) ==
    /\ pc[p] = "try"
    /\ IF writerKey = None
       THEN writerKey' = p /\ Goto(p, "tryDrain")
       ELSE Goto(p, "idle") /\ UNCHANGED writerKey
    /\ UNCHANGED <<readersHash, tokens, breaker, tries, budget>>

\* ... then HGETALL; the token is remembered only on success.
TryDrain(p) ==
    /\ pc[p] = "tryDrain"
    /\ IF readersHash = {}
       THEN /\ tokens' = [tokens EXCEPT ![ServerOf[p]] = p]
            /\ breaker' = Succeeded(ServerOf[p])
            /\ Goto(p, "writing")
            /\ UNCHANGED writerKey
       ELSE /\ writerKey' = Deleted(p)
            /\ Goto(p, "idle")
            /\ UNCHANGED <<tokens, breaker>>
    /\ UNCHANGED <<readersHash, tries, budget>>

\* Unlock: the token remembered for the key proves the ownership.
Unlock(p) ==
    /\ pc[p] = "writing"
    /\ breaker' = Asked(ServerOf[p])
    /\ writerKey' = Deleted(tokens[ServerOf[p]])
    /\ tokens' = [tokens EXCEPT ![ServerOf[p]] = None]
    /\ Goto(p, "idle")
    /\ UNCHANGED <<readersHash, tries, budget>>

\* Extend asks the breaker; that the key lives on is the absence of an expiry.
Extend(p) ==
    /\ pc[p] = "writing"
    /\ breaker' = Asked(ServerOf[p])
    /\ UNCHANGED <<writerKey, readersHash, tokens, pc, tries, budget>>

\* RLock: wait until EXISTS finds no writer ...
NoWriter(p) ==
    /\ pc[p] = "wait"
    /\ writerKey = None
    /\ Goto(p, "add")
    /\ UNCHANGED <<writerKey, readersHash, tokens, breaker, tries, budget>>

\* ... or the ttl is over ...
WriterTimeout(p) ==
    /\ pc[p] = "wait"
    /\ writerKey # None
    /\ Goto(p, "idle")
    /\ UNCHANGED <<writerKey, readersHash, tokens, breaker, tries, budget>>

\* ... and set the field of this instance.
AddReader(p) ==
    /\ pc[p] = "add"
    /\ readersHash' = readersHash \cup {ServerOf[p]}
    /\ breaker' = Succeeded(ServerOf[p])
    /\ Goto(p, "reading")
    /\ UNCHANGED <<writerKey, tokens, tries, budget>>

\* RUnlock: HDEL of the field of this instance.
RUnlock(p) ==
    /\ pc[p] = "reading"
    /\ breaker' = Asked(ServerOf[p])
    /\ readersHash' = readersHash \ {ServerOf[p]}
    /\ Goto(p, "idle")
    /\ UNCHANGED <<writerKey, tokens, tries, budget>>

Fault == budget > 0 /\ budget' = budget - 1

\* A request does not reach Redis.  Lock tries again, TryLock and RLock return.
ConnectionError(p) ==
    LET failed == RecordFailure(breaker[ServerOf[p]])
    IN /\ Fault
       /\ pc[p] \in {"set", "try", "wait"}
       /\ IF pc[p] = "set" THEN Retry(p) ELSE Goto(p, "idle") /\ UNCHANGED tries
       /\ breaker' = [breaker EXCEPT ![ServerOf[p]] = AllowRequest(failed)]
       /\ UNCHANGED <<writerKey, readersHash, tokens>>

BreakerTimeout(s) ==
    /\ breaker[s].openedAt = "recent"
    /\ breaker' = [breaker EXCEPT ![s] = TimedOut(@)]
    /\ UNCHANGED <<writerKey, readersHash, tokens, pc, tries, budget>>

\* An instance restarts; its keys stay until they expire.
Crash(s) ==
    /\ Fault
    /\ tokens' = [tokens EXCEPT ![s] = None]
    /\ breaker' = [breaker EXCEPT ![s] = NewBreaker]
    /\ pc' = [p \in Procs |-> IF ServerOf[p] = s THEN "idle" ELSE pc[p]]
    /\ tries' = [p \in Procs |-> IF ServerOf[p] = s THEN 0 ELSE tries[p]]
    /\ UNCHANGED <<writerKey, readersHash>>

\* What a restarted instance left behind expires; the next HGETALL drops it.
DeadExpires ==
    /\ \/ /\ writerKey # None
          /\ pc[writerKey] \notin {"drain", "tryDrain", "writing"}
          /\ writerKey' = None
          /\ UNCHANGED readersHash
       \/ \E s \in readersHash :
            /\ \A p \in Procs : pc[p] = "reading" => ServerOf[p] # s
            /\ readersHash' = readersHash \ {s}
            /\ UNCHANGED writerKey
    /\ UNCHANGED <<tokens, breaker, pc, tries, budget>>

Step(p) ==
    \/ SetWriter(p) \/ Drained(p) \/ DrainFails(p)
    \/ TrySetWriter(p) \/ TryDrain(p) \/ Unlock(p)
    \/ NoWriter(p) \/ WriterTimeout(p) \/ AddReader(p) \/ RUnlock(p)

Next ==
    \/ \E p \in Procs :
         \/ Step(p) \/ Extend(p) \/ ConnectionError(p)
         \/ Call(p, "set") \/ Call(p, "try") \/ Call(p, "wait")
    \/ \E s \in Servers : BreakerTimeout(s) \/ Crash(s)
    \/ DeadExpires

Spec == Init /\ [][Next]_vars

-----------------------------------------------------------------------------
\* A writer enters alone: no other writer is there, and no reader that got its
\* lock before and has not left (Lock, TryLock and RLock of rwlocker.go).  A
\* reader that looked for the writer before it came may still follow it in.
EntersAlone ==
    \A q \in Procs :
        pc[q] # "writing" /\ pc'[q] = "writing" =>
            \A p \in Procs \ {q} :
                pc'[p] # "writing" /\ ~(pc[p] = "reading" /\ pc'[p] = "reading")
WriterEntersAlone == [][EntersAlone]_vars

=============================================================================
