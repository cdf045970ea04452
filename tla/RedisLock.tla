----------------------------- MODULE RedisLock -----------------------------
(***************************************************************************)
(* The distributed Locker of pkg/lock/redis/locker.go for one key: a Redis *)
(* key with a time to live, a circuit breaker for Redis, and in degraded   *)
(* mode a local lock of each server when the breaker is open.              *)
(*                                                                         *)
(* The token of a mutex is the caller that set it.  Redis is one service   *)
(* that a quorum of nodes answers for.  The fallback is used through what  *)
(* LocalLock promises, by key.                                             *)
(***************************************************************************)
EXTENDS Naturals, CircuitBreaker

CONSTANTS
    Procs,        \* callers, each locking again and again
    Servers,      \* ncps instances
    ServerOf,     \* the instance of each caller
    None,
    MaxAttempts,  \* retryConfig.MaxAttempts
    Faults,       \* "down": Redis goes away; "lost": an answer is lost;
                  \* "expire": a key expires under its holder; "crash"
    MaxFaults     \* bound on them

VARIABLES
    degraded,     \* allowDegradedMode of the deployment
    up,           \* Redis answers
    key,          \* the token stored under the key in Redis
    mutexes,      \* mutexes[s][key]: the mutex server s remembers
    fallback,     \* who holds the fallback lock of each server
    breaker,      \* the circuit breaker of each server
    pc,
    tries,        \* attempts each caller has left; 0 for TryLock
    budget,       \* faults that may still happen
    intact        \* history: no fallback was taken, no key expired under its holder

vars == <<degraded, up, key, mutexes, fallback, breaker, pc, tries, budget, intact>>

TypeOK ==
    /\ degraded \in BOOLEAN
    /\ intact \in BOOLEAN
    /\ up \in BOOLEAN
    /\ key \in Procs \cup {None}
    /\ mutexes \in [Servers -> Procs \cup {None}]
    /\ fallback \in [Servers -> Procs \cup {None}]
    /\ breaker \in [Servers -> Breakers]
    /\ pc \in [Procs -> {"idle", "attempt", "store", "fallback", "held", "heldLocally"}]
    /\ tries \in [Procs -> 0..MaxAttempts]
    /\ budget \in 0..MaxFaults

\* NewLocker: without a quorum of Redis nodes a locker starts only in degraded
\* mode, with its breaker forced open.
Init ==
    /\ degraded \in BOOLEAN
    /\ up \in IF "down" \in Faults /\ degraded THEN BOOLEAN ELSE {TRUE}
    /\ key = None
    /\ mutexes = [s \in Servers |-> None]
    /\ fallback = [s \in Servers |-> None]
    /\ breaker = [s \in Servers |-> IF up THEN NewBreaker ELSE ForcedOpen]
    /\ pc = [p \in Procs |-> "idle"]
    /\ tries = [p \in Procs |-> 0]
    /\ budget = MaxFaults
    /\ intact = TRUE

Goto(p, state) == pc' = [pc EXCEPT ![p] = state]
Asked(s) == [breaker EXCEPT ![s] = AllowRequest(@)]

\* The head of Lock, with MaxAttempts tries, and of TryLock, which has one and
\* is told by 0: ask the breaker.
Call(p, attempts) ==
    LET s == ServerOf[p]
    IN /\ pc[p] = "idle"
       /\ breaker' = Asked(s)
       /\ Goto(p, CASE Allows(breaker[s]) -> "attempt"
                    [] ~Allows(breaker[s]) -> IF degraded THEN "fallback" ELSE "idle")
       /\ tries' = [tries EXCEPT ![p] = IF pc'[p] = "idle" THEN 0 ELSE attempts]
       /\ UNCHANGED <<degraded, intact, up, key, mutexes, fallback, budget>>

\* mutex.LockContext sets the key.
SetKey(p) ==
    /\ pc[p] = "attempt"
    /\ up
    /\ key = None
    /\ key' = p
    /\ Goto(p, "store")
    /\ UNCHANGED <<degraded, intact, up, mutexes, fallback, breaker, tries, budget>>

\* Mutant of Taken: when the attempts are used up no error is returned.
TakenIsHeld(p) ==
    /\ pc[p] = "attempt"
    /\ up
    /\ key # None
    /\ tries' = [tries EXCEPT ![p] = IF @ = 0 THEN 0 ELSE @ - 1]
    /\ Goto(p, IF tries[p] > 1 THEN "attempt" ELSE "held")
    /\ UNCHANGED <<degraded, intact, up, key, mutexes, fallback, breaker, budget>>

\* The key is taken: back off and try again, or give up, also when the caller
\* goes away during the backoff.
Taken(p) ==
    /\ pc[p] = "attempt"
    /\ up
    /\ key # None
    /\ \/ Goto(p, "idle") /\ tries' = [tries EXCEPT ![p] = 0]
       \/ tries[p] > 1 /\ Goto(p, "attempt") /\ tries' = [tries EXCEPT ![p] = @ - 1]
    /\ UNCHANGED <<degraded, intact, up, key, mutexes, fallback, breaker, budget>>

\* A connection error; the request may have been carried out nevertheless.
\* The breaker may open now, and then the fallback is used at once.
ConnectionError(p) ==
    LET s == ServerOf[p]
        failed == RecordFailure(breaker[s])
    IN /\ pc[p] = "attempt"
       /\ \/ ~up /\ UNCHANGED <<key, budget>>
          \/ /\ up /\ "lost" \in Faults /\ budget > 0
             /\ budget' = budget - 1
             /\ key' = IF key = None THEN p ELSE key
       /\ breaker' = [breaker EXCEPT ![s] = AllowRequest(failed)]
       /\ Goto(p, IF ~Allows(failed) /\ degraded THEN "fallback" ELSE "idle")
       /\ tries' = [tries EXCEPT ![p] = IF pc'[p] = "idle" THEN 0 ELSE @]
       /\ UNCHANGED <<degraded, intact, up, mutexes, fallback>>

\* l.mutexes[key] = mutex, and the breaker closes.
Store(p) ==
    /\ pc[p] = "store"
    /\ mutexes' = [mutexes EXCEPT ![ServerOf[p]] = p]
    /\ breaker' = [breaker EXCEPT ![ServerOf[p]] = RecordSuccess(@)]
    /\ Goto(p, "held")
    /\ tries' = [tries EXCEPT ![p] = 0]
    /\ UNCHANGED <<degraded, intact, up, key, fallback, budget>>

\* fallbackLocker.Lock or TryLock takes the local lock.
LockFallback(p) ==
    /\ pc[p] = "fallback"
    /\ fallback[ServerOf[p]] = None
    /\ fallback' = [fallback EXCEPT ![ServerOf[p]] = p]
    /\ Goto(p, "heldLocally")
    /\ intact' = FALSE
    /\ tries' = [tries EXCEPT ![p] = 0]
    /\ UNCHANGED <<degraded, up, key, mutexes, breaker, budget>>

\* fallbackLocker.TryLock finds it taken.
MissFallback(p) ==
    /\ pc[p] = "fallback"
    /\ tries[p] = 0
    /\ fallback[ServerOf[p]] # None
    /\ Goto(p, "idle")
    /\ UNCHANGED <<degraded, intact, up, key, mutexes, fallback, breaker, tries, budget>>

\* mutex.UnlockContext: only the key's own token deletes it; an error is logged.
DeleteKey(m) == IF up /\ m # None /\ key = m THEN None ELSE key

\* Unlock asks the breaker which lock to release, not how it was taken.
Unlock(p) ==
    LET s == ServerOf[p]
    IN /\ pc[p] \in {"held", "heldLocally"}
       /\ breaker' = Asked(s)
       /\ IF ~Allows(breaker[s]) /\ degraded
          THEN /\ fallback' = [fallback EXCEPT ![s] = None]
               /\ UNCHANGED <<mutexes, key>>
          ELSE /\ mutexes' = [mutexes EXCEPT ![s] = None]
               /\ key' = DeleteKey(mutexes[s])
               /\ UNCHANGED fallback
       /\ Goto(p, "idle")
       /\ UNCHANGED <<degraded, intact, up, tries, budget>>

\* The refresher calls Extend, which also asks the breaker; that the key lives
\* on is the absence of LiveExpires.
Extend(p) ==
    /\ pc[p] \in {"held", "heldLocally"}
    /\ breaker' = Asked(ServerOf[p])
    /\ UNCHANGED <<degraded, intact, up, key, mutexes, fallback, pc, tries, budget>>

\* The breaker's timeout passes.
BreakerTimeout(s) ==
    /\ breaker[s].openedAt = "recent"
    /\ breaker' = [breaker EXCEPT ![s] = TimedOut(@)]
    /\ UNCHANGED <<degraded, intact, up, key, mutexes, fallback, pc, tries, budget>>

\* The key is gone, and a mutex that has expired is as good as none.
Expires ==
    /\ key # None
    /\ key' = None
    /\ mutexes' = [s \in Servers |-> IF mutexes[s] = key THEN None ELSE mutexes[s]]
    /\ UNCHANGED <<degraded, up, fallback, breaker, pc, tries>>

\* The refresher of whoever holds the lock on s extends what mutexes[s] has.
Refreshed ==
    \E p \in Procs :
        \/ pc[p] \in {"held", "heldLocally"} /\ mutexes[ServerOf[p]] = key
        \/ pc[p] = "store" /\ key = p

\* The time to live of a key that nobody refreshes passes.
DeadExpires == ~Refreshed /\ Expires /\ UNCHANGED <<budget, intact>>

Fault(kind) == kind \in Faults /\ budget > 0 /\ budget' = budget - 1

\* The key expires although its holder is at work.
LiveExpires == Refreshed /\ Fault("expire") /\ Expires /\ intact' = FALSE

RedisDown ==
    /\ Fault("down")
    /\ up
    /\ up' = FALSE
    /\ UNCHANGED <<degraded, intact, key, mutexes, fallback, breaker, pc, tries>>

RedisUp ==
    /\ ~up
    /\ up' = TRUE
    /\ UNCHANGED <<degraded, intact, key, mutexes, fallback, breaker, pc, tries, budget>>

\* A server restarts; its keys in Redis stay.
Crash(s) ==
    /\ Fault("crash")
    /\ mutexes' = [mutexes EXCEPT ![s] = None]
    /\ fallback' = [fallback EXCEPT ![s] = None]
    /\ breaker' = [breaker EXCEPT ![s] = NewBreaker]
    /\ pc' = [p \in Procs |-> IF ServerOf[p] = s THEN "idle" ELSE pc[p]]
    /\ tries' = [p \in Procs |-> IF ServerOf[p] = s THEN 0 ELSE tries[p]]
    /\ UNCHANGED <<degraded, intact, up, key>>

Step(p) ==
    \/ SetKey(p) \/ Taken(p) \/ ConnectionError(p) \/ Store(p) \/ LockFallback(p)
    \/ MissFallback(p) \/ Unlock(p)

Next ==
    \/ \E p \in Procs : Step(p) \/ Extend(p) \/ Call(p, MaxAttempts) \/ Call(p, 0)
    \/ \E s \in Servers : BreakerTimeout(s) \/ Crash(s)
    \/ DeadExpires \/ LiveExpires \/ RedisDown \/ RedisUp

Spec == Init /\ [][Next]_vars

-----------------------------------------------------------------------------
Holders == {p \in Procs : pc[p] \in {"store", "held", "heldLocally"}}
\* The callers the promise of lock.Locker is about: all that hold the lock, until
\* a key expires under its holder or a server falls back to its local lock.
PromisedHolders == IF intact THEN Holders ELSE {}

=============================================================================
