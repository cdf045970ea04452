----------------------------- MODULE LocalLock -----------------------------
(***************************************************************************)
(* The local lockers of pkg/lock/local for one key: a map entry with a     *)
(* mutex and a reference count, made on demand and dropped with the last   *)
(* reference.  RWLocker is Locker with readers; Lock, TryLock and Unlock   *)
(* are the same in both.  The reference count is the set of the callers    *)
(* that raised it: each counts once.                                       *)
(***************************************************************************)
EXTENDS Naturals, FiniteSets

CONSTANTS
    Procs,       \* goroutines using the key
    Objects,     \* keyLock allocations; a dropped one may be allocated again
    None         \* no keyLock, no writer

VARIABLES
    entry,       \* lockers[key], or None
    refs,        \* refs[o]: refCount of keyLock o, as the set that raised it
    writer,      \* writer[o]: who has locked the mutex of o
    readers,     \* readers[o]: who has locked it for reading
    pc,          \* where each caller is
    obj          \* obj[p]: the keyLock getLock returned to p

vars == <<entry, refs, writer, readers, pc, obj>>

Calls == {"lock", "try", "rlock"}
Holding == {"writing", "reading"}

TypeOK ==
    /\ entry \in Objects \cup {None}
    /\ refs \in [Objects -> SUBSET Procs]
    /\ writer \in [Objects -> Procs \cup {None}]
    /\ readers \in [Objects -> SUBSET Procs]
    /\ pc \in [Procs -> {"idle", "missed"} \cup Calls \cup Holding]
    /\ obj \in [Procs -> Objects \cup {None}]

Init ==
    /\ entry = None
    /\ refs = [o \in Objects |-> {}]
    /\ writer = [o \in Objects |-> None]
    /\ readers = [o \in Objects |-> {}]
    /\ pc = [p \in Procs |-> "idle"]
    /\ obj = [p \in Procs |-> None]

\* Mutant of GetLock: the map is read before its mutex is taken.
GetLockUnguarded(p, call) ==
    /\ pc[p] = "idle"
    /\ \E o \in Objects :
         /\ \A q \in Procs : obj[q] # o
         /\ entry' = o
         /\ refs' = [refs EXCEPT ![o] = @ \cup {p}]
         /\ obj' = [obj EXCEPT ![p] = o]
    /\ pc' = [pc EXCEPT ![p] = call]
    /\ UNCHANGED <<writer, readers>>

\* getLock, under the mutex of the map: find or make the keyLock, count p.
GetLock(p, call) ==
    /\ pc[p] = "idle"
    /\ \E o \in Objects :
         /\ IF entry # None THEN o = entry ELSE \A q \in Procs : obj[q] # o
         /\ entry' = o
         /\ refs' = [refs EXCEPT ![o] = @ \cup {p}]
         /\ obj' = [obj EXCEPT ![p] = o]
    /\ pc' = [pc EXCEPT ![p] = call]
    /\ UNCHANGED <<writer, readers>>

Free(o) == writer[o] = None /\ readers[o] = {}

\* kl.Lock() returns.
Lock(p) ==
    /\ pc[p] = "lock"
    /\ Free(obj[p])
    /\ writer' = [writer EXCEPT ![obj[p]] = p]
    /\ pc' = [pc EXCEPT ![p] = "writing"]
    /\ UNCHANGED <<entry, refs, readers, obj>>

\* kl.TryLock().
TryLock(p) ==
    /\ pc[p] = "try"
    /\ IF Free(obj[p])
       THEN /\ writer' = [writer EXCEPT ![obj[p]] = p]
            /\ pc' = [pc EXCEPT ![p] = "writing"]
       ELSE /\ pc' = [pc EXCEPT ![p] = "missed"]
            /\ UNCHANGED writer
    /\ UNCHANGED <<entry, refs, readers, obj>>

\* kl.RLock() returns.
RLock(p) ==
    /\ pc[p] = "rlock"
    /\ writer[obj[p]] = None
    /\ readers' = [readers EXCEPT ![obj[p]] = @ \cup {p}]
    /\ pc' = [pc EXCEPT ![p] = "reading"]
    /\ UNCHANGED <<entry, refs, writer, obj>>

\* release: it looks the keyLock up by key and drops it with the last reference.
Release(p) ==
    /\ refs' = [refs EXCEPT ![entry] = @ \ {p}]
    /\ entry' = IF refs[entry] \subseteq {p} THEN None ELSE entry
    /\ obj' = [obj EXCEPT ![p] = None]
    /\ pc' = [pc EXCEPT ![p] = "idle"]

\* Mutant of GiveUp: a TryLock that failed keeps its reference.
GiveUpCounted(p) ==
    /\ pc[p] = "missed"
    /\ obj' = [obj EXCEPT ![p] = None]
    /\ pc' = [pc EXCEPT ![p] = "idle"]
    /\ UNCHANGED <<entry, refs, writer, readers>>

\* The end of a TryLock that failed.
GiveUp(p) ==
    /\ pc[p] = "missed"
    /\ Release(p)
    /\ UNCHANGED <<writer, readers>>

\* Unlock: the mutex of the keyLock found under the key, whoever locked it.
Unlock(p) ==
    /\ pc[p] = "writing"
    /\ writer' = [writer EXCEPT ![entry] = None]
    /\ Release(p)
    /\ UNCHANGED readers

RUnlock(p) ==
    /\ pc[p] = "reading"
    /\ readers' = [readers EXCEPT ![entry] = @ \ {p}]
    /\ Release(p)
    /\ UNCHANGED writer

Step(p) ==
    \/ \E call \in Calls : GetLock(p, call)
    \/ Lock(p) \/ TryLock(p) \/ RLock(p) \/ GiveUp(p) \/ Unlock(p) \/ RUnlock(p)

Next == \E p \in Procs : Step(p)

Spec == Init /\ [][Next]_vars

\* A writer is alone, although the mutex it locked may be dropped from the map
\* and made anew while others come and go (getLock, releaseLock).
Exclusive ==
    \A p, q \in Procs : pc[p] = "writing" /\ pc[q] \in Holding => p = q

\* The map has an entry for the key exactly while a caller needs it: Unlock finds
\* the mutex it has to unlock, and the map does not grow with keys of the past.
EntryWhileUsed == entry = None <=> \A p \in Procs : pc[p] = "idle"

=============================================================================
