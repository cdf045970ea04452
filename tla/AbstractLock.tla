---------------------------- MODULE AbstractLock ----------------------------
(***************************************************************************)
(* What a lock.Locker promises for one key (pkg/lock/lock.go): Lock and    *)
(* TryLock succeed only while nobody holds the lock, Unlock ends the       *)
(* caller's own hold.                                                      *)
(***************************************************************************)
CONSTANT Procs      \* callers

VARIABLE holders    \* callers between a successful Lock and their Unlock

Init == holders = {}

Acquire(p) == holders = {} /\ holders' = {p}
Release(p) == holders = {p} /\ holders' = {}

Next == \E p \in Procs : Acquire(p) \/ Release(p)

Spec == Init /\ [][Next]_holders

=============================================================================
