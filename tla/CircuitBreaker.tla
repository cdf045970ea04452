--------------------------- MODULE CircuitBreaker ---------------------------
(***************************************************************************)
(* The circuit breaker of pkg/circuitbreaker as operators on its state.    *)
(* openedAt is "zero" (closed), "recent" (opened less than the timeout     *)
(* ago) or "past" (the timeout is over: half-open).                        *)
(***************************************************************************)
EXTENDS Naturals

CONSTANT Threshold    \* consecutive failures that open the circuit

Breakers == [failures : 0..Threshold, openedAt : {"zero", "recent", "past"}]

\* New: no failures, closed.
NewBreaker == [failures |-> 0, openedAt |-> "zero"]

\* RecordFailure; the count matters only up to the threshold.
RecordFailure(cb) ==
    IF cb.failures + 1 >= Threshold
    THEN [failures |-> Threshold, openedAt |-> "recent"]
    ELSE [cb EXCEPT !.failures = @ + 1]

\* RecordSuccess: reset and close.
RecordSuccess(cb) == NewBreaker

\* The answer of AllowRequest ...
Allows(cb) == cb.openedAt # "recent"

\* ... and what the call leaves behind: the request that finds the timeout over
\* starts the timeout again.
AllowRequest(cb) == IF cb.openedAt = "past" THEN [cb EXCEPT !.openedAt = "recent"] ELSE cb

\* ForceOpen, for a locker that starts without Redis.
ForcedOpen == [failures |-> Threshold, openedAt |-> "recent"]

\* The timeout passes.
TimedOut(cb) == [cb EXCEPT !.openedAt = "past"]

=============================================================================
