----------------------------- MODULE Upstreams -----------------------------
(***************************************************************************)
(* The upstream caches: the health checker, which asks each of them again  *)
(* and again, and the selection of one of the healthy ones for a narinfo   *)
(* or a NAR by a race of HEAD requests (selectUpstream).                   *)
(*                                                                         *)
(* An upstream has the asset, lacks it or fails; what it answers may be    *)
(* different for each request.  Priorities only order the list the race is *)
(* started from, and are left out.                                         *)
(***************************************************************************)
EXTENDS Naturals, FiniteSets, Sequences

CONSTANTS
    Upstreams,
    Requests,     \* calls of getNarInfoFromUpstream or getNarFromUpstream
    None,
    QueueSize,    \* capacity of the channel of health changes
    MaxChanges    \* bound on upstreams that go down or come back

VARIABLES
    added,        \* c.upstreamCaches
    monitored,    \* hc.upstreams
    up,           \* the upstreams that answer
    healthy,      \* isHealthy of each upstream
    todo,         \* what the check that is running has still to ask
    asked,        \* the upstream it has asked and the answer, or None
    changes,      \* the channel of health changes
    pc, asset,    \* of each request; asset[r]: "narinfo" or "nar"
    answer,       \* answer[r][u]: of the probe of u
    ch, errC,     \* the two channels of each request, as sets of upstreams
    errs,         \* the errors received so far, as a set of upstreams
    picked,       \* the upstream selected
    budget

checker == <<added, monitored, healthy, todo, asked, changes>>
request == <<pc, asset, answer, ch, errC, errs, picked>>
vars == <<checker, request, up, budget>>

Outcomes == {"found", "notFound", "error", "canceled"}
Answers == {"unasked", "asking", "yes", "no", "error"}

TypeOK ==
    /\ added \subseteq Upstreams /\ monitored \subseteq added /\ up \subseteq Upstreams
    /\ healthy \in [Upstreams -> BOOLEAN]
    /\ todo \subseteq monitored
    /\ asked = None \/ asked \in Upstreams \X BOOLEAN
    /\ changes \in Seq(Upstreams \X BOOLEAN) /\ Len(changes) <= QueueSize
    /\ pc \in [Requests -> {"idle", "race", "fetch"} \cup Outcomes]
    /\ asset \in [Requests -> {None, "narinfo", "nar"}]
    /\ answer \in [Requests -> [Upstreams -> Answers]]
    /\ ch \in [Requests -> SUBSET Upstreams] /\ errC \in [Requests -> SUBSET Upstreams]
    /\ errs \in [Requests -> SUBSET Upstreams]
    /\ picked \in [Requests -> Upstreams \cup {None}]
    /\ budget \in 0..MaxChanges

Init ==
    /\ added = {} /\ monitored = {} /\ up = Upstreams
    /\ healthy = [u \in Upstreams |-> FALSE]
    /\ todo = {} /\ asked = None /\ changes = << >>
    /\ pc = [r \in Requests |-> "idle"]
    /\ asset = [r \in Requests |-> None]
    /\ answer = [r \in Requests |-> [u \in Upstreams |-> "unasked"]]
    /\ ch = [r \in Requests |-> {}] /\ errC = [r \in Requests |-> {}]
    /\ errs = [r \in Requests |-> {}]
    /\ picked = [r \in Requests |-> None]
    /\ budget = MaxChanges

-----------------------------------------------------------------------------
(* Adding upstreams, and the health checker.                               *)

\* createCache adds all of them, and only then starts to serve.
AddUpstreamCaches ==
    /\ added = {}
    /\ added' = Upstreams
    /\ UNCHANGED <<monitored, healthy, todo, asked, changes, request, up, budget>>

\* The second half of AddUpstreamCaches, after the mutex is released.
AddUpstreams ==
    /\ monitored # added
    /\ monitored' = added
    /\ UNCHANGED <<added, healthy, todo, asked, changes, request, up, budget>>

\* check copies the list, at the start, at a trigger or at a tick.
StartCheck ==
    /\ todo = {} /\ asked = None
    /\ todo' = monitored
    /\ UNCHANGED <<added, monitored, healthy, asked, changes, request, up, budget>>

\* ParsePriority: the nix-cache-info of the upstream, or an error.
ParsePriority(u) ==
    /\ u \in todo /\ asked = None
    /\ asked' = <<u, u \in up>>
    /\ todo' = todo \ {u}
    /\ UNCHANGED <<added, monitored, healthy, changes, request, up, budget>>

\* SetHealthy, and the change is sent unless the channel is full.
SetHealthy ==
    /\ asked # None
    /\ healthy' = [healthy EXCEPT ![asked[1]] = asked[2]]
    /\ changes' = IF asked[2] # healthy[asked[1]] /\ Len(changes) < QueueSize
                  THEN Append(changes, asked) ELSE changes
    /\ asked' = None
    /\ UNCHANGED <<added, monitored, todo, request, up, budget>>

\* processHealthChanges logs the change.
ProcessHealthChange ==
    /\ changes # << >>
    /\ changes' = Tail(changes)
    /\ UNCHANGED <<added, monitored, healthy, todo, asked, request, up, budget>>

-----------------------------------------------------------------------------
(* selectUpstream.                                                         *)

getHealthyUpstreams == {u \in added : healthy[u]}

Goto(r, state) == pc' = [pc EXCEPT ![r] = state]

\* selectUpstream.  None to ask: not found.  One: it is taken without a question.
\* More: all are asked at once.
Select(r, a, ucs) ==
    /\ pc[r] = "idle" /\ monitored # {}
    /\ asset' = [asset EXCEPT ![r] = a]
    /\ CASE ucs = {} -> Goto(r, "notFound") /\ UNCHANGED <<answer, picked>>
         [] Cardinality(ucs) = 1 ->
              /\ picked' = [picked EXCEPT ![r] = CHOOSE u \in ucs : TRUE]
              /\ Goto(r, "fetch")
              /\ UNCHANGED answer
         [] Cardinality(ucs) > 1 ->
              /\ answer' = [answer EXCEPT ![r] =
                               [u \in Upstreams |-> IF u \in ucs THEN "asking" ELSE "unasked"]]
              /\ Goto(r, "race")
              /\ UNCHANGED picked
    /\ UNCHANGED <<checker, ch, errC, errs, up, budget>>

\* getNarInfoFromUpstream, and getNarFromUpstream, which may be told the upstream
\* the narinfo came from.
selectNarInfoUpstream(r) == Select(r, "narinfo", getHealthyUpstreams)
selectNarUpstream(r) ==
    \/ Select(r, "nar", getHealthyUpstreams)
    \/ \E uc \in Upstreams : Select(r, "nar", {uc})

\* A HEAD request: a status below 400 is a yes, a timeout is a no.
Ask(r, u, a) ==
    /\ pc[r] = "race" /\ asset[r] = a
    /\ answer[r][u] = "asking"
    /\ \E answered \in IF u \in up THEN {"yes", "no"} ELSE {"no", "error"} :
         /\ answer' = [answer EXCEPT ![r][u] = answered]
         /\ ch' = [ch EXCEPT ![r] = IF answered = "yes" THEN @ \cup {u} ELSE @]
         /\ errC' = [errC EXCEPT ![r] = IF answered = "error" THEN @ \cup {u} ELSE @]
    /\ UNCHANGED <<checker, pc, asset, errs, picked, up, budget>>

HasNarInfo(r, u) == Ask(r, u, "narinfo")
HasNar(r, u)     == Ask(r, u, "nar")

\* selectUpstream returns: the probes that are still out are canceled, and nobody
\* reads the channels any more.
Return(r, state) ==
    /\ Goto(r, state)
    /\ ch' = [ch EXCEPT ![r] = {}]
    /\ errC' = [errC EXCEPT ![r] = {}]
    /\ errs' = [errs EXCEPT ![r] = {}]
    /\ UNCHANGED <<checker, asset, answer, up, budget>>

\* An upstream comes out of ch: it is returned together with the errors so far,
\* and the callers take any error for a failure.
Receive(r, u) ==
    /\ pc[r] = "race" /\ u \in ch[r]
    /\ picked' = [picked EXCEPT ![r] = u]
    /\ Return(r, IF errs[r] = {} THEN "fetch" ELSE "error")

\* An error comes out of errC; it is kept and the wait goes on.
ReceiveError(r, u) ==
    /\ pc[r] = "race" /\ u \in errC[r]
    /\ errC' = [errC EXCEPT ![r] = @ \ {u}]
    /\ errs' = [errs EXCEPT ![r] = @ \cup {u}]
    /\ UNCHANGED <<checker, pc, asset, answer, ch, picked, up, budget>>

\* Mutant of Closed: ch is closed without waiting for the probes.
ClosedEarly(r) ==
    /\ pc[r] = "race" /\ ch[r] = {}
    /\ Return(r, IF errs[r] = {} THEN "notFound" ELSE "error")
    /\ UNCHANGED picked

\* All probes are over and ch is closed and empty; errors that are still in errC
\* are lost.
Closed(r) ==
    /\ pc[r] = "race" /\ ch[r] = {}
    /\ \A u \in Upstreams : answer[r][u] # "asking"
    /\ Return(r, IF errs[r] = {} THEN "notFound" ELSE "error")
    /\ UNCHANGED picked

\* ctx.Done: the caller has gone.
Cancel(r) ==
    /\ pc[r] = "race"
    /\ Return(r, "canceled")
    /\ UNCHANGED picked

\* A GET request to the upstream selected.
Get(r, a, failure) ==
    /\ pc[r] = "fetch" /\ asset[r] = a
    /\ Goto(r, failure) \/ (picked[r] \in up /\ Goto(r, "found"))
    /\ UNCHANGED <<checker, asset, answer, ch, errC, errs, picked, up, budget>>

\* All that may be wrong with a narinfo (status, syntax, signature, a file size that
\* is missing) is a miss; for a NAR a status other than 404 is an error.
GetNarInfo(r) == Get(r, "narinfo", "notFound")
GetNar(r)     == \E failure \in {"notFound", "error"} : Get(r, "nar", failure)

\* An upstream goes down or comes back.
Change(u) ==
    /\ budget > 0 /\ budget' = budget - 1
    /\ up' = IF u \in up THEN up \ {u} ELSE up \cup {u}
    /\ UNCHANGED <<checker, request>>

Next ==
    \/ AddUpstreamCaches \/ AddUpstreams
    \/ StartCheck \/ SetHealthy \/ ProcessHealthChange
    \/ \E u \in Upstreams : ParsePriority(u) \/ Change(u)
    \/ \E r \in Requests :
         \/ selectNarInfoUpstream(r) \/ selectNarUpstream(r)
         \/ Closed(r) \/ Cancel(r) \/ GetNarInfo(r) \/ GetNar(r)
    \/ \E r \in Requests, u \in Upstreams :
         HasNarInfo(r, u) \/ HasNar(r, u) \/ Receive(r, u) \/ ReceiveError(r, u)

Spec == Init /\ [][Next]_vars

-----------------------------------------------------------------------------
\* A miss is the answer of all: when the race ends without an upstream, none of
\* those that were asked has said that it has the asset, and when it ends with an
\* error one of them has failed (selectUpstream).
MissIsUnanimous ==
    \A r \in Requests : picked[r] = None =>
        /\ pc[r] = "notFound" => \A u \in Upstreams : answer[r][u] \in {"unasked", "no", "error"}
        /\ pc[r] = "error" => \E u \in Upstreams : answer[r][u] = "error"

=============================================================================
