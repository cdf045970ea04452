--------------------------- MODULE NarDownloadMC ---------------------------
(***************************************************************************)
(* Instances of NarDownload for TLC: which request reaches which server.   *)
(***************************************************************************)
EXTENDS NarDownload, TLC

CONSTANTS s1, s2, r1, r2, r3

\* All requests reach one server.
OneServer == [r \in Requests |-> s1]

\* Two requests, one for each server.
Apart == [r \in Requests |-> IF r = r1 THEN s1 ELSE s2]

\* Requests of the same server are interchangeable.
SameServer == Permutations({r1, r2})

=============================================================================
