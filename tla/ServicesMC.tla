----------------------------- MODULE ServicesMC -----------------------------
(***************************************************************************)
(* An instance of Services for TLC: which caller runs on which server, and *)
(* with which flags a process may start.                                   *)
(***************************************************************************)
EXTENDS Services, TLC

CONSTANTS c1, c2, c3, s1, s2

\* The first two callers share a server.
OneAlone == (c1 :> s1) @@ (c2 :> s1) @@ (c3 :> s2)

\* A server with CDC, one with other sizes and a key file, one that wants CDC off,
\* and a command without any of the flags.
FourCommandLines ==
    { [enabled |-> "true", sizes |-> <<1, 2, 3>>, keyFile |-> FALSE],
      [enabled |-> "true", sizes |-> <<1, 2, 4>>, keyFile |-> TRUE],
      [enabled |-> "false", sizes |-> <<1, 2, 3>>, keyFile |-> FALSE],
      [enabled |-> "unset", sizes |-> <<0, 0, 0>>, keyFile |-> FALSE] }

=============================================================================
