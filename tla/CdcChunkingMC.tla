--------------------------- MODULE CdcChunkingMC ---------------------------
(***************************************************************************)
(* Instances of CdcChunking for TLC.                                       *)
(***************************************************************************)
EXTENDS CdcChunking, TLC

CONSTANTS n1, n2, a1, a2, a3, r1

\* n1 and n2 have a chunk in common.
Shared == (n1 :> <<1, 2, 1>>) @@ (n2 :> <<1, 3>>)

\* One NAR that repeats a chunk.
Single == n1 :> <<1, 2, 1>>

\* Every attempt chunks n1.
Retries == [a \in Attempts |-> n1]

\* Every reader reads n1.
ReadsN1 == [r \in Readers |-> n1]

=============================================================================
