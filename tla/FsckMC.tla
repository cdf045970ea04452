------------------------------- MODULE FsckMC -------------------------------
(* Two NARs that share a chunk, one narinfo each, and a chunk of no NAR.     *)
EXTENDS Fsck

CONSTANTS h1, h2, n1, n2, c1, c2, c3

MCNarOf == h1 :> n1 @@ h2 :> n2
MCShapes ==
    n1 :> {"absent", "whole", "chunking", "file", "unlinked", "lost", "narinfo",
           "chunked", "gap", "truncated", "lostChunk", "badChunk"} @@
    n2 :> {"whole", "chunked"}
MCOptions == {<<FALSE, TRUE>>, <<TRUE, FALSE>>}
MCContentOf == n1 :> <<c1, c2>> @@ n2 :> <<c2>>
=============================================================================
