----------------------------- MODULE NarInfoMC -----------------------------
(* One narinfo and its NAR; requests on two servers. *)
EXTENDS NarInfo

CONSTANTS h1, n1, s1, s2, g1, g2, p1, u1, d1

MCNarOf == h1 :> n1
MCHashOf == [r \in Requests |-> h1]
MCServerOf == [r \in Requests |-> IF r \in {g1, p1} THEN s1 ELSE s2]

Configuration(cdc, compression, upstream, uploadOnly, mixes) ==
    { [ cdc |-> cdc, compression |-> compression, upstream |-> upstream,
        uploadOnly |-> uploadOnly, requests |-> mix ] : mix \in mixes }

Mixes == {{g1, g2}, {g1, p1, u1}, {g1, d1}}

\* Uncompressed NARs take part where a purge, an upload or a download meets one.
MCConfigurations ==
    Configuration(FALSE, "xz", TRUE, FALSE, Mixes)
    \cup Configuration(TRUE, "xz", TRUE, FALSE, Mixes)
    \cup Configuration(FALSE, "none", TRUE, FALSE, {{g1, u1}, {g1, d1}})
    \cup Configuration(FALSE, "xz", FALSE, FALSE, Mixes)
    \cup Configuration(TRUE, "xz", FALSE, FALSE, {{g1, g2}})
    \cup Configuration(FALSE, "xz", FALSE, TRUE, Mixes)

\* The row, the legacy file and the NAR: nothing; a narinfo that waits for its
\* migration, or whose migration stopped half way; one that lost its NAR; a file
\* that cannot be parsed.
MCShapes ==
    { <<"absent", "absent", "absent">>, <<"absent", "good", "stored">>,
      <<"placeholder", "good", "stored">>, <<"complete", "good", "stored">>,
      <<"complete", "absent", "stored">>, <<"complete", "absent", "absent">>,
      <<"absent", "good", "absent">>, <<"absent", "bad", "stored">> }

\* Two GETs on two servers can change places, with their servers.  The other mixes
\* have one GET, and no state of theirs is another with the names changed.
MCSymmetry ==
    { f \in Permutations({g1, g2, s1, s2}) :
        {f[g1], f[g2]} = {g1, g2} /\ (f[g1] = g1 <=> f[s1] = s1) }

=============================================================================
