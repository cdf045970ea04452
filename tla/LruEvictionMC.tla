--------------------------- MODULE LruEvictionMC ---------------------------
(***************************************************************************)
(* Instances of LruEviction for TLC.                                       *)
(***************************************************************************)
EXTENDS LruEviction, TLC

CONSTANTS h1, h2, h3, x, y

\* h1 and h2 have the same NAR.
TwoShare == (h1 :> x) @@ (h2 :> x) @@ (h3 :> y)

\* Sizes within the smallest window of candidates.
SmallSizes == (x :> 1) @@ (y :> 2)

\* h1 refers to h2, and h2 to h3.
Chain == (h1 :> {h2}) @@ (h2 :> {h3}) @@ (h3 :> {})

=============================================================================
