------------------------- MODULE MCAuthorityCutover -------------------------
EXTENDS AuthorityCutover, TLC
CONSTANTS w1, w2, w3, g1, g2, d1, d2
\* w3 is an old installation that vouches for the first generation only.
MCTrusts == (w1 :> {g1, g2}) @@ (w2 :> {g1, g2}) @@ (w3 :> {g1})
Symmetry == Permutations({w1, w2}) \cup Permutations({d1, d2})
=============================================================================
