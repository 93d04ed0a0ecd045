-------------------------- MODULE MCMutationEngine --------------------------
EXTENDS MutationEngine, TLC
CONSTANTS c1, c2, k1, k2, e1, e2, v0, v1, g1, g2
MCHeads == [e \in {e1, e2} |-> v0]
\* A no-op on the initial state (a one-row change after the other) and a two-row change.
MCPayloads == {(e1 :> v0), (e1 :> v1 @@ e2 :> v1)}
\* Nothing, another generation, or a revision that is yet to come at first.
MCNamed == {[generation |-> None, revision |-> r] : r \in {None, Baseline + 1}}
           \cup {[generation |-> g, revision |-> Baseline] : g \in Generations \ {Active}}
Symmetry == Permutations({c1, c2}) \cup Permutations({k1, k2})
=============================================================================
