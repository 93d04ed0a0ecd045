---------------------------- MODULE LeaseContract ----------------------------
(***************************************************************************)
(* What a coordination lease promises its holder, whatever threads,        *)
(* processes and nesting are behind it: the shared/exclusive lock the      *)
(* cutover contract asks for ("every legacy and repository write" holds it *)
(* shared, activation and maintenance hold it exclusive).                  *)
(***************************************************************************)
CONSTANT Threads

VARIABLE holds     \* the lease each thread holds: "none", "shared", "exclusive"

Modes == {"shared", "exclusive"}

Init == holds = [t \in Threads |-> "none"]

Compatible(t, mode) ==
    \A u \in Threads \ {t} : /\ holds[u] # "exclusive"
                             /\ mode = "exclusive" => holds[u] = "none"

Acquire(t, mode) ==
    /\ holds[t] = "none"
    /\ Compatible(t, mode)
    /\ holds' = [holds EXCEPT ![t] = mode]

\* A killed process gives up the leases of all its threads at once.
Release(T) ==
    /\ T # {}
    /\ holds' = [t \in Threads |-> IF t \in T THEN "none" ELSE holds[t]]

Next == \/ \E t \in Threads, mode \in Modes : Acquire(t, mode)
        \/ \E T \in SUBSET Threads : Release(T)

Spec == Init /\ [][Next]_holds

=============================================================================
