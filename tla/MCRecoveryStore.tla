--------------------------- MODULE MCRecoveryStore ---------------------------
EXTENDS RecoveryStore, TLC

MCPeriod == "daily" :> 1 @@ "weekly" :> 2 @@ "monthly" :> 3
Policy(d, w, m) == "daily" :> d @@ "weekly" :> w @@ "monthly" :> m
NoWindows == {Policy(0, 0, 0)}
FewWindows == {Policy(0, 0, 0), Policy(1, 1, 0)}
ManyDaily == {Policy(3, 0, 0)}

Taken(day, facts) == [created |-> day, facts |-> facts]
\* The workspace grows.
G1 == Taken(1, "a" :> 0)
G2 == Taken(2, "a" :> 0 @@ "b" :> 0)
\* It was put back to an older state, then went another way.
Back == Taken(3, "a" :> 0)
Fork == Taken(2, "c" :> 0)
NoFacts == Taken(2, Unreadable)

Growing == {G1, G2}
PutBack == {G2, Back, Taken(4, "a" :> 0)}
Mixed == {G2, Back, Fork, NoFacts}

\* The planner over every inventory of up to three copies: any order of arrival, health
\* and pins, windows that are empty, equal or of different lengths.
ManyPolicies == {Policy(0, 0, 0), Policy(2, 0, 0), Policy(1, 2, 0), Policy(2, 1, 1), Policy(0, 1, 2)}
Copy(n, c) == [id |-> n, created |-> c[1], healthy |-> c[2], pinned |-> c[3]]
ASSUME PlannerAssumption ==
    \A n \in 0..3 : \A f \in [1..n -> (0..3) \X BOOLEAN \X BOOLEAN], policy \in ManyPolicies :
        LET copies == {Copy(i, f[i]) : i \in 1..n}
        IN FollowsPolicy(copies, policy) /\ IsStable(copies, policy)
=============================================================================
