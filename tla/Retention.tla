------------------------------ MODULE Retention ------------------------------
(***************************************************************************)
(* The grandfather-father-son planner of backup/retention.py: which copies *)
(* of an inventory are kept.  A copy is [id, created, healthy, pinned];    *)
(* created is a day, and the slot of a day in a window is the period it    *)
(* falls into (a date, an ISO week, a month).                              *)
(***************************************************************************)
EXTENDS Integers, FiniteSets

CONSTANT Period     \* days of a slot, per window

Windows == {"daily", "weekly", "monthly"}

ASSUME PeriodAssumption == Period \in [Windows -> Nat \ {0}]

Slot(w, c) == c.created \div Period[w]

\* The tuple order (created_at, copy_id).
Newer(c, d) == \/ c.created > d.created
               \/ c.created = d.created /\ c.id > d.id

Healthy(copies) == {c \in copies : c.healthy}
Newest(copies) == CHOOSE c \in copies : \A d \in copies \ {c} : Newer(c, d)
LatestHealthy(copies) == IF Healthy(copies) = {} THEN {} ELSE {Newest(Healthy(copies))}

Protected(copies) == {c \in copies : c.pinned} \cup LatestHealthy(copies)

\* The slot of c in window w is free and the window has room for it.
Room(w, c, seen, policy) ==
    Slot(w, c) \notin seen[w] /\ Cardinality(seen[w]) < policy[w]

Eligible(copies) == Healthy(copies)

\* The n-th newest has n - 1 newer ones.
NewestFirst(copies) ==
    [n \in 1..Cardinality(copies) |->
        CHOOSE c \in copies : Cardinality({d \in copies : Newer(d, c)}) = n - 1]
Take(state, c, policy) ==
    LET open == {w \in Windows : Room(w, c, state.seen, policy)}
    IN [seen |-> [w \in Windows |-> state.seen[w] \cup (IF w \in open THEN {Slot(w, c)} ELSE {})],
        keep |-> state.keep \cup (IF open = {} THEN {} ELSE {c})]

\* _assign_gfs_slots: one pass from the newest copy to the oldest.
AssignSlots(copies, policy) ==
    LET turn == NewestFirst(Eligible(copies))
        after[n \in 0..Cardinality(Eligible(copies))] ==
            IF n = 0 THEN [seen |-> [w \in Windows |-> {}], keep |-> {}]
            ELSE Take(after[n - 1], turn[n], policy)
    IN after[Cardinality(Eligible(copies))].keep

\* plan_retention
PlanRetention(copies, policy) ==
    LET protected == Protected(copies)
        keep == AssignSlots(copies, policy) \cup protected
    IN [keep |-> keep, delete |-> copies \ keep, protected |-> protected]

----------------------------------------------------------------------------
\* What the published policy says, slot by slot: a window keeps the newest healthy copy
\* of each of its newest slots, and the windows do not compete with each other.
ByTheBook(copies, policy) ==
    {c \in Healthy(copies) : \E w \in Windows :
        LET newer == {d \in Healthy(copies) : Newer(d, c)}
            slots == {Slot(w, d) : d \in newer}
        IN Slot(w, c) \notin slots /\ Cardinality(slots) < policy[w]}

\* The single pass keeps exactly those, besides the latest healthy copy and the pinned ones.
FollowsPolicy(copies, policy) ==
    PlanRetention(copies, policy).keep = ByTheBook(copies, policy) \cup Protected(copies)
\* Applying a plan and planning again deletes nothing more.
IsStable(copies, policy) ==
    PlanRetention(PlanRetention(copies, policy).keep, policy).delete = {}

=============================================================================
