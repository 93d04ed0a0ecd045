------------------------------ MODULE Matching ------------------------------
(***************************************************************************)
(* The matcher of reconcile/nm.py and reconcile/engine.py: which payments   *)
(* may settle which purchase evidence.  Items are [id, day, amount,         *)
(* currency], ids ordered; amounts are integers.  One pass per shape, each  *)
(* taking what the earlier ones left.                                      *)
(***************************************************************************)
EXTENDS Integers, Sequences, FiniteSets, SequencesExt, FiniteSetsExt

CONSTANTS
    Window,          \* days between evidence and payment
    MaxCombo,        \* _MAX_COMBO
    MaxCandidates    \* _MAX_CANDIDATES

ASSUME MatchingAssumption == /\ Window \in Nat
                             /\ MaxCombo \in Nat \ {0, 1}
                             /\ MaxCandidates \in Nat \ {0}

Magnitude(x) == IF x < 0 THEN -x ELSE x
Size(item) == Magnitude(item.amount)
Ids(items) == {item.id : item \in items}

InWindow(e, p) == e.currency = p.currency /\ Magnitude(e.day - p.day) <= Window

\* Orders the code sorts items by: the pairs of a set of which one is before the other.
ById(items) == {p \in items \X items : p[1].id < p[2].id}
ByDate(items) ==
    {p \in items \X items :
        p[1].day < p[2].day \/ (p[1].day = p[2].day /\ p[1].id < p[2].id)}
LargestFirst(items) ==
    {p \in items \X items :
        Size(p[1]) > Size(p[2]) \/ (Size(p[1]) = Size(p[2]) /\ p \in ByDate(items))}

First(S, order) == CHOOSE a \in S : \A b \in S \ {a} : <<a, b>> \in order
\* The n-th has n - 1 before it.
Sorted(S, order) ==
    [n \in 1..Cardinality(S) |->
        CHOOSE a \in S : Cardinality({b \in S : <<b, a>> \in order}) = n - 1]
SizeOf(items) == SumFunction([item \in items |-> Size(item)])

----------------------------------------------------------------------------
(* Combinations of a sorted sequence, in the order itertools yields them:   *)
(* by size, then lexicographically.                                        *)

Combos(s, sizes) == {c \in SUBSET DOMAIN s : Cardinality(c) \in sizes}
Earlier(combos) ==
    {p \in combos \X combos :
        \/ Cardinality(p[1]) < Cardinality(p[2])
        \/ /\ Cardinality(p[1]) = Cardinality(p[2]) /\ p[1] # p[2]
           /\ Min(SymDiff(p[1], p[2])) \in p[1]}
Total(s, c) == SumFunctionOnSet([i \in DOMAIN s |-> Size(s[i])], c)
Members(s, c) == {s[i] : i \in c}
BySize(s) ==
    {p \in (DOMAIN s) \X (DOMAIN s) :
        Size(s[p[1]]) < Size(s[p[2]]) \/ (Size(s[p[1]]) = Size(s[p[2]]) /\ p[1] < p[2])}
Ascending(s) == Sorted(DOMAIN s, BySize(s))
Smallest(s, n) == Total(s, Members(Ascending(s), 1..n))
Greatest(s, n) == Total(s, Members(Ascending(s), (Len(s) - n + 1)..Len(s)))

Limit(s) == Min({Len(s), MaxCombo})

\* _possible_payment_sizes and _possible_evidence_sizes under the exact bounds.
PossibleSizes(s, target) ==
    {size \in 2..Limit(s) : Smallest(s, size) <= target /\ target <= Greatest(s, size)}
PossiblePartialSizes(s, target) ==
    {size \in 1..Limit(s) : 2 * Greatest(s, size) >= target /\ Smallest(s, size) < target}

\* _combo_summing_to
SummingTo(s, target) ==
    LET hits == {c \in Combos(s, PossibleSizes(s, target)) : Total(s, c) = target}
    IN IF hits = {} THEN {} ELSE Members(s, First(hits, Earlier(hits)))

\* _best_partial: the first of the greatest totals below the target, if it covers half.
BestPartial(s, target) ==
    LET below == {c \in Combos(s, PossiblePartialSizes(s, target)) :
                     0 < Total(s, c) /\ Total(s, c) < target}
        best == {c \in below : \A d \in below : Total(s, d) <= Total(s, c)}
        enough == {c \in best : 2 * Total(s, c) >= target}
    IN IF enough = {} THEN {} ELSE Members(s, First(enough, Earlier(enough)))

\* _combo_candidates
Candidates(payments, target) ==
    LET eligible == {p \in payments : Size(p) <= target}
    IN IF Cardinality(eligible) <= MaxCandidates THEN eligible
       ELSE Members(Sorted(eligible, LargestFirst(eligible)), 1..MaxCandidates)

\* _eligible_exact_evidence: none when the amounts' divisor does not divide the target.
Divides(d, x) == \E k \in 0..x : k * d = x
CommonDivisor(S) == Max({d \in 1..Max(S) : \A x \in S : Divides(d, x)})
Eligible(items, target) ==
    LET eligible == {e \in items : Size(e) <= target}
        amounts == {Size(e) : e \in eligible} \ {0}
        possible == IF amounts = {} THEN target = 0 ELSE Divides(CommonDivisor(amounts), target)
    IN IF possible THEN eligible ELSE {}

----------------------------------------------------------------------------
(* The passes.  A state has the evidence and payments left and the groups. *)

Group(evidence, payments, residual) ==
    [evidence |-> Ids(evidence), payments |-> Ids(payments), residual |-> residual]
Take(state, evidence, payments, residual) ==
    [evidence |-> state.evidence \ evidence, payments |-> state.payments \ payments,
     groups |-> state.groups \cup {Group(evidence, payments, residual)}]

\* _match_one_to_one
OneToOne(state, e) ==
    LET matches == {p \in state.payments : InWindow(e, p) /\ Size(p) = Size(e)}
    IN IF matches = {} THEN state ELSE Take(state, {e}, {First(matches, ByDate(matches))}, 0)

\* _match_one_to_many
OneToMany(state, e) ==
    LET near == {p \in state.payments : InWindow(e, p) /\ p.amount <= 0}
        candidates == Candidates(near, Size(e))
        ordered == Sorted(candidates, ByDate(candidates))
        exact == SummingTo(ordered, Size(e))
        chosen == IF exact # {} THEN exact ELSE BestPartial(ordered, Size(e))
    IN IF chosen = {} THEN state ELSE Take(state, {e}, chosen, Size(e) - SizeOf(chosen))

\* _match_many_to_one
ManyToOne(state, p) ==
    LET near == {e \in state.evidence : InWindow(e, p)}
        eligible == Eligible(near, Size(p))
        combo == SummingTo(Sorted(eligible, ByDate(eligible)), Size(p))
    IN IF combo = {} THEN state ELSE Take(state, combo, {p}, 0)

\* _unmatched_evidence
Unmatched(evidence) == {Group({e}, {}, Size(e)) : e \in evidence}

\* A pass takes every item in turn, each on the state the last one left.
Turn(pass, state, item) ==
    CASE pass = "one_to_one" -> OneToOne(state, item)
      [] pass = "one_to_many" -> OneToMany(state, item)
      [] pass = "many_to_one" -> ManyToOne(state, item)
Pending(pass, state) == IF pass = "many_to_one" THEN state.payments ELSE state.evidence
Pass(pass, start) ==
    LET items == Pending(pass, start)
        turn == Sorted(items, ById(items))
        after[n \in 0..Cardinality(items)] ==
            IF n = 0 THEN start ELSE Turn(pass, after[n - 1], turn[n])
    IN after[Cardinality(items)]

Passes == <<"one_to_one", "one_to_many", "many_to_one">>
Offers(state) == state.groups \cup Unmatched(state.evidence)

\* reconcile
Reconcile(evidence, payments) ==
    LET after[n \in 0..3] ==
            IF n = 0 THEN [evidence |-> evidence, payments |-> payments, groups |-> {}]
            ELSE Pass(Passes[n], after[n - 1])
    IN Offers(after[3])

----------------------------------------------------------------------------
(* What the exact bounds must not change: the search over every size.       *)

AllSums(s, target) ==
    LET hits == {c \in Combos(s, 2..Limit(s)) : Total(s, c) = target}
    IN IF hits = {} THEN {} ELSE Members(s, First(hits, Earlier(hits)))
AllPartials(s, target) ==
    LET below == {c \in Combos(s, 1..Limit(s)) : 0 < Total(s, c) /\ Total(s, c) < target}
        best == {c \in below : \A d \in below : Total(s, d) <= Total(s, c)}
    IN IF best = {} \/ (\E c \in best : 2 * Total(s, c) < target) THEN {}
       ELSE Members(s, First(best, Earlier(best)))

\* The bounds by size and by common divisor prune the search and never its answer.
BoundsAreExact(items, target) ==
    LET s == Sorted(items, ByDate(items))
    IN /\ SummingTo(s, target) = AllSums(s, target)
       /\ BestPartial(s, target) = AllPartials(s, target)
       /\ LET eligible == Eligible(items, target)
          IN SummingTo(Sorted(eligible, ByDate(eligible)), target) = AllSums(s, target)
=============================================================================
