--------------------------- MODULE TransferPairing ---------------------------
(***************************************************************************)
(* The whole-snapshot recompute of transfer state:                         *)
(* storage/sqlite/bulk_transfer.py and transfer/exact_pairing.py.  Rows are *)
(* classified, the usable ones paired greedily in one total order, and      *)
(* every row's derived state is replaced.  A group is the pair of its       *)
(* members' places in the table.                                           *)
(***************************************************************************)
EXTENDS Settlement

CONSTANTS
    WindowSeconds,   \* time_window_minutes
    Tolerance        \* amount_tolerance, in per mille

ASSUME PairingAssumption == WindowSeconds \in Nat /\ Tolerance \in 0..1000

\* is_transfer_like; rows of before the cutover are told by the word in type_raw, which is the
\* same to all that follows.
TransferLike(t) == transactions[t].type = "transfer"
\* _unsupported_reason: a known zone, a full event time and a known currency.  Known clocks
\* without an offset, which the code pairs among themselves, are left out.
Usable(t) ==
    LET clock == EffectiveClock(transactions[t])
    IN clock.known /\ transactions[t].currency # Unknown
Candidate(t) == TransferLike(t) /\ Usable(t)
Moment(t) == Instant(EffectiveClock(transactions[t]))
Amount(t) == transactions[t].amount

\* A pair is [out, in]: _build_pair
Largest(p) == Max({Magnitude(Amount(p.out)), Magnitude(Amount(p.in))})
Mismatch(p) == Magnitude(Amount(p.out) + Amount(p.in))
Distance(p) == Magnitude(Moment(p.out) - Moment(p.in))
Pairable(p) ==
    /\ transactions[p.out].major = transactions[p.in].major
    /\ transactions[p.out].currency = transactions[p.in].currency
    /\ Amount(p.out) < 0 /\ Amount(p.in) > 0
    /\ Distance(p) <= WindowSeconds
    /\ 1000 * Mismatch(p) <= Tolerance * Largest(p)
Pairs == {p \in [out : {t \in DOMAIN transactions : Candidate(t)},
                 in : {t \in DOMAIN transactions : Candidate(t)}] : Pairable(p)}

\* _candidate_order_key without its texts; _pair_order_key after the ratio.
Key(p) == <<Distance(p), Min({Moment(p.out), Moment(p.in)}), Max({Moment(p.out), Moment(p.in)}),
            Moment(p.out), Magnitude(Amount(p.out)), p.out,
            Moment(p.in), Magnitude(Amount(p.in)), p.in>>
Precedes(k, l) == \E i \in DOMAIN k : k[i] < l[i] /\ \A j \in 1..(i - 1) : k[j] = l[j]
Closer(p, q) ==
    LET left == Mismatch(p) * Largest(q)
        right == Mismatch(q) * Largest(p)
    IN left < right \/ (left = right /\ Precedes(Key(p), Key(q)))

PairMembers(p) == {p.out, p.in}
Share(p, q) == PairMembers(p) \cap PairMembers(q) # {}
\* pair_exact_transfer_candidates takes the pairs from the closest on: one is taken unless a
\* closer one with one of its members was.
Matched ==
    LET pairs == Pairs
        taken[p \in pairs] == ~\E q \in pairs : Share(p, q) /\ Closer(q, p) /\ taken[q]
    IN {p \in pairs : taken[p]}

PairOf(pairs, t) == {u \in DOMAIN transactions : \E p \in pairs : {t, u} \subseteq PairMembers(p)}
Flag(b) == IF b THEN "yes" ELSE "no"
\* Mutant: a row that is in no pair now keeps the state it had.
KeepObsolete(pairs) ==
    [t \in DOMAIN transactions |->
        IF PairOf(pairs, t) = {} THEN transactions[t]
        ELSE [transactions[t] EXCEPT !.candidate = "yes", !.transfer = "yes",
                                     !.group = PairOf(pairs, t)]]
\* _derived_after: every row, so that obsolete state is cleared.
Derived(pairs) ==
    [t \in DOMAIN transactions |->
        [transactions[t] EXCEPT !.candidate = Flag(TransferLike(t)),
                                !.transfer = Flag(PairOf(pairs, t) # {}),
                                !.group = PairOf(pairs, t)]]
=============================================================================
