----------------------------- MODULE MonthClose -----------------------------
(***************************************************************************)
(* Month closes (close/canonical.py): immutable revisions that freeze the   *)
(* facts of a period at a dataset revision, and the reopenings that allow   *)
(* the next.  A period is a month of MonthLength days.                      *)
(***************************************************************************)
EXTENDS TransferPairing

CONSTANTS MonthLength, Periods

ASSUME MonthAssumption == MonthLength \in Nat \ {0} /\ Periods \subseteq Nat

VARIABLES
    closes,    \* close_revisions
    reopened   \* close_reopenings: the close each names and the mutation it was

MonthOf(day) == day \div MonthLength
Edges(period) == {period * MonthLength, period * MonthLength + MonthLength - 1}

RowsOf(period) == {t \in DOMAIN transactions : MonthOf(transactions[t].clock.day) = period}
UnitsOf(period) == {e \in evidence : e.unit /\ MonthOf(e.day) = period}

\* _reconciliation_inputs: the status of the active allocation of a unit.
StatusOf(e) ==
    LET holding == {a \in Active : e.id \in allocations[a].evidence}
    IN IF holding = {} THEN "none" ELSE allocations[CHOOSE a \in holding : TRUE].status

\* _unresolved, without the review flags of tagging.
Unresolved(period) ==
    [unmatched |-> Cardinality({e \in UnitsOf(period) : StatusOf(e) = "none"}),
     partial |-> Cardinality({e \in UnitsOf(period) : StatusOf(e) = "partial"}),
     currency |-> Cardinality({t \in RowsOf(period) : transactions[t].currency = Unknown}),
     transfer |-> Cardinality({t \in RowsOf(period) :
                     transactions[t].transfer = "null" /\ transactions[t].candidate = "yes"}),
     boundary |-> Cardinality({t \in RowsOf(period) :
                     ~transactions[t].clock.known /\ transactions[t].clock.day \in Edges(period)})]

\* _bucket_totals: a confirmed transfer counts as one whatever its type.
Bucket(t) == IF transactions[t].transfer = "yes" THEN "transfer" ELSE transactions[t].type
Totals(period) ==
    LET known == {t \in RowsOf(period) : transactions[t].currency # Unknown}
    IN [c \in {<<transactions[t].currency, Bucket(t)>> : t \in known} |->
           MapThenSumSet(Amount, {t \in known : <<transactions[t].currency, Bucket(t)>> = c})]

\* compute_close_facts
Facts(period) ==
    [count |-> Cardinality(RowsOf(period)), totals |-> Totals(period),
     unresolved |-> Unresolved(period),
     complete |-> \A name \in DOMAIN Unresolved(period) : Unresolved(period)[name] = 0]

ClosesOf(period) == {c \in closes : c.period = period}
\* _head
Heads(period) == {c \in ClosesOf(period) : \A d \in ClosesOf(period) : d.revision <= c.revision}
Reopened(c) == \E r \in reopened : r.period = c.period /\ r.revision = c.revision

\* _diff over what the model keeps of the report.
Diff(heads, facts, dataset) ==
    IF heads = {} THEN {"initial"}
    ELSE {"dataset_revision" : h \in {g \in heads : g.dataset # dataset}} \cup
         {field \in {"count", "totals", "unresolved", "complete"} :
             \E h \in heads : h.facts[field] # facts[field]}

\* Mutant: a period whose head is still closed may be closed again.
CloseAnyway(period) == TRUE
\* close_period
CanClose(period) == \A h \in Heads(period) : Reopened(h)

NextRevision(period) == IF Heads(period) = {} THEN 1
                        ELSE (CHOOSE h \in Heads(period) : TRUE).revision + 1
\* _append_close: dataset is the revision before the close itself.
NewClose(period, dataset) ==
    [period |-> period, revision |-> NextRevision(period),
     predecessor |-> NextRevision(period) - 1, dataset |-> dataset,
     facts |-> Facts(period), diff |-> Diff(Heads(period), Facts(period), dataset)]

\* reopen_period
CanReopen(period) == Heads(period) # {} /\ \A h \in Heads(period) : ~Reopened(h)
Reopening(period, mutation) ==
    [period |-> period, revision |-> NextRevision(period) - 1, at |-> mutation]
=============================================================================
