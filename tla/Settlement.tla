----------------------------- MODULE Settlement -----------------------------
(***************************************************************************)
(* Purchase evidence and the allocations that settle it with payments       *)
(* (reconcile/canonical.py).  Evidence is purchase-positive and             *)
(* refund-negative, a payment keeps its cash sign.  An allocation reserves  *)
(* every occurrence it names until it is withdrawn.                        *)
(*                                                                         *)
(* An item of evidence carries its whole content, so two items agree on     *)
(* their digest exactly when they are equal; its id stands for namespace    *)
(* and external key.  An allocation is named by its place in the table.     *)
(***************************************************************************)
EXTENDS Imports, Matching

VARIABLES
    transactions,   \* transactions with their derived transfer state
    evidence,       \* reconcile_evidence
    allocations,    \* reconcile_allocations with their evidence and payments
    withdrawn       \* reconcile_withdrawals: the allocations they name

\* Items of evidence as they are submitted; a parent and a transaction may be None.
EvidenceItems == [id : Nat \ {None}, namespace : STRING, day : Int, amount : Int,
                  kind : {"purchase", "order", "line_item", "payment_evidence"},
                  currency : STRING, unit : BOOLEAN, parent : Nat, transaction : Nat]
EvidenceIds == Ids(evidence)
Evidence(id) == CHOOSE e \in evidence : e.id = id
Payment(t) == [id |-> t, day |-> transactions[t].clock.day,
               amount |-> transactions[t].amount, currency |-> transactions[t].currency]

----------------------------------------------------------------------------
(* Importing evidence                                                      *)

Parents(items, e) == {p \in items : p.id = e.parent}
\* The ancestors of e, nearest first, at most as many as there are items.
Ancestors(items, e) ==
    LET reach[n \in Nat] == IF n = 0 THEN Parents(items, e)
                            ELSE reach[n - 1] \cup
                                 UNION {Parents(items, a) : a \in reach[n - 1]}
    IN reach[Cardinality(items)]

\* _validate_evidence, which every commit runs over the whole table.
HierarchyIsValid(items, e) ==
    /\ e.parent # None => e.parent \in Ids(items)
    /\ e \notin Ancestors(items, e)
    /\ \A a \in Ancestors(items, e) :
          /\ a.parent # None => a.parent \in Ids(items)
          /\ a.kind \in {"purchase", "order"}
          /\ ~(e.unit /\ a.unit)
          /\ a.namespace = e.namespace
PaymentAgrees(e) ==
    /\ (e.kind = "payment_evidence") <=> (e.transaction # None)
    /\ e.transaction # None =>
          /\ ~e.unit
          /\ e.transaction \in DOMAIN transactions
          /\ e.amount = -transactions[e.transaction].amount
          /\ e.currency = transactions[e.transaction].currency
EvidenceIsValid(items) ==
    \A e \in items : HierarchyIsValid(items, e) /\ PaymentAgrees(e)

\* import_evidence: all or nothing; content already there under an id must be the same.
CanImportEvidence(items) ==
    /\ \A e \in items : e.unit => e.amount # 0
    /\ \A e, f \in items : e.id = f.id => e = f
    /\ \A e \in items : e.id \in EvidenceIds => e = Evidence(e.id)
    /\ ~(items \subseteq evidence)
    /\ EvidenceIsValid(evidence \cup items)

----------------------------------------------------------------------------
(* Allocations                                                             *)

\* payments_from_snapshot refuses the whole scope for one unknown currency.
PaymentsReadable == \A t \in DOMAIN transactions : transactions[t].currency # Unknown

Active == DOMAIN allocations \ withdrawn
ReservedEvidence == UNION {allocations[a].evidence : a \in Active}
ReservedPayments == UNION {allocations[a].payments : a \in Active}

\* _selection: what it checks and the residual it returns.
Values(eids, pids) ==
    {Evidence(e).amount : e \in eids} \cup {-transactions[t].amount : t \in pids}
Currencies(eids, pids) ==
    {Evidence(e).currency : e \in eids} \cup {transactions[t].currency : t \in pids}
SelectionIsValid(eids, pids) ==
    /\ eids # {} /\ pids # {}
    /\ eids \subseteq EvidenceIds /\ pids \subseteq DOMAIN transactions
    /\ \A e \in eids : Evidence(e).unit
    /\ Unknown \notin Currencies(eids, pids)
    /\ Cardinality(Currencies(eids, pids)) = 1
    /\ \/ \A v \in Values(eids, pids) : v > 0
       \/ \A v \in Values(eids, pids) : v < 0
Residual(eids, pids) ==
    SumFunction([e \in eids |-> Evidence(e).amount])
      + SumFunction([t \in pids |-> transactions[t].amount])

\* Mutant: only the payments of an allocation are reserved.
FreePayments(eids, pids) == pids \cap ReservedPayments = {}
Free(eids, pids) == eids \cap ReservedEvidence = {} /\ pids \cap ReservedPayments = {}

\* confirm_allocation with a reviewed residual.
CanConfirm(eids, pids, expected) ==
    /\ PaymentsReadable
    /\ SelectionIsValid(eids, pids)
    /\ expected = Residual(eids, pids)
    /\ Free(eids, pids)
Allocation(eids, pids) ==
    [evidence |-> eids, payments |-> pids, residual |-> Residual(eids, pids),
     status |-> IF Residual(eids, pids) = 0 THEN "matched" ELSE "partial"]

----------------------------------------------------------------------------
(* reconcile_view                                                          *)

OpenEvidence == {e \in evidence : e.unit /\ e.id \notin ReservedEvidence}
\* Mutant: payments of confirmed allocations are offered again.
AnyPayments == {Payment(t) : t \in {u \in DOMAIN transactions : transactions[u].amount # 0}}
OpenPayments == {Payment(t) : t \in {u \in DOMAIN transactions :
                    transactions[u].amount # 0 /\ u \notin ReservedPayments}}

\* Purchases and refunds apart; the residual of a refund is negative.
Items(open) == {[id |-> e.id, day |-> e.day, amount |-> e.amount, currency |-> e.currency] :
                   e \in open}
Proposals ==
    UNION {{[g EXCEPT !.residual = sign * @] :
               g \in Reconcile(Items({e \in OpenEvidence : sign * e.amount > 0}),
                               {p \in OpenPayments : sign * p.amount < 0})} : sign \in {-1, 1}}

----------------------------------------------------------------------------
(* validate_reconcile over the allocations                                 *)

AllocationIsSupported(a) ==
    /\ SelectionIsValid(a.evidence, a.payments)
    /\ a = Allocation(a.evidence, a.payments)
ReservedOnce ==
    \A a, b \in Active : a # b =>
        /\ allocations[a].evidence \cap allocations[b].evidence = {}
        /\ allocations[a].payments \cap allocations[b].payments = {}
=============================================================================
