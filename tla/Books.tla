-------------------------------- MODULE Books --------------------------------
(***************************************************************************)
(* The canonical books of an active repository: account bindings, imports   *)
(* of statements and workbooks (Imports), transfer recompute                *)
(* (TransferPairing), purchase evidence and settlements (Settlement,        *)
(* Matching) and month closes (MonthClose), over one transaction table.     *)
(*                                                                         *)
(* Every command is one mutation of the repository (MutationEngine): it     *)
(* commits whole or not at all, so it is one step.  A command that is       *)
(* refused, or finds nothing to change, leaves every table as it was and is *)
(* no step.  Operators, and several of them, choose commands freely.        *)
(***************************************************************************)
EXTENDS MonthClose

CONSTANTS
    Documents,     \* statement documents; a link row's target is filled in when staged
    Workbooks,     \* XLSX workbooks, each with its rows
    Submissions,   \* sets of evidence submitted together
    Batches,       \* sequences of files a directory may hold
    MaxBindings,   \* bound: account bindings
    MaxRevision    \* bound: mutations of the repository

\* A statement names an external id once (plan_rows).
ASSUME BooksAssumption ==
    /\ Documents \subseteq [source : STRING, rows : Seq(StatementRows)]
    /\ \A d \in Documents : \A i, j \in DOMAIN d.rows :
          d.rows[i].external = d.rows[j].external => i = j
    /\ Workbooks \subseteq [rows : Seq(WorkbookRows)]
    /\ \A items \in Submissions : IsFiniteSet(items) /\ items \subseteq EvidenceItems
    /\ MaxBindings \in Nat /\ MaxRevision \in Nat

VARIABLES
    revision,    \* repository_meta.dataset_revision
    records,     \* record_provenance of statement rows with the transaction each is linked to
    documents,   \* statement documents with an occurrence
    workbooks    \* completed workbook imports with their counts

tables == [records |-> records, documents |-> documents, workbooks |-> workbooks,
           transactions |-> transactions]
imported == <<records, documents, workbooks>>
settled == <<evidence, allocations, withdrawn>>
closed == <<closes, reopened>>
vars == <<revision, bindings, imported, transactions, settled, closed>>

Init ==
    /\ revision = 0
    /\ bindings = <<>>
    /\ records = {} /\ documents = {} /\ workbooks = {}
    /\ transactions = <<>>
    /\ evidence = {} /\ allocations = <<>> /\ withdrawn = {}
    /\ closes = {} /\ reopened = {}

Mutation == revision < MaxRevision /\ revision' = revision + 1

----------------------------------------------------------------------------
(* Files as they can be staged: a decision to link names a transaction that *)
(* is there.                                                               *)

Links(document) == \E row \in ToSet(document.rows) : row.action = "link"
Aimed(document, t) ==
    [document EXCEPT !.rows = [i \in DOMAIN @ |->
        IF @[i].action = "link" THEN [@[i] EXCEPT !.target = t] ELSE @[i]]]
Staged(document) ==
    IF Links(document) THEN {Aimed(document, t) : t \in DOMAIN transactions} ELSE {document}
File(kind, content) == [kind |-> kind, content |-> content]
ASSUME BatchesAssumption ==
    Batches \subseteq Seq({File("statement", d) : d \in Documents}
                            \cup {File("workbook", w) : w \in Workbooks})

----------------------------------------------------------------------------
(* Commands                                                                *)

\* insert_account_binding
BindAccount(k, a, previous) ==
    /\ Mutation
    /\ Len(bindings) < MaxBindings
    /\ a \in Accounts \cup {transactions[t].account : t \in DOMAIN transactions}
    /\ previous # None => previous \in HeadBindings(k)
    /\ bindings' = Append(bindings, [key |-> k, account |-> a, previous |-> previous])
    /\ UNCHANGED <<imported, transactions, settled, closed>>

ImportFile(file) ==
    LET after == Import(tables, file).tables
    IN /\ Mutation
       /\ after # tables
       /\ records' = after.records
       /\ documents' = after.documents
       /\ workbooks' = after.workbooks
       /\ transactions' = after.transactions
       /\ UNCHANGED <<bindings, settled, closed>>

\* apply_bulk_transfer
RecomputeTransfers ==
    /\ Mutation
    /\ transactions' = Derived(Matched)
    /\ transactions' # transactions
    /\ UNCHANGED <<bindings, imported, settled, closed>>

ImportEvidence(items) ==
    /\ Mutation
    /\ CanImportEvidence(items)
    /\ evidence' = evidence \cup items
    /\ UNCHANGED <<bindings, imported, transactions, allocations, withdrawn, closed>>

ConfirmAllocation(eids, pids) ==
    /\ Mutation
    /\ CanConfirm(eids, pids, Residual(eids, pids))
    /\ allocations' = Append(allocations, Allocation(eids, pids))
    /\ UNCHANGED <<bindings, imported, transactions, evidence, withdrawn, closed>>

WithdrawAllocation(a) ==
    /\ Mutation
    /\ a \in Active
    /\ withdrawn' = withdrawn \cup {a}
    /\ UNCHANGED <<bindings, imported, transactions, evidence, allocations, closed>>

ClosePeriod(period) ==
    /\ Mutation
    /\ CanClose(period)
    /\ closes' = closes \cup {NewClose(period, revision)}
    /\ UNCHANGED <<bindings, imported, transactions, settled, reopened>>

ReopenPeriod(period) ==
    /\ Mutation
    /\ CanReopen(period)
    /\ reopened' = reopened \cup {Reopening(period, revision')}
    /\ UNCHANGED <<bindings, imported, transactions, settled, closes>>

Next ==
    \/ \E k \in Keys, a \in Accounts \cup {transactions[t].account : t \in DOMAIN transactions},
          previous \in {None} \cup DOMAIN bindings : BindAccount(k, a, previous)
    \/ \E d \in Documents : \E s \in Staged(d) : ImportFile(File("statement", s))
    \/ \E w \in Workbooks : ImportFile(File("workbook", w))
    \/ RecomputeTransfers
    \/ \E items \in Submissions : ImportEvidence(items)
    \/ \E eids \in SUBSET EvidenceIds, pids \in SUBSET DOMAIN transactions :
          ConfirmAllocation(eids, pids)
    \/ \E a \in DOMAIN allocations : WithdrawAllocation(a)
    \/ \E period \in Periods : ClosePeriod(period) \/ ReopenPeriod(period)

Spec == Init /\ [][Next]_vars

----------------------------------------------------------------------------
(* Properties                                                              *)

AimedBatch(files, t) ==
    [i \in DOMAIN files |->
        IF IsStatement(files[i]) THEN [files[i] EXCEPT !.content = Aimed(@, t)] ELSE files[i]]
StagedBatches ==
    {files \in Batches : \A i \in DOMAIN files : IsStatement(files[i]) => ~Links(files[i].content)}
      \cup {AimedBatch(files, t) : files \in Batches, t \in DOMAIN transactions}
NewRows(receipt) ==
    IF receipt.result # "ok" THEN 0
    ELSE IF "inserted" \in DOMAIN receipt.counts THEN receipt.counts["inserted"]
    ELSE receipt.counts["created"]
Added(receipts) ==
    LET first[n \in 0..Len(receipts)] ==
            IF n = 0 THEN 0 ELSE first[n - 1] + NewRows(receipts[n])
    IN first[Len(receipts)]

\* Previewing a directory gives, file by file, the receipts the run would give,
\* and announces as many new transactions as the run would add (the preview of
\* cli/repository_import.py with its StatementPreviewState).
PreviewPredictsBatch ==
    \A files \in StagedBatches :
        LET run == RunBatch(tables, files)
            preview == PreviewBatch(tables, files)
        IN /\ preview = run.receipts
           /\ Len(run.tables.transactions) = Len(transactions) + Added(preview)

\* All rows of one external id have one content and, where linked, one
\* transaction, whatever documents brought them and in whatever order
\* (_existing_mapping and the decisions of import_statement).
OneTransactionPerExternalId ==
    \A r, q \in records :
        r.source = q.source /\ r.content.external = q.content.external =>
            /\ r.content = q.content
            /\ None \notin {r.transaction, q.transaction} => r.transaction = q.transaction

SameMovement(u, t) ==
    /\ u.type = t.type /\ u.amount = t.amount /\ u.currency = t.currency
    /\ \/ u.clock.day = t.clock.day /\ u.clock.minute = t.clock.minute
             /\ u.clock.second = t.clock.second
       \/ u.clock.known /\ t.clock.known /\ Instant(u.clock) = Instant(t.clock)
\* A workbook never adds a second transaction for a movement that another file
\* has already brought, even when the two state the time in different zones
\* (exact_import/overlap.py).
NoTwinFromWorkbooks ==
    [][\A t \in DOMAIN transactions' \ DOMAIN transactions, u \in DOMAIN transactions :
          transactions'[t].origin = "workbook" => ~SameMovement(transactions[u], transactions'[t])]_vars

\* What reconcile_view offers can be confirmed as offered, every offer at once,
\* and each open unit is in exactly one group: the matcher's absolute residuals
\* and its windows agree with the signed checks of confirm_allocation.
ProposalsConfirm ==
    PaymentsReadable => \A groups \in {Proposals} :
        /\ \A g \in groups : g.payments # {} => CanConfirm(g.evidence, g.payments, g.residual)
        /\ \A g, h \in groups : g # h => /\ g.evidence \cap h.evidence = {}
                                         /\ g.payments \cap h.payments = {}
        /\ UNION {g.evidence : g \in groups} = Ids(OpenEvidence)

\* validate_reconcile accepts every table the commands produce: allocations stay
\* supported by their sources and no occurrence is reserved twice, whatever is
\* imported, recomputed, withdrawn or confirmed later.
SettlementIsValid ==
    /\ \A a \in DOMAIN allocations : AllocationIsSupported(allocations[a])
    /\ ReservedOnce

\* Confirmed transfers come in mutual pairs of opposite sign and one currency,
\* and no two rows a recompute left unpaired could have been paired, through
\* later imports and recomputes (_derived_after clears what is obsolete).
PairingIsSound ==
    /\ \A t \in DOMAIN transactions :
          IF transactions[t].transfer = "yes"
          THEN \E u \in DOMAIN transactions \ {t} :
                  /\ transactions[t].group = {t, u} /\ transactions[u].group = {t, u}
                  /\ transactions[u].transfer = "yes"
                  /\ transactions[t].currency = transactions[u].currency
                  /\ (transactions[t].amount < 0) <=> (transactions[u].amount > 0)
          ELSE transactions[t].group = {}
    /\ \A p \in Pairs : \E t \in PairMembers(p) : transactions[t].transfer \in {"yes", "null"}

\* validate_close, which no commit runs, accepts every history: revisions of a
\* period are contiguous, each later close follows a reopening of its
\* predecessor, pins a later dataset and has a diff that says so.
CloseHistoryIsValid ==
    /\ \A period \in Periods :
          {c.revision : c \in ClosesOf(period)} = 1..Cardinality(ClosesOf(period))
    /\ \A r \in reopened : \E c \in ClosesOf(r.period) : c.revision = r.revision
    /\ \A c, d \in closes :
          c.period = d.period /\ d.predecessor = c.revision =>
              /\ "dataset_revision" \in d.diff
              /\ \E r \in reopened : /\ r.period = c.period /\ r.revision = c.revision
                                     /\ c.dataset < r.at /\ r.at <= d.dataset

\* Every table keeps well-formed rows, and what they name is in its table.
TypeOK ==
    /\ revision \in Nat
    /\ bindings \in Seq(Bindings)
    /\ transactions \in Seq(Transactions)
    /\ \A t \in DOMAIN transactions : transactions[t].group \subseteq DOMAIN transactions
    /\ \A r \in records : r.transaction \in {None} \cup DOMAIN transactions
    /\ withdrawn \subseteq DOMAIN allocations
=============================================================================
