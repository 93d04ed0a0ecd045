------------------------------- MODULE Imports -------------------------------
(***************************************************************************)
(* Importing movements into the canonical transactions: JSON statements    *)
(* with explicit decisions (statements/canonical.py), XLSX workbooks        *)
(* (storage/sqlite/exact_import) and the batch of a directory              *)
(* (cli/repository_import.py), run for real or previewed.                  *)
(*                                                                         *)
(* An import is one mutation, so an operator here takes the tables before   *)
(* it to the tables and the receipt after it.  A preview reads the same     *)
(* tables, writes nothing, and carries its predictions from one file of the *)
(* batch to the next in a StatementPreviewState.                            *)
(*                                                                         *)
(* An amount is an integer, a record's content digest its content, a        *)
(* document's digest the document; a transaction is named by its place in   *)
(* the table.  A clock keeps the precision its source states.               *)
(***************************************************************************)
EXTENDS Integers, Sequences, FiniteSets, SequencesExt

CONSTANTS
    Keys,      \* account keys of statement and workbook sources
    Accounts   \* declared accounts

VARIABLE bindings   \* account_source_bindings: [key, account, previous]

None == 0
Flags == {"null", "yes", "no"}   \* a nullable boolean column
AccountIds == Accounts \cup Int   \* a workbook row may open an account of its own
Bindings == [key : Keys, account : AccountIds, previous : Nat]
Unknown == "unknown"    \* a currency a workbook does not state
NoCategory == "none"    \* a statement states no category

----------------------------------------------------------------------------
(* resolve_account_binding                                                 *)

HeadBindings(k) ==
    {b \in DOMAIN bindings : /\ bindings[b].key = k
                             /\ \A n \in DOMAIN bindings : bindings[n].previous # b}
BoundAccounts(k) == {bindings[b].account : b \in HeadBindings(k)}
Confirmed(k) == Cardinality(BoundAccounts(k)) = 1
BoundAccount(k) == CHOOSE a \in BoundAccounts(k) : TRUE

----------------------------------------------------------------------------
(* Clocks                                                                  *)

Rank == [day |-> 0, minute |-> 1, second |-> 2]
Clocks == [day : Nat, minute : Nat, second : Nat, precision : DOMAIN Rank,
           known : BOOLEAN, zone : Int]
DayOnly(clock) == [day |-> clock.day, minute |-> 0, second |-> 0, precision |-> "day",
                   known |-> FALSE, zone |-> 0]
Instant(clock) ==
    86400 * clock.day + 60 * clock.minute + clock.second - 60 * clock.zone
CivilMatches(a, b, precision) ==
    /\ a.day = b.day
    /\ precision # "day" => a.minute = b.minute
    /\ precision = "second" => a.second = b.second

\* A time inside the date cell leaves the time text empty.
StoredPrecision(row) == IF row.embedded THEN "day" ELSE row.clock.precision

\* effective_at, which the transfer matcher reads: a statement's is its date alone.
EffectiveClock(t) == IF t.origin = "statement" THEN DayOnly(t.clock) ELSE t.clock

\* Mutant: the overlap check reads effective_at too.
DateOfStatement(t) == EffectiveClock(t)
\* _identity_row: a statement's own time, which its observation keeps.
IdentityClock(t) == t.clock

\* Rows of the sources and of the table they are imported into.
StatementRows == [external : STRING, key : Keys, type : STRING, amount : Int,
                  currency : STRING, clock : Clocks,
                  action : {"create", "link", "pending"}, target : Nat]
WorkbookRows == [key : Keys, type : STRING, amount : Int, currency : STRING, clock : Clocks,
                 major : STRING, embedded : BOOLEAN, supported : BOOLEAN]
Transactions == [origin : {"statement", "workbook"}, account : AccountIds,
                 type : STRING, amount : Int, currency : STRING, clock : Clocks,
                 major : STRING \cup {NoCategory}, candidate : Flags, transfer : Flags, group : SUBSET Nat]

----------------------------------------------------------------------------
(* Statements                                                              *)

NoPreview == [mappings |-> <<>>, documents |-> {}, identities |-> <<>>, completed |-> {}]

Content(row) == [external |-> row.external, key |-> row.key, type |-> row.type,
                 amount |-> row.amount, currency |-> row.currency, clock |-> row.clock]

\* _existing_mapping and what the preview adds to it.
Known(tables, preview, source, external) ==
    LET rows == {r \in tables.records : r.source = source /\ r.content.external = external}
        linked == {r.transaction : r \in {q \in rows : q.transaction # None}}
        staged == {m \in DOMAIN preview.mappings : m = <<source, external>>}
    IN [transaction |->
           IF linked # {} THEN CHOOSE t \in linked : TRUE
           ELSE IF staged # {} THEN preview.mappings[<<source, external>>].transaction
           ELSE None,
        contents |-> {r.content : r \in rows} \cup
                     UNION {preview.mappings[m].contents : m \in staged}]

\* _assert_link_target
LinkFits(tables, row) ==
    /\ Confirmed(row.key)
    /\ row.target \in DOMAIN tables.transactions
    /\ LET t == tables.transactions[row.target]
       IN /\ t.account = BoundAccount(row.key)
          /\ t.clock.day = row.clock.day
          /\ t.currency = row.currency
          /\ t.amount = row.amount

RowErrors(tables, preview, document, row) ==
    LET known == Known(tables, preview, document.source, row.external)
        changed == known.contents # {} /\ Content(row) \notin known.contents
        elsewhere == row.action = "link" /\ known.transaction \notin {None, row.target}
        unfit == row.action = "link" /\ known.transaction = None /\ ~LinkFits(tables, row)
    IN (IF changed \/ elsewhere THEN {"conflict"} ELSE IF unfit THEN {"invalid"} ELSE {})

\* The first row that fails stops _resolve_rows.
Refusals(tables, preview, document) ==
    LET failing == {i \in DOMAIN document.rows :
                        RowErrors(tables, preview, document, document.rows[i]) # {}}
        first == {i \in failing : \A j \in failing : i <= j}
    IN UNION {RowErrors(tables, preview, document, document.rows[i]) : i \in first}

\* Mutant: a decision to create is taken whatever the external id is mapped to.
CreateAgain(tables, preview, document, row) ==
    IF row.action = "create" /\ Confirmed(row.key) THEN "created"
    ELSE IF Known(tables, preview, document.source, row.external).transaction # None
         THEN "reused" ELSE "pending"
\* _tally_row
Fate(tables, preview, document, row) ==
    IF Known(tables, preview, document.source, row.external).transaction # None THEN "reused"
    ELSE IF row.action = "pending" \/ ~Confirmed(row.key) THEN "pending"
    ELSE IF row.action = "link" THEN "linked" ELSE "created"

Tally(tables, preview, document) ==
    [fate \in {"created", "linked", "reused", "pending"} |->
        Cardinality({i \in DOMAIN document.rows :
                        Fate(tables, preview, document, document.rows[i]) = fate})]
NewDecisions(counts) == counts["created"] > 0 \/ counts["linked"] > 0

Refused(errors) == [result |-> CHOOSE e \in errors : TRUE]
Receipt(counts, noop) == [result |-> "ok", counts |-> counts, noop |-> noop]

\* _transaction
StatementTransaction(row) ==
    [origin |-> "statement", account |-> BoundAccount(row.key), type |-> row.type,
     amount |-> row.amount, currency |-> row.currency, clock |-> row.clock, major |-> NoCategory,
     candidate |-> "null", transfer |-> "null", group |-> {}]

\* The rows a document or a workbook adds, in their order.
Nth(I, n) == CHOOSE i \in I : Cardinality({j \in I : j <= i}) = n
Created(tables, preview, document) ==
    {i \in DOMAIN document.rows : Fate(tables, preview, document, document.rows[i]) = "created"}
CreatedTransactions(document, I) ==
    [n \in 1..Cardinality(I) |-> StatementTransaction(document.rows[Nth(I, n)])]

\* The transaction row i has or gets; the created ones are named from length on.
TransactionOf(tables, preview, document, i, length) ==
    LET row == document.rows[i]
        fate == Fate(tables, preview, document, row)
        created == Created(tables, preview, document)
    IN CASE fate = "reused" -> Known(tables, preview, document.source, row.external).transaction
         [] fate = "linked" -> row.target
         [] fate = "created" -> length + Cardinality({j \in created : j <= i})
         [] OTHER -> None

\* _apply_row: every row leaves its provenance; a decided one its transaction or link.
AppliedTables(tables, document) ==
    [tables EXCEPT
       !.documents = @ \cup {document},
       !.records = @ \cup
           {[source |-> document.source, content |-> Content(document.rows[i]),
             transaction |-> TransactionOf(tables, NoPreview, document, i,
                                           Len(tables.transactions))] :
               i \in DOMAIN document.rows},
       !.transactions = @ \o CreatedTransactions(document,
                                                Created(tables, NoPreview, document))]

\* import_statement as the command line calls it (skip_recorded).
ImportStatement(tables, document) ==
    LET errors == Refusals(tables, NoPreview, document)
        counts == Tally(tables, NoPreview, document)
    IN IF errors # {} THEN [tables |-> tables, receipt |-> Refused(errors)]
       ELSE IF document \in tables.documents /\ ~NewDecisions(counts)
            THEN [tables |-> tables, receipt |-> Receipt(counts, TRUE)]
            ELSE [tables |-> AppliedTables(tables, document), receipt |-> Receipt(counts, FALSE)]

\* Mutant: a previewed document is remembered, its mappings and transactions are not.
RememberDocument(tables, preview, document) ==
    [preview EXCEPT !.documents = @ \cup {document}]
\* _remember_preview: a created row gets an identity no stored transaction has.
Remember(tables, preview, document) ==
    LET length == Len(tables.transactions) + Len(preview.identities)
        place(m) == CHOOSE i \in DOMAIN document.rows :
                        m = <<document.source, document.rows[i].external>>
        mapped == {<<document.source, row.external>> : row \in ToSet(document.rows)}
        mapping(m) ==
            [transaction |-> TransactionOf(tables, preview, document, place(m), length),
             contents |-> {Content(document.rows[place(m)])}]
    IN [preview EXCEPT
          !.mappings = [m \in mapped \cup DOMAIN @ |-> IF m \in mapped THEN mapping(m) ELSE @[m]],
          !.identities = @ \o CreatedTransactions(document, Created(tables, preview, document)),
          !.documents = @ \cup {document}]

\* _preview_statement
PreviewStatement(tables, preview, document) ==
    LET errors == Refusals(tables, preview, document)
        counts == Tally(tables, preview, document)
        recorded == document \in tables.documents \cup preview.documents
    IN IF errors # {} THEN [preview |-> preview, receipt |-> Refused(errors)]
       ELSE [preview |-> Remember(tables, preview, document),
             receipt |-> Receipt(counts, recorded /\ ~NewDecisions(counts))]

----------------------------------------------------------------------------
(* Workbooks                                                               *)

\* _plausible_overlap of a stored or predicted identity and a workbook row.
CoarserPrecision(p, q) == IF Rank[p] <= Rank[q] THEN p ELSE q
Overlaps(t, row) ==
    /\ t.type = row.type
    /\ t.amount = row.amount
    /\ Unknown \notin {t.currency, row.currency} => t.currency = row.currency
    /\ LET stored == IdentityClock(t)
       IN \/ stored.known /\ row.clock.known /\ Instant(stored) = Instant(row.clock)
          \/ CivilMatches(stored, row.clock,
                          CoarserPrecision(stored.precision, row.clock.precision))

\* _transaction_decision
Disposition(row, identities) ==
    IF ~row.supported THEN "unsupported"
    ELSE IF \E t \in ToSet(identities) : Overlaps(t, row) THEN "quarantined"
    ELSE "inserted"

PlanCounts(book, identities) ==
    [disposition \in {"inserted", "quarantined", "unsupported", "reused"} |->
        Cardinality({i \in DOMAIN book.rows : Disposition(book.rows[i], identities) = disposition})]
\* _noop_counts
CompletedCounts(counts) ==
    [counts EXCEPT !["reused"] = counts["inserted"] + counts["reused"], !["inserted"] = 0]

\* _insert_supported_transaction; an unbound name opens an account of its own.
OwnAccount(t) == -t
WorkbookTransaction(row, t) ==
    [origin |-> "workbook",
     account |-> IF Confirmed(row.key) THEN BoundAccount(row.key) ELSE OwnAccount(t),
     type |-> row.type, amount |-> row.amount, currency |-> row.currency,
     clock |-> [row.clock EXCEPT !.precision = StoredPrecision(row)], major |-> row.major,
     candidate |-> "null", transfer |-> "null", group |-> {}]
Inserted(book, identities, length) ==
    LET I == {i \in DOMAIN book.rows : Disposition(book.rows[i], identities) = "inserted"}
    IN [n \in 1..Cardinality(I) |-> WorkbookTransaction(book.rows[Nth(I, n)], length + n)]

Completions(completed, book) == {c \in completed : c.book = book}
CompletedReceipt(completions) ==
    Receipt(CompletedCounts((CHOOSE c \in completions : TRUE).counts), TRUE)

\* apply_exact_import
ImportWorkbook(tables, book) ==
    LET completions == Completions(tables.workbooks, book)
        counts == PlanCounts(book, tables.transactions)
    IN IF completions # {} THEN [tables |-> tables, receipt |-> CompletedReceipt(completions)]
       ELSE [tables |-> [tables EXCEPT
                !.transactions = @ \o Inserted(book, @, Len(@)),
                !.workbooks = @ \cup {[book |-> book, counts |-> counts]}],
             receipt |-> Receipt(counts, FALSE)]

\* The same with a batch's predictions; remember_preview
PreviewWorkbook(tables, preview, book) ==
    LET completions == Completions(tables.workbooks \cup preview.completed, book)
        identities == tables.transactions \o preview.identities
        counts == PlanCounts(book, identities)
    IN IF completions # {} THEN [preview |-> preview, receipt |-> CompletedReceipt(completions)]
       ELSE [preview |-> [preview EXCEPT
                !.identities = @ \o Inserted(book, identities, Len(identities)),
                !.completed = @ \cup {[book |-> book, counts |-> counts]}],
             receipt |-> Receipt(counts, FALSE)]

----------------------------------------------------------------------------
(* A directory: statements, then workbooks, until one is refused           *)

IsStatement(file) == file.kind = "statement"
Import(tables, file) == IF IsStatement(file) THEN ImportStatement(tables, file.content)
                        ELSE ImportWorkbook(tables, file.content)
Preview(tables, preview, file) ==
    IF IsStatement(file) THEN PreviewStatement(tables, preview, file.content)
    ELSE PreviewWorkbook(tables, preview, file.content)

Stopped(receipts) == receipts # <<>> /\ Last(receipts).result # "ok"

\* _import_path_batch: a file after the ones before it.
RunFile(batch, file) ==
    IF Stopped(batch.receipts) THEN batch
    ELSE LET done == Import(batch.tables, file)
         IN [tables |-> done.tables, receipts |-> Append(batch.receipts, done.receipt)]
PreviewFile(tables, batch, file) ==
    IF Stopped(batch.receipts) THEN batch
    ELSE LET done == Preview(tables, batch.preview, file)
         IN [preview |-> done.preview, receipts |-> Append(batch.receipts, done.receipt)]

RunBatch(tables, files) ==
    LET after[n \in 0..Len(files)] ==
            IF n = 0 THEN [tables |-> tables, receipts |-> <<>>]
            ELSE RunFile(after[n - 1], files[n])
    IN after[Len(files)]
PreviewBatch(tables, files) ==
    LET after[n \in 0..Len(files)] ==
            IF n = 0 THEN [preview |-> NoPreview, receipts |-> <<>>]
            ELSE PreviewFile(tables, after[n - 1], files[n])
    IN after[Len(files)].receipts
=============================================================================
