--------------------------- MODULE LegacyWorkspace ---------------------------
(***************************************************************************)
(* The workspace of CSV files, which the commands use until a repository   *)
(* is active: the import history, one partition per table and month,       *)
(* archived workbooks.  Every command reads whole files, computes, and puts whole   *)
(* files in their place; its lease is shared, so that two commands may do  *)
(* this at the same time, and any of them may die between two files.       *)
(***************************************************************************)
EXTENDS Integers, Sequences, SequencesExt

CONSTANTS
    Processes,
    Workbooks,       \* staged exports, named after a date or not
    Dated,           \* those named after the one date the model has
    RowsOf,          \* the rows of a workbook, by the keys they are deduplicated with
    Sheets,          \* what an ingest reads of a workbook, one after the other: for each
                     \* sheet the tables its rows are appended to, transactions first
    TableOf,         \* the table of a row
    Months,          \* partitions of a table, ordered
    MonthOf,         \* the month of a row
    Counterparts,    \* two-row sets the transfer detection pairs when both are present
    TransferLike,    \* rows whose type says transfer
    Beginnings,      \* what the workspace begins with: one imported workbook or None
    Archivable,      \* workbooks ever imported with --archive (bound)
    Edits,           \* manual edits of the user: a row and a tag
    None,
    MaxCommands      \* bound: commands ever started

Rows == UNION {RowsOf[w] : w \in Workbooks}
TableOrder == FlattenSeq(Sheets)
Named == ToSet(TableOrder)

ASSUME WorkspaceAssumption ==
    /\ Dated \cup Archivable \cup (Beginnings \ {None}) \subseteq Workbooks
    /\ Months \subseteq Nat
    /\ Head(Sheets) = <<"transactions">>
    /\ "archive" \notin Named
    /\ \A r \in Rows : MonthOf[r] \in Months /\ TableOf[r] \in Named
    /\ \A e \in Edits : TableOf[e[1]] = "transactions"
    /\ \A r \in TransferLike : TableOf[r] = "transactions"
    /\ \A p, q \in Counterparts : p # q => p \cap q = {}
    /\ \A p \in Counterparts : p \subseteq TransferLike /\ Cardinality(p) = 2

Idle == [op |-> "idle"]
History == <<"history">>
Partition(table, m) == <<table, m>>
Archive(id) == <<"archive", id>>

VARIABLES
    disk,        \* the files that are there: name -> content
    replaced,    \* names whose file is not the one the last scan of a backup recorded
    proc,        \* the command each process runs, with what it has read
    commands,    \* commands started
    ingested,    \* sources whose ingest has reported success (history variable)
    lost         \* facts that some step has taken out of a file (history variable)

\* One more entry in a function, or another one in place of one.
With(f, x, v) == [y \in DOMAIN f \cup {x} |-> IF y = x THEN v ELSE f[y]]
Empty == [x \in {} |-> None]

workspace == <<disk, replaced, proc, commands, ingested, lost>>

----------------------------------------------------------------------------
(* Files.  A partition maps its rows to their columns; the history maps     *)
(* the paths files were imported from to their records; an archived         *)
(* workbook holds the workbook it is a copy of.                             *)

Content(f) == IF f \in DOMAIN disk THEN disk[f] ELSE Empty
PartitionOf(r) == Partition(TableOf[r], MonthOf[r])
AllPartitions == {PartitionOf(r) : r \in Rows}
\* The partitions tag, transfer and tag --edit find.
Transactions == {f \in AllPartitions : f[1] = "transactions"}
Partitions == Transactions \cap DOMAIN disk
Rank(f) == CHOOSE i \in DOMAIN TableOrder : TableOrder[i] = f[1]
Earliest(S) == CHOOSE f \in S : \A g \in S : f[2] <= g[2]

Tables == {History} \cup AllPartitions
\* What a file says, one fact at a time.
Says(f, content) ==
    CASE f = History -> {<<"record", s, content[s].id>> : s \in DOMAIN content}
      [] f \in AllPartitions -> {<<"row", r, content[r].file_id>> : r \in DOMAIN content} \cup
             UNION {{<<"edit", r, e>> : e \in content[r].manual} : r \in DOMAIN content}
      [] OTHER -> {<<"copy", f, content>>}

\* replace_with_owned_temp: the new file takes the name of the old one at once.
Put(f, content) ==
    /\ disk' = With(disk, f, content)
    /\ replaced' = replaced \cup {f}
    /\ lost' = IF f \in DOMAIN disk THEN lost \cup (Says(f, disk[f]) \ Says(f, content)) ELSE lost

----------------------------------------------------------------------------
(* The sources of an ingest: a staged workbook, or an archived one.         *)

Archived == {f \in DOMAIN disk : f \notin Tables}
Book(source) == IF source \in Workbooks THEN source ELSE disk[source]

Numbered(n) == <<"date", n>>
Digest(source) == <<"digest", source>>
Unused(ids) == {n \in 1..(Cardinality(ids) + 1) : Numbered(n) \notin ids}
\* generate_file_id: the next number of the date, or a digest of the path.
FileId(source, ids) ==
    IF source \in Dated THEN Numbered(Min(Unused(ids))) ELSE Digest(source)

Ids(history) == {history[s].id : s \in DOMAIN history}
Record(id, archived) == [id |-> id, archived |-> archived]

\* _record_import_unleased: a path that is known keeps its id.
Recorded(history, source, archived) ==
    IF source \in DOMAIN history
    THEN [history EXCEPT ![source].archived = @ \/ archived]
    ELSE With(history, source, Record(FileId(source, Ids(history)), archived))

----------------------------------------------------------------------------
(* Starting and ending.                                                     *)

Starts(p, command) ==
    /\ proc[p].op = "idle"
    /\ commands < MaxCommands
    /\ commands' = commands + 1
    /\ proc' = [proc EXCEPT ![p] = command]
    /\ UNCHANGED <<disk, replaced, ingested, lost>>

At(p, op, step) == proc[p].op = op /\ proc[p].at = step
Becomes(p, q) == proc' = [proc EXCEPT ![p] = q]
Step(p, step) == Becomes(p, [proc[p] EXCEPT !.at = step])

\* The rows of a workbook on one sheet, and the partitions rows go to.
RowsOn(sheet, w) == {r \in RowsOf[w] : TableOf[r] \in ToSet(sheet)}
Targets(rows) == {PartitionOf(r) : r \in rows}

\* ingest_file_detailed has read the transactions of the workbook, an archived one by its
\* path, and record_import has loaded the history.
StartIngest(p, source, archive) ==
    /\ archive => source \in Archivable
    /\ Starts(p, [op |-> "ingest", at |-> "record", source |-> source, archive |-> archive,
                  rows |-> RowsOn(Head(Sheets), Book(source)), sheets |-> Tail(Sheets),
                  id |-> None, month |-> None, seen |-> With(Empty, History, Content(History)),
                  todo |-> Targets(RowsOn(Head(Sheets), Book(source)))])

\* tag, transfer and tag --edit list the partitions first and read them in order; none
\* of them has anything to do without partitions.
StartBulk(p, op) ==
    /\ op \in {"tag", "transfer"} /\ Partitions # {}
    /\ Starts(p, [op |-> op, at |-> "read", seen |-> Empty, todo |-> Partitions])
StartEdit(p, r, e) ==
    /\ Partitions # {}
    /\ Starts(p, [op |-> "edit", at |-> "read", seen |-> Empty, todo |-> Partitions,
                  row |-> r, tag |-> e])

\* An exception, Ctrl-C or a kill: what is on disk stays.
Die(p) ==
    /\ proc[p].op # "idle"
    /\ Becomes(p, Idle)
    /\ UNCHANGED <<disk, replaced, commands, ingested, lost>>

----------------------------------------------------------------------------
(* ingest: the history first, the archive if asked for, then the months.    *)

Look(p, f, step) ==
    Becomes(p, [proc[p] EXCEPT !.seen = With(@, f, Content(f)), !.at = step])

\* Mutant: a path that is known is given another id, which its record does not have.
NextId(history, recorded, source) == FileId(source, Ids(history))
\* The id that record_import returns.
ReturnedId(history, recorded, source) == recorded[source].id

RecordImport(p) ==
    LET q == proc[p]
        history == Recorded(q.seen[History], q.source, FALSE)
    IN /\ At(p, "ingest", "record")
       /\ Put(History, history)
       /\ Becomes(p, [q EXCEPT !.id = ReturnedId(q.seen[History], history, q.source),
                               !.at = IF q.archive THEN "archive" ELSE "months"])
       /\ UNCHANGED <<commands, ingested>>

\* archive_source_file: the copy takes the name of the id, whoever had it.
ArchiveSource(p) ==
    /\ At(p, "ingest", "archive")
    /\ Put(Archive(proc[p].id), proc[p].source)
    /\ Step(p, "reload")
    /\ UNCHANGED <<commands, ingested>>

\* The second record_import: it loads the history again, and its id is not used.
ReloadHistory(p) ==
    /\ At(p, "ingest", "reload")
    /\ Look(p, History, "rerecord")
    /\ UNCHANGED <<disk, replaced, commands, ingested, lost>>
RecordArchive(p) ==
    /\ At(p, "ingest", "rerecord")
    /\ Put(History, Recorded(proc[p].seen[History], proc[p].source, TRUE))
    /\ Step(p, "months")
    /\ UNCHANGED <<commands, ingested>>

\* The last three are columns of transactions only.
Imported(id) == [file_id |-> id, manual |-> {}, tagged |-> FALSE, group |-> {}]

\* ingest_asset_snapshots and _write_banksalad_overview open the workbook again, by the
\* path the import began with.
ReadSheet(p) ==
    LET q == proc[p]
        rows == RowsOn(Head(q.sheets), Book(q.source))
    IN /\ At(p, "ingest", "months") /\ q.todo = {} /\ q.sheets # <<>>
       /\ Becomes(p, [q EXCEPT !.rows = @ \cup rows, !.sheets = Tail(@), !.todo = Targets(rows)])
       /\ UNCHANGED <<disk, replaced, commands, ingested, lost>>

\* append_transactions, append_asset_snapshots and _append_partitioned, table by table and
\* a month at a time in no particular order: the partition is read, then replaced if a key
\* is new to it.
ReadMonth(p, m) ==
    /\ At(p, "ingest", "months")
    /\ m \in proc[p].todo /\ \A f \in proc[p].todo : Rank(m) <= Rank(f)
    /\ Becomes(p, [proc[p] EXCEPT !.seen = With(@, m, Content(m)), !.at = "merge",
                                  !.todo = @ \ {m}, !.month = m])
    /\ UNCHANGED <<disk, replaced, commands, ingested, lost>>

NewRows(q) == {r \in q.rows : PartitionOf(r) = q.month} \ DOMAIN q.seen[q.month]
\* Mutant: the partition is written with the new rows alone.
MergedAlone(q) == [r \in NewRows(q) |-> Imported(q.id)]
Merged(q) ==
    LET old == q.seen[q.month]
    IN [r \in DOMAIN old \cup NewRows(q) |-> IF r \in DOMAIN old THEN old[r] ELSE Imported(q.id)]

WriteMonth(p) ==
    LET q == proc[p]
    IN /\ At(p, "ingest", "merge")
       /\ IF NewRows(q) = {} THEN UNCHANGED <<disk, replaced, lost>>
          ELSE Put(q.month, Merged(q))
       /\ Step(p, "months")
       /\ UNCHANGED <<commands, ingested>>

\* The summary of the command.
ReportIngest(p) ==
    /\ At(p, "ingest", "months")
    /\ proc[p].todo = {} /\ proc[p].sheets = <<>>
    /\ ingested' = ingested \cup {<<proc[p].source, proc[p].rows>>}
    /\ Becomes(p, Idle)
    /\ UNCHANGED <<disk, replaced, commands, lost>>

----------------------------------------------------------------------------
(* tag, transfer and tag --edit: read everything, then write.               *)

Bulk == {"tag", "transfer", "edit"}

SeenRows(q) == UNION {DOMAIN q.seen[m] : m \in DOMAIN q.seen}

\* tag_all_transactions: the rules are applied to every row, manual tags stay.
Tagged(content) == [r \in DOMAIN content |-> [content[r] EXCEPT !.tagged = TRUE]]

\* run_transfer_detection: pairs among all rows read, whatever months they are in.
Paired(rows) == {c \in Counterparts : c \subseteq rows}
Linked(content, pairs) ==
    [r \in DOMAIN content |->
        [content[r] EXCEPT !.group =
            IF \E c \in pairs : r \in c THEN CHOOSE c \in pairs : r \in c
            ELSE IF r \in TransferLike THEN {} ELSE @]]

\* _compute_tag_edit: one row of the partition it was found in.
Edited(content, r, e) == [content EXCEPT ![r].manual = @ \cup {e}]

Outcome(q) ==
    CASE q.op = "tag" -> [m \in DOMAIN q.seen |-> Tagged(q.seen[m])]
      [] q.op = "transfer" -> [m \in DOMAIN q.seen |-> Linked(q.seen[m], Paired(SeenRows(q)))]
      [] q.op = "edit" ->
            [m \in {m \in DOMAIN q.seen : /\ q.row \in DOMAIN q.seen[m]
                                          /\ q.tag \notin q.seen[m][q.row].manual}
                |-> Edited(q.seen[m], q.row, q.tag)]

\* Writing begins, or ends, with nothing left to write.
Writing(q, left) == IF left = {} THEN Idle ELSE [q EXCEPT !.at = "write", !.todo = left]

\* get_all_transactions and find_transaction_by_hash, in the order of the months.
ReadNext(p) ==
    LET m == Earliest(proc[p].todo)
        q == [proc[p] EXCEPT !.seen = With(@, m, Content(m)), !.todo = @ \ {m}]
    IN /\ proc[p].op \in Bulk /\ proc[p].at = "read"
       /\ Becomes(p, IF q.todo = {} THEN Writing(q, DOMAIN Outcome(q)) ELSE q)
       /\ UNCHANGED <<disk, replaced, commands, ingested, lost>>

\* write_month, once per month that has rows, in no particular order; nothing holds the
\* months together.
WriteNext(p, m) ==
    /\ proc[p].op \in Bulk /\ proc[p].at = "write" /\ m \in proc[p].todo
    /\ Put(m, Outcome(proc[p])[m])
    /\ Becomes(p, Writing(proc[p], proc[p].todo \ {m}))
    /\ UNCHANGED <<commands, ingested>>

----------------------------------------------------------------------------
\* The files one finished import leaves.
After(w) ==
    LET rows(f) == {r \in RowsOf[w] : PartitionOf(r) = f}
        history == Recorded(Empty, w, FALSE)
    IN With([f \in {PartitionOf(r) : r \in RowsOf[w]} |-> [r \in rows(f) |-> Imported(history[w].id)]],
            History, history)

WorkspaceInit ==
    /\ \E w \in Beginnings :
          /\ disk = IF w = None THEN Empty ELSE After(w)
          /\ ingested = IF w = None THEN {} ELSE {<<w, RowsOf[w]>>}
    /\ proc = [p \in Processes |-> Idle]
    /\ commands = 0
    /\ lost = {}

Ingest(p) ==
    \/ RecordImport(p)
    \/ ArchiveSource(p)
    \/ ReloadHistory(p)
    \/ RecordArchive(p)
    \/ \E m \in AllPartitions : ReadMonth(p, m)
    \/ WriteMonth(p)
    \/ ReadSheet(p)
    \/ ReportIngest(p)

Rewrite(p) ==
    \/ ReadNext(p)
    \/ \E m \in AllPartitions : WriteNext(p, m)

Start(p) ==
    \/ \E source \in Workbooks \cup Archived, archive \in BOOLEAN : StartIngest(p, source, archive)
    \/ \E op \in Bulk : StartBulk(p, op)
    \/ \E e \in Edits : StartEdit(p, e[1], e[2])

WorkspaceNext == \E p \in Processes : Start(p) \/ Ingest(p) \/ Rewrite(p) \/ Die(p)

----------------------------------------------------------------------------
(* Properties.                                                              *)

\* A command takes a row, a manual edit or an import record out of a file only if it was
\* put there after the command had read the file: what a command has seen it keeps, in
\* every interleaving and after any crash (the read-merge-replace of append_transactions,
\* write_month and record_import).
OnlyUnseenIsLost ==
    [][\A f \in {f \in Tables : Content(f) # Content(f)'} :
       \A fact \in Says(f, Content(f)) \ Says(f, Content(f)') :
          \E p \in Processes : /\ proc[p].op # "idle" /\ f \in DOMAIN proc[p].seen
                               /\ fact \notin Says(f, proc[p].seen[f])]_workspace

\* An ingest that reports success has every row of its workbook in the partitions, and
\* every row there names a record of a workbook that has the row, whatever crashed, was
\* retried or overlapped before; the exceptions are facts a step of another command took
\* out (record_import before append_transactions, deduplication by row_hash).
Stored(r) == r \in DOMAIN Content(PartitionOf(r))
EverSaid(s, id) == <<"record", s, id>> \in lost \cup Says(History, Content(History))
EverHeld(s) == {Book(s)} \cup {w \in Workbooks : <<"copy", s, w>> \in lost}
IngestIsAccountedFor ==
    /\ \A i \in ingested : \A r \in i[2] : Stored(r) \/ \E fact \in lost : fact[2] = r
    /\ \A m \in AllPartitions \cap DOMAIN disk : \A r \in DOMAIN disk[m] :
          /\ PartitionOf(r) = m
          /\ \E s \in Workbooks \cup Archived :
                /\ EverSaid(s, disk[m][r].file_id)
                /\ \E w \in EverHeld(s) : r \in RowsOf[w]

=============================================================================
