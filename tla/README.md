# finjuice: a verification project

finjuice is a local-first personal-finance pipeline: it ingests bank exports, tags and links the
transactions, and keeps everything on the user's own disk. Since its storage cutover one SQLite
*generation* is the authority; before it, a tree of CSV files was. This project models the part of
finjuice that must not lose or invent financial facts: who may write, how a write becomes visible,
what a retry does, how decisions of an agent and an operator become facts, and how backups are
delivered, kept and removed. TLC checks the modules on small instances, TLAPS proves the theorems
listed below for every value of the constants.

Source paths are relative to `src/finjuice/pipeline/` of the repository, documents to `docs/`.
`PROJECT.json` maps every definition to the lines it stands for.

Contents: 1 the system, 2 the modules and the code, 3 the runs, 4 fairness, 5 what is proved,
6 disagreements with the documentation, 7 what is not modelled, 8 the plan.

## 1. The system and its parts

Commands are short-lived processes on one machine; there is no server. Two of them, started by
the user, a scheduler or an agent, may run at the same time, each may die at any step, and each is
simply run again. What they share is files: a lease file, `active.json`, SQLite databases in
rollback-journal mode, an immutable object store, recovery stores on other media and the journal
of a delivery job. That is where the hard behaviour is: steps of two processes in an order nobody
wrote a test for, files left half-written, retries of what was already done.

| Part | State it keeps | Operations | Talks to |
| --- | --- | --- | --- |
| Coordination lease (`storage/authority.py`) | per process an RLock, a depth and an exclusive flag; one OS lock per outermost lease | enter shared or exclusive, nest, refuse an upgrade, time out, exit, die | the lease file |
| Storage authority (`storage/authority.py`, `storage/read_facade.py`) | `active.json` | resolve, legacy write lease, repository binding, read snapshot, maintenance lease | lease, evidence of the release |
| Mutation boundary (`storage/sqlite/mutations.py`, `storage/mutation_facade.py`) | repository meta, heads, idempotency rows, changesets, audit events | pin, look, request, preview, replay, execute, retry | lease, authority, object store, SQLite |
| Agent intake (`storage/sqlite/intake_*.py`) | proposals, decisions, applications, lineage | submit, revise, withdraw, confirm, view | mutation boundary, typed facts |
| Typed facts (`account_bindings.py`, `account_decisions.py`, `asset_meanings.py`) | append-only assertions, each correcting an earlier one | confirm, correct, resolve | mutation boundary |
| Recovery store (`storage/sqlite/recovery_store.py`) | bundles, tombstones, intents, the registration of baselines | capture, receive, protect, restore, prune | store lease, retention, coverage |
| Retention (`backup/retention.py`), coverage (`backup_coverage.py`) | none | plan; compare the committed records of two copies | recovery store, legacy backup |
| Backup delivery (`storage/sqlite/backup_delivery*.py`) | descriptor, attempts with their stage files, success cache | run, status | two recovery stores, the workspace |
| Imports (`statements/canonical.py`, `storage/sqlite/exact_import*.py`, `cli/repository_import.py`) | account bindings, transactions, record provenance, statement and workbook imports | bind a source key, import a statement, a workbook or a directory, preview each | mutation boundary |
| Reconciliation (`reconcile/nm.py`, `engine.py`, `canonical.py`) | purchase evidence, allocations, withdrawals | import evidence, propose, confirm, withdraw | transactions, mutation boundary |
| Transfer pairing (`transfer/exact_pairing.py`, `storage/sqlite/bulk_transfer.py`) | the transfer columns of the transactions | recompute everything | transactions, mutation boundary |
| Month close (`close/canonical.py`) | close revisions and reopenings | close, reopen, view | transactions, evidence, allocations, mutation boundary |
| Legacy workspace: storage, ingestion, import history, tagging, transfer detection (`storage/csv_*.py`, `ingest/`, `metadata/`, `tagging/`, `transfer/detection*.py`) | monthly CSV partitions, import history, archived workbooks | ingest, archive, tag, edit, detect transfers | legacy write lease |
| Legacy full backup (`backup/`) | a published directory | create, verify, restore | the files of the workspace |
| Exports, analytics, command line | none of their own | pure computation over rows, rendering | all of the above |

What makes each of the modelled parts correct:

- *Lease.* Whoever is inside an exclusive lease is alone over all threads and processes, at any
  nesting; the registry and the OS lock describe the leases in use after every refused upgrade,
  timeout and death; nobody waits for themselves.
- *Authority.* After a cutover the legacy tree never changes again, even by a writer that had
  chosen the legacy path before; a repository mutation is only ever bound to the active
  generation, and a configuration head never refers to an object of another generation's store.
- *Mutation boundary.* A key applies at most once over any number of retries; row, changeset,
  audit event, revision and receipt appear together or not at all; a user who confirmed a content
  changes that content or is refused; the history alone explains the state.
- *Intake.* Each proposal is decided once, a line of revisions has one open end, what is applied is
  what was judged, and a correction descends from the fact it corrects.
- *Recovery store.* No committed fact leaves the store with the last copy that holds it, protected
  copies stay, readers keep their copy, and an interrupted removal can be finished by any later
  prune.
- *Imports.* A record of a source becomes one transaction however often, in whatever order and in
  whichever overlapping documents it arrives; a workbook never adds a row that is already there
  under another clock; a preview of a directory predicts what importing it does.
- *Reconciliation.* An occurrence settles or is settled once, over all active allocations, for the
  amount the status says; a match the report calls certain is one the confirmation accepts.
- *Transfers.* The two rows of a confirmed pair belong to each other and to nobody else, and no pair
  that could still be made is left unmade.
- *Month close.* The revisions of a month are a chain without gaps, each closed before it is
  reopened and reopened before it is closed again, and each pins a dataset of the past.
- *Legacy workspace.* Commands under a shared lease may overwrite each other's files, but never
  something they had read; whatever fails in between, a row leads to a recorded workbook that has
  it, and an import that reports success has the rows of all its sheets stored.
- *Full backup.* What is published is the workspace of one instant of the attempt, or nothing is.
- *Delivery.* A recorded success is real: both stores held copies that covered what was committed
  when the attempt began. No failure erases a success, and the status never reports a mixture.

## 2. The modules and the code

`MutationEngine` follows a request through `execute_generation_mutation`: BEGIN IMMEDIATE, the
lookup of the idempotency row, the preconditions, the reservation, the handler (publish objects,
select heads, record deltas), history and audit, the revision, the receipt, COMMIT, the return.
Every place between two of these steps is a state because an exception, an interrupt or a crash can
fall there. SQLite is external: `db` is what is committed, `tx` the writer's copy, `writer` who
holds the lock. A domain row is a member of `Entities`, its bytes a member of `Values`. Around the
engine each client acts as `mutation_facade` lets it: it pins an identity (naming a generation or a revision of
its own, be it one that is yet to come, or nothing; or it leaves the pin out, and the facade reads
the revision when the request is built), shows the user the content, asks, and
remembers its request for a retry. `ConfirmedViewIsCurrent` is about identities that were there when
they were pinned; an identity of the future is the caller's own word. `MutationLedger` is what callers are promised: an indivisible,
append-only ledger that the detailed engine implements with one step per COMMIT.

`CoordinationLease` models `__enter__` and `__exit__` with the two locks; `Enter` to `AcquireLocal`
or `TimeOutLocal` is the RLock, `AcquireOs` and `AbandonOs` the polling of the OS lock.
`LeaseContract` is the shared/exclusive lock it has to be. `SharedLocks` is FALSE for Windows, where
a shared lease is taken as an exclusive one; the theorems cover both values.

`AuthorityCutover` uses the contract (`Lease == INSTANCE LeaseContract`) and models dispatch
without the lease, the second look under it (`require_legacy_authority`,
`require_repository_binding`), the evidence of the installed release (`Trusts`), readers and
maintenance. Activation is external, since no command of the repository performs it.

`Retention` is the whole planner of `backup/retention.py` as an operator: one pass over the
inventory, newest first, with three windows. The published policy, slot by slot, is written next to
it; `RecoveryStoreProofs` proves that the two agree and that a plan applied once deletes nothing
more, and `MCRecoveryStore` has TLC evaluate the same over every inventory of up to three copies.
`CommitCoverage` is the relation between the committed facts of two copies and the choice of the
copy that has to stay. Both are used by `RecoveryStore`, which takes each command of
`recovery_store.py` apart into its file-system steps: intent created, intent written, copy renamed
to a tombstone, tree removed, intent forgotten; bundle published, then registered. Directories are
(name, inode, health, facts), and an inode is never used twice. The store lease is a guard:
captures, receives and restores share it, prune and protect need it alone. Environment actions
damage a copy, put a directory back by hand or lose the registration. Staging directories left by
dead commands are not in the model: no command looks at them.

`BackupDelivery` is `run_backup_delivery` with every file it writes: the descriptor, the six stage
files of an attempt (each created, then filled), the success cache; every stage has its failure
path. `status` reads the same files one by one without the execution lock. A store is a function
from copies to facts, together with its capture-started marker and the baselines of its
registration. Publication into one is the steps a crash can fall between: the marker of a first
publication (`CaptureBegin`, `TransferBegin`), the graph (`Capture`, `Transfer`), its registration as
the baseline (`CaptureRegister`, `TransferRegister`), and for the destination the verification of
what has arrived (`TransferEnd`). `Admits` is `_admit_capture_registration`: it refuses a store that
was started and never registered, and one that has lost a baseline; the latter is not listed either
(`ValidBaselines`), so nothing in it counts as delivered. Baselines that `store protect` adds, and
what a prune does, are in `RecoveryStore` only. Which of several covering copies is compared is left
open (the code takes the one of the highest revision). A status command lists the attempts, then reads each; a directory that was
listed and is gone when it is read counts as an empty one (`Gone`). Three history variables serve
the properties: the copies a store has ever held (`held`), the attempts that said they finished, in
that order (`order`), and what the journal said when the attempt at work began (`before`).

`IntakeDecisions` treats each command as one mutation, which `MutationEngine` justifies: it
commits at the revision it names or not at all. Evidence, digests and payloads are reduced to what
the rules look at: the target, the head a typed decision names, whether uncertainties are left, and
the revision the proposal is to be judged at. Operators choose from views they read earlier, so
any fact may be named. The intervals of two ownership assertions of an account are taken to overlap.
`validated_lineage` is not called when a mutation commits, only by the views and the full
validation, so that it accepts every reachable state is a property and not a guard. The line of a
fact, which the code walks backwards link by link, is the least set that holds the fact and the
predecessor of every member (`Backward`, `Line`): the same set without the recursion.

The books are one family of modules over one transaction table, each extending the one before it:

- `Imports`: the binding of a source key to an account (append-only, corrected by a successor), the
  planning of statement rows with their explicit decisions (create, link, keep pending), their
  deduplication by external id and by the twin test of a workbook row (same type, amount and
  currency, clocks that agree as far as both are known), and the state a batch preview carries from
  one file to the next. An import is an operator from the tables before to the tables and receipt
  after, so that the real import and the preview are the same kind of thing and can be compared.
- `Matching`: the matcher, pass by pass (one to one, one to many, many to one, unmatched), each in the
  order of the code and with its pruning. An order is the set of pairs of which one is before the
  other, so that the first member and the sequence of a set are defined by it and not by how they are
  found. That the pruned search finds what the full search over all combinations finds
  (`BoundsAreExact`) is evaluated by TLC on small sets of items (an assumption of `MCBooks`) and
  proved for all of them.
- `Settlement`: evidence with its hierarchy, allocations that reserve what they name, withdrawals.
- `TransferPairing`: the classification of rows and the greedy pairing in one total order. The loop
  over the sorted candidates is said by what it decides: a pair is taken unless a closer pair with
  one of its rows is (`Matched`).
- `MonthClose`: the frozen facts of a period, its head, its successors and its reopenings.
- `Books` has one action per command. A command is one mutation of the repository, which
  `MutationEngine` justifies: it commits at its revision or not at all; a command that is refused or
  changes nothing is no step.

Amounts are integers, so scale and lexical form are not seen; the texts that only break ties in the
pairing order are dropped and rows are ordered by their place, which is the code's last key; account
namespaces are folded into the names of source keys; the work limits at which the matcher gives up
with an error are left out.

`LegacyWorkspace` is what the commands share before a cutover: whole files, each replaced by one
rename under a lease that others may hold too. `ingest` records the import, archives the workbook
and records that if asked to, then reads, merges and replaces one partition after another, of the
transactions first and then of each further sheet of the workbook, which it opens again; `tag`,
`transfer` and `tag --edit` read all partitions first and write their months one by one. Each
process carries what it has read (`seen`), and dies anywhere. `lost` remembers what a step took out
of a file, so that a property can tell the overwriting of something unseen, which the code accepts,
from the loss of something seen. A row is its hash; the pairs that the detection finds are given
(`Counterparts`), the rules of tagging are one flag. The sources of an import are staged workbooks,
with a date in their name or not, and archived ones. `LegacyBackup` is the full backup next to
these writers: it visits every name in the order of the scan, copies, visits again and publishes by
a rename. A scan records content and identity of a file; `replaced` holds the names whose file is
not the recorded one any more, whatever it contains. The scan order is a constant that respects the
directories (`Order`, `OrderAssumption`). Whether a file is there is looked at when it
is visited, where the code lists its directory a little earlier. Copies of archived workbooks keep
the time of their workbook, so the comparison with the manifest of an earlier backup sees their
content only (`Matches`); it would take three imports with one id in flight to bring an archive
back to what it was, and the instance has two processes. A run ends with its last backup (`Over`):
what commands do afterwards they also do in the runs without one. The audit log and the schema
version, single files that commands append or replace, are left out.

The `MC*` modules give the constants their values.

## 3. The runs

Every property has a mutant: a plausible bug in one mapped definition with which TLC finds it
violated. The definitions marked `\* Mutant:` exist for that only.

| Run | What it asks | Instance and why it is enough |
| --- | --- | --- |
| `mutation_engine` | `HistoryExplainsHeads`, `AtMostOncePerKey`, `PublishedTogether`, `ConfirmedViewIsCurrent`, `HeadsHaveObjects`, `ReceiptIsPublished`; `ImplementsLedger`: every COMMIT is a step of `MutationLedger` | two clients, two keys, an active and a foreign generation, revisions that are read, named again from an earlier request or named ahead of time, a no-op, a one-row and a two-row change, a dataset that starts at revision 2. Two clients give every race for the lock; two keys a retry next to a fresh request |
| `mutation_engine_live` | `WriterReleases`, `RequestIsAnswered` | two clients, one key, one generation |
| `coordination_lease` | `ExclusiveIsAlone`, `RegistryMatchesLeases`, `ImplementsContract`, `EntryEnds` | two threads of one process and one of another, nesting up to three (an inner lease of an inner lease) |
| `authority_cutover` | `LegacyIsFenced`, `HeadIsInOwnStore`, `OnlyActiveIsWritten` | three processes (a writer, a maintainer and a reader or second writer), two generations, one process that trusts only one of them |
| `recovery_store` | `FactsKept`, `BaselinesStay`, `TombstonesExplained`, `ReadersKeepTheirCopy`, `BootstrapCoversStore` | three names; comparable, forked, put-back and unreadable copies; policies with and without windows; one fault at any step; the planner over every inventory of three copies on four days, any health and pins, five policies (`PlannerAssumption`) |
| `recovery_store_live` | `CleanupIsResumed` | two names, two faults, one intent: a prune resumes every intent before it writes another, so there is never a second |
| `recovery_reviewed` | `ReviewedPlanIsObeyed`, violated, see 6 | three copies, a policy with three daily slots |
| `backup_delivery` | `SuccessIsReal`, `FailureKeepsSuccess`, `ReportIsFresh` | two attempts (an older and a newer success or failure), one fact with two contents (so facts can conflict), two copy names, one fault at any step, those of a first publication included |
| `backup_delivery_live` | `Delivers`: everything committed is delivered in the end, or the fault has left a torn descriptor or a closed store | three attempts, one more than a fault and a commit can spoil |
| `intake_decisions` | `LineageIsValid`, `DecidedOnce`, `AppliedAsJudged`, `CorrectionInLine` | a target of each kind; five mutations: submit, confirm, revise, confirm and one in between |
| `books` | `OneTransactionPerExternalId`, `NoTwinFromWorkbooks`, `PreviewPredictsBatch`, `SettlementIsValid`, `ProposalsConfirm`, `PairingIsSound`, `CloseHistoryIsValid` | five mutations in any order of every command: a statement, its pending, changed and linking forms; three workbooks (one holding a statement's row under another clock, one a better counterpart of a transfer, one an unknown currency); three submissions of evidence with parents and netting; five batches; one month of three days to close, with rows on both sides of its edge (closing is per month, and `BooksProofs` has every set of months) |
| `legacy_backup` | `OnlyUnseenIsLost`, `IngestIsAccountedFor`, `BackupIsSnapshot` | two processes and two commands, next to a full backup; two workbooks of one date that overlap in a row (so ids collide and rows are deduplicated), one of which has a second sheet; a pair whose legs are in two workbooks and two months, a manual edit; a workspace that is empty or holds an import, an output that is there already or not |

Bounds: `MaxRevision`, `MaxBindings`, `MaxLegacy`, `MaxNesting`, `MaxInode`, `MaxFaults`, `MaxCopies`,
`MaxCommands`, `MaxBackups`, `Archivable` (what is ever imported with `--archive`), the sets of
names, keys, attempts and days. They stand in guards, so a run stops at them; that is why
`CHECK_DEADLOCK FALSE` is set where everything may be used up (recovery store, delivery, intake,
books, legacy backup). The numbers of the books are scaled down so that their limits are met: a matching window of
one day, combinations of three items at most, two candidates before a search is called ambiguous,
five minutes and one per cent between the rows of a transfer.
`MaxFaults = 1` means one fault per behaviour, wherever it falls; the live run of the store allows
two. `SteadyClock` keeps the wall clock from running backwards in `backup_delivery`: with a clock
that steps back the reader may pick an older success and find the cache not matching it, and then
calls the history unknown, which is its documented fallback.

## 4. Fairness

- *Engine*: a running process keeps executing its own straight-line code. Commands that start are
  not fair, retries are not fair, crashes may happen for ever. COMMIT may be kept out by readers;
  then SQLite's busy timeout fails the request, so fairness is on "commit or fail".
- *Lease*: a polling thread polls on until its deadline. Nobody has to give a lease back.
- *Recovery store*: prunes run on, readers leave, commands return, and the command is given again
  (strong fairness, since other commands may take the lease in between). The property assumes that
  the store is free again and again, because the lease has a timeout and no queue.
- *Delivery*: the job is run again while something is pending (the scheduler) and a store that was
  unmounted is mounted again. A step that the code refuses is a step too (`CaptureRefused`,
  `TransferRefused`): it fails the attempt and the next one starts over. Faults are bounded, as they
  must be for anything to be delivered. Two things a fault may leave are refused by every later run,
  and `Delivers` names them. One is a torn descriptor (section 6). The other is a closed store
  (`Closed`), whose first capture or receive was interrupted or failed between the marker and the
  registration, whose registration is lost, or whose baseline is. The documentation says as much: a
  first publication that was interrupted needs a new store
  (`development/ssot-recovery-store.md:30-33`, `development/ssot-backup-delivery.md:36-38`), which a
  job gets by another control directory too, since the descriptor names the stores; here that is a
  new instance of the model. The exception ends where what the store lists still covers the
  workspace, and it asks for a fault: without one no first publication is left half done.

## 5. What is proved

The theorems hold for every value of the constants under the named assumptions in the modules
(constants have their types, `None`, `Absent`, `Torn` and `Held` are distinct from the data).

Every module below has its type invariant proved (`...TypeCorrect`), so no run repeats it.

*`MutationEngineProofs`*: `AtMostOncePerKey`, `PublishedTogether`, `ReceiptIsPublished`,
`ConfirmedViewIsCurrent`. None of them is inductive: what is committed was built step by step in the
writer's copy, and what a caller holds was built from a row that may by then belong to another
transaction. The invariant `IInv` says, for every stage of a request, exactly how `tx` differs from
`db` (`Stage`), that the rows, changesets and audit events of `db` belong together (`TablesInv`),
that only the lock holder is inside a transaction (`LockInv`), what an answer is worth (`AnswerInv`)
and what a pinned client has seen (`View`). Pinned means pinned to a revision there was: whoever names
one that is yet to come is served when it is reached, on content its user was not shown. `Outside`, `RolledBack` and `Inside` carry the
relation through the steps that do not build it; `CommitFacts` is the heart: what COMMIT publishes
is one complete request.

The same module proves `HeadsHaveObjects` and `ImplementsLedger`, the refinement: the initial
state of the engine maps to one of the ledger and every step to one ledger step or none. The
invariants it adds say what a handler has done so far: the rows of `tx` that differ from the
committed ones are rows of the payload with its content, and the recorded deltas are exactly their
changes (`HandlerInv`); committed and uncommitted heads name published objects (`ObjectsInv`).
`HistoryExplainsHeads` rests on them (`HistoryInv`): each entry starts from what the entry before it
left, for any number of entries, since COMMIT appends one changeset whose deltas start from the heads
at its BEGIN (`ExplainsAppend`).

*`CoordinationLeaseProofs`*: `ExclusiveIsAlone`, `RegistryMatchesLeases`,
`ImplementsContract`, and that one thread of a process at most is inside a lease
(`OneHolderPerProcess`). The invariant ties the stack of modes, the registry and the OS lock
together; the point is that an exclusive mode deeper in a stack implies one at its bottom, so that
the OS lock of the outermost lease excludes everybody else.

*`AuthorityCutoverProofs`*: `LegacyIsFenced`, `BoundIsActive`, `HeadIsInOwnStore`,
`OnlyActiveIsWritten`. What a process saw of the pointer before it had the lease (`RouteInv`) is worth
nothing; what it resolved under the lease (`BindingInv`) stays true while it holds it, because a
process past the door holds the lease in the mode of its path (`DoorInv`) and activation needs it
exclusively (`ExclusiveInv`).

*`RecoveryStoreProofs`*: `BaselinesStay`, `TombstonesExplained`, `ReadersKeepTheirCopy`, `FactsKept`,
`BootstrapCoversStore`.
The prune acts on a plan of an inventory that may be old; the strengthening says what each place
of a prune still knows: the plan spares the baselines, the resumed intents were examined, the
intent at work names the copy that was inspected, and inodes are fresh, so a directory that
reappears under a name is recognised. `FactsKept` needs one more chain (`KeptInv`): the copies the
plan keeps are still there with what was seen in them, and what is removed was seen healthy and
removable. Then the lemma `LatestCovers` ends it: among finitely many comparable copies the one
`RetentionLatest` chooses covers every other, by the well-foundedness of the two strict orders it
maximises. `BootstrapCoversStore` rests on `FirstInv`: whoever is to register the first baseline is
alone with it.

The planner of `Retention` is proved against its published policy as well, for any finite inventory
(`Inventoried`: `plan_retention` refuses a name twice), any policy and any length of the periods:
`RetentionFollowsPolicy` and `RetentionIsStable`. The pass is a recursive function over the copies
from the newest on, and the induction is over its turns (`PassByTheBook`): what a window has seen
after a turn is all the slots of the copies taken, or a window's worth of them (`SeenIs`), so there
is room for the next copy exactly if the policy wants it. `StoreWindowsKept` carries it over to the
store: no prune, resumed or not, takes a copy that a window of its policy keeps (`WindowsKept`), and
those copies stay as it saw them (`FillingStays`). It is part of `KeptInv`, through `Kept`. The last
copy by time is exempt, as section 6 says. `PlanFills` shows that pins do not matter to the windows.

*`BackupDeliveryProofs`*: `SuccessIsReal`, `ReportIsFresh`, `FailureKeepsSuccess`. For the first,
the worker's local variables, every stage file it has ever written and the history of both stores
agree, stage by stage (`IInv`, which also says what the copy is that a publication under way has
placed but not yet registered or verified: `Placed`); files that are half-written, and attempts that were removed, only
weaken the reader's view. The other two compare what the journal says at two moments, so they need
to know what it says (`JournalInv`): the log `order` is in line with the files that are left
(`LogTrue`) and with the cache (`CacheTrue`), where the worker is bounds what its own directory
says (`Phase`), nothing else has changed since it began (`Kept`), and what a status command has read
so far still leads to a success it must not miss (`ReaderTrue`). Nothing is assumed of the attempts
but that they are finitely many integers (a directory lists finitely many names).

*`IntakeDecisionsProofs`*: `LineageIsValid`, `DecidedOnce`, `AppliedAsJudged`, `CorrectionInLine`.
The first three need each other: a link to a parent stays what it was because the parent is decided and applied at
most once (`DecidedOnce`, `AppliedOnce`), a parent has no successor while it is undecided, and so a
confirmation never touches a proposal that has been revised. `IInv` adds that rows refer to rows
that are there (`References`) and that untyped facts correct nothing (`UntypedStandAlone`), which
makes a value that is named again say what the proposal says. One lemma per command.
`CorrectionInLine` adds that the predecessor of a fact is a fact (`Rooted`) and that the typed
revision of an applied proposal names, before it is applied itself, a fact whose line goes through
the applied one (`Continued`): facts only appear and keep their predecessor, so a line stays what it
was (`LineStays`) and a head that is appended to it leads through it (`LineThrough`).

*`BooksProofs`*: `OneTransactionPerExternalId`, `NoTwinFromWorkbooks`, `SettlementIsValid`,
`CloseHistoryIsValid`, `PairingIsSound`, `PreviewPredictsBatch`, `ProposalsConfirm`, for any
documents, workbooks, batches, submissions and periods and any number of mutations. Transactions are only appended and later commands touch their transfer
columns alone, so whatever an allocation was confirmed against still supports it; the closes of a
period are numbered 1 to their count and every pin and reopening lies in the past (`CloseInv`).
For the pairing, the matcher's order is shown to be strict and total on the pairs of any table
(`PairsOrdered`: ratios compared by cross products, then nine numbers place by place, the last ones
naming the rows), hence a finite set of pairs has a rank (`RankGrows`), the recursion along that rank
is well-defined (`Greedy`), and the pairs taken share no row while every other pair shares one with a
pair taken (`GreedyDecides`, `MatchedIs`). Imports append rows that no recompute has decided on.
For the previews, a simulation: after every file, the predictions of the preview *stand for* the
tables the run has reached (`Stands`: the stored and the predicted identities are its transactions,
in order, and every external id is known as it would be from its records). One step keeps it
(`StatementPreviewed`, `WorkbookPreviewed`) provided the tables are `Consistent`, an invariant of its
own: one content per external id, a record for each row of a recorded document, a count of inserted
rows in each completed workbook. It is what makes a preview that remembers a recorded document agree
with a run that skips it. Batches are numbered, so the induction over files is one over numbers
(`UpTo`); that the recursive functions of a batch exist is proved as well (`RunChain`,
`PreviewChain`, `AddedChain`).
For the proposals, the matcher first: a sum over a finite set exists, is unique and does not depend on
the order of its terms (`SumExists`, `SumUnique`, `SumRemove`, `SumMapped`), so an absolute sum found
over places of a sorted sequence is the sum over the items (`MembersOf`, `FoundSum`); the orders by id, by date,
by size and of combinations are strict and total, so a nonempty set has a first member and a set
has one sequence (`Places`, `FirstOne`, `SortedOnce`, `ComboOrder`). Every turn of every pass then
keeps `MatchInv`: the groups so far offer exactly what has been taken, once, in one currency and with the residual of what they
name (`OneToOneKeeps`, `OneToManyKeeps`, `ManyToOneKeeps`, `PassKeeps`), which with the unmatched rest
gives `ReconcileOffers`. The signs come last: on the side of the purchases as on that of the refunds
all evidence has one sign and all payments the other, so absolute and signed residuals agree up to
that sign (`SignedSizes`, `OfferedConfirms`), and the sides share nothing (`SidesApart`). Of the books
this needs `EvidenceInv`: one item per id, finitely many, and no unit of zero amount, which
`_plan_evidence` refuses. The limits of the search (`Window`, `MaxCombo`, `MaxCandidates`) are any
numbers: they can change what is offered, never whether it can be confirmed.
The exact bounds of the search (`_EXACT_BOUNDS`) change not even that (`MatchingBoundsAreExact`): as
many terms, each no larger than one it replaces, have no larger sum (`Exchange`), so every combination
lies between the smallest and the greatest of its size (`SizeBounds`) and a size that is cut off holds
no hit (`SumsPruned`, `PartialsPruned`); dropping items above the target keeps the order of the
combinations that are left, hence the first one (`SumsNarrowed`); and what divides every amount
divides their sums (`DividesTotal`), so a target it does not divide is not reached (`DivisorIsExact`).

*`LegacyProofs`*: `IngestIsAccountedFor`, `OnlyUnseenIsLost` and `BackupIsSnapshot`, for any
processes, workbooks, sheets and months and any number of commands and attempts. A command writes
what it computed from files it read some time ago, when others may have replaced them since, so the
invariant (`WorkspaceInv`) speaks of every table a command *has read* as of the tables on the disk:
its rows are in their month and lead to a workbook recorded under their id, and what is not there
any more is in `lost`. It is stated of a disk `D` and a set `L` of lost facts as parameters. Then
one lemma says that a file put in place keeps all of it (`PutKeeps`), and every action is one of two
kinds: it reads, or it puts one file (`Moves`). For the backup (`BackupInv`), a file of the first
scan that was not replaced since is the file on the disk (`Faithful`); if the scan as a whole is not
the workspace of one instant, a name ahead of the second scan was replaced, and that scan will find
it (`Ahead`).

*Model-checked only*:

- All liveness (`WriterReleases`, `RequestIsAnswered`, `EntryEnds`, `CleanupIsResumed`, `Delivers`):
  TLAPS does not handle fairness.

## 6. Disagreements with the documentation

One is a violation run:

- `recovery_reviewed`: `store prune --plan-digest` compares the digest with its first plan only.
  After resuming an interrupted deletion it plans again and deletes by the second plan, which may
  select a copy that the reviewed plan listed under keep.
  (`recovery_store.py`, `prune_recovery_store`; `development/ssot-recovery-store.md:43`)

Others met while modelling, described by the models but not run as violations:

- A correction has to name the current typed head only if its *immediate* parent was applied. The
  revision of an unapplied revision of an applied binding need not, and confirming it starts a
  second line of bindings for the source key, which is then ambiguous.
  (`intake_lifecycle.py`, `_current_head`; `development/ssot-intake-decisions.md:17,22`)
- A close counts undecided transfers as unresolved (`development/ssot-canonical-close.md:5`) where
  `is_transfer is None and is_transfer_candidate == 1` (`close/canonical.py:233-235`). No native row
  is ever in that state: imports leave both columns NULL and the recompute writes both.
- The "unchanged" branch of `_diff` (`close/canonical.py:312`) cannot be reached: two closes of a
  period have a reopening between them, which is a mutation itself, so their `dataset_revision`
  differs, and that is one of the compared fields.
- Transactions created from statements never pair as transfers, since their time of effect is a
  date only (`transfer/exact_pairing.py` wants a full event time).
- A torn intent file (`recovery_store.py`, `_write_exclusive` in `_delete_copy`) makes every later
  prune fail, although `development/ssot-recovery-store.md:51,53` says that interrupted cleanup is
  resumed by retrying. It is one of the states `CleanupIsResumed` calls `Blocked`; the others are a
  damaged original with a pending intent and a tombstone that is not the one of its intent.
- `MutationAbortedError` says that the mutation was rolled back (`errors.py:115`) and is also raised
  for an interrupt after COMMIT (`mutations.py:1490`). The retry returns the stored receipt
  (`AtMostOncePerKey`, `ReceiptIsPublished`).
- A pruned store keeps fewer copies than its windows ask for, because the newest by timestamp loses
  its slot when another copy holds more facts (`recovery_store.py:673` against `retention.py:3`).
- A torn descriptor cannot be replaced: the job has to be set up under another control directory
  (`backup_delivery_journal.py:208`, `development/ssot-backup-delivery.md:13`).
- `last_attempt_error_code` is the latest *failed* attempt's, and stays after later successes
  (`backup_delivery_journal.py:418`, `sqlite_backup_deliver.py:98`).
- `generate_file_id` promises a unique id (`metadata/import_history.py:111`). Two imports that run at
  the same time under the shared lease read the same history and give the same id to two workbooks:
  one record is lost, with `--archive` the second copy replaces the first, and the id that the
  second `record_import` returns is not used. This is why `IngestIsAccountedFor` has to speak of
  what was ever recorded and held.
- `--only-unprocessed` skips "processed files" (`cli/commands/ingest.py:121`) by the names in the
  history, which is written before the partitions (`ingest/pipeline_cluster.py:44`): an import that
  failed after that counts as processed and its rows are left out by the next run.
- A full backup is a snapshot of one instant even if the writers were not stopped, but that instant
  may lie between two months of a running `tag` or `transfer`, each of which is a rename of its own.
- Restoring a month-close JSON ledger overwrites the file first, although its docstring says that
  the prior event history is kept (`close/operations.py`, `restore_close_ledger`).

## 7. What is not modelled

- *Contents and arithmetic of rows*: parsing of exports, tagging rules, balances, analytics, export,
  formatting of the CLI. These are pure functions over one snapshot with unit tests of their own,
  and they are most of the repository's lines: the models map the code that decides who writes, in
  which order and what becomes visible, so the mapped share of the whole is small.
- *Power loss below a step*: fsync, permissions, symbolic links, partial pages. A step of a model is
  a rename, a link, a COMMIT or a whole `_write_exclusive` with its torn outcome.
- *Publication of one object, one snapshot and one bundle* (temporary file, link, directory sync,
  digests of a closed file set): the steps of one process into a fresh name, visible at once.
- *Schema upgrades, staged inactive restores and the cutover builder*: one transaction, or one
  directory renamed at the end, that nothing reads before its activation. No command of the
  repository performs the activation, which is why it is external in `AuthorityCutover`.
- *Verification, restore and drill of a full backup*: one process over closed files, published by
  one rename.
- *The JSON close ledger and the JSON settlement store* (`close/ledger.py`, `reconcile/store.py`):
  called by no repository command.
- *Transfers of old rows and clocks*: `type_raw`, by which rows of before the cutover are told to be
  transfers, and the separate group of known clocks without an offset (`storage/sqlite/bulk_transfer.py`,
  `is_transfer_like`, `_pair_eligible`). `TransferPairing` has one type and the clocks with an offset;
  the two groups never meet.
- *Work limits* of matching and of previews, which only end a request.

## 8. The plan: what is left

1. The restore of a full backup into a directory that others watch.
2. `ObjectStore`: publication of one object by two processes, refined by the one step of
   `MutationEngine`; then snapshots and bundles in the same manner.
3. Upgrades of the schema as a step of `MutationEngine`'s repository.
4. `BackupDelivery` over two instances of `RecoveryStore` in place of its own stores of one baseline.
