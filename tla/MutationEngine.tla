--------------------------- MODULE MutationEngine ---------------------------
(***************************************************************************)
(* The one transaction boundary every post-cutover writer goes through:    *)
(* MutationService.execute / preview / find_replay and                     *)
(* execute_generation_mutation of storage/sqlite/mutations.py, driven the  *)
(* way storage/mutation_facade.py drives them (pin an identity, show the   *)
(* user the current content, build a request, execute it, retry it).       *)
(*                                                                         *)
(* SQLite is external: db is the committed database, tx the connection's   *)
(* uncommitted copy of it, writer the connection holding the lock that     *)
(* BEGIN IMMEDIATE takes.  COMMIT replaces db by tx, ROLLBACK and a crash  *)
(* drop tx.  The journal mode is DELETE, so a reader's open snapshot keeps *)
(* a COMMIT out.                                                           *)
(*                                                                         *)
(* A configuration document (or any other domain row) is a member of       *)
(* Entities, its exact bytes a member of Values; the immutable object that *)
(* holds the bytes is named by them, so objects is a set of Values.        *)
(***************************************************************************)
EXTENDS Integers, Sequences, FiniteSets

CONSTANTS
    Clients,        \* processes that run finjuice commands
    Keys,           \* (command_scope, idempotency_key) pairs
    Entities,       \* domain rows a handler can change
    Values,         \* their contents
    Payloads,       \* what a request asks: a function from some Entities to Values
    Generations,    \* dataset generations a caller can name
    Active,         \* the activated one (MutationEngine runs under one activation)
    Baseline,       \* activation.dataset_revision
    Named,          \* generations and revisions callers name or omit (None)
    InitialHeads,   \* domain state of the activated dataset
    None

ASSUME PayloadAssumption ==
    \A p \in Payloads : /\ p \in [DOMAIN p -> Values]
                        /\ DOMAIN p \subseteq Entities
ASSUME BaselineAssumption == Baseline \in Nat
ASSUME ActiveAssumption == Active \in Generations
ASSUME HeadsAssumption == InitialHeads \in [Entities -> Values]
ASSUME NamedAssumption ==
    Named \subseteq [generation : Generations \cup {None}, revision : Nat \cup {None}]
ASSUME NoneAssumption == None \notin Clients

VARIABLES
    db,        \* committed tables of the active generation
    tx,        \* the writer's uncommitted tables; equal to db while nobody writes
    writer,    \* connection that holds SQLite's writer lock
    entries,   \* MutationContext.entries of the open transaction
    objects,   \* contents published in the immutable object store
    pc,        \* where each client is
    pin,       \* identity preconditions a client fixed (None: omitted)
    seen,      \* the content a client last showed to its user
    req,       \* the request a client is executing or remembers
    answer     \* how its last call ended

vars == <<db, tx, writer, entries, objects, pc, pin, seen, req, answer>>

----------------------------------------------------------------------------
(* Tables and messages.                                                    *)

Identity == [generation : Generations, revision : Nat, foreseen : BOOLEAN]
Digest == [payload : Payloads, generation : Generations, revision : Nat]
Request == [key : Keys, digest : Digest, pinned : BOOLEAN, explicit : BOOLEAN]
Receipt == [changeset : Nat, base : Nat, committed : Nat, changed : BOOLEAN]
Entry == [entity : Entities, before : Values, after : Values]
Changeset == [key : Keys, base : Nat, committed : Nat, changed : BOOLEAN,
              entries : SUBSET Entry]

\* idempotency_requests: one row per (command_scope, idempotency_key).
AbsentRow == [status |-> "absent", digest |-> None, receipt |-> None]
Row == [status : {"absent", "pending", "committed"},
        digest : Digest \cup {None}, receipt : Receipt \cup {None}]

Tables == [revision : Nat, heads : [Entities -> Values], requests : [Keys -> Row],
           changesets : Seq(Changeset), audit : SUBSET Nat]

\* Places inside BEGIN IMMEDIATE ... COMMIT.
HandlerDone == {"recorded", "advanced", "stored"}
InTransaction == {"begun", "reserved"} \cup HandlerDone
Places == {"idle", "pinned", "looked", "ready", "previewing", "committed", "down"}
          \cup InTransaction

Answer == [kind : {"none", "busy", "conflict", "failed", "aborted", "interrupted", "preview"}]
          \cup [kind : {"receipt"}, key : Keys, digest : Digest, receipt : Receipt,
                replayed : BOOLEAN]
Says(kind) == [kind |-> kind]

Init ==
    /\ db = [revision |-> Baseline, heads |-> InitialHeads,
             requests |-> [k \in Keys |-> AbsentRow], changesets |-> <<>>, audit |-> {}]
    /\ tx = db
    /\ writer = None
    /\ entries = {}
    /\ objects = {InitialHeads[e] : e \in Entities}
    /\ pc = [c \in Clients |-> "idle"]
    /\ pin = [c \in Clients |-> None]
    /\ seen = [c \in Clients |-> None]
    /\ req = [c \in Clients |-> None]
    /\ answer = [c \in Clients |-> Says("none")]

----------------------------------------------------------------------------
(* The facade: what happens before the writer lock.                        *)

Goto(c, place) == pc' = [pc EXCEPT ![c] = place]

\* A command's locals end with it; what it printed (its request, its answer) stays.
Forget(c) == pin' = [pin EXCEPT ![c] = None] /\ seen' = [seen EXCEPT ![c] = None]
Finish(c, a) ==
    /\ Goto(c, "idle")
    /\ answer' = [answer EXCEPT ![c] = a]
    /\ Forget(c)

\* A revision a caller names may be yet to come.
Pinned(g, r) == [generation |-> g, revision |-> r, foreseen |-> r > db.revision]

\* StorageMutationFacade.pin_identity: what the caller omits is filled in now, what it names
\* is kept.
Pin(c, named) ==
    /\ pc[c] = "idle"
    /\ pin' = [pin EXCEPT ![c] =
           Pinned(IF named.generation = None THEN Active ELSE named.generation,
                  IF named.revision = None THEN db.revision ELSE named.revision)]
    /\ Goto(c, "pinned")
    /\ answer' = [answer EXCEPT ![c] = Says("none")]
    /\ UNCHANGED <<db, tx, writer, entries, objects, seen, req>>

\* The same command line again: its explicit identity has the old preconditions.
PinAgain(c) ==
    /\ pc[c] = "idle"
    /\ req[c] # None
    /\ req[c].explicit
    /\ pin' = [pin EXCEPT ![c] = Pinned(req[c].digest.generation, req[c].digest.revision)]
    /\ Goto(c, "pinned")
    /\ answer' = [answer EXCEPT ![c] = Says("none")]
    /\ UNCHANGED <<db, tx, writer, entries, objects, seen, req>>

\* read_config_bytes / read_manual_transaction: a later, separate snapshot.
\* A command that omits its identity looks without pinning first.
Look(c) ==
    /\ pc[c] \in {"idle", "pinned"}
    /\ seen' = [seen EXCEPT ![c] = db.heads]
    /\ Goto(c, "looked")
    /\ answer' = [answer EXCEPT ![c] = Says("none")]
    /\ UNCHANGED <<db, tx, writer, entries, objects, pin, req>>

\* new_entity_id() never returns a key that anyone used.
FreshKey(k) ==
    /\ db.requests[k].status = "absent"
    /\ \A d \in Clients : req[d] # None => req[d].key # k

\* StorageMutationFacade._request: omitted preconditions are filled from the
\* repository as it is now; an explicit key needs explicit preconditions
\* (MutationIdentity.validate).  replace_config has published its bytes already,
\* mutate_config publishes them in its handler.
Submit(c, p, k, explicit, early) ==
    /\ pc[c] = "looked"
    /\ explicit => pin[c] # None
    /\ ~explicit => FreshKey(k)
    /\ LET identity == IF pin[c] # None THEN pin[c]
                       ELSE [generation |-> Active, revision |-> db.revision]
       IN req' = [req EXCEPT ![c] =
                    [key |-> k, explicit |-> explicit,
                     pinned |-> pin[c] # None /\ ~pin[c].foreseen,
                     digest |-> [payload |-> p, generation |-> identity.generation,
                                 revision |-> identity.revision]]]
    /\ objects' = objects \cup (IF early THEN {p[e] : e \in DOMAIN p} ELSE {})
    /\ Goto(c, "ready")
    /\ UNCHANGED <<db, tx, writer, entries, pin, seen, answer>>

----------------------------------------------------------------------------
(* MutationService.find_replay and preview: no writer lock.                *)

Stored(c) == db.requests[req[c].key]
Replayed(c, row) ==
    [kind |-> "receipt", key |-> req[c].key, digest |-> req[c].digest,
     receipt |-> row.receipt, replayed |-> TRUE]

\* Mutant: the key alone identifies a request.
AnyDigest(c, row) == TRUE
\* The canonical request (payload, actor, reason, expected generation and revision)
\* is the one the key was reserved for.
SameDigest(c, row) == row.digest = req[c].digest

\* A committed receipt answers the caller at once; another digest is a conflict;
\* no row leaves the request to be executed.
FindReplay(c) ==
    /\ pc[c] = "ready"
    /\ req[c].explicit
    /\ Stored(c).status # "absent"
    /\ IF ~SameDigest(c, Stored(c)) THEN Finish(c, Says("conflict"))
       ELSE IF Stored(c).status # "committed" THEN Finish(c, Says("failed"))
       ELSE Finish(c, Replayed(c, Stored(c)))
    /\ UNCHANGED <<db, tx, writer, entries, objects, req>>

\* Mutant: the expected revision is not compared.
CurrentGeneration(c, tables) == req[c].digest.generation = Active
\* _validate_new_request
Current(c, tables) ==
    /\ req[c].digest.generation = Active
    /\ req[c].digest.revision = tables.revision

PreviewBegin(c) ==
    /\ pc[c] = "ready"
    /\ Goto(c, "previewing")
    /\ UNCHANGED <<db, tx, writer, entries, objects, pin, seen, req, answer>>

PreviewEnd(c) ==
    /\ pc[c] = "previewing"
    /\ Finish(c, Says(IF Current(c, db) THEN "preview" ELSE "conflict"))
    /\ UNCHANGED <<db, tx, writer, entries, objects, req>>

----------------------------------------------------------------------------
(* execute_generation_mutation.                                            *)

\* BEGIN IMMEDIATE.
Begin(c) ==
    /\ pc[c] = "ready"
    /\ writer = None
    /\ writer' = c
    /\ tx' = db
    /\ entries' = {}
    /\ Goto(c, "begun")
    /\ UNCHANGED <<db, objects, pin, seen, req, answer>>

\* Mutant: no busy_timeout.
NeverBusy(c) == FALSE
\* Another connection kept the lock longer than busy_timeout.
Busy(c) ==
    /\ pc[c] = "ready"
    /\ writer # None
    /\ Finish(c, Says("busy"))
    /\ UNCHANGED <<db, tx, writer, entries, objects, req>>

\* Mutants: what the handler wrote survives; the connection stays in its transaction.
RollbackKeepsHeads ==
    /\ tx' = [db EXCEPT !.heads = tx.heads]
    /\ db' = tx'
    /\ writer' = None
    /\ entries' = {}
RollbackKeepsLock ==
    /\ tx' = db
    /\ entries' = {}
    /\ UNCHANGED <<db, writer>>
Rollback ==
    /\ tx' = db
    /\ writer' = None
    /\ entries' = {}
    /\ UNCHANGED db

\* _lookup_idempotency runs before any other check of the request.
Reserved(c) == tx.requests[req[c].key]
\* Mutant: the lookup is skipped.
AnyKey(c) == TRUE
NewKey(c) == Reserved(c).status = "absent"

Replay(c) ==
    /\ pc[c] = "begun"
    /\ Reserved(c).status = "committed"
    /\ SameDigest(c, Reserved(c))
    /\ Rollback
    /\ Finish(c, Replayed(c, Reserved(c)))
    /\ UNCHANGED <<objects, req>>

KeyConflict(c) ==
    /\ pc[c] = "begun"
    /\ ~NewKey(c)
    /\ ~SameDigest(c, Reserved(c))
    /\ Rollback
    /\ Finish(c, Says("conflict"))
    /\ UNCHANGED <<objects, req>>

\* _validate_new_request.
Stale(c) ==
    /\ pc[c] = "begun"
    /\ NewKey(c)
    /\ ~Current(c, tx)
    /\ Rollback
    /\ Finish(c, Says("conflict"))
    /\ UNCHANGED <<objects, req>>

\* INSERT INTO idempotency_requests ... 'pending'.
Reserve(c) ==
    /\ pc[c] = "begun"
    /\ tx.revision >= Baseline
    /\ NewKey(c)
    /\ Current(c, tx)
    /\ tx' = [tx EXCEPT !.requests[req[c].key] =
                [status |-> "pending", digest |-> req[c].digest, receipt |-> None]]
    /\ Goto(c, "reserved")
    /\ UNCHANGED <<db, writer, entries, objects, pin, seen, req, answer>>

Payload(c) == req[c].digest.payload
Wanted(c, e) == e \in DOMAIN Payload(c) /\ tx.heads[e] # Payload(c)[e]

\* SourceObjectStore.publish inside the handler: durable before it returns, and
\* not undone by ROLLBACK.
Publish(c, e) ==
    /\ pc[c] = "reserved"
    /\ Wanted(c, e)
    /\ Payload(c)[e] \notin objects
    /\ objects' = objects \cup {Payload(c)[e]}
    /\ UNCHANGED <<db, tx, writer, entries, pc, pin, seen, req, answer>>

\* Mutant: the object is taken to exist.
Unverified(c, e) == TRUE
\* register_source_artifact verifies the object before it is referred to.
Verified(c, e) == Payload(c)[e] \in objects

\* Mutant: the state is captured after the update.
DeltaAfterUpdate(c, e) ==
    [entity |-> e, before |-> Payload(c)[e], after |-> Payload(c)[e]]
\* The before/after state that _record keeps of one change.
Delta(c, e) == [entity |-> e, before |-> tx.heads[e], after |-> Payload(c)[e]]

\* MutationContext.replace_config: select the new revision, capture the delta.
SelectHead(c, e) ==
    /\ pc[c] = "reserved"
    /\ Wanted(c, e)
    /\ Verified(c, e)
    /\ tx' = [tx EXCEPT !.heads[e] = Payload(c)[e]]
    /\ entries' = entries \cup {Delta(c, e)}
    /\ UNCHANGED <<db, writer, objects, pc, pin, seen, req, answer>>

NextRevision(base) == IF entries # {} THEN base + 1 ELSE base

NewReceipt ==
    [changeset |-> Len(tx.changesets) + 1, base |-> db.revision,
     committed |-> NextRevision(db.revision), changed |-> entries # {}]

\* Mutant: a failed audit write is only a warning.
Unaudited == tx.audit
\* _insert_audit_event
Audited == tx.audit \cup {NewReceipt.changeset}

\* _insert_changeset and _insert_change_entries
NewChangeset(c) ==
    [key |-> req[c].key, base |-> NewReceipt.base, committed |-> NewReceipt.committed,
     changed |-> NewReceipt.changed, entries |-> entries]

\* The handler returned: the history and the audit event are written (a changeset's
\* id is its place in the sequence).
Record(c) ==
    /\ pc[c] = "reserved"
    /\ \A e \in Entities : ~Wanted(c, e)
    /\ tx' = [tx EXCEPT !.changesets = Append(@, NewChangeset(c)), !.audit = Audited]
    /\ Goto(c, "recorded")
    /\ UNCHANGED <<db, writer, entries, objects, pin, seen, req, answer>>

Last(s) == s[Len(s)]
Committing == [changeset |-> Len(tx.changesets), base |-> Last(tx.changesets).base,
               committed |-> Last(tx.changesets).committed,
               changed |-> Last(tx.changesets).changed]

MovedRevision == IF Committing.changed THEN Committing.committed ELSE tx.revision

\* _advance_revision: compare-and-set of repository_meta.dataset_revision.
Advance(c) ==
    /\ pc[c] = "recorded"
    /\ Committing.changed => tx.revision = Committing.base
    /\ tx' = [tx EXCEPT !.revision = MovedRevision]
    /\ Goto(c, "advanced")
    /\ UNCHANGED <<db, writer, entries, objects, pin, seen, req, answer>>

\* _store_receipt: pending -> committed, in the same transaction.
StoreReceipt(c) ==
    /\ pc[c] = "advanced"
    /\ Reserved(c).status = "pending"
    /\ tx' = [tx EXCEPT !.requests[req[c].key] =
                [status |-> "committed", digest |-> @.digest, receipt |-> Committing]]
    /\ Goto(c, "stored")
    /\ UNCHANGED <<db, writer, entries, objects, pin, seen, req, answer>>

\* COMMIT needs every reader gone.
Commit(c) ==
    /\ pc[c] = "stored"
    /\ \A d \in Clients : pc[d] # "previewing"
    /\ db' = tx
    /\ writer' = None
    /\ entries' = {}
    /\ Goto(c, "committed")
    /\ UNCHANGED <<tx, objects, pin, seen, req, answer>>

\* The receipt reaches the caller.
Return(c) ==
    /\ pc[c] = "committed"
    /\ Finish(c, [kind |-> "receipt", key |-> req[c].key, digest |-> req[c].digest,
                  receipt |-> Stored(c).receipt, replayed |-> FALSE])
    /\ UNCHANGED <<db, tx, writer, entries, objects, req>>

\* _attempt_retained_artifacts: what register_source_artifact reported, and, once
\* the handler returned, what its outcome names.
Retained(c) ==
    {x.after : x \in entries} \cup
    (IF pc[c] \in HandlerDone \cup {"committed"} THEN {Payload(c)[e] : e \in DOMAIN Payload(c)}
     ELSE {})

Raised(c, kind) == Says(IF Retained(c) # {} THEN "aborted" ELSE kind)

\* Any exception before COMMIT succeeds: a handler's, an invariant check's, an
\* I/O error, a COMMIT that found a reader.
Fail(c) ==
    /\ pc[c] \in InTransaction
    /\ Rollback
    /\ Finish(c, Raised(c, "failed"))
    /\ UNCHANGED <<objects, req>>

\* KeyboardInterrupt between COMMIT and the return: the transaction is over, and
\* the handler of BaseException only asks whether artifacts were retained.
Interrupt(c) ==
    /\ pc[c] = "committed"
    /\ Finish(c, Raised(c, "interrupted"))
    /\ UNCHANGED <<db, tx, writer, entries, objects, req>>

\* The process dies: its connection and its leases go with it, the command line
\* with an explicit key can be run again.
Crash(c) ==
    /\ pc[c] \notin {"idle", "down"}
    /\ IF writer = c THEN Rollback ELSE UNCHANGED <<db, tx, writer, entries>>
    /\ Goto(c, "down")
    /\ Forget(c)
    /\ UNCHANGED <<objects, req, answer>>

Restart(c) ==
    /\ pc[c] = "down"
    /\ Goto(c, "idle")
    /\ answer' = [answer EXCEPT ![c] = Says("none")]
    /\ UNCHANGED <<db, tx, writer, entries, objects, pin, seen, req>>

----------------------------------------------------------------------------
Ask(c) ==
    \/ \E named \in Named : Pin(c, named)
    \/ Look(c)
    \/ \E p \in Payloads, k \in Keys, explicit, early \in BOOLEAN :
          Submit(c, p, k, explicit, early)
    \/ PinAgain(c)
    \/ FindReplay(c)
    \/ PreviewBegin(c)
    \/ PreviewEnd(c)

Enter(c) == Begin(c) \/ Busy(c)
Decide(c) == Replay(c) \/ KeyConflict(c) \/ Stale(c) \/ Reserve(c)
Handle(c) == \/ \E e \in Entities : Publish(c, e) \/ SelectHead(c, e)
             \/ Record(c)
Seal(c) == Advance(c) \/ StoreReceipt(c) \/ Commit(c) \/ Return(c)
Upset(c) == Fail(c) \/ Interrupt(c) \/ Crash(c) \/ Restart(c)

Next == \E c \in Clients : Ask(c) \/ Enter(c) \/ Decide(c) \/ Handle(c) \/ Seal(c) \/ Upset(c)

Spec == Init /\ [][Next]_vars

\* A running process takes its next step; SQLite's bounded waits end in success or
\* in an exception, which at COMMIT is Fail.
Fairness ==
    \A c \in Clients :
        /\ WF_vars(Enter(c) \/ PreviewEnd(c))
        /\ WF_vars(Decide(c) \/ Handle(c))
        /\ WF_vars(Advance(c) \/ StoreReceipt(c) \/ Return(c))
        /\ WF_vars(Commit(c) \/ (pc[c] = "stored" /\ Fail(c)))
LiveSpec == Spec /\ Fairness

----------------------------------------------------------------------------
(* Properties.                                                             *)

\* Types, and who holds the writer lock.
TypeOK ==
    /\ db \in Tables
    /\ tx \in Tables
    /\ writer \in Clients \cup {None}
    /\ entries \in SUBSET Entry
    /\ objects \subseteq Values
    /\ pc \in [Clients -> Places]
    /\ pin \in [Clients -> Identity \cup {None}]
    /\ seen \in [Clients -> [Entities -> Values] \cup {None}]
    /\ req \in [Clients -> Request \cup {None}]
    /\ answer \in [Clients -> Answer]

\* However often a request is retried, across crashes and interrupts, from one
\* process or two, its key applies at most one changeset.
AtMostOncePerKey ==
    \A i, j \in DOMAIN db.changesets :
        db.changesets[i].key = db.changesets[j].key => i = j

\* State, audit, history and receipt are published together: a published
\* request is never pending, its receipt describes the changeset it names, and
\* every changeset has its receipt and its audit event.
Describes(receipt, cs) ==
    /\ receipt.base = cs.base
    /\ receipt.committed = cs.committed
    /\ receipt.changed = cs.changed
PublishedTogether ==
    /\ \A k \in Keys :
          db.requests[k] # AbsentRow =>
             /\ db.requests[k].status = "committed"
             /\ db.requests[k].receipt.changeset \in DOMAIN db.changesets
             /\ LET cs == db.changesets[db.requests[k].receipt.changeset]
                IN cs.key = k /\ Describes(db.requests[k].receipt, cs)
    /\ \A i \in DOMAIN db.changesets : db.requests[db.changesets[i].key] # AbsentRow
    /\ db.audit = DOMAIN db.changesets

\* The recorded entries alone explain the domain state: following one entity
\* through the history, every entry starts from what the previous one left, and
\* the last one is the current head.
Touches(i, e) == \E x \in db.changesets[i].entries : x.entity = e
LeftBy(i, e) == (CHOOSE x \in db.changesets[i].entries : x.entity = e).after
FoundBy(i, e) == (CHOOSE x \in db.changesets[i].entries : x.entity = e).before
HistoryExplainsHeads ==
    \A e \in Entities :
        LET T == {i \in DOMAIN db.changesets : Touches(i, e)}
            Before(n) == LET P == {i \in T : i < n}
                         IN IF P = {} THEN InitialHeads[e]
                            ELSE LeftBy(CHOOSE i \in P : \A j \in P : j <= i, e)
        IN /\ db.heads[e] = Before(Len(db.changesets) + 1)
           /\ \A i \in T : FoundBy(i, e) = Before(i)

\* No lost update: when a pinned request is being applied, the content its user
\* confirmed is the content it replaces (pin first, look second).  Whoever names a
\* revision that is yet to come has not asked for that.
ConfirmedViewIsCurrent ==
    \A c \in Clients :
        pc[c] \in InTransaction \ {"begun"} /\ req[c].pinned => seen[c] = db.heads

\* A head never names an object that is missing, whatever crashed in between.
HeadsHaveObjects == \A e \in Entities : db.heads[e] \in objects

\* A receipt in a caller's hands is the published one, for that very request.
ReceiptIsPublished ==
    \A c \in Clients :
        answer[c].kind = "receipt" =>
            LET row == db.requests[answer[c].key]
            IN /\ row.status = "committed"
               /\ row.digest = answer[c].digest
               /\ row.receipt = answer[c].receipt

\* The engine implements the ledger: every COMMIT is one Apply, every receipt handed
\* out one Tell, and everything else (begun, failed, crashed or replayed
\* transactions, previews, retries) changes nothing a caller can see.
LedgerRow(i) ==
    LET cs == db.changesets[i]
    IN [key |-> cs.key, digest |-> db.requests[cs.key].digest,
        receipt |-> [changeset |-> i, base |-> cs.base, committed |-> cs.committed,
                     changed |-> cs.changed],
        entries |-> cs.entries]
Told(c) == IF answer[c].kind # "receipt" THEN None
           ELSE [key |-> answer[c].key, digest |-> answer[c].digest,
                 receipt |-> answer[c].receipt]
Ledger == INSTANCE MutationLedger WITH
    ledger <- [i \in DOMAIN db.changesets |-> LedgerRow(i)],
    heads <- db.heads,
    revision <- db.revision,
    told <- [c \in Clients |-> Told(c)]
ImplementsLedger == Ledger!Spec

\* The writer lock is always given back.
WriterReleases == \A c \in Clients : writer = c ~> writer # c

\* A request that reached the engine is answered, unless its process dies.
RequestIsAnswered == \A c \in Clients : pc[c] = "ready" ~> pc[c] \in {"idle", "down"}

=============================================================================
