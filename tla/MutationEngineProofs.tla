------------------------ MODULE MutationEngineProofs ------------------------
(***************************************************************************)
(* Safety of the mutation boundary for any number of clients, keys, rows,  *)
(* payloads and generations.  The inductive invariant says, stage by stage,*)
(* how the writer's uncommitted tables differ from the committed ones.     *)
(* On top of it: what a handler has done so far, that what callers see of  *)
(* the boundary implements MutationLedger, and that the recorded history   *)
(* explains the domain state.                                              *)
(***************************************************************************)
EXTENDS MutationEngine, WellFoundedInduction, TLAPS

----------------------------------------------------------------------------
(* The inductive invariant.                                                *)

\* Exactly the client between BEGIN and COMMIT holds the writer lock, and whoever
\* is past building a request has one.
LockInv ==
    \A c \in Clients :
        /\ pc[c] \in InTransaction <=> writer = c
        /\ pc[c] \in {"ready", "previewing", "committed"} \cup InTransaction => req[c] \in Request

\* The committed tables: every published request has its changeset and the reverse.
RowPublished(k) ==
    /\ db.requests[k].status = "committed"
    /\ db.requests[k].receipt \in Receipt
    /\ db.requests[k].receipt.changeset \in DOMAIN db.changesets
    /\ db.changesets[db.requests[k].receipt.changeset].key = k
    /\ Describes(db.requests[k].receipt, db.changesets[db.requests[k].receipt.changeset])
TablesInv ==
    /\ \A k \in Keys : db.requests[k] = AbsentRow \/ RowPublished(k)
    /\ \A i \in DOMAIN db.changesets :
          /\ db.requests[db.changesets[i].key].status = "committed"
          /\ db.requests[db.changesets[i].key].receipt.changeset = i
    /\ db.audit = DOMAIN db.changesets

\* The uncommitted tables at each stage of the transaction.
Changed == {"reserved"} \cup HandlerDone
PendingRow(c) == [status |-> "pending", digest |-> req[c].digest, receipt |-> None]
NewRow(c) == [status |-> "committed", digest |-> req[c].digest,
              receipt |-> [changeset |-> Len(db.changesets) + 1, base |-> db.revision,
                           committed |-> NextRevision(db.revision), changed |-> entries # {}]]
NewHistory(c) ==
    Append(db.changesets, [key |-> req[c].key, base |-> db.revision,
                           committed |-> NextRevision(db.revision), changed |-> entries # {},
                           entries |-> entries])
Stage(c) ==
    /\ pc[c] = "begun" => tx = db /\ entries = {}
    /\ pc[c] \in Changed => /\ db.requests[req[c].key] = AbsentRow
                            /\ req[c].digest.revision = db.revision
                            /\ entries = {} => tx.heads = db.heads
    /\ pc[c] \in Changed \ {"stored"} =>
          tx.requests = [db.requests EXCEPT ![req[c].key] = PendingRow(c)]
    /\ pc[c] = "stored" => tx.requests = [db.requests EXCEPT ![req[c].key] = NewRow(c)]
    /\ pc[c] = "reserved" => tx.changesets = db.changesets /\ tx.audit = db.audit
    /\ pc[c] \in HandlerDone => /\ tx.changesets = NewHistory(c)
                                /\ tx.audit = db.audit \cup {Len(db.changesets) + 1}
    /\ pc[c] \in {"reserved", "recorded"} => tx.revision = db.revision
    /\ pc[c] \in {"advanced", "stored"} => tx.revision = NextRevision(db.revision)
StageInv == \A c \in Clients : Stage(c)

\* A client that just committed finds its own row; a receipt in a caller's hands is
\* a published one.
AnswerInv ==
    /\ \A c \in Clients :
          pc[c] = "committed" => /\ db.requests[req[c].key].status = "committed"
                                 /\ db.requests[req[c].key].digest = req[c].digest
    /\ ReceiptIsPublished

\* A view is as old as the revision it is pinned to, unless that was one from the future.
View(c) ==
    /\ pin[c] # None /\ ~pin[c].foreseen => pin[c].revision <= db.revision
    /\ pc[c] \in {"ready"} \cup InTransaction /\ req[c].pinned
          => req[c].digest.revision <= db.revision
    /\ pc[c] = "looked" /\ pin[c] # None /\ ~pin[c].foreseen /\ pin[c].revision = db.revision
          => seen[c] = db.heads
    /\ pc[c] \in {"ready"} \cup InTransaction /\ req[c].pinned
          /\ req[c].digest.revision = db.revision => seen[c] = db.heads
ViewInv == \A c \in Clients : View(c)

IInv == TypeOK /\ LockInv /\ TablesInv /\ StageInv /\ AnswerInv /\ ViewInv

----------------------------------------------------------------------------
(* Types.                                                                  *)

USE PayloadAssumption, BaselineAssumption, ActiveAssumption, HeadsAssumption, NoneAssumption

\* Appending keeps the published part of a history where it is.
LEMMA HistoryFacts ==
    ASSUME NEW h \in Seq(Changeset), NEW cs \in Changeset
    PROVE  /\ Append(h, cs) \in Seq(Changeset)
           /\ Len(h) \in Nat
           /\ Len(Append(h, cs)) = Len(h) + 1
           /\ DOMAIN h = 1..Len(h)
           /\ DOMAIN Append(h, cs) = DOMAIN h \cup {Len(h) + 1}
           /\ Len(h) + 1 \notin DOMAIN h
           /\ Append(h, cs)[Len(h) + 1] = cs
           /\ \A i \in DOMAIN h : Append(h, cs)[i] = h[i] /\ h[i] \in Changeset
<1> DEFINE T == Changeset
<1>1. h \in Seq(T) /\ cs \in T
  OBVIOUS
<1> HIDE DEF T
<1>2. /\ Append(h, cs) \in Seq(T) /\ Len(h) \in Nat /\ Len(Append(h, cs)) = Len(h) + 1
      /\ DOMAIN h = 1..Len(h) /\ DOMAIN Append(h, cs) = 1..(Len(h) + 1)
      /\ Append(h, cs)[Len(h) + 1] = cs /\ \A i \in 1..Len(h) : Append(h, cs)[i] = h[i] /\ h[i] \in T
  BY <1>1
<1> QED BY <1>2 DEF T

\* The parts of the tables can be replaced one by one.
LEMMA TablesFacts ==
    ASSUME NEW t \in Tables
    PROVE  /\ t.revision \in Nat /\ t.heads \in [Entities -> Values]
           /\ t.requests \in [Keys -> Row] /\ t.changesets \in Seq(Changeset)
           /\ t.audit \in SUBSET Nat
           /\ \A r \in Nat : [t EXCEPT !.revision = r] \in Tables
           /\ \A e \in Entities, v \in Values : [t EXCEPT !.heads[e] = v] \in Tables
           /\ \A k \in Keys, r \in Row : [t EXCEPT !.requests[k] = r] \in Tables
           /\ \A h \in Seq(Changeset), a \in SUBSET Nat :
                 [t EXCEPT !.changesets = h, !.audit = a] \in Tables
<1> DEFINE H == [Entities -> Values]
           R == [Keys -> Row]
           S == Seq(Changeset)
<1>1. Tables = [revision : Nat, heads : H, requests : R, changesets : S, audit : SUBSET Nat]
  BY DEF Tables
<1>2. \A f \in H, e \in Entities, v \in Values : [f EXCEPT ![e] = v] \in H
  OBVIOUS
<1>3. \A f \in R, k \in Keys, r \in Row : [f EXCEPT ![k] = r] \in R
  OBVIOUS
<1> HIDE DEF H, R, S
<1>4. /\ t.revision \in Nat /\ t.heads \in H /\ t.requests \in R /\ t.changesets \in S
      /\ t.audit \in SUBSET Nat
      /\ \A r \in Nat : [t EXCEPT !.revision = r] \in Tables
      /\ \A h \in S, a \in SUBSET Nat : [t EXCEPT !.changesets = h, !.audit = a] \in Tables
      /\ \A f \in H : [t EXCEPT !.heads = f] \in Tables
      /\ \A f \in R : [t EXCEPT !.requests = f] \in Tables
  BY <1>1
<1>5. \A e \in Entities, v \in Values : [t EXCEPT !.heads[e] = v] \in Tables
  BY <1>1, <1>2, <1>4
<1>6. \A k \in Keys, r \in Row : [t EXCEPT !.requests[k] = r] \in Tables
  BY <1>1, <1>3, <1>4
<1> QED BY <1>4, <1>5, <1>6 DEF H, R, S

\* The initial state has the types and satisfies the inductive invariant.
LEMMA InitIInv == Init => IInv
<1> SUFFICES ASSUME Init PROVE IInv
  OBVIOUS
<1> USE DEF Init
<1>1. AbsentRow \in Row
  BY DEF AbsentRow, Row
<1>2. db \in Tables
  BY <1>1 DEF Tables
<1>3. \A e \in Entities : InitialHeads[e] \in Values
  OBVIOUS
<1>4. TypeOK
  BY <1>2, <1>3 DEF TypeOK, Places, Answer, Says
<1>5. LockInv
  BY DEF LockInv, InTransaction, HandlerDone
<1>6. TablesInv
  BY DEF TablesInv
<1>7. StageInv
  BY DEF StageInv, Stage, Changed, HandlerDone
<1>8. AnswerInv
  BY DEF AnswerInv, ReceiptIsPublished, Says
<1>9. ViewInv
  BY DEF ViewInv, View, InTransaction, HandlerDone
<1> QED BY <1>4, <1>5, <1>6, <1>7, <1>8, <1>9 DEF IInv

\* What the answers, requests and recorded changes are made of.
LEMMA MessageFacts ==
    /\ \A kind \in {"none", "busy", "conflict", "failed", "aborted", "interrupted", "preview"} :
          Says(kind) \in Answer
    /\ \A k \in Keys, d \in Digest, r \in Receipt, b \in BOOLEAN :
          [kind |-> "receipt", key |-> k, digest |-> d, receipt |-> r, replayed |-> b] \in Answer
    /\ \A r \in Request : r.key \in Keys /\ r.digest \in Digest /\ r.pinned \in BOOLEAN
                          /\ r.explicit \in BOOLEAN
    /\ \A d \in Digest : d.payload \in Payloads /\ d.generation \in Generations
                         /\ d.revision \in Nat
    /\ \A p \in Payloads : \A e \in DOMAIN p : p[e] \in Values /\ e \in Entities
    /\ \A r \in Row : r.status \in {"absent", "pending", "committed"}
                      /\ r.receipt \in Receipt \cup {None}
    /\ \A i \in Identity : i.generation \in Generations /\ i.revision \in Nat /\ i.foreseen \in BOOLEAN
<1>1. \A kind \in {"none", "busy", "conflict", "failed", "aborted", "interrupted", "preview"} :
          Says(kind) \in Answer
  BY DEF Says, Answer
<1>2. \A k \in Keys, d \in Digest, r \in Receipt, b \in BOOLEAN :
          [kind |-> "receipt", key |-> k, digest |-> d, receipt |-> r, replayed |-> b] \in Answer
  BY DEF Answer
<1>3. \A r \in Request : r.key \in Keys /\ r.digest \in Digest /\ r.pinned \in BOOLEAN
                          /\ r.explicit \in BOOLEAN
  BY DEF Request
<1>4. \A d \in Digest : d.payload \in Payloads /\ d.generation \in Generations
                        /\ d.revision \in Nat
  BY DEF Digest
<1>5. \A p \in Payloads : \A e \in DOMAIN p : p[e] \in Values /\ e \in Entities
  OBVIOUS
<1>6. \A r \in Row : r.status \in {"absent", "pending", "committed"}
                     /\ r.receipt \in Receipt \cup {None}
  BY DEF Row
<1>7. \A i \in Identity : i.generation \in Generations /\ i.revision \in Nat /\ i.foreseen \in BOOLEAN
  BY DEF Identity
<1> QED BY <1>1, <1>2, <1>3, <1>4, <1>5, <1>6, <1>7


\* A committed row of the published tables holds a receipt.
LEMMA CommittedRowFacts ==
    ASSUME TypeOK, TablesInv, NEW k \in Keys, db.requests[k].status = "committed"
    PROVE  db.requests[k].receipt \in Receipt
  BY DEF TablesInv, RowPublished, AbsentRow

\* A revision that was not yet to come when it was pinned is one of those there were.
LEMMA PinnedFacts ==
    ASSUME TypeOK, NEW g, NEW r \in Nat, ~Pinned(g, r).foreseen
    PROVE  Pinned(g, r).revision <= db.revision
<1>1. db.revision \in Nat
  BY TablesFacts DEF TypeOK
<1>2. Pinned(g, r).foreseen = (r > db.revision) /\ Pinned(g, r).revision = r
  BY Zenon DEF Pinned
<1>3. ~(r > db.revision)
  BY <1>2, Zenon
<1> QED BY <1>1, <1>2, <1>3

\* _request builds a well-formed request that names the pinned identity, or else the
\* revision of the moment.
LEMMA SubmitFacts ==
    ASSUME TypeOK, NEW c \in Clients, NEW p \in Payloads, NEW k \in Keys,
           NEW explicit \in BOOLEAN, NEW early \in BOOLEAN, Submit(c, p, k, explicit, early)
    PROVE  \E r \in Request :
              /\ req' = [req EXCEPT ![c] = r]
              /\ r.pinned <=> pin[c] # None /\ ~pin[c].foreseen
              /\ r.digest.revision = IF pin[c] # None THEN pin[c].revision ELSE db.revision
<1> USE DEF TypeOK
<1> DEFINE identity == IF pin[c] # None THEN pin[c]
                       ELSE [generation |-> Active, revision |-> db.revision]
           new == [key |-> k, explicit |-> explicit, pinned |-> pin[c] # None /\ ~pin[c].foreseen,
                   digest |-> [payload |-> p, generation |-> identity.generation,
                               revision |-> identity.revision]]
<1>1. identity.generation \in Generations /\ identity.revision \in Nat
  BY MessageFacts, TablesFacts
<1>2. new \in Request
  BY <1>1 DEF Request, Digest
<1>3. req' = [req EXCEPT ![c] = new]
  BY DEF Submit
<1>4. /\ new.pinned <=> pin[c] # None /\ ~pin[c].foreseen
      /\ new.digest.revision = IF pin[c] # None THEN pin[c].revision ELSE db.revision
  OBVIOUS
<1> HIDE DEF new
<1> QED BY <1>2, <1>3, <1>4

\* Every step keeps the types.
LEMMA NextTypeOK == IInv /\ [Next]_vars => TypeOK'
<1> SUFFICES ASSUME IInv, [Next]_vars PROVE TypeOK'
  OBVIOUS
<1> USE DEF IInv, TypeOK, Goto, Finish, Forget
<1>p. \A x \in {"idle", "pinned", "looked", "ready", "previewing", "committed", "down", "begun",
                "reserved", "recorded", "advanced", "stored"} : x \in Places
  BY DEF Places, InTransaction, HandlerDone
<1>q. \A kind \in {"none", "busy", "conflict", "failed", "aborted", "interrupted", "preview"} :
          Says(kind) \in Answer
  BY MessageFacts
<1>r. /\ db.revision \in Nat /\ db.heads \in [Entities -> Values] /\ db.requests \in [Keys -> Row]
      /\ tx.revision \in Nat /\ tx.heads \in [Entities -> Values] /\ tx.requests \in [Keys -> Row]
      /\ tx.changesets \in Seq(Changeset) /\ tx.audit \in SUBSET Nat
  BY TablesFacts
<1>0. ASSUME NEW c \in Clients, req[c] \in Request, pc[c] = "begun", Reserved(c).status = "committed"
      PROVE Replayed(c, Reserved(c)) \in Answer
  <2>1. req[c].key \in Keys /\ req[c].digest \in Digest
    BY <1>0, MessageFacts
  <2>2. Reserved(c) = db.requests[req[c].key]
    BY <1>0 DEF StageInv, Stage, Reserved
  <2>3. Reserved(c).receipt \in Receipt
    BY <1>0, <2>1, <2>2, CommittedRowFacts
  <2> QED BY <2>1, <2>3, MessageFacts DEF Replayed
<1>s. ASSUME NEW c \in Clients, req[c] \in Request, Stored(c).status = "committed", NEW b \in BOOLEAN
      PROVE [kind |-> "receipt", key |-> req[c].key, digest |-> req[c].digest,
             receipt |-> Stored(c).receipt, replayed |-> b] \in Answer
  <2>1. req[c].key \in Keys /\ req[c].digest \in Digest
    BY <1>s, MessageFacts
  <2>2. Stored(c).receipt \in Receipt
    BY <1>s, <2>1, CommittedRowFacts DEF Stored
  <2> QED BY <2>1, <2>2, MessageFacts
<1>1. ASSUME NEW c \in Clients, Ask(c) PROVE TypeOK'
  <2>1. ASSUME NEW named \in Named, Pin(c, named) PROVE TypeOK'
    BY <1>p, <1>q, <1>r, <2>1, NamedAssumption DEF Pin, Pinned, Identity
  <2>2. CASE Look(c)
    BY <1>p, <1>q, <1>r, <2>2 DEF Look
  <2>3. ASSUME NEW p \in Payloads, NEW k \in Keys, NEW explicit \in BOOLEAN, NEW early \in BOOLEAN,
               Submit(c, p, k, explicit, early)
        PROVE TypeOK'
    <3>3. \E r \in Request : req' = [req EXCEPT ![c] = r]
      BY <2>3, SubmitFacts
    <3>4. objects' \subseteq Values
      BY <2>3, MessageFacts DEF Submit
    <3> QED BY <1>p, <2>3, <3>3, <3>4 DEF Submit
  <2>4. CASE PinAgain(c)
    <3>1. req[c] \in Request /\ req[c].digest \in Digest
      BY <2>4, MessageFacts DEF PinAgain
    <3>2. Pinned(req[c].digest.generation, req[c].digest.revision) \in Identity
      BY <3>1, MessageFacts DEF Pinned, Identity
    <3> QED BY <1>p, <1>q, <2>4, <3>2 DEF PinAgain
  <2>5. CASE FindReplay(c)
    <3>1. req[c] \in Request
      BY <2>5 DEF FindReplay, LockInv
    <3>2. Stored(c).status = "committed" => Replayed(c, Stored(c)) \in Answer
      BY <1>s, <3>1 DEF Replayed
    <3> QED BY <1>p, <1>q, <2>5, <3>2 DEF FindReplay
  <2>6. CASE PreviewBegin(c)
    BY <1>p, <2>6 DEF PreviewBegin
  <2>7. CASE PreviewEnd(c)
    BY <1>p, <1>q, <2>7 DEF PreviewEnd
  <2> QED BY <1>1, <2>1, <2>2, <2>3, <2>4, <2>5, <2>6, <2>7 DEF Ask
<1>2. ASSUME NEW c \in Clients, Enter(c) PROVE TypeOK'
  BY <1>2, <1>p, <1>q DEF Enter, Begin, Busy
<1>3. ASSUME NEW c \in Clients, Decide(c) PROVE TypeOK'
  <2>1. pc[c] = "begun" /\ req[c] \in Request
    BY <1>3 DEF Decide, Replay, KeyConflict, Stale, Reserve, LockInv, InTransaction
  <2>2. CASE Replay(c)
    BY <1>p, <1>0, <2>1, <2>2 DEF Replay, Rollback
  <2>3. CASE KeyConflict(c)
    BY <1>p, <1>q, <2>3 DEF KeyConflict, Rollback
  <2>4. CASE Stale(c)
    BY <1>p, <1>q, <2>4 DEF Stale, Rollback
  <2>5. CASE Reserve(c)
    <3>1. req[c].key \in Keys
          /\ [status |-> "pending", digest |-> req[c].digest, receipt |-> None] \in Row
      BY <2>1, MessageFacts DEF Row
    <3>2. tx' \in Tables
      BY <2>5, <3>1, TablesFacts DEF Reserve
    <3> QED BY <1>p, <2>5, <3>2 DEF Reserve
  <2> QED BY <1>3, <2>2, <2>3, <2>4, <2>5 DEF Decide
<1>4. ASSUME NEW c \in Clients, Handle(c) PROVE TypeOK'
  <2>0. req[c] \in Request /\ Payload(c) \in Payloads /\ req[c].key \in Keys
    <3>1. req[c] \in Request
      BY <1>4 DEF Handle, Publish, SelectHead, Record, LockInv, InTransaction
    <3> QED BY <3>1, MessageFacts DEF Payload
  <2>1. ASSUME NEW e \in Entities, Publish(c, e) PROVE TypeOK'
    BY <2>0, <2>1, MessageFacts DEF Publish, Wanted
  <2>2. ASSUME NEW e \in Entities, SelectHead(c, e) PROVE TypeOK'
    <3>1. Payload(c)[e] \in Values /\ tx.heads[e] \in Values
      BY <1>r, <2>0, <2>2, MessageFacts DEF SelectHead, Wanted
    <3>2. tx' \in Tables
      BY <2>2, <3>1, TablesFacts DEF SelectHead
    <3>3. Delta(c, e) \in Entry
      BY <3>1 DEF Delta, Entry
    <3> QED BY <2>2, <3>2, <3>3 DEF SelectHead
  <2>3. CASE Record(c)
    <3>1. Len(tx.changesets) + 1 \in Nat
      BY <1>r, HistoryFacts
    <3>2. NewReceipt \in Receipt
      BY <1>r, <3>1 DEF NewReceipt, NextRevision, Receipt
    <3>3. NewChangeset(c) \in Changeset /\ Audited \in SUBSET Nat
      BY <1>r, <2>0, <3>1, <3>2 DEF NewReceipt, NextRevision, NewChangeset, Changeset, Audited
    <3>4. Append(tx.changesets, NewChangeset(c)) \in Seq(Changeset)
      BY <1>r, <3>3, HistoryFacts
    <3>5. tx' \in Tables
      BY <2>3, <3>3, <3>4, TablesFacts DEF Record
    <3> QED BY <1>p, <2>3, <3>5 DEF Record
  <2> QED BY <1>4, <2>1, <2>2, <2>3 DEF Handle
<1>5. ASSUME NEW c \in Clients, Seal(c) PROVE TypeOK'
  <2>0. req[c] \in Request /\ req[c].key \in Keys
    <3>1. req[c] \in Request
      BY <1>5 DEF Seal, Advance, StoreReceipt, Commit, Return, LockInv, InTransaction, HandlerDone
    <3> QED BY <3>1, MessageFacts
  <2>h. pc[c] \in HandlerDone => Committing \in Receipt
    <3> SUFFICES ASSUME pc[c] \in HandlerDone PROVE Committing \in Receipt
      OBVIOUS
    <3>1. tx.changesets = NewHistory(c) /\ db.changesets \in Seq(Changeset)
      BY TablesFacts DEF StageInv, Stage
    <3> DEFINE cs == [key |-> req[c].key, base |-> db.revision,
                      committed |-> NextRevision(db.revision), changed |-> entries # {},
                      entries |-> entries]
    <3>2. cs \in Changeset
      BY <1>r, <2>0 DEF Changeset, NextRevision
    <3>3. /\ Len(tx.changesets) \in Nat
          /\ Len(tx.changesets) = Len(db.changesets) + 1
          /\ tx.changesets[Len(db.changesets) + 1] = cs
      BY <3>1, <3>2, HistoryFacts DEF NewHistory
    <3>4. Last(tx.changesets) = cs
      BY <3>3 DEF Last
    <3> QED BY <1>r, <3>3, <3>4 DEF Committing, Receipt, NextRevision
  <2>1. CASE Advance(c)
    <3>1. MovedRevision \in Nat
      <4>1. Committing \in Receipt
        BY <2>1, <2>h DEF Advance, HandlerDone
      <4> QED BY <1>r, <4>1 DEF MovedRevision, Receipt
    <3>2. tx' \in Tables
      BY <2>1, <3>1, TablesFacts DEF Advance
    <3> QED BY <1>p, <2>1, <3>2 DEF Advance
  <2>2. CASE StoreReceipt(c)
    <3>1. Committing \in Receipt
      BY <2>2, <2>h DEF StoreReceipt, HandlerDone
    <3>2. [status |-> "committed", digest |-> tx.requests[req[c].key].digest,
           receipt |-> Committing] \in Row
      BY <1>r, <2>0, <3>1 DEF Row
    <3>3. tx' \in Tables
      BY <2>0, <2>2, <3>2, TablesFacts DEF StoreReceipt
    <3> QED BY <1>p, <2>2, <3>3 DEF StoreReceipt
  <2>3. CASE Commit(c)
    BY <1>p, <2>3 DEF Commit
  <2>4. CASE Return(c)
    <3>1. Stored(c).status = "committed"
      BY <2>4 DEF Return, AnswerInv, Stored
    <3>2. [kind |-> "receipt", key |-> req[c].key, digest |-> req[c].digest,
           receipt |-> Stored(c).receipt, replayed |-> FALSE] \in Answer
      BY <1>s, <2>0, <3>1
    <3> QED BY <1>p, <2>4, <3>2 DEF Return
  <2> QED BY <1>5, <2>1, <2>2, <2>3, <2>4 DEF Seal
<1>6. ASSUME NEW c \in Clients, Upset(c) PROVE TypeOK'
  <2>1. \A kind \in {"failed", "interrupted"} : Raised(c, kind) \in Answer
    BY <1>q DEF Raised
  <2>2. CASE Fail(c)
    BY <1>p, <2>1, <2>2 DEF Fail, Rollback
  <2>3. CASE Interrupt(c)
    BY <1>p, <2>1, <2>3 DEF Interrupt
  <2>4. CASE Crash(c)
    BY <1>p, <2>4 DEF Crash, Rollback
  <2>5. CASE Restart(c)
    BY <1>p, <1>q, <2>5 DEF Restart
  <2> QED BY <1>6, <2>2, <2>3, <2>4, <2>5 DEF Upset
<1>7. CASE UNCHANGED vars
  BY <1>7 DEF vars
<1> QED BY <1>1, <1>2, <1>3, <1>4, <1>5, <1>6, <1>7 DEF Next


----------------------------------------------------------------------------
(* The lock, the tables and the stages of a transaction.                   *)

\* A step outside any transaction leaves the tables and the writer's stage alone.
LEMMA Outside ==
    ASSUME TypeOK, LockInv, TablesInv, StageInv, NEW c \in Clients, NEW place,
           pc[c] \notin InTransaction, place \notin InTransaction,
           pc' = [pc EXCEPT ![c] = place],
           \A d \in Clients \ {c} : req'[d] = req[d],
           place \in {"ready", "previewing", "committed"} => req'[c] \in Request,
           db' = db, tx' = tx, writer' = writer, entries' = entries
    PROVE  LockInv' /\ TablesInv' /\ StageInv'
<1> USE DEF TypeOK
<1>1. pc'[c] = place /\ \A d \in Clients \ {c} : pc'[d] = pc[d]
  OBVIOUS
<1>2. LockInv'
  BY <1>1 DEF LockInv
<1>3. TablesInv'
  BY DEF TablesInv, RowPublished
<1>4. StageInv'
  <2>1. Stage(c)'
    BY <1>1 DEF Stage, InTransaction, Changed, HandlerDone
  <2>2. ASSUME NEW d \in Clients \ {c} PROVE Stage(d)'
    <3>1. pc'[d] = pc[d] /\ req'[d] = req[d] /\ Stage(d)
      BY <1>1 DEF StageInv
    <3> QED BY <3>1 DEF Stage, PendingRow, NewRow, NewHistory, NextRevision
  <2> QED BY <2>1, <2>2 DEF StageInv
<1> QED BY <1>2, <1>3, <1>4

\* ROLLBACK, by an exception or by the death of the process, ends the transaction
\* and leaves the committed tables as they were.
LEMMA RolledBack ==
    ASSUME TypeOK, LockInv, TablesInv, StageInv, NEW c \in Clients, NEW place,
           writer = c, Rollback, place \in {"idle", "down"},
           pc' = [pc EXCEPT ![c] = place], req' = req
    PROVE  LockInv' /\ TablesInv' /\ StageInv'
<1> USE DEF TypeOK, Rollback
<1>1. pc'[c] = place /\ \A d \in Clients \ {c} : pc'[d] = pc[d] /\ pc[d] \notin InTransaction
  BY DEF LockInv
<1>2. \A d \in Clients : pc'[d] \notin InTransaction
  BY <1>1 DEF InTransaction, HandlerDone
<1>3. LockInv'
  BY <1>1, <1>2 DEF LockInv
<1>4. TablesInv'
  BY DEF TablesInv, RowPublished
<1>5. StageInv'
  BY <1>2 DEF StageInv, Stage, InTransaction, Changed, HandlerDone
<1> QED BY <1>3, <1>4, <1>5

\* While one client's transaction is open, nobody else's is, and a step that leaves
\* db and the place of the others alone keeps what is said of them.
LEMMA Inside ==
    ASSUME TypeOK, LockInv, TablesInv, NEW c \in Clients, NEW place \in InTransaction,
           pc[c] \in InTransaction, pc' = [pc EXCEPT ![c] = place],
           req' = req, db' = db, writer' = writer
    PROVE  /\ LockInv' /\ TablesInv'
           /\ pc'[c] = place
           /\ \A d \in Clients \ {c} : pc'[d] \notin InTransaction
<1> USE DEF TypeOK
<1>1. pc'[c] = place /\ \A d \in Clients \ {c} : pc'[d] = pc[d] /\ pc[d] \notin InTransaction
  BY DEF LockInv
<1>2. LockInv'
  BY <1>1 DEF LockInv
<1>3. TablesInv'
  BY DEF TablesInv, RowPublished
<1> QED BY <1>1, <1>2, <1>3


\* What a transaction is about to publish, from the moment its handler returned.
LEMMA HandlerDoneFacts ==
    ASSUME TypeOK, LockInv, StageInv, NEW c \in Clients, pc[c] \in HandlerDone
    PROVE  LET cs == [key |-> req[c].key, base |-> db.revision,
                      committed |-> NextRevision(db.revision), changed |-> entries # {},
                      entries |-> entries]
           IN /\ req[c].key \in Keys
              /\ Len(db.changesets) \in Nat
              /\ DOMAIN tx.changesets = DOMAIN db.changesets \cup {Len(db.changesets) + 1}
              /\ Len(db.changesets) + 1 \notin DOMAIN db.changesets
              /\ tx.changesets[Len(db.changesets) + 1] = cs
              /\ \A i \in DOMAIN db.changesets : tx.changesets[i] = db.changesets[i]
              /\ Len(tx.changesets) = Len(db.changesets) + 1
              /\ Committing = NewRow(c).receipt
<1> USE DEF TypeOK
<1> DEFINE cs == [key |-> req[c].key, base |-> db.revision,
                  committed |-> NextRevision(db.revision), changed |-> entries # {},
                  entries |-> entries]
<1>1. req[c] \in Request
  BY DEF LockInv, InTransaction
<1>2. req[c].key \in Keys
  BY <1>1, MessageFacts
<1>3. db.revision \in Nat /\ db.changesets \in Seq(Changeset)
  BY TablesFacts
<1>4. cs \in Changeset
  BY <1>2, <1>3 DEF Changeset, NextRevision
<1>5. tx.changesets = Append(db.changesets, cs)
  BY DEF StageInv, Stage, NewHistory
<1> HIDE DEF cs
<1>6. /\ Len(db.changesets) \in Nat
      /\ DOMAIN tx.changesets = DOMAIN db.changesets \cup {Len(db.changesets) + 1}
      /\ Len(db.changesets) + 1 \notin DOMAIN db.changesets
      /\ tx.changesets[Len(db.changesets) + 1] = cs
      /\ \A i \in DOMAIN db.changesets : tx.changesets[i] = db.changesets[i]
      /\ Len(tx.changesets) = Len(db.changesets) + 1
  BY <1>3, <1>4, <1>5, HistoryFacts
<1>7. Last(tx.changesets) = cs
  BY <1>6 DEF Last
<1>8. Committing = NewRow(c).receipt
  BY <1>6, <1>7 DEF Committing, NewRow, cs
<1> QED BY <1>2, <1>6, <1>8 DEF cs

\* COMMIT publishes exactly one new row and its changeset.
LEMMA CommitFacts ==
    ASSUME IInv, NEW c \in Clients, Commit(c)
    PROVE  /\ LockInv' /\ TablesInv' /\ StageInv'
           /\ db'.requests = [db.requests EXCEPT ![req[c].key] = NewRow(c)]
           /\ req[c].key \in Keys
<1> USE DEF IInv, TypeOK
<1>0. pc[c] = "stored" /\ pc[c] \in HandlerDone /\ pc[c] \in InTransaction /\ writer = c
  BY DEF Commit, HandlerDone, InTransaction, LockInv
<1>1. pc' = [pc EXCEPT ![c] = "committed"] /\ db' = tx /\ req' = req
  BY DEF Commit, Goto
<1>2. /\ pc'[c] = "committed"
      /\ \A d \in Clients \ {c} : pc'[d] = pc[d] /\ pc[d] \notin InTransaction
      /\ \A d \in Clients : pc'[d] \notin InTransaction
  BY <1>0, <1>1 DEF LockInv, InTransaction, HandlerDone
<1>3. LockInv'
  BY <1>0, <1>1, <1>2 DEF LockInv, Commit
<1>4. StageInv'
  BY <1>2 DEF StageInv, Stage, InTransaction, Changed, HandlerDone
<1> DEFINE k == req[c].key
           n == Len(db.changesets) + 1
<1>5. /\ db'.requests = [db.requests EXCEPT ![k] = NewRow(c)]
      /\ db.requests[k] = AbsentRow
      /\ db'.audit = db.audit \cup {n}
  BY <1>0, <1>1 DEF StageInv, Stage, Changed, HandlerDone
<1>6. /\ k \in Keys /\ n \notin DOMAIN db.changesets
      /\ DOMAIN db'.changesets = DOMAIN db.changesets \cup {n}
      /\ \A i \in DOMAIN db.changesets : db'.changesets[i] = db.changesets[i]
      /\ db'.changesets[n].key = k
      /\ Describes(NewRow(c).receipt, db'.changesets[n])
      /\ NewRow(c).receipt.changeset = n
  <2> DEFINE cs == [key |-> k, base |-> db.revision, committed |-> NextRevision(db.revision),
                    changed |-> entries # {}, entries |-> entries]
  <2>1. /\ k \in Keys /\ n \notin DOMAIN db.changesets
        /\ DOMAIN tx.changesets = DOMAIN db.changesets \cup {n}
        /\ \A i \in DOMAIN db.changesets : tx.changesets[i] = db.changesets[i]
        /\ tx.changesets[n] = cs
    BY <1>0, HandlerDoneFacts
  <2>2. cs.key = k /\ Describes(NewRow(c).receipt, cs) /\ NewRow(c).receipt.changeset = n
    BY DEF NewRow, Describes
  <2> HIDE DEF cs, n
  <2> QED BY <1>1, <2>1, <2>2
<1>7. NewRow(c).receipt \in Receipt
  <2>1. db.revision \in Nat /\ Len(db.changesets) \in Nat
    BY <1>0, HandlerDoneFacts, TablesFacts
  <2> QED BY <2>1 DEF NewRow, Receipt, NextRevision
<1>8. db.requests \in [Keys -> Row]
  BY TablesFacts
<1>9. db'.requests[k] = NewRow(c) /\ \A j \in Keys \ {k} : db'.requests[j] = db.requests[j]
  BY <1>5, <1>6, <1>8
<1>11. \A i \in DOMAIN db.changesets : db.changesets[i] \in Changeset
  <2>1. db.changesets \in Seq(Changeset)
    BY TablesFacts
  <2> HIDE DEF IInv, TypeOK
  <2> QED BY <2>1
<1>10. TablesInv'
  <2>1. ASSUME NEW j \in Keys PROVE (db.requests[j] = AbsentRow \/ RowPublished(j))'
    <3>1. CASE j = k
      BY <1>6, <1>7, <1>9, <3>1 DEF RowPublished, NewRow
    <3>2. CASE j # k
      <4>1. db'.requests[j] = db.requests[j]
        BY <1>9, <3>2
      <4>2. CASE db.requests[j] = AbsentRow
        BY <4>1, <4>2 DEF AbsentRow
      <4>3. CASE RowPublished(j)
        <5>1. /\ db.requests[j].receipt.changeset \in DOMAIN db'.changesets
              /\ db'.changesets[db.requests[j].receipt.changeset]
                   = db.changesets[db.requests[j].receipt.changeset]
          BY <1>6, <4>3 DEF RowPublished
        <5> QED BY <4>1, <4>3, <5>1 DEF RowPublished, Describes
      <4> QED BY <4>2, <4>3 DEF TablesInv
    <3> QED BY <3>1, <3>2
  <2>2. ASSUME NEW i \in DOMAIN db'.changesets
        PROVE /\ db'.requests[db'.changesets[i].key].status = "committed"
              /\ db'.requests[db'.changesets[i].key].receipt.changeset = i
    <3>1. CASE i = n
      BY <1>6, <1>9, <3>1 DEF NewRow
    <3>2. CASE i # n
      <4>1. i \in DOMAIN db.changesets /\ db'.changesets[i] = db.changesets[i]
        BY <1>6, <3>2
      <4>2. db.changesets[i].key # k
        BY <1>5, <4>1 DEF TablesInv, AbsentRow
      <4>3. db.changesets[i] \in Changeset
        BY <4>1, <1>11
      <4>4. db.changesets[i].key \in Keys
        BY <4>3 DEF Changeset
      <4> QED BY <1>9, <4>1, <4>2, <4>4 DEF TablesInv
    <3> QED BY <3>1, <3>2
  <2>3. db'.audit = DOMAIN db'.changesets
    BY <1>5, <1>6 DEF TablesInv
  <2> QED BY <2>1, <2>2, <2>3 DEF TablesInv
<1> QED BY <1>3, <1>4, <1>5, <1>6, <1>10


\* Every step keeps the lock discipline, the published tables and the stages.
LEMMA NextStages == IInv /\ [Next]_vars => LockInv' /\ TablesInv' /\ StageInv'
<1> SUFFICES ASSUME IInv, [Next]_vars PROVE LockInv' /\ TablesInv' /\ StageInv'
  OBVIOUS
<1> USE DEF IInv
<1>p. \A x \in {"idle", "pinned", "looked", "ready", "previewing", "committed", "down"} :
         x \notin InTransaction
  BY DEF InTransaction, HandlerDone
<1>k. \A d \in Clients : req[d] \in Request => req[d].key \in Keys
  BY MessageFacts
<1>r. /\ db.requests \in [Keys -> Row] /\ tx.requests \in [Keys -> Row]
      /\ tx.heads \in [Entities -> Values]
  BY TablesFacts DEF TypeOK
<1>1. ASSUME NEW c \in Clients, Ask(c) PROVE LockInv' /\ TablesInv' /\ StageInv'
  <2>1. ASSUME NEW named \in Named, Pin(c, named) PROVE LockInv' /\ TablesInv' /\ StageInv'
    BY <1>p, <2>1, Outside DEF Pin, Goto
  <2>2. CASE Look(c)
    BY <1>p, <2>2, Outside DEF Look, Goto
  <2>3. ASSUME NEW p \in Payloads, NEW k \in Keys, NEW explicit \in BOOLEAN, NEW early \in BOOLEAN,
               Submit(c, p, k, explicit, early)
        PROVE LockInv' /\ TablesInv' /\ StageInv'
    <3>1. \E r \in Request : req' = [req EXCEPT ![c] = r]
      BY <2>3, SubmitFacts
    <3>2. req'[c] \in Request /\ \A d \in Clients \ {c} : req'[d] = req[d]
      BY <3>1 DEF TypeOK
    <3> QED BY <1>p, <2>3, <3>2, Outside DEF Submit, Goto
  <2>4. CASE PinAgain(c)
    BY <1>p, <2>4, Outside DEF PinAgain, Goto
  <2>5. CASE FindReplay(c)
    <3>1. pc' = [pc EXCEPT ![c] = "idle"]
      BY <2>5 DEF FindReplay, Finish, Goto
    <3> QED BY <1>p, <2>5, <3>1, Outside DEF FindReplay
  <2>6. CASE PreviewBegin(c)
    BY <1>p, <2>6, Outside DEF PreviewBegin, Goto, LockInv
  <2>7. CASE PreviewEnd(c)
    BY <1>p, <2>7, Outside DEF PreviewEnd, Finish, Goto
  <2> QED BY <1>1, <2>1, <2>2, <2>3, <2>4, <2>5, <2>6, <2>7 DEF Ask
<1>2. ASSUME NEW c \in Clients, Enter(c) PROVE LockInv' /\ TablesInv' /\ StageInv'
  <2>1. CASE Begin(c)
    <3>1. \A d \in Clients : pc[d] \notin InTransaction
      BY <2>1 DEF Begin, LockInv
    <3>2. pc'[c] = "begun" /\ \A d \in Clients \ {c} : pc'[d] = pc[d] /\ writer' # d
      BY <2>1 DEF Begin, Goto, TypeOK
    <3>3. LockInv'
      BY <2>1, <3>1, <3>2 DEF Begin, LockInv, InTransaction
    <3>4. TablesInv'
      BY <2>1 DEF Begin, TablesInv, RowPublished
    <3>5. StageInv'
      BY <2>1, <3>1, <3>2 DEF Begin, StageInv, Stage, InTransaction, Changed, HandlerDone
    <3> QED BY <3>3, <3>4, <3>5
  <2>2. CASE Busy(c)
    BY <1>p, <2>2, Outside DEF Busy, Finish, Goto
  <2> QED BY <1>2, <2>1, <2>2 DEF Enter
<1>3. ASSUME NEW c \in Clients, Decide(c) PROVE LockInv' /\ TablesInv' /\ StageInv'
  <2>0. pc[c] = "begun" /\ pc[c] \in InTransaction /\ writer = c
    BY <1>3 DEF Decide, Replay, KeyConflict, Stale, Reserve, LockInv, InTransaction
  <2>1. CASE Replay(c) \/ KeyConflict(c) \/ Stale(c)
    BY <2>0, <2>1, RolledBack DEF Replay, KeyConflict, Stale, Finish, Goto
  <2>2. CASE Reserve(c)
    <3>1. pc' = [pc EXCEPT ![c] = "reserved"] /\ "reserved" \in InTransaction
      BY <2>2 DEF Reserve, Goto, InTransaction
    <3>2. /\ LockInv' /\ TablesInv' /\ pc'[c] = "reserved"
          /\ \A d \in Clients \ {c} : pc'[d] \notin InTransaction
      BY <2>0, <2>2, <3>1, Inside DEF Reserve
    <3>3. tx = db /\ entries = {}
      BY <2>0 DEF StageInv, Stage
    <3>4. /\ tx'.requests = [db.requests EXCEPT ![req[c].key] = PendingRow(c)]
          /\ tx'.changesets = db.changesets /\ tx'.audit = db.audit
          /\ tx'.revision = db.revision /\ tx'.heads = db.heads
      BY <2>2, <3>3, TablesFacts DEF Reserve, PendingRow, Tables, TypeOK
    <3>5. req[c].digest.revision = db.revision
      BY <2>2, <3>3 DEF Reserve, Current
    <3>6. db.requests[req[c].key] = AbsentRow
      <4>1. req[c].key \in Keys
        BY <1>k, <2>0 DEF LockInv
      <4>2. db.requests[req[c].key].status = "absent"
        BY <2>2, <3>3 DEF Reserve, NewKey, Reserved
      <4> QED BY <4>1, <4>2 DEF TablesInv, RowPublished
    <3>7. db' = db /\ req' = req /\ entries' = entries
      BY <2>2 DEF Reserve
    <3>8. StageInv'
      BY <3>2, <3>3, <3>4, <3>5, <3>6, <3>7
         DEF StageInv, Stage, Changed, HandlerDone, InTransaction, PendingRow
    <3> QED BY <3>2, <3>8
  <2> QED BY <1>3, <2>1, <2>2 DEF Decide
<1>4. ASSUME NEW c \in Clients, Handle(c) PROVE LockInv' /\ TablesInv' /\ StageInv'
  <2>0. pc[c] = "reserved" /\ pc[c] \in InTransaction /\ writer = c
    BY <1>4 DEF Handle, Publish, SelectHead, Record, LockInv, InTransaction
  <2>a. /\ db.requests[req[c].key] = AbsentRow
        /\ req[c].digest.revision = db.revision
        /\ entries = {} => tx.heads = db.heads
        /\ tx.requests = [db.requests EXCEPT ![req[c].key] = PendingRow(c)]
        /\ tx.changesets = db.changesets /\ tx.audit = db.audit
        /\ tx.revision = db.revision
    BY <2>0 DEF StageInv, Stage, Changed, HandlerDone
  <2>1. ASSUME NEW e \in Entities, Publish(c, e) PROVE LockInv' /\ TablesInv' /\ StageInv'
    <3>1. UNCHANGED <<db, tx, writer, entries, pc, req>>
      BY <2>1 DEF Publish
    <3> QED BY <3>1 DEF LockInv, TablesInv, RowPublished, StageInv, Stage, PendingRow, NewRow,
               NewHistory, NextRevision
  <2>2. ASSUME NEW e \in Entities, SelectHead(c, e) PROVE LockInv' /\ TablesInv' /\ StageInv'
    <3>1. pc' = pc /\ db' = db /\ req' = req /\ writer' = writer
      BY <2>2 DEF SelectHead
    <3>2. \A d \in Clients \ {c} : pc'[d] \notin InTransaction
      BY <2>0, <3>1 DEF LockInv
    <3>3. /\ tx'.requests = tx.requests /\ tx'.changesets = tx.changesets
          /\ tx'.audit = tx.audit /\ tx'.revision = tx.revision
      BY <2>2 DEF SelectHead, Tables, TypeOK
    <3>4. entries' # {}
      BY <2>2 DEF SelectHead
    <3>5. LockInv' /\ TablesInv'
      BY <3>1 DEF LockInv, TablesInv, RowPublished
    <3>6. Stage(c)'
      BY <2>0, <2>a, <3>1, <3>3, <3>4 DEF Stage, PendingRow, Changed, HandlerDone
    <3>7. StageInv'
      BY <3>2, <3>6 DEF StageInv, Stage, InTransaction, Changed, HandlerDone
    <3> QED BY <3>5, <3>7
  <2>3. CASE Record(c)
    <3>1. pc' = [pc EXCEPT ![c] = "recorded"] /\ "recorded" \in InTransaction
      BY <2>3 DEF Record, Goto, InTransaction, HandlerDone
    <3>2. /\ LockInv' /\ TablesInv' /\ pc'[c] = "recorded"
          /\ \A d \in Clients \ {c} : pc'[d] \notin InTransaction
      BY <2>0, <2>3, <3>1, Inside DEF Record
    <3>3. /\ tx'.requests = tx.requests /\ tx'.revision = tx.revision /\ tx'.heads = tx.heads
          /\ tx'.changesets = Append(tx.changesets, NewChangeset(c))
          /\ tx'.audit = Audited
      BY <2>3 DEF Record, Tables, TypeOK
    <3>4. tx'.changesets = NewHistory(c)
      BY <2>a, <3>3 DEF NewHistory, NewChangeset, NewReceipt
    <3>5. tx'.audit = db.audit \cup {Len(db.changesets) + 1}
      BY <2>a, <3>3 DEF Audited, NewReceipt
    <3>6. db' = db /\ req' = req /\ entries' = entries
      BY <2>3 DEF Record
    <3>7. Stage(c)'
      BY <2>a, <3>2, <3>3, <3>4, <3>5, <3>6
         DEF Stage, PendingRow, NewHistory, NextRevision, Changed, HandlerDone
    <3>8. StageInv'
      BY <3>2, <3>7 DEF StageInv, Stage, InTransaction, Changed, HandlerDone
    <3> QED BY <3>2, <3>8
  <2> QED BY <1>4, <2>1, <2>2, <2>3 DEF Handle
<1>5. ASSUME NEW c \in Clients, Seal(c) PROVE LockInv' /\ TablesInv' /\ StageInv'
  <2>a. ASSUME pc[c] \in HandlerDone \ {"stored"}
        PROVE /\ pc[c] \in InTransaction /\ writer = c
              /\ db.requests[req[c].key] = AbsentRow
              /\ req[c].digest.revision = db.revision
              /\ entries = {} => tx.heads = db.heads
              /\ tx.requests = [db.requests EXCEPT ![req[c].key] = PendingRow(c)]
              /\ tx.changesets = NewHistory(c)
              /\ tx.audit = db.audit \cup {Len(db.changesets) + 1}
              /\ pc[c] = "recorded" => tx.revision = db.revision
              /\ pc[c] = "advanced" => tx.revision = NextRevision(db.revision)
    BY <2>a DEF StageInv, Stage, Changed, HandlerDone, LockInv, InTransaction
  <2>1. CASE Advance(c)
    <3>0. pc[c] = "recorded" /\ pc[c] \in HandlerDone
      BY <2>1 DEF Advance, HandlerDone
    <3>1. pc' = [pc EXCEPT ![c] = "advanced"] /\ "advanced" \in InTransaction
      BY <2>1 DEF Advance, Goto, InTransaction, HandlerDone
    <3>2. /\ LockInv' /\ TablesInv' /\ pc'[c] = "advanced"
          /\ \A d \in Clients \ {c} : pc'[d] \notin InTransaction
      BY <2>1, <2>a, <3>0, <3>1, Inside DEF Advance
    <3>3. /\ tx'.requests = tx.requests /\ tx'.heads = tx.heads
          /\ tx'.changesets = tx.changesets /\ tx'.audit = tx.audit
          /\ tx'.revision = MovedRevision
      BY <2>1 DEF Advance, Tables, TypeOK
    <3>4. MovedRevision = NextRevision(db.revision)
      <4>1. Committing = NewRow(c).receipt
        BY <3>0, HandlerDoneFacts
      <4> QED BY <2>a, <3>0, <4>1 DEF MovedRevision, NewRow, NextRevision
    <3>5. db' = db /\ req' = req /\ entries' = entries
      BY <2>1 DEF Advance
    <3>6. Stage(c)'
      BY <2>a, <3>0, <3>2, <3>3, <3>4, <3>5
         DEF Stage, PendingRow, NewHistory, NextRevision, Changed, HandlerDone
    <3>7. StageInv'
      BY <3>2, <3>6 DEF StageInv, Stage, InTransaction, Changed, HandlerDone
    <3> QED BY <3>2, <3>7
  <2>2. CASE StoreReceipt(c)
    <3>0. pc[c] = "advanced" /\ pc[c] \in HandlerDone
      BY <2>2 DEF StoreReceipt, HandlerDone
    <3>1. pc' = [pc EXCEPT ![c] = "stored"] /\ "stored" \in InTransaction
      BY <2>2 DEF StoreReceipt, Goto, InTransaction, HandlerDone
    <3>2. /\ LockInv' /\ TablesInv' /\ pc'[c] = "stored"
          /\ \A d \in Clients \ {c} : pc'[d] \notin InTransaction
      BY <2>2, <2>a, <3>0, <3>1, Inside DEF StoreReceipt
    <3>3. /\ tx'.heads = tx.heads /\ tx'.revision = tx.revision
          /\ tx'.changesets = tx.changesets /\ tx'.audit = tx.audit
          /\ tx'.requests = [tx.requests EXCEPT ![req[c].key] =
                [status |-> "committed", digest |-> tx.requests[req[c].key].digest,
                 receipt |-> Committing]]
      BY <2>2 DEF StoreReceipt, Tables, TypeOK
    <3>4. Committing = NewRow(c).receipt /\ req[c].key \in Keys
      BY <3>0, HandlerDoneFacts
    <3>5. tx.requests[req[c].key] = PendingRow(c)
      BY <1>r, <2>a, <3>0, <3>4
    <3>6. [status |-> "committed", digest |-> tx.requests[req[c].key].digest,
           receipt |-> Committing] = NewRow(c)
      BY <3>4, <3>5 DEF NewRow, PendingRow
    <3>7. tx'.requests = [db.requests EXCEPT ![req[c].key] = NewRow(c)]
      BY <1>r, <2>a, <3>0, <3>3, <3>4, <3>6
    <3>8. db' = db /\ req' = req /\ entries' = entries
      BY <2>2 DEF StoreReceipt
    <3>9. Stage(c)'
      BY <2>a, <3>0, <3>2, <3>3, <3>7, <3>8
         DEF Stage, NewRow, NewHistory, NextRevision, Changed, HandlerDone
    <3>10. StageInv'
      BY <3>2, <3>9 DEF StageInv, Stage, InTransaction, Changed, HandlerDone
    <3> QED BY <3>2, <3>10
  <2>3. CASE Commit(c)
    BY <2>3, CommitFacts
  <2>4. CASE Return(c)
    BY <1>p, <2>4, Outside DEF Return, Finish, Goto
  <2> QED BY <1>5, <2>1, <2>2, <2>3, <2>4 DEF Seal
<1>6. ASSUME NEW c \in Clients, Upset(c) PROVE LockInv' /\ TablesInv' /\ StageInv'
  <2>1. CASE Fail(c)
    BY <2>1, RolledBack DEF Fail, Finish, Goto, LockInv
  <2>2. CASE Interrupt(c)
    BY <1>p, <2>2, Outside DEF Interrupt, Finish, Goto
  <2>3. CASE Crash(c)
    <3>1. CASE writer = c
      BY <2>3, <3>1, RolledBack DEF Crash, Goto
    <3>2. CASE writer # c
      BY <1>p, <2>3, <3>2, Outside DEF Crash, Goto, LockInv
    <3> QED BY <3>1, <3>2
  <2>4. CASE Restart(c)
    BY <1>p, <2>4, Outside DEF Restart, Goto
  <2> QED BY <1>6, <2>1, <2>2, <2>3, <2>4 DEF Upset
<1>7. CASE UNCHANGED vars
  BY <1>7 DEF vars, LockInv, TablesInv, RowPublished, StageInv, Stage, PendingRow, NewRow,
     NewHistory, NextRevision
<1> QED BY <1>1, <1>2, <1>3, <1>4, <1>5, <1>6, <1>7 DEF Next


----------------------------------------------------------------------------
(* Answers and views.                                                      *)

\* Only COMMIT moves the committed tables.
LEMMA OnlyCommitPublishes ==
    ASSUME [Next]_vars
    PROVE  db' = db \/ \E c \in Clients : Commit(c)
<1>1. ASSUME NEW c \in Clients, Ask(c) PROVE db' = db
  BY <1>1 DEF Ask, Pin, Look, Submit, PinAgain, FindReplay, PreviewBegin, PreviewEnd
<1>2. ASSUME NEW c \in Clients, Enter(c) \/ Decide(c) \/ Handle(c) PROVE db' = db
  BY <1>2 DEF Enter, Begin, Busy, Decide, Replay, KeyConflict, Stale, Reserve, Rollback, Handle,
     Publish, SelectHead, Record
<1>3. ASSUME NEW c \in Clients, Seal(c) PROVE db' = db \/ Commit(c)
  BY <1>3 DEF Seal, Advance, StoreReceipt, Return
<1>4. ASSUME NEW c \in Clients, Upset(c) PROVE db' = db
  BY <1>4 DEF Upset, Fail, Interrupt, Crash, Restart, Rollback
<1> QED BY <1>1, <1>2, <1>3, <1>4 DEF Next, vars

\* A published row is never rewritten.
LEMMA RowsStay ==
    ASSUME IInv, [Next]_vars, NEW k \in Keys, db.requests[k] # AbsentRow
    PROVE  db'.requests[k] = db.requests[k]
<1>1. CASE db' = db
  BY <1>1
<1>2. ASSUME NEW c \in Clients, Commit(c) PROVE db'.requests[k] = db.requests[k]
  <2>1. db.requests[req[c].key] = AbsentRow
    BY <1>2 DEF IInv, StageInv, Stage, Commit, Changed, HandlerDone
  <2>2. db'.requests = [db.requests EXCEPT ![req[c].key] = NewRow(c)]
    BY <1>2, CommitFacts
  <2>3. db.requests \in [Keys -> Row]
    BY TablesFacts DEF IInv, TypeOK
  <2> QED BY <2>1, <2>2, <2>3
<1> QED BY <1>1, <1>2, OnlyCommitPublishes

\* A receipt names a key.
LEMMA ReceiptKey ==
    ASSUME NEW a \in Answer, a.kind = "receipt"
    PROVE  a.key \in Keys
  BY DEF Answer

\* A step of one client leaves the others' variables alone.
LEMMA OthersStay ==
    ASSUME TypeOK, NEW c \in Clients, NEW d \in Clients, c # d,
           Ask(c) \/ Enter(c) \/ Decide(c) \/ Handle(c) \/ Seal(c) \/ Upset(c)
    PROVE  /\ pc'[d] = pc[d] /\ answer'[d] = answer[d] /\ req'[d] = req[d]
           /\ seen'[d] = seen[d] /\ pin'[d] = pin[d]
<1> DEFINE Stay == /\ pc'[d] = pc[d] /\ answer'[d] = answer[d] /\ req'[d] = req[d]
                   /\ seen'[d] = seen[d] /\ pin'[d] = pin[d]
<1> USE DEF Goto, Finish, Forget, TypeOK
<1>1. CASE Ask(c)
  <2>1. CASE \E named \in Named : Pin(c, named)
    BY <2>1 DEF Pin
  <2>2. CASE Look(c)
    BY <2>2 DEF Look
  <2>3. ASSUME NEW p \in Payloads, NEW k \in Keys, NEW explicit \in BOOLEAN, NEW early \in BOOLEAN,
               Submit(c, p, k, explicit, early)
        PROVE Stay
    <3>1. req'[d] = req[d]
      BY <2>3, SubmitFacts
    <3> QED BY <2>3, <3>1 DEF Submit
  <2>4. CASE PinAgain(c)
    BY <2>4 DEF PinAgain
  <2>5. CASE FindReplay(c)
    BY <2>5 DEF FindReplay
  <2>6. CASE PreviewBegin(c)
    BY <2>6 DEF PreviewBegin
  <2>7. CASE PreviewEnd(c)
    BY <2>7 DEF PreviewEnd
  <2> QED BY <1>1, <2>1, <2>2, <2>3, <2>4, <2>5, <2>6, <2>7 DEF Ask
<1>2. CASE Enter(c)
  BY <1>2 DEF Enter, Begin, Busy
<1>3. CASE Decide(c)
  BY <1>3 DEF Decide, Replay, KeyConflict, Stale, Reserve
<1>4. CASE Handle(c)
  BY <1>4 DEF Handle, Publish, SelectHead, Record
<1>5. CASE Seal(c)
  BY <1>5 DEF Seal, Advance, StoreReceipt, Commit, Return
<1>6. CASE Upset(c)
  BY <1>6 DEF Upset, Fail, Interrupt, Crash, Restart
<1> QED BY <1>1, <1>2, <1>3, <1>4, <1>5, <1>6

\* What every step does to the answers and to the places that matter for them.
LEMMA AnswerSteps ==
    ASSUME IInv, [Next]_vars, NEW d \in Clients
    PROVE  /\ pc'[d] = "committed" =>
                 \/ Commit(d)
                 \/ pc[d] = "committed" /\ req'[d] = req[d]
           /\ \/ answer'[d] = answer[d]
              \/ \E kind \in {"none", "busy", "conflict", "failed", "aborted", "interrupted",
                              "preview"} : answer'[d] = Says(kind)
              \/ /\ db' = db
                 /\ answer'[d].kind = "receipt"
                 /\ answer'[d].key = req[d].key /\ req[d].key \in Keys
                 /\ db.requests[req[d].key].status = "committed"
                 /\ db.requests[req[d].key].digest = answer'[d].digest
                 /\ db.requests[req[d].key].receipt = answer'[d].receipt
<1> DEFINE P == pc'[d] = "committed" => Commit(d) \/ (pc[d] = "committed" /\ req'[d] = req[d])
           K == {"none", "busy", "conflict", "failed", "aborted", "interrupted", "preview"}
           R == /\ db' = db
                /\ answer'[d].kind = "receipt"
                /\ answer'[d].key = req[d].key /\ req[d].key \in Keys
                /\ db.requests[req[d].key].status = "committed"
                /\ db.requests[req[d].key].digest = answer'[d].digest
                /\ db.requests[req[d].key].receipt = answer'[d].receipt
           A == \/ answer'[d] = answer[d]
                \/ \E kind \in K : answer'[d] = Says(kind)
                \/ R
<1> SUFFICES P /\ A
  OBVIOUS
<1>t. pc \in [Clients -> Places] /\ answer \in [Clients -> Answer]
  BY DEF IInv, TypeOK
<1>k. pc[d] \in {"ready", "committed"} \cup InTransaction => req[d].key \in Keys
  BY MessageFacts DEF IInv, LockInv
<1> USE DEF Goto
<1>1. ASSUME NEW c \in Clients, c # d,
             Ask(c) \/ Enter(c) \/ Decide(c) \/ Handle(c) \/ Seal(c) \/ Upset(c)
      PROVE pc'[d] = pc[d] /\ answer'[d] = answer[d] /\ req'[d] = req[d]
  BY <1>1, OthersStay DEF IInv
<1>2. CASE Ask(d)
  <2>1. CASE FindReplay(d)
    <3>1. pc'[d] = "idle"
      BY <2>1, <1>t DEF FindReplay, Finish
    <3>2. \/ \E kind \in K : answer'[d] = Says(kind)
          \/ /\ answer'[d] = Replayed(d, Stored(d)) /\ Stored(d).status = "committed"
             /\ SameDigest(d, Stored(d))
      BY <2>1, <1>t DEF FindReplay, Finish
    <3>3. db' = db /\ pc[d] = "ready"
      BY <2>1 DEF FindReplay
    <3> QED BY <3>1, <3>2, <3>3, <1>k DEF Replayed, Stored, SameDigest
  <2>2. CASE ~FindReplay(d)
    BY <1>2, <2>2, <1>t DEF Ask, Pin, Look, Submit, PinAgain, PreviewBegin, PreviewEnd, Finish
  <2> QED BY <2>1, <2>2
<1>3. CASE Enter(d)
  BY <1>3, <1>t DEF Enter, Begin, Busy, Finish
<1>4. CASE Decide(d)
  <2>1. CASE Replay(d)
    <3>1. pc'[d] = "idle" /\ answer'[d] = Replayed(d, Reserved(d)) /\ db' = db
      BY <2>1, <1>t DEF Replay, Rollback, Finish
    <3>2. /\ pc[d] \in InTransaction /\ Reserved(d) = db.requests[req[d].key]
          /\ Reserved(d).status = "committed" /\ SameDigest(d, Reserved(d))
      BY <2>1 DEF Replay, IInv, StageInv, Stage, Reserved, InTransaction
    <3> QED BY <3>1, <3>2, <1>k DEF Replayed, SameDigest
  <2>2. CASE ~Replay(d)
    BY <1>4, <2>2, <1>t DEF Decide, KeyConflict, Stale, Reserve, Finish
  <2> QED BY <2>1, <2>2
<1>5. CASE Handle(d)
  BY <1>5, <1>t DEF Handle, Publish, SelectHead, Record
<1>6. CASE Seal(d)
  <2>1. CASE Return(d)
    <3>1. /\ pc'[d] = "idle" /\ db' = db /\ pc[d] = "committed"
          /\ answer'[d] = [kind |-> "receipt", key |-> req[d].key, digest |-> req[d].digest,
                           receipt |-> Stored(d).receipt, replayed |-> FALSE]
      BY <2>1, <1>t DEF Return, Finish
    <3>2. /\ db.requests[req[d].key].status = "committed"
          /\ db.requests[req[d].key].digest = req[d].digest
      BY <3>1 DEF IInv, AnswerInv
    <3> QED BY <3>1, <3>2, <1>k DEF Stored
  <2>2. CASE ~Return(d)
    BY <1>6, <2>2, <1>t DEF Seal, Advance, StoreReceipt, Commit
  <2> QED BY <2>1, <2>2
<1>7. CASE Upset(d)
  BY <1>7, <1>t DEF Upset, Fail, Interrupt, Crash, Restart, Finish, Raised
<1>8. CASE UNCHANGED vars
  BY <1>8 DEF vars
<1> QED BY <1>1, <1>2, <1>3, <1>4, <1>5, <1>6, <1>7, <1>8 DEF Next

\* Every step keeps the answers true of the published tables.
LEMMA NextAnswers == IInv /\ [Next]_vars => AnswerInv'
<1> SUFFICES ASSUME IInv, [Next]_vars PROVE AnswerInv'
  OBVIOUS
<1>1. ASSUME NEW d \in Clients, pc'[d] = "committed"
      PROVE db'.requests[req'[d].key].status = "committed"
            /\ db'.requests[req'[d].key].digest = req'[d].digest
  <2>1. CASE Commit(d)
    <3>1. /\ db'.requests = [db.requests EXCEPT ![req[d].key] = NewRow(d)]
          /\ req[d].key \in Keys /\ req' = req /\ db.requests \in [Keys -> Row]
      BY <2>1, CommitFacts, TablesFacts DEF Commit, IInv, TypeOK
    <3> QED BY <3>1 DEF NewRow
  <2>2. CASE pc[d] = "committed" /\ req'[d] = req[d]
    <3>1. req[d].key \in Keys
      BY <2>2, MessageFacts DEF IInv, LockInv
    <3>2. db.requests[req[d].key].status = "committed" /\ db.requests[req[d].key].digest = req[d].digest
      BY <2>2 DEF IInv, AnswerInv
    <3> QED BY <2>2, <3>1, <3>2, RowsStay DEF AbsentRow
  <2> QED BY <1>1, <2>1, <2>2, AnswerSteps
<1>2. ASSUME NEW d \in Clients, answer'[d].kind = "receipt"
      PROVE /\ db'.requests[answer'[d].key].status = "committed"
            /\ db'.requests[answer'[d].key].digest = answer'[d].digest
            /\ db'.requests[answer'[d].key].receipt = answer'[d].receipt
  <2>1. CASE answer'[d] = answer[d]
    <3>1. answer[d].key \in Keys
      BY <1>2, <2>1, ReceiptKey DEF IInv, TypeOK
    <3>2. /\ db.requests[answer[d].key].status = "committed"
          /\ db.requests[answer[d].key].digest = answer[d].digest
          /\ db.requests[answer[d].key].receipt = answer[d].receipt
      BY <1>2, <2>1 DEF IInv, AnswerInv, ReceiptIsPublished
    <3> QED BY <2>1, <3>1, <3>2, RowsStay DEF AbsentRow
  <2>2. CASE \E kind \in {"none", "busy", "conflict", "failed", "aborted", "interrupted",
                          "preview"} : answer'[d] = Says(kind)
    BY <1>2, <2>2 DEF Says
  <2> QED BY <2>1, <2>2, AnswerSteps
<1> QED BY <1>1, <1>2 DEF AnswerInv, ReceiptIsPublished


\* Every step keeps the views: a revision never goes back, and while it stays the heads
\* stay.
LEMMA NextViews == IInv /\ [Next]_vars => ViewInv'
<1> SUFFICES ASSUME IInv, [Next]_vars PROVE ViewInv'
  OBVIOUS
<1>t. /\ pc \in [Clients -> Places] /\ pin \in [Clients -> Identity \cup {None}]
      /\ req \in [Clients -> Request \cup {None}]
      /\ seen \in [Clients -> [Entities -> Values] \cup {None}]
  BY DEF IInv, TypeOK
<1>n. /\ db.revision \in Nat
      /\ \A d \in Clients : /\ pin[d] # None => pin[d].revision \in Nat
                            /\ req[d] # None \/ pc[d] \in {"ready"} \cup InTransaction
                                  => req[d].digest.revision \in Nat
  <2>1. db.revision \in Nat
    BY TablesFacts DEF IInv, TypeOK
  <2>2. ASSUME NEW d \in Clients
        PROVE /\ pin[d] # None => pin[d].revision \in Nat
              /\ req[d] # None \/ pc[d] \in {"ready"} \cup InTransaction
                    => req[d].digest.revision \in Nat
    BY <1>t, MessageFacts DEF IInv, LockInv
  <2> QED BY <2>1, <2>2
<1>v. \A d \in Clients : View(d)
  BY DEF IInv, ViewInv
<1>s. ASSUME NEW c \in Clients, Commit(c)
      PROVE /\ db'.revision = db.revision \/ db'.revision = db.revision + 1
            /\ db'.revision = db.revision => db'.heads = db.heads
  <2>1. /\ tx.revision = NextRevision(db.revision) /\ db' = tx
        /\ entries = {} => tx.heads = db.heads
    BY <1>s DEF Commit, IInv, StageInv, Stage, Changed, HandlerDone
  <2> QED BY <1>n, <2>1 DEF NextRevision
<1>f. ASSUME NEW d \in Clients, pc'[d] = pc[d], req'[d] = req[d], seen'[d] = seen[d], pin'[d] = pin[d],
             db' = db \/ \E c \in Clients : Commit(c) /\ c # d
      PROVE View(d)'
  <2>1. CASE db' = db
    BY <1>f, <1>v, <2>1 DEF View
  <2>2. ASSUME NEW c \in Clients, Commit(c) PROVE View(d)'
    <3>1. \/ db'.revision = db.revision /\ db'.heads = db.heads
          \/ db'.revision = db.revision + 1
      BY <1>s, <2>2
    <3> DEFINE r == req[d].digest.revision
               q == pin[d].revision
    <3>2. /\ pin[d] # None /\ ~pin[d].foreseen => q \in Nat /\ q <= db.revision
          /\ pc[d] \in {"ready"} \cup InTransaction /\ req[d].pinned
                => r \in Nat /\ r <= db.revision
      BY <1>n, <1>v DEF View
    <3>3. /\ pin[d] # None /\ ~pin[d].foreseen
                => q <= db'.revision /\ (q = db'.revision => q = db.revision)
          /\ pc[d] \in {"ready"} \cup InTransaction /\ req[d].pinned
                => r <= db'.revision /\ (r = db'.revision => r = db.revision)
      BY <1>n, <3>1, <3>2
    <3>4. db'.revision = db.revision => db'.heads = db.heads
      BY <1>n, <3>1
    <3>5. pc[d] = "looked" /\ pin[d] # None /\ ~pin[d].foreseen /\ q = db'.revision
             => seen[d] = db'.heads
      <4> SUFFICES ASSUME pc[d] = "looked", pin[d] # None, ~pin[d].foreseen, q = db'.revision
                   PROVE seen[d] = db'.heads
        OBVIOUS
      <4>1. q = db.revision
        BY <3>3
      <4>2. seen[d] = db.heads
        BY <1>v, <4>1, Zenon DEF View
      <4>3. db'.heads = db.heads
        BY <3>4, <4>1, Zenon
      <4> QED BY <4>2, <4>3
    <3>6. pc[d] \in {"ready"} \cup InTransaction /\ req[d].pinned /\ r = db'.revision
             => seen[d] = db'.heads
      <4> SUFFICES ASSUME pc[d] \in {"ready"} \cup InTransaction, req[d].pinned, r = db'.revision
                   PROVE seen[d] = db'.heads
        OBVIOUS
      <4>1. r = db.revision
        BY <3>3
      <4>2. seen[d] = db.heads
        BY <1>v, <4>1, Zenon DEF View
      <4>3. db'.heads = db.heads
        BY <3>4, <4>1, Zenon
      <4> QED BY <4>2, <4>3
    <3> QED BY <1>f, <3>3, <3>5, <3>6 DEF View
  <2> QED BY <1>f, <2>1, <2>2
<1>0. ASSUME NEW c \in Clients, NEW d \in Clients, d # c,
             Ask(c) \/ Enter(c) \/ Decide(c) \/ Handle(c) \/ Seal(c) \/ Upset(c)
      PROVE View(d)'
  <2>1. /\ pc'[d] = pc[d] /\ req'[d] = req[d] /\ seen'[d] = seen[d] /\ pin'[d] = pin[d]
    BY <1>0, OthersStay DEF IInv
  <2>2. db' = db \/ \E e \in Clients : Commit(e) /\ e # d
    <3>1. ~Commit(d)
      <4>1. Commit(d) => pc[d] = "stored" /\ pc'[d] = "committed"
        BY <1>t DEF Commit, Goto
      <4> QED BY <2>1, <4>1
    <3> QED BY <3>1, OnlyCommitPublishes
  <2> QED BY <1>f, <2>1, <2>2
<1> USE DEF Goto, Finish, Forget
<1>1. ASSUME NEW c \in Clients, Ask(c) PROVE View(c)'
  <2>1. ASSUME NEW named \in Named, Pin(c, named) PROVE View(c)'
    <3>1. PICK g, r : /\ pin'[c] = Pinned(g, r) /\ r \in Nat
                      /\ pc'[c] = "pinned" /\ db' = db
      <4>1. named.revision \in Nat \/ named.revision = None
        BY <2>1, NamedAssumption
      <4> QED BY <1>t, <1>n, <2>1, <4>1, Zenon DEF Pin
    <3>2. ~pin'[c].foreseen => pin'[c].revision <= db'.revision
      BY <1>n, <3>1, PinnedFacts DEF IInv
    <3> QED BY <3>1, <3>2 DEF View, InTransaction, HandlerDone
  <2>2. CASE Look(c)
    BY <1>t, <1>v, <2>2 DEF Look, View, InTransaction, HandlerDone
  <2>3. ASSUME NEW p \in Payloads, NEW k \in Keys, NEW explicit \in BOOLEAN, NEW early \in BOOLEAN,
               Submit(c, p, k, explicit, early)
        PROVE View(c)'
    <3>1. PICK r \in Request :
             /\ req' = [req EXCEPT ![c] = r]
             /\ r.pinned <=> pin[c] # None /\ ~pin[c].foreseen
             /\ r.digest.revision = IF pin[c] # None THEN pin[c].revision ELSE db.revision
      BY <2>3, SubmitFacts DEF IInv
    <3>2. /\ pc[c] = "looked" /\ pc'[c] = "ready" /\ db' = db /\ pin' = pin /\ seen' = seen
          /\ req'[c] = r
      BY <1>t, <2>3, <3>1 DEF Submit
    <3> QED BY <1>n, <1>v, <3>1, <3>2 DEF View
  <2>4. CASE PinAgain(c)
    <3>1. /\ pc'[c] = "pinned" /\ db' = db /\ req' = req /\ seen' = seen /\ req[c] # None
          /\ pin'[c] = Pinned(req[c].digest.generation, req[c].digest.revision)
      BY <1>t, <2>4 DEF PinAgain
    <3>2. ~pin'[c].foreseen => pin'[c].revision <= db'.revision
      BY <1>n, <3>1, PinnedFacts DEF IInv
    <3> QED BY <3>1, <3>2 DEF View, InTransaction, HandlerDone
  <2>5. CASE FindReplay(c)
    <3>1. /\ pc'[c] = "idle" /\ db' = db /\ req' = req /\ pin'[c] = None
      BY <1>t, <2>5 DEF FindReplay
    <3> QED BY <1>v, <3>1 DEF View, InTransaction, HandlerDone
  <2>6. CASE PreviewBegin(c)
    BY <1>t, <1>v, <2>6 DEF PreviewBegin, View, InTransaction, HandlerDone
  <2>7. CASE PreviewEnd(c)
    BY <1>t, <1>v, <2>7 DEF PreviewEnd, View, InTransaction, HandlerDone
  <2> QED BY <1>1, <2>1, <2>2, <2>3, <2>4, <2>5, <2>6, <2>7 DEF Ask
<1>2. ASSUME NEW c \in Clients, Enter(c) PROVE View(c)'
  BY <1>2, <1>t, <1>v DEF Enter, Begin, Busy, View, InTransaction, HandlerDone
<1>3. ASSUME NEW c \in Clients, Decide(c) PROVE View(c)'
  BY <1>3, <1>t, <1>v DEF Decide, Replay, KeyConflict, Stale, Reserve, Rollback, View,
     InTransaction, HandlerDone
<1>4. ASSUME NEW c \in Clients, Handle(c) PROVE View(c)'
  BY <1>4, <1>t, <1>v DEF Handle, Publish, SelectHead, Record, View, InTransaction, HandlerDone
<1>5. ASSUME NEW c \in Clients, Seal(c) PROVE View(c)'
  <2>1. CASE Commit(c)
    <3>1. pc'[c] = "committed" /\ UNCHANGED <<pin, req, seen>>
      BY <1>t, <2>1 DEF Commit
    <3>2. pin[c] # None /\ ~pin[c].foreseen => pin[c].revision <= db'.revision
      BY <1>n, <1>v, <1>s, <2>1 DEF View
    <3> QED BY <3>1, <3>2 DEF View, InTransaction, HandlerDone
  <2>2. CASE ~Commit(c)
    BY <1>5, <1>t, <1>v, <2>2 DEF Seal, Advance, StoreReceipt, Return, View, InTransaction,
       HandlerDone
  <2> QED BY <2>1, <2>2
<1>6. ASSUME NEW c \in Clients, Upset(c) PROVE View(c)'
  <2>1. UNCHANGED <<db, req>> /\ pc'[c] \in {"idle", "down"}
    BY <1>6, <1>t DEF Upset, Fail, Interrupt, Crash, Restart, Rollback
  <2>2. pin'[c] = None \/ pin'[c] = pin[c]
    BY <1>6, <1>t DEF Upset, Fail, Interrupt, Crash, Restart
  <2> QED BY <1>v, <2>1, <2>2 DEF View, InTransaction, HandlerDone
<1>7. CASE UNCHANGED vars
  BY <1>7, <1>v DEF vars, View, ViewInv
<1> QED BY <1>0, <1>1, <1>2, <1>3, <1>4, <1>5, <1>6, <1>7 DEF Next, ViewInv

----------------------------------------------------------------------------
(* Theorems.                                                               *)

\* The inductive invariant holds in every state.
THEOREM EngineInvariant == Spec => []IInv
<1>1. IInv /\ [Next]_vars => IInv'
  BY NextTypeOK, NextStages, NextAnswers, NextViews DEF IInv
<1> QED BY InitIInv, <1>1, PTL DEF Spec

\* Every variable keeps its type.
THEOREM EngineTypeCorrect == Spec => []TypeOK
<1>1. IInv => TypeOK
  BY DEF IInv
<1> QED BY EngineInvariant, <1>1, PTL

\* A key applies at most one changeset, whatever is retried, crashes or interrupts.
THEOREM EngineAtMostOnce == Spec => []AtMostOncePerKey
<1>1. IInv => AtMostOncePerKey
  BY DEF IInv, TablesInv, AtMostOncePerKey
<1> QED BY EngineInvariant, <1>1, PTL

\* Domain state, receipt, history and audit become visible together or not at all.
THEOREM EnginePublishedTogether == Spec => []PublishedTogether
<1>1. IInv => PublishedTogether
  BY DEF IInv, TablesInv, RowPublished, PublishedTogether, AbsentRow
<1> QED BY EngineInvariant, <1>1, PTL

\* A receipt in a caller's hands is the published one.
THEOREM EngineReceiptIsPublished == Spec => []ReceiptIsPublished
<1>1. IInv => ReceiptIsPublished
  BY DEF IInv, AnswerInv
<1> QED BY EngineInvariant, <1>1, PTL

\* No lost update: a pinned request only ever replaces the content its user saw.
THEOREM EngineConfirmedView == Spec => []ConfirmedViewIsCurrent
<1>1. IInv => ConfirmedViewIsCurrent
  <2> SUFFICES ASSUME IInv, NEW c \in Clients, pc[c] \in InTransaction \ {"begun"}, req[c].pinned
               PROVE seen[c] = db.heads
    BY DEF ConfirmedViewIsCurrent
  <2>1. req[c].digest.revision = db.revision
    BY DEF IInv, StageInv, Stage, InTransaction, Changed
  <2> QED BY <2>1 DEF IInv, ViewInv, View
<1> QED BY EngineInvariant, <1>1, PTL

----------------------------------------------------------------------------
(* What a handler has done so far.                                         *)

Moved == {e \in Entities : tx.heads[e] # db.heads[e]}
ChangeOf(c, e) == [entity |-> e, before |-> db.heads[e], after |-> Payload(c)[e]]

\* The rows that differ from the committed ones are rows of the payload, already with
\* its content, and the recorded entries are exactly their changes.
Handler(c) ==
    pc[c] \in Changed =>
        /\ req[c].digest.generation = Active
        /\ \A e \in Moved : e \in DOMAIN Payload(c) /\ tx.heads[e] = Payload(c)[e]
        /\ entries = {ChangeOf(c, e) : e \in Moved}
        /\ pc[c] \in HandlerDone => \A e \in DOMAIN Payload(c) : tx.heads[e] = Payload(c)[e]
HandlerInv == \A c \in Clients : Handler(c)

\* Committed and uncommitted heads name published objects.
ObjectsInv == \A e \in Entities : db.heads[e] \in objects /\ tx.heads[e] \in objects

LInv == IInv /\ HandlerInv /\ ObjectsInv

LEMMA InitLInv == Init => LInv
<1>1. Init => IInv
  BY InitIInv
<1>2. Init => HandlerInv
  BY DEF Init, HandlerInv, Handler, Changed, HandlerDone
<1>3. Init => ObjectsInv
  BY DEF Init, ObjectsInv
<1> QED
  BY <1>1, <1>2, <1>3 DEF LInv

\* What is inside an open transaction belongs to the client that opened it.
LEMMA WriterAlone ==
    ASSUME IInv, NEW c \in Clients, NEW d \in Clients, c # d, pc[d] \in Changed,
           Ask(c) \/ Enter(c) \/ Decide(c) \/ Handle(c) \/ Seal(c) \/ Upset(c)
    PROVE  UNCHANGED <<db, tx, entries>>
<1>1. writer = d /\ pc[c] \notin InTransaction
  BY DEF IInv, LockInv, Changed, InTransaction
<1>2. CASE Ask(c)
  BY <1>2 DEF Ask, Pin, Look, Submit, PinAgain, FindReplay, PreviewBegin, PreviewEnd
<1>3. CASE Enter(c)
  <2>1. ~Begin(c)
    BY <1>1, NoneAssumption DEF Begin
  <2>2. Busy(c)
    BY <1>3, <2>1 DEF Enter
  <2> QED
    BY <2>2 DEF Busy
<1>4. CASE Decide(c) \/ Handle(c)
  BY <1>1, <1>4 DEF Decide, Replay, KeyConflict, Stale, Reserve, Handle, Publish, SelectHead,
     Record, InTransaction
<1>5. CASE Seal(c)
  BY <1>1, <1>5 DEF Seal, Advance, StoreReceipt, Commit, Return, InTransaction, HandlerDone
<1>6. CASE Upset(c)
  BY <1>1, <1>6 DEF Upset, Fail, Interrupt, Crash, Restart
<1> QED
  BY <1>2, <1>3, <1>4, <1>5, <1>6

\* The payload of a request under way.
LEMMA PayloadFacts ==
    ASSUME IInv, NEW c \in Clients, pc[c] \in InTransaction
    PROVE  /\ Payload(c) \in Payloads
           /\ DOMAIN Payload(c) \subseteq Entities
           /\ \A e \in DOMAIN Payload(c) : Payload(c)[e] \in Values
<1>1. req[c] \in Request
  BY DEF IInv, LockInv
<1>2. req[c].digest.payload \in Payloads
  BY <1>1, MessageFacts
<1> QED
  BY <1>2, MessageFacts DEF Payload

LEMMA NextHandler == LInv /\ [Next]_vars => HandlerInv'
<1> SUFFICES ASSUME LInv, [Next]_vars, NEW d \in Clients, pc'[d] \in Changed
             PROVE  Handler(d)'
  BY DEF HandlerInv, Handler
<1> USE DEF LInv, Goto
<1>t. /\ pc \in [Clients -> Places] /\ req \in [Clients -> Request \cup {None}]
      /\ tx \in Tables /\ db \in Tables
      /\ tx.heads \in [Entities -> Values]
  BY TablesFacts DEF IInv, TypeOK
<1>r. tx = [revision |-> tx.revision, heads |-> tx.heads, requests |-> tx.requests,
            changesets |-> tx.changesets, audit |-> tx.audit]
  BY <1>t DEF Tables
<1>s. ASSUME pc[d] \in Changed, UNCHANGED <<db, entries, req>>, tx'.heads = tx.heads,
             pc'[d] \in HandlerDone => pc[d] \in HandlerDone
      PROVE  Handler(d)'
  BY <1>s DEF HandlerInv, Handler, Moved, ChangeOf, Payload
<1>1. CASE UNCHANGED vars
  BY <1>1, <1>s DEF vars
<1>2. ASSUME NEW c \in Clients, c # d,
             Ask(c) \/ Enter(c) \/ Decide(c) \/ Handle(c) \/ Seal(c) \/ Upset(c)
      PROVE  Handler(d)'
  <2>1. pc'[d] = pc[d] /\ req'[d] = req[d]
    BY <1>2, OthersStay DEF IInv
  <2>2. UNCHANGED <<db, tx, entries>>
    BY <1>2, <2>1, WriterAlone
  <2> QED
    BY <2>1, <2>2 DEF HandlerInv, Handler, Moved, ChangeOf, Payload
<1>3. CASE Ask(d) \/ Enter(d) \/ Upset(d)
  <2>1. pc'[d] \notin Changed \/ (UNCHANGED vars)
    BY <1>3, <1>t DEF Ask, Pin, Look, Submit, PinAgain, FindReplay, PreviewBegin, PreviewEnd,
       Enter, Begin, Busy, Upset, Fail, Interrupt, Crash, Restart, Finish, Changed, HandlerDone
  <2> QED
    BY <2>1, <1>1
<1>4. CASE Decide(d)
  <2>1. Reserve(d)
    BY <1>4, <1>t DEF Decide, Replay, KeyConflict, Stale, Finish, Changed, HandlerDone
  <2>2. tx = db /\ entries = {}
    BY <2>1 DEF Reserve, IInv, StageInv, Stage
  <2>3. tx'.heads = db.heads /\ db' = db /\ entries' = {} /\ req' = req /\ pc'[d] = "reserved"
    BY <2>1, <2>2, <1>t, <1>r DEF Reserve
  <2>4. req[d].digest.generation = Active
    BY <2>1 DEF Reserve, Current
  <2> QED
    BY <2>3, <2>4 DEF Handler, Moved, HandlerDone
<1>5. ASSUME NEW e \in Entities, Publish(d, e) PROVE Handler(d)'
  <2>1. pc[d] = "reserved" /\ pc' = pc
    BY <1>5 DEF Publish
  <2> QED
    BY <1>5, <2>1, <1>s DEF Publish, Changed
<1>6. ASSUME NEW e \in Entities, SelectHead(d, e) PROVE Handler(d)'
  <2>1. /\ pc[d] = "reserved" /\ pc' = pc /\ db' = db /\ req' = req
        /\ e \in DOMAIN Payload(d) /\ tx.heads[e] # Payload(d)[e]
        /\ entries' = entries \cup {[entity |-> e, before |-> tx.heads[e], after |-> Payload(d)[e]]}
    BY <1>6 DEF SelectHead, Wanted, Delta
  <2>2. tx'.heads = [tx.heads EXCEPT ![e] = Payload(d)[e]]
    BY <1>6, <1>r DEF SelectHead
  <2>3. Handler(d) /\ pc[d] \in Changed
    BY <2>1 DEF HandlerInv, Changed
  <2>4. e \notin Moved /\ tx.heads[e] = db.heads[e]
    BY <2>1, <2>3 DEF Handler, Moved
  <2>5. Moved' = Moved \cup {e}
    BY <2>1, <2>2, <2>4, <1>t DEF Moved
  <2>6. \A f \in Entities : ChangeOf(d, f)' = ChangeOf(d, f)
    BY <2>1 DEF ChangeOf, Payload
  <2>7. Payload(d)' = Payload(d)
    BY <2>1 DEF Payload
  <2>8. entries' = {ChangeOf(d, f)' : f \in Moved'}
    <3>1. entries' = entries \cup {ChangeOf(d, e)}
      BY <2>1, <2>4 DEF ChangeOf
    <3>2. entries = {ChangeOf(d, f) : f \in Moved}
      BY <2>3 DEF Handler
    <3> QED
      BY <3>1, <3>2, <2>5, <2>6 DEF Moved
  <2>9. \A f \in Moved' : f \in DOMAIN Payload(d) /\ tx'.heads[f] = Payload(d)[f]
    <3>1. \A f \in Moved : f \in DOMAIN Payload(d) /\ tx.heads[f] = Payload(d)[f] /\ f \in Entities
      BY <2>3 DEF Handler, Moved
    <3> QED
      BY <3>1, <2>1, <2>2, <2>5, <1>t
  <2>10. req'[d].digest.generation = Active /\ pc'[d] \notin HandlerDone
    BY <2>1, <2>3 DEF Handler, HandlerDone
  <2> QED
    BY <2>7, <2>8, <2>9, <2>10 DEF Handler
<1>7. CASE Record(d)
  <2>1. /\ pc[d] = "reserved" /\ db' = db /\ req' = req /\ entries' = entries
        /\ \A e \in Entities : ~Wanted(d, e)
    BY <1>7 DEF Record
  <2>2. tx'.heads = tx.heads
    BY <1>7, <1>r DEF Record
  <2>3. \A e \in DOMAIN Payload(d) : tx.heads[e] = Payload(d)[e]
    BY <2>1, PayloadFacts DEF Wanted, InTransaction
  <2>4. Handler(d) /\ pc[d] \in Changed
    BY <2>1 DEF HandlerInv, Changed
  <2> QED
    BY <2>1, <2>2, <2>3, <2>4 DEF Handler, Moved, ChangeOf, Payload
<1>8. CASE Seal(d)
  <2>1. Advance(d) \/ StoreReceipt(d)
    BY <1>8, <1>t DEF Seal, Commit, Return, Finish, Changed, HandlerDone
  <2>2. /\ pc[d] \in HandlerDone /\ UNCHANGED <<db, entries, req>>
    BY <2>1 DEF Advance, StoreReceipt, HandlerDone
  <2>3. tx'.heads = tx.heads
    BY <2>1, <1>r DEF Advance, StoreReceipt
  <2> QED
    BY <2>2, <2>3, <1>s DEF Changed
<1> QED
  BY <1>1, <1>2, <1>3, <1>4, <1>5, <1>6, <1>7, <1>8 DEF Next, Handle

\* Objects are only added, and a head is only selected when its object is there.
LEMMA NextObjects == LInv /\ [Next]_vars => ObjectsInv'
<1> SUFFICES ASSUME LInv, [Next]_vars PROVE ObjectsInv'
  OBVIOUS
<1> USE DEF LInv
<1>t. tx \in Tables /\ db \in Tables /\ tx.heads \in [Entities -> Values]
  BY TablesFacts DEF IInv, TypeOK
<1>r. tx = [revision |-> tx.revision, heads |-> tx.heads, requests |-> tx.requests,
            changesets |-> tx.changesets, audit |-> tx.audit]
  BY <1>t DEF Tables
<1>0. ASSUME objects \subseteq objects', db'.heads \in {db.heads, tx.heads},
             tx'.heads \in {db.heads, tx.heads}
      PROVE  ObjectsInv'
  BY <1>0 DEF ObjectsInv
<1>1. CASE UNCHANGED vars
  BY <1>0, <1>1 DEF vars
<1>2. ASSUME NEW c \in Clients, Ask(c) PROVE ObjectsInv'
  BY <1>0, <1>2 DEF Ask, Pin, Look, Submit, PinAgain, FindReplay, PreviewBegin, PreviewEnd
<1>3. ASSUME NEW c \in Clients, Enter(c) PROVE ObjectsInv'
  BY <1>0, <1>3 DEF Enter, Begin, Busy
<1>4. ASSUME NEW c \in Clients, Decide(c) PROVE ObjectsInv'
  <2>1. CASE Reserve(c)
    BY <1>0, <2>1, <1>r DEF Reserve
  <2>2. CASE ~Reserve(c)
    BY <1>0, <1>4, <2>2 DEF Decide, Replay, KeyConflict, Stale, Rollback
  <2> QED BY <2>1, <2>2
<1>5. ASSUME NEW c \in Clients, NEW e \in Entities, Publish(c, e) PROVE ObjectsInv'
  BY <1>0, <1>5 DEF Publish
<1>6. ASSUME NEW c \in Clients, NEW e \in Entities, SelectHead(c, e) PROVE ObjectsInv'
  <2>1. /\ db' = db /\ objects' = objects /\ Payload(c)[e] \in objects
    BY <1>6 DEF SelectHead, Verified
  <2>2. tx'.heads = [tx.heads EXCEPT ![e] = Payload(c)[e]]
    BY <1>6, <1>r DEF SelectHead
  <2> QED BY <2>1, <2>2, <1>t DEF ObjectsInv
<1>7. ASSUME NEW c \in Clients, Record(c) PROVE ObjectsInv'
  BY <1>0, <1>7, <1>r DEF Record
<1>8. ASSUME NEW c \in Clients, Seal(c) PROVE ObjectsInv'
  BY <1>0, <1>8, <1>r DEF Seal, Advance, StoreReceipt, Commit, Return
<1>9. ASSUME NEW c \in Clients, Upset(c) PROVE ObjectsInv'
  BY <1>0, <1>9 DEF Upset, Fail, Interrupt, Crash, Restart, Rollback
<1> QED
  BY <1>1, <1>2, <1>3, <1>4, <1>5, <1>6, <1>7, <1>8, <1>9 DEF Next, Handle

----------------------------------------------------------------------------
(* The refinement.                                                         *)

Rows == [i \in DOMAIN db.changesets |-> LedgerRow(i)]
Tellings == [c \in Clients |-> Told(c)]

\* Appending adds one row behind the others.
LEMMA AppendFacts ==
    ASSUME NEW S, NEW s \in Seq(S), NEW x
    PROVE  Append(s, x) = [i \in 1..(Len(s) + 1) |-> IF i = Len(s) + 1 THEN x ELSE s[i]]
<1> DEFINE T == S \cup {x}
<1>1. Len(s) \in Nat /\ s \in [1..Len(s) -> S]
  OBVIOUS
<1>2. s \in [1..Len(s) -> T]
  BY <1>1
<1>3. s \in Seq(T) /\ x \in T
  BY <1>1, <1>2
<1> HIDE DEF T
<1>4. /\ Append(s, x) \in Seq(T) /\ Len(Append(s, x)) = Len(s) + 1
      /\ Append(s, x)[Len(s) + 1] = x /\ \A i \in 1..Len(s) : Append(s, x)[i] = s[i]
  BY <1>3
<1>5. Append(s, x) \in [1..(Len(s) + 1) -> T]
  <2> DEFINE q == Append(s, x)
  <2>1. q \in Seq(T) /\ Len(q) = Len(s) + 1
    BY <1>4
  <2> HIDE DEF q
  <2>2. q \in [1..Len(q) -> T]
    BY <2>1
  <2> QED
    BY <2>1, <2>2 DEF q
<1>6. \A i \in 1..(Len(s) + 1) : i # Len(s) + 1 => i \in 1..Len(s)
  BY <1>1
<1> QED
  BY <1>4, <1>5, <1>6

\* The ledger a caller sees is a sequence, as long as the history.
LEMMA RowsFacts ==
    ASSUME IInv
    PROVE  /\ Len(db.changesets) \in Nat
           /\ DOMAIN db.changesets = 1..Len(db.changesets)
           /\ Rows \in Seq({LedgerRow(i) : i \in DOMAIN db.changesets})
           /\ Len(Rows) = Len(db.changesets)
           /\ DOMAIN Rows = DOMAIN db.changesets
<1>1. db.changesets \in Seq(Changeset)
  BY TablesFacts DEF IInv, TypeOK
<1>2. Len(db.changesets) \in Nat /\ DOMAIN db.changesets = 1..Len(db.changesets)
  <2> HIDE DEF IInv
  <2> DEFINE T == Changeset
  <2>1. db.changesets \in Seq(T)
    BY <1>1
  <2> HIDE DEF T
  <2> QED BY <2>1
<1> DEFINE n == Len(db.changesets)
           S == {LedgerRow(i) : i \in DOMAIN db.changesets}
<1>3. Rows \in [1..n -> S]
  BY <1>2 DEF Rows
<1> HIDE DEF S
<1>4. n \in Nat
  BY <1>2
<1> HIDE DEF n
<1>5. Rows \in Seq(S) /\ Len(Rows) = n /\ DOMAIN Rows = 1..n
  BY <1>3, <1>4
<1> QED
  BY <1>2, <1>5 DEF S, n

\* COMMIT is one Apply.
LEMMA CommitApplies ==
    ASSUME LInv, NEW c \in Clients, Commit(c)
    PROVE  Ledger!Apply(req[c].key, Payload(c)) /\ req[c].key \in Keys /\ Payload(c) \in Payloads
<1> USE DEF LInv
<1> DEFINE k == req[c].key
           p == Payload(c)
           cs == [key |-> k, base |-> db.revision, committed |-> NextRevision(db.revision),
                  changed |-> entries # {}, entries |-> entries]
<1>0. /\ pc[c] = "stored" /\ pc[c] \in HandlerDone /\ pc[c] \in InTransaction /\ pc[c] \in Changed
      /\ db' = tx /\ answer' = answer
  BY DEF Commit, HandlerDone, InTransaction, Changed
<1>1. /\ k \in Keys
      /\ db'.requests = [db.requests EXCEPT ![k] = NewRow(c)]
      /\ db.requests[k] = AbsentRow
      /\ req[c].digest.revision = db.revision
      /\ tx.revision = NextRevision(db.revision)
  BY <1>0, CommitFacts DEF IInv, StageInv, Stage
<1>n. PICK n \in Nat : n = Len(db.changesets) + 1
  BY <1>0, HandlerDoneFacts DEF IInv
<1>2. /\ Len(db.changesets) \in Nat
      /\ DOMAIN tx.changesets = DOMAIN db.changesets \cup {n}
      /\ n \notin DOMAIN db.changesets
      /\ tx.changesets[n] = cs
      /\ \A i \in DOMAIN db.changesets : tx.changesets[i] = db.changesets[i]
  BY <1>0, <1>n, HandlerDoneFacts DEF IInv
<1>3. /\ p \in Payloads /\ DOMAIN p \subseteq Entities
  BY <1>0, PayloadFacts
<1>4. db.requests \in [Keys -> Row] /\ db.heads \in [Entities -> Values]
      /\ tx.heads \in [Entities -> Values] /\ db.revision \in Nat
  BY TablesFacts DEF IInv, TypeOK
<1>5. \A i \in DOMAIN db.changesets : db.changesets[i].key \in Keys /\ db.changesets[i].key # k
  <2> SUFFICES ASSUME NEW i \in DOMAIN db.changesets
               PROVE  db.changesets[i].key \in Keys /\ db.changesets[i].key # k
    OBVIOUS
  <2>1. db.changesets \in Seq(Changeset)
    BY TablesFacts DEF IInv, TypeOK
  <2>2. db.changesets[i] \in Changeset
    BY <2>1
  <2>3. db.changesets[i].key \in Keys
    BY <2>2 DEF Changeset
  <2> QED
    BY <2>3, <1>1 DEF IInv, TablesInv, AbsentRow
<1>6. Handler(c) /\ Moved = Ledger!Changes(p)
  <2>1. Handler(c)
    BY DEF HandlerInv
  <2>2. /\ \A e \in Moved : e \in DOMAIN p /\ tx.heads[e] = p[e]
        /\ \A e \in DOMAIN p : tx.heads[e] = p[e]
    BY <2>1, <1>0 DEF Handler
  <2> QED
    BY <2>1, <2>2, <1>3 DEF Moved, Ledger!Changes
<1>7. /\ req[c].digest.generation = Active
      /\ entries = {[entity |-> e, before |-> db.heads[e], after |-> p[e]] : e \in Moved}
      /\ \A e \in DOMAIN p : tx.heads[e] = p[e]
      /\ \A e \in Entities : e \notin DOMAIN p => tx.heads[e] = db.heads[e]
  BY <1>0, <1>6 DEF Handler, ChangeOf, Moved
<1>8. entries # {} <=> Ledger!Changes(p) # {}
  BY <1>6, <1>7
<1>9. \A i \in DOMAIN Rows : Rows[i].key # k
  BY <1>5 DEF Rows, LedgerRow
<1>10. tx.heads = [e \in Entities |-> IF e \in DOMAIN p THEN p[e] ELSE db.heads[e]]
  BY <1>4, <1>7
<1>11. tx.revision = db.revision + (IF Ledger!Changes(p) # {} THEN 1 ELSE 0)
  BY <1>1, <1>4, <1>8 DEF NextRevision
<1> DEFINE new == [key |-> k,
                   digest |-> [payload |-> p, generation |-> Active, revision |-> db.revision],
                   receipt |-> [changeset |-> Len(Rows) + 1, base |-> db.revision,
                                committed |-> tx.revision, changed |-> Ledger!Changes(p) # {}],
                   entries |-> {[entity |-> e, before |-> db.heads[e], after |-> p[e]]
                                  : e \in Ledger!Changes(p)}]
<1>12. Rows' = Append(Rows, new)
  <2>1. db'.requests[k] = NewRow(c) /\ \A j \in Keys \ {k} : db'.requests[j] = db.requests[j]
    BY <1>1, <1>4
  <2>2. \A i \in DOMAIN db.changesets : LedgerRow(i)' = LedgerRow(i)
    <3> SUFFICES ASSUME NEW i \in DOMAIN db.changesets PROVE LedgerRow(i)' = LedgerRow(i)
      OBVIOUS
    <3>1. db'.changesets[i] = db.changesets[i]
      BY <1>0, <1>2
    <3>2. db'.requests[db.changesets[i].key] = db.requests[db.changesets[i].key]
      BY <1>5, <2>1
    <3> QED BY <3>1, <3>2 DEF LedgerRow
  <2>3. LedgerRow(n)' = new
    <3>1. db'.changesets[n] = cs
      BY <1>0, <1>2
    <3>2. req[c].digest = [payload |-> p, generation |-> Active, revision |-> db.revision]
      <4>1. req[c] \in Request
        BY <1>0 DEF IInv, LockInv
      <4>2. req[c].digest \in Digest
        BY <4>1, MessageFacts
      <4> QED BY <4>2, <1>1, <1>7 DEF Digest, Payload
    <3>3. db'.requests[cs.key].digest = req[c].digest
      BY <2>1 DEF NewRow
    <3>4. Len(Rows) + 1 = n
      BY <1>n, RowsFacts
    <3>5. /\ cs.base = db.revision /\ cs.committed = tx.revision
          /\ cs.changed = (Ledger!Changes(p) # {}) /\ cs.key = k /\ cs.entries = entries
      BY <1>1, <1>8
    <3>6. LedgerRow(n)' = [key |-> cs.key, digest |-> db'.requests[cs.key].digest,
                           receipt |-> [changeset |-> n, base |-> cs.base,
                                        committed |-> cs.committed, changed |-> cs.changed],
                           entries |-> cs.entries]
      <4> HIDE DEF cs
      <4> QED BY <3>1 DEF LedgerRow
    <3>7. new.entries = entries
      BY <1>6, <1>7
    <3> HIDE DEF cs
    <3> QED BY <3>2, <3>3, <3>4, <3>5, <3>6, <3>7
  <2>4. Rows' = [i \in DOMAIN db.changesets \cup {n} |-> LedgerRow(i)']
    BY <1>0, <1>2 DEF Rows
  <2>5. /\ DOMAIN db.changesets = 1..Len(db.changesets)
        /\ Len(Rows) = Len(db.changesets) /\ DOMAIN Rows = DOMAIN db.changesets
        /\ Rows \in Seq({LedgerRow(i) : i \in DOMAIN db.changesets})
    BY RowsFacts
  <2> HIDE DEF new, cs
  <2>6. Append(Rows, new) = [i \in 1..(Len(Rows) + 1) |-> IF i = Len(Rows) + 1 THEN new ELSE Rows[i]]
    BY <2>5, AppendFacts
  <2>7. \A i \in DOMAIN db.changesets : Rows[i] = LedgerRow(i)
    BY DEF Rows
  <2>8. n = Len(Rows) + 1 /\ DOMAIN db.changesets \cup {n} = 1..(Len(Rows) + 1)
    BY <1>2, <1>n, <2>5
  <2>9. \A i \in 1..(Len(Rows) + 1) :
           LedgerRow(i)' = IF i = Len(Rows) + 1 THEN new ELSE Rows[i]
    <3> SUFFICES ASSUME NEW i \in 1..(Len(Rows) + 1)
                 PROVE  LedgerRow(i)' = IF i = Len(Rows) + 1 THEN new ELSE Rows[i]
      OBVIOUS
    <3>1. CASE i = n
      BY <2>3, <2>8, <3>1
    <3>2. CASE i # n
      <4>1. i \in DOMAIN db.changesets
        BY <2>8, <3>2
      <4> QED BY <2>2, <2>7, <2>8, <3>2, <4>1
    <3> QED BY <3>1, <3>2
  <2> QED
    BY <2>4, <2>6, <2>8, <2>9
<1>13. Tellings' = Tellings
  BY <1>0 DEF Tellings, Told
<1> HIDE DEF k, p
<1>14. Ledger!Apply(k, p)
  BY <1>0, <1>9, <1>10, <1>11, <1>12, <1>13 DEF Ledger!Apply, Rows, Tellings
<1> QED
  BY <1>1, <1>3, <1>14 DEF k, p

\* Every other step tells one client at most what is in the ledger.
LEMMA OtherStepsTell ==
    ASSUME IInv, IInv', NEW c \in Clients, db' = db,
           Ask(c) \/ Enter(c) \/ Decide(c) \/ Handle(c) \/ Seal(c) \/ Upset(c)
    PROVE  Ledger!Tell(c)
<1>1. Rows' = Rows
  BY DEF Rows, LedgerRow
<1>2. \A d \in Clients \ {c} : answer'[d] = answer[d]
  BY OthersStay DEF IInv
<1>3. Tellings' = [Tellings EXCEPT ![c] = Told(c)']
  BY <1>2 DEF Tellings, Told
<1>4. Told(c)' = None \/ \E i \in DOMAIN Rows :
         Told(c)' = [key |-> Rows[i].key, digest |-> Rows[i].digest, receipt |-> Rows[i].receipt]
  <2> SUFFICES ASSUME answer'[c].kind = "receipt"
               PROVE  \E i \in DOMAIN Rows :
                         Told(c)' = [key |-> Rows[i].key, digest |-> Rows[i].digest,
                                     receipt |-> Rows[i].receipt]
    BY DEF Told
  <2> DEFINE k == answer'[c].key
             i == db.requests[k].receipt.changeset
  <2>1. answer'[c] \in Answer
    BY DEF IInv, TypeOK
  <2>2. k \in Keys
    BY <2>1, ReceiptKey
  <2>3. /\ db.requests[k].status = "committed"
        /\ db.requests[k].digest = answer'[c].digest
        /\ db.requests[k].receipt = answer'[c].receipt
    BY DEF IInv, AnswerInv, ReceiptIsPublished
  <2>4. RowPublished(k)
    BY <2>2, <2>3 DEF IInv, TablesInv, AbsentRow
  <2>5. /\ i \in DOMAIN db.changesets /\ db.changesets[i].key = k
        /\ Describes(db.requests[k].receipt, db.changesets[i])
        /\ db.requests[k].receipt \in Receipt
    BY <2>4 DEF RowPublished
  <2>6. db.requests[k].receipt = [changeset |-> i, base |-> db.changesets[i].base,
            committed |-> db.changesets[i].committed, changed |-> db.changesets[i].changed]
    BY <2>5 DEF Describes, Receipt
  <2>7. Rows[i] = LedgerRow(i) /\ i \in DOMAIN Rows
    BY <2>5 DEF Rows
  <2>8. /\ LedgerRow(i).key = k /\ LedgerRow(i).digest = answer'[c].digest
        /\ LedgerRow(i).receipt = answer'[c].receipt
    BY <2>3, <2>5, <2>6 DEF LedgerRow
  <2>9. Told(c)' = [key |-> k, digest |-> answer'[c].digest, receipt |-> answer'[c].receipt]
    BY DEF Told
  <2> QED
    BY <2>7, <2>8, <2>9
<1> QED
  BY <1>1, <1>3, <1>4 DEF Ledger!Tell, Rows, Tellings

LEMMA StepRefines == LInv /\ LInv' /\ [Next]_vars => [Ledger!Next]_Ledger!lvars
<1> SUFFICES ASSUME LInv, LInv', [Next]_vars PROVE [Ledger!Next]_Ledger!lvars
  OBVIOUS
<1>1. ASSUME NEW c \in Clients, Commit(c) PROVE Ledger!Next
  BY <1>1, CommitApplies DEF Ledger!Next
<1>2. ASSUME NEW c \in Clients, db' = db,
             Ask(c) \/ Enter(c) \/ Decide(c) \/ Handle(c) \/ Seal(c) \/ Upset(c)
      PROVE  Ledger!Next
  BY <1>2, OtherStepsTell DEF Ledger!Next, LInv
<1>3. CASE UNCHANGED vars
  BY <1>3 DEF vars, Ledger!lvars, LedgerRow, Told
<1> QED
  BY <1>1, <1>2, <1>3, OnlyCommitPublishes DEF Next

LEMMA InitRefines == Init => Ledger!Init
<1> SUFFICES ASSUME Init PROVE Ledger!Init
  OBVIOUS
<1>1. DOMAIN db.changesets = {} /\ db.heads = InitialHeads /\ db.revision = Baseline
  BY DEF Init
<1>2. [i \in DOMAIN db.changesets |-> LedgerRow(i)] = <<>>
  BY <1>1
<1>3. \A c \in Clients : Told(c) = None
  BY DEF Init, Told, Says
<1> QED
  BY <1>1, <1>2, <1>3 DEF Ledger!Init

----------------------------------------------------------------------------
(* The theorems.                                                           *)

\* The invariant of the engine, and what its handler and its object store add to it.
THEOREM EngineHandlerInvariant == Spec => []LInv
<1>1. LInv /\ [Next]_vars => LInv'
  BY NextTypeOK, NextStages, NextAnswers, NextViews, NextHandler, NextObjects DEF LInv, IInv
<1> QED
  BY InitLInv, <1>1, PTL DEF Spec

\* MutationContext.register_source_artifact: whatever fails or crashes in between, a head
\* never names an object that is missing.
THEOREM EngineHeadsHaveObjects == Spec => []HeadsHaveObjects
<1>1. LInv => HeadsHaveObjects
  BY DEF LInv, ObjectsInv, HeadsHaveObjects
<1> QED
  BY <1>1, EngineHandlerInvariant, PTL

\* execute_generation_mutation implements the ledger its callers are promised: COMMIT is one
\* indivisible Apply, and callers learn only what is in the ledger.
THEOREM EngineImplementsLedger == Spec => ImplementsLedger
  BY InitRefines, StepRefines, EngineHandlerInvariant, PTL
     DEF Spec, ImplementsLedger, Ledger!Spec

----------------------------------------------------------------------------
(* The greatest of a bounded set of numbers.                               *)

LEMMA Greatest ==
    ASSUME NEW m \in Nat, NEW N, N \subseteq 0..m, N # {}
    PROVE  \E n \in N : \A k \in N : k <= n
<1>. DEFINE less == {p \in Nat \X Nat : p[1] < p[2]}
            D == {m - k : k \in N}
<1>1. IsWellFoundedOn(less, Nat)
  BY NatLessThanWellFounded, Zenon DEF OpToRel
<1>2. D \subseteq Nat /\ D # {}
  <2>1. \A k \in N : k \in Int /\ m - k \in Nat
    OBVIOUS
  <2>. QED
    BY <2>1
<1>3. PICK d \in D : \A x \in D : ~(<<x, d>> \in less)
  <2>. HIDE DEF less, D
  <2>. QED
    BY <1>1, <1>2, WFMin, Zenon
<1>4. PICK n \in N : d = m - n
  OBVIOUS
<1>5. \A k \in N : ~(m - k < m - n)
  BY <1>2, <1>3, <1>4
<1>. QED
  BY <1>5

----------------------------------------------------------------------------
(* The history.                                                            *)

\* What HistoryExplainsHeads says of one entity, of any history H.
EntryIn(S, e) == CHOOSE x \in S : x.entity = e
Changing(H, e) == {i \in DOMAIN H : \E x \in H[i].entries : x.entity = e}
Earlier(H, e, n) == {i \in Changing(H, e) : i < n}
Newest(P) == CHOOSE i \in P : \A j \in P : j <= i
Before(H, e, n) ==
    IF Earlier(H, e, n) = {} THEN InitialHeads[e]
    ELSE EntryIn(H[Newest(Earlier(H, e, n))].entries, e).after
Explains(H, e, content) ==
    /\ content = Before(H, e, Len(H) + 1)
    /\ \A i \in Changing(H, e) : EntryIn(H[i].entries, e).before = Before(H, e, i)

HistoryInv == \A e \in Entities : Explains(db.changesets, e, db.heads[e])
HInv == LInv /\ HistoryInv

LEMMA ExplainedIs == HistoryExplainsHeads <=> HistoryInv
BY DEF HistoryExplainsHeads, HistoryInv, Explains, Before, Newest, Earlier, Changing, Touches,
       LeftBy, FoundBy, EntryIn

LEMMA InitHistory == Init => HistoryInv
<1>. SUFFICES ASSUME Init, NEW e \in Entities PROVE Explains(db.changesets, e, db.heads[e])
  BY DEF HistoryInv
<1>1. db.changesets = <<>> /\ db.heads = InitialHeads
  BY DEF Init
<1>2. Changing(<<>>, e) = {}
  BY DEF Changing
<1>3. Before(<<>>, e, Len(<<>>) + 1) = InitialHeads[e]
  BY <1>2 DEF Earlier, Before
<1>. QED
  BY <1>1, <1>2, <1>3 DEF Explains

\* A changeset behind the others leaves what was before each of them as it was.
LEMMA BeforeStays ==
    ASSUME NEW S, NEW H \in Seq(S), NEW cs, NEW e, NEW k \in Int, k <= Len(H) + 1
    PROVE  Before(Append(H, cs), e, k) = Before(H, e, k)
<1>. DEFINE G == Append(H, cs)
            P == Earlier(H, e, k)
<1>1. /\ Len(H) \in Nat /\ DOMAIN H = 1..Len(H) /\ DOMAIN G = 1..(Len(H) + 1)
      /\ \A i \in DOMAIN H : G[i] = H[i]
  BY AppendFacts
<1>. HIDE DEF G
<1>2. Earlier(G, e, k) = P
  BY <1>1 DEF Earlier, Changing
<1>3. CASE P = {}
  BY <1>2, <1>3 DEF Before, G
<1>4. CASE P # {}
  <2>1. P \subseteq DOMAIN H /\ P \subseteq 0..Len(H)
    BY <1>1 DEF Earlier, Changing
  <2>2. \E j \in P : \A l \in P : l <= j
    <3>. HIDE DEF P
    <3>. QED
      BY <1>1, <1>4, <2>1, Greatest
  <2>3. Newest(P) \in DOMAIN H
    BY <2>1, <2>2 DEF Newest
  <2>. QED
    BY <1>1, <1>2, <1>4, <2>3 DEF Before, G
<1>. QED
  BY <1>3, <1>4

\* A changeset that says what it did to e, from what the history explains, is explained too.
LEMMA ExplainsAppend ==
    ASSUME NEW S, NEW H \in Seq(S), NEW cs, NEW e, NEW old, NEW new, Explains(H, e, old),
           \A x, y \in cs.entries : x.entity = y.entity => x = y,
           IF \E x \in cs.entries : x.entity = e
              THEN \E x \in cs.entries : x.entity = e /\ x.before = old /\ x.after = new
              ELSE new = old
    PROVE  Explains(Append(H, cs), e, new)
<1>. DEFINE n == Len(H) + 1
            G == Append(H, cs)
            touched == \E x \in cs.entries : x.entity = e
<1>1. /\ Len(H) \in Nat /\ DOMAIN H = 1..Len(H) /\ DOMAIN G = 1..n
      /\ G[n] = cs /\ \A i \in DOMAIN H : G[i] = H[i]
      /\ Len(G) = n
  BY AppendFacts
<1>2. \A k \in Int : k <= n => Before(G, e, k) = Before(H, e, k)
  BY BeforeStays
<1>. HIDE DEF G
<1>3. n \in Int /\ n \notin DOMAIN H /\ \A i \in DOMAIN H : i \in Int /\ i < n
  BY <1>1
<1>4. Changing(G, e) = Changing(H, e) \cup (IF touched THEN {n} ELSE {})
  <2>1. \A i \in DOMAIN G : i \in DOMAIN H \/ i = n
    BY <1>1
  <2>. QED
    BY <1>1, <1>3, <2>1 DEF Changing
<1>5. \A i \in Changing(H, e) : i \in DOMAIN H
  BY DEF Changing
<1>6. \A i \in Changing(H, e) : EntryIn(G[i].entries, e).before = Before(G, e, i)
  BY <1>1, <1>2, <1>3, <1>5 DEF Explains
<1>7. Before(G, e, n) = old
  BY <1>2, <1>3 DEF Explains
<1>8. CASE ~touched
  <2>1. Earlier(G, e, n + 1) = Earlier(G, e, n)
    BY <1>3, <1>4, <1>5, <1>8 DEF Earlier
  <2>2. Before(G, e, n + 1) = old
    BY <1>7, <2>1 DEF Before
  <2>. QED
    BY <1>1, <1>4, <1>6, <1>8, <2>2 DEF Explains, G
<1>9. CASE touched
  <2>1. PICK x \in cs.entries : x.entity = e /\ x.before = old /\ x.after = new
    BY <1>9
  <2>2. EntryIn(cs.entries, e) = x
    BY <2>1 DEF EntryIn
  <2>. DEFINE P == Earlier(G, e, n + 1)
  <2>3. n \in P /\ \A j \in P : j <= n /\ j \in Int
    BY <1>3, <1>4, <1>5, <1>9 DEF Earlier
  <2>4. Newest(P) = n
    <3>. HIDE DEF P
    <3>1. \A i \in P : (\A j \in P : j <= i) => i = n
      BY <1>3, <2>3
    <3>. QED
      BY <2>3, <3>1 DEF Newest
  <2>5. Before(G, e, n + 1) = new
    BY <1>1, <2>1, <2>2, <2>3, <2>4 DEF Before
  <2>6. EntryIn(G[n].entries, e).before = Before(G, e, n)
    BY <1>1, <1>7, <2>1, <2>2
  <2>. QED
    BY <1>1, <1>4, <1>6, <1>9, <2>5, <2>6 DEF Explains, G
<1>. QED
  BY <1>8, <1>9

\* COMMIT adds the changes of one request behind the history.
LEMMA CommitHistory ==
    ASSUME HInv, NEW c \in Clients, Commit(c) PROVE HistoryInv'
<1>. USE DEF HInv, LInv
<1>1. pc[c] = "stored" /\ db' = tx
  BY DEF Commit
<1>2. db.changesets \in Seq(Changeset)
  BY TablesFacts DEF IInv, TypeOK, Tables
<1>3. PICK cs : db'.changesets = Append(db.changesets, cs) /\ cs.entries = entries
  <2>. DEFINE new == [key |-> req[c].key, base |-> db.revision,
                      committed |-> NextRevision(db.revision), changed |-> entries # {},
                      entries |-> entries]
  <2>1. tx.changesets = Append(db.changesets, new) /\ new.entries = entries
    BY <1>1 DEF IInv, StageInv, Stage, HandlerDone, NewHistory
  <2>. QED
    BY <1>1, <2>1
<1>4. /\ entries = {ChangeOf(c, e) : e \in Moved}
      /\ \A e \in Moved : tx.heads[e] = Payload(c)[e]
  BY <1>1 DEF HandlerInv, Handler, Changed, HandlerDone
<1>5. \A e \in Entities : tx.heads[e] = db.heads[e] \/ e \in Moved
  BY DEF Moved
<1>6. \A e \in Moved : /\ ChangeOf(c, e).entity = e
                       /\ ChangeOf(c, e).before = db.heads[e]
                       /\ ChangeOf(c, e).after = Payload(c)[e]
                       /\ tx.heads[e] # db.heads[e]
  BY DEF ChangeOf, Moved
<1>7. \A x, y \in entries : x.entity = y.entity => x = y
  BY <1>4, <1>6
<1>. SUFFICES ASSUME NEW e \in Entities PROVE Explains(Append(db.changesets, cs), e, tx.heads[e])
  BY <1>1, <1>3 DEF HistoryInv
<1>8. Explains(db.changesets, e, db.heads[e])
  BY DEF HistoryInv
<1>9. IF \E x \in entries : x.entity = e
         THEN \E x \in entries : x.entity = e /\ x.before = db.heads[e] /\ x.after = tx.heads[e]
         ELSE tx.heads[e] = db.heads[e]
  BY <1>4, <1>5, <1>6
<1>. QED
  BY <1>2, <1>3, <1>7, <1>8, <1>9, ExplainsAppend

\* Nothing else writes into the committed tables.
LEMMA NextHistory == HInv /\ [Next]_vars => HistoryInv'
<1>. SUFFICES ASSUME HInv, [Next]_vars PROVE HistoryInv'
  OBVIOUS
<1>1. CASE UNCHANGED db
  BY <1>1 DEF HInv, HistoryInv
<1>2. ASSUME NEW c \in Clients, Commit(c) PROVE HistoryInv'
  BY <1>2, CommitHistory
<1>3. ASSUME NEW c \in Clients, Ask(c) \/ Enter(c) PROVE UNCHANGED db
  BY <1>3 DEF Ask, Pin, Look, Submit, PinAgain, FindReplay, PreviewBegin, PreviewEnd,
     Enter, Begin, Busy
<1>4. ASSUME NEW c \in Clients, Decide(c) \/ Handle(c) PROVE UNCHANGED db
  BY <1>4 DEF Decide, Replay, KeyConflict, Stale, Rollback, Reserve, Handle, Publish,
     SelectHead, Record
<1>5. ASSUME NEW c \in Clients, Seal(c) \/ Upset(c) PROVE Commit(c) \/ UNCHANGED db
  BY <1>5 DEF Seal, Advance, StoreReceipt, Return, Upset, Fail, Interrupt, Crash, Restart, Rollback
<1>. QED
  BY <1>1, <1>2, <1>3, <1>4, <1>5 DEF Next, vars

\* The recorded entries alone explain the domain state: whatever crashes, is retried or is
\* refused, every entry starts from what the previous one left, and the last is the head.
THEOREM EngineHistoryExplainsHeads == Spec => []HistoryExplainsHeads
<1>1. HInv /\ [Next]_vars => HistoryInv'
  BY NextHistory
<1>2. Init => HistoryInv
  BY InitHistory
<1>3. LInv /\ HistoryInv <=> HInv
  BY DEF HInv
<1>4. HistoryInv => HistoryExplainsHeads
  BY ExplainedIs
<1>. QED
  BY <1>1, <1>2, <1>3, <1>4, EngineHandlerInvariant, PTL DEF Spec

=============================================================================
