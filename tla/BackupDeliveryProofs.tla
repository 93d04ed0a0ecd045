------------------------- MODULE BackupDeliveryProofs -------------------------
(***************************************************************************)
(* The delivery journal does not invent a success, does not forget one     *)
(* when a later attempt fails, and does not report an old one for new: for *)
(* any number of facts, copies, attempts and faults.                       *)
(*                                                                         *)
(* Two invariants.  IInv relates what is written to what the stores held.  *)
(* JournalInv, on top of it, relates the stage files, the cache, the       *)
(* worker and the status command to the log of the attempts that finished. *)
(***************************************************************************)
EXTENDS BackupDelivery, FiniteSetTheorems, WellFoundedInduction, TLAPS

----------------------------------------------------------------------------
(* The inductive invariant.                                                *)

\* Store s has held a healthy copy of this name that covers what attempt a is about.
HasHeld(s, c, a) == \E h \in held[s] : h.copy = c /\ Covers(h.facts, attempts[a].src)

\* History remembers every copy.
HeldAll ==
    \A s \in Store : \A c \in CopyIds :
        copies[s][c] # Absent => [copy |-> c, facts |-> copies[s][c]] \in held[s]

Started == Places \ {"idle", "describing", "observing"}

\* What the worker carries from step to step is true of its attempt.
WorkerTrue ==
    /\ pc \notin Started => w.local = Absent /\ w.graph = Absent /\ w.copy = Absent
    /\ pc \in Started => w.attempt \in Listed(attempts)
    /\ w.local # Absent => HasHeld("sender", w.local, w.attempt)
    /\ w.graph # Absent => Covers(w.graph, attempts[w.attempt].src)
    /\ w.copy # Absent => HasHeld("destination", w.copy, w.attempt)
    /\ pc \in {"creating", "filling"} => w.then \in Started

\* What a stage file names is true of its attempt.
FilesTrue ==
    \A a \in Listed(attempts) : \A i \in DOMAIN attempts[a].files :
        /\ attempts[a].files[i].local # Absent => HasHeld("sender", attempts[a].files[i].local, a)
        /\ attempts[a].files[i].copy # Absent => HasHeld("destination", attempts[a].files[i].copy, a)

\* A publication has a graph to publish, and then a copy to register.
Placed ==
    /\ pc = "receiving" => w.graph # Absent
    /\ pc \in {"registering", "enrolling"} => w.fresh # Absent

IInv == TypeOK /\ HeldAll /\ WorkerTrue /\ FilesTrue /\ Placed

\* The steps of a publication into a store, all but its end: the journal has no part in them.
StoreStep ==
    \/ CaptureBegin \/ CaptureRegister \/ CaptureRefused
    \/ TransferBegin \/ TransferRegister \/ TransferRefused
    \/ \E c \in CopyIds : Capture(c) \/ Transfer(c)
Publishing == {"capturing", "snapshotting", "registering", "captured",
               "transferring", "receiving", "enrolling", "received"}

----------------------------------------------------------------------------
(* Facts.                                                                  *)

LEMMA NothingCommitted == [x \in {} |-> 0] \in FactSets
<1>1. [x \in {} |-> 0] \in [{} -> Contents]
  OBVIOUS
<1>2. {} \in SUBSET Commits
  OBVIOUS
<1>. QED
  BY <1>1, <1>2 DEF FactSets

\* A commit adds one fact.
LEMMA CommitFacts ==
    ASSUME NEW f \in FactSets, NEW x \in Commits, NEW v \in Contents
    PROVE  [y \in DOMAIN f \cup {x} |-> IF y = x THEN v ELSE f[y]] \in FactSets
<1>1. PICK S \in SUBSET Commits : f \in [S -> Contents]
  BY DEF FactSets
<1>2. DOMAIN f \cup {x} = S \cup {x}
  BY <1>1
<1>3. [y \in S \cup {x} |-> IF y = x THEN v ELSE f[y]] \in [S \cup {x} -> Contents]
  BY <1>1
<1>4. S \cup {x} \in SUBSET Commits
  OBVIOUS
<1>. QED
  BY <1>2, <1>3, <1>4 DEF FactSets

\* Putting the workspace back keeps some of its facts.
LEMMA PutBackFacts ==
    ASSUME NEW f \in FactSets, NEW T \in SUBSET DOMAIN f
    PROVE  [x \in T |-> f[x]] \in FactSets
<1>1. PICK S \in SUBSET Commits : f \in [S -> Contents]
  BY DEF FactSets
<1>2. [x \in T |-> f[x]] \in [T -> Contents]
  BY <1>1
<1>3. T \in SUBSET Commits
  BY <1>1
<1>. QED
  BY <1>2, <1>3 DEF FactSets

LEMMA StageNames ==
    /\ Stage = {"started", "local_verified", "sending", "destination_published",
                "destination_verified", "finished"}
BY DEF Stage, Stages

LEMMA InitIInv == Init => IInv
<1>. SUFFICES ASSUME Init PROVE IInv
  OBVIOUS
<1>1. TypeOK
  BY NothingCommitted, StageNames, MaxFaultsAssumption
     DEF Attempt, WorkRec, Init, TypeOK, NoWork, Places, Guarded, Resumed
<1>2. HeldAll
  BY DEF Init, HeldAll, Store
<1>3. WorkerTrue
  BY DEF Init, WorkerTrue, NoWork, Started
<1>4. FilesTrue
  BY DEF Init, FilesTrue, Listed
<1>. QED
  BY <1>1, <1>2, <1>3, <1>4 DEF IInv, Init, Placed

----------------------------------------------------------------------------
(* Types.                                                                  *)

\* Writing at the end of a sequence of files.
LEMMA LastWritten ==
    ASSUME NEW q \in Seq(File), NEW f \in File
    PROVE  /\ [q EXCEPT ![Len(q)] = f] \in Seq(File)
           /\ DOMAIN [q EXCEPT ![Len(q)] = f] = DOMAIN q
           /\ \A i \in DOMAIN q : [q EXCEPT ![Len(q)] = f][i] = IF i = Len(q) THEN f ELSE q[i]
<1>. DEFINE r == [q EXCEPT ![Len(q)] = f]
<1>1. Len(q) \in Nat /\ q \in [1..Len(q) -> File] /\ DOMAIN q = 1..Len(q)
  OBVIOUS
<1>2. r \in [1..Len(q) -> File]
  BY <1>1
<1>3. r \in Seq(File)
  BY <1>1, <1>2
<1>. QED
  BY <1>1, <1>3

\* What is handed to the next stage file.
LEMMA WorkFields ==
    ASSUME NEW work \in WorkRec
    PROVE  /\ \A a \in Attempts : [work EXCEPT !.attempt = a] \in WorkRec
           /\ \A c \in CopyIds, g \in FactSets \cup {Absent} :
                 [work EXCEPT !.local = c, !.graph = g] \in WorkRec
           /\ \A c \in CopyIds : [work EXCEPT !.copy = c] \in WorkRec
           /\ [work EXCEPT !.local = Absent, !.copy = Absent, !.failed = TRUE] \in WorkRec
           /\ \A c \in CopyIds : [work EXCEPT !.fresh = c] \in WorkRec
           /\ \A st \in Stage, pl \in Resumed : [work EXCEPT !.stage = st, !.then = pl] \in WorkRec
BY DEF WorkRec

\* A publication changes one store and nothing the journal says ...
LEMMA StoreQuiet ==
    ASSUME StoreStep
    PROVE  /\ UNCHANGED <<journal, order, before, reader, faults, source, mounted>>
           /\ pc \in Publishing \ {"captured"}
           /\ pc' \in (Publishing \ {"capturing", "transferring"}) \cup {"failing"}
<1>1. ASSUME NEW c \in CopyIds, Capture(c) \/ Transfer(c)
      PROVE  /\ UNCHANGED <<journal, order, before, reader, faults, source, mounted>>
             /\ pc \in {"snapshotting", "receiving"}
             /\ pc' \in {"registering", "captured", "enrolling", "received"}
  BY <1>1 DEF Capture, Transfer, Publishes, Goto, NoFault
<1>2. CASE CaptureBegin \/ TransferBegin
  BY <1>2 DEF CaptureBegin, TransferBegin, Admit, Goto, NoFault, history, Publishing
<1>3. CASE CaptureRegister \/ TransferRegister
  BY <1>3 DEF CaptureRegister, TransferRegister, Registers, Goto, NoFault, history, Publishing
<1>4. CASE CaptureRefused
  BY <1>4 DEF CaptureRefused, Goto, NoFault, world, history, Publishing
<1>5. CASE TransferRefused
  <2>1. pc \in {"transferring", "receiving", "enrolling"} \cup {"received"}
    BY <1>5 DEF TransferRefused
  <2>. QED
    BY <1>5, <2>1 DEF TransferRefused, Goto, NoFault, world, history, Publishing
<1>. QED
  BY <1>1, <1>2, <1>3, <1>4, <1>5 DEF StoreStep, Publishing

\* ... and of the worker only which copy is new.
LEMMA StoreSteps ==
    ASSUME w \in WorkRec, StoreStep
    PROVE  /\ w' \in WorkRec
           /\ w'.attempt = w.attempt /\ w'.local = w.local /\ w'.graph = w.graph
           /\ w'.copy = w.copy /\ w'.stage = w.stage /\ w'.then = w.then
           /\ w'.failed = w.failed
<1>1. ASSUME NEW c \in CopyIds, w' = [w EXCEPT !.fresh = c]
      PROVE  /\ w' \in WorkRec
             /\ w'.attempt = w.attempt /\ w'.local = w.local /\ w'.graph = w.graph
             /\ w'.copy = w.copy /\ w'.stage = w.stage /\ w'.then = w.then
             /\ w'.failed = w.failed
  BY <1>1 DEF WorkRec
<1>2. ASSUME NEW c \in CopyIds, Capture(c) \/ Transfer(c)
      PROVE  w' = [w EXCEPT !.fresh = c]
  BY <1>2 DEF Capture, Transfer
<1>3. CASE \/ CaptureBegin \/ CaptureRegister \/ CaptureRefused
           \/ TransferBegin \/ TransferRegister \/ TransferRefused
  BY <1>3 DEF CaptureBegin, CaptureRegister, CaptureRefused, TransferBegin, TransferRegister,
     TransferRefused
<1>4. ASSUME NEW c \in CopyIds, Capture(c) \/ Transfer(c)
      PROVE  /\ w' \in WorkRec
             /\ w'.attempt = w.attempt /\ w'.local = w.local /\ w'.graph = w.graph
             /\ w'.copy = w.copy /\ w'.stage = w.stage /\ w'.then = w.then
             /\ w'.failed = w.failed
  BY <1>1, <1>2, <1>4
<1>. QED
  BY <1>3, <1>4 DEF StoreStep

LEMMA NoWorkTyped == NoWork \in WorkRec
BY StageNames DEF NoWork, WorkRec, Resumed

\* A stage file is added or completed, and the record of the attempt stays one.
LEMMA FileWritten ==
    ASSUME IInv, Create \/ Fill
    PROVE  /\ w.attempt \in Listed(attempts)
           /\ attempts'[w.attempt] \in Attempt
           /\ attempts' \in [Attempts -> Attempt \cup {Absent}]
<1>. DEFINE q == attempts[w.attempt].files
<1>. USE DEF IInv, TypeOK
<1>1. w.attempt \in Listed(attempts)
  BY DEF Create, Fill, WorkerTrue, Started, Places, Guarded
<1>2. w.attempt \in Attempts /\ attempts[w.attempt] \in Attempt
  BY <1>1 DEF Listed
<1>3. PICK r \in Seq(File) : attempts' = [attempts EXCEPT ![w.attempt].files = r]
  <2>1. CASE Create
    <3>. DEFINE f == [stage |-> w.stage, whole |-> FALSE, failed |-> FALSE,
                      local |-> Absent, copy |-> Absent, time |-> Absent]
    <3>1. f \in File
      BY StageNames DEF File, Stage, WorkRec
    <3>2. attempts' = [attempts EXCEPT ![w.attempt].files = Append(q, f)]
      BY <1>2, <2>1 DEF Create
    <3>3. Append(q, f) \in Seq(File)
      BY <1>2, <3>1 DEF Attempt
    <3>. QED
      BY <3>2, <3>3
  <2>2. CASE Fill
    <3>. DEFINE f(t) == [stage |-> w.stage, whole |-> TRUE, failed |-> w.failed,
                         local |-> w.local, copy |-> w.copy, time |-> t]
    <3>1. PICK t \in Times \cup {Absent} :
              attempts' = [attempts EXCEPT ![w.attempt].files[Len(q)] = f(t)]
      BY <2>2 DEF Fill, Reading
    <3>2. f(t) \in File
      BY StageNames DEF File, Stage, WorkRec
    <3>3. [q EXCEPT ![Len(q)] = f(t)] \in Seq(File)
      BY <1>2, <3>2, LastWritten DEF Attempt
    <3>4. attempts' = [attempts EXCEPT ![w.attempt].files = [q EXCEPT ![Len(q)] = f(t)]]
      BY <1>2, <3>1
    <3>. QED
      BY <3>3, <3>4
  <2>. QED
    BY <2>1, <2>2
<1>4. [attempts[w.attempt] EXCEPT !.files = r] \in Attempt
  BY <1>2 DEF Attempt
<1>. QED
  BY <1>1, <1>2, <1>3, <1>4

LEMMA NextTyped == IInv /\ [Next]_vars => TypeOK'
<1>. SUFFICES ASSUME IInv, [Next]_vars PROVE TypeOK'
  OBVIOUS
<1>. USE DEF IInv, TypeOK
<1>. USE StageNames, MaxFaultsAssumption DEF Places, Guarded, Resumed
<1>1. CASE UNCHANGED vars
  BY <1>1 DEF vars, world, registry, journal, history
<1>2. CASE Begin
  BY <1>2, NoWorkTyped DEF Begin, Goto, NoFault, world, registry
<1>3. CASE Describe
  BY <1>3 DEF Describe, Goto, NoFault, world, registry
<1>4. ASSUME NEW a \in Attempts, Observe(a) PROVE TypeOK'
  <2>1. [src |-> source, files |-> <<>>] \in Attempt
    BY DEF Attempt
  <2>2. attempts' \in [Attempts -> Attempt \cup {Absent}]
    BY <1>4, <2>1 DEF Observe, Attempt
  <2>3. w' \in WorkRec
    BY <1>4, WorkFields DEF Observe, Publish
  <2>. QED
    BY <1>4, <2>2, <2>3 DEF Observe, Publish, Attempt, Goto, NoFault, world, registry, history
<1>5. CASE Ensure \/ EnsureCaptured
  <2>1. \A c \in CoveringCopies(Src, "sender") : c \in CopyIds /\ copies["sender"][c] \in FactSets \cup {Absent}
    BY DEF CoveringCopies, Candidates, Healthy, Store
  <2>2. w' \in WorkRec
    <3>1. CASE UNCHANGED w
      BY <3>1
    <3>2. ASSUME NEW c \in CoveringCopies(Src, "sender"), Selected(c) PROVE w' \in WorkRec
      BY <3>2, <2>1, WorkFields DEF Selected, Publish
    <3>. QED
      BY <1>5, <3>1, <3>2 DEF Ensure, EnsureCaptured
  <2>. QED
    BY <1>5, <2>2 DEF Ensure, EnsureCaptured, Selected, Publish, Goto, NoFault, world, registry, journal, history
<1>6. CASE Compare \/ Verify
  <2>1. \A c \in CoveringCopies(Src, "destination") : c \in CopyIds
    BY DEF CoveringCopies, Candidates, Healthy
  <2>2. w' \in WorkRec
    <3>1. CASE UNCHANGED w
      BY <3>1
    <3>2. ASSUME NEW c \in CoveringCopies(Src, "destination"), Verified(c) PROVE w' \in WorkRec
      BY <3>2, <2>1, WorkFields DEF Verified, Publish
    <3>3. CASE Publish("sending", "transferring", w)
      BY <3>3, WorkFields DEF Publish
    <3>. QED
      BY <1>6, <3>1, <3>2, <3>3 DEF Compare, Verify
  <2>. QED
    BY <1>6, <2>2 DEF Compare, Verify, Verified, Publish, Goto, NoFault, world, registry, journal, history
<1>7. CASE Error
  BY <1>7 DEF Error, Fault, Goto, NoFault, world, registry, journal, history
<1>8. CASE Finish \/ Fail
  <2>1. w' \in WorkRec
    <3>1. CASE UNCHANGED w
      BY <3>1
    <3>2. CASE Publish("finished", "caching", w)
      BY <3>2, WorkFields DEF Publish
    <3>3. CASE Publish("finished", "failed", [w EXCEPT !.local = Absent, !.copy = Absent, !.failed = TRUE])
      <4>1. [w EXCEPT !.local = Absent, !.copy = Absent, !.failed = TRUE] \in WorkRec
        BY WorkFields
      <4>. QED
        BY <3>3, <4>1, WorkFields DEF Publish
    <3>. QED
      BY <1>8, <3>1, <3>2, <3>3 DEF Finish, Fail
  <2>. QED
    BY <1>8, <2>1 DEF Finish, Fail, Publish, Goto, NoFault, world, registry, journal, history
<1>9. CASE Create \/ Fill
  BY <1>9, FileWritten DEF Create, Fill, WorkRec, Goto, NoFault, world, registry, history
<1>11. CASE Cache
  BY <1>11 DEF Cache, Goto, NoFault, world, registry, history
<1>12. CASE Return \/ Crash
  <2>1. w' = NoWork /\ pc' = "idle"
    BY <1>12 DEF Return, Crash, End, Goto
  <2>2. UNCHANGED <<world, journal, history>>
    BY <1>12 DEF Return, Crash
  <2>. QED
    BY <1>12, <2>1, <2>2, NoWorkTyped DEF Return, Crash, Fault, NoFault, world, registry, journal, history
<1>13. ASSUME StoreStep PROVE TypeOK'
  <2>1. w' \in WorkRec /\ pc' \in Places /\ UNCHANGED <<journal, faults, source, mounted>>
    BY <1>13, StoreQuiet, StoreSteps DEF Publishing
  <2>2. ASSUME NEW t \in Store, NEW c \in CopyIds, NEW f \in FactSets, Publishes(t, c, f)
        PROVE  /\ held' \in [Store -> SUBSET [copy : CopyIds, facts : FactSets]]
               /\ copies' \in [Store -> [CopyIds -> FactSets \cup {Absent}]]
               /\ UNCHANGED <<started, registered>>
    <3>1. [copy |-> c, facts |-> f] \in [copy : CopyIds, facts : FactSets]
      OBVIOUS
    <3>2. copies' \in [Store -> [CopyIds -> FactSets \cup {Absent}]]
      BY <2>2 DEF Publishes
    <3>. QED
      BY <2>2, <3>1, <3>2 DEF Publishes, registry
  <2>3. ASSUME NEW t \in Store, Admit(t)
        PROVE  started' \subseteq Store /\ UNCHANGED <<copies, registered>>
    BY <2>3 DEF Admit
  <2>4. ASSUME NEW t \in Store, Registers(t), w.fresh # Absent
        PROVE  registered' \in [Store -> SUBSET CopyIds] /\ UNCHANGED <<copies, started>>
    BY <2>4 DEF Registers, WorkRec
  <2>5. "sender" \in Store /\ "destination" \in Store
    BY DEF Store
  <2>6. /\ held' \in [Store -> SUBSET [copy : CopyIds, facts : FactSets]]
        /\ copies' \in [Store -> [CopyIds -> FactSets \cup {Absent}]]
        /\ started' \subseteq Store /\ registered' \in [Store -> SUBSET CopyIds]
    <3>1. CASE CaptureBegin \/ TransferBegin
      BY <2>3, <2>5, <3>1 DEF CaptureBegin, TransferBegin, history
    <3>2. CASE CaptureRegister \/ TransferRegister
      BY <2>4, <2>5, <3>2 DEF CaptureRegister, TransferRegister, history, Placed
    <3>3. CASE CaptureRefused \/ TransferRefused
      BY <3>3 DEF CaptureRefused, TransferRefused, history, world, registry
    <3>4. ASSUME NEW c \in CopyIds, Capture(c) PROVE 
            /\ held' \in [Store -> SUBSET [copy : CopyIds, facts : FactSets]]
            /\ copies' \in [Store -> [CopyIds -> FactSets \cup {Absent}]]
            /\ started' \subseteq Store /\ registered' \in [Store -> SUBSET CopyIds]
      BY <2>2, <2>5, <3>4 DEF Capture
    <3>5. ASSUME NEW c \in CopyIds, Transfer(c) PROVE 
            /\ held' \in [Store -> SUBSET [copy : CopyIds, facts : FactSets]]
            /\ copies' \in [Store -> [CopyIds -> FactSets \cup {Absent}]]
            /\ started' \subseteq Store /\ registered' \in [Store -> SUBSET CopyIds]
      <4>1. w.graph \in FactSets
        BY <3>5 DEF Transfer, Placed, WorkRec
      <4>. QED
        BY <2>2, <2>5, <3>5, <4>1 DEF Transfer
    <3>. QED
      BY <1>13, <3>1, <3>2, <3>3, <3>4, <3>5 DEF StoreStep
  <2>. QED
    BY <2>1, <2>6 DEF journal
<1>14. CASE TransferEnd
  <2>1. w.fresh \in CopyIds
    BY <1>14 DEF TransferEnd, Arrived, Healthy
  <2>2. w' \in WorkRec
    BY <1>14, <2>1, WorkFields DEF TransferEnd, Publish
  <2>. QED
    BY <1>14, <2>2 DEF TransferEnd, Publish, Goto, NoFault, world, registry, journal, history
<1>15. CASE Status
  BY <1>15 DEF Status, StatusBegin, StatusRead, StatusReport, Glance, world, registry, journal, history
<1>16. ASSUME NEW x \in Commits, NEW v \in Contents, Commit(x, v) PROVE TypeOK'
  <2>1. source' \in FactSets
    <3>1. source' = [y \in DOMAIN source \cup {x} |-> IF y = x THEN v ELSE source[y]]
      BY <1>16 DEF Commit
    <3>. QED
      BY <3>1, CommitFacts
  <2>. QED
    BY <1>16, <2>1 DEF Commit, Outside, registry, journal
<1>17. ASSUME NEW S \in SUBSET DOMAIN source, PutBack(S) PROVE TypeOK'
  BY <1>17, PutBackFacts DEF PutBack, Fault, Outside, registry, journal
<1>18. ASSUME NEW s \in Store, NEW c \in CopyIds, Lose(s, c) PROVE TypeOK'
  BY <1>18 DEF Lose, Fault, Outside, registry, journal
<1>19. ASSUME NEW s \in Store, Unmount(s) \/ Mount(s) PROVE TypeOK'
  BY <1>19 DEF Unmount, Fault, Mount, Outside, registry, journal
<1>22. ASSUME NEW s \in Store, LoseRegistration(s) PROVE TypeOK'
  BY <1>22 DEF LoseRegistration, Fault, Outside, registry, journal
<1>20. ASSUME NEW a \in Attempts, LoseAttempt(a) PROVE TypeOK'
  BY <1>20 DEF LoseAttempt, Fault, world, registry, history
<1>21. CASE LoseCache
  BY <1>21 DEF LoseCache, Fault, world, registry, history
<1>. QED
  BY <1>1, <1>2, <1>3, <1>4, <1>5, <1>6, <1>7, <1>8, <1>9, <1>11, <1>12, <1>13, <1>14,
     <1>15, <1>16, <1>17, <1>18, <1>19, <1>20, <1>21, <1>22 DEF Next, Work, Environment, StoreStep

----------------------------------------------------------------------------
(* History.                                                                *)

\* Copies are published into history as well, and otherwise only lost.
LEMMA NextHeld ==
    IInv /\ [Next]_vars => HeldAll' /\ \A s \in Store : held[s] \subseteq held'[s]
<1>. SUFFICES ASSUME IInv, [Next]_vars PROVE HeldAll' /\ \A s \in Store : held[s] \subseteq held'[s]
  OBVIOUS
<1>. USE DEF IInv, HeldAll
<1>1. CASE UNCHANGED <<copies, held>>
  BY <1>1
<1>2. ASSUME NEW t \in Store, NEW c \in CopyIds, NEW f, Publishes(t, c, f)
      PROVE  HeldAll' /\ \A s \in Store : held[s] \subseteq held'[s]
  BY <1>2 DEF Publishes, TypeOK
<1>3. ASSUME NEW t \in Store, NEW c \in CopyIds, Lose(t, c)
      PROVE  HeldAll' /\ \A s \in Store : held[s] \subseteq held'[s]
  BY <1>3 DEF Lose, TypeOK
<1>4. CASE StoreStep
  <2>1. ASSUME NEW c \in CopyIds, Capture(c) \/ Transfer(c)
        PROVE  HeldAll' /\ \A s \in Store : held[s] \subseteq held'[s]
    BY <1>2, <2>1 DEF Capture, Transfer, Store
  <2>2. CASE \/ CaptureBegin \/ CaptureRegister \/ CaptureRefused
             \/ TransferBegin \/ TransferRegister \/ TransferRefused
    BY <1>1, <2>2 DEF CaptureBegin, CaptureRegister, CaptureRefused, TransferBegin,
       TransferRegister, TransferRefused, Admit, Registers, world, history
  <2>. QED
    BY <1>4, <2>1, <2>2 DEF StoreStep
<1>5. CASE UNCHANGED vars
  BY <1>1, <1>5 DEF vars, world, history
<1>6. CASE Status
  BY <1>1, <1>6 DEF Status, StatusBegin, StatusRead, StatusReport, Glance, world, history
<1>7. CASE \/ \E x \in Commits, v \in Contents : Commit(x, v)
           \/ \E S \in SUBSET DOMAIN source : PutBack(S)
           \/ \E t \in Store : LoseRegistration(t) \/ Unmount(t) \/ Mount(t)
  BY <1>1, <1>7 DEF Commit, PutBack, LoseRegistration, Unmount, Mount
<1>8. CASE \/ \E a \in Attempts : LoseAttempt(a)
           \/ LoseCache \/ Error \/ Crash
  BY <1>1, <1>8 DEF LoseAttempt, LoseCache, Error, Crash, world, history
<1>9. CASE \/ Begin \/ Describe \/ Ensure \/ EnsureCaptured \/ Compare \/ TransferEnd \/ Verify
           \/ Finish \/ Create \/ Fill \/ Cache \/ Return \/ Fail
           \/ \E a \in Attempts : Observe(a)
  BY <1>1, <1>9 DEF Begin, Describe, Ensure, EnsureCaptured, Compare, TransferEnd, Verify,
     Finish, Create, Fill, Cache, Return, Fail, Observe, world, history
<1>. QED
  BY <1>3, <1>4, <1>5, <1>6, <1>7, <1>8, <1>9 DEF Next, Work, Environment, StoreStep

\* An attempt keeps what it is about while its directory is there.
LEMMA NextSrc ==
    IInv /\ [Next]_vars =>
        \A a \in Listed(attempts) : a \in Listed(attempts') => attempts'[a].src = attempts[a].src
<1>. SUFFICES ASSUME IInv, [Next]_vars, NEW a \in Listed(attempts), a \in Listed(attempts')
              PROVE  attempts'[a].src = attempts[a].src
  OBVIOUS
<1>. USE DEF IInv
<1>1. CASE UNCHANGED attempts
  BY <1>1
<1>2. ASSUME NEW b \in Attempts, Observe(b) PROVE attempts'[a].src = attempts[a].src
  BY <1>2 DEF Observe, TypeOK, Listed
<1>3. CASE Create
  BY <1>3 DEF Create, TypeOK, Listed, Attempt
<1>4. CASE Fill
  BY <1>4 DEF Fill, TypeOK, Listed, Attempt
<1>5. ASSUME NEW b \in Attempts, LoseAttempt(b) PROVE attempts'[a].src = attempts[a].src
  BY <1>5 DEF LoseAttempt, TypeOK, Listed
<1>6. CASE UNCHANGED vars
  BY <1>1, <1>6 DEF vars, journal
<1>7. CASE Status
  BY <1>1, <1>7 DEF Status, StatusBegin, StatusRead, StatusReport, Glance, journal
<1>8. CASE \/ \E x \in Commits, v \in Contents : Commit(x, v)
           \/ \E S \in SUBSET DOMAIN source : PutBack(S)
           \/ \E t \in Store : LoseRegistration(t) \/ Unmount(t) \/ Mount(t) \/ \E c \in CopyIds : Lose(t, c)
           \/ LoseCache \/ Error \/ Crash
  BY <1>1, <1>8 DEF Commit, PutBack, LoseRegistration, Unmount, Mount, Lose, Outside, LoseCache, Error,
     Crash, journal
<1>9. CASE \/ Begin \/ Describe \/ Ensure \/ EnsureCaptured \/ Compare \/ TransferEnd \/ Verify
           \/ Finish \/ Cache \/ Return \/ Fail \/ StoreStep
  BY <1>1, <1>9, StoreQuiet DEF Begin, Describe, Ensure, EnsureCaptured, Compare, TransferEnd, Verify,
     Finish, Cache, Return, Fail, journal
<1>. QED
  BY <1>2, <1>3, <1>4, <1>5, <1>6, <1>7, <1>8, <1>9 DEF Next, Work, Environment, StoreStep

\* So what was true of an attempt stays true.
LEMMA HeldStays ==
    ASSUME IInv, [Next]_vars, NEW s \in Store, NEW c, NEW a \in Listed(attempts),
           a \in Listed(attempts'), HasHeld(s, c, a)
    PROVE  HasHeld(s, c, a)'
BY NextHeld, NextSrc DEF HasHeld

----------------------------------------------------------------------------
(* The files.                                                              *)

FileTrue(a, i) ==
    /\ attempts[a].files[i].local # Absent => HasHeld("sender", attempts[a].files[i].local, a)
    /\ attempts[a].files[i].copy # Absent => HasHeld("destination", attempts[a].files[i].copy, a)

\* A file that was there is there, unchanged, and still true.
LEMMA FileStays ==
    ASSUME IInv, [Next]_vars, NEW a \in Listed(attempts), a \in Listed(attempts'),
           NEW i \in DOMAIN attempts[a].files, attempts'[a].files[i] = attempts[a].files[i]
    PROVE  FileTrue(a, i)'
<1>1. FileTrue(a, i)
  BY DEF IInv, FilesTrue, FileTrue
<1>2. "sender" \in Store /\ "destination" \in Store
  BY DEF Store
<1>3. attempts[a].files[i].local # Absent => HasHeld("sender", attempts[a].files[i].local, a)'
  BY <1>1, <1>2, HeldStays DEF FileTrue
<1>4. attempts[a].files[i].copy # Absent => HasHeld("destination", attempts[a].files[i].copy, a)'
  BY <1>1, <1>2, HeldStays DEF FileTrue
<1>. QED
  BY <1>3, <1>4 DEF FileTrue, HasHeld

LEMMA NextFiles == IInv /\ [Next]_vars => FilesTrue'
<1>. SUFFICES ASSUME IInv, [Next]_vars, NEW a \in Listed(attempts'),
                     NEW i \in DOMAIN attempts'[a].files
              PROVE  FileTrue(a, i)'
  BY DEF FilesTrue, FileTrue
<1>. USE DEF IInv
<1>1. CASE UNCHANGED attempts
  BY <1>1, FileStays DEF Listed
<1>2. ASSUME NEW b \in Attempts, Observe(b) PROVE FileTrue(a, i)'
  <2>1. CASE a = b
    BY <1>2, <2>1 DEF Observe, TypeOK
  <2>2. CASE a # b
    <3>1. a \in Listed(attempts) /\ attempts'[a] = attempts[a]
      BY <1>2, <2>2 DEF Observe, TypeOK, Listed
    <3>. QED
      BY <3>1, FileStays
  <2>. QED
    BY <2>1, <2>2
<1>3. CASE Create
  <2>1. a \in Listed(attempts) /\ w.attempt \in Listed(attempts)
    BY <1>3 DEF Create, WorkerTrue, Started, Places, TypeOK, Listed
  <2>2. CASE a # w.attempt
    BY <1>3, <2>1, <2>2, FileStays DEF Create, TypeOK, Listed
  <2>3. CASE a = w.attempt
    <3>. DEFINE q == attempts[a].files
                f == [stage |-> w.stage, whole |-> FALSE, failed |-> FALSE,
                      local |-> Absent, copy |-> Absent, time |-> Absent]
    <3>1. q \in Seq(File)
      BY <2>1 DEF TypeOK, Attempt, Listed
    <3>2. attempts'[a].files = Append(q, f)
      BY <1>3, <2>1, <2>3 DEF Create, TypeOK, Listed, Attempt
    <3>3. CASE i \in DOMAIN q
      <4>1. attempts'[a].files[i] = q[i]
        BY <3>1, <3>2, <3>3
      <4>. QED
        BY <2>1, <3>3, <4>1, FileStays
    <3>4. CASE i \notin DOMAIN q
      <4>1. attempts'[a].files[i] = f
        BY <3>1, <3>2, <3>4
      <4>2. f.local = Absent /\ f.copy = Absent
        OBVIOUS
      <4>. HIDE DEF f
      <4>. QED
        BY <4>1, <4>2 DEF FileTrue
    <3>. QED
      BY <3>3, <3>4
  <2>. QED
    BY <2>2, <2>3
<1>4. CASE Fill
  <2>1. a \in Listed(attempts) /\ w.attempt \in Listed(attempts)
    BY <1>4 DEF Fill, WorkerTrue, Started, Places, TypeOK, Listed
  <2>2. CASE a # w.attempt
    BY <1>4, <2>1, <2>2, FileStays DEF Fill, TypeOK, Listed
  <2>3. CASE a = w.attempt
    <3>. DEFINE q == attempts[a].files
                f(t) == [stage |-> w.stage, whole |-> TRUE, failed |-> w.failed,
                         local |-> w.local, copy |-> w.copy, time |-> t]
    <3>1. q \in Seq(File) /\ attempts[a] \in Attempt /\ a \in Attempts
      BY <2>1 DEF TypeOK, Attempt, Listed
    <3>2. PICK t \in Times \cup {Absent} :
              attempts' = [attempts EXCEPT ![w.attempt].files[Len(q)] = f(t)]
      BY <1>4, <2>3 DEF Fill, Reading
    <3>3. f(t) \in File
      BY StageNames DEF TypeOK, File, Stage, WorkRec
    <3>4. attempts'[a].files = [q EXCEPT ![Len(q)] = f(t)]
      BY <2>3, <3>1, <3>2 DEF TypeOK, Attempt
    <3>5. i \in DOMAIN q /\ attempts'[a].files[i] = IF i = Len(q) THEN f(t) ELSE q[i]
      BY <3>1, <3>3, <3>4, LastWritten
    <3>6. CASE i # Len(q)
      BY <2>1, <3>5, <3>6, FileStays
    <3>7. CASE i = Len(q)
      <4>1. attempts'[a].files[i].local = w.local /\ attempts'[a].files[i].copy = w.copy
        BY <3>5, <3>7
      <4>2. "sender" \in Store /\ "destination" \in Store
        BY DEF Store
      <4>3. w.local # Absent => HasHeld("sender", w.local, a)
        BY <2>3 DEF WorkerTrue
      <4>4. w.copy # Absent => HasHeld("destination", w.copy, a)
        BY <2>3 DEF WorkerTrue
      <4>5. w' = w
        BY <1>4 DEF Fill
      <4>6. w.local # Absent => HasHeld("sender", w.local, a)'
        BY <2>1, <4>2, <4>3, <4>5, HeldStays
      <4>7. w.copy # Absent => HasHeld("destination", w.copy, a)'
        BY <2>1, <4>2, <4>4, <4>5, HeldStays
      <4>. QED
        BY <4>1, <4>5, <4>6, <4>7 DEF FileTrue, HasHeld
    <3>. QED
      BY <3>6, <3>7
  <2>. QED
    BY <2>2, <2>3
<1>5. ASSUME NEW b \in Attempts, LoseAttempt(b) PROVE FileTrue(a, i)'
  <2>1. a \in Listed(attempts) /\ attempts'[a] = attempts[a]
    BY <1>5 DEF LoseAttempt, TypeOK, Listed
  <2>. QED
    BY <2>1, FileStays
<1>6. CASE UNCHANGED vars
  BY <1>1, <1>6 DEF vars, journal
<1>7. CASE Status
  BY <1>1, <1>7 DEF Status, StatusBegin, StatusRead, StatusReport, Glance, journal
<1>8. CASE \/ \E x \in Commits, v \in Contents : Commit(x, v)
           \/ \E S \in SUBSET DOMAIN source : PutBack(S)
           \/ \E t \in Store : LoseRegistration(t) \/ Unmount(t) \/ Mount(t) \/ \E c \in CopyIds : Lose(t, c)
           \/ LoseCache \/ Error \/ Crash
  BY <1>1, <1>8 DEF Commit, PutBack, LoseRegistration, Unmount, Mount, Lose, Outside, LoseCache, Error,
     Crash, journal
<1>9. CASE \/ Begin \/ Describe \/ Ensure \/ EnsureCaptured \/ Compare \/ TransferEnd \/ Verify
           \/ Finish \/ Cache \/ Return \/ Fail \/ StoreStep
  BY <1>1, <1>9, StoreQuiet DEF Begin, Describe, Ensure, EnsureCaptured, Compare, TransferEnd, Verify,
     Finish, Cache, Return, Fail, journal
<1>. QED
  BY <1>2, <1>3, <1>4, <1>5, <1>6, <1>7, <1>8, <1>9 DEF Next, Work, Environment, StoreStep

----------------------------------------------------------------------------
(* The worker.                                                             *)

\* Facts about the attempt that concern the worker are true of the next state, too.
LEMMA AttemptStays ==
    ASSUME IInv, [Next]_vars, NEW a \in Listed(attempts), a \in Listed(attempts')
    PROVE  /\ \A c : HasHeld("sender", c, a) => HasHeld("sender", c, a)'
           /\ \A c : HasHeld("destination", c, a) => HasHeld("destination", c, a)'
           /\ attempts'[a].src = attempts[a].src
<1>1. "sender" \in Store /\ "destination" \in Store
  BY DEF Store
<1>2. attempts'[a].src = attempts[a].src
  BY NextSrc
<1>3. \A s \in Store : held[s] \subseteq held'[s]
  BY NextHeld
<1>. QED
  BY <1>1, <1>2, <1>3 DEF HasHeld

\* A step that hands on what the worker has, or drops it.
LEMMA WorkerStays ==
    ASSUME IInv, [Next]_vars, pc \in Started, w.attempt \in Listed(attempts'), pc' \in Started,
           w'.attempt = w.attempt, w'.local \in {w.local, Absent}, w'.graph = w.graph,
           w'.copy \in {w.copy, Absent},
           pc' \in {"creating", "filling"} => w'.then \in Started
    PROVE  WorkerTrue'
<1>1. w.attempt \in Listed(attempts)
  BY DEF IInv, WorkerTrue
<1>2. w'.local # Absent => HasHeld("sender", w.local, w.attempt)
  BY DEF IInv, WorkerTrue
<1>3. w'.copy # Absent => HasHeld("destination", w.copy, w.attempt)
  BY DEF IInv, WorkerTrue
<1>4. w'.graph # Absent => Covers(w.graph, attempts[w.attempt].src)
  BY DEF IInv, WorkerTrue
<1>5. attempts'[w.attempt].src = attempts[w.attempt].src
  BY <1>1, AttemptStays
<1>6. \A s \in Store : held[s] \subseteq held'[s]
  BY NextHeld
<1>7. "sender" \in Store /\ "destination" \in Store
  BY DEF Store
<1>. QED
  BY <1>1, <1>2, <1>3, <1>4, <1>5, <1>6, <1>7 DEF WorkerTrue, HasHeld, Started

LEMMA WorkerBuilt ==
    ASSUME pc' \in Started, w'.attempt \in Listed(attempts'), w'.then \in Started,
           w'.local # Absent => \E h \in held'["sender"] :
               h.copy = w'.local /\ Covers(h.facts, attempts'[w'.attempt].src),
           w'.graph # Absent => Covers(w'.graph, attempts'[w'.attempt].src),
           w'.copy # Absent => \E h \in held'["destination"] :
               h.copy = w'.copy /\ Covers(h.facts, attempts'[w'.attempt].src)
    PROVE  WorkerTrue'
BY DEF WorkerTrue, HasHeld

LEMMA NoWorkTrue == w' = NoWork /\ pc' \notin Started => WorkerTrue'
BY DEF WorkerTrue, NoWork, Started, Places, Guarded

\* What a stage file is handed.
LEMMA PublishTrue ==
    ASSUME NEW stage, NEW then, NEW work \in WorkRec, Publish(stage, then, work)
    PROVE  /\ w'.attempt = work.attempt /\ w'.local = work.local
           /\ w'.graph = work.graph /\ w'.copy = work.copy /\ w'.then = then
           /\ pc' = "creating"
BY DEF Publish, Goto, WorkRec

\* Only the steps of a publication lead to its places.
LEMMA NextPlaced == IInv /\ [Next]_vars => Placed'
<1>. SUFFICES ASSUME IInv, [Next]_vars PROVE Placed'
  OBVIOUS
<1>. USE DEF IInv
<1>0. w \in WorkRec
  BY DEF TypeOK
<1>1. CASE UNCHANGED <<pc, w>>
  BY <1>1 DEF Placed
<1>2. CASE pc' \notin {"receiving", "registering", "enrolling"}
  BY <1>2 DEF Placed
<1>3. CASE StoreStep
  <2>1. ASSUME NEW c \in CopyIds, Capture(c) \/ Transfer(c) PROVE Placed'
    <3>1. w'.fresh = c /\ c # Absent
      BY <1>0, <2>1, AbsentAssumption DEF Capture, Transfer, WorkRec
    <3>2. pc' # "receiving"
      BY <2>1 DEF Capture, Transfer, Goto
    <3>. QED
      BY <3>1, <3>2 DEF Placed
  <2>2. CASE TransferBegin
    <3>1. w.graph # Absent
      BY <2>2 DEF TransferBegin, SameGraph, Healthy
    <3>. QED
      BY <2>2, <3>1 DEF TransferBegin, Goto, Placed
  <2>3. CASE CaptureBegin \/ CaptureRegister \/ CaptureRefused \/ TransferRegister \/ TransferRefused
    BY <1>2, <2>3 DEF CaptureBegin, CaptureRegister, CaptureRefused, TransferRegister,
       TransferRefused, Goto
  <2>. QED
    BY <1>3, <2>1, <2>2, <2>3 DEF StoreStep
<1>4. CASE UNCHANGED vars \/ Status
  BY <1>1, <1>4 DEF vars, Status, StatusBegin, StatusRead, StatusReport, Glance
<1>5. CASE Environment
  BY <1>1, <1>2, <1>5 DEF Environment, Commit, PutBack, LoseRegistration, Unmount, Mount, Lose,
     Outside, LoseCache, LoseAttempt, Error, Crash, End, Goto
<1>6. CASE Fill
  BY <1>0, <1>2, <1>6 DEF Fill, Goto, WorkRec, Resumed
<1>7. CASE \/ Begin \/ Describe \/ Ensure \/ EnsureCaptured \/ Compare \/ TransferEnd \/ Verify
           \/ Finish \/ Create \/ Cache \/ Return \/ Fail \/ \E a \in Attempts : Observe(a)
  BY <1>2, <1>7 DEF Begin, Describe, Ensure, EnsureCaptured, Selected, Compare, TransferEnd, Verify,
     Verified, Finish, Create, Cache, Return, End, Fail, Observe, Publish, Goto
<1>. QED
  BY <1>3, <1>4, <1>5, <1>6, <1>7 DEF Next, Work, StoreStep

LEMMA NextWorker == IInv /\ [Next]_vars => WorkerTrue'
<1>. SUFFICES ASSUME IInv, [Next]_vars PROVE WorkerTrue'
  OBVIOUS
<1>. USE DEF IInv
<1>0. w \in WorkRec /\ pc \in Places
  BY DEF TypeOK
<1>1. ASSUME UNCHANGED <<w, pc>>, pc \in Started => w.attempt \in Listed(attempts')
      PROVE  WorkerTrue'
  <2>1. CASE pc \in Started
    BY <1>1, <2>1, WorkerStays DEF WorkerTrue
  <2>2. CASE pc \notin Started
    BY <1>1, <2>2 DEF WorkerTrue, Started, HasHeld
  <2>. QED
    BY <2>1, <2>2
<1>2. ASSUME pc \in Started, pc' \in Started \ {"creating", "filling"}, UNCHANGED <<w, attempts>>
      PROVE  WorkerTrue'
  BY <1>2, WorkerStays DEF WorkerTrue, Listed
<1>3. CASE Begin
  BY <1>3, NoWorkTrue DEF Begin, Goto, Started
<1>4. CASE Describe
  BY <1>4 DEF Describe, Goto, Started, WorkerTrue, HasHeld
<1>5. ASSUME NEW a \in Attempts, Observe(a) PROVE WorkerTrue'
  <2>1. w.local = Absent /\ w.graph = Absent /\ w.copy = Absent
    BY <1>5 DEF Observe, WorkerTrue, Started
  <2>2. [w EXCEPT !.attempt = a] \in WorkRec
    BY <1>0, WorkFields
  <2>3. /\ w'.attempt = a /\ w'.local = Absent /\ w'.graph = Absent /\ w'.copy = Absent
        /\ w'.then \in Started
    BY <1>0, <1>5, <2>1, <2>2, PublishTrue DEF Observe, WorkRec, Started, Places, Guarded
  <2>4. a \in Listed(attempts')
    <3>1. attempts'[a] = [src |-> source, files |-> <<>>] /\ attempts'[a] \in Attempt
      BY <1>5 DEF Observe, TypeOK, Attempt
    <3>2. \A r \in Attempt : r.src \in FactSets
      BY DEF Attempt
    <3>3. attempts'[a] # Absent
      BY <3>1, AbsentAssumption
    <3>. QED
      BY <3>3 DEF Listed
  <2>. QED
    BY <2>3, <2>4 DEF WorkerTrue, Started
<1>6. CASE Ensure \/ EnsureCaptured
  <2>1. CASE UNCHANGED w /\ pc' \in {"capturing", "failing"}
    BY <1>2, <1>6, <2>1 DEF Ensure, EnsureCaptured, journal, Started, Places, Guarded
  <2>2. ASSUME NEW c \in CoveringCopies(Src, "sender"), Selected(c) PROVE WorkerTrue'
    <3>1. c \in CopyIds /\ copies["sender"][c] # Absent /\ Covers(copies["sender"][c], Src)
      BY <2>2 DEF CoveringCopies, Candidates, Healthy
    <3>2. copies["sender"][c] \in FactSets
      BY <3>1 DEF TypeOK, Store
    <3>3. [w EXCEPT !.local = c, !.graph = copies["sender"][c]] \in WorkRec
      BY <1>0, <3>1, <3>2, WorkFields
    <3>4. /\ w'.attempt = w.attempt /\ w'.local = c /\ w'.graph = copies["sender"][c]
          /\ w'.copy = w.copy /\ w'.then = "comparing" /\ pc' = "creating"
      <4>. DEFINE v == [w EXCEPT !.local = c, !.graph = copies["sender"][c]]
      <4>1. v.attempt = w.attempt /\ v.local = c /\ v.graph = copies["sender"][c] /\ v.copy = w.copy
        BY <1>0 DEF WorkRec
      <4>2. v \in WorkRec /\ Publish("local_verified", "comparing", v)
        BY <2>2, <3>3 DEF Selected
      <4>. HIDE DEF v
      <4>. QED
        BY <4>1, <4>2, PublishTrue
    <3>5. w.attempt \in Listed(attempts) /\ attempts' = attempts /\ held' = held
      BY <1>6 DEF Ensure, EnsureCaptured, WorkerTrue, Started, Places, Guarded, journal, history
    <3>6. HasHeld("sender", c, w.attempt)
      <4>1. [copy |-> c, facts |-> copies["sender"][c]] \in held["sender"]
        BY <3>1 DEF HeldAll, Store
      <4>. QED
        BY <3>1, <4>1 DEF HasHeld, Src
    <3>7. w.copy # Absent => HasHeld("destination", w.copy, w.attempt)
      BY DEF WorkerTrue
    <3>. QED
      BY <3>1, <3>4, <3>5, <3>6, <3>7, WorkerBuilt DEF HasHeld, Src, Started, Places, Guarded
  <2>. QED
    BY <1>6, <2>1, <2>2 DEF Ensure, EnsureCaptured, Goto
<1>7. CASE Compare \/ Verify
  <2>0. /\ pc \in Started /\ w.attempt \in Listed(attempts) /\ attempts' = attempts /\ held' = held
    BY <1>7 DEF Compare, Verify, WorkerTrue, Started, Places, Guarded, journal, history
  <2>1. CASE UNCHANGED w /\ pc' = "failing"
    BY <1>2, <2>0, <2>1 DEF Started, Places, Guarded
  <2>2. ASSUME NEW c \in CoveringCopies(Src, "destination"), Verified(c) PROVE WorkerTrue'
    <3>1. c \in CopyIds /\ copies["destination"][c] # Absent /\ Covers(copies["destination"][c], Src)
      BY <2>2 DEF CoveringCopies, Candidates, Healthy
    <3>2. [w EXCEPT !.copy = c] \in WorkRec
      BY <1>0, <3>1, WorkFields
    <3>3. /\ w'.attempt = w.attempt /\ w'.local = w.local /\ w'.graph = w.graph
          /\ w'.copy = c /\ w'.then = "finishing" /\ pc' = "creating"
      BY <1>0, <2>2, <3>2, PublishTrue DEF Verified, WorkRec
    <3>4. HasHeld("destination", c, w.attempt)
      <4>1. [copy |-> c, facts |-> copies["destination"][c]] \in held["destination"]
        BY <3>1 DEF HeldAll, Store
      <4>. QED
        BY <3>1, <4>1 DEF HasHeld, Src
    <3>5. /\ w.local # Absent => HasHeld("sender", w.local, w.attempt)
          /\ w.graph # Absent => Covers(w.graph, Src)
      BY DEF WorkerTrue, Src
    <3>. QED
      BY <2>0, <3>3, <3>4, <3>5, WorkerBuilt DEF HasHeld, Src, Started, Places, Guarded
  <2>3. CASE Publish("sending", "transferring", w)
    BY <1>0, <2>0, <2>3, PublishTrue, WorkerStays DEF Started, Places, Guarded, Listed
  <2>. QED
    BY <1>7, <2>1, <2>2, <2>3 DEF Compare, Verify, Goto
<1>8. CASE Error
  BY <1>2, <1>8 DEF Error, Goto, journal, Started, Places, Guarded
<1>9. CASE Finish \/ Fail
  <2>0. pc \in Started /\ w.attempt \in Listed(attempts) /\ attempts' = attempts
    BY <1>9 DEF Finish, Fail, WorkerTrue, Started, Places, Guarded, journal
  <2>1. CASE UNCHANGED w /\ pc' = "failed"
    BY <1>2, <2>0, <2>1 DEF Started, Places, Guarded
  <2>2. CASE Publish("finished", "caching", w)
    BY <1>0, <2>0, <2>2, PublishTrue, WorkerStays DEF Started, Places, Guarded, Listed
  <2>3. CASE Publish("finished", "failed", [w EXCEPT !.local = Absent, !.copy = Absent, !.failed = TRUE])
    <3>1. [w EXCEPT !.local = Absent, !.copy = Absent, !.failed = TRUE] \in WorkRec
      BY <1>0, WorkFields
    <3>2. /\ w'.attempt = w.attempt /\ w'.local = Absent /\ w'.graph = w.graph /\ w'.copy = Absent
          /\ w'.then = "failed" /\ pc' = "creating"
      <4>. DEFINE v == [w EXCEPT !.local = Absent, !.copy = Absent, !.failed = TRUE]
      <4>1. v.attempt = w.attempt /\ v.local = Absent /\ v.graph = w.graph /\ v.copy = Absent
        BY <1>0 DEF WorkRec
      <4>2. v \in WorkRec /\ Publish("finished", "failed", v)
        BY <2>3, <3>1
      <4>. HIDE DEF v
      <4>. QED
        BY <4>1, <4>2, PublishTrue
    <3>. QED
      BY <2>0, <3>2, WorkerStays DEF Started, Places, Guarded, Listed
  <2>. QED
    BY <1>9, <2>1, <2>2, <2>3 DEF Finish, Fail, Goto
<1>10. CASE Create \/ Fill
  <2>1. pc \in Started /\ w' = w /\ w.attempt \in Listed(attempts)
    BY <1>10 DEF Create, Fill, WorkerTrue, Started, Places, Guarded
  <2>2. pc' \in Started
    BY <1>10 DEF WorkerTrue, Create, Fill, Goto, Started, Places, Guarded
  <2>3. w.attempt \in Listed(attempts')
    BY <1>10, <2>1, FileWritten, AbsentAssumption DEF Listed
  <2>4. w.then \in Started
    BY <1>10 DEF WorkerTrue, Create, Fill
  <2>. QED
    BY <2>1, <2>2, <2>3, <2>4, WorkerStays
<1>11. CASE Cache
  BY <1>2, <1>11 DEF Cache, Goto, Started, Places, Guarded
<1>12. CASE Return \/ Crash
  BY <1>12, NoWorkTrue DEF Return, Crash, End, Goto, Started
<1>13. CASE StoreStep
  <2>1. /\ pc \in Started /\ pc' \in Started \ {"creating", "filling"}
        /\ w.attempt \in Listed(attempts')
    BY <1>13, StoreQuiet DEF Publishing, Started, Places, Guarded, WorkerTrue, journal, Listed
  <2>. QED
    BY <1>0, <1>13, <2>1, StoreSteps, WorkerStays
<1>14. CASE TransferEnd
  <2>. DEFINE c == w.fresh
  <2>0. /\ pc \in Started /\ w.attempt \in Listed(attempts) /\ attempts' = attempts /\ held' = held
    BY <1>14 DEF TransferEnd, WorkerTrue, Started, Places, Guarded, journal, history
  <2>1. c \in CopyIds /\ copies["destination"][c] # Absent /\ copies["destination"][c] = w.graph
    BY <1>14 DEF TransferEnd, Arrived, Healthy
  <2>2. [w EXCEPT !.copy = c] \in WorkRec
    BY <1>0, <2>1, WorkFields
  <2>3. /\ w'.attempt = w.attempt /\ w'.local = w.local /\ w'.graph = w.graph
        /\ w'.copy = c /\ w'.then = "verifying" /\ pc' = "creating"
    BY <1>0, <1>14, <2>2, PublishTrue DEF TransferEnd, WorkRec
  <2>4. /\ w.local # Absent => HasHeld("sender", w.local, w.attempt)
        /\ Covers(w.graph, Src)
    BY <2>1 DEF WorkerTrue, Src
  <2>5. HasHeld("destination", c, w.attempt)
    <3>1. [copy |-> c, facts |-> w.graph] \in held["destination"]
      BY <2>1 DEF HeldAll, Store
    <3>. QED
      BY <2>4, <3>1 DEF HasHeld, Src
  <2>. QED
    BY <2>0, <2>3, <2>4, <2>5, WorkerBuilt DEF HasHeld, Src, Started, Places, Guarded
<1>15. CASE Status
  BY <1>1, <1>15 DEF Status, StatusBegin, StatusRead, StatusReport, Glance, journal, WorkerTrue, Listed
<1>16. CASE \/ \E x \in Commits, v \in Contents : Commit(x, v)
            \/ \E S \in SUBSET DOMAIN source : PutBack(S)
            \/ \E t \in Store : LoseRegistration(t) \/ Unmount(t) \/ Mount(t) \/ \E c \in CopyIds : Lose(t, c)
            \/ LoseCache
  BY <1>1, <1>16 DEF Commit, PutBack, LoseRegistration, Unmount, Mount, Lose, Outside, LoseCache, journal, WorkerTrue, Listed
<1>17. ASSUME NEW a \in Attempts, LoseAttempt(a) PROVE WorkerTrue'
  BY <1>1, <1>17 DEF LoseAttempt, Started
<1>18. CASE UNCHANGED vars
  BY <1>1, <1>18 DEF vars, journal, WorkerTrue, Listed
<1>. QED
  BY <1>3, <1>4, <1>5, <1>6, <1>7, <1>8, <1>9, <1>10, <1>11, <1>12, <1>13, <1>14, <1>15, <1>16,
     <1>17, <1>18 DEF Next, Work, Environment, StoreStep

----------------------------------------------------------------------------
(* What is written is true.                                                *)

\* The worker, the journal and what the stores have held agree in every state of every run of
\* the delivery worker (run_backup_delivery).
THEOREM DeliveryInvariant == Spec => []IInv
<1>1. Init => IInv
  BY InitIInv
<1>2. IInv /\ [Next]_vars => IInv'
  BY NextTyped, NextHeld, NextWorker, NextFiles, NextPlaced DEF IInv
<1>. QED
  BY <1>1, <1>2, PTL DEF Spec

\* Stores, journal, worker and history keep their form.
THEOREM DeliveryTypeCorrect == Spec => []TypeOK
<1>1. IInv => TypeOK
  BY DEF IInv
<1>. QED
  BY <1>1, DeliveryInvariant, PTL

\* Whatever read_journal counts as a success was covered in both stores, for any interleaving
\* of crashes, errors, lost files and clock steps.
THEOREM DeliverySuccessIsReal == Spec => []SuccessIsReal
<1>1. IInv => SuccessIsReal
  <2>. SUFFICES ASSUME IInv, NEW a \in Successes(attempts) PROVE Real(a)
    BY DEF SuccessIsReal
  <2>. DEFINE q == attempts[a].files
  <2>1. a \in Listed(attempts) /\ q # <<>> /\ q \in Seq(File)
    BY DEF Successes, Read, Legible, Listed, Files, IInv, TypeOK, Attempt
  <2>2. Len(q) \in DOMAIN q /\ LastFile(attempts, a) = q[Len(q)]
    BY <2>1 DEF LastFile, Files
  <2>3. LastFile(attempts, a).local # Absent /\ LastFile(attempts, a).copy # Absent
    BY DEF Successes, Read, Legible, Evidence
  <2>4. /\ HasHeld("sender", LastFile(attempts, a).local, a)
        /\ HasHeld("destination", LastFile(attempts, a).copy, a)
    BY <2>1, <2>2, <2>3 DEF IInv, FilesTrue
  <2>. QED
    BY <2>4 DEF Real, HasHeld
<1>. QED
  BY <1>1, DeliveryInvariant, PTL

----------------------------------------------------------------------------
(* The latest of the attempts.                                             *)

\* A set of naturals has a least member.
LEMMA Least ==
    ASSUME NEW N, N \subseteq Nat, N # {}
    PROVE  \E n \in N : \A m \in N : n <= m
<1>. DEFINE less == {p \in Nat \X Nat : p[1] < p[2]}
<1>1. IsWellFoundedOn(less, Nat)
  BY NatLessThanWellFounded, Zenon DEF OpToRel
<1>2. PICK n \in N : \A m \in N : ~(<<m, n>> \in less)
  <2>. HIDE DEF less
  <2>. QED
    BY <1>1, WFMin, Zenon
<1>3. \A m \in N : ~(m < n)
  BY <1>2
<1>. QED
  BY <1>3

\* A finite set that a transitive, irreflexive relation orders has a first member.
LEMMA FiniteFirst ==
    ASSUME NEW S, IsFiniteSet(S), S # {}, NEW R,
           \A x \in S : <<x, x>> \notin R,
           \A x, y, z \in S : <<x, y>> \in R /\ <<y, z>> \in R => <<x, z>> \in R
    PROVE  \E x \in S : \A y \in S : <<y, x>> \notin R
<1>. DEFINE below(x) == {y \in S : <<y, x>> \in R}
            N == {Cardinality(below(x)) : x \in S}
<1>1. \A x \in S : IsFiniteSet(below(x)) /\ Cardinality(below(x)) \in Nat
  BY FS_Subset, FS_CardinalityType
<1>2. PICK n \in N : \A m \in N : n <= m
  <2>. HIDE DEF below
  <2>1. N \subseteq Nat /\ N # {}
    BY <1>1
  <2>. HIDE DEF N
  <2>. QED
    BY <2>1, Least
<1>3. PICK x \in S : n = Cardinality(below(x))
  OBVIOUS
<1>4. ASSUME NEW y \in S, <<y, x>> \in R PROVE FALSE
  <2>1. below(y) \subseteq below(x)
    BY <1>4
  <2>2. y \in below(x) /\ y \notin below(y)
    BY <1>4
  <2>3. /\ Cardinality(below(y)) <= Cardinality(below(x))
        /\ Cardinality(below(y)) # Cardinality(below(x))
    <3>. HIDE DEF below
    <3>1. below(y) \in SUBSET below(x)
      BY <2>1
    <3>. QED
      BY <1>1, <2>2, <3>1, FS_Subset
  <2>4. Cardinality(below(x)) <= Cardinality(below(y))
    <3>. HIDE DEF below
    <3>1. Cardinality(below(y)) \in N
      OBVIOUS
    <3>. HIDE DEF N
    <3>. QED
      BY <1>2, <1>3, <3>1
  <2>. HIDE DEF below
  <2>. QED
    BY <1>1, <2>3, <2>4
<1>. QED
  BY <1>4

\* max() finds the one that precedes all others, and there is just one.
LEMMA FirstPrecedes ==
    ASSUME NEW S \in SUBSET Attempts, S # {}, NEW time \in [S -> Int]
    PROVE  /\ First(time) \in S
           /\ \A b \in S \ {First(time)} : Precedes(time, First(time), b)
<1>. DEFINE R == {p \in S \X S : Precedes(time, p[1], p[2])}
<1>1. PICK x \in S : \A y \in S : <<y, x>> \notin R
  <2>1. IsFiniteSet(S)
    BY AttemptsAssumption, FS_Subset
  <2>2. S \subseteq Int
    BY AttemptsAssumption
  <2>3. \A y \in S : <<y, y>> \notin R
    BY <2>2 DEF Precedes
  <2>4. \A y, z, v \in S : <<y, z>> \in R /\ <<z, v>> \in R => <<y, v>> \in R
    BY <2>2 DEF Precedes
  <2>. HIDE DEF R
  <2>. QED
    BY <2>1, <2>3, <2>4, FiniteFirst
<1>2. \A y \in S \ {x} : Precedes(time, x, y)
  <2>. SUFFICES ASSUME NEW y \in S, y # x PROVE Precedes(time, x, y)
    OBVIOUS
  <2>1. x \in Int /\ y \in Int /\ time[x] \in Int /\ time[y] \in Int
    BY AttemptsAssumption
  <2>2. ~Precedes(time, y, x)
    BY <1>1
  <2>. QED
    BY <2>1, <2>2 DEF Precedes
<1>3. DOMAIN time = S
  OBVIOUS
<1>. QED
  BY <1>2, <1>3 DEF First

LEMMA FirstIs ==
    ASSUME NEW S \in SUBSET Attempts, NEW time \in [S -> Int], NEW a \in S,
           \A b \in S \ {a} : Precedes(time, a, b)
    PROVE  First(time) = a
<1>1. First(time) \in S /\ \A b \in S \ {First(time)} : Precedes(time, First(time), b)
  BY FirstPrecedes
<1>2. SUFFICES ASSUME First(time) # a PROVE FALSE
  OBVIOUS
<1>3. Precedes(time, a, First(time)) /\ Precedes(time, First(time), a)
  BY <1>1, <1>2
<1>4. a \in Int /\ First(time) \in Int /\ time[a] \in Int /\ time[First(time)] \in Int
  BY <1>1, AttemptsAssumption
<1>. HIDE DEF First
<1>. QED
  BY <1>3, <1>4 DEF Precedes

----------------------------------------------------------------------------
(* The journal: a second invariant, on top of the first.                   *)

Finished(f) == f.stage = "finished" /\ f.whole
Entry == [attempt : Attempts, time : Times, failed : BOOLEAN, cached : BOOLEAN]

\* A finished file is the last one of its attempt, and only such a file reports a failure.
FilesInLine(files) ==
    /\ \A k \in DOMAIN files : files[k].stage = "finished" => k = Len(files)
    /\ \A k \in DOMAIN files : files[k].failed => Finished(files[k])

\* What entry e of the log says, the last of the files says.
SaidInFile(e, files) ==
    LET last == files[Len(files)]
    IN files # <<>> /\ Finished(last) /\ e.time = last.time /\ e.failed = last.failed

\* What a finished file of attempt a says, a log says.
SaidInLog(log, a, files) ==
    \A k \in DOMAIN files : Finished(files[k]) =>
        \E i \in DOMAIN log : /\ log[i].attempt = a
                              /\ log[i].time = files[k].time
                              /\ log[i].failed = files[k].failed

\* An attempt finishes once; a steady clock tells the order.
LogOrdered ==
    \A i, j \in DOMAIN order : i < j =>
        /\ order[i].attempt # order[j].attempt
        /\ SteadyClock => order[i].time < order[j].time

LogInFiles ==
    \A i \in DOMAIN order : order[i].attempt \in Listed(attempts) =>
        SaidInFile(order[i], attempts[order[i].attempt].files)

FilesInLog ==
    \A a \in Listed(attempts) : FilesInLine(attempts[a].files) /\ SaidInLog(order, a, attempts[a].files)

LogTrue == order \in Seq(Entry) /\ LogOrdered /\ LogInFiles /\ FilesInLog

\* The cache names the last success that was ever cached.
CacheTrue ==
    cache # Absent =>
        \E i \in DOMAIN order :
            /\ order[i].attempt = cache.attempt
            /\ \A j \in DOMAIN order : i < j => ~order[j].cached

\* Where the attempt of the worker stands: no finished file yet, or a success.
Earlier == {"ensuring", "comparing", "transferring", "verifying", "finishing"}
Open == Earlier \cup Publishing \cup {"creating"}
Mine == attempts[w.attempt].files
Last == Mine[Len(Mine)]
Succeeded == Mine # <<>> /\ Finished(Last) /\ ~Last.failed

Phase ==
    /\ w.failed => pc \in {"creating", "filling", "failed"}
    /\ pc \in Open => \A k \in DOMAIN Mine : Mine[k].stage # "finished"
    /\ pc \in {"creating", "filling"} =>
          IF w.stage = "finished" THEN w.then = IF w.failed THEN "failed" ELSE "caching"
          ELSE ~w.failed /\ w.then \in Earlier
    /\ pc = "filling" => Mine # <<>> /\ Last.stage = w.stage /\ ~Last.whole
    /\ pc \in {"caching", "reporting"} => Succeeded
    /\ pc \in Started => \A i \in DOMAIN order : order[i].attempt = w.attempt => i = Len(order)

\* Until its own attempt has succeeded, the worker leaves the rest of the journal as it was.
Others == [attempts EXCEPT ![w.attempt] = Absent]

Kept ==
    /\ pc = "observing" => descriptor = "whole" /\ before = JournalView("whole", attempts, cache)
    /\ pc \in Started =>
          descriptor = "whole" /\ (~Succeeded => before = JournalView("whole", Others, cache))

\* A success that a reader has to know of was cached, or the reader has read it, is going to
\* read its directory, or has found it gone.
Accounted(j) ==
    LET e == order[j]
    IN ~e.failed /\ \/ e.cached
                    \/ e.attempt \in reader.todo
                    \/ /\ reader.seen[e.attempt] # Absent
                       /\ reader.seen[e.attempt].files # <<>> =>
                              SaidInFile(e, reader.seen[e.attempt].files)

Reader == [todo : SUBSET Attempts, seen : [Attempts -> Attempt \cup {Absent}],
           reading : BOOLEAN, floor : SUBSET Nat, said : Attempts \cup {Absent}]

ReaderTrue ==
    /\ reader \in Reader
    /\ reader.floor \subseteq DOMAIN order
    /\ reader.reading => reader.said = Absent
    /\ reader.reading => \A j \in reader.floor : Accounted(j)
    /\ \A a \in Listed(reader.seen) :
          FilesInLine(reader.seen[a].files) /\ SaidInLog(order, a, reader.seen[a].files)
    /\ ReportIsFresh

JournalInv == LogTrue /\ CacheTrue /\ Phase /\ Kept /\ ReaderTrue

Inv == IInv /\ JournalInv

----------------------------------------------------------------------------
(* The steps that write.                                                   *)

LEMMA PlacesAre ==
    Started = {"ensuring", "capturing", "snapshotting", "registering", "captured", "comparing",
               "transferring", "receiving", "enrolling", "received", "verifying",
               "creating", "filling", "caching", "reporting", "finishing", "failing", "failed"}
BY DEF Started, Places, Guarded

\* The attempt of the worker has its directory.
LEMMA MineTyped ==
    ASSUME IInv, pc \in Started
    PROVE  /\ w.attempt \in Attempts /\ w.attempt \in Listed(attempts)
           /\ attempts[w.attempt] \in Attempt /\ Mine \in Seq(File)
BY DEF IInv, TypeOK, WorkerTrue, Listed, Attempt, Mine

\* Steps other than these leave the attempts alone.
WritesAttempts == \/ \E a \in Attempts : Observe(a) \/ LoseAttempt(a)
                  \/ Create \/ Fill

LEMMA AttemptsWritten == [Next]_vars => WritesAttempts \/ UNCHANGED attempts
<1>. SUFFICES ASSUME [Next]_vars PROVE WritesAttempts \/ UNCHANGED attempts
  OBVIOUS
<1>1. CASE UNCHANGED vars
  BY <1>1 DEF vars, journal
<1>2. CASE Status
  BY <1>2 DEF Status, StatusBegin, StatusRead, StatusReport, Glance, journal
<1>3. CASE Environment
  BY <1>3 DEF Environment, WritesAttempts, Commit, PutBack, LoseRegistration, Unmount, Mount, Lose, Outside, LoseCache,
     Error, Crash, journal
<1>4. CASE Work
  BY <1>4, StoreQuiet DEF Work, StoreStep, WritesAttempts, Begin, Describe, Ensure, EnsureCaptured, Compare, TransferEnd,
     Verify, Finish, Cache, Return, Fail, journal
<1>. QED
  BY <1>1, <1>2, <1>3, <1>4 DEF Next

LEMMA OrderWritten == [Next]_vars => Fill \/ Cache \/ UNCHANGED order
<1>. SUFFICES ASSUME [Next]_vars PROVE Fill \/ Cache \/ UNCHANGED order
  OBVIOUS
<1>1. CASE UNCHANGED vars
  BY <1>1 DEF vars, history
<1>2. CASE Status
  BY <1>2 DEF Status, StatusBegin, StatusRead, StatusReport, Glance, history
<1>3. CASE Environment
  BY <1>3 DEF Environment, Commit, PutBack, LoseRegistration, Unmount, Mount, Lose, Outside, LoseCache, LoseAttempt,
     Error, Crash, history
<1>4. CASE Work
  BY <1>4, StoreQuiet DEF Work, StoreStep, Begin, Describe, Ensure, EnsureCaptured, Compare, TransferEnd,
     Verify, Finish, Create, Return, Fail, Observe, history
<1>. QED
  BY <1>1, <1>2, <1>3, <1>4 DEF Next

\* A stage file is created, empty so far.
LEMMA CreateWrites ==
    ASSUME IInv, Create
    PROVE  /\ w' = w /\ pc' = "filling"
           /\ \A a \in Attempts : a # w.attempt => attempts'[a] = attempts[a]
           /\ Listed(attempts') = Listed(attempts)
           /\ \E f \in File : /\ f.stage = w.stage /\ ~f.whole /\ ~f.failed
                              /\ attempts'[w.attempt].files = Append(Mine, f)
<1>. DEFINE f == [stage |-> w.stage, whole |-> FALSE, failed |-> FALSE,
                  local |-> Absent, copy |-> Absent, time |-> Absent]
<1>1. w.attempt \in Attempts /\ w.attempt \in Listed(attempts) /\ attempts[w.attempt] \in Attempt
  BY MineTyped, PlacesAre DEF Create
<1>2. f \in File
  BY StageNames DEF IInv, TypeOK, File, Stage, WorkRec
<1>3. attempts \in [Attempts -> Attempt \cup {Absent}]
  BY DEF IInv, TypeOK
<1>4. attempts' = [attempts EXCEPT ![w.attempt].files = Append(Mine, f)]
  BY <1>1, <1>3 DEF Create, Mine
<1>5. attempts'[w.attempt].files = Append(Mine, f)
  BY <1>1, <1>3, <1>4 DEF Attempt
<1>6. \A a \in Attempts : a # w.attempt => attempts'[a] = attempts[a]
  BY <1>3, <1>4
<1>7. w.attempt \in Listed(attempts')
  BY FileWritten, AbsentAssumption, <1>1 DEF Listed
<1>8. Listed(attempts') = Listed(attempts)
  BY <1>1, <1>6, <1>7 DEF Listed
<1>. QED
  BY <1>2, <1>5, <1>6, <1>8 DEF Create, Goto

\* A stage file is written; the one that finishes the attempt goes into the log.
Written(f) ==
    /\ f \in File /\ f.stage = w.stage /\ f.whole /\ f.failed = w.failed
    /\ attempts'[w.attempt].files = [Mine EXCEPT ![Len(Mine)] = f]
    /\ IF w.stage = "finished"
          THEN /\ f.time \in Times
               /\ SteadyClock => \A i \in DOMAIN order : order[i].time < f.time
               /\ order' = Append(order, [attempt |-> w.attempt, time |-> f.time,
                                          failed |-> w.failed, cached |-> FALSE])
          ELSE order' = order

LEMMA FillWrites ==
    ASSUME IInv, Fill
    PROVE  /\ w' = w /\ pc' = w.then
           /\ \A a \in Attempts : a # w.attempt => attempts'[a] = attempts[a]
           /\ Listed(attempts') = Listed(attempts)
           /\ \E f : Written(f)
<1>. DEFINE f(t) == [stage |-> w.stage, whole |-> TRUE, failed |-> w.failed,
                     local |-> w.local, copy |-> w.copy, time |-> t]
<1>1. w.attempt \in Attempts /\ w.attempt \in Listed(attempts) /\ attempts[w.attempt] \in Attempt
  BY MineTyped, PlacesAre DEF Fill
<1>2. PICK t \in (IF w.stage = "finished" THEN Reading ELSE {Absent}) :
          /\ attempts' = [attempts EXCEPT ![w.attempt].files[Len(attempts[w.attempt].files)] = f(t)]
          /\ order' = IF w.stage = "finished"
                         THEN Append(order, [attempt |-> w.attempt, time |-> t,
                                             failed |-> w.failed, cached |-> FALSE])
                         ELSE order
  BY DEF Fill
<1>3. attempts \in [Attempts -> Attempt \cup {Absent}]
  BY DEF IInv, TypeOK
<1>4. attempts' = [attempts EXCEPT ![w.attempt].files = [Mine EXCEPT ![Len(Mine)] = f(t)]]
  BY <1>1, <1>2, <1>3 DEF Mine
<1>5. attempts'[w.attempt].files = [Mine EXCEPT ![Len(Mine)] = f(t)]
  BY <1>1, <1>3, <1>4 DEF Attempt
<1>6. \A a \in Attempts : a # w.attempt => attempts'[a] = attempts[a]
  BY <1>3, <1>4
<1>7. w.attempt \in Listed(attempts')
  BY FileWritten, AbsentAssumption, <1>1 DEF Listed
<1>8. Listed(attempts') = Listed(attempts)
  BY <1>1, <1>6, <1>7 DEF Listed
<1>9. Written(f(t))
  <2>1. t \in Times \cup {Absent}
    BY DEF Reading
  <2>2. f(t) \in File
    BY <2>1, StageNames DEF IInv, TypeOK, File, Stage, WorkRec
  <2>3. w.stage = "finished" =>
            t \in Times /\ (SteadyClock => \A i \in DOMAIN order : order[i].time < t)
    BY DEF Reading
  <2>4. f(t).stage = w.stage /\ f(t).whole /\ f(t).failed = w.failed /\ f(t).time = t
    OBVIOUS
  <2>. HIDE DEF f
  <2>. QED
    BY <1>2, <1>5, <2>2, <2>3, <2>4 DEF Written
<1>. QED
  BY <1>6, <1>8, <1>9 DEF Fill, Goto

----------------------------------------------------------------------------
(* The log.                                                                *)

LEMMA EntryTyped ==
    ASSUME Inv, NEW i \in DOMAIN order
    PROVE  order[i] \in Entry /\ order[i].attempt \in Attempts /\ order[i].time \in Times
<1>1. order[i] \in Entry
  BY DEF Inv, JournalInv, LogTrue
<1>. QED
  BY <1>1 DEF Entry

\* The success of the worker is the last entry of the log.
LEMMA MineLogged ==
    ASSUME Inv, pc \in Started, Succeeded
    PROVE  /\ Len(order) \in DOMAIN order
           /\ order[Len(order)].attempt = w.attempt
           /\ order[Len(order)].time = Last.time
           /\ ~order[Len(order)].failed
<1>1. w.attempt \in Listed(attempts) /\ Mine \in Seq(File)
  BY MineTyped DEF Inv
<1>2. Len(Mine) \in DOMAIN Mine
  BY <1>1 DEF Succeeded
<1>3. PICK i \in DOMAIN order : /\ order[i].attempt = w.attempt
                                /\ order[i].time = Last.time
                                /\ order[i].failed = Last.failed
  BY <1>1, <1>2 DEF Inv, JournalInv, LogTrue, FilesInLog, SaidInLog, Succeeded, Last, Mine
<1>4. i = Len(order)
  BY <1>3 DEF Inv, JournalInv, Phase
<1>. QED
  BY <1>3, <1>4 DEF Succeeded

\* Before it has finished, it is not in the log.
LEMMA MineNotLogged ==
    ASSUME Inv, pc \in Started, Mine # <<>> => ~Finished(Last)
    PROVE  \A i \in DOMAIN order : order[i].attempt # w.attempt
BY MineTyped DEF Inv, JournalInv, LogTrue, LogInFiles, SaidInFile, Last, Mine

\* What a step does to the log.
Grown ==
    /\ order' \in Seq(Entry)
    /\ DOMAIN order \subseteq DOMAIN order'
    /\ \A i \in DOMAIN order : /\ order'[i].attempt = order[i].attempt
                               /\ order'[i].time = order[i].time
                               /\ order'[i].failed = order[i].failed
                               /\ order[i].cached => order'[i].cached

LEMMA LogAppended ==
    ASSUME order \in Seq(Entry), NEW e \in Entry, order' = Append(order, e)
    PROVE  /\ Grown
           /\ Len(order') = Len(order) + 1
           /\ DOMAIN order' = DOMAIN order \cup {Len(order')}
           /\ Len(order') \notin DOMAIN order
           /\ order'[Len(order')] = e
           /\ \A i \in DOMAIN order : order'[i] = order[i] /\ i < Len(order')
<1>1. order' \in Seq(Entry) /\ Len(order) \in Nat /\ DOMAIN order = 1..Len(order)
  OBVIOUS
<1>2. Len(order') = Len(order) + 1 /\ DOMAIN order' = 1..(Len(order) + 1)
  OBVIOUS
<1>3. \A i \in 1..Len(order) : order'[i] = order[i]
  OBVIOUS
<1>4. order'[Len(order) + 1] = e
  OBVIOUS
<1>. QED
  BY <1>1, <1>2, <1>3, <1>4 DEF Grown

\* What the worker appends is an entry.
LEMMA WrittenEntry ==
    ASSUME Inv, Fill, NEW f, Written(f), w.stage = "finished"
    PROVE  [attempt |-> w.attempt, time |-> f.time, failed |-> w.failed, cached |-> FALSE] \in Entry
<1>1. w.attempt \in Attempts
  BY MineTyped, PlacesAre DEF Inv, Fill
<1>2. w.failed \in BOOLEAN /\ f.time \in Times
  BY DEF Inv, IInv, TypeOK, WorkRec, Written
<1>. QED
  BY <1>1, <1>2 DEF Entry

LEMMA CacheWrites ==
    ASSUME Inv, Cache
    PROVE  /\ Grown
           /\ DOMAIN order' = DOMAIN order
           /\ Len(order') = Len(order)
           /\ \A i \in DOMAIN order : i # Len(order) => order'[i] = order[i]
           /\ Len(order) \in DOMAIN order
           /\ order[Len(order)].attempt = w.attempt
           /\ order[Len(order)].time = Last.time
           /\ ~order[Len(order)].failed
           /\ order'[Len(order)].cached
<1>1. /\ Len(order) \in DOMAIN order /\ order[Len(order)].attempt = w.attempt
      /\ order[Len(order)].time = Last.time /\ ~order[Len(order)].failed
  <2>1. Succeeded /\ pc \in Started
    BY PlacesAre DEF Cache, Inv, JournalInv, Phase
  <2>. QED
    BY <2>1, MineLogged
<1>2. order \in Seq(Entry)
  BY DEF Inv, JournalInv, LogTrue
<1>. DEFINE e == [order[Len(order)] EXCEPT !.cached = TRUE]
<1>3. order[Len(order)] \in Entry
  BY <1>1, <1>2
<1>4. /\ e \in Entry /\ e.attempt = order[Len(order)].attempt /\ e.time = order[Len(order)].time
      /\ e.failed = order[Len(order)].failed /\ e.cached
  BY <1>3 DEF Entry
<1>5. order' = [order EXCEPT ![Len(order)] = e]
  BY <1>1, <1>2 DEF Cache
<1>. HIDE DEF e
<1>6. order \in [1..Len(order) -> Entry] /\ Len(order) \in Nat /\ DOMAIN order = 1..Len(order)
  BY <1>2
<1>7. order' \in [1..Len(order) -> Entry]
  BY <1>4, <1>5, <1>6
<1>8. order' \in Seq(Entry) /\ Len(order') = Len(order) /\ DOMAIN order' = DOMAIN order
  BY <1>6, <1>7
<1>9. \A i \in DOMAIN order : order'[i] = IF i = Len(order) THEN e ELSE order[i]
  BY <1>5, <1>6
<1>. QED
  BY <1>1, <1>4, <1>8, <1>9 DEF Grown

LEMMA LogGrows == ASSUME Inv, [Next]_vars PROVE Grown
<1>1. CASE UNCHANGED order
  BY <1>1 DEF Grown, Inv, JournalInv, LogTrue
<1>2. CASE Cache
  BY <1>2, CacheWrites
<1>3. CASE Fill
  <2>1. PICK f : Written(f)
    BY <1>3, FillWrites DEF Inv
  <2>2. CASE w.stage = "finished"
    BY <1>3, <2>1, <2>2, WrittenEntry, LogAppended DEF Written, Inv, JournalInv, LogTrue
  <2>3. CASE w.stage # "finished"
    BY <1>1, <2>1, <2>3 DEF Written
  <2>. QED
    BY <2>2, <2>3
<1>. QED
  BY <1>1, <1>2, <1>3, OrderWritten

LEMMA NextLogOrdered == ASSUME Inv, [Next]_vars PROVE LogOrdered'
<1>. USE DEF Inv, JournalInv, LogTrue
<1>1. CASE UNCHANGED order
  BY <1>1 DEF LogOrdered
<1>2. CASE Cache
  <2>1. Grown /\ DOMAIN order' = DOMAIN order
    BY <1>2, CacheWrites
  <2>. QED
    BY <2>1 DEF Grown, LogOrdered
<1>3. CASE Fill
  <2>1. PICK f : Written(f)
    BY <1>3, FillWrites
  <2>2. CASE w.stage = "finished"
    <3>. DEFINE e == [attempt |-> w.attempt, time |-> f.time, failed |-> w.failed, cached |-> FALSE]
    <3>1. e \in Entry /\ order' = Append(order, e)
      BY <1>3, <2>1, <2>2, WrittenEntry DEF Written
    <3>2. e.attempt = w.attempt /\ e.time = f.time
      OBVIOUS
    <3>. HIDE DEF e
    <3>3. /\ DOMAIN order' = DOMAIN order \cup {Len(order')} /\ order'[Len(order')] = e
          /\ \A i \in DOMAIN order : order'[i] = order[i] /\ i < Len(order')
          /\ Len(order') = Len(order) + 1
      BY <3>1, LogAppended
    <3>4. \A i \in DOMAIN order : order[i].attempt # w.attempt
      BY <1>3, MineNotLogged, PlacesAre DEF Fill, Phase, Finished
    <3>5. SteadyClock => \A i \in DOMAIN order : order[i].time < f.time
      BY <2>1, <2>2 DEF Written
    <3>6. DOMAIN order = 1..Len(order) /\ Len(order) \in Nat
      OBVIOUS
    <3>. SUFFICES ASSUME NEW i \in DOMAIN order', NEW j \in DOMAIN order', i < j
                  PROVE  /\ order'[i].attempt # order'[j].attempt
                         /\ SteadyClock => order'[i].time < order'[j].time
      BY DEF LogOrdered
    <3>7. i \in DOMAIN order
      <4>1. DOMAIN order' = 1..(Len(order) + 1)
        BY <3>3, <3>6
      <4>. QED
        BY <3>6, <4>1
    <3>8. CASE j \in DOMAIN order
      BY <3>3, <3>7, <3>8 DEF LogOrdered
    <3>9. CASE j = Len(order')
      BY <3>2, <3>3, <3>4, <3>5, <3>7, <3>9
    <3>. QED
      BY <3>3, <3>8, <3>9
  <2>3. CASE w.stage # "finished"
    BY <1>1, <2>1, <2>3 DEF Written
  <2>. QED
    BY <2>2, <2>3
<1>. QED
  BY <1>1, <1>2, <1>3, OrderWritten

LEMMA NextLogInFiles == ASSUME Inv, [Next]_vars PROVE LogInFiles'
<1>. USE DEF Inv, JournalInv, LogTrue
<1>. SUFFICES ASSUME NEW i \in DOMAIN order', order'[i].attempt \in Listed(attempts')
              PROVE  SaidInFile(order'[i], attempts'[order'[i].attempt].files)
  BY DEF LogInFiles
<1>. DEFINE a == order'[i].attempt
<1>1. ASSUME i \in DOMAIN order, a \in Listed(attempts), attempts'[a] = attempts[a]
      PROVE  SaidInFile(order'[i], attempts'[a].files)
  BY <1>1, LogGrows DEF Grown, LogInFiles, SaidInFile
<1>2. CASE UNCHANGED order
  <2>1. CASE UNCHANGED attempts
    BY <1>1, <1>2, <2>1
  <2>2. ASSUME NEW b \in Attempts, Observe(b) PROVE SaidInFile(order'[i], attempts'[a].files)
    <3>1. a # b /\ a \in Attempts
      BY <1>2, <2>2 DEF Observe, Listed
    <3>2. attempts'[a] = attempts[a]
      BY <2>2, <3>1 DEF Observe, IInv, TypeOK
    <3>. QED
      BY <1>1, <1>2, <3>1, <3>2 DEF Listed
  <2>3. ASSUME NEW b \in Attempts, LoseAttempt(b) PROVE SaidInFile(order'[i], attempts'[a].files)
    <3>1. attempts'[a] = attempts[a]
      BY <2>3 DEF LoseAttempt, Listed, IInv, TypeOK
    <3>. QED
      BY <1>1, <1>2, <3>1 DEF Listed
  <2>4. CASE Create
    <3>1. a # w.attempt
      <4>1. \A k \in DOMAIN Mine : Mine[k].stage # "finished"
        BY <2>4 DEF Create, Phase, Open
      <4>2. Mine \in Seq(File)
        BY <2>4, MineTyped, PlacesAre DEF Create
      <4>3. Mine # <<>> => ~Finished(Last)
        BY <4>1, <4>2 DEF Last, Finished
      <4>. QED
        BY <1>2, <2>4, <4>3, MineNotLogged, PlacesAre DEF Create
    <3>2. attempts'[a] = attempts[a] /\ Listed(attempts') = Listed(attempts)
      BY <2>4, <3>1, CreateWrites DEF Listed
    <3>. QED
      BY <1>1, <1>2, <3>2
  <2>5. CASE Fill
    <3>1. a # w.attempt
      BY <1>2, <2>5, MineNotLogged, PlacesAre DEF Fill, Phase, Finished
    <3>2. attempts'[a] = attempts[a] /\ Listed(attempts') = Listed(attempts)
      BY <2>5, <3>1, FillWrites DEF Listed
    <3>. QED
      BY <1>1, <1>2, <3>2
  <2>. QED
    BY <2>1, <2>2, <2>3, <2>4, <2>5, AttemptsWritten DEF WritesAttempts
<1>3. CASE Cache
  BY <1>1, <1>3, CacheWrites DEF Cache
<1>4. CASE Fill /\ order' # order
  <2>1. PICK f : Written(f)
    BY <1>4, FillWrites
  <2>2. w.stage = "finished"
    BY <1>4, <2>1 DEF Written
  <2>. DEFINE e == [attempt |-> w.attempt, time |-> f.time, failed |-> w.failed, cached |-> FALSE]
  <2>3. e \in Entry /\ order' = Append(order, e)
    BY <1>4, <2>1, <2>2, WrittenEntry DEF Written
  <2>4. e.attempt = w.attempt /\ e.time = f.time /\ e.failed = w.failed
    OBVIOUS
  <2>. HIDE DEF e
  <2>5. /\ DOMAIN order' = DOMAIN order \cup {Len(order')} /\ order'[Len(order')] = e
        /\ \A k \in DOMAIN order : order'[k] = order[k]
    BY <2>3, LogAppended
  <2>6. CASE i \in DOMAIN order
    <3>1. a # w.attempt
      BY <1>4, <2>5, <2>6, MineNotLogged, PlacesAre DEF Fill, Phase, Finished
    <3>2. attempts'[a] = attempts[a] /\ Listed(attempts') = Listed(attempts)
      BY <1>4, <3>1, FillWrites DEF Listed
    <3>. QED
      BY <1>1, <2>6, <3>2
  <2>7. CASE i = Len(order')
    <3>1. Mine \in Seq(File) /\ Mine # <<>>
      BY <1>4, MineTyped, PlacesAre DEF Fill, Phase
    <3>. DEFINE q == attempts'[w.attempt].files
    <3>2. /\ q = [Mine EXCEPT ![Len(Mine)] = f] /\ f \in File /\ f.whole /\ f.stage = "finished"
          /\ f.failed = w.failed
      BY <2>1, <2>2 DEF Written
    <3>3. q \in Seq(File) /\ DOMAIN q = DOMAIN Mine /\ Len(Mine) \in DOMAIN Mine /\ q[Len(Mine)] = f
      BY <3>1, <3>2, LastWritten
    <3>4. Len(q) = Len(Mine) /\ q # <<>>
      BY <3>1, <3>3
    <3>5. a = w.attempt
      BY <2>4, <2>5, <2>7
    <3>. HIDE DEF q
    <3>6. SaidInFile(e, q)
      BY <2>4, <3>2, <3>3, <3>4 DEF SaidInFile, Finished
    <3>. QED
      BY <2>5, <2>7, <3>5, <3>6 DEF q
  <2>. QED
    BY <2>5, <2>6, <2>7
<1>. QED
  BY <1>2, <1>3, <1>4, OrderWritten

LEMMA NextFilesInLog == ASSUME Inv, [Next]_vars PROVE FilesInLog'
<1>. USE DEF Inv, JournalInv, LogTrue
<1>. SUFFICES ASSUME NEW a \in Listed(attempts')
              PROVE  /\ FilesInLine(attempts'[a].files)
                     /\ \A k \in DOMAIN attempts'[a].files : Finished(attempts'[a].files[k]) =>
                            \E i \in DOMAIN order' : /\ order'[i].attempt = a
                                                     /\ order'[i].time = attempts'[a].files[k].time
                                                     /\ order'[i].failed = attempts'[a].files[k].failed
  BY DEF FilesInLog, SaidInLog
<1>0. Grown
  BY LogGrows
<1>1. ASSUME a \in Listed(attempts), attempts'[a] = attempts[a]
      PROVE  /\ FilesInLine(attempts'[a].files)
             /\ \A k \in DOMAIN attempts'[a].files : Finished(attempts'[a].files[k]) =>
                    \E i \in DOMAIN order' : /\ order'[i].attempt = a
                                             /\ order'[i].time = attempts'[a].files[k].time
                                             /\ order'[i].failed = attempts'[a].files[k].failed
  <2>1. FilesInLine(attempts[a].files) /\ SaidInLog(order, a, attempts[a].files)
    BY <1>1 DEF FilesInLog
  <2>. QED
    BY <1>0, <1>1, <2>1 DEF SaidInLog, Grown
<1>2. CASE UNCHANGED attempts
  BY <1>1, <1>2 DEF Listed
<1>3. ASSUME NEW b \in Attempts, Observe(b), a = b
      PROVE  attempts'[a].files = <<>>
  BY <1>3 DEF Observe, IInv, TypeOK
<1>4. ASSUME NEW b \in Attempts, Observe(b) \/ LoseAttempt(b), a # b
      PROVE  a \in Listed(attempts) /\ attempts'[a] = attempts[a]
  BY <1>4 DEF Observe, LoseAttempt, Listed, IInv, TypeOK
<1>5. ASSUME NEW b \in Attempts, LoseAttempt(b) PROVE a # b
  BY <1>5 DEF LoseAttempt, Listed, IInv, TypeOK
<1>6. ASSUME attempts'[a].files = <<>> PROVE FilesInLine(attempts'[a].files)
  BY <1>6 DEF FilesInLine
<1>7. CASE Create /\ a = w.attempt
  <2>1. PICK f \in File : /\ f.stage = w.stage /\ ~f.whole /\ ~f.failed
                          /\ attempts'[a].files = Append(Mine, f)
    BY <1>7, CreateWrites
  <2>2. Mine \in Seq(File) /\ a \in Listed(attempts)
    BY <1>7, MineTyped, PlacesAre DEF Create
  <2>3. FilesInLine(Mine) /\ SaidInLog(order, a, Mine)
    BY <1>7, <2>2 DEF FilesInLog, Mine
  <2>4. \A k \in DOMAIN Mine : Mine[k].stage # "finished"
    BY <1>7 DEF Create, Phase, Open
  <2>. DEFINE q == Append(Mine, f)
  <2>5. /\ DOMAIN q = DOMAIN Mine \cup {Len(q)}
        /\ \A k \in DOMAIN Mine : q[k] = Mine[k]
        /\ q[Len(q)] = f
    BY <2>2
  <2>. HIDE DEF q
  <2>6. \A k \in DOMAIN q : ~Finished(q[k]) /\ ~q[k].failed
    BY <2>1, <2>3, <2>4, <2>5 DEF Finished, FilesInLine
  <2>7. FilesInLine(q)
    BY <2>4, <2>5, <2>6 DEF FilesInLine
  <2>8. attempts'[a].files = q
    BY <2>1 DEF q
  <2>. QED
    BY <2>6, <2>7, <2>8
<1>8. CASE Fill /\ a = w.attempt
  <2>1. PICK f : Written(f)
    BY <1>8, FillWrites
  <2>2. Mine \in Seq(File) /\ Mine # <<>> /\ a \in Listed(attempts)
    BY <1>8, MineTyped, PlacesAre DEF Fill, Phase
  <2>3. FilesInLine(Mine) /\ SaidInLog(order, a, Mine)
    BY <1>8, <2>2 DEF FilesInLog, Mine
  <2>. DEFINE q == [Mine EXCEPT ![Len(Mine)] = f]
  <2>4. /\ q \in Seq(File) /\ DOMAIN q = DOMAIN Mine
        /\ \A k \in DOMAIN Mine : q[k] = IF k = Len(Mine) THEN f ELSE Mine[k]
    BY <2>1, <2>2, LastWritten DEF Written
  <2>5. Len(q) = Len(Mine) /\ Len(Mine) \in DOMAIN Mine
    <3>. HIDE DEF q
    <3>. QED
      BY <2>2, <2>4
  <2>6. attempts'[a].files = q
    BY <1>8, <2>1 DEF Written
  <2>. HIDE DEF q
  <2>7. f.stage = w.stage /\ f.whole /\ f.failed = w.failed
    BY <2>1 DEF Written
  <2>8. w.failed => w.stage = "finished"
    BY <1>8 DEF Fill, Phase
  <2>9. FilesInLine(q)
    <3>1. \A k \in DOMAIN q : q[k].stage = "finished" => k = Len(q)
      BY <2>3, <2>4, <2>5 DEF FilesInLine
    <3>2. \A k \in DOMAIN q : q[k].failed => Finished(q[k])
      BY <2>3, <2>4, <2>7, <2>8 DEF FilesInLine, Finished
    <3>. QED
      BY <3>1, <3>2 DEF FilesInLine
  <2>10. ASSUME NEW k \in DOMAIN q, Finished(q[k])
         PROVE  \E i \in DOMAIN order' : /\ order'[i].attempt = a
                                         /\ order'[i].time = q[k].time
                                         /\ order'[i].failed = q[k].failed
    <3>1. k = Len(Mine) /\ q[k] = f /\ w.stage = "finished"
      BY <2>4, <2>5, <2>7, <2>9, <2>10 DEF FilesInLine, Finished
    <3>. DEFINE e == [attempt |-> w.attempt, time |-> f.time, failed |-> w.failed, cached |-> FALSE]
    <3>2. e \in Entry /\ order' = Append(order, e)
      BY <1>8, <2>1, <3>1, WrittenEntry DEF Written
    <3>3. e.attempt = a /\ e.time = f.time /\ e.failed = f.failed
      BY <1>8, <2>7
    <3>. HIDE DEF e
    <3>4. Len(order') \in DOMAIN order' /\ order'[Len(order')] = e
      BY <3>2, LogAppended
    <3>. QED
      BY <3>1, <3>3, <3>4
  <2>. QED
    BY <2>6, <2>9, <2>10
<1>9. ASSUME Create \/ Fill, a # w.attempt
      PROVE  a \in Listed(attempts) /\ attempts'[a] = attempts[a]
  BY <1>9, CreateWrites, FillWrites DEF Listed
<1>. QED
  BY <1>1, <1>2, <1>3, <1>4, <1>5, <1>6, <1>7, <1>8, <1>9, AttemptsWritten DEF WritesAttempts

LEMMA NextLogTrue == ASSUME Inv, [Next]_vars PROVE LogTrue'
BY LogGrows, NextLogOrdered, NextLogInFiles, NextFilesInLog DEF LogTrue, Grown

LEMMA NextCacheTrue == ASSUME Inv, [Next]_vars PROVE CacheTrue'
<1>. USE DEF Inv, JournalInv, LogTrue
<1>1. CASE Cache
  <2>1. /\ Len(order) \in DOMAIN order' /\ order'[Len(order)].attempt = w.attempt
        /\ \A j \in DOMAIN order' : j <= Len(order)
    BY <1>1, CacheWrites DEF Grown
  <2>2. cache'.attempt = w.attempt
    BY <1>1 DEF Cache
  <2>. QED
    BY <2>1, <2>2 DEF CacheTrue
<1>2. ASSUME UNCHANGED order, cache' \in {cache, Absent} PROVE CacheTrue'
  BY <1>2 DEF CacheTrue
<1>3. CASE Fill
  <2>1. PICK f : Written(f)
    BY <1>3, FillWrites
  <2>2. cache' = cache
    BY <1>3 DEF Fill
  <2>3. CASE w.stage = "finished"
    <3>. DEFINE e == [attempt |-> w.attempt, time |-> f.time, failed |-> w.failed, cached |-> FALSE]
    <3>1. e \in Entry /\ order' = Append(order, e)
      BY <1>3, <2>1, <2>3, WrittenEntry DEF Written
    <3>2. ~e.cached
      OBVIOUS
    <3>. HIDE DEF e
    <3>3. /\ DOMAIN order' = DOMAIN order \cup {Len(order')} /\ order'[Len(order')] = e
          /\ \A i \in DOMAIN order : order'[i] = order[i]
      BY <3>1, LogAppended
    <3>. QED
      BY <2>2, <3>2, <3>3 DEF CacheTrue
  <2>4. CASE w.stage # "finished"
    BY <1>2, <2>1, <2>2, <2>4 DEF Written
  <2>. QED
    BY <2>3, <2>4
<1>4. CASE UNCHANGED order
  <2>1. CASE UNCHANGED vars
    BY <1>2, <2>1 DEF vars, journal, history
  <2>2. CASE Status
    BY <1>2, <1>4, <2>2 DEF Status, StatusBegin, StatusRead, StatusReport, Glance, journal
  <2>3. CASE Environment
    BY <1>2, <1>4, <2>3 DEF Environment, Commit, PutBack, LoseRegistration, Unmount, Mount, Lose, Outside, LoseCache,
       LoseAttempt, Error, Crash, journal
  <2>4. CASE Work /\ ~Cache
    BY <1>2, <1>4, <2>4, StoreQuiet DEF Work, StoreStep, Begin, Describe, Ensure, EnsureCaptured, Compare, TransferEnd,
       Verify, Finish, Create, Fill, Return, Fail, Observe, journal
  <2>. QED
    BY <1>1, <2>1, <2>2, <2>3, <2>4 DEF Next
<1>. QED
  BY <1>1, <1>3, <1>4, OrderWritten

----------------------------------------------------------------------------
(* The attempt of the worker.                                              *)

\* A step that leaves the attempt where it stands.
LEMMA PhaseStays ==
    ASSUME Inv, UNCHANGED <<w, attempts, order>>, pc \in Started,
           pc' \in {"capturing", "captured", "failing", "failed", "reporting"},
           pc' \in {"capturing", "captured"} => pc \in Open,
           pc' = "reporting" => pc = "caching",
           w.failed => pc' = "failed"
    PROVE  Phase'
<1>1. pc' \notin {"creating", "filling", "caching"}
  OBVIOUS
<1>2. pc' \in Open => pc \in Open
  BY DEF Open, Publishing, Earlier
<1>. QED
  BY <1>1, <1>2 DEF Inv, JournalInv, Phase, Mine, Last, Succeeded

\* A step that hands the next stage to the file.
LEMMA PhasePublish ==
    ASSUME Inv, UNCHANGED <<attempts, order>>, pc \in Started,
           \A k \in DOMAIN Mine : Mine[k].stage # "finished",
           NEW stage, NEW then, NEW work \in WorkRec, Publish(stage, then, work),
           work.attempt = w.attempt,
           IF stage = "finished" THEN then = IF work.failed THEN "failed" ELSE "caching"
           ELSE ~work.failed /\ then \in Earlier
    PROVE  Phase'
<1>1. /\ w'.attempt = w.attempt /\ w'.stage = stage /\ w'.then = then /\ w'.failed = work.failed
      /\ pc' = "creating"
  BY DEF Publish, Goto, WorkRec
<1>2. \A i \in DOMAIN order : order[i].attempt = w.attempt => i = Len(order)
  BY DEF Inv, JournalInv, Phase
<1>. QED
  BY <1>1, <1>2 DEF Phase, Mine, Last, Succeeded

LEMMA NotYetFinished ==
    ASSUME Inv, pc \in Open PROVE \A k \in DOMAIN Mine : Mine[k].stage # "finished"
BY DEF Inv, JournalInv, Phase

LEMMA NoWorkPhase == w' = NoWork /\ pc' \notin Started => Phase'
BY PlacesAre DEF NoWork, Phase, Open, Publishing, Earlier

\* Without an attempt there is none that failed.
LEMMA IdlePhase == ASSUME Inv, ~w'.failed, pc' \notin Started PROVE Phase'
BY PlacesAre DEF Phase, Open, Publishing, Earlier

LEMMA PhaseCreate == ASSUME Inv, Create PROVE Phase'
<1>. USE DEF Inv, JournalInv
<1>1. PICK f \in File : /\ f.stage = w.stage /\ ~f.whole /\ ~f.failed
                        /\ attempts'[w.attempt].files = Append(Mine, f)
  BY CreateWrites
<1>2. w' = w /\ pc' = "filling" /\ order' = order
  BY CreateWrites DEF Create, history
<1>3. Mine \in Seq(File)
  BY MineTyped, PlacesAre DEF Create
<1>. DEFINE q == Append(Mine, f)
<1>4. q # <<>> /\ q[Len(q)] = f
  BY <1>3
<1>5. attempts'[w'.attempt].files = q
  BY <1>1, <1>2
<1>. HIDE DEF q
<1>6. pc = "creating"
  BY DEF Create
<1>7. Mine' = q
  BY <1>5 DEF Mine
<1>8. Last' = f
  BY <1>4, <1>7 DEF Last
<1>. QED
  BY <1>1, <1>2, <1>4, <1>6, <1>7, <1>8, PlacesAre DEF Phase, Open, Publishing, Earlier

LEMMA PhaseFill == ASSUME Inv, Fill PROVE Phase'
<1>. USE DEF Inv, JournalInv
<1>1. PICK f : Written(f)
  BY FillWrites
<1>2. w' = w /\ pc' = w.then /\ pc = "filling"
  BY FillWrites DEF Fill
<1>3. Mine \in Seq(File) /\ Mine # <<>> /\ f \in File
  BY <1>1, MineTyped, PlacesAre DEF Fill, Phase, Written
<1>. DEFINE q == [Mine EXCEPT ![Len(Mine)] = f]
<1>4. /\ q \in Seq(File) /\ DOMAIN q = DOMAIN Mine
      /\ \A k \in DOMAIN Mine : q[k] = IF k = Len(Mine) THEN f ELSE Mine[k]
  BY <1>3, LastWritten
<1>5. attempts'[w'.attempt].files = q
  BY <1>1, <1>2 DEF Written
<1>. HIDE DEF q
<1>6. Len(q) = Len(Mine) /\ Len(Mine) \in DOMAIN Mine /\ q # <<>>
  BY <1>3, <1>4
<1>7. Mine' = q
  BY <1>5 DEF Mine
<1>8. Last' = f
  BY <1>4, <1>6, <1>7 DEF Last
<1>9. FilesInLine(Mine)
  BY MineTyped, PlacesAre DEF Fill, LogTrue, FilesInLog, Mine
<1>10. f.stage = w.stage /\ f.whole /\ f.failed = w.failed
  BY <1>1 DEF Written
<1>11. CASE w.stage # "finished"
  <2>1. order' = order /\ ~w.failed /\ w.then \in Earlier
    BY <1>1, <1>2, <1>11 DEF Written, Phase
  <2>2. \A k \in DOMAIN q : q[k].stage # "finished"
    BY <1>4, <1>6, <1>9, <1>10, <1>11 DEF FilesInLine
  <2>3. \A i \in DOMAIN order : order[i].attempt = w.attempt => i = Len(order)
    BY <1>2, PlacesAre DEF Phase
  <2>. QED
    BY <1>2, <1>7, <2>1, <2>2, <2>3 DEF Phase, Earlier
<1>12. CASE w.stage = "finished"
  <2>1. w.then = IF w.failed THEN "failed" ELSE "caching"
    BY <1>2, <1>12 DEF Phase
  <2>. DEFINE e == [attempt |-> w.attempt, time |-> f.time, failed |-> w.failed, cached |-> FALSE]
  <2>2. e \in Entry /\ order' = Append(order, e)
    BY <1>1, <1>12, WrittenEntry DEF Written
  <2>. HIDE DEF e
  <2>3. /\ DOMAIN order' = DOMAIN order \cup {Len(order')}
        /\ \A i \in DOMAIN order : order'[i] = order[i]
    BY <2>2, LogAppended DEF LogTrue
  <2>4. \A i \in DOMAIN order : order[i].attempt # w.attempt
    BY <1>2, MineNotLogged, PlacesAre DEF Phase, Finished
  <2>5. \A i \in DOMAIN order' : order'[i].attempt = w'.attempt => i = Len(order')
    BY <1>2, <2>3, <2>4
  <2>6. ~w.failed => Succeeded'
    BY <1>6, <1>7, <1>8, <1>10, <1>12 DEF Succeeded, Finished
  <2>. QED
    BY <1>2, <2>1, <2>5, <2>6 DEF Phase, Open, Publishing, Earlier
<1>. QED
  BY <1>11, <1>12

LEMMA NextPhase == ASSUME Inv, [Next]_vars PROVE Phase'
<1>. USE DEF Inv, JournalInv
<1>0. w \in WorkRec /\ pc \in Places
  BY DEF IInv, TypeOK
<1>1. CASE UNCHANGED <<pc, w, attempts, order>>
  BY <1>1 DEF Phase, Mine, Last, Succeeded
<1>2. CASE Begin \/ Return \/ Crash
  BY <1>2, NoWorkPhase, PlacesAre DEF Begin, Return, Crash, End, Goto
<1>3. CASE Describe
  BY <1>3, IdlePhase, PlacesAre DEF Describe, Goto, Phase
<1>4. ASSUME NEW a \in Attempts, LoseAttempt(a) PROVE Phase'
  BY <1>4, IdlePhase, PlacesAre DEF LoseAttempt, Phase
<1>5. ASSUME NEW a \in Attempts, Observe(a) PROVE Phase'
  <2>1. [w EXCEPT !.attempt = a] \in WorkRec /\ ~w.failed
    BY <1>0, <1>5, WorkFields DEF Observe, Phase
  <2>2. w'.attempt = a /\ w'.stage = "started" /\ w'.then = "ensuring" /\ ~w'.failed /\ pc' = "creating"
    BY <1>0, <1>5, <2>1 DEF Observe, Publish, Goto, WorkRec
  <2>3. attempts'[a].files = <<>>
    BY <1>5 DEF Observe, IInv, TypeOK
  <2>4. order' = order /\ \A i \in DOMAIN order : order[i].attempt # a
    BY <1>5 DEF Observe, history
  <2>. QED
    BY <2>2, <2>3, <2>4 DEF Phase, Open, Publishing, Earlier, Mine
<1>6. CASE Ensure \/ EnsureCaptured
  <2>1. /\ pc \in Started /\ pc \in Open /\ UNCHANGED <<attempts, order>> /\ ~w.failed
    BY <1>6, PlacesAre DEF Ensure, EnsureCaptured, Open, Publishing, Earlier, journal, history, Phase
  <2>2. CASE UNCHANGED w /\ pc' \in {"capturing", "failing"}
    BY <2>1, <2>2, PhaseStays
  <2>3. ASSUME NEW c \in CoveringCopies(Src, "sender"), Selected(c) PROVE Phase'
    <3>1. c \in CopyIds /\ copies["sender"][c] \in FactSets \cup {Absent}
      BY DEF CoveringCopies, Candidates, Healthy, Store, IInv, TypeOK
    <3>. DEFINE v == [w EXCEPT !.local = c, !.graph = copies["sender"][c]]
    <3>2. v \in WorkRec
      BY <1>0, <3>1, WorkFields
    <3>3. v.attempt = w.attempt /\ v.failed = w.failed
      BY <1>0 DEF WorkRec
    <3>4. Publish("local_verified", "comparing", v)
      BY <2>3 DEF Selected
    <3>. HIDE DEF v
    <3>. QED
      BY <2>1, <3>2, <3>3, <3>4, NotYetFinished, PhasePublish DEF Earlier
  <2>. QED
    BY <1>6, <2>2, <2>3 DEF Ensure, EnsureCaptured, Goto
<1>7. CASE Compare \/ Verify
  <2>1. /\ pc \in Started /\ pc \in Open /\ UNCHANGED <<attempts, order>> /\ ~w.failed
    BY <1>7, PlacesAre DEF Compare, Verify, Open, Publishing, Earlier, journal, history, Phase
  <2>2. CASE UNCHANGED w /\ pc' = "failing"
    BY <2>1, <2>2, PhaseStays
  <2>3. ASSUME NEW c \in CoveringCopies(Src, "destination"), Verified(c) PROVE Phase'
    <3>. DEFINE v == [w EXCEPT !.copy = c]
    <3>1. v \in WorkRec
      BY <1>0, WorkFields DEF CoveringCopies, Candidates, Healthy
    <3>2. v.attempt = w.attempt /\ v.failed = w.failed
      BY <1>0 DEF WorkRec
    <3>3. Publish("destination_verified", "finishing", v)
      BY <2>3 DEF Verified
    <3>. HIDE DEF v
    <3>. QED
      BY <2>1, <3>1, <3>2, <3>3, NotYetFinished, PhasePublish DEF Earlier
  <2>4. CASE Publish("sending", "transferring", w)
    BY <1>0, <2>1, <2>4, NotYetFinished, PhasePublish DEF Earlier
  <2>. QED
    BY <1>7, <2>2, <2>3, <2>4 DEF Compare, Verify, Goto
<1>8. CASE StoreStep
  <2>1. /\ pc \in Publishing /\ pc' \in Publishing \cup {"failing"}
        /\ UNCHANGED <<attempts, order>>
    BY <1>8, StoreQuiet DEF journal
  <2>2. /\ w'.attempt = w.attempt /\ w'.failed = w.failed
    BY <1>0, <1>8, StoreSteps
  <2>. QED
    BY <2>1, <2>2, PlacesAre DEF Publishing, Phase, Open, Publishing, Earlier, Mine, Last, Succeeded
<1>9. CASE Error
  <2>1. pc' = IF w.failed THEN "failed" ELSE "failing"
    BY <1>9 DEF Error, Goto
  <2>2. pc \in Started /\ UNCHANGED <<w, attempts, order>>
    BY <1>9, PlacesAre DEF Error, Guarded, journal, history
  <2>. QED
    BY <2>1, <2>2, PhaseStays
<1>10. CASE Finish
  <2>1. /\ pc \in Started /\ pc \in Open /\ UNCHANGED <<attempts, order>> /\ ~w.failed
    BY <1>10, PlacesAre DEF Finish, Open, Publishing, Earlier, journal, history, Phase
  <2>2. Publish("finished", "caching", w)
    BY <1>10 DEF Finish
  <2>. QED
    BY <1>0, <2>1, <2>2, NotYetFinished, PhasePublish
<1>11. CASE Fail
  <2>1. /\ pc \in Started /\ UNCHANGED <<attempts, order>> /\ ~w.failed
    BY <1>11, PlacesAre DEF Fail, journal, history, Phase
  <2>2. CASE HasFinished
    BY <1>11, <2>1, <2>2, PhaseStays DEF Fail, Goto
  <2>3. CASE ~HasFinished
    <3>. DEFINE v == [w EXCEPT !.local = Absent, !.copy = Absent, !.failed = TRUE]
    <3>1. v \in WorkRec
      BY <1>0, WorkFields
    <3>2. v.attempt = w.attempt /\ v.failed
      BY <1>0 DEF WorkRec
    <3>3. Publish("finished", "failed", v)
      BY <1>11, <2>3 DEF Fail
    <3>4. \A k \in DOMAIN Mine : Mine[k].stage # "finished"
      BY <2>3 DEF HasFinished, StagesOf, Files, Mine
    <3>. HIDE DEF v
    <3>. QED
      BY <2>1, <3>1, <3>2, <3>3, <3>4, PhasePublish
  <2>. QED
    BY <2>2, <2>3
<1>12. CASE Create
  BY <1>12, PhaseCreate
<1>13. CASE Fill
  BY <1>13, PhaseFill
<1>14. CASE Cache
  <2>1. pc = "caching" /\ pc' = "reporting" /\ UNCHANGED <<w, attempts>>
    BY <1>14 DEF Cache, Goto
  <2>2. \A i \in DOMAIN order' : order'[i].attempt = w.attempt => i = Len(order')
    BY <1>14, <2>1, CacheWrites, PlacesAre DEF Phase, Grown
  <2>. QED
    BY <2>1, <2>2 DEF Phase, Open, Publishing, Earlier, Mine, Last, Succeeded
<1>16. CASE TransferEnd
  <2>1. /\ pc \in Started /\ pc \in Open /\ UNCHANGED <<attempts, order>> /\ ~w.failed
    BY <1>16, PlacesAre DEF TransferEnd, Open, Publishing, Earlier, journal, history, Phase
  <2>. DEFINE v == [w EXCEPT !.copy = w.fresh]
  <2>2. v \in WorkRec
    BY <1>0, <1>16, WorkFields DEF TransferEnd, Arrived, Healthy
  <2>3. v.attempt = w.attempt /\ v.failed = w.failed
    BY <1>0 DEF WorkRec
  <2>4. Publish("destination_published", "verifying", v)
    BY <1>16 DEF TransferEnd
  <2>. HIDE DEF v
  <2>. QED
    BY <2>1, <2>2, <2>3, <2>4, NotYetFinished, PhasePublish DEF Earlier
<1>17. CASE Status
  BY <1>1, <1>17 DEF Status, StatusBegin, StatusRead, StatusReport, Glance, journal, history
<1>18. CASE \/ \E x \in Commits, v \in Contents : Commit(x, v)
            \/ \E S \in SUBSET DOMAIN source : PutBack(S)
            \/ \E t \in Store : LoseRegistration(t) \/ Unmount(t) \/ Mount(t) \/ \E c \in CopyIds : Lose(t, c)
            \/ LoseCache
  BY <1>1, <1>18 DEF Commit, PutBack, LoseRegistration, Unmount, Mount, Lose, Outside, LoseCache, journal, history
<1>19. CASE UNCHANGED vars
  BY <1>1, <1>19 DEF vars, journal, history
<1>. QED
  BY <1>2, <1>3, <1>4, <1>5, <1>6, <1>7, <1>8, <1>9, <1>10, <1>11, <1>12, <1>13, <1>14,
     <1>16, <1>17, <1>18, <1>19 DEF Next, Work, Environment, StoreStep

\* A step that leaves the journal alone.
LEMMA KeptStays ==
    ASSUME Inv, UNCHANGED <<journal, before>>,
           pc' \in Started => pc \in Started /\ w'.attempt = w.attempt,
           pc' = "observing" => pc = "observing"
    PROVE  Kept'
BY DEF Inv, JournalInv, Kept, Succeeded, Last, Mine, Others, journal

\* A step that writes in the attempt of the worker.
LEMMA KeptWriting ==
    ASSUME Inv, Create \/ Fill PROVE Kept'
<1>. USE DEF Inv, JournalInv
<1>1. /\ w' = w /\ pc \in {"creating", "filling"} /\ pc' \in Started
      /\ UNCHANGED <<descriptor, cache, before>>
  <2>1. CASE Create
    BY <2>1, PlacesAre DEF Create, Goto, history
  <2>2. CASE Fill
    BY <2>2, PlacesAre DEF Fill, Goto, IInv, WorkerTrue
  <2>. QED
    BY <2>1, <2>2
<1>2. Others' = Others
  <2>1. \A a \in Attempts : a # w.attempt => attempts'[a] = attempts[a]
    BY CreateWrites, FillWrites
  <2>2. attempts' \in [Attempts -> Attempt \cup {Absent}] /\ attempts \in [Attempts -> Attempt \cup {Absent}]
    BY FileWritten DEF IInv, TypeOK
  <2>3. Others' = [attempts' EXCEPT ![w.attempt] = Absent]
    BY <1>1 DEF Others
  <2>4. [attempts' EXCEPT ![w.attempt] = Absent] = [attempts EXCEPT ![w.attempt] = Absent]
    BY <2>1, <2>2
  <2>. QED
    BY <2>3, <2>4 DEF Others
<1>3. ~Succeeded
  <2>1. Mine \in Seq(File)
    BY <1>1, MineTyped, PlacesAre
  <2>. QED
    BY <1>1, <2>1 DEF Phase, Open, Publishing, Succeeded, Finished, Last
<1>4. descriptor = "whole" /\ before = JournalView("whole", Others, cache)
  BY <1>1, <1>3, PlacesAre DEF Kept
<1>. QED
  BY <1>1, <1>2, <1>4, PlacesAre DEF Kept

LEMMA NextKept == ASSUME Inv, [Next]_vars PROVE Kept'
<1>. USE DEF Inv, JournalInv
<1>0. w \in WorkRec /\ pc \in Places
  BY DEF IInv, TypeOK
<1>1. CASE Begin
  <2>1. CASE descriptor = "none"
    BY <1>1, <2>1, PlacesAre DEF Begin, Goto, Kept
  <2>2. CASE descriptor # "none"
    <3>1. descriptor = "whole" /\ UNCHANGED journal
      BY <1>1, <2>2 DEF Begin, journal, IInv, TypeOK
    <3>2. pc' = "observing" /\ before' = JournalView("whole", attempts, cache)
      BY <1>1, <2>2, <3>1 DEF Begin, Goto, Now
    <3>. QED
      BY <3>1, <3>2, PlacesAre DEF Kept, journal
  <2>. QED
    BY <2>1, <2>2
<1>2. CASE Describe
  BY <1>2, PlacesAre DEF Describe, Goto, Kept
<1>3. ASSUME NEW a \in Attempts, Observe(a) PROVE Kept'
  <2>1. [w EXCEPT !.attempt = a] \in WorkRec
    BY <1>0, WorkFields
  <2>2. w'.attempt = a /\ pc' = "creating" /\ pc = "observing" /\ UNCHANGED <<descriptor, cache, before>>
    BY <1>0, <1>3, <2>1 DEF Observe, Publish, Goto, WorkRec, history
  <2>3. Others' = attempts
    <3>1. attempts \in [Attempts -> Attempt \cup {Absent}] /\ attempts[a] = Absent
      BY <1>3 DEF Observe, IInv, TypeOK
    <3>2. Others' = [attempts' EXCEPT ![a] = Absent]
      BY <2>2 DEF Others
    <3>3. [attempts' EXCEPT ![a] = Absent] = attempts
      BY <1>3, <3>1 DEF Observe
    <3>. QED
      BY <3>2, <3>3
  <2>. QED
    BY <2>2, <2>3 DEF Kept
<1>4. CASE Create \/ Fill
  BY <1>4, KeptWriting
<1>5. CASE Cache
  <2>1. Succeeded'
    BY <1>5 DEF Cache, Phase, Succeeded, Mine, Last
  <2>. QED
    BY <1>5, <2>1, PlacesAre DEF Cache, Goto, Kept
<1>6. CASE Ensure \/ EnsureCaptured
  <2>1. pc \in Started /\ pc' # "observing" /\ UNCHANGED <<journal, before>>
    BY <1>6, PlacesAre DEF Ensure, EnsureCaptured, Selected, Publish, Goto, history
  <2>2. w'.attempt = w.attempt
    BY <1>0, <1>6 DEF Ensure, EnsureCaptured, Selected, Publish, WorkRec
  <2>. QED
    BY <2>1, <2>2, KeptStays
<1>7. CASE Compare \/ Verify
  <2>1. pc \in Started /\ pc' # "observing" /\ UNCHANGED <<journal, before>>
    BY <1>7, PlacesAre DEF Compare, Verify, Verified, Publish, Goto, history
  <2>2. w'.attempt = w.attempt
    BY <1>0, <1>7 DEF Compare, Verify, Verified, Publish, WorkRec
  <2>. QED
    BY <2>1, <2>2, KeptStays
<1>8. CASE Error
  BY <1>8, KeptStays, PlacesAre DEF Error, Guarded, Goto, history
<1>9. CASE Finish \/ Fail
  <2>1. pc \in Started /\ pc' # "observing" /\ UNCHANGED <<journal, before>>
    BY <1>9, PlacesAre DEF Finish, Fail, Publish, Goto, history
  <2>2. w'.attempt = w.attempt
    BY <1>0, <1>9 DEF Finish, Fail, Publish, WorkRec
  <2>. QED
    BY <2>1, <2>2, KeptStays
<1>10. CASE Return \/ Crash
  BY <1>10, PlacesAre DEF Return, Crash, End, Goto, Kept
<1>11. CASE StoreStep
  <2>1. pc \in Started /\ pc' # "observing" /\ UNCHANGED <<journal, before>>
    BY <1>11, StoreQuiet, PlacesAre DEF Publishing
  <2>2. w'.attempt = w.attempt
    BY <1>0, <1>11, StoreSteps
  <2>. QED
    BY <2>1, <2>2, KeptStays
<1>12. CASE TransferEnd
  <2>1. pc \in Started /\ pc' # "observing" /\ UNCHANGED <<journal, before>>
    BY <1>12, PlacesAre DEF TransferEnd, Publish, Goto, history
  <2>2. w'.attempt = w.attempt
    BY <1>0, <1>12 DEF TransferEnd, Publish, WorkRec
  <2>. QED
    BY <2>1, <2>2, KeptStays
<1>13. CASE Status
  BY <1>13, KeptStays DEF Status, StatusBegin, StatusRead, StatusReport, Glance, history
<1>14. CASE \/ \E x \in Commits, v \in Contents : Commit(x, v)
            \/ \E S \in SUBSET DOMAIN source : PutBack(S)
            \/ \E t \in Store : LoseRegistration(t) \/ Unmount(t) \/ Mount(t) \/ \E c \in CopyIds : Lose(t, c)
  BY <1>14, KeptStays DEF Commit, PutBack, LoseRegistration, Unmount, Mount, Lose, Outside
<1>15. CASE LoseCache \/ \E a \in Attempts : LoseAttempt(a)
  BY <1>15, PlacesAre DEF LoseCache, LoseAttempt, Kept
<1>16. CASE UNCHANGED vars
  BY <1>16, KeptStays DEF vars, history
<1>. QED
  BY <1>1, <1>2, <1>3, <1>4, <1>5, <1>6, <1>7, <1>8, <1>9, <1>10, <1>11, <1>12, <1>13, <1>14, <1>15,
     <1>16 DEF Next, Work, Environment, StoreStep

----------------------------------------------------------------------------
(* The reader.                                                             *)

\* What one finds in the journal that another has put together.
LEMMA ViewIs ==
    ASSUME NEW desc, NEW att, NEW ca, desc = "whole"
    PROVE  LET view == JournalView(desc, att, ca)
               last == Latest(att, Successes(att))
               invalid == IF last = Absent THEN ca # Absent ELSE ~CacheMatches(att, ca, last)
           IN /\ view.unknown = (invalid \/ Read(att) # Listed(att))
              /\ view.success = IF invalid THEN Absent ELSE last
              /\ view.failure = Latest(att, Failures(att))
BY DEF JournalView

\* What counts as a success has finished, and the log says so.
LEMMA ReadAttempt ==
    ASSUME Inv, NEW att, att \in [Attempts -> Attempt \cup {Absent}],
           \A b \in Listed(att) : FilesInLine(att[b].files) /\ SaidInLog(order, b, att[b].files),
           NEW a \in Read(att), LastFile(att, a).stage = "finished"
    PROVE  \E i \in DOMAIN order : /\ order[i].attempt = a
                                   /\ order[i].time = LastFile(att, a).time
                                   /\ order[i].failed = LastFile(att, a).failed
<1>. DEFINE q == att[a].files
<1>1. a \in Listed(att) /\ q \in Seq(File) /\ q # <<>>
  BY DEF Read, Legible, Listed, Files, Attempt
<1>2. Len(q) \in DOMAIN q /\ LastFile(att, a) = q[Len(q)]
  BY <1>1 DEF LastFile, Files
<1>3. Finished(q[Len(q)])
  BY <1>2 DEF Read, Legible, Files, Finished
<1>. QED
  BY <1>1, <1>2, <1>3 DEF SaidInLog

\* max() over them finds one that is not older than any other.
LEMMA LatestIs ==
    ASSUME Inv, NEW att, att \in [Attempts -> Attempt \cup {Absent}],
           \A b \in Listed(att) : FilesInLine(att[b].files) /\ SaidInLog(order, b, att[b].files),
           NEW S \in SUBSET Read(att), S # {},
           \A a \in S : LastFile(att, a).stage = "finished"
    PROVE  /\ Latest(att, S) \in S
           /\ \A b \in S : LastFile(att, b).time <= LastFile(att, Latest(att, S)).time
           /\ \A a \in S : (\A b \in S \ {a} : LastFile(att, b).time < LastFile(att, a).time)
                              => Latest(att, S) = a
<1>. DEFINE time == [a \in S |-> LastFile(att, a).time]
<1>1. S \in SUBSET Attempts
  BY DEF Read, Listed
<1>2. \A a \in S : LastFile(att, a).time \in Int
  <2>. SUFFICES ASSUME NEW a \in S PROVE LastFile(att, a).time \in Int
    OBVIOUS
  <2>1. PICK i \in DOMAIN order : order[i].time = LastFile(att, a).time
    BY ReadAttempt
  <2>. QED
    BY <2>1, EntryTyped, AttemptsAssumption
<1>3. time \in [S -> Int]
  BY <1>2
<1>4. Latest(att, S) = First(time)
  BY DEF Latest
<1>5. First(time) \in S /\ \A b \in S \ {First(time)} : Precedes(time, First(time), b)
  BY <1>1, <1>3, FirstPrecedes
<1>6. \A b \in S : LastFile(att, b).time <= LastFile(att, First(time)).time
  <2>. DEFINE s == First(time)
  <2>. SUFFICES ASSUME NEW b \in S PROVE time[b] <= time[s]
    BY <1>5
  <2>1. time[b] \in Int /\ time[s] \in Int
    BY <1>3, <1>5
  <2>2. b # s => Precedes(time, s, b)
    BY <1>5
  <2>. HIDE DEF s, time
  <2>. QED
    BY <2>1, <2>2 DEF Precedes
<1>7. ASSUME NEW a \in S, \A b \in S \ {a} : LastFile(att, b).time < LastFile(att, a).time
      PROVE  First(time) = a
  <2>1. \A b \in S \ {a} : Precedes(time, a, b)
    BY <1>2, <1>7 DEF Precedes
  <2>. HIDE DEF time
  <2>. QED
    BY <1>1, <1>3, <2>1, FirstIs
<1>. HIDE DEF time
<1>. QED
  BY <1>4, <1>5, <1>6, <1>7

\* The reader starts.
LEMMA ReaderBegins == ASSUME Inv, StatusBegin PROVE ReaderTrue'
<1>. USE DEF Inv, JournalInv
<1>. DEFINE none == [b \in Attempts |-> Absent]
<1>1. /\ reader' = [todo |-> Listed(attempts), seen |-> none, reading |-> TRUE,
                    floor |-> OnRecord, said |-> Absent]
      /\ order' = order
  BY DEF StatusBegin, Glance, history
<1>2. /\ Listed(attempts) \in SUBSET Attempts
      /\ none \in [Attempts -> Attempt \cup {Absent}] /\ Listed(none) = {}
      /\ OnRecord \in SUBSET DOMAIN order /\ OnRecord \in SUBSET Nat
  BY DEF Listed, OnRecord, LogTrue
<1>3. \A j \in OnRecord : order[j].attempt \in Attempts
  BY EntryTyped DEF OnRecord
<1>. HIDE DEF none
<1>4. reader' \in Reader
  BY <1>1, <1>2 DEF Reader
<1>5. \A j \in reader'.floor : Accounted(j)'
  BY <1>1, <1>3 DEF OnRecord, Accounted, Listed
<1>6. ReportIsFresh'
  BY <1>1 DEF ReportIsFresh
<1>7. reader'.seen = none /\ reader'.floor = OnRecord /\ reader'.said = Absent
  BY <1>1
<1>. QED
  BY <1>1, <1>2, <1>4, <1>5, <1>6, <1>7 DEF ReaderTrue

\* There is a next directory, by name.
LEMMA NextDirectory ==
    ASSUME NEW S \in SUBSET Attempts, S # {}
    PROVE  (CHOOSE x \in S : \A y \in S : x <= y) \in S
<1>. DEFINE R == {p \in S \X S : p[1] < p[2]}
<1>1. PICK x \in S : \A y \in S : <<y, x>> \notin R
  <2>1. IsFiniteSet(S)
    BY AttemptsAssumption, FS_Subset
  <2>2. S \subseteq Int
    BY AttemptsAssumption
  <2>3. \A y \in S : <<y, y>> \notin R
    BY <2>2
  <2>4. \A y, z, v \in S : <<y, z>> \in R /\ <<z, v>> \in R => <<y, v>> \in R
    BY <2>2
  <2>. HIDE DEF R
  <2>. QED
    BY <2>1, <2>3, <2>4, FiniteFirst
<1>2. \A y \in S : x <= y
  <2>1. \A y \in S : ~(y < x)
    BY <1>1
  <2>2. S \subseteq Int
    BY AttemptsAssumption
  <2>. QED
    BY <2>1, <2>2
<1>. QED
  BY <1>2

LEMMA ReaderReads == ASSUME Inv, StatusRead PROVE ReaderTrue'
<1>. USE DEF Inv, JournalInv
<1>. DEFINE a == CHOOSE x \in reader.todo : \A y \in reader.todo : x <= y
            got == IF attempts[a] = Absent THEN Gone ELSE attempts[a]
<1>0. reader \in Reader /\ UNCHANGED <<order, attempts>>
  BY DEF ReaderTrue, StatusRead, Glance, history, journal
<1>1. a \in reader.todo /\ a \in Attempts
  <2>1. reader.todo \in SUBSET Attempts /\ reader.todo # {}
    BY <1>0 DEF StatusRead, Reader
  <2>. QED
    BY <2>1, NextDirectory
<1>2. reader' = [reader EXCEPT !.todo = @ \ {a}, !.seen[a] = got]
  BY DEF StatusRead
<1>3. /\ got \in Attempt
      /\ got.files = <<>> \/ (a \in Listed(attempts) /\ got = attempts[a])
  <2>1. Gone \in Attempt /\ Gone.files = <<>>
    BY NothingCommitted DEF Gone, Attempt
  <2>. QED
    BY <1>1, <2>1 DEF IInv, TypeOK, Listed
<1>. HIDE DEF a, got
<1>4. /\ reader'.todo = reader.todo \ {a}
      /\ reader'.seen = [reader.seen EXCEPT ![a] = got]
      /\ reader'.reading = reader.reading /\ reader'.floor = reader.floor
      /\ reader'.said = reader.said /\ reader' \in Reader
  BY <1>0, <1>2, <1>3 DEF Reader
<1>5. got # Absent
  BY <1>3, AbsentAssumption
<1>6. /\ reader'.seen[a] = got
      /\ \A b \in Attempts : b # a => reader'.seen[b] = reader.seen[b]
  BY <1>0, <1>1, <1>4 DEF Reader
<1>7. ASSUME reader.reading, NEW j \in reader.floor PROVE Accounted(j)'
  <2>1. Accounted(j) /\ j \in DOMAIN order
    BY <1>7 DEF ReaderTrue
  <2>2. order[j].attempt \in Attempts
    BY <2>1, EntryTyped
  <2>3. CASE order[j].attempt = a
    <3>1. got.files # <<>> => SaidInFile(order[j], got.files)
      BY <1>3, <2>1, <2>3 DEF LogTrue, LogInFiles
    <3>. QED
      BY <1>0, <1>5, <1>6, <2>1, <2>3, <3>1 DEF Accounted
  <2>4. CASE order[j].attempt # a
    BY <1>0, <1>4, <1>6, <2>1, <2>2, <2>4 DEF Accounted
  <2>. QED
    BY <2>3, <2>4
<1>8. ASSUME NEW b \in Listed(reader'.seen)
      PROVE  FilesInLine(reader'.seen[b].files) /\ SaidInLog(order', b, reader'.seen[b].files)
  <2>1. CASE b = a
    <3>1. FilesInLine(got.files) /\ SaidInLog(order, a, got.files)
      BY <1>3 DEF LogTrue, FilesInLog, FilesInLine, SaidInLog
    <3>. QED
      BY <1>0, <1>6, <2>1, <3>1 DEF SaidInLog
  <2>2. CASE b # a
    <3>1. b \in Listed(reader.seen) /\ reader'.seen[b] = reader.seen[b]
      BY <1>6, <2>2 DEF Listed
    <3>2. FilesInLine(reader.seen[b].files) /\ SaidInLog(order, b, reader.seen[b].files)
      BY <3>1 DEF ReaderTrue
    <3>. QED
      BY <1>0, <3>1, <3>2 DEF SaidInLog
  <2>. QED
    BY <2>1, <2>2
<1>9. ReportIsFresh'
  BY <1>0, <1>4 DEF ReportIsFresh, ReaderTrue
<1>. QED
  BY <1>0, <1>4, <1>7, <1>8, <1>9 DEF ReaderTrue

\* What it reports at the end is fresh.
LEMMA ReaderReports == ASSUME Inv, StatusReport PROVE ReaderTrue'
<1>. USE DEF Inv, JournalInv
<1>. DEFINE none == [b \in Attempts |-> Absent]
            seen == reader.seen
            said == LastVerified(JournalView(descriptor, seen, cache))
            s == Latest(seen, Successes(seen))
<1>0. reader \in Reader /\ UNCHANGED <<order, attempts>> /\ reader.reading /\ reader.todo = {}
  BY DEF ReaderTrue, StatusReport, Glance, history, journal
<1>1. /\ reader' = [reader EXCEPT !.reading = FALSE, !.seen = none, !.said = said]
  BY DEF StatusReport
<1>2. /\ seen \in [Attempts -> Attempt \cup {Absent}]
      /\ \A b \in Listed(seen) : FilesInLine(seen[b].files) /\ SaidInLog(order, b, seen[b].files)
  BY <1>0 DEF ReaderTrue, Reader
<1>3. /\ Successes(seen) \in SUBSET Read(seen)
      /\ \A b \in Successes(seen) :
            LastFile(seen, b).stage = "finished" /\ ~LastFile(seen, b).failed
  BY DEF Successes
<1>. HIDE DEF seen
<1>4. ASSUME said # Absent
      PROVE  /\ said = s /\ s \in Successes(seen) /\ Read(seen) = Listed(seen)
             /\ cache # Absent /\ cache.attempt = s
             /\ \A b \in Successes(seen) : LastFile(seen, b).time <= LastFile(seen, s).time
  <2>1. descriptor = "whole"
    BY <1>4 DEF LastVerified, JournalView
  <2>. DEFINE invalid == IF s = Absent THEN cache # Absent ELSE ~CacheMatches(seen, cache, s)
  <2>2. LET view == JournalView(descriptor, seen, cache)
        IN /\ view.unknown = (invalid \/ Read(seen) # Listed(seen))
           /\ view.success = IF invalid THEN Absent ELSE s
    BY <2>1, ViewIs
  <2>. HIDE DEF invalid
  <2>3. said = s /\ Read(seen) = Listed(seen) /\ ~invalid
    BY <1>4, <2>2 DEF LastVerified
  <2>. USE DEF invalid
  <2>4. CacheMatches(seen, cache, s) /\ s # Absent
    BY <1>4, <2>3
  <2>5. cache = [attempt |-> s, time |-> LastFile(seen, s).time]
    BY <2>4 DEF CacheMatches
  <2>6. Successes(seen) # {}
    BY <2>4 DEF Latest
  <2>7. /\ s \in Successes(seen)
        /\ \A b \in Successes(seen) : LastFile(seen, b).time <= LastFile(seen, s).time
    BY <1>2, <1>3, <2>6, LatestIs
  <2>8. cache # Absent
    <3>1. PICK i \in DOMAIN order : order[i].attempt = s /\ order[i].time = LastFile(seen, s).time
      BY <1>2, <1>3, <2>7, ReadAttempt
    <3>2. cache \in Cached
      BY <2>5, <3>1, EntryTyped DEF Cached
    <3>. QED
      BY <3>2, AbsentAssumption
  <2>. QED
    BY <2>3, <2>5, <2>7, <2>8
<1>5. said \in Attempts \cup {Absent}
  BY <1>3, <1>4 DEF Read, Listed
<1>6. none \in [Attempts -> Attempt \cup {Absent}] /\ Listed(none) = {}
  BY DEF Listed
<1>. HIDE DEF said, none
<1>7. /\ reader'.todo = {} /\ ~reader'.reading /\ reader'.floor = reader.floor
      /\ reader'.said = said /\ reader'.seen = none /\ reader' \in Reader
  BY <1>0, <1>1, <1>5, <1>6 DEF Reader
<1>8. ASSUME SteadyClock, said # Absent
      PROVE  \E i \in DOMAIN order : /\ order[i].attempt = said /\ ~order[i].failed
                                     /\ \A j \in reader.floor : j <= i
  <2>1. PICK i \in DOMAIN order : /\ order[i].attempt = s
                                  /\ order[i].time = LastFile(seen, s).time
                                  /\ order[i].failed = LastFile(seen, s).failed
    BY <1>2, <1>3, <1>4, <1>8, ReadAttempt
  <2>. SUFFICES ASSUME NEW j \in reader.floor, ~(j <= i) PROVE FALSE
    BY <1>3, <1>4, <1>8, <2>1
  <2>2. j \in DOMAIN order /\ DOMAIN order \subseteq Int /\ i < j
    BY DEF ReaderTrue, LogTrue
  <2>3. order[j].attempt # s /\ order[i].time < order[j].time
    BY <1>8, <2>1, <2>2 DEF LogTrue, LogOrdered
  <2>. DEFINE b == order[j].attempt
  <2>4. b \in Attempts /\ order[j].time \in Int /\ order[i].time \in Int
    BY <2>2, EntryTyped, AttemptsAssumption
  <2>5. ~order[j].cached
    <3>1. PICK k \in DOMAIN order : /\ order[k].attempt = s
                                    /\ \A m \in DOMAIN order : k < m => ~order[m].cached
      BY <1>4, <1>8 DEF CacheTrue
    <3>2. k = i
      BY <2>1, <2>2, <3>1 DEF LogTrue, LogOrdered
    <3>. QED
      BY <2>2, <3>1, <3>2
  <2>6. /\ ~order[j].failed /\ seen[b] # Absent
        /\ seen[b].files # <<>> => SaidInFile(order[j], seen[b].files)
    BY <1>0, <2>5 DEF ReaderTrue, Accounted, seen
  <2>7. b \in Listed(seen) /\ b \in Read(seen)
    BY <1>4, <1>8, <2>4, <2>6 DEF Listed
  <2>8. LastFile(seen, b).time = order[j].time /\ b \in Successes(seen)
    BY <2>6, <2>7 DEF Successes, Read, Legible, LastFile, Files, SaidInFile, Finished
  <2>9. LastFile(seen, b).time <= LastFile(seen, s).time
    BY <1>4, <1>8, <2>8
  <2>. QED
    BY <2>1, <2>3, <2>4, <2>8, <2>9
<1>9. ReportIsFresh'
  BY <1>0, <1>7, <1>8 DEF ReportIsFresh
<1>10. UNCHANGED order /\ \A b \in Listed(reader'.seen) : FALSE
  BY <1>0, <1>6, <1>7
<1>. QED
  BY <1>7, <1>9, <1>10 DEF ReaderTrue

\* Whatever else is written meanwhile, it stays true of the reader.
LEMMA ReaderWaits == ASSUME Inv, [Next]_vars, UNCHANGED reader PROVE ReaderTrue'
<1>. USE DEF Inv, JournalInv
<1>1. Grown
  BY LogGrows
<1>2. reader'.floor \subseteq DOMAIN order'
  BY <1>1 DEF Grown, ReaderTrue
<1>3. ASSUME reader.reading, NEW j \in reader.floor PROVE Accounted(j)'
  <2>1. Accounted(j) /\ j \in DOMAIN order
    BY <1>3 DEF ReaderTrue
  <2>2. /\ order'[j].attempt = order[j].attempt /\ order'[j].time = order[j].time
        /\ order'[j].failed = order[j].failed /\ (order[j].cached => order'[j].cached)
    BY <1>1, <2>1 DEF Grown
  <2>. QED
    BY <2>1, <2>2 DEF Accounted, SaidInFile
<1>4. ASSUME NEW b \in Listed(reader.seen)
      PROVE  FilesInLine(reader.seen[b].files) /\ SaidInLog(order', b, reader.seen[b].files)
  <2>1. FilesInLine(reader.seen[b].files) /\ SaidInLog(order, b, reader.seen[b].files)
    BY DEF ReaderTrue
  <2>. QED
    BY <1>1, <2>1 DEF Grown, SaidInLog
<1>5. ReportIsFresh'
  BY <1>1 DEF Grown, ReaderTrue, ReportIsFresh
<1>. QED
  BY <1>2, <1>3, <1>4, <1>5 DEF ReaderTrue, Listed, FilesInLine

LEMMA NextReaderTrue == ASSUME Inv, [Next]_vars PROVE ReaderTrue'
<1>1. CASE Status
  BY <1>1, ReaderBegins, ReaderReads, ReaderReports DEF Status
<1>2. CASE UNCHANGED vars
  BY <1>2, ReaderWaits DEF vars
<1>3. CASE Environment
  <2>1. UNCHANGED reader
    BY <1>3 DEF Environment, Commit, PutBack, LoseRegistration, Unmount, Mount, Lose, Outside, LoseCache, LoseAttempt,
       Error, Crash, NoFault
  <2>. QED
    BY <2>1, ReaderWaits
<1>4. CASE Work
  <2>1. UNCHANGED reader
    BY <1>4, StoreQuiet DEF Work, StoreStep, Begin, Describe, Ensure, EnsureCaptured, Compare, TransferEnd,
       Verify, Finish, Create, Fill, Cache, Return, Fail, Observe, NoFault
  <2>. QED
    BY <2>1, ReaderWaits
<1>. QED
  BY <1>1, <1>2, <1>3, <1>4 DEF Next

LEMMA InitJournalInv == Init => JournalInv
<1>. SUFFICES ASSUME Init PROVE JournalInv
  OBVIOUS
<1>. DEFINE none == [b \in Attempts |-> Absent]
<1>1. /\ attempts = none /\ order = <<>> /\ cache = Absent /\ pc = "idle" /\ w = NoWork
      /\ reader = [todo |-> {}, seen |-> none, reading |-> FALSE, floor |-> {}, said |-> Absent]
  BY DEF Init
<1>2. none \in [Attempts -> Attempt \cup {Absent}] /\ Listed(none) = {}
  BY DEF Listed
<1>. HIDE DEF none
<1>3. LogTrue
  BY <1>1, <1>2 DEF LogTrue, LogOrdered, LogInFiles, FilesInLog
<1>4. CacheTrue
  BY <1>1 DEF CacheTrue
<1>5. Phase /\ Kept
  BY <1>1, PlacesAre DEF Phase, Kept, NoWork, Open, Publishing, Earlier
<1>6. ReaderTrue
  <2>1. reader \in Reader
    BY <1>1, <1>2 DEF Reader
  <2>2. Listed(reader.seen) = {} /\ reader.said = Absent
    BY <1>1, <1>2
  <2>. QED
    BY <1>1, <2>1, <2>2 DEF ReaderTrue, ReportIsFresh
<1>. QED
  BY <1>3, <1>4, <1>5, <1>6 DEF JournalInv

LEMMA NextInv == Inv /\ [Next]_vars => Inv'
<1>. SUFFICES ASSUME Inv, [Next]_vars PROVE Inv'
  OBVIOUS
<1>1. IInv'
  BY NextTyped, NextHeld, NextWorker, NextPlaced, NextFiles DEF Inv, IInv
<1>2. JournalInv'
  BY NextLogTrue, NextCacheTrue, NextPhase, NextKept, NextReaderTrue DEF JournalInv
<1>. QED
  BY <1>1, <1>2 DEF Inv

\* The failed attempt takes nothing from what there was without it.
LEMMA FailureKeeps ==
    ASSUME Inv, pc = "failed", Legible(attempts, w.attempt), LastFile(attempts, w.attempt).failed,
           ~before.unknown
    PROVE  /\ ~Now.unknown
           /\ Now.success = before.success
           /\ SteadyClock => Now.failure = w.attempt
<1>. USE DEF Inv, JournalInv
<1>. DEFINE a == w.attempt
            S == Successes(attempts)
            F == Failures(attempts)
            s == Latest(attempts, S)
<1>1. /\ a \in Attempts /\ a \in Listed(attempts) /\ Mine \in Seq(File)
      /\ attempts \in [Attempts -> Attempt \cup {Absent}]
  BY MineTyped, PlacesAre DEF IInv, TypeOK
<1>2. \A b \in Listed(attempts) :
         FilesInLine(attempts[b].files) /\ SaidInLog(order, b, attempts[b].files)
  BY DEF LogTrue, FilesInLog
<1>3. ASSUME NEW b \in Read(attempts), LastFile(attempts, b).failed
      PROVE  LastFile(attempts, b).stage = "finished"
  <2>1. b \in Listed(attempts) /\ attempts[b].files \in Seq(File) /\ attempts[b].files # <<>>
    BY <1>1, <1>3 DEF Read, Legible, Listed, Files, Attempt
  <2>. QED
    BY <1>2, <1>3, <2>1 DEF FilesInLine, Finished, LastFile, Files
<1>4. a \in Read(attempts)
  BY <1>1 DEF Read
<1>5. descriptor = "whole" /\ before = JournalView("whole", Others, cache)
  <2>1. ~Succeeded
    BY DEF Succeeded, Last, Mine, LastFile, Files
  <2>. QED
    BY <2>1, PlacesAre DEF Kept
<1>6. /\ \A b \in Attempts : b # a => Others[b] = attempts[b]
      /\ Others[a] = Absent
  BY <1>1 DEF Others
<1>7. /\ Listed(Others) = Listed(attempts) \ {a}
      /\ Read(Others) = Read(attempts) \ {a}
      /\ \A b \in Read(Others) : LastFile(Others, b) = LastFile(attempts, b)
  <2>1. Listed(Others) = Listed(attempts) \ {a}
    BY <1>6 DEF Listed
  <2>2. \A b \in Listed(Others) : /\ b # a
                                  /\ Legible(Others, b) = Legible(attempts, b)
                                  /\ LastFile(Others, b) = LastFile(attempts, b)
    <3>. SUFFICES ASSUME NEW b \in Listed(Others)
                  PROVE  /\ b # a
                         /\ Legible(Others, b) = Legible(attempts, b)
                         /\ LastFile(Others, b) = LastFile(attempts, b)
      OBVIOUS
    <3>1. b # a /\ Files(Others, b) = Files(attempts, b)
      BY <1>6, <2>1 DEF Files, Listed
    <3>2. LastFile(Others, b) = LastFile(attempts, b) /\ StagesOf(Others, b) = StagesOf(attempts, b)
      BY <3>1 DEF LastFile, StagesOf
    <3>. QED
      BY <3>1, <3>2 DEF Legible, Evidence
  <2>. QED
    BY <2>1, <2>2 DEF Read
<1>8. Successes(Others) = S /\ a \notin S /\ S \in SUBSET Read(attempts)
  BY <1>7 DEF Successes
<1>9. Latest(Others, S) = s
  <2>1. [b \in S |-> LastFile(Others, b).time] = [b \in S |-> LastFile(attempts, b).time]
    BY <1>7, <1>8
  <2>. QED
    BY <2>1 DEF Latest
<1>10. S # {} => s \in S
  <2>1. \A b \in S : LastFile(attempts, b).stage = "finished"
    BY DEF Successes
  <2>. HIDE DEF S
  <2>. QED
    BY <1>1, <1>2, <1>8, <2>1, LatestIs
<1>11. s = Absent \/ CacheMatches(Others, cache, s) = CacheMatches(attempts, cache, s)
  BY <1>7, <1>8, <1>10 DEF CacheMatches, Latest
<1>. DEFINE invalid == IF s = Absent THEN cache # Absent ELSE ~CacheMatches(attempts, cache, s)
<1>12. /\ Now.unknown = (invalid \/ Read(attempts) # Listed(attempts))
       /\ Now.success = IF invalid THEN Absent ELSE s
       /\ Now.failure = Latest(attempts, F)
  BY <1>5, ViewIs DEF Now
<1>13. /\ before.unknown = (invalid \/ Read(Others) # Listed(Others))
       /\ before.success = IF invalid THEN Absent ELSE s
  <2>1. invalid = IF s = Absent THEN cache # Absent ELSE ~CacheMatches(Others, cache, s)
    BY <1>11
  <2>. HIDE DEF s, invalid
  <2>. QED
    BY <1>5, <1>8, <1>9, <2>1, ViewIs
<1>. HIDE DEF s, S, invalid
<1>14. ~Now.unknown /\ Now.success = before.success
  <2>1. ~invalid /\ Read(Others) = Listed(Others)
    BY <1>13
  <2>2. Read(attempts) = Listed(attempts)
    <3>1. \A x : x \in Read(Others) <=> x \in Listed(Others)
      BY <2>1
    <3>2. \A x : x \in Read(attempts) <=> x \in Listed(attempts)
      BY <1>1, <1>4, <1>7, <3>1
    <3>. QED
      BY <3>2
  <2>. QED
    BY <1>12, <1>13, <2>1, <2>2
<1>15. ASSUME SteadyClock PROVE Latest(attempts, F) = a
  <2>1. a \in F /\ F \in SUBSET Read(attempts)
    BY <1>4 DEF Failures
  <2>2. \A b \in F : LastFile(attempts, b).stage = "finished"
    BY <1>3 DEF Failures
  <2>3. ASSUME NEW b \in F \ {a} PROVE LastFile(attempts, b).time < LastFile(attempts, a).time
    <3>. HIDE DEF F
    <3>1. PICK i \in DOMAIN order : order[i].attempt = a /\ order[i].time = LastFile(attempts, a).time
      BY <1>1, <1>2, <2>1, <2>2, ReadAttempt
    <3>2. PICK j \in DOMAIN order : order[j].attempt = b /\ order[j].time = LastFile(attempts, b).time
      BY <1>1, <1>2, <2>1, <2>2, <2>3, ReadAttempt
    <3>3. i = Len(order)
      BY <3>1, PlacesAre DEF Phase
    <3>4. j < i
      BY <2>3, <3>1, <3>2, <3>3 DEF LogTrue
    <3>. QED
      BY <1>15, <3>1, <3>2, <3>4 DEF LogTrue, LogOrdered
  <2>. HIDE DEF F
  <2>. QED
    BY <1>1, <1>2, <2>1, <2>2, <2>3, LatestIs
<1>. QED
  BY <1>12, <1>14, <1>15

----------------------------------------------------------------------------
(* What the journal promises.                                              *)

\* The log of the attempts that finished, the stage files, the cache, the worker and the status
\* command stay in line with each other: the second inductive invariant.
THEOREM DeliveryJournalInvariant == Spec => []Inv
<1>1. Init => Inv
  BY InitIInv, InitJournalInv DEF Inv
<1>. QED
  BY <1>1, NextInv, PTL DEF Spec

\* A status command that reads beside the worker never reports a success that is older than one
\* the journal knew of when it began.
THEOREM DeliveryReportIsFresh == Spec => []ReportIsFresh
<1>1. Inv => ReportIsFresh
  BY DEF Inv, JournalInv, ReaderTrue
<1>. QED
  BY <1>1, DeliveryJournalInvariant, PTL

\* A failed attempt leaves the verified success before it as it was, and is itself the latest
\* failure.
THEOREM DeliveryFailureKeepsSuccess == Spec => []FailureKeepsSuccess
<1>1. Inv => FailureKeepsSuccess
  BY FailureKeeps DEF FailureKeepsSuccess
<1>. QED
  BY <1>1, DeliveryJournalInvariant, PTL

=============================================================================
