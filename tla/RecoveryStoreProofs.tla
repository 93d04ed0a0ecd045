------------------------- MODULE RecoveryStoreProofs -------------------------
(***************************************************************************)
(* A registered baseline never leaves the recovery store, every tombstone  *)
(* is explained, nobody loses the copy he reads, no committed fact and no  *)
(* copy that a window of the policy keeps leaves with a prune, and no      *)
(* store is registered anew over its copies: for any number of copies,     *)
(* intents, graphs, policies, directories and faults.  The planner keeps   *)
(* what its policy says, window by window, and is stable.                  *)
(***************************************************************************)
EXTENDS RecoveryStore, FiniteSetTheorems, WellFoundedInduction, TLAPS

----------------------------------------------------------------------------
(* The inductive invariant.                                                *)

\* Directory identities are handed out in order, so none names two directories.
FreshInode ==
    /\ \A c \in CopyIds : Present(c) => bundles[c].inode < inode
    /\ \A i \in Intents : Whole(i) => intents[i].inode < inode

\* A directory under the name of a tombstone's copy is another directory.
TombIsNotThere ==
    \A i \in Intents :
        tombs[i] # Absent /\ Present(intents[i].copy) => ~SameIdentity(i)

SeenOther(i) == ~SeenAs(intents[i].copy, intents[i].inode)

\* What a prune knows of the intents it has still to resume.
TodoKnown ==
    pc \in Pruning => \A i \in cmd.todo :
        /\ intents[i] # Absent
        /\ tombs[i] # Absent => SeenOther(i)
        /\ (Whole(i) /\ SeenOther(i) /\ intents[i].copy \in Copies) => ~SameIdentity(i)

\* A prune has seen every baseline healthy and dooms none.
PlanSparesBaselines ==
    pc \in Pruning =>
        /\ Copies \subseteq HealthyIn(cmd.view)
        /\ cmd.doomed \subseteq HealthyIn(cmd.view) \ Copies

\* Where the one command is, and what it relies on there.
AtPlace ==
    /\ pc \in {"completing", "renaming", "removing", "forgetting", "writing"} =>
          cmd.work \in Intents \ cmd.todo
    /\ pc \in {"completing", "renaming", "removing"} => Whole(cmd.work)
    /\ pc = "completing" =>
          (intents[cmd.work].copy \in Copies => ~SameIdentity(cmd.work))
    /\ pc = "renaming" =>
          intents[cmd.work].copy \notin Copies /\ tombs[cmd.work] = Absent /\ Present(intents[cmd.work].copy)
    /\ pc = "removing" => tombs[cmd.work] # Absent
    /\ pc = "forgetting" => tombs[cmd.work] = Absent
    /\ pc = "intending" =>
          cmd.target \in HealthyIn(cmd.view) \ Copies /\ Present(cmd.target)
    /\ pc = "writing" =>
          /\ intents[cmd.work] = Torn /\ tombs[cmd.work] = Absent
          /\ cmd.doc \in Intent /\ cmd.doc.copy \notin Copies /\ cmd.doc.inode < inode
    /\ pc = "registering" => cmd.target \in CopyIds /\ Present(cmd.target)
    /\ pc \in {"intending", "writing", "deleting"} => ~cmd.resuming
    /\ pc \in Pruning /\ ~cmd.resuming => cmd.todo = {}
    /\ pc \in Pruning => readers = {}

IInv ==
    /\ TypeOK
    /\ BaselinesStay
    /\ TombstonesExplained
    /\ ReadersKeepTheirCopy
    /\ FreshInode
    /\ TombIsNotThere
    /\ TodoKnown
    /\ PlanSparesBaselines
    /\ AtPlace

----------------------------------------------------------------------------
(* Lemmas about inventory, plan and the idle command.                      *)

\* A plan names copies that verified, and no baseline (_plan_from_inventory).
LEMMA PlanSpares ==
    \A view, pins, policy : DeletePlan(view, pins, policy) \subseteq HealthyIn(view) \ pins
BY DEF DeletePlan, Ours

\* Baselines that validate are all healthy in the inventory (_validate_baselines).
LEMMA ValidSeen ==
    \A view : ValidBaselines(view, registered) => Copies \subseteq HealthyIn(view)
BY DEF ValidBaselines, Copies

\* What the inventory records of a copy that verifies is its directory (_inspect_copy).
LEMMA InspectKnown ==
    ASSUME TypeOK
    PROVE  /\ Inventory \in View
           /\ \A c \in CopyIds : Inspect(c) \notin {Absent, Held} =>
                                    Inspect(c) = bundles[c] /\ Present(c)
           /\ \A c \in HealthyIn(Inventory) : Inventory[c] = bundles[c] /\ Present(c)
<1>1. ASSUME NEW c \in CopyIds
      PROVE  /\ Inspect(c) \in [inode : 1..MaxInode, graph : Graphs, intact : {TRUE}]
                                  \cup {Absent, Held}
             /\ Inspect(c) \notin {Absent, Held} => Inspect(c) = bundles[c] /\ Present(c)
  BY NamesAssumption DEF TypeOK, Inspect, Present, Dir
<1>2. QED BY <1>1 DEF Inventory, View, HealthyIn

Cmd == [first : BOOLEAN, view : View, policy : Policies, agreed : SUBSET CopyIds,
        todo : SUBSET Intents, held : SUBSET CopyIds, doomed : SUBSET CopyIds,
        work : Intents \cup {Absent}, target : CopyIds \cup {Absent},
        doc : Intent \cup {Absent}, resuming : BOOLEAN]

\* A command that ended leaves well-formed local state.
LEMMA NoCmdType == NoCmd \in Cmd
<1>1. Nothing \in View BY DEF Nothing, View
<1>2. (CHOOSE p \in Policies : TRUE) \in Policies BY PoliciesAssumption
<1>3. QED BY <1>1, <1>2 DEF NoCmd, Cmd

LEMMA InitIInv == Init => IInv
<1> SUFFICES ASSUME Init PROVE IInv OBVIOUS
<1>1. TypeOK
  <2>1. cmd \in Cmd BY NoCmdType DEF Init
  <2>2. inode \in 1..MaxInode /\ faults \in 0..MaxFaults BY BoundsAssumption DEF Init
  <2>3. QED BY <2>1, <2>2 DEF Init, TypeOK, Cmd, Nothing, Places
<1>2. BaselinesStay /\ TombstonesExplained /\ ReadersKeepTheirCopy
  BY DEF Init, BaselinesStay, Copies, TombstonesExplained, ReadersKeepTheirCopy
<1>3. FreshInode /\ TombIsNotThere
  BY DEF Init, FreshInode, TombIsNotThere, Present, Whole, Nothing
<1>4. TodoKnown /\ PlanSparesBaselines /\ AtPlace
  BY DEF Init, TodoKnown, PlanSparesBaselines, AtPlace, Pruning
<1>5. QED BY <1>1, <1>2, <1>3, <1>4 DEF IInv

----------------------------------------------------------------------------
(* Types.                                                                  *)

LEMMA NextTypeOK == IInv /\ [Next]_vars => TypeOK'
<1> SUFFICES ASSUME IInv, [Next]_vars PROVE TypeOK' OBVIOUS
<1> USE DEF IInv, TypeOK, Goto
<1>1. CASE UNCHANGED vars
  BY <1>1 DEF vars, store
<1>2. ASSUME NEW r \in BOOLEAN, Admit(r)
      PROVE  cmd' \in Cmd /\ started' \in BOOLEAN
  BY <1>2 DEF Admit, Cmd
<1>3. CASE CaptureBegin
  BY <1>2, <1>3 DEF CaptureBegin, Places, Cmd
<1>4. CASE ReceiveBegin
  BY <1>4 DEF ReceiveBegin, store, Places
<1>5. CASE ReceiveAdmit
  BY <1>2, <1>5 DEF ReceiveAdmit, Places, Cmd
<1>6. ASSUME NEW c \in CopyIds, NEW g \in Graphs, Publish(c, g) PROVE TypeOK'
  BY <1>6, BoundsAssumption DEF Publish, NewDir, Dir, Places
<1>7. CASE Register
  BY <1>7 DEF Register, Places, AtPlace, Present, Dir, Baseline
<1>8. CASE End /\ UNCHANGED <<store, readers, inode, faults>>
  BY <1>8, NoCmdType DEF End, store, Places, Cmd
<1>9. ASSUME NEW c \in CopyIds, Protect(c) PROVE TypeOK'
  <2>1. Present(c) BY <1>9, InspectKnown DEF Protect
  <2>2. QED BY <1>9, <2>1 DEF Protect, Present, Dir, Baseline
<1>10. ASSUME NEW c \in CopyIds, RestoreBegin(c) \/ RestoreEnd(c) PROVE TypeOK'
  BY <1>10 DEF RestoreBegin, RestoreEnd, store
<1>11. ASSUME NEW p \in Policies, NEW f \in BOOLEAN, PruneBegin(p, f) PROVE TypeOK'
  <2> DEFINE plan == DeletePlan(Inventory, Copies, p)
  <2>1. plan \in SUBSET CopyIds BY PlanSpares DEF HealthyIn
  <2>2. (IF f THEN plan ELSE CopyIds) \in SUBSET CopyIds BY <2>1
  <2>3. cmd' \in Cmd
    <3> HIDE DEF plan
    <3>1. cmd' = [NoCmd EXCEPT !.view = Inventory, !.policy = p, !.doomed = plan,
                               !.agreed = IF f THEN plan ELSE CopyIds,
                               !.todo = {i \in Intents : intents[i] # Absent},
                               !.resuming = TRUE]
      BY <1>11 DEF PruneBegin, plan
    <3>2. QED BY <3>1, <2>1, <2>2, NoCmdType, InspectKnown DEF Cmd
  <2>4. QED BY <1>11, <2>3 DEF PruneBegin, store, Places, Pruning, Cmd
<1>12. ASSUME NEW i \in Intents, Resume(i) PROVE TypeOK'
  <2>1. HeldBack(i) \subseteq CopyIds BY <1>12 DEF Resume, HeldBack, TodoKnown, Pruning, Intent
  <2>2. QED BY <1>12, <2>1 DEF Resume, store, Places, Pruning
<1>13. CASE Replan
  <2>1. DeletePlan(Inventory, Copies, cmd.policy) \ cmd.held \in SUBSET CopyIds
    BY PlanSpares DEF HealthyIn
  <2>2. QED BY <1>13, <2>1, InspectKnown DEF Replan, store, Places, Pruning
<1>14. ASSUME NEW c \in CopyIds, Doom(c) PROVE TypeOK'
  <2>1. cmd' = NoCmd \/ cmd' = [cmd EXCEPT !.doomed = @ \ {c}, !.target = c]
    BY <1>14 DEF Doom, End
  <2>2. cmd' \in Cmd
    <3>1. cmd \in Cmd BY DEF Cmd
    <3> HIDE DEF IInv, TypeOK, Goto
    <3>2. cmd.doomed \ {c} \in SUBSET CopyIds BY <3>1 DEF Cmd
    <3>3. [cmd EXCEPT !.doomed = @ \ {c}, !.target = c] \in Cmd BY <3>1, <3>2 DEF Cmd
    <3>4. QED BY <2>1, <3>3, NoCmdType
  <2>3. pc' \in Places BY <1>14 DEF Doom, End, Places, Pruning
  <2>4. QED BY <1>14, <2>2, <2>3 DEF Doom, store, Cmd
<1>15. ASSUME NEW i \in Intents, IntentCreate(i) PROVE TypeOK'
  <2>1. [copy |-> cmd.target, inode |-> bundles[cmd.target].inode,
         graph |-> cmd.view[cmd.target].graph] \in Intent
    BY <1>15 DEF IntentCreate, AtPlace, Present, Dir, HealthyIn, View, Intent
  <2>2. QED BY <1>15, <2>1 DEF IntentCreate, Places, Pruning
<1>16. CASE IntentWrite
  BY <1>16 DEF IntentWrite, AtPlace, Places, Pruning
<1>17. CASE Complete
  BY <1>17, NoCmdType DEF Complete, End, store, Places, Pruning, Cmd
<1>18. CASE Rename
  BY <1>18 DEF Rename, AtPlace, Places, Pruning, Intent, Present, Whole
<1>19. CASE RemoveTree
  BY <1>19, NoCmdType DEF RemoveTree, End, AtPlace, Places, Pruning, Cmd
<1>20. CASE Forget
  BY <1>20 DEF Forget, AtPlace, Places, Pruning
<1>21. CASE Crash
  <2>1. debris' \subseteq {"graph", "recv"} BY <1>21 DEF Crash
  <2>2. QED BY <1>21, <2>1, NoCmdType, BoundsAssumption DEF Crash, Fault, End, Places, Cmd
<1>22. ASSUME NEW c \in CopyIds, Damage(c) PROVE TypeOK'
  <2>1. [bundles[c] EXCEPT !.intact = FALSE] \in Dir BY <1>22 DEF Damage, Present, Dir
  <2>2. bundles' \in [CopyIds -> Dir \cup {Absent}] BY <1>22, <2>1 DEF Damage
  <2>3. faults' \in 0..MaxFaults BY <1>22, BoundsAssumption DEF Damage, Fault
  <2>4. QED BY <1>22, <2>2, <2>3 DEF Damage
<1>23. ASSUME NEW c \in CopyIds, Recreate(c) PROVE TypeOK'
  BY <1>23, BoundsAssumption DEF Recreate, Fault, NewDir, Dir
<1>24. CASE LoseRegistration
  BY <1>24, BoundsAssumption DEF LoseRegistration, Fault
<1>25. QED
  BY <1>1, <1>3, <1>4, <1>5, <1>6, <1>7, <1>8, <1>9, <1>10, <1>11, <1>12, <1>13, <1>14,
     <1>15, <1>16, <1>17, <1>18, <1>19, <1>20, <1>21, <1>22, <1>23, <1>24, ConfirmsAssumption
     DEF Next, Capture, Prune, Return, Fail, PruneEnd, ReplanRefused, ResumeTorn, Raise

----------------------------------------------------------------------------
(* Safety.                                                                 *)

\* Only the rename of a prune takes a directory away.
LEMMA OnlyRenameTakes ==
    ASSUME IInv, [Next]_vars, NEW c \in CopyIds, Present(c), ~Present(c)'
    PROVE  Rename /\ c = intents[cmd.work].copy
<1> USE DEF IInv, TypeOK, Present
<1>1. ASSUME NEW d \in CopyIds, NEW g \in Graphs, Publish(d, g) PROVE FALSE
  BY <1>1, NamesAssumption, NextTypeOK DEF Publish
<1>2. ASSUME NEW d \in CopyIds, Damage(d) PROVE FALSE
  BY <1>2, NamesAssumption DEF Damage, Dir
<1>3. ASSUME NEW d \in CopyIds, Recreate(d) PROVE FALSE
  <2>1. inode \in 1..MaxInode OBVIOUS
  <2>2. \A g \in Graphs : NewDir(g) \in Dir BY <2>1 DEF NewDir, Dir
  <2>3. QED BY <1>3, <2>2, NamesAssumption DEF Recreate
<1>4. CASE Rename
  BY <1>4 DEF Rename
<1>5. QED
  BY <1>1, <1>2, <1>3, <1>4
     DEF Next, vars, store, Capture, Prune, CaptureBegin, ReceiveBegin, ReceiveAdmit, Register,
         Return, Fail, Protect, RestoreBegin, RestoreEnd, PruneBegin, Resume, ResumeTorn, Raise,
         IntentCreate, Doom, Replan, ReplanRefused, IntentWrite, Complete, RemoveTree, Forget,
         PruneEnd, Crash, LoseRegistration

\* Only a first registration and a protection add baselines.
LEMMA OnlyRegisterAdds ==
    ASSUME IInv, [Next]_vars, NEW c \in Copies', c \notin Copies
    PROVE  (Register /\ c = cmd.target) \/ Protect(c)
<1> USE DEF Copies
<1>1. CASE Register
  BY <1>1 DEF Register
<1>2. ASSUME NEW d \in CopyIds, Protect(d) PROVE c = d
  BY <1>2 DEF Protect
<1>3. QED
  BY <1>1, <1>2
     DEF Next, vars, store, Capture, Prune, CaptureBegin, ReceiveBegin, ReceiveAdmit, Publish,
         Return, Fail, RestoreBegin, RestoreEnd, PruneBegin, Resume, ResumeTorn, Raise,
         IntentCreate, Doom, Replan, ReplanRefused, IntentWrite, Complete, RemoveTree, Forget,
         Rename, PruneEnd, Crash, LoseRegistration, Damage, Recreate

LEMMA NextBaselines == IInv /\ [Next]_vars => BaselinesStay'
<1> SUFFICES ASSUME IInv, [Next]_vars, NEW c \in Copies' PROVE Present(c)'
  BY DEF BaselinesStay
<1>0. c \in CopyIds BY NextTypeOK DEF TypeOK, Copies, Baseline
<1>1. Present(c)
  <2>1. CASE c \in Copies BY <2>1 DEF IInv, BaselinesStay
  <2>2. CASE c \notin Copies
    <3>1. CASE Register /\ c = cmd.target BY <3>1 DEF IInv, AtPlace, Register
    <3>2. CASE Protect(c) BY <3>2, <1>0, InspectKnown DEF IInv, Protect
    <3>3. QED BY <2>2, <3>1, <3>2, OnlyRegisterAdds
  <2>3. QED BY <2>1, <2>2
<1>2. CASE ~Present(c)'
  <2>1. Rename /\ c = intents[cmd.work].copy BY <1>0, <1>1, <1>2, OnlyRenameTakes
  <2>2. c \notin Copies BY <2>1 DEF IInv, AtPlace, Rename
  <2>3. Copies' = Copies BY <2>1 DEF Rename, Copies
  <2>4. QED BY <2>2, <2>3
<1>3. QED BY <1>2

LEMMA NextReaders == IInv /\ [Next]_vars => ReadersKeepTheirCopy'
<1> SUFFICES ASSUME IInv, [Next]_vars, NEW c \in readers' PROVE Present(c)'
  BY DEF ReadersKeepTheirCopy
<1>0. c \in CopyIds BY NextTypeOK DEF TypeOK
<1>1. c \in readers \/ RestoreBegin(c)
  BY DEF Next, vars, store, Capture, Prune, CaptureBegin, ReceiveBegin, ReceiveAdmit, Publish,
         Return, Fail, RestoreBegin, RestoreEnd, PruneBegin, Resume, ResumeTorn, Raise, Register,
         Protect, IntentCreate, Doom, Replan, ReplanRefused, IntentWrite, Complete, RemoveTree,
         Forget, Rename, PruneEnd, Crash, LoseRegistration, Damage, Recreate
<1>2. CASE RestoreBegin(c)
  BY <1>0, <1>2, InspectKnown DEF RestoreBegin, IInv, Present, store
<1>3. CASE c \in readers
  <2>1. Present(c) BY <1>3 DEF IInv, ReadersKeepTheirCopy
  <2>2. ~Rename BY <1>3 DEF IInv, AtPlace, Rename, Pruning
  <2>3. QED BY <1>0, <2>1, <2>2, OnlyRenameTakes
<1>4. QED BY <1>1, <1>2, <1>3

----------------------------------------------------------------------------
(* Identities, intents and tombstones.                                     *)

LEMMA NextFresh == IInv /\ [Next]_vars => FreshInode'
<1> SUFFICES ASSUME IInv, [Next]_vars PROVE FreshInode' OBVIOUS
<1> USE DEF IInv, FreshInode, Present, Whole
<1>1. ASSUME NEW c \in CopyIds, NEW g \in Graphs, Publish(c, g) PROVE FreshInode'
  BY <1>1 DEF Publish, NewDir, TypeOK, Dir, Intent
<1>2. ASSUME NEW c \in CopyIds, Recreate(c) PROVE FreshInode'
  BY <1>2 DEF Recreate, NewDir, TypeOK, Dir, Intent
<1>3. ASSUME NEW c \in CopyIds, Damage(c) PROVE FreshInode'
  BY <1>3 DEF Damage, TypeOK, Dir
<1>4. ASSUME NEW i \in Intents, IntentCreate(i) PROVE FreshInode'
  BY <1>4 DEF IntentCreate
<1>5. CASE IntentWrite
  BY <1>5 DEF IntentWrite, AtPlace, TypeOK
<1>6. CASE Forget
  BY <1>6 DEF Forget, TypeOK
<1>7. CASE Rename
  BY <1>7 DEF Rename, TypeOK
<1>8. CASE UNCHANGED <<bundles, intents, inode>>
  BY <1>8
<1>9. QED
  BY <1>1, <1>2, <1>3, <1>4, <1>5, <1>6, <1>7, <1>8
     DEF Next, vars, store, Capture, Prune, CaptureBegin, ReceiveBegin, ReceiveAdmit, Register,
         Return, Fail, RestoreBegin, RestoreEnd, PruneBegin, Resume, ResumeTorn, Raise, Protect,
         Doom, Replan, ReplanRefused, Complete, RemoveTree, PruneEnd, Crash, LoseRegistration

LEMMA NextTombs == IInv /\ [Next]_vars => TombstonesExplained' /\ TombIsNotThere'
<1> SUFFICES ASSUME IInv, [Next]_vars PROVE TombstonesExplained' /\ TombIsNotThere' OBVIOUS
<1> USE DEF IInv, TombstonesExplained, TombIsNotThere, Present, Whole, SameIdentity
<1>1. ASSUME NEW c \in CopyIds, NEW g \in Graphs, Publish(c, g)
      PROVE  TombstonesExplained' /\ TombIsNotThere'
  BY <1>1 DEF Publish, Names, TypeOK, Intent
<1>2. ASSUME NEW c \in CopyIds, Recreate(c) PROVE TombstonesExplained' /\ TombIsNotThere'
  BY <1>2 DEF Recreate, NewDir, TypeOK, Dir, Intent, FreshInode
<1>3. ASSUME NEW c \in CopyIds, Damage(c) PROVE TombstonesExplained' /\ TombIsNotThere'
  BY <1>3 DEF Damage, TypeOK, Dir, Intent
<1>4. ASSUME NEW i \in Intents, IntentCreate(i)
      PROVE  TombstonesExplained' /\ TombIsNotThere'
  BY <1>4 DEF IntentCreate, TypeOK
<1>5. CASE IntentWrite
  BY <1>5 DEF IntentWrite, AtPlace, TypeOK
<1>6. CASE Forget
  BY <1>6 DEF Forget, AtPlace, TypeOK
<1>7. CASE Rename
  BY <1>7 DEF Rename, AtPlace, TypeOK, Intent
<1>8. CASE RemoveTree
  BY <1>8 DEF RemoveTree, AtPlace, TypeOK
<1>9. CASE UNCHANGED <<bundles, intents, tombs>>
  BY <1>9
<1>10. QED
  BY <1>1, <1>2, <1>3, <1>4, <1>5, <1>6, <1>7, <1>8, <1>9
     DEF Next, vars, store, Capture, Prune, CaptureBegin, ReceiveBegin, ReceiveAdmit, Register,
         Return, Fail, RestoreBegin, RestoreEnd, PruneBegin, Resume, ResumeTorn, Raise, Protect,
         Doom, Replan, ReplanRefused, Complete, PruneEnd, Crash, LoseRegistration

\* A prune in progress: nobody else registers, nobody else publishes.
LEMMA NextPlan == IInv /\ [Next]_vars => PlanSparesBaselines'
<1> SUFFICES ASSUME IInv, [Next]_vars, pc' \in Pruning
             PROVE  /\ Copies' \subseteq HealthyIn(cmd'.view)
                    /\ cmd'.doomed \subseteq HealthyIn(cmd'.view) \ Copies'
  BY DEF PlanSparesBaselines, HealthyIn
<1> USE DEF IInv, PlanSparesBaselines
<1>1. ASSUME NEW p \in Policies, NEW f \in BOOLEAN, PruneBegin(p, f)
      PROVE  /\ cmd'.view = Inventory
             /\ cmd'.doomed = DeletePlan(Inventory, Copies, p)
             /\ ValidBaselines(Inventory, registered)
             /\ Copies' = Copies
  BY <1>1 DEF PruneBegin, NoCmd, Copies, store
<1>2. ASSUME Replan
      PROVE  /\ cmd'.view = Inventory
             /\ cmd'.doomed = DeletePlan(Inventory, Copies, cmd.policy) \ cmd.held
             /\ ValidBaselines(Inventory, registered)
             /\ Copies' = Copies
  BY <1>2 DEF Replan, Copies, store, TypeOK
<1>3. CASE /\ pc \in Pruning
           /\ cmd'.view = cmd.view /\ cmd'.doomed \subseteq cmd.doomed
           /\ Copies' \subseteq Copies
  BY <1>3
<1>4. CASE Replan
  BY <1>2, <1>4, PlanSpares, ValidSeen
<1>5. ASSUME NEW p \in Policies, NEW f \in BOOLEAN, PruneBegin(p, f)
      PROVE  /\ Copies' \subseteq HealthyIn(cmd'.view)
             /\ cmd'.doomed \subseteq HealthyIn(cmd'.view) \ Copies'
  BY <1>1, <1>5, PlanSpares, ValidSeen
<1>6. ASSUME NEW i \in Intents, Resume(i) \/ IntentCreate(i)
      PROVE  /\ pc \in Pruning
             /\ cmd'.view = cmd.view /\ cmd'.doomed \subseteq cmd.doomed
             /\ Copies' \subseteq Copies
  BY <1>6 DEF Resume, IntentCreate, Pruning, TypeOK, Copies, store
<1>7. ASSUME NEW c \in CopyIds, Doom(c)
      PROVE  /\ pc \in Pruning
             /\ cmd'.view = cmd.view /\ cmd'.doomed \subseteq cmd.doomed
             /\ Copies' \subseteq Copies
  <2>1. Inspect(c) = cmd.view[c] BY <1>7 DEF Doom, End, Goto, Pruning
  <2>2. cmd' = [cmd EXCEPT !.doomed = @ \ {c}, !.target = c] BY <1>7, <2>1 DEF Doom
  <2>3. cmd'.view = cmd.view /\ cmd'.doomed \subseteq cmd.doomed BY <2>2 DEF TypeOK
  <2>4. QED BY <1>7, <2>3 DEF Doom, Pruning, Copies, store
<1>8. CASE IntentWrite \/ Complete \/ Rename \/ RemoveTree \/ Forget
  <2>1. /\ pc \in Pruning
        /\ cmd'.view = cmd.view /\ cmd'.doomed \subseteq cmd.doomed
        /\ Copies' \subseteq Copies
    BY <1>8 DEF IntentWrite, Complete, Rename, RemoveTree, Forget, End, Goto, Pruning, Copies, store
  <2>2. QED BY <1>3, <2>1
<1>9. CASE UNCHANGED <<pc, cmd>> /\ Copies' \subseteq Copies
  BY <1>3, <1>9
<1>10. CASE LoseRegistration
  BY <1>9, <1>10 DEF LoseRegistration, Copies
<1>11. ASSUME NEW c \in CopyIds, RestoreBegin(c) \/ RestoreEnd(c) \/ Damage(c) \/ Recreate(c)
       PROVE  UNCHANGED <<pc, cmd>> /\ Copies' \subseteq Copies
  BY <1>11 DEF RestoreBegin, RestoreEnd, Damage, Recreate, store, Copies
<1>12. ASSUME NEW c \in CopyIds, Protect(c) PROVE FALSE
  BY <1>12 DEF Protect, Alone, Pruning
<1>13. ASSUME NEW c \in CopyIds, NEW g \in Graphs, Publish(c, g) PROVE FALSE
  BY <1>13 DEF Publish, Goto, Pruning
<1>14. ~(CaptureBegin \/ ReceiveBegin \/ ReceiveAdmit \/ Register \/ Return \/ Fail)
  BY DEF CaptureBegin, ReceiveBegin, ReceiveAdmit, Register, Return, Fail, End, Goto, Pruning
<1>15. ~(Raise \/ Crash) BY DEF Raise, Crash, End, Goto, Pruning
<1>16. CASE UNCHANGED vars
  BY <1>9, <1>16 DEF vars, store, Copies
<1>17. QED
  BY <1>3, <1>4, <1>5, <1>6, <1>7, <1>8, <1>9, <1>10, <1>11, <1>12, <1>13, <1>14, <1>15, <1>16,
     ConfirmsAssumption
     DEF Next, Capture, Prune, ResumeTorn, ReplanRefused, PruneEnd

LEMMA NextTodo == IInv /\ [Next]_vars => TodoKnown'
<1> SUFFICES ASSUME IInv, [Next]_vars, pc' \in Pruning, NEW i \in cmd'.todo
             PROVE  /\ intents'[i] # Absent
                    /\ tombs'[i] # Absent => SeenOther(i)'
                    /\ (Whole(i)' /\ SeenOther(i)' /\ intents'[i].copy \in Copies')
                          => ~SameIdentity(i)'
  BY DEF TodoKnown
<1> DEFINE Known(a) == /\ intents[a] # Absent
                       /\ tombs[a] # Absent => SeenOther(a)
                       /\ (Whole(a) /\ SeenOther(a) /\ intents[a].copy \in Copies)
                             => ~SameIdentity(a)
<1> SUFFICES Known(i)' OBVIOUS
<1>0. i \in Intents BY NextTypeOK DEF TypeOK
<1>1. ASSUME NEW p \in Policies, NEW f \in BOOLEAN, PruneBegin(p, f) PROVE Known(i)'
  <2>1. cmd'.view = Inventory /\ cmd'.todo = {a \in Intents : intents[a] # Absent}
    BY <1>1 DEF PruneBegin, NoCmd
  <2>2. UNCHANGED <<intents, tombs, bundles, registered>> BY <1>1 DEF PruneBegin, store
  <2>3. ASSUME tombs[i] # Absent PROVE ~SeenAs(intents[i].copy, intents[i].inode)'
    <3>1. Whole(i) BY <1>0, <2>3 DEF IInv, TombstonesExplained
    <3>2. intents[i].copy \in CopyIds BY <1>0, <3>1 DEF Whole, IInv, TypeOK, Intent
    <3>3. CASE Inventory[intents[i].copy] \in {Absent, Held}
      BY <2>1, <2>2, <3>3 DEF SeenAs
    <3>4. CASE Inventory[intents[i].copy] \notin {Absent, Held}
      <4>1. Inventory[intents[i].copy] = bundles[intents[i].copy] /\ Present(intents[i].copy)
        BY <3>2, <3>4, InspectKnown DEF IInv, HealthyIn
      <4>2. ~SameIdentity(i) BY <1>0, <2>3, <4>1 DEF IInv, TombIsNotThere
      <4>3. QED BY <2>1, <2>2, <4>1, <4>2 DEF SeenAs, SameIdentity
    <3>5. QED BY <3>3, <3>4
  <2>4. ASSUME Whole(i), ~SeenAs(intents[i].copy, intents[i].inode)', intents[i].copy \in Copies
        PROVE  ~SameIdentity(i)
    <3>1. intents[i].copy \in HealthyIn(Inventory) BY <1>1, <2>4, ValidSeen DEF PruneBegin
    <3>2. Inventory[intents[i].copy] = bundles[intents[i].copy]
      BY <3>1, InspectKnown DEF IInv
    <3>3. QED BY <2>1, <2>2, <2>4, <3>1, <3>2 DEF SeenAs, SameIdentity, HealthyIn
  <2>5. QED BY <2>1, <2>2, <2>3, <2>4 DEF SeenOther, Whole, SameIdentity, Copies
<1>2. CASE /\ pc \in Pruning
           /\ cmd'.view = cmd.view /\ cmd'.todo \subseteq cmd.todo
           /\ UNCHANGED <<intents, tombs, bundles>>
           /\ Copies' \subseteq Copies
  BY <1>2 DEF IInv, TodoKnown, SeenOther, SeenAs, Whole, SameIdentity
<1>3. CASE /\ pc \in Pruning /\ UNCHANGED <<cmd, bundles, registered>>
           /\ intents'[i] = intents[i] /\ tombs'[i] = tombs[i]
  BY <1>3 DEF IInv, TodoKnown, SeenOther, SeenAs, Whole, SameIdentity, Copies
<1>4. ASSUME NEW a \in Intents, Resume(a) PROVE Known(i)'
  <2>1. cmd'.view = cmd.view /\ cmd'.todo \subseteq cmd.todo
    BY <1>4 DEF Resume, IInv, TypeOK
  <2>2. QED BY <1>2, <1>4, <2>1 DEF Resume, store, Pruning, Copies
<1>5. CASE Complete
  <2>1. UNCHANGED cmd BY <1>5 DEF Complete, End, Goto, Pruning
  <2>2. QED BY <1>2, <1>5, <2>1 DEF Complete, store, Pruning, Copies
<1>6. CASE IntentWrite \/ RemoveTree \/ Forget
  <2>1. UNCHANGED cmd
    BY <1>6 DEF IntentWrite, RemoveTree, Forget, End, Goto, Pruning
  <2>2. i # cmd.work
    BY <1>6, <2>1 DEF IntentWrite, RemoveTree, Forget, IInv, AtPlace
  <2>3. QED
    BY <1>0, <1>3, <1>6, <2>1, <2>2 DEF IntentWrite, RemoveTree, Forget, Pruning, IInv, TypeOK
<1>7. CASE Rename
  <2>1. UNCHANGED cmd /\ i # cmd.work /\ i \in cmd.todo
    BY <1>7 DEF Rename, IInv, AtPlace
  <2>2. Known(i) /\ intents[i] # Absent
    BY <1>7, <2>1 DEF Rename, Pruning, IInv, TodoKnown
  <2>3. UNCHANGED <<intents, registered>> /\ tombs'[i] = tombs[i]
    BY <1>0, <1>7, <2>1 DEF Rename, IInv, TypeOK
  <2>4. intents[cmd.work].copy \notin Copies
        /\ bundles' = [bundles EXCEPT ![intents[cmd.work].copy] = Absent]
    BY <1>7 DEF Rename, IInv, AtPlace
  <2>5. intents[i].copy \in Copies => bundles'[intents[i].copy] = bundles[intents[i].copy]
    BY <2>4 DEF IInv, TypeOK, Copies, Baseline
  <2>6. QED
    BY <2>1, <2>2, <2>3, <2>5 DEF SeenOther, SeenAs, Whole, SameIdentity, Copies
<1>8. ASSUME NEW c \in CopyIds, Recreate(c) \/ Damage(c) PROVE Known(i)'
  <2>1. UNCHANGED <<pc, cmd, intents, tombs, registered>>
    BY <1>8 DEF Recreate, Damage
  <2>2. Known(i) /\ intents[i] # Absent
    BY <2>1 DEF IInv, TodoKnown
  <2>3. ASSUME Whole(i), intents[i].copy \in Copies, ~SameIdentity(i) PROVE ~SameIdentity(i)'
    <3>1. intents[i].copy \in CopyIds /\ Present(intents[i].copy)
      BY <2>3 DEF IInv, TypeOK, Copies, Baseline, BaselinesStay
    <3>2. intents[i] \in Intent /\ intents[i].inode < inode
      BY <1>0, <2>3 DEF IInv, TypeOK, Whole, FreshInode
    <3>3. CASE Recreate(c)
      BY <2>1, <2>3, <3>1, <3>2, <3>3
         DEF Recreate, NewDir, SameIdentity, IInv, TypeOK, Intent
    <3>4. CASE Damage(c)
      BY <2>1, <2>3, <3>1, <3>4 DEF Damage, SameIdentity, IInv, TypeOK, Dir, Present
    <3>5. QED BY <1>8, <3>3, <3>4
  <2>4. QED BY <2>1, <2>2, <2>3 DEF SeenOther, SeenAs, Whole, Copies
<1>9. ~Replan
  BY DEF Replan, IInv, TypeOK
<1>10. ASSUME NEW c \in CopyIds PROVE ~Doom(c)
  <2>1. Doom(c) => cmd'.todo = cmd.todo /\ cmd.todo = {}
    BY DEF Doom, End, Goto, Pruning, IInv, AtPlace, TypeOK
  <2>2. QED BY <2>1
<1>11. ASSUME NEW a \in Intents PROVE ~IntentCreate(a)
  <2>1. IntentCreate(a) => cmd'.todo = cmd.todo /\ cmd.todo = {}
    BY DEF IntentCreate, IInv, AtPlace, TypeOK, Pruning
  <2>2. QED BY <2>1
<1>12. CASE LoseRegistration
  BY <1>2, <1>12 DEF LoseRegistration, Copies
<1>13. ASSUME NEW c \in CopyIds, RestoreBegin(c) \/ RestoreEnd(c) PROVE Known(i)'
  BY <1>2, <1>13 DEF RestoreBegin, RestoreEnd, store, Copies
<1>14. ASSUME NEW c \in CopyIds, Protect(c) PROVE FALSE
  BY <1>14 DEF Protect, Alone, Pruning
<1>15. ASSUME NEW c \in CopyIds, NEW g \in Graphs, Publish(c, g) PROVE FALSE
  BY <1>15 DEF Publish, Goto, Pruning
<1>16. ~(CaptureBegin \/ ReceiveBegin \/ ReceiveAdmit \/ Register \/ Return \/ Fail)
  BY DEF CaptureBegin, ReceiveBegin, ReceiveAdmit, Register, Return, Fail, End, Goto, Pruning
<1>17. ~(Raise \/ Crash) BY DEF Raise, Crash, End, Goto, Pruning
<1>18. CASE UNCHANGED vars
  BY <1>2, <1>18 DEF vars, store, Copies
<1>19. QED
  BY <1>1, <1>4, <1>5, <1>6, <1>7, <1>8, <1>9, <1>10, <1>11, <1>12, <1>13, <1>14, <1>15, <1>16,
     <1>17, <1>18, ConfirmsAssumption
     DEF Next, Capture, Prune, ResumeTorn, ReplanRefused, PruneEnd

LEMMA NextAtPlace == IInv /\ [Next]_vars => AtPlace'
<1> SUFFICES ASSUME IInv, [Next]_vars PROVE AtPlace' OBVIOUS
<1> USE DEF IInv, AtPlace, Goto
<1>1. CASE pc' \in {"idle", "capturing", "receiving", "publishing", "returning"}
  BY <1>1 DEF Pruning
<1>2. ASSUME NEW c \in CopyIds, NEW g \in Graphs, Publish(c, g) PROVE AtPlace'
  <2>1. NewDir(g) \in Dir BY DEF NewDir, Dir, TypeOK
  <2>2. cmd'.target = c /\ bundles'[c] # Absent
    BY <1>2, <2>1, NamesAssumption DEF Publish, TypeOK
  <2>3. QED BY <1>2, <2>2 DEF Publish, Pruning, Present
<1>3. ASSUME NEW p \in Policies, NEW f \in BOOLEAN, PruneBegin(p, f) PROVE AtPlace'
  BY <1>3 DEF PruneBegin, Alone
<1>4. ASSUME NEW i \in Intents, Resume(i) PROVE AtPlace'
  <2>1. /\ cmd'.work = i /\ cmd'.todo = cmd.todo \ {i} /\ i \in cmd.todo
        /\ UNCHANGED <<store, readers>>
    BY <1>4 DEF Resume, TypeOK
  <2>2. Whole(i) BY <1>4 DEF Resume, TodoKnown, Pruning, Whole
  <2>3. Present(intents[i].copy) \/ intents[i].copy \notin Copies
    BY DEF BaselinesStay
  <2>4. CASE Spared(i)
    <3>1. tombs[i] = Absent BY <1>4, <2>4 DEF Resume, TodoKnown, Pruning, Spared, SeenOther
    <3>2. pc' = "forgetting" BY <1>4, <2>4 DEF Resume
    <3>3. QED BY <1>4, <2>1, <3>1, <3>2 DEF Resume, Pruning, store
  <2>5. CASE ~Spared(i)
    <3>1. pc' = "completing" BY <1>4, <2>5 DEF Resume
    <3>2. intents[i].copy \in Copies => ~SameIdentity(i)
      BY <1>4, <2>2, <2>5
         DEF Resume, Spared, SeenOther, TodoKnown, PlanSparesBaselines, Pruning
    <3>3. QED
      BY <1>4, <2>1, <2>2, <3>1, <3>2
         DEF Resume, Pruning, store, Copies, SameIdentity, Whole
  <2>6. QED BY <2>4, <2>5
<1>5. CASE Replan
  BY <1>5 DEF Replan, TypeOK, Pruning
<1>6. ASSUME NEW c \in CopyIds, Doom(c) PROVE AtPlace'
  <2>1. CASE Inspect(c) # cmd.view[c] BY <1>1, <1>6, <2>1 DEF Doom, End
  <2>2. CASE Inspect(c) = cmd.view[c]
    <3>1. c \in HealthyIn(cmd.view) \ Copies
      BY <1>6 DEF Doom, PlanSparesBaselines, Pruning
    <3>2. Present(c) BY <2>2, <3>1, InspectKnown DEF HealthyIn
    <3>3. /\ cmd'.target = c /\ cmd'.view = cmd.view /\ cmd'.todo = cmd.todo
          /\ pc' = "intending" /\ UNCHANGED <<store, readers>>
          /\ ~cmd'.resuming /\ cmd'.todo = {} /\ readers = {}
      BY <1>6, <2>2 DEF Doom, TypeOK, Pruning
    <3>4. QED
      BY <1>6, <3>1, <3>2, <3>3 DEF Doom, Pruning, store, Copies, Present, HealthyIn
  <2>3. QED BY <2>1, <2>2
<1>7. ASSUME NEW i \in Intents, IntentCreate(i) PROVE AtPlace'
  <2>1. /\ cmd.target \in CopyIds \ Copies /\ Present(cmd.target) /\ cmd.todo = {}
        /\ readers = {} /\ ~cmd.resuming
    BY <1>7 DEF IntentCreate, HealthyIn, Pruning
  <2>2. /\ cmd'.work = i /\ cmd'.todo = {} /\ cmd'.doc.copy = cmd.target
        /\ cmd'.doc.inode = bundles[cmd.target].inode /\ ~cmd'.resuming
    BY <1>7, <2>1 DEF IntentCreate, TypeOK
  <2>3. cmd'.doc \in Intent
    BY <1>7 DEF IntentCreate, Present, TypeOK, Dir, HealthyIn, View, Intent
  <2>4. /\ pc' = "writing" /\ intents'[i] = Torn /\ tombs'[i] = Absent
        /\ UNCHANGED <<registered, inode, readers>>
    BY <1>7 DEF IntentCreate, TypeOK
  <2>5. QED BY <2>1, <2>2, <2>3, <2>4 DEF Copies, FreshInode, Present, Pruning
<1>8. CASE IntentWrite
  <2>1. intents'[cmd.work] = cmd.doc BY <1>8 DEF IntentWrite, TypeOK
  <2>2. cmd.doc # Absent /\ cmd.doc # Torn BY <1>8, NamesAssumption DEF IntentWrite
  <2>3. QED BY <1>8, <2>1, <2>2 DEF IntentWrite, Whole, Copies, Pruning
<1>9. CASE Complete
  <2>1. CASE pc' = "idle" BY <1>1, <2>1
  <2>2. CASE pc' # "idle"
    <3>1. UNCHANGED <<store, readers, cmd>> BY <1>9, <2>2 DEF Complete, End
    <3>2. CASE pc' = "removing"
      BY <1>9, <3>1, <3>2 DEF Complete, End, store, Pruning, Whole
    <3>3. CASE pc' = "forgetting"
      BY <1>9, <3>1, <3>3 DEF Complete, End, store, Pruning
    <3>4. CASE pc' = "renaming"
      BY <1>9, <3>1, <3>4 DEF Complete, End, store, Pruning, Whole, Copies, Present
    <3>5. QED BY <1>9, <2>2, <3>2, <3>3, <3>4 DEF Complete, End
  <2>3. QED BY <2>1, <2>2
<1>10. CASE Rename
  BY <1>10 DEF Rename, Present, Whole, Pruning, TypeOK
<1>11. CASE RemoveTree
  <2>1. CASE pc' = "idle" BY <1>1, <2>1
  <2>2. CASE pc' # "idle" BY <1>11, <2>2 DEF RemoveTree, End, Pruning, TypeOK
  <2>3. QED BY <2>1, <2>2
<1>12. CASE Forget
  BY <1>12 DEF Forget, Pruning, Whole, Present, Copies, TypeOK
<1>13. CASE Crash \/ Raise \/ Return \/ Fail
  BY <1>1, <1>13 DEF Crash, Raise, Return, Fail, End
<1>14. CASE CaptureBegin \/ ReceiveBegin \/ ReceiveAdmit
  BY <1>1, <1>14 DEF CaptureBegin, ReceiveBegin, ReceiveAdmit
<1>15. CASE Register
  BY <1>1, <1>15 DEF Register
<1>16. ASSUME NEW c \in CopyIds, Protect(c) PROVE AtPlace'
  BY <1>1, <1>16 DEF Protect, Alone
<1>17. ASSUME NEW c \in CopyIds, RestoreBegin(c) \/ RestoreEnd(c) PROVE AtPlace'
  BY <1>17 DEF RestoreBegin, RestoreEnd, store, Pruning, Whole, SameIdentity, Present, Copies
<1>18. CASE LoseRegistration
  BY <1>18 DEF LoseRegistration, Pruning, Whole, SameIdentity, Present, Copies
<1>19. ASSUME NEW c \in CopyIds, Damage(c) \/ Recreate(c) PROVE AtPlace'
  <2>1. UNCHANGED <<pc, cmd, intents, tombs, registered, readers>> /\ inode <= inode' /\ inode' \in Int
    BY <1>19 DEF Damage, Recreate, TypeOK
  <2>2. \A d \in CopyIds : Present(d) => Present(d)'
    <3>1. \A d \in CopyIds : Present(d) /\ ~Present(d)' => Rename BY OnlyRenameTakes
    <3>2. ~Rename BY <1>19, <2>1 DEF Rename
    <3>3. QED BY <3>1, <3>2
  <2>3. ASSUME pc = "completing", intents[cmd.work].copy \in Copies
        PROVE  ~SameIdentity(cmd.work)'
    <3>1. intents[cmd.work] \in Intent /\ intents[cmd.work].inode < inode
      BY <2>3 DEF TypeOK, Whole, FreshInode
    <3>2. CASE Damage(c)
      <4>1. \A d \in CopyIds : Present(d) => bundles'[d].inode = bundles[d].inode
        BY <3>2 DEF Damage, TypeOK, Dir, Present
      <4>2. Present(intents[cmd.work].copy) BY <2>3 DEF BaselinesStay
      <4>3. QED BY <2>1, <2>3, <3>1, <4>1, <4>2 DEF SameIdentity, Intent
    <3>3. CASE Recreate(c)
      <4>1. \A d \in CopyIds : bundles'[d] = bundles[d] \/ bundles'[d].inode = inode
        BY <3>3 DEF Recreate, NewDir, TypeOK
      <4>2. intents[cmd.work].inode # inode BY <3>1 DEF TypeOK, Intent
      <4>3. QED BY <2>1, <2>3, <3>1, <4>1, <4>2 DEF SameIdentity, Intent
    <3>4. QED BY <1>19, <3>2, <3>3
  <2>4. pc = "writing" => cmd.doc.inode < inode'
    BY <2>1 DEF TypeOK, Intent
  <2>5. QED
    BY <2>1, <2>2, <2>3, <2>4 DEF Whole, Copies, TypeOK, Intent, HealthyIn
<1>20. CASE UNCHANGED vars
  BY <1>20 DEF vars, store, Pruning, Whole, SameIdentity, Present, Copies
<1>21. QED
  BY <1>2, <1>3, <1>4, <1>5, <1>6, <1>7, <1>8, <1>9, <1>10, <1>11, <1>12, <1>13, <1>14, <1>15,
     <1>16, <1>17, <1>18, <1>19, <1>20, ConfirmsAssumption
     DEF Next, Capture, Prune, ResumeTorn, ReplanRefused, PruneEnd

----------------------------------------------------------------------------
(* What retention keeps: the copy of the newest facts holds every fact that *)
(* may go.                                                                  *)

\* A set of naturals has a least member.
LEMMA Least ==
    ASSUME NEW N, N \subseteq Nat, N # {}
    PROVE  \E n \in N : \A m \in N : n <= m
<1> DEFINE less == {p \in Nat \X Nat : p[1] < p[2]}
<1>1. IsWellFoundedOn(less, Nat)
  BY NatLessThanWellFounded, Zenon DEF OpToRel
<1>2. PICK n \in N : \A m \in N : ~(<<m, n>> \in less)
  <2> HIDE DEF less
  <2>1. QED BY <1>1, WFMin, Zenon
<1>3. \A m \in N : ~(m < n)
  BY <1>2
<1>4. QED BY <1>3

\* A transitive, irreflexive relation on a finite set has a top.
LEMMA FiniteTop ==
    ASSUME NEW S, IsFiniteSet(S), S # {}, NEW R,
           \A x \in S : <<x, x>> \notin R,
           \A x, y, z \in S : <<x, y>> \in R /\ <<y, z>> \in R => <<x, z>> \in R
    PROVE  \E x \in S : \A y \in S : <<y, x>> \notin R
<1> DEFINE above(x) == {y \in S : <<y, x>> \in R}
           N == {Cardinality(above(x)) : x \in S}
<1>1. \A x \in S : IsFiniteSet(above(x)) /\ Cardinality(above(x)) \in Nat
  BY FS_Subset, FS_CardinalityType
<1>2. PICK n \in N : \A m \in N : n <= m
  <2> HIDE DEF above
  <2>1. N \subseteq Nat BY <1>1
  <2>2. N # {} OBVIOUS
  <2> HIDE DEF N
  <2>3. QED BY <2>1, <2>2, Least
<1>3. PICK x \in S : n = Cardinality(above(x)) OBVIOUS
<1>4. ASSUME NEW y \in S, <<y, x>> \in R PROVE FALSE
  <2>1. above(y) \subseteq above(x) BY <1>4
  <2>2. y \in above(x) /\ y \notin above(y) BY <1>4
  <2>3. Cardinality(above(y)) <= Cardinality(above(x))
        /\ Cardinality(above(y)) # Cardinality(above(x))
    <3> HIDE DEF above
    <3>1. above(y) \in SUBSET above(x) BY <2>1
    <3>2. QED BY <1>1, <2>2, <3>1, FS_Subset
  <2>4. Cardinality(above(x)) <= Cardinality(above(y))
    <3> HIDE DEF above
    <3>1. Cardinality(above(y)) \in N OBVIOUS
    <3> HIDE DEF N
    <3>2. QED BY <1>2, <1>3, <3>1
  <2>5. QED BY <1>1, <2>3, <2>4
<1>5. QED BY <1>4

LEMMA CoversTransitive ==
    ASSUME NEW f, NEW g, NEW h, Covers(f, g), Covers(g, h)
    PROVE  Covers(f, h) /\ (StrictlyCovers(f, g) => StrictlyCovers(f, h))
BY DEF Covers, StrictlyCovers, Conflict

\* select_retention_latest finds the copy that holds every comparable fact.
LEMMA LatestCovers ==
    ASSUME NEW copies, IsFiniteSet(copies),
           \A c, d \in copies : c.id = d.id => c = d,
           \A c \in copies : c.id \in Int /\ c.created \in Int,
           NEW c \in copies, c \notin Unresolved(copies)
    PROVE  \E d \in RetentionLatest(copies) : d \in copies /\ d.facts # Unreadable /\ Covers(d.facts, c.facts)
<1> DEFINE clear == copies \ Unresolved(copies)
           top == Maximal(clear)
           R == {p \in clear \X clear : StrictlyCovers(p[1].facts, p[2].facts)}
           Q == {p \in top \X top : LaterCopy(p[1], p[2])}
<1>1. /\ IsFiniteSet(clear) /\ c \in clear
      /\ \A a, b \in clear : Comparable(a.facts, b.facts)
      /\ \A a \in clear : a.facts # Unreadable
  <2>1. clear \in SUBSET copies OBVIOUS
  <2>2. IsFiniteSet(clear) BY <2>1, FS_Subset
  <2>3. QED BY <2>2 DEF Unresolved, Readable
<1>2. top # {}
  <2>1. \A x \in clear : <<x, x>> \notin R BY DEF StrictlyCovers
  <2>2. \A x, y, z \in clear : <<x, y>> \in R /\ <<y, z>> \in R => <<x, z>> \in R
    BY CoversTransitive DEF StrictlyCovers
  <2>3. \E x \in clear : \A y \in clear : <<y, x>> \notin R
    <3> HIDE DEF clear, R
    <3>1. clear # {} BY <1>1
    <3>2. QED BY <1>1, <2>1, <2>2, <3>1, FiniteTop
  <2>4. QED BY <2>3 DEF Maximal
<1>3. /\ top \subseteq clear /\ IsFiniteSet(top)
      /\ \A x \in top : x.id \in Int /\ x.created \in Int
      /\ \A x, y \in top : x.id = y.id => x = y
  <2>1. top \in SUBSET clear BY DEF Maximal
  <2>2. IsFiniteSet(top)
    <3> HIDE DEF top, clear
    <3>1. QED BY <1>1, <2>1, FS_Subset
  <2>3. clear \subseteq copies OBVIOUS
  <2>4. QED BY <2>1, <2>2, <2>3
<1>4. PICK d \in top : \A e \in top : <<e, d>> \notin Q
  <2>0. \A x, y \in top : <<x, y>> \in Q <=> LaterCopy(x, y)
    OBVIOUS
  <2> HIDE DEF top, Q
  <2>1. \A x \in top : <<x, x>> \notin Q
    BY <1>3, <2>0 DEF LaterCopy
  <2>2. \A x, y, z \in top : <<x, y>> \in Q /\ <<y, z>> \in Q => <<x, z>> \in Q
    <3>1. ASSUME NEW x \in top, NEW y \in top, NEW z \in top, LaterCopy(x, y), LaterCopy(y, z)
          PROVE  LaterCopy(x, z)
      BY <1>3, <3>1 DEF LaterCopy
    <3>2. QED BY <2>0, <3>1
  <2>3. QED BY <1>2, <1>3, <2>1, <2>2, FiniteTop
<1>5. d \in RetentionLatest(copies)
  <2>1. ASSUME NEW e \in top \ {d} PROVE LaterCopy(d, e)
    <3>1. ~LaterCopy(e, d) BY <1>4
    <3>2. d.id # e.id BY <1>3
    <3> HIDE DEF top
    <3>3. QED BY <1>3, <3>1, <3>2 DEF LaterCopy
  <2>2. QED BY <2>1 DEF RetentionLatest
<1>6. Covers(d.facts, c.facts)
  <2>1. Comparable(d.facts, c.facts) BY <1>1, <1>3
  <2>2. ~StrictlyCovers(c.facts, d.facts) BY <1>1 DEF Maximal
  <2>3. QED BY <2>1, <2>2 DEF Comparable, Covers, StrictlyCovers, Conflict
<1>7. QED BY <1>1, <1>3, <1>5, <1>6
----------------------------------------------------------------------------
(* The planner of retention.                                               *)

\* What plan_retention is given: finitely many copies, one per id.
Inventoried(copies) ==
    /\ IsFiniteSet(copies)
    /\ \A c \in copies : c.created \in Int /\ c.id \in Int
    /\ \A c, d \in copies : c.id = d.id => c = d
Windowed(policy) == policy \in [Windows -> Nat]
NewerThan(c, copies) == {d \in copies : Newer(d, c)}

\* Fewer copies are an inventory as well.
LEMMA FewerCopies ==
    ASSUME NEW S, Inventoried(S), NEW T, T \subseteq S
    PROVE  Inventoried(T)
<1>1. IsFiniteSet(T) BY FS_Subset DEF Inventoried
<1>2. QED BY <1>1 DEF Inventoried

\* Copies are in a strict total order.
LEMMA NewerOrders ==
    ASSUME NEW S, Inventoried(S)
    PROVE  /\ \A c \in S : ~Newer(c, c)
           /\ \A c, d, e \in S : Newer(c, d) /\ Newer(d, e) => Newer(c, e)
           /\ \A c, d \in S : c = d \/ Newer(c, d) \/ Newer(d, c)
           /\ \A c, d \in S : ~(Newer(c, d) /\ Newer(d, c))
BY DEF Inventoried, Newer

\* A copy has fewer newer ones than any older copy.
LEMMA OlderHasMore ==
    ASSUME NEW S, Inventoried(S)
    PROVE  /\ \A c \in S : /\ IsFiniteSet(NewerThan(c, S))
                           /\ Cardinality(NewerThan(c, S)) \in 0..(Cardinality(S) - 1)
           /\ \A c, d \in S : Newer(c, d) =>
                 Cardinality(NewerThan(c, S)) < Cardinality(NewerThan(d, S))
<1>1. IsFiniteSet(S) /\ Cardinality(S) \in Nat
  BY FS_CardinalityType DEF Inventoried
<1>2. ASSUME NEW c \in S
      PROVE  /\ IsFiniteSet(NewerThan(c, S))
             /\ Cardinality(NewerThan(c, S)) \in 0..(Cardinality(S) - 1)
  <2>1. PICK N : N = NewerThan(c, S) OBVIOUS
  <2>2. N \subseteq S /\ c \notin N BY <2>1, NewerOrders DEF NewerThan
  <2>3. IsFiniteSet(N) /\ Cardinality(N) <= Cardinality(S) /\ Cardinality(N) # Cardinality(S)
    BY <1>1, <2>2, FS_Subset
  <2>4. Cardinality(N) \in Nat BY <2>3, FS_CardinalityType
  <2>5. QED BY <1>1, <2>1, <2>3, <2>4
<1>3. ASSUME NEW c \in S, NEW d \in S, Newer(c, d)
      PROVE  Cardinality(NewerThan(c, S)) < Cardinality(NewerThan(d, S))
  <2>1. PICK N, M : N = NewerThan(c, S) /\ M = NewerThan(d, S) OBVIOUS
  <2>2. N \subseteq M /\ c \in M /\ c \notin N
    BY <1>3, <2>1, NewerOrders DEF NewerThan
  <2>3. IsFiniteSet(M) /\ Cardinality(N) \in Nat /\ Cardinality(M) \in Nat
    BY <1>1, <1>2, <2>1
  <2>4. Cardinality(N) <= Cardinality(M) /\ Cardinality(N) # Cardinality(M)
    BY <2>2, <2>3, FS_Subset
  <2>5. QED BY <2>1, <2>3, <2>4
<1>4. QED BY <1>2, <1>3

\* What the first n turns took.
Taken(s, n) == {s[k] : k \in 1..n}

\* The pass takes every copy once, after exactly the newer ones.
LEMMA TurnsOfAll ==
    ASSUME NEW S, Inventoried(S), NEW s, s = NewestFirst(S), NEW m, m = Cardinality(S)
    PROVE  /\ m \in Nat
           /\ \A n \in 1..m : s[n] \in S
           /\ \A n \in 1..m : NewerThan(s[n], S) = Taken(s, n - 1)
           /\ S = Taken(s, m)
<1>1. m \in Nat /\ IsFiniteSet(S)
  BY FS_CardinalityType DEF Inventoried
<1>2. PICK size : size = [c \in S |-> Cardinality(NewerThan(c, S)) + 1] OBVIOUS
<1>3. \A c \in S : size[c] \in 1..m
  BY <1>1, <1>2, OlderHasMore
<1>4. \A c, d \in S : Newer(c, d) => size[c] < size[d]
  <2>1. \A c \in S : Cardinality(NewerThan(c, S)) \in Int
    BY <1>1, OlderHasMore
  <2>2. QED BY <1>2, <2>1, OlderHasMore
<1>5. \A c, d \in S : size[c] = size[d] => c = d
  BY <1>1, <1>3, <1>4, NewerOrders
<1>6. size \in Injection(S, 1..m)
  BY <1>2, <1>3, <1>5 DEF Injection, IsInjective
<1>7. size \in Surjection(S, 1..m)
  <2>1. IsFiniteSet(1..m) /\ Cardinality(1..m) = m BY <1>1, FS_Interval
  <2>2. QED BY <1>1, <1>6, <2>1, FS_Injection
<1>8. \A n \in 1..m : s[n] \in S /\ size[s[n]] = n
  <2>1. s = [n \in 1..m |-> CHOOSE c \in S : Cardinality(NewerThan(c, S)) = n - 1]
    BY DEF NewestFirst, NewerThan
  <2>2. ASSUME NEW n \in 1..m PROVE \E c \in S : Cardinality(NewerThan(c, S)) = n - 1
    <3>1. PICK c \in S : size[c] = n BY <1>7 DEF Surjection
    <3>2. Cardinality(NewerThan(c, S)) \in Int BY <1>1, OlderHasMore
    <3>3. QED BY <1>2, <3>1, <3>2
  <2>3. ASSUME NEW n \in 1..m PROVE s[n] \in S /\ Cardinality(NewerThan(s[n], S)) = n - 1
    BY <2>1, <2>2
  <2>4. QED BY <1>2, <2>3
<1>9. \A c \in S : \E n \in 1..m : s[n] = c /\ size[c] = n
  BY <1>3, <1>5, <1>8
<1>10. ASSUME NEW n \in 1..m PROVE NewerThan(s[n], S) = Taken(s, n - 1)
  <2>1. ASSUME NEW c \in S, Newer(c, s[n]) PROVE \E k \in 1..(n - 1) : c = s[k]
    <3>1. PICK k \in 1..m : s[k] = c /\ size[c] = k BY <1>9
    <3>2. k < n BY <1>4, <1>8, <2>1, <3>1
    <3>3. QED BY <1>1, <3>1, <3>2
  <2>2. ASSUME NEW k \in 1..(n - 1) PROVE s[k] \in S /\ Newer(s[k], s[n])
    <3>1. k \in 1..m /\ k < n BY <1>1
    <3>2. s[k] \in S /\ s[n] \in S /\ size[s[k]] = k /\ size[s[n]] = n BY <1>8, <3>1
    <3>3. ~Newer(s[n], s[k]) /\ s[n] # s[k] BY <1>1, <1>4, <3>1, <3>2
    <3>4. QED BY <3>2, <3>3, NewerOrders
  <2>3. QED BY <2>1, <2>2 DEF NewerThan, Taken
<1>11. S = Taken(s, m)
  BY <1>8, <1>9 DEF Taken
<1>12. QED BY <1>1, <1>8, <1>10, <1>11

\* f[n] is the state of the pass after n copies.
PassSteps(f, s, m, policy) ==
    f = [n \in 0..m |-> IF n = 0 THEN [seen |-> [w \in Windows |-> {}], keep |-> {}]
                        ELSE Take(f[n - 1], s[n], policy)]

\* There is such a function, and the pass gives its last value.
LEMMA PassChain ==
    ASSUME NEW copies, NEW policy, NEW m, m = Cardinality(Eligible(copies)), m \in Nat
    PROVE  \E f : /\ PassSteps(f, NewestFirst(Eligible(copies)), m, policy)
                  /\ AssignSlots(copies, policy) = f[m].keep
<1>1. PICK s : s = NewestFirst(Eligible(copies)) OBVIOUS
<1>2. PICK N : N = {n \in 0..m : ~\E f : PassSteps(f, s, n, policy)} OBVIOUS
<1>3. 0 \notin N
  <2>1. PICK f : f = [n \in 0..0 |-> [seen |-> [w \in Windows |-> {}], keep |-> {}]] OBVIOUS
  <2>2. PassSteps(f, s, 0, policy) BY <2>1 DEF PassSteps
  <2>3. QED BY <1>2, <2>2
<1>4. ASSUME NEW n \in N PROVE n - 1 \in N
  <2>1. n \in 1..m /\ n - 1 \in 0..m BY <1>2, <1>3
  <2>2. SUFFICES ASSUME NEW f, PassSteps(f, s, n - 1, policy) PROVE FALSE
    BY <1>2, <2>1
  <2>3. PICK g : g = [k \in 0..n |-> IF k = n THEN Take(f[n - 1], s[n], policy) ELSE f[k]]
    OBVIOUS
  <2>4. ASSUME NEW k \in 0..n
        PROVE  g[k] = IF k = 0 THEN [seen |-> [w \in Windows |-> {}], keep |-> {}]
                      ELSE Take(g[k - 1], s[k], policy)
    <3>1. CASE k = n
      <4>1. n # 0 /\ n - 1 # n /\ n - 1 \in 0..n BY <2>1
      <4>2. g[n] = Take(f[n - 1], s[n], policy) BY <2>3, <3>1
      <4>3. g[n - 1] = f[n - 1] BY <2>3, <4>1
      <4>4. QED BY <3>1, <4>1, <4>2, <4>3
    <3>2. CASE k # n
      <4>1. k \in 0..(n - 1) BY <2>1, <3>2
      <4>2. g[k] = f[k] BY <2>3, <3>2
      <4>3. f[k] = IF k = 0 THEN [seen |-> [w \in Windows |-> {}], keep |-> {}]
                   ELSE Take(f[k - 1], s[k], policy)
        BY <2>2, <4>1, Zenon DEF PassSteps
      <4>4. k # 0 => g[k - 1] = f[k - 1] BY <2>1, <2>3, <3>2, <4>1
      <4>5. QED BY <4>2, <4>3, <4>4
    <3>3. QED BY <3>1, <3>2
  <2>5. PassSteps(g, s, n, policy)
    BY <2>3, <2>4, Zenon DEF PassSteps
  <2>6. QED BY <1>2, <2>5
<1>5. N = {}
  <2>1. SUFFICES ASSUME N # {} PROVE FALSE OBVIOUS
  <2>2. N \subseteq Nat BY <1>2
  <2>3. PICK n \in N : \A k \in N : n <= k BY <2>1, <2>2, Least
  <2>4. QED BY <1>4, <2>2, <2>3
<1>6. \E f : PassSteps(f, s, m, policy)
  BY <1>2, <1>5
<1>7. PICK g : g = CHOOSE f : PassSteps(f, s, m, policy) OBVIOUS
<1>8. PassSteps(g, s, m, policy) BY <1>6, <1>7
<1>9. AssignSlots(copies, policy) = g[m].keep
  BY <1>1, <1>7 DEF AssignSlots, PassSteps
<1>10. QED BY <1>1, <1>8, <1>9

SlotsOf(w, copies) == {Slot(w, c) : c \in copies}
\* Finitely many copies have finitely many slots.
LEMMA SlotsFinite ==
    ASSUME NEW S, IsFiniteSet(S), NEW w
    PROVE  IsFiniteSet(SlotsOf(w, S))
<1>1. PICK slot : slot = [c \in S |-> Slot(w, c)] OBVIOUS
<1>2. slot \in Surjection(S, SlotsOf(w, S)) BY <1>1 DEF Surjection, SlotsOf
<1>3. QED BY <1>2, FS_Surjection

\* A window has room for c after the newer copies.
Wants(w, c, newer, policy) ==
    Slot(w, c) \notin SlotsOf(w, newer) /\ Cardinality(SlotsOf(w, newer)) < policy[w]
\* What the pass has seen in each window of the copies it has taken: all their slots, or a
\* window's worth of them.
SeenIs(seen, taken, policy) ==
    \A w \in Windows :
        /\ seen[w] \subseteq SlotsOf(w, taken) /\ IsFiniteSet(seen[w])
        /\ Cardinality(seen[w]) <= policy[w]
        /\ Cardinality(seen[w]) < policy[w] => seen[w] = SlotsOf(w, taken)

\* There is room in what the pass has seen exactly if the window wants the copy.
LEMMA RoomIsWanted ==
    ASSUME NEW taken, IsFiniteSet(taken), NEW policy, Windowed(policy), NEW seen,
           SeenIs(seen, taken, policy), NEW w \in Windows, NEW c
    PROVE  Room(w, c, seen, policy) <=> Wants(w, c, taken, policy)
<1>1. PICK slots : slots = SlotsOf(w, taken) OBVIOUS
<1>2. IsFiniteSet(slots) BY <1>1, SlotsFinite
<1>3. /\ seen[w] \subseteq slots /\ IsFiniteSet(seen[w]) /\ Cardinality(seen[w]) <= policy[w]
      /\ Cardinality(seen[w]) < policy[w] => seen[w] = slots
  BY <1>1 DEF SeenIs
<1>4. Cardinality(seen[w]) <= Cardinality(slots) BY <1>2, <1>3, FS_Subset
<1>5. /\ Cardinality(seen[w]) \in Nat /\ Cardinality(slots) \in Nat /\ policy[w] \in Nat
  BY <1>2, <1>3, FS_CardinalityType DEF Windowed
<1>6. Wants(w, c, taken, policy) <=> Slot(w, c) \notin slots /\ Cardinality(slots) < policy[w]
  BY <1>1 DEF Wants
<1>7. Room(w, c, seen, policy) <=> Slot(w, c) \notin seen[w] /\ Cardinality(seen[w]) < policy[w]
  BY DEF Room
<1>8. CASE Cardinality(seen[w]) < policy[w] BY <1>3, <1>6, <1>7, <1>8
<1>9. CASE ~(Cardinality(seen[w]) < policy[w])
  <2>1. ~(Cardinality(slots) < policy[w]) BY <1>4, <1>5, <1>9
  <2>2. QED BY <1>6, <1>7, <1>9, <2>1
<1>10. QED BY <1>8, <1>9

\* c, if some window wants it.
Wanted(c, newer, policy) == {d \in {c} : \E w \in Windows : Wants(w, d, newer, policy)}

\* A copy more.
LEMMA TakeSees ==
    ASSUME NEW taken, IsFiniteSet(taken), NEW policy, Windowed(policy), NEW state,
           SeenIs(state.seen, taken, policy), NEW c,
           NEW next, next = Take(state, c, policy)
    PROVE  /\ SeenIs(next.seen, taken \cup {c}, policy)
           /\ next.keep = state.keep \cup Wanted(c, taken, policy)
<1>1. PICK seen : seen = state.seen OBVIOUS
<1>2. PICK open : open = {w \in Windows : Room(w, c, seen, policy)} OBVIOUS
<1>3. next = Take(state, c, policy) OBVIOUS
<1>4. /\ next.seen = [w \in Windows |-> seen[w] \cup (IF w \in open THEN {Slot(w, c)} ELSE {})]
      /\ next.keep = state.keep \cup (IF open = {} THEN {} ELSE {c})
  BY <1>1, <1>2, <1>3 DEF Take
<1>5. open = {w \in Windows : Wants(w, c, taken, policy)}
  BY <1>1, <1>2, RoomIsWanted
<1>6. next.keep = state.keep \cup Wanted(c, taken, policy)
  BY <1>4, <1>5 DEF Wanted
<1>7. ASSUME NEW w \in Windows
      PROVE  /\ next.seen[w] \subseteq SlotsOf(w, taken \cup {c}) /\ IsFiniteSet(next.seen[w])
             /\ Cardinality(next.seen[w]) <= policy[w]
             /\ Cardinality(next.seen[w]) < policy[w] => next.seen[w] = SlotsOf(w, taken \cup {c})
  <2>1. PICK slots : slots = SlotsOf(w, taken) OBVIOUS
  <2>2. SlotsOf(w, taken \cup {c}) = slots \cup {Slot(w, c)} BY <2>1 DEF SlotsOf
  <2>3. /\ seen[w] \subseteq slots /\ IsFiniteSet(seen[w]) /\ Cardinality(seen[w]) <= policy[w]
        /\ Cardinality(seen[w]) < policy[w] => seen[w] = slots
    BY <1>1, <2>1 DEF SeenIs
  <2>4. Cardinality(seen[w]) \in Nat /\ policy[w] \in Nat
    BY <2>3, FS_CardinalityType DEF Windowed
  <2>5. CASE w \in open
    <3>1. Slot(w, c) \notin seen[w] /\ Cardinality(seen[w]) < policy[w]
      BY <1>2, <2>5 DEF Room
    <3>2. next.seen[w] = seen[w] \cup {Slot(w, c)} BY <1>4, <2>5
    <3>3. PICK x : x = Slot(w, c) OBVIOUS
    <3>4. IsFiniteSet(seen[w] \cup {x}) /\ Cardinality(seen[w] \cup {x}) = Cardinality(seen[w]) + 1
      BY <2>3, <3>1, <3>3, FS_AddElement
    <3>5. seen[w] = slots BY <2>3, <3>1
    <3>6. Cardinality(next.seen[w]) <= policy[w]
      BY <2>4, <3>1, <3>2, <3>3, <3>4
    <3>7. QED BY <2>2, <3>2, <3>3, <3>4, <3>5, <3>6
  <2>6. CASE w \notin open
    <3>1. next.seen[w] = seen[w] BY <1>4, <2>6
    <3>2. Cardinality(seen[w]) < policy[w] => Slot(w, c) \in seen[w]
      BY <1>2, <2>6 DEF Room
    <3>3. QED BY <2>2, <2>3, <3>1, <3>2
  <2>7. QED BY <2>5, <2>6
<1>8. SeenIs(next.seen, taken \cup {c}, policy) BY <1>7 DEF SeenIs
<1>9. QED BY <1>3, <1>6, <1>8

\* What the policy says, slot by slot.
LEMMA ByTheBookIs ==
    ASSUME NEW copies, NEW policy
    PROVE  \A c : c \in ByTheBook(copies, policy) <=>
                     /\ c \in Healthy(copies)
                     /\ \E w \in Windows : Wants(w, c, NewerThan(c, Healthy(copies)), policy)
BY DEF ByTheBook, Wants, SlotsOf, NewerThan

\* The pass keeps what the policy says slot by slot.
LEMMA PassByTheBook ==
    ASSUME NEW copies, Inventoried(copies), NEW policy, Windowed(policy)
    PROVE  AssignSlots(copies, policy) = ByTheBook(copies, policy)
<1>1. PICK S : S = Eligible(copies) OBVIOUS
<1>2. S = Healthy(copies) /\ S \subseteq copies /\ Inventoried(S)
  <2>1. S = Healthy(copies) /\ S \subseteq copies BY <1>1 DEF Eligible, Healthy
  <2>2. QED BY <2>1, FewerCopies
<1>3. PICK s, m : s = NewestFirst(S) /\ m = Cardinality(S) OBVIOUS
<1>4. m \in Nat
  BY <1>2, <1>3, TurnsOfAll
<1>5. /\ \A n \in 1..m : s[n] \in S
      /\ \A n \in 1..m : NewerThan(s[n], S) = Taken(s, n - 1)
  BY <1>2, <1>3, TurnsOfAll
<1>6. S = Taken(s, m)
  BY <1>2, <1>3, TurnsOfAll
<1>7. PICK f : PassSteps(f, s, m, policy) /\ AssignSlots(copies, policy) = f[m].keep
  BY <1>1, <1>3, <1>4, PassChain
<1>8. PICK want : want = [c \in S |-> \E w \in Windows : Wants(w, c, NewerThan(c, S), policy)]
  OBVIOUS
<1>9. PICK taken : taken = [n \in 0..m |-> Taken(s, n)]
  OBVIOUS
<1>10. ASSUME NEW n \in 0..m PROVE taken[n] \subseteq S /\ IsFiniteSet(taken[n])
  <2>1. taken[n] \subseteq S
    <3>1. \A k \in 1..n : k \in 1..m BY <1>4
    <3>2. QED BY <1>5, <1>9, <3>1 DEF Taken
  <2>2. QED BY <1>2, <2>1, FS_Subset DEF Inventoried
<1>11. PICK N : N = {n \in 0..m : ~ /\ SeenIs(f[n].seen, taken[n], policy)
                                    /\ f[n].keep = {c \in taken[n] : want[c]}}
  OBVIOUS
<1>12. 0 \notin N
  <2>1. 0 \in 0..m BY <1>4
  <2>2. f[0] = [seen |-> [w \in Windows |-> {}], keep |-> {}]
    BY <1>7, <2>1, Zenon DEF PassSteps
  <2>3. taken[0] = {} BY <1>9, <2>1 DEF Taken
  <2>4. IsFiniteSet({}) /\ Cardinality({}) = 0 BY FS_EmptySet
  <2>5. ASSUME NEW w \in Windows
        PROVE  /\ f[0].seen[w] \subseteq SlotsOf(w, taken[0]) /\ IsFiniteSet(f[0].seen[w])
               /\ Cardinality(f[0].seen[w]) <= policy[w]
               /\ Cardinality(f[0].seen[w]) < policy[w] => f[0].seen[w] = SlotsOf(w, taken[0])
    <3>1. f[0].seen[w] = {} BY <2>2
    <3>2. policy[w] \in Nat BY DEF Windowed
    <3>3. SlotsOf(w, {}) = {} BY DEF SlotsOf
    <3>4. QED BY <2>3, <2>4, <3>1, <3>2, <3>3
  <2>6. SeenIs(f[0].seen, taken[0], policy) BY <2>5 DEF SeenIs
  <2>7. f[0].keep = {c \in taken[0] : want[c]} BY <2>2, <2>3
  <2>8. QED BY <1>11, <2>6, <2>7
<1>13. ASSUME NEW n \in N PROVE n - 1 \in N
  <2>1. n \in 1..m /\ n - 1 \in 0..m BY <1>4, <1>11, <1>12
  <2>2. SUFFICES ASSUME SeenIs(f[n - 1].seen, taken[n - 1], policy),
                        f[n - 1].keep = {c \in taken[n - 1] : want[c]}
                 PROVE  FALSE
    BY <1>11, <2>1
  <2>3. PICK c : c = s[n] OBVIOUS
  <2>4. f[n] = Take(f[n - 1], c, policy)
    <3>1. n \in 0..m /\ n # 0 BY <2>1
    <3>2. QED BY <1>7, <2>3, <3>1, Zenon DEF PassSteps
  <2>5. taken[n - 1] = NewerThan(c, S) /\ c \in S
    BY <1>5, <1>9, <2>1, <2>3
  <2>6. taken[n] = taken[n - 1] \cup {c}
    <3>1. n \in 0..m /\ \A k : k \in 1..n <=> k \in 1..(n - 1) \/ k = n BY <2>1
    <3>2. QED BY <1>9, <2>1, <2>3, <3>1 DEF Taken
  <2>7. /\ SeenIs(f[n].seen, taken[n], policy)
        /\ f[n].keep = f[n - 1].keep \cup Wanted(c, taken[n - 1], policy)
    <3>1. PICK state, before : state = f[n - 1] /\ before = taken[n - 1] OBVIOUS
    <3>2. IsFiniteSet(before) /\ SeenIs(state.seen, before, policy)
      BY <1>10, <2>1, <2>2, <3>1
    <3>3. PICK next : next = Take(state, c, policy) OBVIOUS
    <3>4. /\ SeenIs(next.seen, before \cup {c}, policy)
          /\ next.keep = state.keep \cup Wanted(c, before, policy)
      BY <3>2, <3>3, TakeSees, Z3
    <3>5. f[n] = next /\ taken[n] = before \cup {c} BY <2>4, <2>6, <3>1, <3>3
    <3>6. QED BY <3>1, <3>4, <3>5
  <2>8. want[c] <=> \E w \in Windows : Wants(w, c, taken[n - 1], policy)
    BY <1>8, <2>5
  <2>9. Wanted(c, taken[n - 1], policy) = {d \in {c} : want[d]}
    BY <2>8 DEF Wanted
  <2>10. f[n].keep = {d \in taken[n] : want[d]}
    BY <2>2, <2>6, <2>7, <2>9
  <2>11. QED BY <1>11, <2>7, <2>10
<1>14. N = {}
  <2>1. SUFFICES ASSUME N # {} PROVE FALSE OBVIOUS
  <2>2. N \subseteq Nat BY <1>11
  <2>3. PICK n \in N : \A k \in N : n <= k BY <2>1, <2>2, Least
  <2>4. QED BY <1>13, <2>2, <2>3
<1>15. f[m].keep = {c \in S : want[c]}
  <2>1. m \in 0..m BY <1>4
  <2>2. taken[m] = S BY <1>6, <1>9, <2>1
  <2>3. QED BY <1>11, <1>14, <2>1, <2>2
<1>16. ByTheBook(copies, policy) = {c \in S : want[c]}
  <2>1. \A c \in S : want[c] <=> \E w \in Windows : Wants(w, c, NewerThan(c, S), policy)
    BY <1>8
  <2>2. \A c : c \in ByTheBook(copies, policy) <=> c \in S /\ want[c]
    BY <1>2, <2>1, ByTheBookIs
  <2>3. QED BY <2>2
<1>17. QED BY <1>7, <1>15, <1>16

\* The newest of an inventory is the one that is newer than all the others.
LEMMA NewestIs ==
    ASSUME NEW S, Inventoried(S), S # {}
    PROVE  /\ Newest(S) \in S /\ \A d \in S \ {Newest(S)} : Newer(Newest(S), d)
           /\ \A c \in S : (\A d \in S \ {c} : Newer(c, d)) => c = Newest(S)
<1>1. PICK m : m = Cardinality(S) OBVIOUS
<1>2. m \in Nat /\ m # 0
  BY <1>1, FS_EmptySet, FS_CardinalityType DEF Inventoried
<1>3. PICK s : s = NewestFirst(S) OBVIOUS
<1>4. /\ \A n \in 1..m : s[n] \in S
      /\ \A n \in 1..m : NewerThan(s[n], S) = Taken(s, n - 1)
  BY <1>1, <1>3, TurnsOfAll
<1>5. PICK c : c = s[1] OBVIOUS
<1>6. c \in S /\ NewerThan(c, S) = {}
  <2>1. 1 \in 1..m /\ 1..(1 - 1) = {} BY <1>2
  <2>2. NewerThan(c, S) = Taken(s, 1 - 1) BY <1>4, <1>5, <2>1
  <2>3. QED BY <1>4, <1>5, <2>1, <2>2 DEF Taken
<1>7. \A d \in S \ {c} : Newer(c, d)
  BY <1>6, NewerOrders DEF NewerThan
<1>8. Newest(S) \in S /\ \A d \in S \ {Newest(S)} : Newer(Newest(S), d)
  BY <1>6, <1>7 DEF Newest
<1>9. \A d \in S : (\A e \in S \ {d} : Newer(d, e)) => d = Newest(S)
  <2>1. PICK top : top = Newest(S) OBVIOUS
  <2>2. top \in S /\ \A d \in S \ {top} : Newer(top, d) BY <1>8, <2>1
  <2>3. \A d \in S : (\A e \in S \ {d} : Newer(d, e)) => d = top BY <2>2, NewerOrders
  <2>4. QED BY <2>1, <2>3
<1>10. QED BY <1>8, <1>9

\* The one pass from the newest copy to the oldest (_assign_gfs_slots) keeps, besides the
\* latest healthy copy and the pinned ones, exactly what the policy says window by window:
\* a window's full slots never make another window lose or gain a copy.
THEOREM RetentionFollowsPolicy ==
    ASSUME NEW copies, Inventoried(copies), NEW policy, Windowed(policy)
    PROVE  FollowsPolicy(copies, policy)
<1>1. AssignSlots(copies, policy) = ByTheBook(copies, policy)
  BY PassByTheBook
<1>2. QED BY <1>1 DEF FollowsPolicy, PlanRetention

\* A copy a window wants of all the healthy ones it wants of fewer as well.
LEMMA FewerWanted ==
    ASSUME NEW S, NEW T, T \subseteq S, IsFiniteSet(S), NEW policy, Windowed(policy),
           NEW w \in Windows, NEW c, Wants(w, c, S, policy)
    PROVE  Wants(w, c, T, policy)
<1>1. PICK slots, fewer : slots = SlotsOf(w, S) /\ fewer = SlotsOf(w, T) OBVIOUS
<1>2. fewer \subseteq slots BY <1>1 DEF SlotsOf
<1>3. IsFiniteSet(slots) BY <1>1, SlotsFinite
<1>4. /\ Cardinality(fewer) <= Cardinality(slots)
      /\ Cardinality(fewer) \in Nat /\ Cardinality(slots) \in Nat
  BY <1>2, <1>3, FS_Subset, FS_CardinalityType
<1>5. Slot(w, c) \notin slots /\ Cardinality(slots) < policy[w] BY <1>1 DEF Wants
<1>6. policy[w] \in Nat BY DEF Windowed
<1>7. Slot(w, c) \notin fewer /\ Cardinality(fewer) < policy[w] BY <1>2, <1>4, <1>5, <1>6
<1>8. QED BY <1>1, <1>7 DEF Wants

\* Applying a plan and planning again deletes nothing more, whatever copies there are
\* and whatever the policy is: retention (plan_retention) is not worn down by being run.
THEOREM RetentionIsStable ==
    ASSUME NEW copies, Inventoried(copies), NEW policy, Windowed(policy)
    PROVE  IsStable(copies, policy)
<1>1. PICK K : K = PlanRetention(copies, policy).keep OBVIOUS
<1>2. K = ByTheBook(copies, policy) \cup Protected(copies)
  BY <1>1, RetentionFollowsPolicy DEF FollowsPolicy
<1>3. Inventoried(Healthy(copies)) /\ Healthy(copies) \subseteq copies
  <2>1. Healthy(copies) \subseteq copies BY DEF Healthy
  <2>2. QED BY <2>1, FewerCopies
<1>4. LatestHealthy(copies) \subseteq Healthy(copies)
  BY <1>3, NewestIs DEF LatestHealthy
<1>5. K \subseteq copies
  BY <1>2, <1>3, <1>4 DEF ByTheBook, Protected
<1>6. Inventoried(K) /\ Inventoried(Healthy(K)) /\ Healthy(K) \subseteq Healthy(copies)
  <2>1. Healthy(K) \subseteq copies /\ Healthy(K) \subseteq Healthy(copies) BY <1>5 DEF Healthy
  <2>2. QED BY <1>5, <2>1, FewerCopies
<1>7. LatestHealthy(copies) \subseteq LatestHealthy(K)
  <2>1. CASE Healthy(copies) = {} BY <2>1 DEF LatestHealthy
  <2>2. CASE Healthy(copies) # {}
    <3>1. PICK top : top = Newest(Healthy(copies)) OBVIOUS
    <3>2. top \in Healthy(copies) /\ \A d \in Healthy(copies) \ {top} : Newer(top, d)
      BY <1>3, <2>2, <3>1, NewestIs
    <3>3. LatestHealthy(copies) = {top} BY <2>2, <3>1 DEF LatestHealthy
    <3>4. top \in Healthy(K) BY <1>2, <3>2, <3>3 DEF Protected, Healthy
    <3>5. \A d \in Healthy(K) \ {top} : Newer(top, d) BY <1>6, <3>2
    <3>6. top = Newest(Healthy(K)) BY <1>6, <3>4, <3>5, NewestIs
    <3>7. LatestHealthy(K) = {top} BY <3>4, <3>6 DEF LatestHealthy
    <3>8. QED BY <3>3, <3>7
  <2>3. QED BY <2>1, <2>2
<1>8. Protected(copies) \subseteq Protected(K)
  BY <1>2, <1>7 DEF Protected
<1>9. ASSUME NEW c \in ByTheBook(copies, policy) PROVE c \in ByTheBook(K, policy)
  <2>1. PICK H, F : H = Healthy(copies) /\ F = Healthy(K) OBVIOUS
  <2>2. c \in H /\ c \in F BY <1>2, <2>1 DEF ByTheBook, Healthy
  <2>3. PICK w \in Windows : Wants(w, c, NewerThan(c, H), policy)
    BY <2>1, ByTheBookIs
  <2>4. NewerThan(c, F) \subseteq NewerThan(c, H) /\ NewerThan(c, H) \subseteq H
    BY <1>6, <2>1 DEF NewerThan
  <2>5. IsFiniteSet(NewerThan(c, H)) BY <1>3, <2>1, <2>4, FS_Subset DEF Inventoried
  <2>6. Wants(w, c, NewerThan(c, F), policy) BY <2>3, <2>4, <2>5, FewerWanted
  <2>7. QED BY <2>1, <2>2, <2>6, ByTheBookIs
<1>10. PICK L : L = PlanRetention(K, policy).keep OBVIOUS
<1>11. L = ByTheBook(K, policy) \cup Protected(K)
  BY <1>6, <1>10, RetentionFollowsPolicy DEF FollowsPolicy
<1>12. K \subseteq L
  BY <1>2, <1>8, <1>9, <1>11
<1>13. PlanRetention(K, policy).delete = K \ L
  BY <1>10 DEF PlanRetention
<1>14. QED BY <1>1, <1>12, <1>13 DEF IsStable

----------------------------------------------------------------------------
(* A prune and the copies it must not touch.                                *)

\* What the planner gets of an inventory, but for the baselines.
Aged(view) == {[id |-> c, created |-> view[c].graph.created, healthy |-> TRUE,
                pinned |-> FALSE] : c \in HealthyIn(view)}
\* The copies a window of the policy keeps.  The plan drops the last copy by time, which the
\* planner protects, unless it is kept for its facts (planned.keep_ids - planned.protected_ids).
Filling(view, policy) ==
    InventoryIds(ByTheBook(Aged(view), policy)) \ InventoryIds(LatestHealthy(Aged(view)))

\* The copies no plan of an inventory selects, whatever the baselines.
Kept(view, policy) == InventoryIds(RetentionLatest(Facts(view)))
                        \cup InventoryIds(Unresolved(Facts(view))) \cup Filling(view, policy)
Removable == HealthyIn(cmd.view) \ Kept(cmd.view, cmd.policy)

\* They depend on what the prune saw and was given, and on nothing else.
LEMMA KeptPrimed == Kept(cmd.view, cmd.policy)' = Kept(cmd'.view, cmd'.policy)
BY DEF Kept, Facts, HealthyIn, Filling, Aged

LEMMA RemovableStays ==
    ASSUME cmd'.view = cmd.view, cmd'.policy = cmd.policy
    PROVE  Removable' = Removable
<1>1. Kept(cmd.view, cmd.policy)' = Kept(cmd.view, cmd.policy) BY KeptPrimed
<1>2. QED BY <1>1 DEF Removable, HealthyIn

\* What a prune saw of the copies it keeps is what is there.
NewestStay ==
    pc \in Pruning =>
        /\ cmd.doomed \cap Kept(cmd.view, cmd.policy) = {}
        /\ \A d \in Kept(cmd.view, cmd.policy) :
              Present(d) /\ bundles[d].graph = cmd.view[d].graph

\* A directory a prune saw has the content it saw, as long as it is that directory.
SeenStays ==
    pc \in Pruning => \A d \in HealthyIn(cmd.view) :
        /\ cmd.view[d].inode < inode
        /\ Present(d) /\ bundles[d].inode = cmd.view[d].inode => bundles[d].graph = cmd.view[d].graph

\* A directory that an intent names and the prune did not see verify does not verify.
TodoSeen ==
    pc \in Pruning => \A i \in cmd.todo :
        Whole(i) /\ SeenOther(i) /\ Present(intents[i].copy) /\ SameIdentity(i)
            => ~bundles[intents[i].copy].intact

\* What is about to be removed is what the plan of the prune saw and selected.
ChosenSeen ==
    /\ pc = "intending" => cmd.target \in Removable
    /\ pc = "writing" =>
          cmd.doc.copy \in Removable /\ cmd.doc.graph = cmd.view[cmd.doc.copy].graph
    /\ pc = "completing" =>
          LET c == intents[cmd.work].copy
          IN Present(c) /\ SameIdentity(cmd.work) /\ SameContent(cmd.work) =>
                c \in Removable /\ bundles[c].graph = cmd.view[c].graph
    /\ pc = "renaming" =>
          LET c == intents[cmd.work].copy
          IN c \in Removable /\ bundles[c].graph = cmd.view[c].graph

KeptInv == NewestStay /\ SeenStays /\ TodoSeen /\ ChosenSeen

\* An inventory holds finitely many copies.
LEMMA FactsFinite == \A view : IsFiniteSet(Facts(view))
<1> SUFFICES ASSUME NEW view PROVE IsFiniteSet(Facts(view)) OBVIOUS
<1> DEFINE record == [c \in HealthyIn(view) |->
                        [id |-> c, created |-> view[c].graph.created, facts |-> view[c].graph.facts]]
<1>1. IsFiniteSet(HealthyIn(view))
  <2>1. HealthyIn(view) \in SUBSET CopyIds BY DEF HealthyIn
  <2>2. QED BY <2>1, CopyIdsAssumption, FS_Subset
<1>2. record \in Surjection(HealthyIn(view), Facts(view)) BY DEF Surjection, Facts
<1> HIDE DEF record
<1>3. QED BY <1>1, <1>2, FS_Surjection

\* Names and times of the copies a prune saw can be compared.
LEMMA FactsTyped ==
    ASSUME TypeOK
    PROVE  \A a \in Facts(cmd.view) : a.id \in Int /\ a.created \in Int
<1> SUFFICES ASSUME NEW c \in HealthyIn(cmd.view)
             PROVE  c \in Int /\ cmd.view[c].graph.created \in Int
  BY DEF Facts
<1>1. c \in Int BY CopyIdsAssumption DEF HealthyIn
<1>2. cmd.view[c] \in [inode : 1..MaxInode, graph : Graphs, intact : {TRUE}]
  <2>1. cmd.view \in View BY DEF TypeOK
  <2>2. QED BY <2>1 DEF HealthyIn, View
<1>3. \A v \in [inode : 1..MaxInode, graph : Graphs, intact : {TRUE}] : v.graph \in Graphs
  OBVIOUS
<1>4. QED BY <1>1, <1>2, <1>3, GraphsAssumption, Zenon

LEMMA KeptHealthy == \A view, policy : Kept(view, policy) \subseteq HealthyIn(view)
<1> SUFFICES ASSUME NEW view, NEW policy PROVE Kept(view, policy) \subseteq HealthyIn(view)
  OBVIOUS
<1>1. /\ InventoryIds(RetentionLatest(Facts(view))) \subseteq HealthyIn(view)
      /\ InventoryIds(Unresolved(Facts(view))) \subseteq HealthyIn(view)
  BY DEF InventoryIds, RetentionLatest, Maximal, Unresolved, Readable, Facts, HealthyIn
<1>2. Filling(view, policy) \subseteq HealthyIn(view)
  <2>1. ByTheBook(Aged(view), policy) \subseteq Aged(view) BY DEF ByTheBook, Healthy
  <2>2. InventoryIds(Aged(view)) \subseteq HealthyIn(view) BY DEF InventoryIds, Aged
  <2>3. QED BY <2>1, <2>2 DEF Filling, InventoryIds
<1>3. QED BY <1>1, <1>2 DEF Kept

\* An inventory can be planned.
LEMMA PlannedInventory ==
    ASSUME NEW view \in View, NEW pins, NEW copies,
           copies = {[id |-> c, created |-> view[c].graph.created, healthy |-> TRUE,
                      pinned |-> c \in pins] : c \in HealthyIn(view)}
    PROVE  Inventoried(copies)
<1>1. PICK H : H = HealthyIn(view) OBVIOUS
<1>2. PICK copy : copy = [c \in H |-> [id |-> c, created |-> view[c].graph.created,
                                       healthy |-> TRUE, pinned |-> c \in pins]]
  OBVIOUS
<1>3. H \in SUBSET CopyIds /\ IsFiniteSet(H)
  <2>1. H \in SUBSET CopyIds BY <1>1 DEF HealthyIn
  <2>2. QED BY <2>1, CopyIdsAssumption, FS_Subset
<1>4. copy \in Surjection(H, copies) BY <1>1, <1>2 DEF Surjection
<1>5. IsFiniteSet(copies) BY <1>3, <1>4, FS_Surjection
<1>6. ASSUME NEW c \in H PROVE c \in Int /\ view[c].graph.created \in Int
  <2>1. c \in Int BY <1>3, CopyIdsAssumption
  <2>2. view[c] \in [inode : 1..MaxInode, graph : Graphs, intact : {TRUE}]
    BY <1>1 DEF HealthyIn, View
  <2>3. view[c].graph \in Graphs BY <2>2
  <2>4. QED BY <2>1, <2>3, GraphsAssumption
<1>7. \A e \in copies : \E c \in H : e = copy[c] BY <1>1, <1>2
<1>8. \A c \in H : copy[c].id = c /\ copy[c].created = view[c].graph.created BY <1>2
<1>9. /\ \A e \in copies : e.created \in Int /\ e.id \in Int
      /\ \A e, d \in copies : e.id = d.id => e = d
  BY <1>6, <1>7, <1>8
<1>10. QED BY <1>5, <1>9 DEF Inventoried

\* A window keeps a copy or not, pinned or not.
LEMMA PlanFills ==
    ASSUME NEW view \in View, NEW pins, NEW policy \in Policies
    PROVE  DeletePlan(view, pins, policy) \cap Filling(view, policy) = {}
<1>1. PICK H : H = HealthyIn(view) OBVIOUS
<1>2. PICK A : A = Aged(view) OBVIOUS
<1>3. PICK C : C = {[id |-> c, created |-> view[c].graph.created, healthy |-> TRUE,
                     pinned |-> c \in pins] : c \in H}
  OBVIOUS
<1>4. Inventoried(A)
  <2>1. PICK none : none = {} OBVIOUS
  <2>2. PICK B : B = {[id |-> c, created |-> view[c].graph.created, healthy |-> TRUE,
                       pinned |-> c \in none] : c \in H}
    OBVIOUS
  <2>3. Inventoried(B) BY <1>1, <2>2, PlannedInventory
  <2>4. ASSUME NEW c \in H
        PROVE  [id |-> c, created |-> view[c].graph.created, healthy |-> TRUE, pinned |-> FALSE]
                 = [id |-> c, created |-> view[c].graph.created, healthy |-> TRUE,
                    pinned |-> c \in none]
    <3>1. (c \in none) = FALSE BY <2>1
    <3>2. QED BY <3>1
  <2>5. A = B BY <1>1, <1>2, <2>2, <2>4, Zenon DEF Aged
  <2>6. QED BY <2>3, <2>5
<1>5. Inventoried(C) BY <1>1, <1>3, PlannedInventory
<1>6. Healthy(A) = A /\ Healthy(C) = C BY <1>2, <1>3 DEF Aged, Healthy
<1>7. /\ \A a \in A : \E c \in C : c.id = a.id /\ c.created = a.created
      /\ \A c \in C : \E a \in A : c.id = a.id /\ c.created = a.created
      /\ \A c \in C : c.pinned => c.id \in pins
  <2>1. ASSUME NEW a \in A PROVE \E c \in C : c.id = a.id /\ c.created = a.created
    <3>1. PICK c \in H : a = [id |-> c, created |-> view[c].graph.created, healthy |-> TRUE,
                             pinned |-> FALSE]
      BY <1>1, <1>2 DEF Aged
    <3>2. PICK d : d = [id |-> c, created |-> view[c].graph.created, healthy |-> TRUE,
                        pinned |-> c \in pins]
      OBVIOUS
    <3>3. d \in C BY <1>3, <3>2
    <3>4. QED BY <3>1, <3>2, <3>3
  <2>2. ASSUME NEW c \in C
        PROVE  /\ \E a \in A : c.id = a.id /\ c.created = a.created
               /\ c.pinned => c.id \in pins
    <3>1. PICK d \in H : c = [id |-> d, created |-> view[d].graph.created, healthy |-> TRUE,
                             pinned |-> d \in pins]
      BY <1>3
    <3>2. PICK a : a = [id |-> d, created |-> view[d].graph.created, healthy |-> TRUE,
                        pinned |-> FALSE]
      OBVIOUS
    <3>3. a \in A BY <1>1, <1>2, <3>2 DEF Aged
    <3>4. QED BY <3>1, <3>2, <3>3
  <2>3. QED BY <2>1, <2>2
<1>8. Windowed(policy) BY PoliciesAssumption DEF Windowed
<1>9. SUFFICES ASSUME NEW x \in DeletePlan(view, pins, policy), x \in Filling(view, policy)
               PROVE  FALSE
  OBVIOUS
<1>10. PICK a \in ByTheBook(A, policy) : a.id = x
  BY <1>2, <1>9 DEF Filling, InventoryIds
<1>11. a \in A /\ a \notin LatestHealthy(A) /\ A # {}
  BY <1>2, <1>6, <1>9, <1>10, ByTheBookIs DEF Filling, InventoryIds
<1>12. PICK c \in C : c.id = a.id /\ c.created = a.created BY <1>7, <1>11
<1>13. c \in ByTheBook(C, policy)
  <2>1. PICK w \in Windows : Wants(w, a, NewerThan(a, A), policy)
    BY <1>6, <1>10, ByTheBookIs
  <2>2. Slot(w, a) = Slot(w, c) BY <1>12 DEF Slot
  <2>3. SlotsOf(w, NewerThan(a, A)) = SlotsOf(w, NewerThan(c, C))
    <3>1. ASSUME NEW d \in A, Newer(d, a)
          PROVE  \E e \in C : Newer(e, c) /\ Slot(w, e) = Slot(w, d)
      BY <1>7, <1>12, <3>1 DEF Newer, Slot
    <3>2. ASSUME NEW d \in C, Newer(d, c)
          PROVE  \E e \in A : Newer(e, a) /\ Slot(w, e) = Slot(w, d)
      BY <1>7, <1>12, <3>2 DEF Newer, Slot
    <3>3. QED BY <3>1, <3>2 DEF SlotsOf, NewerThan
  <2>4. Wants(w, c, NewerThan(c, C), policy) BY <2>1, <2>2, <2>3 DEF Wants
  <2>5. QED BY <1>6, <2>4, ByTheBookIs
<1>14. c \notin LatestHealthy(C)
  <2>1. PICK top : top = Newest(A) OBVIOUS
  <2>2. top \in A /\ \A d \in A \ {top} : Newer(top, d)
    BY <1>4, <1>11, <2>1, NewestIs
  <2>3. top # a BY <1>6, <1>11, <2>1 DEF LatestHealthy
  <2>4. Newer(top, a) BY <1>11, <2>2, <2>3
  <2>5. PICK e \in C : e.id = top.id /\ e.created = top.created BY <1>7, <2>2
  <2>6. Newer(e, c) BY <1>12, <2>4, <2>5 DEF Newer
  <2>7. PICK last : last = Newest(C) OBVIOUS
  <2>8. last \in C /\ \A d \in C \ {last} : Newer(last, d)
    BY <1>5, <1>12, <2>7, NewestIs
  <2>9. last # c BY <1>5, <2>5, <2>6, <2>8, NewerOrders
  <2>10. QED BY <1>6, <2>7, <2>9 DEF LatestHealthy
<1>15. PICK planned : planned = Planned(view, pins, policy) OBVIOUS
<1>16. /\ planned.protected = Protected(C)
       /\ planned.keep = ByTheBook(C, policy) \cup Protected(C)
  <2>1. planned = PlanRetention(C, policy) BY <1>1, <1>3, <1>15 DEF Planned
  <2>2. planned.protected = Protected(C) BY <2>1 DEF PlanRetention
  <2>3. QED BY <1>5, <1>8, <2>1, <2>2, RetentionFollowsPolicy DEF FollowsPolicy
<1>17. x \notin Ours(view, pins) /\ x \notin pins BY <1>9 DEF DeletePlan, Ours
<1>18. c \notin Protected(C) BY <1>7, <1>10, <1>12, <1>14, <1>17 DEF Protected
<1>19. x \in InventoryIds(planned.keep) BY <1>10, <1>12, <1>13, <1>16 DEF InventoryIds
<1>20. x \notin InventoryIds(planned.protected)
  <2>1. Protected(C) \subseteq C
    <3>1. LatestHealthy(C) \subseteq C BY <1>5, <1>6, <1>12, NewestIs DEF LatestHealthy
    <3>2. QED BY <3>1 DEF Protected
  <2>2. \A d \in Protected(C) : d.id # c.id BY <1>5, <1>18, <2>1 DEF Inventoried
  <2>3. QED BY <1>10, <1>12, <1>16, <2>2 DEF InventoryIds
<1>21. QED BY <1>9, <1>15, <1>19, <1>20 DEF DeletePlan

\* _plan_from_inventory keeps the newest facts, the copies nobody can compare and those that
\* fill a window.
LEMMA PlanKeeps ==
    ASSUME NEW view \in View, NEW pins, NEW policy \in Policies
    PROVE  DeletePlan(view, pins, policy) \cap Kept(view, policy) = {}
<1>1. DeletePlan(view, pins, policy) \cap Filling(view, policy) = {} BY PlanFills
<1>2. QED BY <1>1 DEF DeletePlan, Ours, Kept

\* Copies that stay where they are keep their content; a new directory is new.
LEMMA ContentStays ==
    ASSUME IInv, [Next]_vars, pc \in Pruning, NEW d \in CopyIds, Present(d), Present(d)'
    PROVE  /\ bundles'[d].graph = bundles[d].graph
           /\ \/ /\ bundles'[d].inode = bundles[d].inode
                 /\ bundles'[d].intact => bundles[d].intact
              \/ bundles'[d].inode = inode
<1> USE DEF IInv, TypeOK, Present
<1>1. ASSUME NEW c \in CopyIds, NEW g \in Graphs, Publish(c, g) PROVE FALSE
  BY <1>1 DEF Publish, Pruning
<1>2. ASSUME NEW c \in CopyIds, Damage(c)
      PROVE  /\ bundles'[d].graph = bundles[d].graph
             /\ bundles'[d].inode = bundles[d].inode
             /\ bundles'[d].intact => bundles[d].intact
  <2>1. bundles[d] \in Dir /\ bundles[c] \in Dir BY <1>2 DEF Damage
  <2>2. QED BY <1>2, <2>1 DEF Damage, Dir
<1>3. ASSUME NEW c \in CopyIds, Recreate(c)
      PROVE  /\ bundles'[d].graph = bundles[d].graph
             /\ bundles'[d] = bundles[d] \/ bundles'[d].inode = inode
  BY <1>3 DEF Recreate, NewDir
<1>4. CASE Rename
  BY <1>4 DEF Rename
<1>5. CASE UNCHANGED bundles
  BY <1>5
<1>6. QED
  BY <1>1, <1>2, <1>3, <1>4, <1>5
     DEF Next, vars, store, Capture, Prune, CaptureBegin, ReceiveBegin, ReceiveAdmit, Register,
         Return, Fail, Protect, RestoreBegin, RestoreEnd, PruneBegin, Resume, ResumeTorn, Raise,
         IntentCreate, Doom, Replan, ReplanRefused, IntentWrite, Complete, RemoveTree, Forget,
         PruneEnd, Crash, LoseRegistration

\* Only somebody who puts a copy back adds a directory during a prune.
LEMMA OnlyRecreateAdds ==
    ASSUME IInv, [Next]_vars, pc \in Pruning, NEW d \in CopyIds, ~Present(d), Present(d)'
    PROVE  bundles'[d].inode = inode
<1> USE DEF IInv, TypeOK, Present
<1>1. ASSUME NEW c \in CopyIds, NEW g \in Graphs, Publish(c, g) PROVE FALSE
  BY <1>1 DEF Publish, Pruning
<1>2. ASSUME NEW c \in CopyIds, Damage(c) PROVE FALSE
  BY <1>2 DEF Damage
<1>3. ASSUME NEW c \in CopyIds, Recreate(c) PROVE bundles'[d].inode = inode
  BY <1>3 DEF Recreate, NewDir
<1>4. CASE Rename
  BY <1>4 DEF Rename
<1>5. QED
  BY <1>1, <1>2, <1>3, <1>4
     DEF Next, vars, store, Capture, Prune, CaptureBegin, ReceiveBegin, ReceiveAdmit, Register,
         Return, Fail, Protect, RestoreBegin, RestoreEnd, PruneBegin, Resume, ResumeTorn, Raise,
         IntentCreate, Doom, Replan, ReplanRefused, IntentWrite, Complete, RemoveTree, Forget,
         PruneEnd, Crash, LoseRegistration

\* A prune works on one intent, and not on one it has still to resume.
LEMMA TodoIntentStays ==
    ASSUME IInv, [Next]_vars, pc \in Pruning, pc' \in Pruning, cmd'.todo \subseteq cmd.todo,
           NEW i \in cmd'.todo
    PROVE  intents'[i] = intents[i]
<1> USE DEF IInv, TypeOK, AtPlace
<1>1. ASSUME NEW a \in Intents, IntentCreate(a) PROVE FALSE
  BY <1>1 DEF IntentCreate
<1>2. CASE IntentWrite \/ Forget
  BY <1>2 DEF IntentWrite, Forget
<1>3. CASE UNCHANGED intents
  BY <1>3
<1>4. QED
  BY <1>1, <1>2, <1>3
     DEF Next, vars, store, Capture, Prune, CaptureBegin, ReceiveBegin, ReceiveAdmit, Register,
         Return, Fail, Protect, RestoreBegin, RestoreEnd, PruneBegin, Resume, ResumeTorn, Raise,
         Doom, Replan, ReplanRefused, Complete, RemoveTree, Publish, Damage, Recreate, Rename,
         PruneEnd, Crash, LoseRegistration

\* A prune begins, plans again, or goes on with the inventory it has.
LEMMA ViewStays ==
    ASSUME IInv, [Next]_vars, pc' \in Pruning
    PROVE  \/ /\ cmd'.view = Inventory /\ UNCHANGED <<store, inode>>
              /\ cmd'.doomed \cap Kept(Inventory, cmd'.policy) = {}
              /\ pc' \in {"resuming", "deleting"}
           \/ /\ pc \in Pruning /\ cmd'.view = cmd.view /\ cmd'.doomed \subseteq cmd.doomed
              /\ cmd'.policy = cmd.policy /\ cmd'.todo \subseteq cmd.todo /\ inode <= inode'
<1> DEFINE Goes == /\ pc \in Pruning /\ cmd'.view = cmd.view /\ cmd'.doomed \subseteq cmd.doomed
                   /\ cmd'.policy = cmd.policy
                   /\ cmd'.todo \subseteq cmd.todo /\ inode <= inode'
<1> USE DEF IInv, TypeOK
<1>1. ASSUME NEW p \in Policies, NEW f \in BOOLEAN, PruneBegin(p, f)
      PROVE  /\ cmd'.view = Inventory /\ UNCHANGED <<store, inode>>
             /\ cmd'.doomed \cap Kept(Inventory, cmd'.policy) = {}
             /\ pc' \in {"resuming", "deleting"}
  <2>1. Inventory \in View BY InspectKnown
  <2>2. DeletePlan(Inventory, Copies, p) \cap Kept(Inventory, p) = {} BY <2>1, PlanKeeps
  <2>3. cmd'.policy = p /\ cmd'.doomed = DeletePlan(Inventory, Copies, p)
    BY <1>1 DEF PruneBegin, NoCmd
  <2>4. QED BY <1>1, <2>2, <2>3 DEF PruneBegin, NoCmd, Goto
<1>2. ASSUME Replan
      PROVE  /\ cmd'.view = Inventory /\ UNCHANGED <<store, inode>>
             /\ cmd'.doomed \cap Kept(Inventory, cmd'.policy) = {}
             /\ pc' \in {"resuming", "deleting"}
  <2>1. Inventory \in View /\ cmd.policy \in Policies BY InspectKnown
  <2>2. DeletePlan(Inventory, Copies, cmd.policy) \cap Kept(Inventory, cmd.policy) = {}
    BY <2>1, PlanKeeps
  <2>3. /\ cmd'.policy = cmd.policy
        /\ cmd'.doomed = DeletePlan(Inventory, Copies, cmd.policy) \ cmd.held
    BY <1>2 DEF Replan
  <2>4. QED BY <1>2, <2>2, <2>3 DEF Replan, Goto
<1>3. ASSUME NEW i \in Intents, Resume(i) \/ IntentCreate(i) PROVE Goes
  <2>1. /\ cmd'.view = cmd.view /\ cmd'.doomed \subseteq cmd.doomed
        /\ cmd'.todo \subseteq cmd.todo /\ cmd'.policy = cmd.policy
    BY <1>3 DEF Resume, IntentCreate
  <2>2. pc \in Pruning /\ inode' = inode BY <1>3 DEF Resume, IntentCreate, Pruning
  <2>3. QED BY <2>1, <2>2
<1>4. ASSUME NEW c \in CopyIds, Doom(c) PROVE Goes
  <2>1. Inspect(c) = cmd.view[c] BY <1>4 DEF Doom, End, Goto, Pruning
  <2>2. cmd' = [cmd EXCEPT !.doomed = @ \ {c}, !.target = c] BY <1>4, <2>1 DEF Doom
  <2>3. /\ cmd'.view = cmd.view /\ cmd'.doomed \subseteq cmd.doomed
        /\ cmd'.todo \subseteq cmd.todo /\ cmd'.policy = cmd.policy
    BY <2>2
  <2>4. QED BY <1>4, <2>3 DEF Doom, Pruning
<1>5. CASE IntentWrite \/ Complete \/ Rename \/ RemoveTree \/ Forget
  BY <1>5 DEF IntentWrite, Complete, Rename, RemoveTree, Forget, End, Goto, Pruning
<1>6. CASE UNCHANGED <<pc, cmd, inode>>
  BY <1>6
<1>7. ASSUME NEW c \in CopyIds, Recreate(c) PROVE Goes
  BY <1>7 DEF Recreate
<1>8. ASSUME NEW c \in CopyIds, Protect(c) \/ RestoreBegin(c) \/ RestoreEnd(c) \/ Damage(c)
      PROVE  UNCHANGED <<pc, cmd, inode>>
  BY <1>8 DEF Protect, RestoreBegin, RestoreEnd, Damage
<1>9. CASE LoseRegistration
  BY <1>6, <1>9 DEF LoseRegistration
<1>10. ASSUME NEW c \in CopyIds, NEW g \in Graphs, Publish(c, g) PROVE FALSE
  BY <1>10 DEF Publish, Goto, Pruning
<1>11. ~(CaptureBegin \/ ReceiveBegin \/ ReceiveAdmit \/ Register \/ Return \/ Fail \/ Raise \/ Crash)
  BY DEF CaptureBegin, ReceiveBegin, ReceiveAdmit, Register, Return, Fail, End, Goto, Pruning,
         Raise, Crash
<1>12. CASE UNCHANGED vars
  BY <1>6, <1>12 DEF vars
<1>13. QED
  BY <1>1, <1>2, <1>3, <1>4, <1>5, <1>6, <1>7, <1>8, <1>9, <1>10, <1>11, <1>12,
     ConfirmsAssumption
     DEF Next, Capture, Prune, ResumeTorn, ReplanRefused, PruneEnd

\* The inventory of a prune that plans is what is in the store.
LEMMA FreshView ==
    ASSUME IInv, cmd'.view = Inventory, UNCHANGED <<store, inode>>, NEW d \in HealthyIn(cmd'.view)
    PROVE  /\ d \in CopyIds /\ Present(d)' /\ bundles'[d] = cmd'.view[d]
           /\ cmd'.view[d].inode < inode'
<1>1. d \in HealthyIn(Inventory) /\ d \in CopyIds BY DEF HealthyIn
<1>2. Inventory[d] = bundles[d] /\ Present(d) BY <1>1, InspectKnown DEF IInv
<1>3. QED BY <1>1, <1>2 DEF IInv, FreshInode, store, Present

LEMMA NextNewestStay == IInv /\ KeptInv /\ [Next]_vars => NewestStay'
<1> SUFFICES ASSUME IInv, KeptInv, [Next]_vars, pc' \in Pruning
             PROVE  /\ cmd'.doomed \cap Kept(cmd'.view, cmd'.policy) = {}
                    /\ \A d \in Kept(cmd'.view, cmd'.policy) :
                          Present(d)' /\ bundles'[d].graph = cmd'.view[d].graph
  BY KeptPrimed DEF NewestStay
<1>1. CASE /\ cmd'.view = Inventory /\ UNCHANGED <<store, inode>>
           /\ cmd'.doomed \cap Kept(Inventory, cmd'.policy) = {}
  BY <1>1, FreshView, KeptHealthy
<1>2. CASE /\ pc \in Pruning /\ cmd'.view = cmd.view /\ cmd'.doomed \subseteq cmd.doomed
           /\ cmd'.policy = cmd.policy
  <2>1. ASSUME NEW d \in Kept(cmd.view, cmd.policy)
        PROVE  Present(d)' /\ bundles'[d].graph = cmd'.view[d].graph
    <3>1. Present(d) /\ bundles[d].graph = cmd.view[d].graph /\ d \in CopyIds
      BY <1>2, KeptHealthy DEF KeptInv, NewestStay, HealthyIn
    <3>2. Present(d)'
      <4>1. CASE Rename /\ d = intents[cmd.work].copy
        BY <4>1 DEF KeptInv, ChosenSeen, Removable, Rename
      <4>2. QED BY <3>1, <4>1, OnlyRenameTakes
    <3>3. QED BY <1>2, <3>1, <3>2, ContentStays
  <2>2. cmd'.doomed \cap Kept(cmd'.view, cmd'.policy) = {} BY <1>2 DEF KeptInv, NewestStay
  <2>3. QED BY <1>2, <2>1, <2>2
<1>3. QED BY <1>1, <1>2, ViewStays

LEMMA NextSeenStays == IInv /\ KeptInv /\ [Next]_vars => SeenStays'
<1> SUFFICES ASSUME IInv, KeptInv, [Next]_vars, pc' \in Pruning, NEW d \in HealthyIn(cmd'.view)
             PROVE  /\ cmd'.view[d].inode < inode'
                    /\ Present(d)' /\ bundles'[d].inode = cmd'.view[d].inode
                          => bundles'[d].graph = cmd'.view[d].graph
  BY DEF SeenStays, HealthyIn
<1>1. CASE cmd'.view = Inventory /\ UNCHANGED <<store, inode>>
  BY <1>1, FreshView
<1>2. CASE pc \in Pruning /\ cmd'.view = cmd.view /\ inode <= inode'
  <2>1. /\ d \in CopyIds /\ cmd.view[d].inode \in Int /\ cmd.view[d].inode < inode
        /\ Present(d) /\ bundles[d].inode = cmd.view[d].inode => bundles[d].graph = cmd.view[d].graph
    <3>1. d \in CopyIds /\ d \in HealthyIn(cmd.view) BY <1>2 DEF HealthyIn
    <3>2. cmd.view[d].inode \in Int
      <4>1. cmd.view \in View BY DEF IInv, TypeOK
      <4>2. cmd.view[d] \in [inode : 1..MaxInode, graph : Graphs, intact : {TRUE}]
        BY <3>1, <4>1 DEF HealthyIn, View
      <4>3. \A v \in [inode : 1..MaxInode, graph : Graphs, intact : {TRUE}] : v.inode \in 1..MaxInode
        OBVIOUS
      <4>4. cmd.view[d].inode \in 1..MaxInode BY <4>2, <4>3, Zenon
      <4>5. \A n \in 1..MaxInode : n \in Int BY BoundsAssumption
      <4>6. QED BY <4>4, <4>5, Zenon
    <3>3. QED BY <1>2, <3>1, <3>2 DEF KeptInv, SeenStays
  <2>2. cmd'.view[d].inode < inode'
    <3>1. inode \in Int /\ inode' \in Int BY NextTypeOK DEF IInv, TypeOK
    <3>2. QED BY <1>2, <2>1, <3>1
  <2>3. ASSUME Present(d)', bundles'[d].inode = cmd'.view[d].inode
        PROVE  bundles'[d].graph = cmd'.view[d].graph
    <3>1. CASE Present(d)
      <4>1. inode \in Int BY DEF IInv, TypeOK
      <4>2. bundles'[d].inode # inode BY <1>2, <2>1, <2>3, <4>1
      <4>3. bundles'[d].graph = bundles[d].graph /\ bundles'[d].inode = bundles[d].inode
        BY <1>2, <2>1, <2>3, <3>1, <4>2, ContentStays
      <4>4. QED BY <1>2, <2>1, <2>3, <3>1, <4>3
    <3>2. CASE ~Present(d)
      <4>1. bundles'[d].inode = inode
        BY <1>2, <2>1, <2>3, <3>2, OnlyRecreateAdds
      <4>2. inode \in Int BY DEF IInv, TypeOK
      <4>3. QED BY <1>2, <2>1, <2>3, <4>1, <4>2
    <3>3. QED BY <3>1, <3>2
  <2>4. QED BY <2>2, <2>3
<1>3. QED BY <1>1, <1>2, ViewStays

LEMMA NextTodoSeen == IInv /\ KeptInv /\ [Next]_vars => TodoSeen'
<1> SUFFICES ASSUME IInv, KeptInv, [Next]_vars, pc' \in Pruning, NEW i \in cmd'.todo,
                    Whole(i)', SeenOther(i)', Present(intents[i].copy)', SameIdentity(i)'
             PROVE  ~bundles'[intents'[i].copy].intact
  BY DEF TodoSeen
<1> DEFINE c == intents'[i].copy
<1>0. i \in Intents /\ intents'[i] \in Intent /\ c \in CopyIds
  BY NextTypeOK DEF TypeOK, Whole, Intent
<1>1. CASE cmd'.view = Inventory /\ UNCHANGED <<store, inode>>
  <2>1. Inspect(c) \in {Absent, Held}
    <3>1. CASE Inspect(c) \notin {Absent, Held}
      <4>1. Inventory[c] = bundles[c] BY <1>0, <3>1, InspectKnown DEF IInv, Inventory
      <4>2. cmd'.view[c] = bundles'[c] /\ cmd'.view[c] \notin {Absent, Held}
        BY <1>0, <1>1, <3>1, <4>1 DEF Inventory, store
      <4>3. bundles'[c].inode = intents'[i].inode BY DEF SameIdentity
      <4>4. ~(cmd'.view[c] \notin {Absent, Held} /\ cmd'.view[c].inode = intents'[i].inode)
        BY DEF SeenOther, SeenAs
      <4>5. QED BY <4>2, <4>3, <4>4
    <3>2. QED BY <3>1
  <2>2. bundles'[c] = bundles[c] /\ bundles[c] \in Dir
    BY <1>0, <1>1 DEF Present, store, IInv, TypeOK
  <2>3. QED BY <2>1, <2>2, NamesAssumption DEF Inspect, Present
<1>2. CASE pc \in Pruning /\ cmd'.view = cmd.view /\ cmd'.todo \subseteq cmd.todo
  <2>1. i \in cmd.todo BY <1>2
  <2>2. intents'[i] = intents[i] BY <1>0, <1>2, <2>1, TodoIntentStays
  <2>3. intents[i].inode < inode /\ intents[i].inode \in Int /\ inode \in Int
    BY <1>0, <2>2 DEF IInv, FreshInode, Whole, Intent, TypeOK
  <2>4. bundles'[c].inode = intents[i].inode BY <2>2 DEF SameIdentity
  <2>5. Present(c) BY <1>0, <1>2, <2>3, <2>4, OnlyRecreateAdds
  <2>6. /\ bundles'[c].inode = bundles[c].inode
        /\ bundles'[c].intact => bundles[c].intact
    BY <1>0, <1>2, <2>3, <2>4, <2>5, ContentStays
  <2>7. ~bundles[c].intact
    <3>1. Whole(i) /\ SeenOther(i) BY <1>2, <2>2 DEF Whole, SeenOther, SeenAs
    <3>2. SameIdentity(i) BY <2>2, <2>4, <2>6 DEF SameIdentity
    <3>3. QED BY <1>2, <2>1, <2>2, <2>5, <3>1, <3>2 DEF KeptInv, TodoSeen
  <2>8. QED BY <2>6, <2>7
<1>3. QED BY <1>1, <1>2, ViewStays

LEMMA NextChosenSeen == IInv /\ KeptInv /\ [Next]_vars => ChosenSeen'
<1> SUFFICES ASSUME IInv, KeptInv, [Next]_vars PROVE ChosenSeen' OBVIOUS
<1> USE DEF IInv, TypeOK, Goto
<1>1. CASE pc' \notin {"intending", "writing", "completing", "renaming"}
  BY <1>1 DEF ChosenSeen
<1>2. CASE UNCHANGED <<pc, cmd, intents>>
  <2>1. Removable' = Removable /\ cmd'.view = cmd.view
    BY <1>2, RemovableStays
  <2>2. CASE pc \in {"intending", "writing"}
    BY <1>2, <2>1, <2>2 DEF KeptInv, ChosenSeen
  <2>3. CASE pc = "completing"
    <3>1. /\ pc \in Pruning /\ intents[cmd.work] \in Intent
          /\ intents[cmd.work].inode < inode /\ intents[cmd.work].inode \in Int /\ inode \in Int
      BY <2>3 DEF AtPlace, Whole, Intent, FreshInode, Pruning
    <3>2. PICK c \in CopyIds : c = intents[cmd.work].copy BY <3>1 DEF Intent
    <3>3. ASSUME Present(c)', bundles'[c].inode = intents[cmd.work].inode, bundles'[c].intact,
                 bundles'[c].graph = intents[cmd.work].graph
          PROVE  c \in Removable /\ bundles'[c].graph = cmd.view[c].graph
      <4>1. Present(c) BY <3>1, <3>3, OnlyRecreateAdds
      <4>2. /\ bundles'[c].graph = bundles[c].graph /\ bundles'[c].inode = bundles[c].inode
            /\ bundles[c].intact
        BY <3>1, <3>3, <4>1, ContentStays
      <4>3. SameIdentity(cmd.work) /\ SameContent(cmd.work)
        BY <3>2, <3>3, <4>2 DEF SameIdentity, SameContent
      <4>4. QED BY <2>3, <3>2, <4>1, <4>2, <4>3 DEF KeptInv, ChosenSeen
    <3>4. QED
      BY <1>2, <2>1, <2>3, <3>2, <3>3 DEF ChosenSeen, SameIdentity, SameContent, Present
  <2>4. CASE pc = "renaming"
    <3>1. pc \in Pruning /\ intents[cmd.work].copy \in CopyIds
      BY <2>4 DEF AtPlace, Whole, Intent, Pruning
    <3>2. PICK c \in CopyIds : c = intents[cmd.work].copy BY <3>1
    <3>3. Present(c) BY <2>4, <3>2 DEF AtPlace
    <3>4. Present(c)' BY <1>2, <2>4, <3>2, NextAtPlace DEF AtPlace, Present
    <3>5. bundles'[c].graph = bundles[c].graph BY <3>1, <3>3, <3>4, ContentStays
    <3>6. c \in Removable /\ bundles[c].graph = cmd.view[c].graph
      BY <2>4, <3>2 DEF KeptInv, ChosenSeen
    <3>7. QED BY <1>2, <2>1, <2>4, <3>2, <3>5, <3>6 DEF ChosenSeen
  <2>5. QED BY <1>1, <1>2, <2>2, <2>3, <2>4
<1>3. ASSUME NEW i \in Intents, Resume(i) PROVE ChosenSeen'
  <2> DEFINE c == intents[i].copy
  <2>1. /\ cmd'.work = i /\ cmd'.view = cmd.view /\ UNCHANGED store /\ i \in cmd.todo
        /\ pc \in Pruning /\ cmd'.policy = cmd.policy
    BY <1>3 DEF Resume, Pruning
  <2>2. CASE Spared(i)
    BY <1>1, <1>3, <2>2 DEF Resume
  <2>3. CASE ~Spared(i)
    <3>1. pc' = "completing" BY <1>3, <2>3 DEF Resume
    <3>2. Whole(i) BY <1>3 DEF Resume, TodoKnown, Pruning, Whole
    <3>3. ASSUME Present(c), SameIdentity(i), SameContent(i)
          PROVE  c \in Removable /\ bundles[c].graph = cmd.view[c].graph
      <4>1. SeenAs(c, intents[i].inode)
        BY <2>1, <3>2, <3>3 DEF KeptInv, TodoSeen, SeenOther, SameContent
      <4>2. c \in cmd.doomed BY <2>3, <4>1 DEF Spared
      <4>3. c \in Removable
        BY <2>1, <4>2 DEF Removable, KeptInv, NewestStay, PlanSparesBaselines
      <4>4. cmd.view[c].inode = bundles[c].inode BY <3>3, <4>1 DEF SeenAs, SameIdentity
      <4>5. QED BY <2>1, <3>3, <4>3, <4>4 DEF KeptInv, SeenStays, Removable
    <3>4. Removable' = Removable BY <2>1, RemovableStays
    <3>5. QED
      BY <2>1, <3>1, <3>3, <3>4 DEF ChosenSeen, store, Present, SameIdentity, SameContent
  <2>4. QED BY <2>2, <2>3
<1>4. CASE IntentWrite
  <2>1. /\ pc = "writing" /\ pc' = "completing" /\ UNCHANGED <<cmd, bundles>>
        /\ intents'[cmd.work] = cmd.doc
    BY <1>4 DEF IntentWrite, AtPlace
  <2>2. cmd.doc.copy \in Removable /\ cmd.doc.graph = cmd.view[cmd.doc.copy].graph
    BY <2>1 DEF KeptInv, ChosenSeen
  <2>3. Removable' = Removable BY <2>1, RemovableStays
  <2>4. QED BY <2>1, <2>2, <2>3 DEF ChosenSeen, SameContent
<1>5. CASE Complete
  <2>1. CASE pc' # "renaming" BY <1>1, <1>5, <2>1 DEF Complete, End
  <2>2. CASE pc' = "renaming"
    <3>1. /\ pc = "completing" /\ UNCHANGED <<store, cmd>>
          /\ Present(intents[cmd.work].copy) /\ SameIdentity(cmd.work) /\ SameContent(cmd.work)
      BY <1>5, <2>2 DEF Complete, End
    <3>2. Removable' = Removable BY <3>1, RemovableStays
    <3>3. QED BY <2>2, <3>1, <3>2 DEF KeptInv, ChosenSeen, store
  <2>3. QED BY <2>1, <2>2
<1>6. ASSUME NEW c \in CopyIds, Doom(c) PROVE ChosenSeen'
  <2>1. CASE Inspect(c) # cmd.view[c] BY <1>1, <1>6, <2>1 DEF Doom, End
  <2>2. CASE Inspect(c) = cmd.view[c]
    <3>1. cmd' = [cmd EXCEPT !.doomed = @ \ {c}, !.target = c] /\ pc' = "intending"
      BY <1>6, <2>2 DEF Doom
    <3>2. cmd'.target = c /\ cmd'.view = cmd.view /\ cmd'.policy = cmd.policy BY <3>1
    <3>3. c \in Removable
      BY <1>6 DEF Doom, Removable, KeptInv, NewestStay, PlanSparesBaselines, Pruning
    <3>4. Removable' = Removable BY <3>2, RemovableStays
    <3>5. QED BY <3>1, <3>2, <3>3, <3>4 DEF ChosenSeen
  <2>3. QED BY <2>1, <2>2
<1>7. ASSUME NEW i \in Intents, IntentCreate(i) PROVE ChosenSeen'
  <2>1. /\ pc = "intending" /\ pc' = "writing" /\ cmd'.view = cmd.view
        /\ cmd'.doc.copy = cmd.target /\ cmd'.doc.graph = cmd.view[cmd.target].graph
        /\ cmd'.policy = cmd.policy
    BY <1>7 DEF IntentCreate
  <2>2. cmd.target \in Removable BY <2>1 DEF KeptInv, ChosenSeen
  <2>3. Removable' = Removable BY <2>1, RemovableStays
  <2>4. QED BY <2>1, <2>2, <2>3 DEF ChosenSeen
<1>8. ASSUME NEW c \in CopyIds,
             RestoreBegin(c) \/ RestoreEnd(c) \/ Damage(c) \/ Recreate(c) \/ Protect(c)
      PROVE  UNCHANGED <<pc, cmd, intents>>
  BY <1>8 DEF RestoreBegin, RestoreEnd, Damage, Recreate, Protect, store
<1>9. LoseRegistration \/ UNCHANGED vars => UNCHANGED <<pc, cmd, intents>>
  BY DEF LoseRegistration, vars, store
<1>10. ASSUME NEW c \in CopyIds, NEW g \in Graphs, Publish(c, g) PROVE ChosenSeen'
  BY <1>1, <1>10 DEF Publish
<1>11. ASSUME NEW p \in Policies, NEW f \in BOOLEAN, PruneBegin(p, f) PROVE ChosenSeen'
  BY <1>1, <1>11 DEF PruneBegin
<1>12. CASE \/ CaptureBegin \/ ReceiveBegin \/ ReceiveAdmit \/ Register \/ Return \/ Fail
            \/ Raise \/ Crash \/ Replan \/ Rename \/ RemoveTree \/ Forget
  BY <1>1, <1>12
     DEF CaptureBegin, ReceiveBegin, ReceiveAdmit, Register, Return, Fail, Raise, Crash, Replan,
         Rename, RemoveTree, Forget, End
<1>13. QED
  BY <1>2, <1>3, <1>4, <1>5, <1>6, <1>7, <1>8, <1>9, <1>10, <1>11, <1>12, ConfirmsAssumption
     DEF Next, Capture, Prune, ResumeTorn, ReplanRefused, PruneEnd

----------------------------------------------------------------------------
(* The first baseline.                                                      *)

\* A store is marked before anything can be registered or pruned in it.
MarkedFirst ==
    /\ registered # {} => started
    /\ \A i \in Intents : intents[i] # Absent => started
    /\ pc \in Pruning \cup {"capturing", "publishing", "registering"} => started

\* Whoever is to register the first baseline is alone with it.
FirstAlone ==
    /\ pc = "registering" => cmd.first
    /\ pc \in {"capturing", "publishing", "registering"} /\ cmd.first =>
          /\ \A i \in Intents : intents[i] = Absent
          /\ \A c \in CopyIds : Present(c) => pc = "registering" /\ c = cmd.target

FirstInv == MarkedFirst /\ FirstAlone

\* Only a capture marks a store, and the mark stays.
LEMMA MarkStays == [Next]_vars /\ started => started'
BY DEF Next, vars, store, Capture, Prune, CaptureBegin, ReceiveBegin, ReceiveAdmit, Register,
       Return, Fail, Protect, RestoreBegin, RestoreEnd, PruneBegin, Resume, ResumeTorn, Raise,
       IntentCreate, Doom, Replan, ReplanRefused, IntentWrite, Complete, RemoveTree, Forget,
       PruneEnd, Crash, LoseRegistration, Publish, Damage, Recreate, Rename, Admit

LEMMA NextMarkedFirst == IInv /\ FirstInv /\ [Next]_vars => MarkedFirst'
<1> SUFFICES ASSUME IInv, FirstInv, [Next]_vars PROVE MarkedFirst' OBVIOUS
<1> USE DEF FirstInv, MarkedFirst
<1>1. CASE started
  BY <1>1, MarkStays
<1>2. CASE ~started
  <2>0. /\ registered = {} /\ (\A i \in Intents : intents[i] = Absent)
        /\ pc \notin Pruning \cup {"capturing", "publishing", "registering"}
    BY <1>2
  <2>2. ~ValidBaselines(Inventory, registered) BY <2>0 DEF ValidBaselines
  <2>3. CASE CaptureBegin \/ ReceiveAdmit
    BY <2>0, <2>2, <2>3 DEF CaptureBegin, ReceiveAdmit, Admit
  <2>4. ASSUME NEW c \in CopyIds, Protect(c) \/ RestoreBegin(c) \/ RestoreEnd(c)
                                     \/ Damage(c) \/ Recreate(c)
        PROVE  UNCHANGED <<registered, intents, pc>>
    BY <2>2, <2>4 DEF Protect, RestoreBegin, RestoreEnd, Damage, Recreate, store
  <2>5. \A c \in CopyIds, g \in Graphs : ~Publish(c, g)
    BY <2>0 DEF Publish
  <2>6. ~Prune /\ ~LoseRegistration /\ ~Register
    BY <2>0
       DEF Prune, Resume, ResumeTorn, IntentCreate, Doom, Replan, ReplanRefused, IntentWrite,
           Complete, Rename, RemoveTree, Forget, PruneEnd, Pruning, LoseRegistration, Register
  <2>7. \A p \in Policies, f \in BOOLEAN : ~PruneBegin(p, f) BY <2>2 DEF PruneBegin
  <2>8. CASE ReceiveBegin \/ Return \/ Fail \/ Crash
    BY <2>0, <2>8 DEF ReceiveBegin, Return, Fail, Crash, End, Goto, store, Pruning
  <2>9. CASE UNCHANGED vars
    BY <2>0, <2>9 DEF vars, store
  <2>10. QED
    BY <2>0, <2>3, <2>4, <2>5, <2>6, <2>7, <2>8, <2>9, ConfirmsAssumption DEF Next, Capture
<1>3. QED BY <1>1, <1>2

LEMMA NextFirstAlone == IInv /\ FirstInv /\ [Next]_vars => FirstAlone'
<1> SUFFICES ASSUME IInv, FirstInv, [Next]_vars PROVE FirstAlone' OBVIOUS
<1> USE DEF IInv, TypeOK, FirstInv, FirstAlone, Goto
<1>1. CASE pc' \notin {"capturing", "publishing", "registering"}
  BY <1>1
<1>2. ASSUME NEW r \in BOOLEAN, Admit(r), UNCHANGED <<bundles, intents>>,
             pc' \in {"capturing", "publishing"}
      PROVE  FirstAlone'
  BY <1>2 DEF Admit, MarkedFirst, NoChildren, Present
<1>3. CASE CaptureBegin
  BY <1>2, <1>3 DEF CaptureBegin
<1>4. CASE ReceiveAdmit
  BY <1>2, <1>4 DEF ReceiveAdmit
<1>5. ASSUME NEW c \in CopyIds, NEW g \in Graphs, Publish(c, g) PROVE FirstAlone'
  <2>1. cmd'.target = c /\ cmd'.first = cmd.first /\ UNCHANGED intents
        /\ pc \in {"capturing", "publishing"}
    BY <1>5 DEF Publish
  <2>2. pc' = IF cmd.first THEN "registering" ELSE "returning" BY <1>5 DEF Publish
  <2>3. \A d \in CopyIds \ {c} : Present(d)' => Present(d) BY <1>5 DEF Publish, Present
  <2>4. CASE cmd.first BY <2>1, <2>2, <2>3, <2>4
  <2>5. CASE ~cmd.first BY <1>1, <2>2, <2>5
  <2>6. QED BY <2>4, <2>5
<1>6. CASE /\ UNCHANGED <<pc, cmd, intents>>
           /\ \A c \in CopyIds : Present(c)' => Present(c) \/ \E i \in Intents : intents[i] # Absent
  BY <1>6
<1>7. ASSUME NEW c \in CopyIds, RestoreBegin(c) \/ RestoreEnd(c) \/ Damage(c) \/ Recreate(c)
      PROVE  FirstAlone'
  <2>1. UNCHANGED <<pc, cmd, intents>>
    BY <1>7 DEF RestoreBegin, RestoreEnd, Damage, Recreate, store
  <2>2. ASSUME NEW d \in CopyIds, Present(d)'
        PROVE  Present(d) \/ \E i \in Intents : intents[i] # Absent
    BY <1>7, <2>2 DEF RestoreBegin, RestoreEnd, Damage, Recreate, store, Present, Names, Whole
  <2>3. QED BY <1>6, <2>1, <2>2
<1>8. CASE LoseRegistration \/ UNCHANGED vars
  BY <1>6, <1>8 DEF LoseRegistration, vars, store, Present
<1>9. ASSUME NEW c \in CopyIds, Protect(c) PROVE FirstAlone'
  BY <1>1, <1>9 DEF Protect, Alone
<1>10. ASSUME NEW p \in Policies, NEW f \in BOOLEAN, PruneBegin(p, f) PROVE FirstAlone'
  BY <1>1, <1>10 DEF PruneBegin
<1>11. CASE Prune
  BY <1>1, <1>11
     DEF Prune, Resume, ResumeTorn, Raise, IntentCreate, Doom, Replan, ReplanRefused, IntentWrite,
         Complete, Rename, RemoveTree, Forget, PruneEnd, End
<1>12. CASE ReceiveBegin \/ Register \/ Return \/ Fail \/ Crash
  BY <1>1, <1>12 DEF ReceiveBegin, Register, Return, Fail, Crash, End
<1>13. QED
  BY <1>3, <1>4, <1>5, <1>7, <1>8, <1>9, <1>10, <1>11, <1>12, ConfirmsAssumption
     DEF Next, Capture

----------------------------------------------------------------------------
(* The theorems.                                                           *)

\* What every step of capture, prune, protect, restore and of their interruptions keeps.
THEOREM StoreInvariant == Spec => []IInv
<1>1. Init => IInv BY InitIInv
<1>2. IInv /\ [Next]_vars => IInv'
  BY NextTypeOK, NextBaselines, NextReaders, NextFresh, NextTombs, NextPlan, NextTodo,
     NextAtPlace DEF IInv
<1>3. QED BY <1>1, <1>2, PTL DEF Spec

\* The variables of the store keep their types.
THEOREM StoreTypeCorrect == Spec => []TypeOK
<1>1. IInv => TypeOK BY DEF IInv
<1>2. QED BY <1>1, StoreInvariant, PTL

\* No prune, resumed after any crash, takes a baseline registered by then out of the store.
THEOREM StoreBaselinesStay == Spec => []BaselinesStay
<1>1. IInv => BaselinesStay BY DEF IInv
<1>2. QED BY <1>1, StoreInvariant, PTL

\* No tombstone is ever left without the intent that lets a later prune finish it.
THEOREM StoreTombstonesExplained == Spec => []TombstonesExplained
<1>1. IInv => TombstonesExplained BY DEF IInv
<1>2. QED BY <1>1, StoreInvariant, PTL

\* A copy that is being verified or restored stays in the store.
THEOREM StoreReadersKeepTheirCopy == Spec => []ReadersKeepTheirCopy
<1>1. IInv => ReadersKeepTheirCopy BY DEF IInv
<1>2. QED BY <1>1, StoreInvariant, PTL

\* What a prune knows of the copies it keeps and removes, and who registers first.
THEOREM StoreHandlesSeenCopies == Spec => [](IInv /\ KeptInv /\ FirstInv)
<1>1. Init => KeptInv /\ FirstInv
  BY DEF Init, KeptInv, NewestStay, SeenStays, TodoSeen, ChosenSeen, FirstInv, MarkedFirst,
         FirstAlone, Pruning, NoCmd
<1>2. IInv /\ KeptInv /\ FirstInv /\ [Next]_vars => (KeptInv /\ FirstInv)'
  BY NextNewestStay, NextSeenStays, NextTodoSeen, NextChosenSeen, NextMarkedFirst, NextFirstAlone
     DEF KeptInv, FirstInv
<1>3. QED BY <1>1, <1>2, StoreInvariant, PTL DEF Spec

\* A committed fact never leaves the store with the copy a prune removes: another copy, which
\* verified in the inventory the prune acts on, holds it with the same content.
THEOREM StoreFactsKept == Spec => FactsKept
<1> DEFINE Keeps == \A c \in CopyIds : Renamed(c) =>
              LET f == bundles[c].graph.facts
              IN /\ f # Unreadable
                 /\ \A x \in DOMAIN f : \E d \in CopyIds \ {c} : Holds(d, x, f[x])
<1>1. IInv /\ KeptInv /\ [Next]_vars => [Keeps]_vars
  <2> SUFFICES ASSUME IInv, KeptInv, [Next]_vars, NEW c \in CopyIds, Renamed(c)
               PROVE  LET f == bundles[c].graph.facts
                      IN /\ f # Unreadable
                         /\ \A x \in DOMAIN f : \E d \in CopyIds \ {c} : Holds(d, x, f[x])
    OBVIOUS
  <2> DEFINE f == bundles[c].graph.facts
             copies == Facts(cmd.view)
             own == [id |-> c, created |-> cmd.view[c].graph.created,
                     facts |-> cmd.view[c].graph.facts]
  <2>1. Rename /\ c = intents[cmd.work].copy
    BY OnlyRenameTakes DEF Renamed, Present
  <2>2. c \in Removable /\ bundles[c].graph = cmd.view[c].graph
    BY <2>1 DEF Rename, KeptInv, ChosenSeen
  <2>3. own \in copies /\ own \notin Unresolved(copies) /\ own \notin RetentionLatest(copies)
    <3>1. own \in copies BY <2>2 DEF Facts, Removable
    <3>2. c \notin InventoryIds(Unresolved(copies)) /\ c \notin InventoryIds(RetentionLatest(copies))
      BY <2>2 DEF Removable, Kept
    <3>3. QED BY <3>1, <3>2 DEF InventoryIds
  <2>4. f = own.facts /\ f # Unreadable
    BY <2>2, <2>3 DEF Unresolved, Readable
  <2>5. PICK d \in RetentionLatest(copies) :
           d \in copies /\ d.facts # Unreadable /\ Covers(d.facts, own.facts)
    <3>1. IsFiniteSet(copies) BY FactsFinite
    <3>2. \A a, b \in copies : a.id = b.id => a = b BY DEF Facts
    <3>3. \A a \in copies : a.id \in Int /\ a.created \in Int
      BY FactsTyped DEF IInv
    <3> HIDE DEF copies, own
    <3>4. QED BY <2>3, <3>1, <3>2, <3>3, LatestCovers
  <2>6. PICK e \in HealthyIn(cmd.view) :
           d = [id |-> e, created |-> cmd.view[e].graph.created, facts |-> cmd.view[e].graph.facts]
    BY <2>5 DEF Facts
  <2>7. e \in CopyIds \ {c} BY <2>3, <2>5, <2>6 DEF HealthyIn
  <2>8. e \in Kept(cmd.view, cmd.policy) BY <2>5, <2>6 DEF Kept, InventoryIds
  <2>9. Present(e) /\ bundles[e].graph = cmd.view[e].graph
    BY <2>1, <2>8 DEF Rename, KeptInv, NewestStay, Pruning
  <2>10. ASSUME NEW x \in DOMAIN f PROVE Holds(e, x, f[x])
    BY <2>4, <2>5, <2>6, <2>9 DEF Holds, Covers, Conflict
  <2>11. QED BY <2>4, <2>7, <2>10
<1>2. QED BY <1>1, StoreHandlesSeenCopies, PTL DEF Spec, FactsKept

\* A prune (prune_recovery_store) takes no copy that a window of its policy keeps, neither with
\* the deletions it resumes nor with those it begins.  The last copy by time is the exception of
\* _plan_from_inventory: it stays for its facts only.
WindowsKept == [][\A c \in CopyIds : Renamed(c) => c \notin Filling(cmd.view, cmd.policy)]_vars
\* The copies that fill a window stay as the prune saw them until it ends.
FillingStays ==
    pc \in Pruning => \A c \in Filling(cmd.view, cmd.policy) :
        Present(c) /\ bundles[c].graph = cmd.view[c].graph

\* Pruning the store leaves every window of the policy what it is to keep: what
\* RetentionFollowsPolicy says of a plan holds of the directories, whatever is protected,
\* restored, damaged or interrupted meanwhile.
THEOREM StoreWindowsKept == Spec => WindowsKept /\ []FillingStays
<1> DEFINE Keeps == \A c \in CopyIds : Renamed(c) => c \notin Filling(cmd.view, cmd.policy)
<1>1. IInv /\ KeptInv /\ [Next]_vars => [Keeps]_vars
  <2> SUFFICES ASSUME IInv, KeptInv, [Next]_vars, NEW c \in CopyIds, Renamed(c)
               PROVE  c \notin Filling(cmd.view, cmd.policy)
    OBVIOUS
  <2>1. Rename /\ c = intents[cmd.work].copy
    BY OnlyRenameTakes DEF Renamed, Present
  <2>2. c \in Removable BY <2>1 DEF Rename, KeptInv, ChosenSeen
  <2>3. QED BY <2>2 DEF Removable, Kept
<1>2. KeptInv => FillingStays BY DEF KeptInv, NewestStay, FillingStays, Kept
<1>3. QED BY <1>1, <1>2, StoreHandlesSeenCopies, PTL DEF Spec, WindowsKept

\* A store that lost its registration is not bootstrapped over the copies it holds.
THEOREM StoreBootstrapCoversStore == Spec => BootstrapCoversStore
<1> DEFINE Covered == registered = {} /\ registered' # {} =>
                          \A c \in CopyIds : Present(c) => c \in Copies'
<1>1. IInv /\ FirstInv /\ [Next]_vars => [Covered]_vars
  <2> SUFFICES ASSUME IInv, FirstInv, [Next]_vars, registered = {}, registered' # {},
                      NEW c \in CopyIds, Present(c)
               PROVE  c \in Copies'
    OBVIOUS
  <2>1. PICK b \in registered' : TRUE OBVIOUS
  <2>2. b.copy \in Copies' /\ b.copy \notin Copies BY <2>1 DEF Copies
  <2>3. (Register /\ b.copy = cmd.target) \/ Protect(b.copy) BY <2>2, OnlyRegisterAdds
  <2>4. ~Protect(b.copy) BY DEF Protect, ValidBaselines
  <2>5. QED
    BY <2>2, <2>3, <2>4 DEF Register, FirstInv, FirstAlone
<1>2. QED BY <1>1, StoreHandlesSeenCopies, PTL DEF Spec, BootstrapCoversStore

=============================================================================
