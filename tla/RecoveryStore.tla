---------------------------- MODULE RecoveryStore ----------------------------
(***************************************************************************)
(* The managed store of recovery graphs (storage/sqlite/recovery_store.py):*)
(* capture, receive, protect, restore and the resumable prune, at the      *)
(* grain of the file-system steps a crash can fall between.                *)
(*                                                                         *)
(* Captures hold the store lease shared and the registration lock, prune   *)
(* and protect hold the store lease exclusively, restores hold it shared   *)
(* (the lease itself is CoordinationLease): so at most one command changes *)
(* the store at a time, and pc says where it is.                           *)
(***************************************************************************)
EXTENDS Retention, CommitCoverage

CONSTANTS
    CopyIds,    \* bundle names; uuids, ordered as names are
    Intents,    \* intent identifiers; a forgotten one is as good as fresh
    Graphs,     \* [created, facts] of what a capture can find in the workspace
    Policies,   \* the GFS windows a prune may be given
    Confirms,   \* whether prunes are given a plan digest: a subset of BOOLEAN
    MaxInode,   \* bound: directories ever made; an inode is not used twice
    MaxFaults,  \* bound: crashes, damaged or re-created copies, lost registrations
    Absent, Torn, Held

ASSUME CopyIdsAssumption == CopyIds \subseteq Int /\ IsFiniteSet(CopyIds)
ASSUME GraphsAssumption == \A g \in Graphs : g.created \in Int
ASSUME ConfirmsAssumption == Confirms \subseteq BOOLEAN
ASSUME BoundsAssumption == MaxInode \in Nat \ {0} /\ MaxFaults \in Nat
ASSUME PoliciesAssumption == Policies # {} /\ Policies \subseteq [Windows -> Nat]

VARIABLES
    bundles,    \* directory published under each copy name
    tombs,      \* directory renamed to .tombstone-<intent>
    intents,    \* content of intents/<intent>.json
    registered, \* baselines of registration.json; {} when there is no such file
    started,    \* the capture-started marker
    debris,     \* staging directories dead commands left among the bundles
    readers,    \* copies being verified or restored
    pc,         \* where the one changing command is
    cmd,        \* its local variables
    inode,      \* next directory identity
    faults

store == <<bundles, tombs, intents, registered, started, debris>>
vars == <<store, readers, pc, cmd, inode, faults>>

Dir == [inode : 1..MaxInode, graph : Graphs, intact : BOOLEAN]
Intent == [copy : CopyIds, inode : 1..MaxInode, graph : Graphs]
Baseline == [copy : CopyIds, graph : Graphs]
View == [CopyIds -> [inode : 1..MaxInode, graph : Graphs, intact : {TRUE}] \cup {Absent, Held}]

\* The three marks are not taken for a directory, a document or a name.
ASSUME NamesAssumption ==
    /\ Absent \notin Dir /\ Held \notin Dir /\ Absent # Held
    /\ Absent \notin Intent /\ Torn \notin Intent /\ Absent # Torn
    /\ Absent \notin CopyIds

Nothing == [c \in CopyIds |-> Absent]
NoCmd == [first |-> FALSE, view |-> Nothing, policy |-> CHOOSE p \in Policies : TRUE,
          agreed |-> CopyIds, todo |-> {}, held |-> {}, doomed |-> {},
          work |-> Absent, target |-> Absent, doc |-> Absent, resuming |-> FALSE]

Init ==
    /\ bundles = Nothing
    /\ tombs = [i \in Intents |-> Absent]
    /\ intents = [i \in Intents |-> Absent]
    /\ registered = {}
    /\ started = FALSE
    /\ debris = {}
    /\ readers = {}
    /\ pc = "idle"
    /\ cmd = NoCmd
    /\ inode = 1
    /\ faults = 0

Goto(place) == pc' = place
Copies == {b.copy : b \in registered}
Present(c) == bundles[c] # Absent
Whole(i) == intents[i] \notin {Absent, Torn}
Names(i, c) == Whole(i) /\ intents[i].copy = c
NewDir(g) == [inode |-> inode, graph |-> g, intact |-> TRUE]

----------------------------------------------------------------------------
(* Inventory and plan.                                                     *)

\* _inspect_copy: identity and content of a copy that verifies, "held" otherwise.
Inspect(c) == IF Present(c) /\ ~bundles[c].intact THEN Held ELSE bundles[c]
Inventory == [c \in CopyIds |-> Inspect(c)]
HealthyIn(view) == {c \in CopyIds : view[c] \notin {Absent, Held}}

\* _validate_baselines, and the registration a plan needs.
ValidBaselines(view, baselines) ==
    /\ baselines # {}
    /\ \A b \in baselines : b.copy \in HealthyIn(view) /\ view[b.copy].graph = b.graph

InventoryIds(S) == {c.id : c \in S}
Facts(view) == {[id |-> c, created |-> view[c].graph.created, facts |-> view[c].graph.facts] :
                    c \in HealthyIn(view)}
Planned(view, pins, policy) ==
    PlanRetention({[id |-> c, created |-> view[c].graph.created, healthy |-> TRUE,
                    pinned |-> c \in pins] : c \in HealthyIn(view)}, policy)

\* Mutants: unclear copies are not kept; baselines only as far as the planner keeps them.
OursResolved(view, pins) == pins \cup InventoryIds(RetentionLatest(Facts(view)))
OursUnpinned(view, pins) ==
    InventoryIds(RetentionLatest(Facts(view))) \cup InventoryIds(Unresolved(Facts(view)))
Ours(view, pins) ==
    pins \cup InventoryIds(RetentionLatest(Facts(view))) \cup InventoryIds(Unresolved(Facts(view)))

\* _plan_from_inventory: the copies to delete.
DeletePlan(view, pins, policy) ==
    LET planned == Planned(view, pins, policy)
        keep == (InventoryIds(planned.keep) \ InventoryIds(planned.protected)) \cup Ours(view, pins)
    IN HealthyIn(view) \ keep

----------------------------------------------------------------------------
(* capture_into_store and receive_graph_into_store                         *)

NoChildren(receiving) ==
    /\ \A c \in CopyIds : ~Present(c)
    /\ \A i \in Intents : tombs[i] = Absent
    /\ "graph" \notin debris
    /\ receiving \/ "recv" \notin debris

\* Mutant: no registration means a fresh store.
AdmitAnew(receiving) ==
    /\ registered = {} \/ ValidBaselines(Inventory, registered)
    /\ cmd' = [cmd EXCEPT !.first = registered = {}]
    /\ started' = TRUE
\* _admit_capture_registration; the first capture marks the store first.
Admit(receiving) ==
    \/ /\ ValidBaselines(Inventory, registered)
       /\ cmd' = [cmd EXCEPT !.first = FALSE]
       /\ UNCHANGED started
    \/ /\ registered = {}
       /\ ~started
       /\ NoChildren(receiving)
       /\ cmd' = [cmd EXCEPT !.first = TRUE]
       /\ started' = TRUE

CaptureBegin ==
    /\ pc = "idle"
    /\ Admit(FALSE)
    /\ Goto("capturing")
    /\ UNCHANGED <<bundles, tombs, intents, registered, debris, readers, inode, faults>>

\* _require_receive_registration, then the copy into .recv-*.
ReceiveBegin ==
    /\ pc = "idle"
    /\ \/ ValidBaselines(Inventory, registered)
       \/ registered = {} /\ ~started /\ NoChildren(TRUE)
    /\ Goto("receiving")
    /\ UNCHANGED <<store, readers, cmd, inode, faults>>

ReceiveAdmit ==
    /\ pc = "receiving"
    /\ Admit(TRUE)
    /\ Goto("publishing")
    /\ UNCHANGED <<bundles, tombs, intents, registered, debris, readers, inode, faults>>

\* The verified staging directory gets a fresh name.
Publish(c, g) ==
    /\ pc \in {"capturing", "publishing"}
    /\ ~Present(c)
    /\ ~ \E i \in Intents : Names(i, c)
    /\ inode < MaxInode
    /\ inode' = inode + 1
    /\ bundles' = [bundles EXCEPT ![c] = NewDir(g)]
    /\ cmd' = [cmd EXCEPT !.target = c]
    /\ Goto(IF cmd.first THEN "registering" ELSE "returning")
    /\ UNCHANGED <<tombs, intents, registered, started, debris, readers, faults>>

\* _write_registration of the first baseline (a staged file and os.replace).
Register ==
    /\ pc = "registering"
    /\ registered' = {[copy |-> cmd.target, graph |-> bundles[cmd.target].graph]}
    /\ Goto("returning")
    /\ UNCHANGED <<bundles, tombs, intents, started, debris, readers, cmd, inode, faults>>

End ==
    /\ Goto("idle")
    /\ cmd' = NoCmd

Return ==
    /\ pc = "returning"
    /\ End
    /\ UNCHANGED <<store, readers, inode, faults>>

\* Unverifiable source, changed evidence, a full disk: staging is discarded.
Fail ==
    /\ pc \in {"capturing", "receiving", "publishing", "registering"}
    /\ End
    /\ UNCHANGED <<store, readers, inode, faults>>

----------------------------------------------------------------------------
(* protect_store_copy, restore_store_copy                                  *)

\* Mutant: maintenance does not wait for readers.
NotBusy == pc = "idle"
\* The exclusive store lease.
Alone == pc = "idle" /\ readers = {}

Protect(c) ==
    /\ Alone
    /\ ValidBaselines(Inventory, registered)
    /\ Inspect(c) \notin {Absent, Held}
    /\ registered' = registered \cup {[copy |-> c, graph |-> bundles[c].graph]}
    /\ UNCHANGED <<bundles, tombs, intents, started, debris, readers, pc, cmd, inode, faults>>

Pruning == {"resuming", "completing", "renaming", "removing", "forgetting", "deleting",
            "intending", "writing"}

RestoreBegin(c) ==
    /\ pc \notin Pruning
    /\ c \notin readers
    /\ Inspect(c) \notin {Absent, Held}
    /\ readers' = readers \cup {c}
    /\ UNCHANGED <<store, pc, cmd, inode, faults>>

\* It returns, fails or dies.
RestoreEnd(c) ==
    /\ c \in readers
    /\ readers' = readers \ {c}
    /\ UNCHANGED <<store, pc, cmd, inode, faults>>

----------------------------------------------------------------------------
(* prune_recovery_store                                                    *)

\* Mutant: a prune starts from a clean store only.
NoTombstones == \A i \in Intents : tombs[i] = Absent
\* _reject_unknown_tombstones
KnownTombstones == \A i \in Intents : tombs[i] # Absent => intents[i] # Absent

\* With --plan-digest the digest of this plan has been compared with the digest the user
\* reviewed, so "agreed" is what the user saw.
PruneBegin(policy, confirmed) ==
    LET view == Inventory
        plan == DeletePlan(view, Copies, policy)
    IN /\ Alone
       /\ KnownTombstones
       /\ ValidBaselines(view, registered)
       /\ cmd' = [NoCmd EXCEPT !.view = view, !.policy = policy, !.doomed = plan,
                               !.agreed = IF confirmed THEN plan ELSE CopyIds,
                               !.todo = {i \in Intents : intents[i] # Absent},
                               !.resuming = TRUE]
       /\ Goto("resuming")
       /\ UNCHANGED <<store, readers, inode, faults>>

SeenAs(c, i) == cmd.view[c] \notin {Absent, Held} /\ cmd.view[c].inode = i

\* A copy of that name is there, but it is not the one the intent names.
HeldBack(i) ==
    LET c == intents[i].copy
    IN IF cmd.view[c] # Absent /\ ~SeenAs(c, intents[i].inode) THEN {c} ELSE {}

\* Mutant: an old intent outlives the protection of its copy.
NeverSpared(i) == FALSE
\* The copy is still there and today's plan keeps it.
Spared(i) ==
    LET c == intents[i].copy
    IN SeenAs(c, intents[i].inode) /\ c \notin cmd.doomed

\* _resume_tombstones, one intent: forget it or complete it.
Resume(i) ==
    /\ pc = "resuming"
    /\ i \in cmd.todo
    /\ intents[i] # Torn
    /\ cmd' = [cmd EXCEPT !.todo = @ \ {i}, !.held = @ \cup HeldBack(i), !.work = i]
    /\ Goto(IF Spared(i) THEN "forgetting" ELSE "completing")
    /\ UNCHANGED <<store, readers, inode, faults>>

Raise ==
    /\ End
    /\ UNCHANGED <<store, readers, inode, faults>>

\* _read_intent refuses a document that was not written to its end.
ResumeTorn(i) ==
    /\ pc = "resuming"
    /\ i \in cmd.todo
    /\ intents[i] = Torn
    /\ Raise

\* The second inventory and the second plan.
Replan ==
    /\ pc = "resuming"
    /\ cmd.todo = {}
    /\ ValidBaselines(Inventory, registered)
    /\ cmd' = [cmd EXCEPT !.view = Inventory, !.resuming = FALSE,
                  !.doomed = DeletePlan(Inventory, Copies, cmd.policy) \ cmd.held]
    /\ Goto("deleting")
    /\ UNCHANGED <<store, readers, inode, faults>>

ReplanRefused ==
    /\ pc = "resuming"
    /\ cmd.todo = {}
    /\ ~ValidBaselines(Inventory, registered)
    /\ Raise

\* _apply_deletions: the copy is verified once more.
Doom(c) ==
    /\ pc = "deleting"
    /\ c \in cmd.doomed
    /\ IF Inspect(c) = cmd.view[c]
          THEN /\ cmd' = [cmd EXCEPT !.doomed = @ \ {c}, !.target = c]
               /\ Goto("intending")
          ELSE End
    /\ UNCHANGED <<store, readers, inode, faults>>

PruneEnd ==
    /\ pc = "deleting"
    /\ cmd.doomed = {}
    /\ Raise

\* _delete_copy: the directory is looked at again, the intent file is created, then
\* written and synced.
IntentCreate(i) ==
    /\ pc = "intending"
    /\ intents[i] = Absent
    /\ tombs[i] = Absent
    /\ intents' = [intents EXCEPT ![i] = Torn]
    /\ cmd' = [cmd EXCEPT !.work = i,
                  !.doc = [copy |-> cmd.target, inode |-> bundles[cmd.target].inode,
                           graph |-> cmd.view[cmd.target].graph]]
    /\ Goto("writing")
    /\ UNCHANGED <<bundles, tombs, registered, started, debris, readers, inode, faults>>

IntentWrite ==
    /\ pc = "writing"
    /\ intents' = [intents EXCEPT ![cmd.work] = cmd.doc]
    /\ Goto("completing")
    /\ UNCHANGED <<bundles, tombs, registered, started, debris, readers, cmd, inode, faults>>

SameIdentity(i) == bundles[intents[i].copy].inode = intents[i].inode
SameContent(i) ==
    /\ bundles[intents[i].copy].intact
    /\ bundles[intents[i].copy].graph = intents[i].graph

\* _complete_tombstone up to the rename.
Complete ==
    LET i == cmd.work
    IN /\ pc = "completing"
       /\ \/ tombs[i] # Absent /\ Goto("removing") /\ UNCHANGED cmd
          \/ /\ tombs[i] = Absent
             /\ Present(intents[i].copy) => ~SameIdentity(i)
             /\ Goto("forgetting") /\ UNCHANGED cmd
          \/ /\ tombs[i] = Absent
             /\ Present(intents[i].copy) /\ SameIdentity(i)
             /\ IF SameContent(i) THEN Goto("renaming") /\ UNCHANGED cmd ELSE End
       /\ UNCHANGED <<store, readers, inode, faults>>

\* rename_exclusive takes whatever directory now has the name.
Rename ==
    LET i == cmd.work
        c == intents[i].copy
    IN /\ pc = "renaming"
       /\ tombs' = [tombs EXCEPT ![i] = bundles[c]]
       /\ bundles' = [bundles EXCEPT ![c] = Absent]
       /\ Goto("removing")
       /\ UNCHANGED <<intents, registered, started, debris, readers, cmd, inode, faults>>

\* Mutant: the intent is forgotten although the tree was refused.
RemoveOrForget ==
    /\ pc = "removing"
    /\ tombs' = [tombs EXCEPT ![cmd.work] = IF @.inode = intents[cmd.work].inode THEN Absent ELSE @]
    /\ Goto("forgetting")
    /\ UNCHANGED <<bundles, intents, registered, started, debris, readers, cmd, inode, faults>>
\* _remove_identity_tree.  A tree a crash left half removed is still the tombstone.
RemoveTree ==
    LET i == cmd.work
    IN /\ pc = "removing"
       /\ IF tombs[i].inode = intents[i].inode
             THEN /\ tombs' = [tombs EXCEPT ![i] = Absent]
                  /\ Goto("forgetting")
                  /\ UNCHANGED cmd
             ELSE End /\ UNCHANGED tombs
       /\ UNCHANGED <<bundles, intents, registered, started, debris, readers, inode, faults>>

\* _forget_intent, and back to the loop it was called from.
Forget ==
    /\ pc = "forgetting"
    /\ intents' = [intents EXCEPT ![cmd.work] = Absent]
    /\ Goto(IF cmd.resuming THEN "resuming" ELSE "deleting")
    /\ UNCHANGED <<bundles, tombs, registered, started, debris, readers, cmd, inode, faults>>

Prune == \/ \E i \in Intents : Resume(i) \/ ResumeTorn(i) \/ IntentCreate(i)
         \/ \E c \in CopyIds : Doom(c)
         \/ Replan \/ ReplanRefused \/ IntentWrite
         \/ Complete \/ Rename \/ RemoveTree \/ Forget \/ PruneEnd

----------------------------------------------------------------------------
(* What happens around the commands.                                       *)

Fault == faults < MaxFaults /\ faults' = faults + 1

\* The process dies; the leases go with it, files stay.
Crash ==
    /\ pc # "idle"
    /\ Fault
    /\ End
    /\ debris' = debris \cup (CASE pc = "capturing" -> {"graph"}
                                [] pc \in {"receiving", "publishing"} -> {"recv"}
                                [] OTHER -> {})
    /\ UNCHANGED <<bundles, tombs, intents, registered, started, readers, inode>>

\* A published copy goes bad on the disk.
Damage(c) ==
    /\ Present(c)
    /\ bundles[c].intact
    /\ Fault
    /\ bundles' = [bundles EXCEPT ![c].intact = FALSE]
    /\ UNCHANGED <<tombs, intents, registered, started, debris, readers, pc, cmd, inode>>

\* Somebody puts a copy of a bundle back under its old name.
Recreate(c) ==
    /\ \/ Present(c)
       \/ \E i \in Intents : Names(i, c)
    /\ Fault
    /\ inode < MaxInode
    /\ inode' = inode + 1
    /\ \E g \in Graphs :
          /\ Present(c) => g = bundles[c].graph
          /\ bundles' = [bundles EXCEPT ![c] = NewDir(g)]
    /\ UNCHANGED <<tombs, intents, registered, started, debris, readers, pc, cmd>>

LoseRegistration ==
    /\ registered # {}
    /\ Fault
    /\ registered' = {}
    /\ UNCHANGED <<bundles, tombs, intents, started, debris, readers, pc, cmd, inode>>

Capture == \/ CaptureBegin \/ ReceiveBegin \/ ReceiveAdmit \/ Register \/ Return \/ Fail
           \/ \E c \in CopyIds, g \in Graphs : Publish(c, g)

Next == \/ Capture
        \/ \E c \in CopyIds : Protect(c) \/ RestoreBegin(c) \/ RestoreEnd(c)
        \/ \E policy \in Policies, confirmed \in Confirms : PruneBegin(policy, confirmed)
        \/ Prune
        \/ Crash \/ LoseRegistration
        \/ \E c \in CopyIds : Damage(c) \/ Recreate(c)

Spec == Init /\ [][Next]_vars

\* Every prune that started runs on, readers leave, commands return, and the command
\* is given again and again.
Retry == \E policy \in Policies : PruneBegin(policy, FALSE)
Fairness ==
    /\ SF_vars(Retry)
    /\ WF_vars(Prune)
    /\ WF_vars(Return \/ Fail)
    /\ \A c \in CopyIds : WF_vars(RestoreEnd(c))
LiveSpec == Spec /\ Fairness

----------------------------------------------------------------------------
(* Properties.                                                             *)

Places == Pruning \cup {"idle", "capturing", "receiving", "publishing", "registering", "returning"}

TypeOK ==
    /\ bundles \in [CopyIds -> Dir \cup {Absent}]
    /\ tombs \in [Intents -> Dir \cup {Absent}]
    /\ intents \in [Intents -> Intent \cup {Absent, Torn}]
    /\ registered \subseteq Baseline
    /\ started \in BOOLEAN
    /\ debris \subseteq {"graph", "recv"}
    /\ readers \subseteq CopyIds
    /\ pc \in Places
    /\ cmd \in [first : BOOLEAN, view : View, policy : Policies, agreed : SUBSET CopyIds,
                 todo : SUBSET Intents, held : SUBSET CopyIds, doomed : SUBSET CopyIds,
                 work : Intents \cup {Absent}, target : CopyIds \cup {Absent},
                 doc : Intent \cup {Absent}, resuming : BOOLEAN]
    /\ inode \in 1..MaxInode
    /\ faults \in 0..MaxFaults

\* A registered baseline is never taken out of the store, whatever was planned, intended,
\* interrupted or resumed before it was registered.
BaselinesStay == \A c \in Copies : Present(c)

\* Every tombstone is explained by a complete intent: otherwise _reject_unknown_tombstones
\* refuses every later prune.
TombstonesExplained ==
    \A i \in Intents : tombs[i] # Absent => Whole(i)

\* A copy somebody verifies or restores stays where it is.
ReadersKeepTheirCopy == \A c \in readers : Present(c)

Renamed(c) == Present(c) /\ bundles'[c] = Absent
Holds(d, x, v) ==
    LET f == bundles[d].graph.facts
    IN d \in HealthyIn(cmd.view) /\ Present(d) /\ f # Unreadable /\ x \in DOMAIN f /\ f[x] = v

\* Retention loses no committed fact: each fact of a copy that leaves the inventory is held,
\* with the same content, by another copy that verified in the inventory the prune acts on;
\* a copy whose facts cannot be read does not leave it.
FactsKept ==
    [][\A c \in CopyIds : Renamed(c) =>
         LET f == bundles[c].graph.facts
         IN /\ f # Unreadable
            /\ \A x \in DOMAIN f : \E d \in CopyIds \ {c} : Holds(d, x, f[x])]_vars

\* A registration appears where there was none only if it registers every copy there is: a
\* store that lost its registration is not bootstrapped over its copies.
BootstrapCoversStore ==
    [][registered = {} /\ registered' # {} => \A c \in CopyIds : Present(c) => c \in Copies']_vars

\* Something a later prune refuses to touch or to read: a baseline that does not verify, an
\* intent file that was cut short by a crash (no retry of the command gets past it, although
\* the guide says to retry), a tombstone or an original that is not the one of the intent.
Blocked ==
    \/ ~ValidBaselines(Inventory, registered)
    \/ \E i \in Intents :
          \/ intents[i] = Torn
          \/ tombs[i] # Absent /\ tombs[i].inode # intents[i].inode
          \/ /\ Whole(i)
             /\ Present(intents[i].copy) /\ SameIdentity(i) /\ ~SameContent(i)

Pending(i) == intents[i] # Absent
\* An interrupted cleanup is finished or called off by later prunes, unless the store is
\* blocked; prunes do get the exclusive lease now and then.
CleanupIsResumed ==
    []<>Alone => \A i \in Intents : Pending(i) ~> (~Pending(i) \/ Blocked)

\* The documented use of the plan digest: while every copy is intact, only what the reviewed
\* plan selects is deleted.
ReviewedPlanIsObeyed ==
    [][\A c \in CopyIds : Renamed(c) /\ Held \notin {Inspect(d) : d \in CopyIds}
                             => c \in cmd.agreed]_vars

=============================================================================
