----------------------- MODULE AuthorityCutoverProofs -----------------------
(***************************************************************************)
(* The cutover is safe for any number of processes, generations,           *)
(* installations and documents: a look at the pointer without the lease    *)
(* decides nothing.                                                        *)
(***************************************************************************)
EXTENDS AuthorityCutover, TLAPS

USE TrustAssumption, LegacyAssumption, NoneAssumption, BoundAssumption

----------------------------------------------------------------------------
(* The inductive invariant.                                                *)

\* Whoever holds the lease exclusively holds it alone.
ExclusiveInv ==
    \A w, u \in Processes : w # u /\ holds[w] = "exclusive" => holds[u] = "none"

\* A process past the door holds the lease in the mode of its path.
DoorInv ==
    \A w \in Processes :
        /\ pc[w] \in {"entered", "writing", "leased", "bound", "reading"} => holds[w] = "shared"
        /\ pc[w] = "maintenance" => holds[w] = "exclusive"
        /\ pc[w] \in {"idle", "routed", "published"} => holds[w] = "none"

\* What a process has resolved under the lease, at each place of its path.
BindingInv ==
    \A w \in Processes :
        /\ bound[w] # None => pc[w] \in {"writing", "bound", "reading"}
        /\ pc[w] = "writing" => bound[w] = Legacy
        /\ pc[w] = "bound" => bound[w] \in Trusts[w]

\* What it has resolved or asked for without the lease.
RouteInv ==
    \A w \in Processes :
        /\ pc[w] = "routed" => route[w] # None
        /\ pc[w] \in {"published", "leased", "bound"} =>
              request[w] \in [document : Documents, generation : Generations]

IInv == /\ TypeOK /\ ExclusiveInv /\ DoorInv /\ BindingInv /\ RouteInv
        /\ BoundIsActive /\ HeadIsInOwnStore

LEMMA InitIInv == Init => IInv
  BY DEF Init, IInv, TypeOK, ExclusiveInv, DoorInv, BindingInv, RouteInv, BoundIsActive,
     HeadIsInOwnStore, Places, Lease!Init, Lease!Modes

----------------------------------------------------------------------------
(* The lease.                                                              *)

\* A granted lease keeps exclusive holders alone and other processes' leases as they are.
LEMMA AcquireFacts ==
    ASSUME TypeOK, ExclusiveInv, NEW w \in Processes, NEW mode \in Lease!Modes,
           Lease!Acquire(w, mode)
    PROVE  /\ holds' \in [Processes -> Lease!Modes \cup {"none"}]
           /\ ExclusiveInv'
           /\ holds'[w] = mode
           /\ \A u \in Processes \ {w} : holds'[u] = holds[u]
  BY DEF TypeOK, ExclusiveInv, Lease!Acquire, Lease!Compatible, Lease!Modes

\* So does giving one back.
LEMMA ReleaseFacts ==
    ASSUME TypeOK, ExclusiveInv, NEW w \in Processes, Lease!Release({w})
    PROVE  /\ holds' \in [Processes -> Lease!Modes \cup {"none"}]
           /\ ExclusiveInv'
           /\ holds'[w] = "none"
           /\ \A u \in Processes \ {w} : holds'[u] = holds[u]
  BY DEF TypeOK, ExclusiveInv, Lease!Release, Lease!Modes

\* Leaving forgets what was resolved, so it takes nothing from the invariant, whatever
\* the process did to the generations on its way out.
LEMMA LeaveIInv ==
    ASSUME IInv, NEW w \in Processes, Leave(w), UNCHANGED <<pointer, legacy, objects>>,
           revision' \in [Generations -> 0..MaxRevision],
           head' \in [Generations -> Documents \cup {None}],
           HeadIsInOwnStore'
    PROVE  IInv'
<1> USE DEF IInv
<1>1. /\ holds' \in [Processes -> Lease!Modes \cup {"none"}]
      /\ ExclusiveInv'
      /\ holds'[w] = "none"
      /\ \A u \in Processes \ {w} : holds'[u] = holds[u]
  BY ReleaseFacts DEF Leave
<1>2. TypeOK'
  BY <1>1 DEF TypeOK, Leave, Goto, Places
<1>3. DoorInv'
  BY <1>1 DEF DoorInv, TypeOK, Leave, Goto
<1>4. BindingInv' /\ BoundIsActive'
  BY DEF BindingInv, BoundIsActive, TypeOK, Leave, Goto
<1>5. RouteInv'
  BY DEF RouteInv, TypeOK, Leave, Goto
<1> QED
  BY <1>1, <1>2, <1>3, <1>4, <1>5

\* Leaving without having touched a generation.
LEMMA QuietLeaveIInv ==
    ASSUME IInv, NEW w \in Processes, Leave(w),
           UNCHANGED <<pointer, legacy, revision, head, objects>>
    PROVE  IInv'
  BY LeaveIInv DEF IInv, TypeOK, HeadIsInOwnStore

----------------------------------------------------------------------------
(* One lemma per path.                                                     *)

LEMMA DispatchIInv ==
    ASSUME IInv, NEW w \in Processes, Dispatch(w) PROVE IInv'
<1> USE DEF IInv, Dispatch, Goto
<1>1. TypeOK' BY DEF TypeOK, Places
<1>2. ExclusiveInv' /\ DoorInv' BY DEF ExclusiveInv, DoorInv, TypeOK
<1>3. BindingInv' /\ RouteInv' BY DEF BindingInv, RouteInv, TypeOK
<1>4. BoundIsActive' /\ HeadIsInOwnStore' BY DEF BoundIsActive, HeadIsInOwnStore
<1> QED BY <1>1, <1>2, <1>3, <1>4

LEMMA LegacyWriterIInv ==
    ASSUME IInv, NEW w \in Processes, LegacyWriter(w) PROVE IInv'
<1> USE DEF IInv
<1>1. ASSUME EnterLegacy(w) PROVE IInv'
  <2> USE <1>1 DEF EnterLegacy, Goto
  <2>1. /\ holds' \in [Processes -> Lease!Modes \cup {"none"}]
        /\ ExclusiveInv'
        /\ holds'[w] = "shared"
        /\ \A u \in Processes \ {w} : holds'[u] = holds[u]
    BY AcquireFacts DEF Lease!Modes
  <2>2. TypeOK' BY <2>1 DEF TypeOK, Places
  <2>3. DoorInv' BY <2>1 DEF DoorInv, TypeOK
  <2>4. BindingInv' /\ RouteInv' BY DEF BindingInv, RouteInv, TypeOK
  <2>5. BoundIsActive' /\ HeadIsInOwnStore' BY DEF BoundIsActive, HeadIsInOwnStore
  <2> QED BY <2>1, <2>2, <2>3, <2>4, <2>5
<1>2. ASSUME RecheckLegacy(w) PROVE IInv'
  <2> USE <1>2 DEF RecheckLegacy, Goto
  <2>1. TypeOK' BY DEF TypeOK, Places
  <2>2. ExclusiveInv' /\ DoorInv' BY DEF ExclusiveInv, DoorInv, TypeOK
  <2>3. BindingInv' /\ RouteInv' BY DEF BindingInv, RouteInv, TypeOK
  <2>4. BoundIsActive' BY DEF BoundIsActive, TypeOK, StillLegacy
  <2>5. HeadIsInOwnStore' BY DEF HeadIsInOwnStore
  <2> QED BY <2>1, <2>2, <2>3, <2>4, <2>5
<1>3. ASSUME RejectLegacy(w) PROVE IInv'
  BY <1>3, QuietLeaveIInv DEF RejectLegacy
<1>4. ASSUME WriteLegacy(w) PROVE IInv'
  BY <1>4 DEF WriteLegacy, TypeOK, ExclusiveInv, DoorInv, BindingInv, RouteInv, BoundIsActive,
     HeadIsInOwnStore
<1>5. ASSUME ExitLegacy(w) PROVE IInv'
  BY <1>5, QuietLeaveIInv DEF ExitLegacy
<1> QED
  BY <1>1, <1>2, <1>3, <1>4, <1>5 DEF LegacyWriter

\* COMMIT selects a document that is in the store of the generation it is bound to.
LEMMA CommitIInv ==
    ASSUME IInv, NEW w \in Processes, CommitConfig(w) PROVE IInv'
<1> USE DEF IInv
<1>1. bound[w] \in Generations
  BY DEF CommitConfig, BindingInv
<1>2. request[w] \in [document : Documents, generation : Generations]
  BY DEF CommitConfig, RouteInv, TypeOK
<1>3. revision' \in [Generations -> 0..MaxRevision]
  BY <1>1 DEF CommitConfig, AdvanceOnce, TypeOK
<1>4. head' \in [Generations -> Documents \cup {None}]
  BY <1>1, <1>2 DEF CommitConfig, TypeOK
<1>5. HeadIsInOwnStore'
  BY <1>1, <1>2 DEF CommitConfig, Admissible, HeadIsInOwnStore, TypeOK
<1> QED
  BY <1>3, <1>4, <1>5, LeaveIInv DEF CommitConfig

LEMMA RepositoryWriterIInv ==
    ASSUME IInv, NEW w \in Processes, RepositoryWriter(w) PROVE IInv'
<1> USE DEF IInv
<1>1. ASSUME NEW d \in Documents, NEW g \in Generations, PublishConfig(w, d, g) PROVE IInv'
  <2> USE <1>1 DEF PublishConfig, Goto
  <2>1. route[w] \in Generations BY DEF RouteInv, TypeOK
  <2>2. TypeOK' BY <2>1 DEF TypeOK, Places
  <2>3. ExclusiveInv' /\ DoorInv' BY DEF ExclusiveInv, DoorInv, TypeOK
  <2>4. BindingInv' BY DEF BindingInv, TypeOK
  <2>5. RouteInv' BY DEF RouteInv, TypeOK
  <2>6. BoundIsActive' BY DEF BoundIsActive
  <2>7. HeadIsInOwnStore' BY <2>1 DEF HeadIsInOwnStore, TypeOK
  <2> QED BY <2>2, <2>3, <2>4, <2>5, <2>6, <2>7
<1>2. ASSUME EnterRepository(w) PROVE IInv'
  <2> USE <1>2 DEF EnterRepository, Goto
  <2>1. /\ holds' \in [Processes -> Lease!Modes \cup {"none"}]
        /\ ExclusiveInv'
        /\ holds'[w] = "shared"
        /\ \A u \in Processes \ {w} : holds'[u] = holds[u]
    BY AcquireFacts DEF Lease!Modes
  <2>2. TypeOK' BY <2>1 DEF TypeOK, Places
  <2>3. DoorInv' BY <2>1 DEF DoorInv, TypeOK
  <2>4. BindingInv' /\ RouteInv' BY DEF BindingInv, RouteInv, TypeOK
  <2>5. BoundIsActive' /\ HeadIsInOwnStore' BY DEF BoundIsActive, HeadIsInOwnStore
  <2> QED BY <2>1, <2>2, <2>3, <2>4, <2>5
<1>3. ASSUME Bind(w) PROVE IInv'
  <2> USE <1>3 DEF Bind, Goto
  <2>1. pointer \in Trusts[w] /\ Trusts[w] \subseteq Generations BY DEF Vouched
  <2>2. TypeOK' BY DEF TypeOK, Places
  <2>3. ExclusiveInv' /\ DoorInv' BY DEF ExclusiveInv, DoorInv, TypeOK
  <2>4. BindingInv' /\ RouteInv' BY <2>1 DEF BindingInv, RouteInv, TypeOK
  <2>5. BoundIsActive' BY DEF BoundIsActive, TypeOK
  <2>6. HeadIsInOwnStore' BY DEF HeadIsInOwnStore
  <2> QED BY <2>2, <2>3, <2>4, <2>5, <2>6
<1>4. ASSUME RejectBinding(w) PROVE IInv'
  BY <1>4, QuietLeaveIInv DEF RejectBinding
<1>5. ASSUME CommitConfig(w) PROVE IInv'
  BY <1>5, CommitIInv
<1>6. ASSUME AbortConfig(w) PROVE IInv'
  BY <1>6, QuietLeaveIInv DEF AbortConfig
<1> QED
  BY <1>1, <1>2, <1>3, <1>4, <1>5, <1>6 DEF RepositoryWriter

LEMMA ReaderIInv ==
    ASSUME IInv, NEW w \in Processes, Reader(w) PROVE IInv'
<1> USE DEF IInv
<1>1. ASSUME EnterRead(w) PROVE IInv'
  <2> USE <1>1 DEF EnterRead, Goto
  <2>1. /\ holds' \in [Processes -> Lease!Modes \cup {"none"}]
        /\ ExclusiveInv'
        /\ holds'[w] = "shared"
        /\ \A u \in Processes \ {w} : holds'[u] = holds[u]
    BY AcquireFacts DEF Lease!Modes
  <2>2. TypeOK' BY <2>1 DEF TypeOK, Places
  <2>3. DoorInv' BY <2>1 DEF DoorInv, TypeOK
  <2>4. BindingInv' /\ RouteInv' BY DEF BindingInv, RouteInv, TypeOK
  <2>5. BoundIsActive' BY DEF BoundIsActive, TypeOK
  <2>6. HeadIsInOwnStore' BY DEF HeadIsInOwnStore
  <2> QED BY <2>1, <2>2, <2>3, <2>4, <2>5, <2>6
<1>2. ASSUME ExitRead(w) PROVE IInv'
  BY <1>2, QuietLeaveIInv DEF ExitRead
<1> QED
  BY <1>1, <1>2 DEF Reader

\* Activation is alone: no other process is inside a lease, so nothing is bound.
LEMMA MaintenanceIInv ==
    ASSUME IInv, NEW w \in Processes, Maintenance(w) PROVE IInv'
<1> USE DEF IInv
<1>1. ASSUME EnterMaintenance(w) PROVE IInv'
  <2> USE <1>1 DEF EnterMaintenance, Goto
  <2>1. /\ holds' \in [Processes -> Lease!Modes \cup {"none"}]
        /\ ExclusiveInv'
        /\ holds'[w] = "exclusive"
        /\ \A u \in Processes \ {w} : holds'[u] = holds[u]
    BY AcquireFacts DEF Lease!Modes
  <2>2. TypeOK' BY <2>1 DEF TypeOK, Places
  <2>3. DoorInv' BY <2>1 DEF DoorInv, TypeOK
  <2>4. BindingInv' /\ RouteInv' BY DEF BindingInv, RouteInv, TypeOK
  <2>5. BoundIsActive' /\ HeadIsInOwnStore' BY DEF BoundIsActive, HeadIsInOwnStore
  <2> QED BY <2>1, <2>2, <2>3, <2>4, <2>5
<1>2. ASSUME NEW g \in Generations, Activate(w, g) PROVE IInv'
  <2> USE <1>2 DEF Activate
  <2>1. \A u \in Processes : bound[u] = None
    <3> TAKE u \in Processes
    <3>1. CASE u = w
      BY <3>1 DEF BindingInv
    <3>2. CASE u # w
      BY <3>2 DEF BindingInv, DoorInv, ExclusiveInv
    <3> QED BY <3>1, <3>2
  <2>2. TypeOK' BY DEF TypeOK
  <2>3. ExclusiveInv' /\ DoorInv' BY DEF ExclusiveInv, DoorInv
  <2>4. BindingInv' /\ RouteInv' BY DEF BindingInv, RouteInv
  <2>5. BoundIsActive' /\ HeadIsInOwnStore' BY <2>1 DEF BoundIsActive, HeadIsInOwnStore
  <2> QED BY <2>2, <2>3, <2>4, <2>5
<1>3. ASSUME ExitMaintenance(w) PROVE IInv'
  BY <1>3, QuietLeaveIInv DEF ExitMaintenance
<1> QED
  BY <1>1, <1>2, <1>3 DEF Maintenance

LEMMA NextIInv == IInv /\ [Next]_vars => IInv'
<1> SUFFICES ASSUME IInv, [Next]_vars PROVE IInv'
  OBVIOUS
<1>1. ASSUME NEW w \in Processes, Dispatch(w) PROVE IInv'
  BY <1>1, DispatchIInv
<1>2. ASSUME NEW w \in Processes, LegacyWriter(w) PROVE IInv'
  BY <1>2, LegacyWriterIInv
<1>3. ASSUME NEW w \in Processes, RepositoryWriter(w) PROVE IInv'
  BY <1>3, RepositoryWriterIInv
<1>4. ASSUME NEW w \in Processes, Reader(w) PROVE IInv'
  BY <1>4, ReaderIInv
<1>5. ASSUME NEW w \in Processes, Maintenance(w) PROVE IInv'
  BY <1>5, MaintenanceIInv
<1>6. ASSUME NEW w \in Processes, GiveUp(w) PROVE IInv'
  BY <1>6, QuietLeaveIInv DEF GiveUp
<1>7. CASE UNCHANGED vars
  BY <1>7 DEF vars, IInv, TypeOK, ExclusiveInv, DoorInv, BindingInv, RouteInv, BoundIsActive,
     HeadIsInOwnStore
<1> QED
  BY <1>1, <1>2, <1>3, <1>4, <1>5, <1>6, <1>7 DEF Next

----------------------------------------------------------------------------
(* The theorems.                                                           *)

\* The strengthening holds in every reachable state.
THEOREM CutoverInvariant == Spec => []IInv
  BY InitIInv, NextIInv, PTL DEF Spec

\* Every variable of the cutover keeps its type.
THEOREM CutoverTypeCorrect == Spec => []TypeOK
<1>1. IInv => TypeOK
  BY DEF IInv
<1> QED
  BY <1>1, CutoverInvariant, PTL

\* require_legacy_authority, require_repository_binding, _read_snapshot: what was resolved
\* under the lease stays the authority until the lease is given back.
THEOREM CutoverBoundIsActive == Spec => []BoundIsActive
<1>1. IInv => BoundIsActive
  BY DEF IInv
<1> QED
  BY <1>1, CutoverInvariant, PTL

\* replace_config: a generation never selects a document that lies in another's store only.
THEOREM CutoverHeadIsInOwnStore == Spec => []HeadIsInOwnStore
<1>1. IInv => HeadIsInOwnStore
  BY DEF IInv
<1> QED
  BY <1>1, CutoverInvariant, PTL

\* legacy_write_lease: after the first activation the legacy tree never changes again.
THEOREM CutoverLegacyIsFenced == Spec => LegacyIsFenced
<1>1. IInv /\ [Next]_vars => [legacy' # legacy => pointer = Legacy /\ pointer' = Legacy]_vars
  <2> SUFFICES ASSUME IInv, Next, legacy' # legacy
               PROVE  pointer = Legacy /\ pointer' = Legacy
    OBVIOUS
  <2>1. PICK w \in Processes : WriteLegacy(w)
    BY DEF Next, Dispatch, LegacyWriter, EnterLegacy, RecheckLegacy, RejectLegacy, ExitLegacy,
       RepositoryWriter, PublishConfig, EnterRepository, Bind, RejectBinding, CommitConfig,
       AbortConfig, Reader, EnterRead, ExitRead, Maintenance, EnterMaintenance, Activate,
       ExitMaintenance, GiveUp
  <2>2. bound[w] = Legacy
    BY <2>1 DEF WriteLegacy, IInv, BindingInv
  <2> QED
    BY <2>1, <2>2 DEF WriteLegacy, IInv, BoundIsActive
<1> QED
  BY <1>1, CutoverInvariant, PTL DEF Spec, LegacyIsFenced

\* MutationService under the lease: only the active generation is written, and only by an
\* installation that vouches for it.
THEOREM CutoverOnlyActiveIsWritten == Spec => OnlyActiveIsWritten
<1> DEFINE Allowed == \A g \in Generations :
                          revision'[g] # revision[g] =>
                             pointer = g /\ \E w \in Processes : pc[w] = "bound" /\ g \in Trusts[w]
<1>1. IInv /\ [Next]_vars => [Allowed]_vars
  <2> SUFFICES ASSUME IInv, Next, NEW g \in Generations, revision'[g] # revision[g]
               PROVE  pointer = g /\ \E w \in Processes : pc[w] = "bound" /\ g \in Trusts[w]
    OBVIOUS
  <2>1. PICK w \in Processes : CommitConfig(w)
    BY DEF Next, Dispatch, LegacyWriter, EnterLegacy, RecheckLegacy, RejectLegacy, WriteLegacy,
       ExitLegacy, RepositoryWriter, PublishConfig, EnterRepository, Bind, RejectBinding,
       AbortConfig, Reader, EnterRead, ExitRead, Maintenance, EnterMaintenance, Activate,
       ExitMaintenance, GiveUp
  <2>2. bound[w] = g
    BY <2>1 DEF CommitConfig, AdvanceOnce, IInv, TypeOK
  <2> QED
    BY <2>1, <2>2 DEF CommitConfig, Admissible, IInv, BindingInv
<1> QED
  BY <1>1, CutoverInvariant, PTL DEF Spec, OnlyActiveIsWritten

=============================================================================
