--------------------------- MODULE AuthorityCutover ---------------------------
(***************************************************************************)
(* Which storage a process may write: legacy CSV until active.json exists, *)
(* afterwards the repository generation it names (storage/authority.py),   *)
(* seen by legacy writers (legacy_write_lease), repository writers         *)
(* (mutation_facade.py on MutationService) and readers (read_facade.py).   *)
(*                                                                         *)
(* A process resolves the authority twice: once without any lock, to       *)
(* choose its code path, and again under the coordination lease.  Between  *)
(* the two, maintenance may activate another generation.  Activation is    *)
(* external (no command of this repository performs it): it holds the      *)
(* lease exclusively and replaces the pointer.                             *)
(***************************************************************************)
EXTENDS Integers

CONSTANTS
    Processes,
    Generations,
    Trusts,        \* generations whose activation tuple matches the release and
                   \* manifests that a process's evidence provider vouches for
    Documents,     \* contents of a configuration document
    MaxRevision,   \* bound: commits per generation
    MaxLegacy,     \* bound: writes of the legacy tree
    Legacy,        \* no activation record
    None

ASSUME TrustAssumption == Trusts \in [Processes -> SUBSET Generations]
ASSUME LegacyAssumption == Legacy \notin Generations
ASSUME NoneAssumption == None \notin Generations \cup {Legacy}
ASSUME BoundAssumption == MaxRevision \in Nat /\ MaxLegacy \in Nat

VARIABLES
    pointer,   \* active.json: Legacy while there is none
    holds,     \* coordination leases, as CoordinationLease provides them
    legacy,    \* number of writes the legacy tree has seen
    revision,  \* dataset_revision of each generation
    head,      \* selected document of each generation, or None
    objects,   \* object store of each generation
    pc,        \* where each process is
    route,     \* authority resolved without the lease
    request,   \* document and expected generation of the request being made
    bound      \* authority resolved under the lease

vars == <<pointer, holds, legacy, revision, head, objects, pc, route, request, bound>>

Lease == INSTANCE LeaseContract WITH Threads <- Processes

Places == {"idle", "routed", "entered", "writing", "published", "leased", "bound", "reading",
           "maintenance"}

Init ==
    /\ pointer = Legacy
    /\ Lease!Init
    /\ legacy = 0
    /\ revision = [g \in Generations |-> 0]
    /\ head = [g \in Generations |-> None]
    /\ objects = [g \in Generations |-> {}]
    /\ pc = [w \in Processes |-> "idle"]
    /\ route = [w \in Processes |-> None]
    /\ request = [w \in Processes |-> None]
    /\ bound = [w \in Processes |-> None]

Goto(w, place) == pc' = [pc EXCEPT ![w] = place]

\* resolve_authority: evidence is needed, and must match, once a pointer exists.
Resolves(w) == pointer = Legacy \/ pointer \in Trusts[w]

\* Leaving, by return or by exception, forgets the locals and the lease.
Leave(w) ==
    /\ Goto(w, "idle")
    /\ Lease!Release({w})
    /\ route' = [route EXCEPT ![w] = None]
    /\ request' = [request EXCEPT ![w] = None]
    /\ bound' = [bound EXCEPT ![w] = None]

\* resolve_storage_authority without the lease.
Dispatch(w) ==
    /\ pc[w] = "idle"
    /\ Resolves(w)
    /\ route' = [route EXCEPT ![w] = pointer]
    /\ Goto(w, "routed")
    /\ UNCHANGED <<pointer, holds, legacy, revision, head, objects, request, bound>>

----------------------------------------------------------------------------
(* legacy_write_lease                                                      *)

EnterLegacy(w) ==
    /\ pc[w] = "routed"
    /\ route[w] = Legacy
    /\ Lease!Acquire(w, "shared")
    /\ Goto(w, "entered")
    /\ UNCHANGED <<pointer, legacy, revision, head, objects, route, request, bound>>

\* Mutant: the path chosen without the lease is trusted.
RoutedLegacy(w) == route[w] = Legacy
StillLegacy(w) == pointer = Legacy

\* The second resolution, under the lease.
RecheckLegacy(w) ==
    /\ pc[w] = "entered"
    /\ StillLegacy(w)
    /\ bound' = [bound EXCEPT ![w] = Legacy]
    /\ Goto(w, "writing")
    /\ UNCHANGED <<pointer, holds, legacy, revision, head, objects, route, request>>

\* AuthorityConflictError or AuthorityEvidenceUnavailableError.
RejectLegacy(w) ==
    /\ pc[w] = "entered"
    /\ ~StillLegacy(w)
    /\ Leave(w)
    /\ UNCHANGED <<pointer, legacy, revision, head, objects>>

\* One file of the legacy tree (a partition, the history, the audit log) is
\* replaced; a command may replace several under one lease.
WriteLegacy(w) ==
    /\ pc[w] = "writing"
    /\ legacy < MaxLegacy
    /\ legacy' = legacy + 1
    /\ UNCHANGED <<pointer, holds, revision, head, objects, pc, route, request, bound>>

ExitLegacy(w) ==
    /\ pc[w] = "writing"
    /\ Leave(w)
    /\ UNCHANGED <<pointer, legacy, revision, head, objects>>

----------------------------------------------------------------------------
(* replace_config: publish, build the request, execute.                    *)

\* _publish_config_mutation and _request use the authority resolved without the
\* lease; expected_generation is that one unless the caller named another.
PublishConfig(w, d, g) ==
    /\ pc[w] = "routed"
    /\ route[w] # Legacy
    /\ objects' = [objects EXCEPT ![route[w]] = @ \cup {d}]
    /\ request' = [request EXCEPT ![w] = [document |-> d, generation |-> g]]
    /\ Goto(w, "published")
    /\ UNCHANGED <<pointer, holds, legacy, revision, head, route, bound>>

EnterRepository(w) ==
    /\ pc[w] = "published"
    /\ Lease!Acquire(w, "shared")
    /\ Goto(w, "leased")
    /\ UNCHANGED <<pointer, legacy, revision, head, objects, route, request, bound>>

\* Mutant: any pointer will do.
AnyPointer(w) == pointer # Legacy
\* _verify_external_evidence
Vouched(w) == pointer \in Trusts[w]

\* require_repository_binding reads the pointer again.
Bind(w) ==
    /\ pc[w] = "leased"
    /\ Vouched(w)
    /\ bound' = [bound EXCEPT ![w] = pointer]
    /\ Goto(w, "bound")
    /\ UNCHANGED <<pointer, holds, legacy, revision, head, objects, route, request>>

\* AuthorityIntegrityError: no pointer, or evidence for another release.
RejectBinding(w) ==
    /\ pc[w] = "leased"
    /\ ~Vouched(w)
    /\ Leave(w)
    /\ UNCHANGED <<pointer, legacy, revision, head, objects>>

\* Mutant: the object is assumed to be where it was published.
AdmissibleUnverified(w) == pointer = bound[w] /\ request[w].generation = bound[w]
\* revalidate under BEGIN IMMEDIATE, _validate_new_request, and the verification of
\* the object by register_source_artifact.
Admissible(w) ==
    /\ pointer = bound[w]
    /\ request[w].generation = bound[w]
    /\ request[w].document \in objects[bound[w]]

AdvanceOnce(w) == revision' = [revision EXCEPT ![bound[w]] = @ + 1]

CommitConfig(w) ==
    /\ pc[w] = "bound"
    /\ Admissible(w)
    /\ revision[bound[w]] < MaxRevision
    /\ head' = [head EXCEPT ![bound[w]] = request[w].document]
    /\ AdvanceOnce(w)
    /\ Leave(w)
    /\ UNCHANGED <<pointer, legacy, objects>>

\* Rejected, rolled back, or stopped at the bound.
AbortConfig(w) ==
    /\ pc[w] = "bound"
    /\ Leave(w)
    /\ UNCHANGED <<pointer, legacy, revision, head, objects>>

----------------------------------------------------------------------------
(* _read_snapshot                                                          *)

EnterRead(w) ==
    /\ pc[w] = "routed"
    /\ route[w] # Legacy
    /\ Lease!Acquire(w, "shared")
    /\ Resolves(w) /\ pointer # Legacy
    /\ bound' = [bound EXCEPT ![w] = pointer]
    /\ Goto(w, "reading")
    /\ UNCHANGED <<pointer, legacy, revision, head, objects, route, request>>

ExitRead(w) ==
    /\ pc[w] = "reading"
    /\ Leave(w)
    /\ UNCHANGED <<pointer, legacy, revision, head, objects>>

----------------------------------------------------------------------------
(* Maintenance (external) and failures.                                    *)

EnterMaintenance(w) ==
    /\ pc[w] = "idle"
    /\ Lease!Acquire(w, "exclusive")
    /\ Goto(w, "maintenance")
    /\ UNCHANGED <<pointer, legacy, revision, head, objects, route, request, bound>>

Activate(w, g) ==
    /\ pc[w] = "maintenance"
    /\ pointer' = g
    /\ UNCHANGED <<holds, legacy, revision, head, objects, pc, route, request, bound>>

ExitMaintenance(w) ==
    /\ pc[w] = "maintenance"
    /\ Leave(w)
    /\ UNCHANGED <<pointer, legacy, revision, head, objects>>

\* A timeout while waiting for the lease, an exception, or the death of the process:
\* whatever it had already put on disk stays.
GiveUp(w) ==
    /\ pc[w] # "idle"
    /\ Leave(w)
    /\ UNCHANGED <<pointer, legacy, revision, head, objects>>

LegacyWriter(w) == EnterLegacy(w) \/ RecheckLegacy(w) \/ RejectLegacy(w) \/ WriteLegacy(w)
                   \/ ExitLegacy(w)
RepositoryWriter(w) ==
    \/ \E d \in Documents, g \in Generations : PublishConfig(w, d, g)
    \/ EnterRepository(w) \/ Bind(w) \/ RejectBinding(w) \/ CommitConfig(w) \/ AbortConfig(w)
Reader(w) == EnterRead(w) \/ ExitRead(w)
Maintenance(w) == EnterMaintenance(w) \/ (\E g \in Generations : Activate(w, g))
                  \/ ExitMaintenance(w)

Next == \E w \in Processes :
            \/ Dispatch(w) \/ LegacyWriter(w) \/ RepositoryWriter(w) \/ Reader(w)
            \/ Maintenance(w) \/ GiveUp(w)

Spec == Init /\ [][Next]_vars

----------------------------------------------------------------------------
(* Properties.                                                             *)

TypeOK ==
    /\ pointer \in Generations \cup {Legacy}
    /\ holds \in [Processes -> Lease!Modes \cup {"none"}]
    /\ legacy \in 0..MaxLegacy
    /\ revision \in [Generations -> 0..MaxRevision]
    /\ head \in [Generations -> Documents \cup {None}]
    /\ objects \in [Generations -> SUBSET Documents]
    /\ pc \in [Processes -> Places]
    /\ route \in [Processes -> Generations \cup {Legacy, None}]
    /\ request \in [Processes ->
                      [document : Documents, generation : Generations] \cup {None}]
    /\ bound \in [Processes -> Generations \cup {Legacy, None}]

\* Once a generation is active the legacy tree never changes again, although the
\* writer may have chosen the legacy path before the activation.
LegacyIsFenced == [][legacy' # legacy => pointer = Legacy /\ pointer' = Legacy]_vars

\* Only the active generation is written, and only by an installation whose
\* evidence vouches for it.
OnlyActiveIsWritten ==
    [][\A g \in Generations :
          revision'[g] # revision[g] =>
             pointer = g /\ \E w \in Processes : pc[w] = "bound" /\ g \in Trusts[w]]_vars

\* What a process resolved under its lease is the authority for as long as it
\* holds the lease.
BoundIsActive == \A w \in Processes : bound[w] # None => bound[w] = pointer

\* A generation's head names an object of that generation's own store, although the
\* object is published before the generation is bound.
HeadIsInOwnStore == \A g \in Generations : head[g] # None => head[g] \in objects[g]

=============================================================================
