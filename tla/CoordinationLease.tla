-------------------------- MODULE CoordinationLease --------------------------
(***************************************************************************)
(* CoordinationLease of storage/authority.py: the lease file that writers  *)
(* share and maintenance holds alone.  Two locks make one lease: a         *)
(* process-local RLock with a registry entry (depth, exclusive), and one   *)
(* flock on a fresh descriptor of coordination.lock.  Nested leases of the *)
(* same thread reuse the flock of the outermost one.                       *)
(*                                                                         *)
(* flock is external: a lock belongs to the open descriptor, and a killed  *)
(* process loses its descriptors.  msvcrt.locking knows no shared mode.    *)
(***************************************************************************)
EXTENDS Integers, Sequences

CONSTANTS
    Threads,
    Processes,
    ProcessOf,      \* the process each thread runs in
    SharedLocks,    \* TRUE with fcntl, FALSE with msvcrt
    MaxNesting,     \* bound: leases one thread enters inside one another
    None

ASSUME ProcessAssumption == ProcessOf \in [Threads -> Processes]
ASSUME SharedAssumption == SharedLocks \in BOOLEAN
ASSUME NestingAssumption == MaxNesting \in Nat
ASSUME NoneAssumption == None \notin Threads

VARIABLES
    owner,      \* thread that owns the process's RLock, or None
    depth,      \* _LocalLeaseState.depth of each process
    exclusive,  \* _LocalLeaseState.exclusive of each process
    flock,      \* the OS lock a thread's descriptor carries
    pc,         \* where a thread is in __enter__
    wants,      \* the mode it is entering with
    stack       \* the leases it has entered and not left, outermost first

vars == <<owner, depth, exclusive, flock, pc, wants, stack>>

Modes == {"shared", "exclusive"}

Init ==
    /\ owner = [p \in Processes |-> None]
    /\ depth = [p \in Processes |-> 0]
    /\ exclusive = [p \in Processes |-> FALSE]
    /\ flock = [t \in Threads |-> "none"]
    /\ pc = [t \in Threads |-> "running"]
    /\ wants = [t \in Threads |-> "shared"]
    /\ stack = [t \in Threads |-> <<>>]

Process(t) == ProcessOf[t]
Goto(t, place) == pc' = [pc EXCEPT ![t] = place]
Push(t) == stack' = [stack EXCEPT ![t] = Append(@, wants[t])]
Pop(t) == stack' = [stack EXCEPT ![t] = SubSeq(@, 1, Len(@) - 1)]

----------------------------------------------------------------------------
(* __enter__                                                               *)

Enter(t, mode) ==
    /\ pc[t] = "running"
    /\ Len(stack[t]) < MaxNesting
    /\ wants' = [wants EXCEPT ![t] = mode]
    /\ Goto(t, "local")
    /\ UNCHANGED <<owner, depth, exclusive, flock, stack>>

\* The RLock is free, or this thread's already.
CanOwn(t) == owner[Process(t)] \in {None, t}

\* _acquire_local_lease, first lease of this thread: on to the OS lock.
AcquireLocal(t) ==
    /\ pc[t] = "local"
    /\ CanOwn(t)
    /\ depth[Process(t)] = 0
    /\ owner' = [owner EXCEPT ![Process(t)] = t]
    /\ Goto(t, "polling")
    /\ UNCHANGED <<depth, exclusive, flock, wants, stack>>

\* Mutant: nesting only counts.
AnyNesting(t) == TRUE
\* A nested lease may not ask for more than the outermost one got.
Nestable(t) == wants[t] = "exclusive" => exclusive[Process(t)]

\* _acquire_local_lease, a nested lease: no second OS lock.
EnterNested(t) ==
    /\ pc[t] = "local"
    /\ CanOwn(t)
    /\ depth[Process(t)] # 0
    /\ Nestable(t)
    /\ depth' = [depth EXCEPT ![Process(t)] = @ + 1]
    /\ Push(t)
    /\ Goto(t, "running")
    /\ UNCHANGED <<owner, exclusive, flock, wants>>

\* Mutant: the upgrade waits for the shared lease to end.
UpgradeWaits(t) == FALSE
\* A shared lease cannot be upgraded: AuthorityConflictError, the RLock count goes
\* back to what the outer leases hold.
RejectUpgrade(t) ==
    /\ pc[t] = "local"
    /\ CanOwn(t)
    /\ depth[Process(t)] # 0
    /\ ~Nestable(t)
    /\ Goto(t, "running")
    /\ UNCHANGED <<owner, depth, exclusive, flock, wants, stack>>

\* Another thread of the process kept the RLock until the deadline.
TimeOutLocal(t) ==
    /\ pc[t] = "local"
    /\ ~CanOwn(t)
    /\ Goto(t, "running")
    /\ UNCHANGED <<owner, depth, exclusive, flock, wants, stack>>

\* LOCK_SH or LOCK_EX, as the platform has it.
OsMode(t) == IF SharedLocks THEN wants[t] ELSE "exclusive"
\* Mutant: "would block" is taken for success.
AlwaysGranted(t) == TRUE
\* LOCK_NB succeeds.
Grantable(t) ==
    \A u \in Threads \ {t} : /\ flock[u] # "exclusive"
                             /\ OsMode(t) = "exclusive" => flock[u] = "none"

\* _acquire_os_lock: one non-blocking try succeeds.
AcquireOs(t) ==
    /\ pc[t] = "polling"
    /\ Grantable(t)
    /\ flock' = [flock EXCEPT ![t] = OsMode(t)]
    /\ depth' = [depth EXCEPT ![Process(t)] = 1]
    /\ exclusive' = [exclusive EXCEPT ![Process(t)] = wants[t] = "exclusive"]
    /\ Push(t)
    /\ Goto(t, "running")
    /\ UNCHANGED <<owner, wants>>

\* Mutant: the depth is kept.
KeepDepth(t) ==
    /\ owner' = [owner EXCEPT ![Process(t)] = None]
    /\ UNCHANGED <<depth, exclusive>>
\* _release_local_state
ReleaseLocal(t) ==
    /\ depth' = [depth EXCEPT ![Process(t)] = 0]
    /\ exclusive' = [exclusive EXCEPT ![Process(t)] = FALSE]
    /\ owner' = [owner EXCEPT ![Process(t)] = None]

\* The deadline passed, the descriptor could not be opened safely, or a
\* cancellation arrived: the descriptor is closed and the local state released.
AbandonOs(t) ==
    /\ pc[t] = "polling"
    /\ ReleaseLocal(t)
    /\ Goto(t, "running")
    /\ UNCHANGED <<flock, wants, stack>>

----------------------------------------------------------------------------
(* __exit__ of the innermost lease, and the death of a process.            *)

ExitNested(t) ==
    /\ pc[t] = "running"
    /\ Len(stack[t]) > 1
    /\ depth' = [depth EXCEPT ![Process(t)] = @ - 1]
    /\ Pop(t)
    /\ UNCHANGED <<owner, exclusive, flock, pc, wants>>

ExitOutermost(t) ==
    /\ pc[t] = "running"
    /\ Len(stack[t]) = 1
    /\ flock' = [flock EXCEPT ![t] = "none"]
    /\ ReleaseLocal(t)
    /\ Pop(t)
    /\ UNCHANGED <<pc, wants>>

Die(p) ==
    LET mine(t) == Process(t) = p
    IN /\ owner' = [owner EXCEPT ![p] = None]
       /\ depth' = [depth EXCEPT ![p] = 0]
       /\ exclusive' = [exclusive EXCEPT ![p] = FALSE]
       /\ flock' = [t \in Threads |-> IF mine(t) THEN "none" ELSE flock[t]]
       /\ pc' = [t \in Threads |-> IF mine(t) THEN "running" ELSE pc[t]]
       /\ stack' = [t \in Threads |-> IF mine(t) THEN <<>> ELSE stack[t]]
       /\ UNCHANGED wants

AtLocal(t) == AcquireLocal(t) \/ EnterNested(t) \/ RejectUpgrade(t) \/ TimeOutLocal(t)
AtOs(t) == AcquireOs(t) \/ AbandonOs(t)
Exit(t) == ExitNested(t) \/ ExitOutermost(t)

Next == \/ \E t \in Threads : \/ \E mode \in Modes : Enter(t, mode)
                              \/ AtLocal(t)
                              \/ AtOs(t)
                              \/ Exit(t)
        \/ \E p \in Processes : Die(p)

Spec == Init /\ [][Next]_vars

\* Both waits are bounded by the deadline.
Fairness == \A t \in Threads : WF_vars(AtLocal(t)) /\ WF_vars(AtOs(t))
LiveSpec == Spec /\ Fairness

----------------------------------------------------------------------------
(* Properties.                                                             *)

TypeOK ==
    /\ owner \in [Processes -> Threads \cup {None}]
    /\ depth \in [Processes -> Nat]
    /\ exclusive \in [Processes -> BOOLEAN]
    /\ flock \in [Threads -> Modes \cup {"none"}]
    /\ pc \in [Threads -> {"running", "local", "polling"}]
    /\ wants \in [Threads -> Modes]
    /\ stack \in [Threads -> Seq(Modes)]

Holding(t) == stack[t] # <<>>
HoldsExclusive(t) == \E i \in DOMAIN stack[t] : stack[t][i] = "exclusive"

\* Whoever is inside an exclusive lease, at whatever nesting, is alone: no other
\* thread of any process is inside a lease.
ExclusiveIsAlone ==
    \A t, u \in Threads : t # u /\ HoldsExclusive(t) => ~Holding(u)

\* Within one process the RLock serialises even shared leases.
OneHolderPerProcess ==
    \A t, u \in Threads : t # u /\ Process(t) = Process(u) => ~(Holding(t) /\ Holding(u))

\* The registry counts exactly the leases in use, and the OS lock lives exactly as
\* long as the outermost of them: an inner exit, a refused upgrade, a timeout or a
\* cancellation neither drops it early nor leaks it.
RegistryMatchesLeases ==
    /\ \A t \in Threads : Holding(t) <=> flock[t] # "none"
    /\ \A t \in Threads : Holding(t) => /\ owner[Process(t)] = t
                                        /\ depth[Process(t)] = Len(stack[t])
    /\ \A p \in Processes :
          owner[p] = None => depth[p] = 0 /\ ~exclusive[p]

\* Two threads never wait for each other: every entry ends within its deadline
\* (including the upgrade a thread asks of its own lease).
EntryEnds == \A t \in Threads : pc[t] # "running" ~> pc[t] = "running"

\* The two-level lease implements the contract; on Windows a shared lease is
\* granted as an exclusive one.
Contract == INSTANCE LeaseContract WITH holds <- flock
ImplementsContract == Contract!Spec

=============================================================================
