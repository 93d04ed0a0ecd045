----------------------- MODULE CoordinationLeaseProofs -----------------------
(***************************************************************************)
(* The safety of the two-level lease, for any number of threads, processes *)
(* and nested leases, on both kinds of platform.                           *)
(***************************************************************************)
EXTENDS CoordinationLease, SequenceTheorems, TLAPS

----------------------------------------------------------------------------
(* Sequences: what entering and leaving a lease does to the stack.         *)

\* Append adds its element at the end and keeps the rest.
LEMMA PushFacts ==
    ASSUME NEW s \in Seq(Modes), NEW m \in Modes
    PROVE  /\ Append(s, m) \in Seq(Modes)
           /\ Len(Append(s, m)) = Len(s) + 1
           /\ Append(s, m) # <<>>
           /\ \A i \in DOMAIN Append(s, m) :
                 Append(s, m)[i] = m \/ (i \in DOMAIN s /\ Append(s, m)[i] = s[i])
  BY DEF Modes

\* Dropping the last element keeps the others where they are.
LEMMA PopFacts ==
    ASSUME NEW s \in Seq(Modes), Len(s) > 0
    PROVE  /\ SubSeq(s, 1, Len(s) - 1) \in Seq(Modes)
           /\ Len(SubSeq(s, 1, Len(s) - 1)) = Len(s) - 1
           /\ \A i \in DOMAIN SubSeq(s, 1, Len(s) - 1) :
                 i \in DOMAIN s /\ SubSeq(s, 1, Len(s) - 1)[i] = s[i]
  BY DEF Modes

\* A sequence is empty exactly when its length is zero.
LEMMA EmptyFacts ==
    ASSUME NEW s \in Seq(Modes)
    PROVE  /\ s # <<>> <=> Len(s) > 0
           /\ Len(s) \in Nat
  BY DEF Modes

----------------------------------------------------------------------------
(* The inductive invariant.                                                *)

\* A thread carries an OS lock exactly while it is inside a lease, and then it owns
\* its process's RLock and the registry counts its leases.
HoldingInv ==
    \A t \in Threads :
        /\ stack[t] # <<>> <=> flock[t] # "none"
        /\ stack[t] # <<>> => /\ owner[Process(t)] = t
                              /\ depth[Process(t)] = Len(stack[t])
                              /\ pc[t] # "polling"

\* A thread polls for the OS lock alone in its process, with a clean registry.
PollingInv ==
    \A t \in Threads :
        pc[t] = "polling" => /\ owner[Process(t)] = t
                             /\ depth[Process(t)] = 0
                             /\ stack[t] = <<>>

\* Nobody owns the RLock for nothing, and a clean registry is not exclusive.
RegistryInv ==
    /\ \A t \in Threads :
          owner[Process(t)] = t => pc[t] = "polling" \/ stack[t] # <<>>
    /\ \A p \in Processes : /\ owner[p] = None => depth[p] = 0
                            /\ depth[p] = 0 => ~exclusive[p]

\* An exclusive lease anywhere in the stack means an exclusive OS lock.
ModeInv ==
    \A t \in Threads :
        /\ \A i \in DOMAIN stack[t] : stack[t][i] = "exclusive" => exclusive[Process(t)]
        /\ stack[t] # <<>> /\ exclusive[Process(t)] => flock[t] = "exclusive"

\* The OS grants an exclusive lock to one descriptor alone.
FlockInv ==
    \A t, u \in Threads : t # u /\ flock[t] = "exclusive" => flock[u] = "none"

IInv == TypeOK /\ HoldingInv /\ PollingInv /\ RegistryInv /\ ModeInv /\ FlockInv

USE ProcessAssumption, SharedAssumption, NoneAssumption DEF Process

LEMMA InitIInv == Init => IInv
  BY EmptyFacts DEF Init, IInv, TypeOK, HoldingInv, PollingInv, RegistryInv, ModeInv,
     FlockInv, Modes

\* One step of any thread, or the death of any process, preserves the invariant.
LEMMA NextIInv == IInv /\ [Next]_vars => IInv'
<1> SUFFICES ASSUME IInv, [Next]_vars PROVE IInv'
  OBVIOUS
<1> USE DEF IInv, TypeOK
<1>1. ASSUME NEW t \in Threads, NEW mode \in Modes, Enter(t, mode) PROVE IInv'
  BY <1>1 DEF Enter, Goto, HoldingInv, PollingInv, RegistryInv, ModeInv, FlockInv
<1>2. ASSUME NEW t \in Threads, AcquireLocal(t) PROVE IInv'
  <2>1. stack[t] = <<>>
    BY <1>2, EmptyFacts DEF AcquireLocal, HoldingInv
  <2>2. \A u \in Threads : Process(u) = Process(t) => u = t \/ (stack[u] = <<>> /\ pc[u] # "polling")
    BY <1>2, NoneAssumption DEF AcquireLocal, CanOwn, HoldingInv, PollingInv
  <2>3. TypeOK'
    BY <1>2 DEF AcquireLocal, Goto
  <2>4. HoldingInv' /\ PollingInv' /\ RegistryInv'
    BY <1>2, <2>1, <2>2 DEF AcquireLocal, Goto, CanOwn, HoldingInv, PollingInv, RegistryInv
  <2>5. ModeInv' /\ FlockInv'
    BY <1>2 DEF AcquireLocal, Goto, ModeInv, FlockInv
  <2> QED BY <2>3, <2>4, <2>5
<1>3. ASSUME NEW t \in Threads, EnterNested(t) PROVE IInv'
  <2>1. owner[Process(t)] = t /\ stack[t] # <<>>
    BY <1>3 DEF EnterNested, CanOwn, RegistryInv, PollingInv
  <2>2. stack'[t] = Append(stack[t], wants[t]) /\ \A u \in Threads \ {t} : stack'[u] = stack[u]
    BY <1>3 DEF EnterNested, Push
  <2>3. \A u \in Threads \ {t} : Process(u) = Process(t) => stack[u] = <<>> /\ pc[u] # "polling"
    BY <2>1 DEF HoldingInv, PollingInv
  <2>4. TypeOK'
    BY <1>3, PushFacts DEF EnterNested, Goto, Push
  <2>5. HoldingInv' /\ PollingInv'
    BY <1>3, <2>1, <2>2, <2>3, PushFacts DEF EnterNested, Goto, HoldingInv, PollingInv
  <2>6. RegistryInv'
    BY <1>3, <2>1, <2>2, <2>3, PushFacts DEF EnterNested, Goto, RegistryInv, PollingInv
  <2>7. ModeInv'
    <3>1. \A i \in DOMAIN stack'[t] :
             stack'[t][i] = wants[t] \/ (i \in DOMAIN stack[t] /\ stack'[t][i] = stack[t][i])
      <4>1. stack[t] \in Seq(Modes) /\ wants[t] \in Modes
        OBVIOUS
      <4> QED BY <4>1, <2>2, PushFacts
    <3>2. \A i \in DOMAIN stack'[t] : stack'[t][i] = "exclusive" => exclusive[Process(t)]
      BY <3>1, <1>3 DEF EnterNested, Nestable, ModeInv
    <3> QED BY <3>2, <1>3, <2>1, <2>2 DEF EnterNested, ModeInv
  <2>8. FlockInv'
    BY <1>3 DEF EnterNested, FlockInv
  <2> QED BY <2>4, <2>5, <2>6, <2>7, <2>8
<1>4. ASSUME NEW t \in Threads, RejectUpgrade(t) \/ TimeOutLocal(t) PROVE IInv'
  <2>1. /\ pc[t] = "local" /\ pc' = [pc EXCEPT ![t] = "running"]
        /\ UNCHANGED <<owner, depth, exclusive, flock, wants, stack>>
    BY <1>4 DEF RejectUpgrade, TimeOutLocal, Goto
  <2> QED BY <2>1 DEF HoldingInv, PollingInv, RegistryInv, ModeInv, FlockInv
<1>5. ASSUME NEW t \in Threads, AcquireOs(t) PROVE IInv'
  <2>1. owner[Process(t)] = t /\ stack[t] = <<>> /\ depth[Process(t)] = 0
    BY <1>5 DEF AcquireOs, PollingInv
  <2>2. stack'[t] = Append(stack[t], wants[t]) /\ \A u \in Threads \ {t} : stack'[u] = stack[u]
    BY <1>5 DEF AcquireOs, Push
  <2>3. \A u \in Threads \ {t} : Process(u) = Process(t) => stack[u] = <<>> /\ pc[u] # "polling"
    BY <2>1 DEF HoldingInv, PollingInv
  <2>4. Len(stack'[t]) = 1 /\ stack'[t] # <<>> /\ stack'[t] \in Seq(Modes)
    BY <2>1, <2>2, PushFacts, EmptyFacts DEF Modes
  <2>5. TypeOK'
    BY <1>5, <2>2, <2>4 DEF AcquireOs, Goto, Push, OsMode, Modes
  <2>6. HoldingInv' /\ PollingInv'
    <3>1. /\ depth' = [depth EXCEPT ![Process(t)] = 1]
          /\ flock' = [flock EXCEPT ![t] = OsMode(t)]
          /\ pc' = [pc EXCEPT ![t] = "running"]
          /\ UNCHANGED owner
      BY <1>5 DEF AcquireOs, Goto
    <3>2. OsMode(t) # "none"
      BY DEF OsMode, Modes
    <3>3. ASSUME NEW u \in Threads, u # t, Process(u) = Process(t)
          PROVE  stack'[u] = <<>> /\ pc'[u] # "polling"
      BY <3>1, <3>3, <2>2, <2>3
    <3>4. ASSUME NEW u \in Threads, u # t, Process(u) # Process(t)
          PROVE  /\ stack'[u] = stack[u] /\ flock'[u] = flock[u] /\ pc'[u] = pc[u]
                 /\ owner'[Process(u)] = owner[Process(u)]
                 /\ depth'[Process(u)] = depth[Process(u)]
      BY <3>1, <3>4, <2>2
    <3>5. /\ flock'[t] # "none" /\ pc'[t] = "running" /\ owner'[Process(t)] = t
          /\ depth'[Process(t)] = Len(stack'[t])
      BY <3>1, <3>2, <2>1, <2>4
    <3>6. \A u \in Threads \ {t} : flock'[u] = flock[u] /\ stack'[u] = stack[u]
      BY <3>1, <2>2
    <3>7. HoldingInv'
      <4>1. ASSUME NEW u \in Threads, u # t
            PROVE  /\ stack'[u] # <<>> <=> flock'[u] # "none"
                   /\ stack'[u] # <<>> => /\ owner'[Process(u)] = u
                                          /\ depth'[Process(u)] = Len(stack'[u])
                                          /\ pc'[u] # "polling"
        <5>1. CASE Process(u) = Process(t)
          BY <4>1, <5>1, <3>3, <3>6 DEF HoldingInv
        <5>2. CASE Process(u) # Process(t)
          BY <4>1, <5>2, <3>4 DEF HoldingInv
        <5> QED BY <5>1, <5>2
      <4> QED BY <4>1, <3>5, <2>4 DEF HoldingInv
    <3>8. PollingInv'
      BY <3>3, <3>4, <3>5, <3>6 DEF PollingInv
    <3> QED BY <3>7, <3>8
  <2>9. RegistryInv'
    <3>1. /\ depth' = [depth EXCEPT ![Process(t)] = 1]
          /\ exclusive' = [exclusive EXCEPT ![Process(t)] = (wants[t] = "exclusive")]
          /\ pc' = [pc EXCEPT ![t] = "running"]
          /\ UNCHANGED owner
      BY <1>5 DEF AcquireOs, Goto
    <3>2. ASSUME NEW u \in Threads, owner'[Process(u)] = u
          PROVE  pc'[u] = "polling" \/ stack'[u] # <<>>
      BY <3>1, <3>2, <2>1, <2>2, <2>4 DEF RegistryInv
    <3>3. ASSUME NEW p \in Processes
          PROVE  /\ owner'[p] = None => depth'[p] = 0
                 /\ depth'[p] = 0 => ~exclusive'[p]
      <4>1. CASE p = Process(t)
        BY <4>1, <2>1, <3>1
      <4>2. CASE p # Process(t)
        BY <4>2, <3>1 DEF RegistryInv
      <4> QED BY <4>1, <4>2
    <3> QED BY <3>2, <3>3 DEF RegistryInv
  <2>7. ModeInv'
    <3>1. \A i \in DOMAIN stack'[t] : stack'[t][i] = wants[t]
      <4>1. stack[t] \in Seq(Modes) /\ wants[t] \in Modes
        OBVIOUS
      <4> QED BY <4>1, <2>1, <2>2, PushFacts
    <3>2. \A u \in Threads \ {t} : Process(u) = Process(t) => stack'[u] = <<>>
      BY <2>2, <2>3
    <3>3. exclusive' = [exclusive EXCEPT ![Process(t)] = (wants[t] = "exclusive")]
          /\ flock' = [flock EXCEPT ![t] = OsMode(t)]
      BY <1>5 DEF AcquireOs
    <3>4. ASSUME NEW u \in Threads, u # t
          PROVE  /\ \A i \in DOMAIN stack'[u] : stack'[u][i] = "exclusive" => exclusive'[Process(u)]
                 /\ stack'[u] # <<>> /\ exclusive'[Process(u)] => flock'[u] = "exclusive"
      BY <3>2, <3>3, <3>4, <2>2 DEF ModeInv
    <3>5. wants[t] = "exclusive" => OsMode(t) = "exclusive"
      BY DEF OsMode
    <3>6. /\ \A i \in DOMAIN stack'[t] : stack'[t][i] = "exclusive" => exclusive'[Process(t)]
          /\ stack'[t] # <<>> /\ exclusive'[Process(t)] => flock'[t] = "exclusive"
      BY <3>1, <3>3, <3>5
    <3> QED BY <3>4, <3>6 DEF ModeInv
  <2>8. FlockInv'
    BY <1>5 DEF AcquireOs, Grantable, OsMode, FlockInv, Modes
  <2> QED BY <2>5, <2>6, <2>7, <2>8, <2>9
<1>6. ASSUME NEW t \in Threads, AbandonOs(t) PROVE IInv'
  <2>1. owner[Process(t)] = t /\ stack[t] = <<>> /\ depth[Process(t)] = 0
    BY <1>6 DEF AbandonOs, PollingInv
  <2>2. \A u \in Threads \ {t} : Process(u) = Process(t) => stack[u] = <<>> /\ pc[u] # "polling"
    BY <2>1 DEF HoldingInv, PollingInv
  <2> QED BY <1>6, <2>1, <2>2, EmptyFacts
      DEF AbandonOs, ReleaseLocal, Goto, HoldingInv, PollingInv, RegistryInv, ModeInv, FlockInv
<1>7. ASSUME NEW t \in Threads, ExitNested(t) PROVE IInv'
  <2>0. stack[t] \in Seq(Modes) /\ Len(stack[t]) > 1
    BY <1>7 DEF ExitNested
  <2>1. stack[t] # <<>> /\ owner[Process(t)] = t /\ depth[Process(t)] = Len(stack[t])
    BY <2>0, EmptyFacts DEF HoldingInv
  <2>2. stack'[t] = SubSeq(stack[t], 1, Len(stack[t]) - 1)
        /\ \A u \in Threads \ {t} : stack'[u] = stack[u]
    BY <1>7 DEF ExitNested, Pop
  <2>3. \A u \in Threads \ {t} : Process(u) = Process(t) => stack[u] = <<>> /\ pc[u] # "polling"
    BY <2>1 DEF HoldingInv, PollingInv
  <2>4. stack'[t] \in Seq(Modes) /\ Len(stack'[t]) = Len(stack[t]) - 1 /\ stack'[t] # <<>>
    <3>1. SubSeq(stack[t], 1, Len(stack[t]) - 1) \in Seq(Modes)
          /\ Len(SubSeq(stack[t], 1, Len(stack[t]) - 1)) = Len(stack[t]) - 1
      BY <2>0, PopFacts, EmptyFacts
    <3>2. Len(stack[t]) - 1 > 0
      BY <2>0, EmptyFacts
    <3> QED BY <3>1, <3>2, <2>2, EmptyFacts
  <2>5. TypeOK'
    BY <1>7, <2>1, <2>2, <2>4, EmptyFacts DEF ExitNested, Pop
  <2>6. HoldingInv' /\ PollingInv'
    BY <1>7, <2>1, <2>2, <2>3, <2>4, EmptyFacts DEF ExitNested, HoldingInv, PollingInv
  <2>7. RegistryInv'
    <3>1. depth'[Process(t)] = Len(stack'[t]) /\ Len(stack'[t]) > 0
      BY <1>7, <2>1, <2>4, EmptyFacts DEF ExitNested
    <3>2. /\ depth' = [depth EXCEPT ![Process(t)] = depth[Process(t)] - 1]
          /\ UNCHANGED <<owner, exclusive, pc>>
      BY <1>7 DEF ExitNested
    <3>3. ASSUME NEW u \in Threads, owner'[Process(u)] = u
          PROVE  pc'[u] = "polling" \/ stack'[u] # <<>>
      BY <3>2, <3>3, <2>2, <2>4 DEF RegistryInv
    <3>4. ASSUME NEW p \in Processes
          PROVE  /\ owner'[p] = None => depth'[p] = 0
                 /\ depth'[p] = 0 => ~exclusive'[p]
      <4>1. CASE p = Process(t)
        BY <4>1, <2>1, <3>1, <3>2
      <4>2. CASE p # Process(t)
        BY <4>2, <3>2 DEF RegistryInv
      <4> QED BY <4>1, <4>2
    <3> QED BY <3>3, <3>4 DEF RegistryInv
  <2>8. ModeInv'
    <3>1. \A i \in DOMAIN stack'[t] : i \in DOMAIN stack[t] /\ stack'[t][i] = stack[t][i]
      BY <2>0, <2>2, PopFacts, EmptyFacts
    <3>2. UNCHANGED <<exclusive, flock>>
      BY <1>7 DEF ExitNested
    <3>3. ASSUME NEW u \in Threads
          PROVE  /\ \A i \in DOMAIN stack'[u] : stack'[u][i] = "exclusive" => exclusive'[Process(u)]
                 /\ stack'[u] # <<>> /\ exclusive'[Process(u)] => flock'[u] = "exclusive"
      <4>1. CASE u = t
        BY <4>1, <2>1, <3>1, <3>2 DEF ModeInv
      <4>2. CASE u # t
        BY <4>2, <2>2, <3>2 DEF ModeInv
      <4> QED BY <4>1, <4>2
    <3> QED BY <3>3 DEF ModeInv
  <2>9. FlockInv'
    BY <1>7 DEF ExitNested, FlockInv
  <2> QED BY <2>5, <2>6, <2>7, <2>8, <2>9
<1>8. ASSUME NEW t \in Threads, ExitOutermost(t) PROVE IInv'
  <2>0. stack[t] \in Seq(Modes) /\ Len(stack[t]) = 1
    BY <1>8 DEF ExitOutermost
  <2>9. stack[t] # <<>>
    <3>1. Len(stack[t]) > 0
      BY <2>0
    <3> QED BY <2>0, <3>1, EmptyFacts
  <2>1. stack[t] # <<>> /\ owner[Process(t)] = t
    BY <2>9 DEF HoldingInv
  <2>2. stack'[t] = SubSeq(stack[t], 1, Len(stack[t]) - 1)
        /\ \A u \in Threads \ {t} : stack'[u] = stack[u]
    BY <1>8 DEF ExitOutermost, Pop
  <2>3. \A u \in Threads \ {t} : Process(u) = Process(t) => stack[u] = <<>> /\ pc[u] # "polling"
    BY <2>1 DEF HoldingInv, PollingInv
  <2>4. stack'[t] \in Seq(Modes) /\ stack'[t] = <<>>
    BY <1>8, <2>2, PopFacts, EmptyFacts DEF ExitOutermost
  <2>5. TypeOK'
    BY <1>8, <2>4 DEF ExitOutermost, Pop, ReleaseLocal
  <2>6. HoldingInv' /\ PollingInv' /\ RegistryInv'
    BY <1>8, <2>1, <2>2, <2>3, <2>4
    DEF ExitOutermost, ReleaseLocal, HoldingInv, PollingInv, RegistryInv
  <2>7. ModeInv' /\ FlockInv'
    BY <1>8, <2>1, <2>2, <2>3, <2>4 DEF ExitOutermost, ReleaseLocal, ModeInv, FlockInv
  <2> QED BY <2>5, <2>6, <2>7
<1>9. ASSUME NEW p \in Processes, Die(p) PROVE IInv'
  <2>1. TypeOK'
    BY <1>9, EmptyFacts DEF Die
  <2>2. HoldingInv' /\ PollingInv' /\ RegistryInv'
    BY <1>9 DEF Die, HoldingInv, PollingInv, RegistryInv
  <2>3. ModeInv' /\ FlockInv'
    BY <1>9 DEF Die, ModeInv, FlockInv
  <2> QED BY <2>1, <2>2, <2>3
<1>10. CASE UNCHANGED vars
  BY <1>10 DEF vars, HoldingInv, PollingInv, RegistryInv, ModeInv, FlockInv
<1> QED
  BY <1>1, <1>2, <1>3, <1>4, <1>5, <1>6, <1>7, <1>8, <1>9, <1>10 DEF Next, AtLocal, AtOs, Exit

\* The invariant holds in every reachable state.
THEOREM LeaseInvariant == Spec => []IInv
<1>1. Init => IInv
  BY InitIInv
<1>2. IInv /\ [Next]_vars => IInv'
  BY NextIInv
<1> QED BY <1>1, <1>2, PTL DEF Spec

----------------------------------------------------------------------------
(* What it gives.                                                          *)

\* Type correctness.
THEOREM LeaseTypeCorrect == Spec => []TypeOK
  BY LeaseInvariant, PTL DEF IInv

\* Mutual exclusion of an exclusive lease against every other thread of every process.
THEOREM LeaseExclusion == Spec => []ExclusiveIsAlone
<1>1. IInv => ExclusiveIsAlone
  <2> SUFFICES ASSUME IInv, NEW t \in Threads, NEW u \in Threads, t # u, HoldsExclusive(t)
               PROVE  ~Holding(u)
    BY DEF ExclusiveIsAlone
  <2>1. exclusive[Process(t)] /\ stack[t] # <<>>
    BY DEF HoldsExclusive, IInv, ModeInv
  <2>2. flock[u] = "none"
    BY <2>1 DEF IInv, ModeInv, FlockInv
  <2> QED BY <2>2 DEF Holding, IInv, HoldingInv
<1> QED BY <1>1, LeaseInvariant, PTL

\* At most one thread of a process is inside a lease.
THEOREM LeaseLocalExclusion == Spec => []OneHolderPerProcess
<1>1. IInv => OneHolderPerProcess
  BY DEF IInv, HoldingInv, OneHolderPerProcess, Holding
<1> QED BY <1>1, LeaseInvariant, PTL

\* The registry and the OS lock never disagree with the leases in use.
THEOREM LeaseRegistry == Spec => []RegistryMatchesLeases
<1>1. IInv => RegistryMatchesLeases
  BY DEF IInv, HoldingInv, RegistryInv, RegistryMatchesLeases, Holding
<1> QED BY <1>1, LeaseInvariant, PTL

----------------------------------------------------------------------------
(* Refinement: every step of the two-level lease is a step of the contract *)
(* or leaves the OS locks alone.                                           *)

LEMMA StepImplementsContract == IInv /\ [Next]_vars => [Contract!Next]_flock
<1> SUFFICES ASSUME IInv, [Next]_vars PROVE [Contract!Next]_flock
  OBVIOUS
<1> USE DEF IInv, TypeOK
<1>1. ASSUME NEW t \in Threads, AcquireOs(t) PROVE Contract!Acquire(t, OsMode(t))
  BY <1>1 DEF AcquireOs, Grantable, PollingInv, HoldingInv, Contract!Acquire,
     Contract!Compatible
<1>2. ASSUME NEW t \in Threads PROVE OsMode(t) \in Contract!Modes
  BY <1>2 DEF OsMode, Contract!Modes, Modes
<1>3. ASSUME NEW t \in Threads, ExitOutermost(t) PROVE Contract!Release({t})
  BY <1>3 DEF ExitOutermost, Contract!Release
<1>4. ASSUME NEW p \in Processes, Die(p)
      PROVE  Contract!Release({t \in Threads : Process(t) = p}) \/ UNCHANGED flock
  BY <1>4 DEF Die, Contract!Release
<1>5. ASSUME NEW t \in Threads,
             (\E mode \in Modes : Enter(t, mode)) \/ AtLocal(t) \/ AbandonOs(t) \/ ExitNested(t)
      PROVE  UNCHANGED flock
  BY <1>5 DEF Enter, AtLocal, AcquireLocal, EnterNested, RejectUpgrade, TimeOutLocal, AbandonOs,
     ExitNested
<1>6. CASE UNCHANGED vars
  BY <1>6 DEF vars
<1> QED
  BY <1>1, <1>2, <1>3, <1>4, <1>5, <1>6 DEF Next, AtOs, Exit, Contract!Next

\* The lease that writers and maintenance use is the contract's shared/exclusive lock.
THEOREM LeaseImplementsContract == Spec => ImplementsContract
<1>1. Init => Contract!Init
  BY DEF Init, Contract!Init
<1>2. IInv /\ [Next]_vars => [Contract!Next]_flock
  BY StepImplementsContract
<1> QED BY <1>1, <1>2, LeaseInvariant, PTL DEF Spec, ImplementsContract, Contract!Spec

=============================================================================
