---------------------------- MODULE BackupDelivery ----------------------------
(***************************************************************************)
(* The delivery worker (storage/sqlite/backup_delivery.py) and its journal *)
(* of stage files (backup_delivery_journal.py): an attempt observes what   *)
(* the workspace has committed, makes sure the sender store holds a copy   *)
(* that covers it, copies one graph to the destination, verifies it there, *)
(* and says so in files that are created once and never changed.  Commits, *)
(* lost copies, unmounted stores, I/O errors and crashes fall between any  *)
(* two steps; the status command reads the journal without the worker's    *)
(* lock.                                                                   *)
(*                                                                         *)
(* A publication into a store is what a crash can fall between: the marker *)
(* of a first one, the graph, and its registration as the baseline without *)
(* which nothing is published or listed again.  RecoveryStore has the rest *)
(* of a store, other baselines and what a prune does.                      *)
(***************************************************************************)
EXTENDS CommitCoverage, Sequences

CONSTANTS
    Commits,      \* identities of committed facts
    Contents,     \* what may be committed under one identity
    CopyIds,      \* names of published graphs
    Attempts,     \* attempt directories; uuids, ordered as names are
    Times,        \* what the clock may show
    SteadyClock,  \* whether the clock never goes back or stands still
    CanCapture,   \* whether the job has a capture source
    Observed,     \* whether somebody asks for the status meanwhile
    MaxFaults,    \* bound: crashes, errors, lost copies, unmounts, restores
    Absent

ASSUME AttemptsAssumption ==
    Attempts \subseteq Int /\ IsFiniteSet(Attempts) /\ Times \subseteq Int
ASSUME SwitchesAssumption == {SteadyClock, CanCapture, Observed} \subseteq BOOLEAN
ASSUME MaxFaultsAssumption == MaxFaults \in Nat
VARIABLES
    source,      \* committed facts of the workspace
    copies,      \* facts of the healthy copies of each store
    mounted,     \* the stores that can be read
    started,     \* the stores with the capture-started marker
    registered,  \* baselines of the registration.json of each store; {} without such a file
    descriptor,  \* descriptor.json: "none", "torn" or "whole"
    attempts,    \* attempt directory: what it is about, and its stage files
    cache,       \* latest-success.json
    pc, w,       \* the worker: where it is, and its local variables
    reader,      \* a status command, and what it said
    held,        \* history: copies a store has held healthy
    order,       \* history: the attempts that finished, in order; when; whether in the cache
    before,      \* history: what the journal said when the attempt began
    faults

journal == <<descriptor, attempts, cache>>
registry == <<started, registered>>
world == <<source, copies, mounted, registry>>
history == <<held, order, before>>
vars == <<world, journal, pc, w, reader, history, faults>>

Store == {"sender", "destination"}
Stages == <<"started", "local_verified", "sending", "destination_published",
            "destination_verified", "finished">>
FactSets == UNION {[S -> Contents] : S \in SUBSET Commits}
File == [stage : {Stages[i] : i \in DOMAIN Stages}, whole : BOOLEAN, failed : BOOLEAN,
         local : CopyIds \cup {Absent}, copy : CopyIds \cup {Absent},
         time : Times \cup {Absent}]
Attempt == [src : FactSets, files : Seq(File)]
Cached == [attempt : Attempts, time : Times]

\* The mark of what is not there is no name, no set of facts, no record of an attempt and no
\* cached success.
ASSUME AbsentAssumption == Absent \notin CopyIds \cup Attempts \cup FactSets \cup Attempt \cup Cached

NoWork == [attempt |-> Absent, local |-> Absent, graph |-> Absent, copy |-> Absent,
           fresh |-> Absent, stage |-> "started", then |-> "idle", failed |-> FALSE]

----------------------------------------------------------------------------
(* Coverage of one store: _compare_store, select_covering_copy.            *)

Healthy(s) == IF s \in mounted THEN {c \in CopyIds : copies[s][c] # Absent} ELSE {}
\* _validate_baselines: an inventory with a baseline that is lost or bad raises.
ValidBaselines(s) == s \in mounted /\ registered[s] \subseteq Healthy(s)
\* What the inventory lists.  A store that was started and never registered is still listed.
Candidates(s) == IF ValidBaselines(s) THEN Healthy(s) ELSE {}

\* Mutant: an older copy of the same workspace is good enough.
SameWorkspace(src, s) == {c \in Candidates(s) : ~Conflict(copies[s][c], src)}
\* The code takes the one with the highest revision; nothing here depends on which.
CoveringCopies(src, s) == {c \in Candidates(s) : Covers(copies[s][c], src)}

----------------------------------------------------------------------------
(* The journal as a reader puts it together: read_journal.                 *)

Files(att, a) == att[a].files
Listed(att) == {a \in Attempts : att[a] # Absent}
LastFile(att, a) == Files(att, a)[Len(Files(att, a))]
StagesOf(att, a) == {Files(att, a)[i].stage : i \in DOMAIN Files(att, a)}

\* _valid_stage_history: the last stage of a success needs its evidence.
Evidence(att, a) ==
    LET last == LastFile(att, a)
    IN last.stage = "finished" /\ ~last.failed =>
           /\ {"local_verified", "destination_verified"} \subseteq StagesOf(att, a)
           /\ last.local # Absent /\ last.copy # Absent
\* _read_attempt: an empty directory or a file that is cut off is no attempt.
Legible(att, a) ==
    /\ Files(att, a) # <<>>
    /\ Files(att, a)[1].stage = "started"
    /\ \A i \in DOMAIN Files(att, a) : Files(att, a)[i].whole
    /\ Evidence(att, a)

Read(att) == {a \in Listed(att) : Legible(att, a)}
Successes(att) == {a \in Read(att) : LastFile(att, a).stage = "finished" /\ ~LastFile(att, a).failed}
Failures(att) == {a \in Read(att) : LastFile(att, a).failed}

\* max() over names in order: of equal times the first.
Precedes(time, a, b) == time[a] > time[b] \/ (time[a] = time[b] /\ a < b)
First(time) == CHOOSE a \in DOMAIN time : \A b \in DOMAIN time \ {a} : Precedes(time, a, b)
Latest(att, S) == IF S = {} THEN Absent ELSE First([a \in S |-> LastFile(att, a).time])

\* Mutant: any cache will do.
CacheExists(att, ca, a) == ca # Absent
CacheMatches(att, ca, a) == ca = [attempt |-> a, time |-> LastFile(att, a).time]

JournalView(desc, att, ca) ==
    LET last == Latest(att, Successes(att))
        invalid == IF last = Absent THEN ca # Absent ELSE ~CacheMatches(att, ca, last)
    IN IF desc # "whole"
          THEN [unknown |-> TRUE, success |-> Absent, failure |-> Absent]
          ELSE [unknown |-> invalid \/ Read(att) # Listed(att),
                success |-> IF invalid THEN Absent ELSE last,
                failure |-> Latest(att, Failures(att))]

\* last_verified_at
LastVerified(view) == IF view.unknown THEN Absent ELSE view.success

Now == JournalView(descriptor, attempts, cache)

Init ==
    /\ source = [x \in {} |-> 0]
    /\ copies = [s \in Store |-> [c \in CopyIds |-> Absent]]
    /\ mounted = Store
    /\ started = {}
    /\ registered = [s \in Store |-> {}]
    /\ descriptor = "none"
    /\ attempts = [a \in Attempts |-> Absent]
    /\ cache = Absent
    /\ pc = "idle"
    /\ w = NoWork
    /\ reader = [todo |-> {}, seen |-> attempts, reading |-> FALSE, floor |-> {}, said |-> Absent]
    /\ held = [s \in Store |-> {}]
    /\ order = <<>>
    /\ before = Now
    /\ faults = 0

----------------------------------------------------------------------------
(* The worker: run_backup_delivery, under the execution lock.              *)

Goto(place) == pc' = place
NoFault == UNCHANGED <<faults, reader>>

\* The identities of both stores are read first.  initialize_delivery_control: the descriptor
\* is created, then written; one that is there has to be readable.
Begin ==
    /\ pc = "idle"
    /\ mounted = Store
    /\ descriptor # "torn"
    /\ w' = NoWork
    /\ before' = Now
    /\ IF descriptor = "none"
          THEN descriptor' = "torn" /\ Goto("describing")
          ELSE UNCHANGED descriptor /\ Goto("observing")
    /\ UNCHANGED <<world, attempts, cache, held, order>> /\ NoFault

Describe ==
    /\ pc = "describing"
    /\ descriptor' = "whole"
    /\ before' = JournalView("whole", attempts, cache)
    /\ Goto("observing")
    /\ UNCHANGED <<world, attempts, cache, w, held, order>> /\ NoFault

\* The next stage file of the attempt, and where to go on.
Publish(stage, then, work) ==
    /\ w' = [work EXCEPT !.stage = stage, !.then = then]
    /\ Goto("creating")

\* observe_source_commits and start_attempt.
Observe(a) ==
    /\ pc = "observing"
    /\ attempts[a] = Absent
    /\ \A i \in DOMAIN order : order[i].attempt # a
    /\ attempts' = [attempts EXCEPT ![a] = [src |-> source, files |-> <<>>]]
    /\ Publish("started", "ensuring", [w EXCEPT !.attempt = a])
    /\ UNCHANGED <<world, descriptor, cache, history>> /\ NoFault

Src == attempts[w.attempt].src

Selected(c) ==
    Publish("local_verified", "comparing", [w EXCEPT !.local = c, !.graph = copies["sender"][c]])

\* Mutant: a sender store that holds a copy is not captured into again.
EnsureOnce ==
    /\ pc = "ensuring"
    /\ \/ \E c \in CoveringCopies(Src, "sender") : Selected(c)
       \/ /\ CoveringCopies(Src, "sender") = {}
          /\ Goto(IF CanCapture /\ Candidates("sender") = {} THEN "capturing" ELSE "failing")
          /\ UNCHANGED w
    /\ UNCHANGED <<world, journal, history>> /\ NoFault
\* _ensure_local_graph: a covering copy is verified once more and selected.
Ensure ==
    /\ pc = "ensuring"
    /\ \/ \E c \in CoveringCopies(Src, "sender") : Selected(c)
       \/ /\ CoveringCopies(Src, "sender") = {}
          /\ Goto(IF CanCapture THEN "capturing" ELSE "failing")
          /\ UNCHANGED w
    /\ UNCHANGED <<world, journal, history>> /\ NoFault

\* _admit_capture_registration: the baselines are there, or nothing was ever begun.
Admits(s) ==
    /\ ValidBaselines(s)
    /\ registered[s] = {} => s \notin started /\ Healthy(s) = {}

\* A first publication marks the store before it does anything else.
Admit(s) ==
    /\ Admits(s)
    /\ started' = IF registered[s] = {} THEN started \cup {s} ELSE started
    /\ UNCHANGED <<source, copies, mounted, registered>>

\* A healthy copy appears under a new name.
Publishes(s, c, facts) ==
    /\ s \in mounted
    /\ \A h \in held[s] : h.copy # c
    /\ copies' = [copies EXCEPT ![s][c] = facts]
    /\ held' = [held EXCEPT ![s] = @ \cup {[copy |-> c, facts |-> facts]}]
    /\ UNCHANGED <<source, mounted, registry>>

\* _write_registration of the first baseline; it is replaced in one step.
Registers(s) ==
    /\ s \in mounted
    /\ registered' = [registered EXCEPT ![s] = {w.fresh}]
    /\ UNCHANGED <<source, copies, mounted, started>>

\* capture_into_store, in three steps.
CaptureBegin ==
    /\ pc = "capturing"
    /\ Admit("sender")
    /\ Goto("snapshotting")
    /\ UNCHANGED <<journal, w, history>> /\ NoFault

Capture(c) ==
    /\ pc = "snapshotting"
    /\ Publishes("sender", c, source)
    /\ w' = [w EXCEPT !.fresh = c]
    /\ Goto(IF registered["sender"] = {} THEN "registering" ELSE "captured")
    /\ UNCHANGED <<journal, order, before>> /\ NoFault

CaptureRegister ==
    /\ pc = "registering"
    /\ Registers("sender")
    /\ Goto("captured")
    /\ UNCHANGED <<journal, w, history>> /\ NoFault

\* The store is not, or no longer, in a state to publish into; the new copy is unreadable.
CaptureRefused ==
    /\ \/ pc = "capturing" /\ ~Admits("sender")
       \/ pc = "snapshotting" /\ "sender" \notin mounted
       \/ pc = "registering" /\ w.fresh \notin Healthy("sender")
    /\ Goto("failing")
    /\ UNCHANGED <<world, journal, w, history>> /\ NoFault

\* The store is compared again with the source of the attempt, not with the one captured.
EnsureCaptured ==
    /\ pc = "captured"
    /\ \/ \E c \in CoveringCopies(Src, "sender") : Selected(c)
       \/ CoveringCopies(Src, "sender") = {} /\ Goto("failing") /\ UNCHANGED w
    /\ UNCHANGED <<world, journal, history>> /\ NoFault

Verified(c) == Publish("destination_verified", "finishing", [w EXCEPT !.copy = c])

Compare ==
    /\ pc = "comparing"
    /\ \/ \E c \in CoveringCopies(Src, "destination") : Verified(c)
       \/ /\ CoveringCopies(Src, "destination") = {}
          /\ Publish("sending", "transferring", w)
    /\ UNCHANGED <<world, journal, history>> /\ NoFault

\* _transfer_graph and receive_graph_into_store, in four steps.  The selected copy must still
\* be the graph that was verified; it is copied aside and verified before the store is marked.
SameGraph == w.local \in Healthy("sender") /\ copies["sender"][w.local] = w.graph

TransferBegin ==
    /\ pc = "transferring"
    /\ SameGraph
    /\ Admit("destination")
    /\ Goto("receiving")
    /\ UNCHANGED <<journal, w, history>> /\ NoFault

Transfer(c) ==
    /\ pc = "receiving"
    /\ Publishes("destination", c, w.graph)
    /\ w' = [w EXCEPT !.fresh = c]
    /\ Goto(IF registered["destination"] = {} THEN "enrolling" ELSE "received")
    /\ UNCHANGED <<journal, order, before>> /\ NoFault

TransferRegister ==
    /\ pc = "enrolling"
    /\ Registers("destination")
    /\ Goto("received")
    /\ UNCHANGED <<journal, w, history>> /\ NoFault

\* The published copy is verified where it is now.
Arrived == w.fresh \in Healthy("destination") /\ copies["destination"][w.fresh] = w.graph

TransferEnd ==
    /\ pc = "received"
    /\ Arrived
    /\ Publish("destination_published", "verifying", [w EXCEPT !.copy = w.fresh])
    /\ UNCHANGED <<world, journal, history>> /\ NoFault

\* The selected copy is gone or it is another graph; the store does not take it; the copy
\* that was published is unreadable.
TransferRefused ==
    /\ \/ pc = "transferring" /\ ~(SameGraph /\ Admits("destination"))
       \/ pc = "receiving" /\ "destination" \notin mounted
       \/ pc = "enrolling" /\ w.fresh \notin Healthy("destination")
       \/ pc = "received" /\ ~Arrived
    /\ Goto("failing")
    /\ UNCHANGED <<world, journal, w, history>> /\ NoFault

Verify ==
    /\ pc = "verifying"
    /\ \/ \E c \in CoveringCopies(Src, "destination") : Verified(c)
       \/ CoveringCopies(Src, "destination") = {} /\ Goto("failing") /\ UNCHANGED w
    /\ UNCHANGED <<world, journal, history>> /\ NoFault

Finish ==
    /\ pc = "finishing"
    /\ Publish("finished", "caching", w)
    /\ UNCHANGED <<world, journal, history>> /\ NoFault

\* _write_exclusive: the file is created ...
Create ==
    /\ pc = "creating"
    /\ attempts' = [attempts EXCEPT ![w.attempt].files = Append(@,
           [stage |-> w.stage, whole |-> FALSE, failed |-> FALSE,
            local |-> Absent, copy |-> Absent, time |-> Absent])]
    /\ Goto("filling")
    /\ UNCHANGED <<world, descriptor, cache, w, history>> /\ NoFault

Reading == {t \in Times : SteadyClock => \A i \in DOMAIN order : order[i].time < t}

\* ... and then written.  Only a finished attempt has a time.
Fill ==
    /\ pc = "filling"
    /\ \E t \in (IF w.stage = "finished" THEN Reading ELSE {Absent}) :
          /\ attempts' = [attempts EXCEPT ![w.attempt].files[Len(attempts[w.attempt].files)] =
                 [stage |-> w.stage, whole |-> TRUE, failed |-> w.failed,
                  local |-> w.local, copy |-> w.copy, time |-> t]]
          /\ order' = IF w.stage = "finished"
                         THEN Append(order, [attempt |-> w.attempt, time |-> t,
                                             failed |-> w.failed, cached |-> FALSE])
                         ELSE order
    /\ Goto(w.then)
    /\ UNCHANGED <<world, descriptor, cache, w, held, before>> /\ NoFault

\* _write_success_cache: replaced in one step.
Cache ==
    /\ pc = "caching"
    /\ cache' = [attempt |-> w.attempt, time |-> LastFile(attempts, w.attempt).time]
    /\ order' = [order EXCEPT ![Len(order)].cached = TRUE]
    /\ Goto("reporting")
    /\ UNCHANGED <<world, descriptor, attempts, w, held, before>> /\ NoFault

End ==
    /\ Goto("idle")
    /\ w' = NoWork

\* _finish_report; also the end of a failed attempt.
Return ==
    /\ pc \in {"reporting", "failed"}
    /\ End
    /\ UNCHANGED <<world, journal, history>> /\ NoFault

HasFinished == "finished" \in StagesOf(attempts, w.attempt)
\* Mutant: the cached success goes with the failure.
FailForgets ==
    /\ pc = "failing"
    /\ IF HasFinished
          THEN Goto("failed") /\ UNCHANGED w
          ELSE Publish("finished", "failed", [w EXCEPT !.local = Absent, !.copy = Absent, !.failed = TRUE])
    /\ cache' = Absent
    /\ UNCHANGED <<world, descriptor, attempts, history>> /\ NoFault
\* _fail_attempt writes the stage from the record of the start, so without any evidence; when
\* there already is a finished file, it only reports.
Fail ==
    /\ pc = "failing"
    /\ IF HasFinished
          THEN Goto("failed") /\ UNCHANGED w
          ELSE Publish("finished", "failed", [w EXCEPT !.local = Absent, !.copy = Absent, !.failed = TRUE])
    /\ UNCHANGED <<world, journal, history>> /\ NoFault

Work == \/ Begin \/ Describe \/ Ensure \/ EnsureCaptured \/ Compare \/ Verify
        \/ CaptureBegin \/ CaptureRegister \/ CaptureRefused
        \/ TransferBegin \/ TransferRegister \/ TransferEnd \/ TransferRefused
        \/ Finish \/ Create \/ Fill \/ Cache \/ Return \/ Fail
        \/ \E a \in Attempts : Observe(a)
        \/ \E c \in CopyIds : Capture(c) \/ Transfer(c)

----------------------------------------------------------------------------
(* A status command: read_journal without a lock.                          *)

Glance == UNCHANGED <<world, journal, pc, w, history, faults>>

\* The verified deliveries the journal knows of: by their directory, or as they were cached.
OnRecord == {i \in DOMAIN order : /\ ~order[i].failed
                                 /\ (order[i].cached \/ attempts[order[i].attempt] # Absent)}

StatusBegin ==
    /\ Observed
    /\ ~reader.reading
    /\ reader' = [todo |-> Listed(attempts), seen |-> [a \in Attempts |-> Absent],
                  reading |-> TRUE, floor |-> OnRecord, said |-> Absent]
    /\ Glance

\* A directory that was listed and is gone is read as an empty one.
Gone == [src |-> [x \in {} |-> 0], files |-> <<>>]

StatusRead ==
    /\ reader.todo # {}
    /\ LET a == CHOOSE x \in reader.todo : \A y \in reader.todo : x <= y
       IN reader' = [reader EXCEPT !.todo = @ \ {a},
                        !.seen[a] = IF attempts[a] = Absent THEN Gone ELSE attempts[a]]
    /\ Glance

StatusReport ==
    /\ reader.reading
    /\ reader.todo = {}
    /\ reader' = [reader EXCEPT !.reading = FALSE, !.seen = [a \in Attempts |-> Absent],
                      !.said = LastVerified(JournalView(descriptor, reader.seen, cache))]
    /\ Glance

Status == StatusBegin \/ StatusRead \/ StatusReport

----------------------------------------------------------------------------
(* Around it.                                                              *)

Fault == faults < MaxFaults /\ faults' = faults + 1
Outside == UNCHANGED <<journal, pc, w, reader, order, before>>

Commit(x, v) ==
    /\ x \notin DOMAIN source
    /\ source' = [y \in DOMAIN source \cup {x} |-> IF y = x THEN v ELSE source[y]]
    /\ UNCHANGED <<copies, mounted, registry, held, faults>> /\ Outside

\* The workspace is put back to an older state.
PutBack(S) ==
    /\ S # DOMAIN source
    /\ source' = [x \in S |-> source[x]]
    /\ Fault
    /\ UNCHANGED <<copies, mounted, registry, held>> /\ Outside

\* A copy is pruned or goes bad.
Lose(s, c) ==
    /\ copies[s][c] # Absent
    /\ copies' = [copies EXCEPT ![s][c] = Absent]
    /\ Fault
    /\ UNCHANGED <<source, mounted, registry, held>> /\ Outside

\* registration.json is gone; the marker stays.
LoseRegistration(s) ==
    /\ registered[s] # {}
    /\ registered' = [registered EXCEPT ![s] = {}]
    /\ Fault
    /\ UNCHANGED <<source, copies, mounted, started, held>> /\ Outside

Unmount(s) ==
    /\ s \in mounted
    /\ mounted' = mounted \ {s}
    /\ Fault
    /\ UNCHANGED <<source, copies, registry, held>> /\ Outside

Mount(s) ==
    /\ s \notin mounted
    /\ mounted' = mounted \cup {s}
    /\ UNCHANGED <<source, copies, registry, held, faults>> /\ Outside

\* Steps inside the try of run_backup_delivery that may raise.
Guarded == {"ensuring", "capturing", "snapshotting", "registering", "captured", "comparing",
            "transferring", "receiving", "enrolling", "received", "verifying",
            "creating", "filling", "caching", "reporting"}

\* An error in the attempt; one while the failure is written down is swallowed.
Error ==
    /\ pc \in Guarded
    /\ w.stage = "started" => pc \notin {"creating", "filling"}
    /\ Goto(IF w.failed THEN "failed" ELSE "failing")
    /\ Fault
    /\ UNCHANGED <<world, journal, w, reader, history>>

\* The process dies, or it is interrupted; the lock goes with it.
Crash ==
    /\ pc # "idle"
    /\ End
    /\ Fault
    /\ UNCHANGED <<world, journal, reader, history>>

\* Files of the journal are removed by hand.
LoseAttempt(a) ==
    /\ attempts[a] # Absent
    /\ pc = "idle"
    /\ attempts' = [attempts EXCEPT ![a] = Absent]
    /\ Fault
    /\ UNCHANGED <<world, descriptor, cache, pc, w, reader, history>>

LoseCache ==
    /\ cache # Absent
    /\ pc = "idle"
    /\ cache' = Absent
    /\ Fault
    /\ UNCHANGED <<world, descriptor, attempts, pc, w, reader, history>>

Environment ==
    \/ \E x \in Commits, v \in Contents : Commit(x, v)
    \/ \E S \in SUBSET DOMAIN source : PutBack(S)
    \/ \E s \in Store : \/ \E c \in CopyIds : Lose(s, c)
                        \/ LoseRegistration(s) \/ Unmount(s) \/ Mount(s)
    \/ \E a \in Attempts : LoseAttempt(a)
    \/ LoseCache \/ Error \/ Crash

Next == Work \/ Status \/ Environment
Spec == Init /\ [][Next]_vars

Delivered == CoveringCopies(source, "destination") # {}

\* The job is run again while something is pending; a worker that runs goes on, and a store
\* that was unmounted comes back.
Needed == pc = "idle" => ~Delivered
LiveNext == (Work /\ Needed) \/ Environment
LiveSpec ==
    /\ Init /\ [][LiveNext]_vars
    /\ WF_vars(Work /\ Needed)
    /\ \A s \in Store : WF_vars(Mount(s))

----------------------------------------------------------------------------
(* Properties.                                                             *)

Places == Guarded \cup {"idle", "describing", "observing", "finishing", "failing", "failed"}
\* Where the worker goes on after a stage file.
Resumed == {"idle", "ensuring", "comparing", "transferring", "verifying", "finishing",
            "caching", "failed"}
Stage == {Stages[i] : i \in DOMAIN Stages}
WorkRec == [attempt : Attempts \cup {Absent}, local : CopyIds \cup {Absent},
            graph : FactSets \cup {Absent}, copy : CopyIds \cup {Absent},
            fresh : CopyIds \cup {Absent}, stage : Stage, then : Resumed, failed : BOOLEAN]

\* The two stores, the journal, the worker and what the stores have held keep their form.
TypeOK ==
    /\ source \in FactSets
    /\ copies \in [Store -> [CopyIds -> FactSets \cup {Absent}]]
    /\ mounted \subseteq Store
    /\ started \subseteq Store
    /\ registered \in [Store -> SUBSET CopyIds]
    /\ descriptor \in {"none", "torn", "whole"}
    /\ attempts \in [Attempts -> Attempt \cup {Absent}]
    /\ w \in WorkRec
    /\ pc \in Places
    /\ held \in [Store -> SUBSET [copy : CopyIds, facts : FactSets]]
    /\ faults \in 0..MaxFaults

\* The record of a names copies that were in the two stores and cover what was committed when
\* the attempt began.
Real(a) ==
    LET last == LastFile(attempts, a)
    IN /\ \E h \in held["sender"] : h.copy = last.local /\ Covers(h.facts, attempts[a].src)
       /\ \E h \in held["destination"] : h.copy = last.copy /\ Covers(h.facts, attempts[a].src)

\* No crash, lost file, put-back workspace or clock makes a verified delivery out of one that
\* did not happen: of any attempt that read_journal counts as a success it is true.
SuccessIsReal ==
    \A a \in Successes(attempts) : Real(a)

\* While the clock goes forward, a status command that runs beside the worker reports a
\* success that is not older than any the journal knew of when it began, or that it does not
\* know; whatever was removed, cut off or written since.
ReportIsFresh ==
    SteadyClock /\ reader.said # Absent =>
        \E i \in DOMAIN order :
            /\ order[i].attempt = reader.said /\ ~order[i].failed
            /\ \A j \in reader.floor : j <= i

\* An attempt that failed and said so leaves the verified success before it as it was.
FailureKeepsSuccess ==
    pc = "failed" /\ Legible(attempts, w.attempt) /\ LastFile(attempts, w.attempt).failed
        /\ ~before.unknown =>
        /\ ~Now.unknown
        /\ Now.success = before.success
        /\ SteadyClock => Now.failure = w.attempt

\* A store that takes no copy any more: its first publication was interrupted or failed, its
\* registration or a baseline is lost.  What it still lists is not enough.
Closed(s) ==
    /\ \/ s \in started /\ registered[s] = {}
       \/ \E c \in registered[s] : copies[s][c] = Absent
    /\ CoveringCopies(source, s) = {}

\* Retrying the job delivers everything that is committed, unless a fault has left a state that
\* every later run refuses: a torn descriptor, or a closed store.
Delivers == <>[](Delivered \/ (faults > 0 /\ (descriptor = "torn" \/ \E s \in Store : Closed(s))))

=============================================================================
