--------------------------- MODULE MutationLedger ---------------------------
(***************************************************************************)
(* What the mutation boundary promises to the commands above it (section 4 *)
(* of docs/development/ssot-migration-recovery-contract.md, restated from  *)
(* MutationService): a ledger of requests, each applied in one indivisible *)
(* step to the revision it names and to nothing else, each under a key of  *)
(* its own; and callers are only ever told what is in the ledger.          *)
(* No transactions, locks, crashes or retries exist at this level.         *)
(***************************************************************************)
EXTENDS Integers, Sequences

CONSTANTS Clients, Keys, Entities, Payloads, Active, Baseline, InitialHeads, None

VARIABLES ledger, heads, revision, told

lvars == <<ledger, heads, revision, told>>

Init ==
    /\ ledger = <<>>
    /\ heads = InitialHeads
    /\ revision = Baseline
    /\ told = [c \in Clients |-> None]

Changes(p) == {e \in DOMAIN p : heads[e] # p[e]}

\* One request takes effect: its precondition names the present revision, its key
\* is new, and the revision moves exactly when some content does.
Apply(k, p) ==
    /\ \A i \in DOMAIN ledger : ledger[i].key # k
    /\ heads' = [e \in Entities |-> IF e \in DOMAIN p THEN p[e] ELSE heads[e]]
    /\ revision' = revision + (IF Changes(p) # {} THEN 1 ELSE 0)
    /\ ledger' = Append(ledger,
         [key |-> k,
          digest |-> [payload |-> p, generation |-> Active, revision |-> revision],
          receipt |-> [changeset |-> Len(ledger) + 1, base |-> revision,
                       committed |-> revision', changed |-> Changes(p) # {}],
          entries |-> {[entity |-> e, before |-> heads[e], after |-> p[e]] : e \in Changes(p)}])
    /\ UNCHANGED told

\* A caller learns the receipt of the request it asked for, or forgets it.
Tell(c) ==
    /\ \/ told' = [told EXCEPT ![c] = None]
       \/ \E i \in DOMAIN ledger :
             told' = [told EXCEPT ![c] = [key |-> ledger[i].key, digest |-> ledger[i].digest,
                                          receipt |-> ledger[i].receipt]]
    /\ UNCHANGED <<ledger, heads, revision>>

Next == \/ \E c \in Clients : Tell(c)
        \/ \E k \in Keys, p \in Payloads : Apply(k, p)

Spec == Init /\ [][Next]_lvars

=============================================================================
