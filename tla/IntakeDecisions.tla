--------------------------- MODULE IntakeDecisions ---------------------------
(***************************************************************************)
(* Agent intake: proposals backed by evidence, their revisions, withdrawals *)
(* and confirmations, and the typed facts that confirmed proposals append   *)
(* (storage/sqlite/intake_submission.py, intake_lifecycle.py,               *)
(* intake_application.py, intake_lineage.py, intake_queries.py and the      *)
(* insertions of account_bindings.py, account_decisions.py and              *)
(* asset_meanings.py).                                                      *)
(*                                                                         *)
(* Every command is one mutation of the repository (MutationEngine), so one *)
(* step here; it commits at the revision it names or not at all.  A retry   *)
(* with the same key returns the stored receipt and changes nothing.        *)
(* Operators act on views read earlier and choose heads from them, so a     *)
(* command may name any fact that exists.  Several operators and the direct *)
(* fact commands share the repository.                                      *)
(*                                                                         *)
(* A proposal, a decision and a fact are named by their place in the        *)
(* append-only tables; a changeset by the revision it produced.             *)
(***************************************************************************)
EXTENDS Integers, Sequences, FiniteSets

CONSTANTS
    Targets,      \* decision targets: a source key, an account, a source entity, a rule
    Operation,    \* the operation whose target each is
    MaxRevision   \* bound: mutations of the repository

Typed == {"account_binding", "ownership", "asset_meaning"}
Operations == Typed \cup {"asset_observation", "rule"}

ASSUME OperationAssumption == Operation \in [Targets -> Operations]

VARIABLES
    revision,      \* repository_meta.dataset_revision
    proposals,     \* agent_intake_proposals with their occurrence and lineage link
    decisions,     \* agent_intake_confirmations
    applications,  \* agent_intake_applications
    facts          \* bindings, ownership and meaning assertions, applied values

vars == <<revision, proposals, decisions, applications, facts>>

Nothing == 0
Proposal == [target : Targets, previous : Nat, uncertain : BOOLEAN, expected : Nat,
             parent : Nat, link : Nat]
Decision == [proposal : Nat, state : {"confirmed", "rejected"}]
Application == [proposal : Nat, decision : Nat, fact : Nat, changeset : Nat]
Fact == [target : Targets, previous : Nat]

Init ==
    /\ revision = 0
    /\ proposals = <<>>
    /\ decisions = <<>>
    /\ applications = {}
    /\ facts = <<>>

----------------------------------------------------------------------------
(* intake_decision_view.                                                   *)

DecisionsOf(p) == {d \in DOMAIN decisions : decisions[d].proposal = p}
Successors(p) == {q \in DOMAIN proposals : proposals[q].parent = p}
ApplicationsOf(p) == {a \in applications : a.proposal = p}
Applied(p) == ApplicationsOf(p) # {}
ApplicationOf(p) == CHOOSE a \in applications : a.proposal = p

\* What f corrects, directly or not, and f itself: what every set of facts that holds f and
\* the corrected fact of each of its facts holds.
Backward(S) == \A g \in S : facts[g].previous \in S \cup {Nothing}
Line(f) == {g \in DOMAIN facts : \A S \in SUBSET DOMAIN facts : f \in S /\ Backward(S) => g \in S}

----------------------------------------------------------------------------
(* Typed facts.                                                            *)

Heads(t) == {f \in DOMAIN facts : facts[f].target = t
                                  /\ \A g \in DOMAIN facts : facts[g].previous # f}

\* What the insertion of a fact of t that corrects h asks: the head is current; an account
\* has one active ownership assertion (the intervals of one account overlap here); a source
\* entity has one line of meanings; a source key may have several lines.
Admits(t, h) ==
    /\ h # Nothing => h \in Heads(t)
    /\ Operation[t] = "ownership" => Heads(t) \subseteq {h}
    /\ Operation[t] = "asset_meaning" => Heads(t) \subseteq {h}
    /\ Operation[t] \notin Typed => h = Nothing

AppendFact(t, h) ==
    /\ Admits(t, h)
    /\ facts' = Append(facts, [target |-> t, previous |-> h])

Commit == revision < MaxRevision /\ revision' = revision + 1

\* The head a command names: none, or a fact some earlier view showed.
Named == {Nothing} \cup DOMAIN facts

----------------------------------------------------------------------------
(* Commands.                                                               *)

\* capture_intake: the proposal is to be judged on the state right after its submission.
Capture(t, h, uncertain, parent, link) ==
    proposals' = Append(proposals, [target |-> t, previous |-> h, uncertain |-> uncertain,
                                    expected |-> revision + 1, parent |-> parent,
                                    link |-> link])

\* submit_intake stores the decision as it is; nothing of it is checked yet.
Submit(t, h, uncertain) ==
    /\ Commit
    /\ Capture(t, h, uncertain, Nothing, Nothing)
    /\ UNCHANGED <<decisions, applications, facts>>

\* add_intake_confirmation
Decide(p, state) == decisions' = Append(decisions, [proposal |-> p, state |-> state])

\* Mutant: an old proposal is revised once more.
AnyRevision(p) == TRUE
\* "Revise the latest successor instead of branching an old proposal."
Latest(p) == Successors(p) = {}

\* Mutant: the named head is current, whatever it descends from.
HeadIsCurrent(p, h) == h \in Heads(proposals[p].target)
\* _current_head: a typed correction of an applied proposal names a current head that
\* descends from the fact the proposal appended.
HeadInLine(p, h) ==
    /\ h = Nothing => ~Applied(p)
    /\ h # Nothing => h \in Heads(proposals[p].target)
    /\ Applied(p) /\ h # Nothing => ApplicationOf(p).fact \in Line(h)

\* Mutant: the parent is left as it was.
LeaveParent(p) == UNCHANGED decisions
\* An undecided parent is retired in the same commit.
Retire(p) ==
    IF ~Applied(p) /\ DecisionsOf(p) = {} THEN Decide(p, "rejected") ELSE UNCHANGED decisions

\* parent_application_changeset_id
Link(p) == IF Applied(p) THEN ApplicationOf(p).changeset ELSE Nothing

\* revise_intake; the target stays (proposal_target).
Revise(p, h, uncertain) ==
    /\ Commit
    /\ Latest(p)
    /\ Applied(p) \/ DecisionsOf(p) = {}
    /\ Operation[proposals[p].target] = "asset_observation" => ~Applied(p)
    /\ IF Operation[proposals[p].target] \in Typed THEN HeadInLine(p, h) ELSE h = Nothing
    /\ Capture(proposals[p].target, h, uncertain, p, Link(p))
    /\ Retire(p)
    /\ UNCHANGED <<applications, facts>>

\* withdraw_intake
Withdrawable(p) == ~Applied(p) /\ DecisionsOf(p) = {} /\ Successors(p) = {}

Withdraw(p) ==
    /\ Commit
    /\ Withdrawable(p)
    /\ Decide(p, "rejected")
    /\ UNCHANGED <<proposals, applications, facts>>

\* Mutant: the proposal is applied to whatever is current.
AnyState(p) == TRUE
\* The request carries the stored preconditions (confirm_intake), and a mutation commits
\* only at the revision it names.
Judged(p) == proposals[p].expected = revision

\* A typed decision appends its fact.  An observation of the same evidence and a rule with the
\* same content that are there already are named again.
Apply(p, f) ==
    \/ f = Len(facts) + 1 /\ AppendFact(proposals[p].target, proposals[p].previous)
    \/ /\ f \in DOMAIN facts
       /\ facts[f].target = proposals[p].target
       /\ Operation[proposals[p].target] \notin Typed /\ proposals[p].previous = Nothing
       /\ UNCHANGED facts

\* apply_intake_decision
Confirm(p) ==
    /\ Commit
    /\ Judged(p)
    /\ ~proposals[p].uncertain
    /\ DecisionsOf(p) = {}
    /\ Decide(p, "confirmed")
    /\ \E f \in 1..(Len(facts) + 1) :
          /\ Apply(p, f)
          /\ applications' = applications \cup
                 {[proposal |-> p, decision |-> Len(decisions'), fact |-> f,
                   changeset |-> revision']}
    /\ UNCHANGED proposals

\* confirm_account_binding, confirm_ownership and confirm_asset_meaning without an intake.
Direct(t, h) ==
    /\ Commit
    /\ Operation[t] \in Typed
    /\ AppendFact(t, h)
    /\ UNCHANGED <<proposals, decisions, applications>>

\* Any other mutation of the repository.
Other == Commit /\ UNCHANGED <<proposals, decisions, applications, facts>>

Next ==
    \/ \E t \in Targets, h \in Named : \/ \E uncertain \in BOOLEAN : Submit(t, h, uncertain)
                                        \/ Direct(t, h)
    \/ \E p \in DOMAIN proposals :
          \/ \E h \in Named, uncertain \in BOOLEAN : Revise(p, h, uncertain)
          \/ Withdraw(p)
          \/ Confirm(p)
    \/ Other

Spec == Init /\ [][Next]_vars

----------------------------------------------------------------------------
(* Properties.                                                             *)

TypeOK ==
    /\ revision \in Nat
    /\ proposals \in Seq(Proposal)
    /\ decisions \in Seq(Decision)
    /\ applications \in SUBSET Application
    /\ facts \in Seq(Fact)

\* validated_lineage accepts what the commands store: a revision names an earlier proposal
\* of the same target, which has no other revision, and its parent's application is still the
\* one it was written against.  Otherwise no view of the decisions opens any more.
LineageIsValid ==
    \A q \in DOMAIN proposals :
        LET p == proposals[q].parent
        IN p # Nothing =>
              /\ p < q
              /\ Successors(p) = {q}
              /\ proposals[p].target = proposals[q].target
              /\ proposals[q].link = Link(p)

\* No proposal is decided twice (the view knows the state conflicting_confirmations and never
\* has to show it), confirmed and applied are one thing, and what is still undecided has no
\* successor: there is one open proposal in a line of revisions at most.
DecidedOnce ==
    /\ \A d, e \in DOMAIN decisions : decisions[d].proposal = decisions[e].proposal => d = e
    /\ \A d \in DOMAIN decisions :
          decisions[d].state = "confirmed" <=> \E a \in applications : a.decision = d
    /\ \A a \in applications : decisions[a.decision].proposal = a.proposal
    /\ \A p \in DOMAIN proposals : DecisionsOf(p) = {} => Successors(p) = {}

\* What was applied is what was judged: between the submission (or revision) of an applied
\* proposal and its application nothing else was committed, and the fact it names is the one
\* it proposed.
AppliedAsJudged ==
    \A a \in applications :
        /\ a.changeset = proposals[a.proposal].expected + 1
        /\ facts[a.fact] = [target |-> proposals[a.proposal].target,
                            previous |-> proposals[a.proposal].previous]

FactOf(p) == ApplicationOf(p).fact
TypedTarget(p) == Operation[proposals[p].target] \in Typed

\* The fact of an applied typed correction descends from the fact of the applied proposal
\* it revises, whatever was appended directly in between.
CorrectionInLine ==
    \A q \in DOMAIN proposals :
        LET p == proposals[q].parent
        IN p # Nothing /\ TypedTarget(q) => (Applied(p) /\ Applied(q) => FactOf(p) \in Line(FactOf(q)))

=============================================================================
