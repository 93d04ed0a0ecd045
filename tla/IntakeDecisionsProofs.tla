------------------------ MODULE IntakeDecisionsProofs ------------------------
(***************************************************************************)
(* Every proposal is decided once, lineages stay valid, what is applied is  *)
(* what was judged, and a correction continues the line of the fact it      *)
(* corrects: for any targets and any number of mutations.                   *)
(***************************************************************************)
EXTENDS IntakeDecisions, TLAPS

----------------------------------------------------------------------------
(* The inductive invariant.                                                *)

\* Rows refer to rows that are there, and revisions to earlier proposals.
References ==
    /\ \A q \in DOMAIN proposals :
          proposals[q].parent # Nothing => /\ proposals[q].parent \in DOMAIN proposals
                                           /\ proposals[q].parent < q
    /\ \A d \in DOMAIN decisions : decisions[d].proposal \in DOMAIN proposals
    /\ \A a \in applications : /\ a.proposal \in DOMAIN proposals
                               /\ a.decision \in DOMAIN decisions
                               /\ a.fact \in DOMAIN facts

\* A proposal is applied once.
AppliedOnce == \A a, b \in applications : a.proposal = b.proposal => a = b

\* Only typed facts correct one another.
UntypedStandAlone ==
    \A f \in DOMAIN facts : Operation[facts[f].target] \notin Typed => facts[f].previous = Nothing

\* A fact corrects none or one that is there.
Rooted == \A f \in DOMAIN facts : facts[f].previous \in DOMAIN facts \cup {Nothing}

\* A typed revision of an applied proposal corrects a fact of the line of the applied one,
\* before it is applied itself and whatever becomes current in between.
Continues(q) ==
    LET p == proposals[q].parent
    IN p # Nothing /\ TypedTarget(q) /\ Applied(p) =>
          /\ proposals[q].previous \in DOMAIN facts
          /\ FactOf(p) \in Line(proposals[q].previous)
Continued == \A q \in DOMAIN proposals : Continues(q)

IInv ==
    /\ TypeOK
    /\ References
    /\ AppliedOnce
    /\ UntypedStandAlone
    /\ DecidedOnce
    /\ LineageIsValid
    /\ AppliedAsJudged
    /\ Rooted
    /\ Continued

----------------------------------------------------------------------------
(* Tables and links.                                                       *)

\* A row at the end of a table.
LEMMA Appended ==
    ASSUME NEW S, NEW q \in Seq(S), NEW e \in S
    PROVE  /\ Append(q, e) \in Seq(S)
           /\ DOMAIN Append(q, e) = DOMAIN q \cup {Len(q) + 1}
           /\ Len(q) + 1 \notin DOMAIN q
           /\ \A i \in DOMAIN q : i \in Nat \ {0} /\ i < Len(q) + 1 /\ Append(q, e)[i] = q[i]
           /\ Append(q, e)[Len(q) + 1] = e
           /\ Len(Append(q, e)) = Len(q) + 1
           /\ Len(q) + 1 \in Nat \ {0}
OBVIOUS

\* The link to a parent depends on the applications of that parent only.
LEMMA LinkStays ==
    ASSUME AppliedOnce, AppliedOnce', NEW p, ApplicationsOf(p)' = ApplicationsOf(p)
    PROVE  /\ Link(p)' = Link(p)
           /\ Applied(p)' <=> Applied(p)
           /\ Applied(p) => FactOf(p)' = FactOf(p)
<1>1. Applied(p)' <=> Applied(p)
  BY DEF Applied
<1>2. CASE ~Applied(p)
  BY <1>1, <1>2 DEF Link
<1>3. CASE Applied(p)
  <2>1. PICK a \in applications : a.proposal = p
    BY <1>3 DEF Applied, ApplicationsOf
  <2>2. a \in applications'
    BY <2>1 DEF ApplicationsOf
  <2>3. ApplicationOf(p) = a
    BY <2>1 DEF AppliedOnce, ApplicationOf
  <2>4. ApplicationOf(p)' = a
    BY <2>1, <2>2 DEF AppliedOnce, ApplicationOf
  <2>. QED
    BY <1>1, <1>3, <2>3, <2>4 DEF Link, FactOf
<1>. QED
  BY <1>1, <1>2, <1>3

\* An applied proposal has a decision.
LEMMA AppliedIsDecided ==
    ASSUME References, DecidedOnce, NEW p, Applied(p)
    PROVE  DecisionsOf(p) # {}
BY DEF References, DecidedOnce, Applied, ApplicationsOf, DecisionsOf

LEMMA LinkType ==
    ASSUME TypeOK, NEW p
    PROVE  Link(p) \in Nat
<1>1. CASE Applied(p)
  <2>1. \E a \in applications : a.proposal = p
    BY <1>1 DEF Applied, ApplicationsOf
  <2>2. ApplicationOf(p) \in Application
    BY <2>1 DEF ApplicationOf, TypeOK
  <2>. QED
    BY <1>1, <2>2 DEF Link, Application
<1>2. CASE ~Applied(p)
  BY <1>2 DEF Link, Nothing
<1>. QED
  BY <1>1, <1>2

LEMMA InitIInv == Init => IInv
<1>. SUFFICES ASSUME Init PROVE IInv
  OBVIOUS
<1>1. proposals = <<>> /\ decisions = <<>> /\ applications = {} /\ facts = <<>> /\ revision = 0
  BY DEF Init
<1>. QED
  BY <1>1 DEF IInv, TypeOK, References, AppliedOnce, UntypedStandAlone, DecidedOnce,
     LineageIsValid, AppliedAsJudged, Rooted, Continued

----------------------------------------------------------------------------
(* Lines of facts.                                                         *)

\* Facts that are added do not change what the facts there are correct.
LEMMA LineStays ==
    ASSUME Rooted, DOMAIN facts \subseteq DOMAIN facts',
           \A f \in DOMAIN facts : facts'[f] = facts[f],
           NEW f \in DOMAIN facts
    PROVE  Line(f) \subseteq Line(f)'
<1>. SUFFICES ASSUME NEW g \in Line(f) PROVE g \in Line(f)'
  OBVIOUS
<1>1. g \in DOMAIN facts'
  BY DEF Line
<1>2. ASSUME NEW S \in SUBSET DOMAIN facts', f \in S, Backward(S)' PROVE g \in S
  <2>. DEFINE old == S \cap DOMAIN facts
  <2>1. Backward(old)
    BY <1>2 DEF Backward, Rooted
  <2>2. f \in old /\ old \in SUBSET DOMAIN facts
    BY <1>2
  <2>. QED
    BY <2>1, <2>2 DEF Line
<1>. QED
  BY <1>1, <1>2 DEF Line, Backward

\* What the corrected fact corrects is corrected as well.
LEMMA LineThrough ==
    ASSUME NEW f \in DOMAIN facts, NEW h \in DOMAIN facts, facts[f].previous = h, h # Nothing
    PROVE  Line(h) \subseteq Line(f)
BY DEF Line, Backward

\* Revisions that are there keep continuing their lines while facts are added and the
\* proposals with successors keep their applications.
LEMMA ContinuesStays ==
    ASSUME Rooted, AppliedOnce, AppliedOnce', DOMAIN facts \subseteq DOMAIN facts',
           \A f \in DOMAIN facts : facts'[f] = facts[f],
           NEW q, proposals'[q] = proposals[q], Continues(q),
           ApplicationsOf(proposals[q].parent)' = ApplicationsOf(proposals[q].parent)
    PROVE  Continues(q)'
<1>1. PICK p : p = proposals[q].parent /\ p = proposals'[q].parent
  OBVIOUS
<1>2. SUFFICES ASSUME p # Nothing, TypedTarget(q), Applied(p)'
               PROVE  /\ proposals[q].previous \in DOMAIN facts'
                      /\ FactOf(p)' \in Line(proposals[q].previous)'
  BY <1>1 DEF Continues, TypedTarget
<1>3. Applied(p) /\ FactOf(p)' = FactOf(p)
  BY <1>1, <1>2, LinkStays
<1>4. proposals[q].previous \in DOMAIN facts /\ FactOf(p) \in Line(proposals[q].previous)
  BY <1>1, <1>2, <1>3 DEF Continues
<1>. QED
  BY <1>3, <1>4, LineStays

----------------------------------------------------------------------------
(* Facts appended directly, and steps that touch nothing of the intake.    *)

\* Appending a fact leaves the facts there are and keeps the untyped ones apart.
LEMMA FactAppended ==
    ASSUME TypeOK, UntypedStandAlone, Rooted, NEW t \in Targets, NEW h \in Nat, AppendFact(t, h)
    PROVE  /\ facts' \in Seq(Fact)
           /\ DOMAIN facts' = DOMAIN facts \cup {Len(facts) + 1}
           /\ \A f \in DOMAIN facts : facts'[f] = facts[f]
           /\ facts'[Len(facts) + 1] = [target |-> t, previous |-> h]
           /\ UntypedStandAlone' /\ Rooted'
<1>. DEFINE new == [target |-> t, previous |-> h]
<1>1. new \in Fact
  BY DEF Fact
<1>2. facts' = Append(facts, new) /\ facts \in Seq(Fact)
  BY DEF AppendFact, TypeOK
<1>3. Operation[t] \notin Typed => h = Nothing
  BY DEF AppendFact, Admits
<1>4. /\ facts' \in Seq(Fact)
      /\ DOMAIN facts' = DOMAIN facts \cup {Len(facts) + 1}
      /\ \A f \in DOMAIN facts : facts'[f] = facts[f]
      /\ facts'[Len(facts) + 1] = new
  BY <1>1, <1>2, Appended
<1>5. UntypedStandAlone'
  BY <1>3, <1>4 DEF UntypedStandAlone
<1>6. Rooted'
  <2>1. h \in DOMAIN facts \cup {Nothing}
    BY DEF AppendFact, Admits, Heads
  <2>. QED
    BY <1>4, <2>1 DEF Rooted
<1>. QED
  BY <1>4, <1>5, <1>6

\* What is said of applications only looks at facts that are already there.
LEMMA OnlyFacts ==
    ASSUME IInv, UNCHANGED <<proposals, decisions, applications>>,
           facts' \in Seq(Fact), revision' \in Nat,
           DOMAIN facts \subseteq DOMAIN facts',
           \A f \in DOMAIN facts : facts'[f] = facts[f],
           UntypedStandAlone', Rooted'
    PROVE  IInv'
<1>. USE DEF IInv
<1>1. TypeOK'
  BY DEF TypeOK
<1>2. References'
  BY DEF References
<1>3. AppliedOnce' /\ DecidedOnce' /\ LineageIsValid'
  <2>1. DecidedOnce'
    BY DEF DecidedOnce, DecisionsOf, Successors
  <2>2. AppliedOnce'
    BY DEF AppliedOnce
  <2>3. LineageIsValid'
    BY DEF LineageIsValid, Successors, Link, Applied, ApplicationsOf, ApplicationOf
  <2>. QED
    BY <2>1, <2>2, <2>3
<1>4. AppliedAsJudged'
  BY DEF AppliedAsJudged, References
<1>5. Continued'
  <2>1. \A p : ApplicationsOf(p)' = ApplicationsOf(p)
    BY DEF ApplicationsOf
  <2>2. \A q \in DOMAIN proposals : Continues(q)'
    BY <1>3, <2>1, ContinuesStays DEF Continued
  <2>. QED
    BY <2>2 DEF Continued
<1>. QED
  BY <1>1, <1>2, <1>3, <1>4, <1>5

----------------------------------------------------------------------------
(* Proposals and decisions appended.                                       *)

\* A captured proposal leaves the proposals there are.
LEMMA Captured ==
    ASSUME TypeOK, NEW new \in Proposal, proposals' = Append(proposals, new),
           NEW q, q = Len(proposals) + 1
    PROVE  /\ proposals' \in Seq(Proposal)
           /\ DOMAIN proposals' = DOMAIN proposals \cup {q}
           /\ q \notin DOMAIN proposals
           /\ \A p \in DOMAIN proposals : proposals'[p] = proposals[p] /\ p \in Nat \ {0} /\ p < q
           /\ q \in Nat \ {0}
           /\ proposals'[q] = new
<1>1. proposals \in Seq(Proposal)
  BY DEF TypeOK
<1>. QED
  BY <1>1, Appended

\* A decision is about one proposal and leaves the decisions there are.
LEMMA Decided ==
    ASSUME TypeOK, NEW p \in Nat, NEW state \in {"confirmed", "rejected"}, Decide(p, state)
    PROVE  /\ decisions' \in Seq(Decision)
           /\ DOMAIN decisions' = DOMAIN decisions \cup {Len(decisions) + 1}
           /\ Len(decisions) + 1 \notin DOMAIN decisions
           /\ \A d \in DOMAIN decisions : decisions'[d] = decisions[d]
           /\ decisions'[Len(decisions) + 1] = [proposal |-> p, state |-> state]
           /\ Len(decisions') = Len(decisions) + 1
           /\ Len(decisions') \in Nat
           /\ DecisionsOf(p)' = DecisionsOf(p) \cup {Len(decisions) + 1}
           /\ \A x : x # p => DecisionsOf(x)' = DecisionsOf(x)
<1>. DEFINE new == [proposal |-> p, state |-> state]
<1>1. new \in Decision
  BY DEF Decision
<1>2. decisions' = Append(decisions, new) /\ decisions \in Seq(Decision)
  BY DEF Decide, TypeOK
<1>3. /\ decisions' \in Seq(Decision)
      /\ DOMAIN decisions' = DOMAIN decisions \cup {Len(decisions) + 1}
      /\ Len(decisions) + 1 \notin DOMAIN decisions
      /\ \A d \in DOMAIN decisions : decisions'[d] = decisions[d]
      /\ decisions'[Len(decisions) + 1] = new
      /\ Len(decisions') = Len(decisions) + 1
      /\ Len(decisions') \in Nat
  BY <1>1, <1>2, Appended
<1>4. DecisionsOf(p)' = DecisionsOf(p) \cup {Len(decisions) + 1}
  BY <1>3 DEF DecisionsOf
<1>5. \A x : x # p => DecisionsOf(x)' = DecisionsOf(x)
  BY <1>3 DEF DecisionsOf
<1>. QED
  BY <1>3, <1>4, <1>5

LEMMA NamedType == TypeOK => Named \subseteq Nat
BY DEF Named, Nothing, TypeOK

----------------------------------------------------------------------------
(* The commands.                                                           *)

LEMMA SubmitKeeps ==
    ASSUME IInv, NEW t \in Targets, NEW h \in Named, NEW uncertain \in BOOLEAN,
           Submit(t, h, uncertain)
    PROVE  IInv'
<1>. USE DEF IInv
<1>0. PICK q : q = Len(proposals) + 1
  OBVIOUS
<1>1. /\ proposals' \in Seq(Proposal)
      /\ DOMAIN proposals' = DOMAIN proposals \cup {q}
      /\ q \notin DOMAIN proposals
      /\ \A p \in DOMAIN proposals : proposals'[p] = proposals[p] /\ p \in Nat \ {0} /\ p < q
      /\ q \in Nat \ {0}
      /\ proposals'[q].parent = Nothing
  <2>. HIDE DEF IInv
  <2>1. PICK new : new = [target |-> t, previous |-> h, uncertain |-> uncertain,
                          expected |-> revision + 1, parent |-> Nothing, link |-> Nothing]
    OBVIOUS
  <2>2. TypeOK /\ h \in Nat
    BY NamedType DEF IInv
  <2>3. new \in Proposal /\ new.parent = Nothing
    BY <2>1, <2>2 DEF Proposal, TypeOK, Nothing
  <2>4. proposals' = Append(proposals, new)
    BY <2>1 DEF Submit, Capture
  <2>. QED
    BY <1>0, <2>2, <2>3, <2>4, Captured
<1>2. UNCHANGED <<decisions, applications, facts>> /\ revision' \in Nat
  BY DEF Submit, Commit, TypeOK
<1>3. TypeOK'
  BY <1>1, <1>2 DEF TypeOK
<1>4. References' /\ AppliedOnce' /\ UntypedStandAlone'
  BY <1>1, <1>2 DEF References, AppliedOnce, UntypedStandAlone
<1>5. \A p \in DOMAIN proposals : Successors(p)' = Successors(p)
  BY <1>1 DEF Successors, Nothing
<1>6. Successors(q)' = {}
  <2>1. \A r \in DOMAIN proposals : proposals[r].parent # q
    BY <1>1 DEF References, Nothing
  <2>2. \A r \in DOMAIN proposals' : proposals'[r].parent # q
    BY <1>1, <2>1 DEF Nothing
  <2>. QED
    BY <2>2 DEF Successors
<1>7. \A p : DecisionsOf(p)' = DecisionsOf(p)
  BY <1>2 DEF DecisionsOf
<1>8. \A p : Link(p)' = Link(p)
  BY <1>2 DEF Link, Applied, ApplicationsOf, ApplicationOf
<1>9. DecidedOnce'
  <2>1. \A p \in DOMAIN proposals' : DecisionsOf(p)' = {} => Successors(p)' = {}
    BY <1>1, <1>5, <1>6, <1>7 DEF DecidedOnce
  <2>. QED
    BY <1>2, <2>1 DEF DecidedOnce
<1>10. LineageIsValid'
  BY <1>1, <1>5, <1>8 DEF LineageIsValid, References
<1>11. AppliedAsJudged'
  BY <1>1, <1>2 DEF AppliedAsJudged, References
<1>12. Rooted' /\ Continued'
  <2>1. Continues(q)'
    BY <1>1 DEF Continues
  <2>2. \A p : ApplicationsOf(p)' = ApplicationsOf(p)
    BY <1>2 DEF ApplicationsOf
  <2>3. \A r \in DOMAIN proposals : Continues(r)'
    BY <1>1, <1>2, <1>4, <2>2, ContinuesStays DEF Continued
  <2>. QED
    BY <1>1, <1>2, <2>1, <2>3 DEF Continued, Rooted
<1>. QED
  BY <1>3, <1>4, <1>9, <1>10, <1>11, <1>12

LEMMA WithdrawKeeps ==
    ASSUME IInv, NEW p \in DOMAIN proposals, Withdraw(p)
    PROVE  IInv'
<1>. USE DEF IInv
<1>. DEFINE d == Len(decisions) + 1
<1>1. UNCHANGED <<proposals, applications, facts>> /\ revision' \in Nat /\ p \in Nat
  BY DEF Withdraw, Commit, TypeOK
<1>2. /\ decisions' \in Seq(Decision)
      /\ DOMAIN decisions' = DOMAIN decisions \cup {d}
      /\ d \notin DOMAIN decisions
      /\ \A e \in DOMAIN decisions : decisions'[e] = decisions[e]
      /\ decisions'[d] = [proposal |-> p, state |-> "rejected"]
      /\ \A x : x # p => DecisionsOf(x)' = DecisionsOf(x)
      /\ DecisionsOf(p)' # {}
  BY <1>1, Decided DEF Withdraw
<1>3. DecisionsOf(p) = {}
  BY DEF Withdraw, Withdrawable
<1>4. TypeOK'
  BY <1>1, <1>2 DEF TypeOK
<1>5. References' /\ AppliedOnce' /\ UntypedStandAlone'
  BY <1>1, <1>2 DEF References, AppliedOnce, UntypedStandAlone
<1>6. DecidedOnce'
  <2>1. \A e \in DOMAIN decisions : decisions[e].proposal # p
    BY <1>3 DEF DecisionsOf
  <2>2. \A e, f \in DOMAIN decisions' : decisions'[e].proposal = decisions'[f].proposal => e = f
    BY <1>2, <2>1 DEF DecidedOnce
  <2>3. \A e \in DOMAIN decisions' :
           decisions'[e].state = "confirmed" <=> \E a \in applications' : a.decision = e
    BY <1>1, <1>2 DEF DecidedOnce, References
  <2>4. \A a \in applications' : decisions'[a.decision].proposal = a.proposal
    BY <1>1, <1>2 DEF DecidedOnce, References
  <2>5. \A x \in DOMAIN proposals' : DecisionsOf(x)' = {} => Successors(x)' = {}
    BY <1>1, <1>2 DEF DecidedOnce, Successors
  <2>. QED
    BY <2>2, <2>3, <2>4, <2>5 DEF DecidedOnce
<1>7. LineageIsValid'
  BY <1>1 DEF LineageIsValid, Successors, Link, Applied, ApplicationsOf, ApplicationOf
<1>8. AppliedAsJudged'
  BY <1>1 DEF AppliedAsJudged
<1>9. Rooted' /\ Continued'
  <2>1. \A x : ApplicationsOf(x)' = ApplicationsOf(x)
    BY <1>1 DEF ApplicationsOf
  <2>2. \A r \in DOMAIN proposals : Continues(r)'
    BY <1>1, <1>5, <2>1, ContinuesStays DEF Continued
  <2>. QED
    BY <1>1, <2>2 DEF Continued, Rooted
<1>. QED
  BY <1>4, <1>5, <1>6, <1>7, <1>8, <1>9

LEMMA ReviseKeeps ==
    ASSUME IInv, NEW p \in DOMAIN proposals, NEW h \in Named, NEW uncertain \in BOOLEAN,
           Revise(p, h, uncertain)
    PROVE  IInv'
<1>. USE DEF IInv
<1>0. PICK q : q = Len(proposals) + 1
  OBVIOUS
<1>1. /\ proposals' \in Seq(Proposal)
      /\ DOMAIN proposals' = DOMAIN proposals \cup {q}
      /\ q \notin DOMAIN proposals
      /\ \A r \in DOMAIN proposals : proposals'[r] = proposals[r] /\ r \in Nat \ {0} /\ r < q
      /\ q \in Nat \ {0}
      /\ proposals'[q].parent = p
      /\ proposals'[q].target = proposals[p].target
      /\ proposals'[q].link = Link(p)
      /\ proposals'[q].previous = h
  <2>. HIDE DEF IInv
  <2>1. PICK new : new = [target |-> proposals[p].target, previous |-> h,
                          uncertain |-> uncertain, expected |-> revision + 1,
                          parent |-> p, link |-> Link(p)]
    OBVIOUS
  <2>2. TypeOK /\ h \in Nat /\ Link(p) \in Nat
    BY NamedType, LinkType DEF IInv
  <2>3. p \in Nat /\ proposals[p].target \in Targets /\ revision + 1 \in Nat
    <3>1. proposals \in Seq(Proposal) /\ revision \in Nat
      BY <2>2 DEF TypeOK
    <3>2. proposals[p] \in Proposal /\ p \in Nat
      BY <3>1
    <3>. QED
      BY <3>1, <3>2 DEF Proposal
  <2>4. /\ new \in Proposal
        /\ new.parent = p /\ new.target = proposals[p].target /\ new.link = Link(p)
        /\ new.previous = h
    BY <2>1, <2>2, <2>3 DEF Proposal
  <2>5. proposals' = Append(proposals, new)
    BY <2>1 DEF Revise, Capture
  <2>. QED
    BY <1>0, <2>2, <2>4, <2>5, Captured
<1>2. UNCHANGED <<applications, facts>> /\ revision' \in Nat /\ p \in Nat /\ Successors(p) = {}
  BY DEF Revise, Commit, Latest, TypeOK
<1>3. /\ decisions' \in Seq(Decision)
      /\ DOMAIN decisions \subseteq DOMAIN decisions'
      /\ \A d \in DOMAIN decisions : decisions'[d] = decisions[d]
      /\ \A d \in DOMAIN decisions' \ DOMAIN decisions :
            decisions'[d] = [proposal |-> p, state |-> "rejected"]
      /\ \A d, e \in DOMAIN decisions' :
            decisions'[d].proposal = decisions'[e].proposal => d = e
      /\ \A x : x # p => DecisionsOf(x)' = DecisionsOf(x)
      /\ DecisionsOf(p)' # {}
  <2>1. CASE Applied(p) \/ DecisionsOf(p) # {}
    <3>1. UNCHANGED decisions
      BY <2>1 DEF Revise, Retire
    <3>2. DecisionsOf(p) # {}
      BY <2>1, AppliedIsDecided
    <3>. QED
      BY <3>1, <3>2 DEF DecisionsOf, DecidedOnce, TypeOK
  <2>2. CASE ~(Applied(p) \/ DecisionsOf(p) # {})
    <3>1. Decide(p, "rejected")
      BY <2>2 DEF Revise, Retire
    <3>2. \A e \in DOMAIN decisions : decisions[e].proposal # p
      BY <2>2 DEF DecisionsOf
    <3>3. PICK d : d = Len(decisions) + 1
      OBVIOUS
    <3>4. /\ decisions' \in Seq(Decision)
          /\ DOMAIN decisions' = DOMAIN decisions \cup {d}
          /\ \A e \in DOMAIN decisions : decisions'[e] = decisions[e]
          /\ decisions'[d] = [proposal |-> p, state |-> "rejected"]
          /\ DecisionsOf(p)' = DecisionsOf(p) \cup {d}
          /\ \A x : x # p => DecisionsOf(x)' = DecisionsOf(x)
      BY <1>2, <3>1, <3>3, Decided
    <3>5. \A e, f \in DOMAIN decisions' : decisions'[e].proposal = decisions'[f].proposal => e = f
      BY <3>2, <3>4 DEF DecidedOnce
    <3>. QED
      BY <3>4, <3>5
  <2>. QED
    BY <2>1, <2>2
<1>4. TypeOK'
  BY <1>1, <1>2, <1>3 DEF TypeOK
<1>5. References'
  <2>1. \A r \in DOMAIN proposals' :
           proposals'[r].parent # Nothing => /\ proposals'[r].parent \in DOMAIN proposals'
                                             /\ proposals'[r].parent < r
    BY <1>1 DEF References
  <2>2. \A d \in DOMAIN decisions' : decisions'[d].proposal \in DOMAIN proposals'
    BY <1>1, <1>3 DEF References
  <2>. QED
    BY <1>1, <1>2, <1>3, <2>1, <2>2 DEF References
<1>6. AppliedOnce' /\ UntypedStandAlone'
  BY <1>2 DEF AppliedOnce, UntypedStandAlone
<1>7. Successors(p)' = {q}
  BY <1>1, <1>2 DEF Successors
<1>8. \A x \in DOMAIN proposals : x # p => Successors(x)' = Successors(x)
  BY <1>1 DEF Successors
<1>9. Successors(q)' = {}
  <2>1. \A r \in DOMAIN proposals : proposals[r].parent # q
    BY <1>1 DEF References, Nothing
  <2>2. \A r \in DOMAIN proposals' : proposals'[r].parent # q
    BY <1>1, <2>1
  <2>. QED
    BY <2>2 DEF Successors
<1>10. DecidedOnce'
  <2>1. \A d \in DOMAIN decisions' :
           decisions'[d].state = "confirmed" <=> \E a \in applications' : a.decision = d
    BY <1>2, <1>3 DEF DecidedOnce, References
  <2>2. \A a \in applications' : decisions'[a.decision].proposal = a.proposal
    BY <1>2, <1>3 DEF DecidedOnce, References
  <2>3. \A x \in DOMAIN proposals' : DecisionsOf(x)' = {} => Successors(x)' = {}
    BY <1>1, <1>3, <1>8, <1>9 DEF DecidedOnce
  <2>. QED
    BY <1>3, <2>1, <2>2, <2>3 DEF DecidedOnce
<1>11. LineageIsValid'
  <2>1. \A x : Link(x)' = Link(x)
    BY <1>2 DEF Link, Applied, ApplicationsOf, ApplicationOf
  <2>2. \A r \in DOMAIN proposals : proposals[r].parent # p
    BY <1>2 DEF Successors
  <2>3. ASSUME NEW r \in DOMAIN proposals', NEW x, x = proposals'[r].parent, x # Nothing
        PROVE  /\ x < r
               /\ Successors(x)' = {r}
               /\ proposals'[x].target = proposals'[r].target
               /\ proposals'[r].link = Link(x)
    <3>1. CASE r = q
      BY <1>1, <1>7, <2>3, <3>1
    <3>2. CASE r # q
      <4>1. r \in DOMAIN proposals /\ proposals'[r] = proposals[r]
        BY <1>1, <3>2
      <4>2. x = proposals[r].parent /\ x \in DOMAIN proposals /\ x # p
        BY <2>2, <2>3, <4>1 DEF References
      <4>3. /\ x < r
            /\ Successors(x) = {r}
            /\ proposals[x].target = proposals[r].target
            /\ proposals[r].link = Link(x)
        BY <2>3, <4>1, <4>2 DEF LineageIsValid
      <4>. QED
        BY <1>1, <1>8, <4>1, <4>2, <4>3
    <3>. QED
      BY <3>1, <3>2
  <2>. QED
    BY <2>1, <2>3 DEF LineageIsValid
<1>12. AppliedAsJudged'
  BY <1>1, <1>2 DEF AppliedAsJudged, References
<1>13. Rooted' /\ Continued'
  <2>1. \A x : ApplicationsOf(x)' = ApplicationsOf(x)
    BY <1>2 DEF ApplicationsOf
  <2>2. \A r \in DOMAIN proposals : Continues(r)'
    BY <1>1, <1>2, <1>6, <2>1, ContinuesStays DEF Continued
  <2>3. Applied(p)' = Applied(p) /\ FactOf(p)' = FactOf(p) /\ Line(h)' = Line(h)
    BY <1>2, <2>1 DEF Applied, FactOf, ApplicationOf, Line, Backward
  <2>4. TypedTarget(q)' /\ Applied(p) => h \in DOMAIN facts /\ FactOf(p) \in Line(h)
    BY <1>1 DEF Revise, HeadInLine, TypedTarget, FactOf, Heads
  <2>5. Continues(q)'
    BY <1>1, <1>2, <2>3, <2>4 DEF Continues
  <2>. QED
    BY <1>1, <1>2, <2>2, <2>5 DEF Continued, Rooted
<1>. QED
  BY <1>4, <1>5, <1>6, <1>10, <1>11, <1>12, <1>13

\* Applying a proposal names a fact that says what the proposal says.
LEMMA AppliedFact ==
    ASSUME TypeOK, UntypedStandAlone, Rooted, NEW p \in DOMAIN proposals, NEW f \in Nat,
           Apply(p, f)
    PROVE  /\ facts' \in Seq(Fact)
           /\ f \in DOMAIN facts'
           /\ DOMAIN facts \subseteq DOMAIN facts'
           /\ \A g \in DOMAIN facts : facts'[g] = facts[g]
           /\ facts'[f] = [target |-> proposals[p].target, previous |-> proposals[p].previous]
           /\ UntypedStandAlone' /\ Rooted'
<1>1. proposals[p] \in Proposal /\ facts \in Seq(Fact)
  BY DEF TypeOK
<1>2. CASE f = Len(facts) + 1 /\ AppendFact(proposals[p].target, proposals[p].previous)
  BY <1>1, <1>2, FactAppended DEF Proposal
<1>3. CASE /\ f \in DOMAIN facts
           /\ facts[f].target = proposals[p].target
           /\ Operation[proposals[p].target] \notin Typed /\ proposals[p].previous = Nothing
           /\ UNCHANGED facts
  <2>1. facts[f].previous = proposals[p].previous /\ facts[f] \in Fact
    BY <1>1, <1>3 DEF UntypedStandAlone
  <2>. QED
    BY <1>1, <1>3, <2>1 DEF UntypedStandAlone, Rooted, Fact
<1>. QED
  BY <1>2, <1>3 DEF Apply

LEMMA ConfirmKeeps ==
    ASSUME IInv, NEW p \in DOMAIN proposals, Confirm(p)
    PROVE  IInv'
<1>. USE DEF IInv
<1>1. PICK f \in 1..(Len(facts) + 1) :
          /\ Apply(p, f)
          /\ applications' = applications \cup
                 {[proposal |-> p, decision |-> Len(decisions'), fact |-> f,
                   changeset |-> revision']}
  BY DEF Confirm
<1>2. /\ UNCHANGED proposals /\ revision \in Nat /\ revision' = revision + 1 /\ p \in Nat
      /\ proposals[p].expected = revision /\ DecisionsOf(p) = {} /\ f \in Nat
  BY DEF Confirm, Commit, Judged, TypeOK
<1>3. /\ facts' \in Seq(Fact)
      /\ f \in DOMAIN facts'
      /\ DOMAIN facts \subseteq DOMAIN facts'
      /\ \A g \in DOMAIN facts : facts'[g] = facts[g]
      /\ facts'[f] = [target |-> proposals[p].target, previous |-> proposals[p].previous]
      /\ UntypedStandAlone' /\ Rooted'
  BY <1>1, <1>2, AppliedFact
<1>4. PICK d : d = Len(decisions) + 1
  OBVIOUS
<1>5. /\ decisions' \in Seq(Decision)
      /\ DOMAIN decisions' = DOMAIN decisions \cup {d}
      /\ d \notin DOMAIN decisions
      /\ \A e \in DOMAIN decisions : decisions'[e] = decisions[e]
      /\ decisions'[d] = [proposal |-> p, state |-> "confirmed"]
      /\ Len(decisions') = d
      /\ d \in Nat
      /\ DecisionsOf(p)' # {}
      /\ \A x : x # p => DecisionsOf(x)' = DecisionsOf(x)
  BY <1>2, <1>4, Decided DEF Confirm
<1>6. PICK n : n = [proposal |-> p, decision |-> d, fact |-> f, changeset |-> revision + 1]
  OBVIOUS
<1>7. applications' = applications \cup {n}
  BY <1>1, <1>2, <1>5, <1>6
<1>8. TypeOK'
  <2>1. n \in Application
    BY <1>2, <1>5, <1>6 DEF Application
  <2>. QED
    BY <1>2, <1>3, <1>5, <1>7, <2>1 DEF TypeOK
<1>9. References'
  BY <1>2, <1>3, <1>5, <1>6, <1>7 DEF References
<1>10. \A a \in applications : a.proposal # p
  BY <1>2, AppliedIsDecided DEF Applied, ApplicationsOf
<1>11. AppliedOnce'
  BY <1>6, <1>7, <1>10 DEF AppliedOnce
<1>12. DecidedOnce'
  <2>1. \A e \in DOMAIN decisions : decisions[e].proposal # p
    BY <1>2 DEF DecisionsOf
  <2>2. \A e, g \in DOMAIN decisions' : decisions'[e].proposal = decisions'[g].proposal => e = g
    BY <1>5, <2>1 DEF DecidedOnce
  <2>3. \A e \in DOMAIN decisions' :
           decisions'[e].state = "confirmed" <=> \E a \in applications' : a.decision = e
    <3>1. \A a \in applications : a.decision \in DOMAIN decisions
      BY DEF References
    <3>2. ASSUME NEW e \in DOMAIN decisions
          PROVE  decisions'[e].state = "confirmed" <=> \E a \in applications' : a.decision = e
      BY <1>5, <1>6, <1>7 DEF DecidedOnce
    <3>3. decisions'[d].state = "confirmed" /\ \E a \in applications' : a.decision = d
      BY <1>5, <1>6, <1>7
    <3>. QED
      BY <1>5, <3>2, <3>3
  <2>4. \A a \in applications' : decisions'[a.decision].proposal = a.proposal
    BY <1>5, <1>6, <1>7 DEF DecidedOnce, References
  <2>5. \A x \in DOMAIN proposals' : DecisionsOf(x)' = {} => Successors(x)' = {}
    BY <1>2, <1>5 DEF DecidedOnce, Successors
  <2>. QED
    BY <2>2, <2>3, <2>4, <2>5 DEF DecidedOnce
<1>13. LineageIsValid'
  <2>1. \A x : x # p => ApplicationsOf(x)' = ApplicationsOf(x)
    BY <1>6, <1>7 DEF ApplicationsOf
  <2>2. \A x : x # p => Link(x)' = Link(x)
    BY <1>11, <2>1, LinkStays
  <2>3. \A r \in DOMAIN proposals : proposals[r].parent # p
    BY <1>2 DEF DecidedOnce, Successors
  <2>4. \A x : Successors(x)' = Successors(x)
    BY <1>2 DEF Successors
  <2>. QED
    BY <1>2, <2>2, <2>3, <2>4 DEF LineageIsValid
<1>14. AppliedAsJudged'
  <2>1. /\ n.changeset = proposals[n.proposal].expected + 1
        /\ facts'[n.fact] = [target |-> proposals[n.proposal].target,
                             previous |-> proposals[n.proposal].previous]
    BY <1>2, <1>3, <1>6
  <2>. QED
    BY <1>2, <1>3, <1>7, <2>1 DEF AppliedAsJudged, References
<1>15. Continued'
  <2>1. \A x : x # p => ApplicationsOf(x)' = ApplicationsOf(x)
    BY <1>6, <1>7 DEF ApplicationsOf
  <2>2. \A r \in DOMAIN proposals : proposals[r].parent # p
    BY <1>2 DEF DecidedOnce, Successors
  <2>3. \A r \in DOMAIN proposals : Continues(r)'
    BY <1>2, <1>3, <1>11, <2>1, <2>2, ContinuesStays DEF Continued
  <2>. QED
    BY <1>2, <2>3 DEF Continued
<1>. QED
  BY <1>3, <1>8, <1>9, <1>11, <1>12, <1>13, <1>14, <1>15

LEMMA DirectKeeps ==
    ASSUME IInv, NEW t \in Targets, NEW h \in Named, Direct(t, h)
    PROVE  IInv'
<1>1. /\ AppendFact(t, h) /\ UNCHANGED <<proposals, decisions, applications>>
      /\ revision' \in Nat /\ h \in Nat /\ TypeOK /\ UntypedStandAlone /\ Rooted
  BY NamedType DEF Direct, Commit, IInv, TypeOK
<1>2. /\ facts' \in Seq(Fact)
      /\ DOMAIN facts \subseteq DOMAIN facts'
      /\ \A f \in DOMAIN facts : facts'[f] = facts[f]
      /\ UntypedStandAlone' /\ Rooted'
  BY <1>1, FactAppended
<1>. QED
  BY <1>1, <1>2, OnlyFacts

LEMMA OtherKeeps ==
    ASSUME IInv, UNCHANGED <<proposals, decisions, applications, facts>>, revision' \in Nat
    PROVE  IInv'
<1>1. facts' \in Seq(Fact) /\ UntypedStandAlone' /\ Rooted'
  BY DEF IInv, TypeOK, UntypedStandAlone, Rooted
<1>. QED
  BY <1>1, OnlyFacts

LEMMA NextIInv == IInv /\ [Next]_vars => IInv'
<1>. SUFFICES ASSUME IInv, [Next]_vars PROVE IInv'
  OBVIOUS
<1>1. ASSUME NEW t \in Targets, NEW h \in Named, NEW uncertain \in BOOLEAN,
             Submit(t, h, uncertain)
      PROVE  IInv'
  BY <1>1, SubmitKeeps
<1>2. ASSUME NEW t \in Targets, NEW h \in Named, Direct(t, h) PROVE IInv'
  BY <1>2, DirectKeeps
<1>3. ASSUME NEW p \in DOMAIN proposals, NEW h \in Named, NEW uncertain \in BOOLEAN,
             Revise(p, h, uncertain)
      PROVE  IInv'
  BY <1>3, ReviseKeeps
<1>4. ASSUME NEW p \in DOMAIN proposals, Withdraw(p) PROVE IInv'
  BY <1>4, WithdrawKeeps
<1>5. ASSUME NEW p \in DOMAIN proposals, Confirm(p) PROVE IInv'
  BY <1>5, ConfirmKeeps
<1>6. CASE Other
  <2>1. revision' \in Nat /\ UNCHANGED <<proposals, decisions, applications, facts>>
    BY <1>6 DEF Other, Commit, IInv, TypeOK
  <2>. QED
    BY <2>1, OtherKeeps
<1>7. CASE UNCHANGED vars
  <2>1. revision' \in Nat /\ UNCHANGED <<proposals, decisions, applications, facts>>
    BY <1>7 DEF vars, IInv, TypeOK
  <2>. QED
    BY <2>1, OtherKeeps
<1>. QED
  BY <1>1, <1>2, <1>3, <1>4, <1>5, <1>6, <1>7 DEF Next

----------------------------------------------------------------------------
(* Theorems.                                                               *)

\* The invariant holds of every state the commands reach.
THEOREM IntakeInvariant == Spec => []IInv
BY InitIInv, NextIInv, PTL DEF Spec

\* The tables hold well-formed rows, whatever the commands (intake_lifecycle.py).
THEOREM IntakeTypeCorrect == Spec => []TypeOK
<1>1. IInv => TypeOK
  BY DEF IInv
<1>. QED
  BY <1>1, IntakeInvariant, PTL

\* A lineage that revise_intake stored is one validated_lineage goes on accepting: the view
\* of the decisions always opens, after any later confirmation, withdrawal or revision.
THEOREM IntakeLineageIsValid == Spec => []LineageIsValid
<1>1. IInv => LineageIsValid
  BY DEF IInv
<1>. QED
  BY <1>1, IntakeInvariant, PTL

\* A proposal is decided once, applied exactly when confirmed, and retired before it has a
\* successor (apply_intake_decision, withdraw_intake, revise_intake).
THEOREM IntakeDecidedOnce == Spec => []DecidedOnce
<1>1. IInv => DecidedOnce
  BY DEF IInv
<1>. QED
  BY <1>1, IntakeInvariant, PTL

\* Nothing was committed between the proposal as it was judged and its application, and the
\* fact it names says what the proposal says (confirm_intake, apply_intake_decision).
THEOREM IntakeAppliedAsJudged == Spec => []AppliedAsJudged
<1>1. IInv => AppliedAsJudged
  BY DEF IInv
<1>. QED
  BY <1>1, IntakeInvariant, PTL

\* The fact of an applied correction descends from the fact of the applied proposal it
\* revises, whatever other commands appended to the line in between (_current_head,
\* apply_intake_decision).
THEOREM IntakeCorrectionInLine == Spec => []CorrectionInLine
<1>1. ASSUME IInv PROVE CorrectionInLine
  <2>. SUFFICES ASSUME NEW q \in DOMAIN proposals, NEW p, p = proposals[q].parent,
                       p # Nothing, TypedTarget(q), Applied(p), Applied(q)
                PROVE  FactOf(p) \in Line(FactOf(q))
    BY DEF CorrectionInLine
  <2>1. PICK a \in applications : a = ApplicationOf(q) /\ a.proposal = q
    BY DEF Applied, ApplicationsOf, ApplicationOf
  <2>2. /\ a.fact = FactOf(q) /\ a.fact \in DOMAIN facts
        /\ facts[a.fact].previous = proposals[q].previous
    <3>1. AppliedAsJudged /\ References
      BY <1>1 DEF IInv
    <3>2. facts[a.fact] = [target |-> proposals[q].target, previous |-> proposals[q].previous]
      BY <2>1, <3>1 DEF AppliedAsJudged
    <3>3. a.fact = FactOf(q) /\ a.fact \in DOMAIN facts
      BY <2>1, <3>1 DEF References, FactOf
    <3>. QED
      BY <3>2, <3>3
  <2>3. proposals[q].previous \in DOMAIN facts /\ FactOf(p) \in Line(proposals[q].previous)
    BY <1>1 DEF IInv, Continued, Continues
  <2>4. proposals[q].previous # Nothing
    BY <1>1, <2>3 DEF IInv, TypeOK, Nothing
  <2>. QED
    BY <2>2, <2>3, <2>4, LineThrough
<1>. QED
  BY <1>1, IntakeInvariant, PTL

=============================================================================
