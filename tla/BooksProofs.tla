----------------------------- MODULE BooksProofs -----------------------------
(***************************************************************************)
(* What holds of the books for every set of documents, workbooks,           *)
(* submissions and periods and any number of mutations: well-formed tables, *)
(* one transaction per external id, no twins from workbooks, a sound        *)
(* pairing of transfers, settlements supported by their sources, close      *)
(* histories validate_close accepts, previews of directories that give what *)
(* their runs give, a matcher whose pruned searches find what full ones do, *)
(* and proposals that can be confirmed as offered.                          *)
(***************************************************************************)
EXTENDS Books, FiniteSetTheorems, SequenceTheorems, WellFoundedInduction, TLAPS

----------------------------------------------------------------------------
(* Month closes.                                                           *)

\* The revisions of a period are numbered without gaps and one close each,
\* and every pin and reopening lies in the past.
ClosesOnce(period) ==
    /\ IsFiniteSet(ClosesOf(period))
    /\ {c.revision : c \in ClosesOf(period)} = 1..Cardinality(ClosesOf(period))
    /\ \A c, d \in ClosesOf(period) : c.revision = d.revision => c = d
CloseInv ==
    /\ revision \in Nat
    /\ \A period \in Periods : ClosesOnce(period)
    /\ \A c \in closes : /\ c.period \in Periods
                         /\ c.predecessor = c.revision - 1
                         /\ c.dataset \in Nat /\ c.dataset < revision
    /\ \A r \in reopened : /\ r.period \in Periods
                           /\ r.at \in Nat /\ r.at <= revision
                           /\ \E c \in ClosesOf(r.period) :
                                 c.revision = r.revision /\ c.dataset < r.at
    /\ CloseHistoryIsValid

\* The head of a period with n closes is the one numbered n.
LEMMA HeadIsLast ==
    ASSUME NEW period \in Periods, ClosesOnce(period)
    PROVE  LET n == Cardinality(ClosesOf(period))
           IN /\ n \in Nat
              /\ Heads(period) = {} <=> n = 0
              /\ \A h \in Heads(period) : h.revision = n
              /\ \A c \in ClosesOf(period) : c.revision \in 1..n
              /\ NextRevision(period) = n + 1
<1> DEFINE n == Cardinality(ClosesOf(period))
<1>1. n \in Nat
  BY FS_CardinalityType DEF ClosesOnce
<1>2. \A c \in ClosesOf(period) : c.revision \in 1..n
  BY DEF ClosesOnce
<1>3. CASE n = 0
  <2>1. ClosesOf(period) = {}
    BY <1>2, <1>3
  <2> QED
    BY <1>1, <1>3, <2>1 DEF Heads, NextRevision
<1>4. CASE n # 0
  <2>1. PICK last \in ClosesOf(period) : last.revision = n
    BY <1>1, <1>4 DEF ClosesOnce
  <2>2. last \in Heads(period)
    BY <1>1, <1>2, <2>1 DEF Heads
  <2>3. ASSUME NEW h \in Heads(period) PROVE h.revision = n
    BY <1>1, <1>2, <2>1 DEF Heads
  <2>4. NextRevision(period) = (CHOOSE h \in Heads(period) : TRUE).revision + 1
    BY <2>2 DEF NextRevision
  <2> QED
    BY <1>1, <1>2, <1>4, <2>2, <2>3, <2>4
<1> QED
  BY <1>3, <1>4

LEMMA ClosesStart == Init => CloseInv
<1> SUFFICES ASSUME Init PROVE CloseInv
  OBVIOUS
<1>1. \A period : ClosesOf(period) = {}
  BY DEF Init, ClosesOf
<1>2. IsFiniteSet({}) /\ Cardinality({}) = 0
  BY FS_EmptySet
<1>3. \A period \in Periods : ClosesOnce(period)
  BY <1>1, <1>2 DEF ClosesOnce
<1> QED
  BY <1>1, <1>2, <1>3 DEF Init, CloseInv, CloseHistoryIsValid, ClosesOnce

LEMMA ClosePeriodKeeps ==
    ASSUME CloseInv, NEW period \in Periods, ClosePeriod(period)
    PROVE  CloseInv'
<1> DEFINE n == Cardinality(ClosesOf(period))
<1>1. PICK new : new = NewClose(period, revision)
  OBVIOUS
<1>2. /\ revision \in Nat /\ revision' = revision + 1
      /\ closes' = closes \cup {new}
      /\ reopened' = reopened
      /\ \A h \in Heads(period) : Reopened(h)
  BY <1>1 DEF ClosePeriod, Mutation, CanClose, CloseInv
<1>3. /\ n \in Nat
      /\ Heads(period) = {} <=> n = 0
      /\ \A h \in Heads(period) : h.revision = n
      /\ \A c \in ClosesOf(period) : c.revision \in 1..n
      /\ NextRevision(period) = n + 1
  BY HeadIsLast DEF CloseInv
<1>4. /\ new.period = period /\ new.revision = n + 1 /\ new.predecessor = n
      /\ new.dataset = revision
      /\ new.diff = Diff(Heads(period), Facts(period), revision)
  BY <1>1, <1>3 DEF NewClose
<1>5. /\ ClosesOf(period)' = ClosesOf(period) \cup {new}
      /\ \A other \in Periods \ {period} : ClosesOf(other)' = ClosesOf(other)
      /\ \A other : ClosesOf(other) \subseteq ClosesOf(other)'
  BY <1>2, <1>4 DEF ClosesOf
<1>6. new \notin ClosesOf(period)
  BY <1>3, <1>4
<1>7. ClosesOnce(period)'
  <2>1. /\ IsFiniteSet(ClosesOf(period)')
        /\ Cardinality(ClosesOf(period)') = n + 1
    BY <1>5, <1>6, FS_AddElement DEF CloseInv, ClosesOnce
  <2>2. {c.revision : c \in ClosesOf(period)} = 1..n
    BY DEF CloseInv, ClosesOnce
  <2>3. {c.revision : c \in ClosesOf(period)'} = 1..(n + 1)
    BY <1>3, <1>4, <1>5, <2>2
  <2>4. \A c, d \in ClosesOf(period)' : c.revision = d.revision => c = d
    BY <1>3, <1>4, <1>5 DEF CloseInv, ClosesOnce
  <2> QED
    BY <2>1, <2>3, <2>4 DEF ClosesOnce
<1>8. ASSUME NEW other \in Periods PROVE ClosesOnce(other)'
  <2>1. CASE other = period
    BY <1>7, <2>1
  <2>2. CASE other # period
    <3>1. ClosesOf(other)' = ClosesOf(other) /\ ClosesOnce(other)
      BY <1>5, <2>2 DEF CloseInv
    <3> QED
      BY <3>1 DEF ClosesOnce
  <2> QED
    BY <2>1, <2>2
<1>9. \A c \in closes' : /\ c.period \in Periods
                         /\ c.predecessor = c.revision - 1
                         /\ c.dataset \in Nat /\ c.dataset < revision'
  BY <1>2, <1>3, <1>4 DEF CloseInv
<1>10. \A r \in reopened' : /\ r.period \in Periods
                            /\ r.at \in Nat /\ r.at <= revision'
                            /\ \E c \in ClosesOf(r.period)' :
                                  c.revision = r.revision /\ c.dataset < r.at
  BY <1>2, <1>5 DEF CloseInv
<1>11. ASSUME NEW c \in closes', NEW d \in closes',
              c.period = d.period, d.predecessor = c.revision
       PROVE  /\ "dataset_revision" \in d.diff
              /\ \E r \in reopened' : /\ r.period = c.period /\ r.revision = c.revision
                                      /\ c.dataset < r.at /\ r.at <= d.dataset
  <2>1. CASE c \in closes /\ d \in closes
    BY <1>2, <1>11, <2>1 DEF CloseInv, CloseHistoryIsValid
  <2>2. CASE c \in closes /\ d = new
    <3>1. c \in ClosesOf(period) /\ c.revision = n
      BY <1>4, <1>11, <2>2 DEF ClosesOf
    <3>2. c \in Heads(period)
      BY <1>3, <3>1 DEF Heads
    <3>3. PICK r \in reopened : r.period = c.period /\ r.revision = c.revision
      BY <1>2, <3>2 DEF Reopened
    <3>4. c.dataset # revision /\ c.dataset \in Nat
      BY <1>2, <2>2 DEF CloseInv
    <3>5. "dataset_revision" \in new.diff
      BY <1>4, <3>2, <3>4 DEF Diff
    <3>6. c.dataset < r.at
      <4>1. PICK b \in ClosesOf(period) : b.revision = r.revision /\ b.dataset < r.at
        BY <1>2, <3>1, <3>3 DEF CloseInv, ClosesOf
      <4>2. b = c
        BY <3>1, <3>3, <4>1 DEF CloseInv, ClosesOnce
      <4> QED
        BY <4>1, <4>2
    <3> QED
      BY <1>2, <1>4, <2>2, <3>3, <3>5, <3>6 DEF CloseInv
  <2>3. CASE c = new /\ d = new
    BY <1>3, <1>4, <1>11, <2>3
  <2>4. CASE c = new /\ d \in closes /\ d # new
    <3>1. d \in ClosesOf(period) /\ d.predecessor = d.revision - 1
      BY <1>4, <1>11, <2>4 DEF ClosesOf, CloseInv
    <3> QED
      BY <1>3, <1>4, <1>11, <2>4, <3>1
  <2> QED
    BY <1>2, <1>11, <2>1, <2>2, <2>3, <2>4
<1>12. CloseHistoryIsValid'
  BY <1>8, <1>10, <1>11 DEF CloseHistoryIsValid, ClosesOnce
<1> QED
  BY <1>2, <1>8, <1>9, <1>10, <1>12 DEF CloseInv

LEMMA ReopenPeriodKeeps ==
    ASSUME CloseInv, NEW period \in Periods, ReopenPeriod(period)
    PROVE  CloseInv'
<1>1. PICK new : new = Reopening(period, revision')
  OBVIOUS
<1>2. /\ revision \in Nat /\ revision' = revision + 1
      /\ closes' = closes
      /\ reopened' = reopened \cup {new}
      /\ Heads(period) # {}
  BY <1>1 DEF ReopenPeriod, Mutation, CanReopen, CloseInv
<1>3. PICK head \in Heads(period) : TRUE
  BY <1>2
<1>4. /\ head \in ClosesOf(period)
      /\ new.period = period /\ new.revision = head.revision /\ new.at = revision + 1
  <2>1. head.revision = Cardinality(ClosesOf(period)) /\ head.revision \in Nat
    BY <1>3, HeadIsLast DEF CloseInv
  <2>2. NextRevision(period) = Cardinality(ClosesOf(period)) + 1
    BY HeadIsLast DEF CloseInv
  <2> QED
    BY <1>1, <1>2, <1>3, <2>1, <2>2 DEF Reopening, Heads
<1>5. \A p : ClosesOf(p)' = ClosesOf(p)
  BY <1>2 DEF ClosesOf
<1>6. \A p \in Periods : ClosesOnce(p)'
  BY <1>5 DEF CloseInv, ClosesOnce
<1>7. \A c \in closes' : /\ c.period \in Periods
                         /\ c.predecessor = c.revision - 1
                         /\ c.dataset \in Nat /\ c.dataset < revision'
  BY <1>2 DEF CloseInv
<1>8. head.dataset \in Nat /\ head.dataset < revision
  BY <1>4 DEF CloseInv, ClosesOf
<1>9. \A r \in reopened' : /\ r.period \in Periods
                           /\ r.at \in Nat /\ r.at <= revision'
                           /\ \E c \in ClosesOf(r.period)' :
                                 c.revision = r.revision /\ c.dataset < r.at
  BY <1>2, <1>4, <1>5, <1>8 DEF CloseInv
<1>10. CloseHistoryIsValid'
  <2>1. \A c, d \in closes' :
          c.period = d.period /\ d.predecessor = c.revision =>
              /\ "dataset_revision" \in d.diff
              /\ \E r \in reopened' : /\ r.period = c.period /\ r.revision = c.revision
                                      /\ c.dataset < r.at /\ r.at <= d.dataset
    BY <1>2 DEF CloseInv, CloseHistoryIsValid
  <2> QED
    BY <1>6, <1>9, <2>1 DEF CloseHistoryIsValid, ClosesOnce
<1> QED
  BY <1>2, <1>6, <1>7, <1>9, <1>10 DEF CloseInv

\* Every other command leaves the closes alone.
LEMMA OthersKeepCloses ==
    ASSUME CloseInv, revision' = revision \/ revision' = revision + 1, UNCHANGED closed
    PROVE  CloseInv'
<1>1. /\ closes' = closes /\ reopened' = reopened
      /\ revision \in Nat /\ revision' \in Nat /\ revision <= revision'
  BY DEF CloseInv, closed
<1>2. \A p : ClosesOf(p)' = ClosesOf(p)
  BY <1>1 DEF ClosesOf
<1>3. \A p \in Periods : ClosesOnce(p)'
  BY <1>2 DEF CloseInv, ClosesOnce
<1>4. \A c \in closes' : /\ c.period \in Periods
                         /\ c.predecessor = c.revision - 1
                         /\ c.dataset \in Nat /\ c.dataset < revision'
  BY <1>1 DEF CloseInv
<1>5. \A r \in reopened' : /\ r.period \in Periods
                           /\ r.at \in Nat /\ r.at <= revision'
                           /\ \E c \in ClosesOf(r.period)' :
                                 c.revision = r.revision /\ c.dataset < r.at
  BY <1>1, <1>2 DEF CloseInv
<1>6. CloseHistoryIsValid'
  BY <1>1, <1>2 DEF CloseInv, CloseHistoryIsValid
<1> QED
  BY <1>1, <1>3, <1>4, <1>5, <1>6 DEF CloseInv

LEMMA ClosesStep == CloseInv /\ [Next]_vars => CloseInv'
<1> SUFFICES ASSUME CloseInv, [Next]_vars PROVE CloseInv'
  OBVIOUS
<1>1. ASSUME NEW period \in Periods, ClosePeriod(period) PROVE CloseInv'
  BY <1>1, ClosePeriodKeeps
<1>2. ASSUME NEW period \in Periods, ReopenPeriod(period) PROVE CloseInv'
  BY <1>2, ReopenPeriodKeeps
<1>3. ASSUME NEW k, NEW a, NEW previous, BindAccount(k, a, previous) PROVE CloseInv'
  BY <1>3, OthersKeepCloses DEF BindAccount, Mutation
<1>4. ASSUME NEW file, ImportFile(file) PROVE CloseInv'
  BY <1>4, OthersKeepCloses DEF ImportFile, Mutation
<1>5. CASE RecomputeTransfers
  BY <1>5, OthersKeepCloses DEF RecomputeTransfers, Mutation
<1>6. ASSUME NEW items, ImportEvidence(items) PROVE CloseInv'
  BY <1>6, OthersKeepCloses DEF ImportEvidence, Mutation
<1>7. ASSUME NEW eids, NEW pids, ConfirmAllocation(eids, pids) PROVE CloseInv'
  BY <1>7, OthersKeepCloses DEF ConfirmAllocation, Mutation
<1>8. ASSUME NEW a, WithdrawAllocation(a) PROVE CloseInv'
  BY <1>8, OthersKeepCloses DEF WithdrawAllocation, Mutation
<1>9. CASE UNCHANGED vars
  BY <1>9, OthersKeepCloses DEF vars
<1> QED
  BY <1>1, <1>2, <1>3, <1>4, <1>5, <1>6, <1>7, <1>8, <1>9 DEF Next

\* validate_close accepts every history of closes and reopenings, for any
\* periods and any number of mutations between them.
THEOREM BooksCloseHistoryIsValid == Spec => []CloseHistoryIsValid
<1>1. CloseInv => CloseHistoryIsValid
  BY DEF CloseInv
<1> QED
  BY <1>1, ClosesStart, ClosesStep, PTL DEF Spec

----------------------------------------------------------------------------
(* Tables.                                                                 *)

IsTable(s) == Len(s) \in Nat /\ s = [i \in 1..Len(s) |-> s[i]]

LEMMA TypedTable ==
    ASSUME NEW S, NEW s \in Seq(S)
    PROVE  IsTable(s)
BY DEF IsTable

LEMMA AppendedRow ==
    ASSUME NEW s, IsTable(s), NEW e
    PROVE  /\ IsTable(Append(s, e))
           /\ DOMAIN Append(s, e) = DOMAIN s \cup {Len(s) + 1}
           /\ Len(s) + 1 \notin DOMAIN s
           /\ \A i \in DOMAIN s : Append(s, e)[i] = s[i]
           /\ Append(s, e)[Len(s) + 1] = e
<1> DEFINE S == {s[i] : i \in 1..Len(s)} \cup {e}
<1>1. s \in Seq(S)
  BY DEF IsTable
<1>2. e \in S
  OBVIOUS
<1> HIDE DEF S
<1>3. Append(s, e) \in Seq(S)
  BY <1>1, <1>2
<1>4. DOMAIN s = 1..Len(s) /\ Len(s) \in Nat
  BY <1>1
<1>5. /\ Len(Append(s, e)) = Len(s) + 1
      /\ DOMAIN Append(s, e) = 1..(Len(s) + 1)
      /\ \A i \in 1..Len(s) : Append(s, e)[i] = s[i]
      /\ Append(s, e)[Len(s) + 1] = e
  BY <1>1, <1>2
<1>6. IsTable(Append(s, e))
  BY <1>3, TypedTable
<1> QED
  BY <1>4, <1>5, <1>6

LEMMA AppendedRows ==
    ASSUME NEW S, NEW s \in Seq(S), NEW n \in Nat, NEW f \in [1..n -> S]
    PROVE  /\ s \o f \in Seq(S)
           /\ Len(s \o f) = Len(s) + n
           /\ DOMAIN s = 1..Len(s) /\ DOMAIN (s \o f) = 1..(Len(s) + n)
           /\ \A i \in DOMAIN s : (s \o f)[i] = s[i]
           /\ \A i \in DOMAIN (s \o f) \ DOMAIN s :
                 i - Len(s) \in 1..n /\ (s \o f)[i] = f[i - Len(s)]
<1>1. f \in Seq(S) /\ Len(f) = n
  OBVIOUS
<1> QED
  BY <1>1

\* The n-th member of a finite set of numbers is one of them.
LEMMA NthIsAMember ==
    ASSUME NEW I, I \subseteq Nat, IsFiniteSet(I), NEW n \in 1..Cardinality(I)
    PROVE  Nth(I, n) \in I /\ Cardinality({j \in I : j <= Nth(I, n)}) = n
<1> DEFINE below(i) == {j \in I : j <= i}
           f == [i \in I |-> Cardinality(below(i))]
           T == 1..Cardinality(I)
<1>1. Cardinality(I) \in Nat
  BY FS_CardinalityType
<1>2. ASSUME NEW i \in I
      PROVE  /\ IsFiniteSet(below(i))
             /\ Cardinality(below(i)) \in T
  <2>1. IsFiniteSet(below(i)) /\ Cardinality(below(i)) <= Cardinality(I)
    BY FS_Subset
  <2>2. i \in below(i)
    OBVIOUS
  <2>3. Cardinality(below(i)) \in Nat /\ Cardinality(below(i)) # 0
    BY <2>1, <2>2, FS_CardinalityType, FS_EmptySet
  <2> QED
    BY <1>1, <2>1, <2>3
<1>3. ASSUME NEW i \in I, NEW j \in I, i < j PROVE Cardinality(below(i)) < Cardinality(below(j))
  <2>0. \A k \in I : k \in Nat
    OBVIOUS
  <2>1. below(i) \subseteq below(j) /\ j \in below(j) /\ j \notin below(i)
    <3>1. j \in below(j) /\ j \notin below(i)
      BY <1>3, <2>0
    <3>2. ASSUME NEW k \in below(i) PROVE k \in below(j)
      <4>1. k \in I /\ k <= i
        OBVIOUS
      <4>2. k <= j
        BY <1>3, <2>0, <4>1
      <4> QED
        BY <4>1, <4>2
    <3> QED
      BY <3>1, <3>2
  <2>2. /\ Cardinality(below(i)) <= Cardinality(below(j))
        /\ Cardinality(below(i)) = Cardinality(below(j)) => below(i) = below(j)
    BY <1>2, <2>1, FS_Subset
  <2>3. Cardinality(below(i)) \in Nat /\ Cardinality(below(j)) \in Nat
    BY <1>2, FS_CardinalityType
  <2>4. below(i) # below(j)
    BY <2>1
  <2> QED
    BY <2>2, <2>3, <2>4
<1>4. f \in [I -> T]
  BY <1>2
<1>5. \A i, j \in I : f[i] = f[j] => i = j
  <2>1. \A i, j \in I : i < j \/ j < i \/ i = j
    OBVIOUS
  <2>2. \A i \in I : f[i] \in Nat
    BY <1>1, <1>4
  <2> QED
    BY <1>3, <2>1, <2>2
<1>6. f \in Injection(I, T)
  BY <1>4, <1>5 DEF Injection, IsInjective
<1>7. IsFiniteSet(T) /\ Cardinality(T) = Cardinality(I)
  BY <1>1, FS_Interval
<1>8. f \in Surjection(I, T)
  BY <1>6, <1>7, FS_Injection
<1>9. \E i \in I : Cardinality(below(i)) = n
  BY <1>8 DEF Surjection
<1> QED
  BY <1>9 DEF Nth

LEMMA FirstMember ==
    ASSUME NEW I, I \subseteq Nat, IsFiniteSet(I), I # {}
    PROVE  \E k \in I : \A j \in I : k <= j
<1> DEFINE k == Nth(I, 1)
           below == {j \in I : j <= k}
<1>1. 1 \in 1..Cardinality(I)
  <2>1. Cardinality(I) \in Nat /\ Cardinality(I) # 0
    BY FS_CardinalityType, FS_EmptySet
  <2> QED
    BY <2>1
<1>2. k \in I /\ Cardinality(below) = 1
  BY <1>1, NthIsAMember
<1>3. IsFiniteSet(below)
  BY FS_Subset
<1>4. PICK x : below = {x}
  BY <1>2, <1>3, FS_Singleton
<1> HIDE DEF k
<1>5. ASSUME NEW j \in I PROVE k <= j
  <2>1. k \in below /\ (j <= k => j \in below)
    BY <1>2
  <2> QED
    BY <1>2, <1>4, <2>1
<1> QED
  BY <1>2, <1>5

----------------------------------------------------------------------------
(* The transaction table.                                                  *)

\* Rows stay where they are and keep everything but their derived state.
RowsStay ==
    /\ DOMAIN transactions \subseteq DOMAIN transactions'
    /\ \A t \in DOMAIN transactions :
          /\ transactions'[t].amount = transactions[t].amount
          /\ transactions'[t].currency = transactions[t].currency

IsStagedDocument(d) ==
    /\ d \in [source : STRING, rows : Seq(StatementRows)]
    /\ \A i, j \in DOMAIN d.rows : d.rows[i].external = d.rows[j].external => i = j

LEMMA DeclaredDocument ==
    ASSUME NEW document \in Documents
    PROVE  IsStagedDocument(document)
BY BooksAssumption DEF IsStagedDocument

\* The links of a document aimed at one transaction.
LEMMA AimedDocument ==
    ASSUME TypeOK, NEW document \in Documents, NEW t \in DOMAIN transactions
    PROVE  LET d == Aimed(document, t)
           IN /\ IsStagedDocument(d)
              /\ \A i \in DOMAIN d.rows : d.rows[i].action = "link" => d.rows[i].target = t
<1>1. IsStagedDocument(document)
  BY DeclaredDocument
<1>2. t \in Nat
  BY DEF TypeOK
<1>3. document.rows \in Seq(StatementRows) /\ document.source \in STRING
  BY <1>1 DEF IsStagedDocument
<1> DEFINE rows == [i \in DOMAIN document.rows |->
                      IF document.rows[i].action = "link"
                      THEN [document.rows[i] EXCEPT !.target = t] ELSE document.rows[i]]
<1>4. ASSUME NEW i \in DOMAIN document.rows
      PROVE  /\ rows[i] \in StatementRows /\ rows[i].external = document.rows[i].external
             /\ rows[i].action = "link" => rows[i].target = t
  <2>1. document.rows[i] \in StatementRows
    BY <1>3
  <2> QED
    BY <1>2, <2>1 DEF StatementRows
<1>5. DOMAIN rows = 1..Len(document.rows) /\ Len(document.rows) \in Nat
  BY <1>3
<1>6. rows \in Seq(StatementRows) /\ DOMAIN rows = DOMAIN document.rows
  <2>1. rows \in [1..Len(document.rows) -> StatementRows]
    BY <1>4, <1>5
  <2>2. DOMAIN rows = DOMAIN document.rows
    OBVIOUS
  <2> HIDE DEF rows
  <2> QED
    BY <1>5, <2>1, <2>2
<1>7. PICK d : d = Aimed(document, t)
  OBVIOUS
<1>8. d = [document EXCEPT !.rows = rows]
  BY <1>7 DEF Aimed
<1> HIDE DEF rows
<1>9. d.rows = rows /\ d \in [source : STRING, rows : Seq(StatementRows)]
  BY <1>1, <1>6, <1>8 DEF IsStagedDocument
<1>10. IsStagedDocument(d)
  BY <1>1, <1>4, <1>6, <1>9 DEF IsStagedDocument
<1> QED
  BY <1>4, <1>6, <1>7, <1>9, <1>10

LEMMA StagedDocument ==
    ASSUME TypeOK, NEW document \in Documents, NEW d \in Staged(document)
    PROVE  IsStagedDocument(d)
<1>1. CASE d = document
  BY <1>1, DeclaredDocument
<1>2. CASE d # document
  <2>1. PICK t \in DOMAIN transactions : d = Aimed(document, t)
    BY <1>2 DEF Staged
  <2> QED
    BY <2>1, AimedDocument
<1> QED
  BY <1>1, <1>2

LEMMA BoundAccountIsAnAccount ==
    ASSUME TypeOK, NEW k, Confirmed(k)
    PROVE  BoundAccount(k) \in AccountIds
<1>1. BoundAccounts(k) # {}
  BY FS_EmptySet DEF Confirmed
<1>2. BoundAccounts(k) \subseteq AccountIds
  <2>1. bindings \in Seq(Bindings)
    BY DEF TypeOK
  <2>2. ASSUME NEW b \in DOMAIN bindings PROVE bindings[b].account \in AccountIds
    <3>1. bindings[b] \in Bindings
      BY <2>1
    <3> QED
      BY <3>1 DEF Bindings
  <2> QED
    BY <2>2 DEF BoundAccounts, HeadBindings
<1> QED
  BY <1>1, <1>2 DEF BoundAccount

\* Members of a set of places in a sequence.
LEMMA NthPlace ==
    ASSUME NEW S, NEW s \in Seq(S), NEW I, I \subseteq DOMAIN s
    PROVE  /\ Cardinality(I) \in Nat
           /\ \A n \in 1..Cardinality(I) : Nth(I, n) \in I
<1>1. DOMAIN s = 1..Len(s) /\ Len(s) \in Nat
  OBVIOUS
<1>2. IsFiniteSet(I) /\ I \subseteq Nat
  <2>1. IsFiniteSet(1..Len(s))
    BY <1>1, FS_Interval
  <2> QED
    BY <1>1, <2>1, FS_Subset
<1> QED
  BY <1>2, NthIsAMember, FS_CardinalityType

LEMMA CreatedRows ==
    ASSUME TypeOK, NEW d, IsStagedDocument(d)
    PROVE  LET I == Created(tables, NoPreview, d)
           IN /\ Cardinality(I) \in Nat
              /\ CreatedTransactions(d, I) \in [1..Cardinality(I) -> Transactions]
              /\ \A n \in 1..Cardinality(I) :
                    /\ CreatedTransactions(d, I)[n].group = {}
                    /\ CreatedTransactions(d, I)[n].transfer = "null"
                    /\ CreatedTransactions(d, I)[n].origin = "statement"
<1> DEFINE I == Created(tables, NoPreview, d)
<1>1. d.rows \in Seq(StatementRows) /\ I \subseteq DOMAIN d.rows
  BY DEF Created, IsStagedDocument
<1>2. Cardinality(I) \in Nat /\ \A n \in 1..Cardinality(I) : Nth(I, n) \in I
  BY <1>1, NthPlace
<1>3. ASSUME NEW i \in I
      PROVE  /\ StatementTransaction(d.rows[i]) \in Transactions
             /\ StatementTransaction(d.rows[i]).group = {}
             /\ StatementTransaction(d.rows[i]).transfer = "null"
             /\ StatementTransaction(d.rows[i]).origin = "statement"
  <2>1. PICK row \in StatementRows : row = d.rows[i]
    BY <1>1
  <2>2. Confirmed(row.key)
    BY <2>1 DEF Created, Fate
  <2>3. BoundAccount(row.key) \in AccountIds
    BY <2>2, BoundAccountIsAnAccount
  <2>4. /\ StatementTransaction(row) \in Transactions
        /\ StatementTransaction(row).group = {}
        /\ StatementTransaction(row).transfer = "null"
        /\ StatementTransaction(row).origin = "statement"
    BY <2>3 DEF StatementTransaction, StatementRows, Transactions, Flags
  <2> QED
    BY <2>1, <2>4
<1> DEFINE new == CreatedTransactions(d, I)
<1>4. new = [n \in 1..Cardinality(I) |-> StatementTransaction(d.rows[Nth(I, n)])]
  BY DEF CreatedTransactions
<1> HIDE DEF I, new
<1>5. new \in [1..Cardinality(I) -> Transactions]
  BY <1>2, <1>3, <1>4
<1>6. ASSUME NEW n \in 1..Cardinality(I)
      PROVE  new[n].group = {} /\ new[n].transfer = "null" /\ new[n].origin = "statement"
  <2>1. Nth(I, n) \in I /\ new[n] = StatementTransaction(d.rows[Nth(I, n)])
    BY <1>2, <1>4
  <2> QED
    BY <1>3, <2>1
<1> QED
  BY <1>2, <1>5, <1>6 DEF I, new

LEMMA InsertedRows ==
    ASSUME TypeOK, NEW w \in Workbooks
    PROVE  LET I == {i \in DOMAIN w.rows : Disposition(w.rows[i], transactions) = "inserted"}
               new == Inserted(w, transactions, Len(transactions))
           IN /\ Cardinality(I) \in Nat
              /\ new \in [1..Cardinality(I) -> Transactions]
              /\ \A n \in 1..Cardinality(I) :
                    /\ Nth(I, n) \in I
                    /\ new[n] = WorkbookTransaction(w.rows[Nth(I, n)], Len(transactions) + n)
                    /\ new[n].group = {} /\ new[n].transfer = "null"
<1> DEFINE I == {i \in DOMAIN w.rows : Disposition(w.rows[i], transactions) = "inserted"}
           new == Inserted(w, transactions, Len(transactions))
<1>1. w.rows \in Seq(WorkbookRows) /\ I \subseteq DOMAIN w.rows
  BY BooksAssumption
<1>2. Cardinality(I) \in Nat /\ \A n \in 1..Cardinality(I) : Nth(I, n) \in I
  BY <1>1, NthPlace
<1>3. ASSUME NEW i \in I, NEW t \in Nat
      PROVE  /\ WorkbookTransaction(w.rows[i], t) \in Transactions
             /\ WorkbookTransaction(w.rows[i], t).group = {}
             /\ WorkbookTransaction(w.rows[i], t).transfer = "null"
  <2>1. PICK row \in WorkbookRows : row = w.rows[i]
    BY <1>1
  <2>2. [row.clock EXCEPT !.precision = StoredPrecision(row)] \in Clocks
    BY DEF StoredPrecision, WorkbookRows, Clocks, Rank
  <2>3. (IF Confirmed(row.key) THEN BoundAccount(row.key) ELSE OwnAccount(t))
            \in AccountIds
    BY BoundAccountIsAnAccount DEF OwnAccount, AccountIds
  <2> QED
    BY <2>1, <2>2, <2>3 DEF WorkbookTransaction, Transactions, WorkbookRows, Flags
<1>4. Len(transactions) \in Nat
  BY DEF TypeOK
<1>5. new = [n \in 1..Cardinality(I) |->
               WorkbookTransaction(w.rows[Nth(I, n)], Len(transactions) + n)]
  BY DEF Inserted
<1> HIDE DEF I, new
<1>6. new \in [1..Cardinality(I) -> Transactions]
  BY <1>2, <1>3, <1>4, <1>5
<1>7. ASSUME NEW n \in 1..Cardinality(I) PROVE new[n].group = {} /\ new[n].transfer = "null"
  <2>1. /\ Nth(I, n) \in I /\ Len(transactions) + n \in Nat
        /\ new[n] = WorkbookTransaction(w.rows[Nth(I, n)], Len(transactions) + n)
    BY <1>2, <1>4, <1>5
  <2> QED
    BY <1>3, <2>1
<1> QED
  BY <1>2, <1>5, <1>6, <1>7 DEF I, new

----------------------------------------------------------------------------
(* What an import does to the tables.                                      *)

\* The rows that name an external id, and the transactions they are linked to.
RowsNaming(source, external) ==
    {r \in records : r.source = source /\ r.content.external = external}
LinkedBy(source, external) ==
    {r.transaction : r \in {q \in RowsNaming(source, external) : q.transaction # None}}

LEMMA KnownFromRecords ==
    ASSUME NEW source, NEW external
    PROVE  LET known == Known(tables, NoPreview, source, external)
           IN /\ known.contents = {r.content : r \in RowsNaming(source, external)}
              /\ known.transaction \in {None} \cup LinkedBy(source, external)
              /\ known.transaction = None <=> LinkedBy(source, external) = {}
<1> DEFINE known == Known(tables, NoPreview, source, external)
           linked == LinkedBy(source, external)
<1>1. DOMAIN NoPreview.mappings = {} /\ tables.records = records
  BY DEF NoPreview, tables
<1>2. {m \in DOMAIN NoPreview.mappings : m = <<source, external>>} = {}
  BY <1>1
<1>3. known.contents = {r.content : r \in RowsNaming(source, external)}
  BY <1>1, <1>2 DEF Known, RowsNaming
<1>4. known.transaction = IF linked # {} THEN CHOOSE t \in linked : TRUE ELSE None
  BY <1>1, <1>2 DEF Known, LinkedBy, RowsNaming
<1>5. None \notin linked
  BY DEF LinkedBy
<1> HIDE DEF known, linked
<1> QED
  BY <1>3, <1>4, <1>5 DEF known, linked

\* A document that is not refused has no row in error.
LEMMA NoRowFails ==
    ASSUME NEW T, NEW P, NEW d, DOMAIN d.rows \subseteq Nat, IsFiniteSet(DOMAIN d.rows),
           Refusals(T, P, d) = {}, NEW i \in DOMAIN d.rows
    PROVE  RowErrors(T, P, d, d.rows[i]) = {}
<1>1. PICK errors : errors = [j \in DOMAIN d.rows |-> RowErrors(T, P, d, d.rows[j])]
  OBVIOUS
<1> DEFINE failing == {j \in DOMAIN d.rows : errors[j] # {}}
           first == {k \in failing : \A j \in failing : k <= j}
<1>2. Refusals(T, P, d) = UNION {errors[j] : j \in first}
  BY <1>1 DEF Refusals
<1>3. CASE failing = {}
  BY <1>1, <1>3
<1>4. CASE failing # {}
  <2>1. failing \subseteq Nat /\ IsFiniteSet(failing)
    BY FS_Subset
  <2> HIDE DEF failing
  <2>2. PICK k \in failing : \A j \in failing : k <= j
    BY <1>4, <2>1, FirstMember
  <2>3. k \in first
    BY <2>2
  <2>4. errors[k] # {}
    BY <2>2 DEF failing
  <2> HIDE DEF first
  <2> QED
    BY <1>2, <2>3, <2>4
<1> QED
  BY <1>3, <1>4

LEMMA NoRowInError ==
    ASSUME NEW d, IsStagedDocument(d), Refusals(tables, NoPreview, d) = {},
           NEW i \in DOMAIN d.rows
    PROVE  RowErrors(tables, NoPreview, d, d.rows[i]) = {}
<1>1. DOMAIN d.rows = 1..Len(d.rows) /\ Len(d.rows) \in Nat
  BY DEF IsStagedDocument
<1>2. DOMAIN d.rows \subseteq Nat /\ IsFiniteSet(DOMAIN d.rows)
  BY <1>1, FS_Interval
<1>3. PICK T, P : T = tables /\ P = NoPreview
  OBVIOUS
<1> QED
  BY <1>2, <1>3, NoRowFails

LEMMA StatementImport ==
    ASSUME NEW d, ImportFile(File("statement", d))
    PROVE  /\ Refusals(tables, NoPreview, d) = {}
           /\ records' = records \cup
                {[source |-> d.source, content |-> Content(d.rows[i]),
                  transaction |-> TransactionOf(tables, NoPreview, d, i, Len(transactions))] :
                     i \in DOMAIN d.rows}
           /\ transactions' =
                transactions \o CreatedTransactions(d, Created(tables, NoPreview, d))
           /\ UNCHANGED <<bindings, settled, closed>>
<1>1. Import(tables, File("statement", d)) = ImportStatement(tables, d)
  BY DEF Import, IsStatement, File
<1>2. ImportStatement(tables, d).tables # tables
  BY <1>1 DEF ImportFile
<1>3. /\ Refusals(tables, NoPreview, d) = {}
      /\ ImportStatement(tables, d).tables = AppliedTables(tables, d)
  BY <1>2 DEF ImportStatement
<1>4. /\ records' = AppliedTables(tables, d).records
      /\ transactions' = AppliedTables(tables, d).transactions
      /\ UNCHANGED <<bindings, settled, closed>>
  BY <1>1, <1>3 DEF ImportFile
<1>5. tables.records = records /\ tables.transactions = transactions
  BY DEF tables
<1>6. tables = [records |-> records, documents |-> documents, workbooks |-> workbooks,
                transactions |-> transactions]
  BY DEF tables
<1> QED
  BY <1>3, <1>4, <1>5, <1>6 DEF AppliedTables

LEMMA WorkbookImport ==
    ASSUME NEW w, ImportFile(File("workbook", w))
    PROVE  /\ records' = records
           /\ transactions' = transactions \o Inserted(w, transactions, Len(transactions))
           /\ UNCHANGED <<bindings, settled, closed>>
<1>1. Import(tables, File("workbook", w)) = ImportWorkbook(tables, w)
  BY DEF Import, IsStatement, File
<1>2. ImportWorkbook(tables, w).tables # tables
  BY <1>1 DEF ImportFile
<1>3. tables = [records |-> records, documents |-> documents, workbooks |-> workbooks,
                transactions |-> transactions]
  BY DEF tables
<1>4. /\ ImportWorkbook(tables, w).tables.records = records
      /\ ImportWorkbook(tables, w).tables.transactions =
            transactions \o Inserted(w, transactions, Len(transactions))
  BY <1>2, <1>3 DEF ImportWorkbook
<1> QED
  BY <1>1, <1>4 DEF ImportFile

\* New rows at the end of a well-formed table leave it well-formed.
LEMMA TableGrows ==
    ASSUME TypeOK, NEW n \in Nat, NEW f \in [1..n -> Transactions],
           \A i \in 1..n : f[i].group = {}, transactions' = transactions \o f
    PROVE  /\ transactions' \in Seq(Transactions)
           /\ RowsStay
           /\ DOMAIN transactions' = 1..(Len(transactions) + n)
           /\ \A t \in DOMAIN transactions' : transactions'[t].group \subseteq DOMAIN transactions'
<1>1. transactions \in Seq(Transactions)
  BY DEF TypeOK
<1> DEFINE after == transactions \o f
<1>0. /\ after \in Seq(Transactions)
      /\ DOMAIN transactions = 1..Len(transactions)
      /\ DOMAIN after = 1..(Len(transactions) + n)
      /\ \A i \in DOMAIN transactions : after[i] = transactions[i]
      /\ \A i \in DOMAIN after \ DOMAIN transactions :
            i - Len(transactions) \in 1..n /\ after[i] = f[i - Len(transactions)]
  BY <1>1, AppendedRows
<1> HIDE DEF after
<1>2. /\ transactions' \in Seq(Transactions)
      /\ DOMAIN transactions = 1..Len(transactions)
      /\ DOMAIN transactions' = 1..(Len(transactions) + n)
      /\ \A i \in DOMAIN transactions : transactions'[i] = transactions[i]
      /\ \A i \in DOMAIN transactions' \ DOMAIN transactions :
            i - Len(transactions) \in 1..n /\ transactions'[i] = f[i - Len(transactions)]
  BY <1>0 DEF after
<1>3. DOMAIN transactions \subseteq DOMAIN transactions'
  BY <1>1, <1>2
<1>4. RowsStay
  BY <1>2, <1>3 DEF RowsStay
<1>5. ASSUME NEW t \in DOMAIN transactions'
      PROVE  transactions'[t].group \subseteq DOMAIN transactions'
  <2>1. CASE t \in DOMAIN transactions
    <3>1. transactions[t].group \subseteq DOMAIN transactions
      BY <2>1 DEF TypeOK
    <3> QED
      BY <1>2, <1>3, <2>1, <3>1
  <2>2. CASE t \notin DOMAIN transactions
    <3>1. transactions'[t].group = {}
      BY <1>2, <2>2
    <3> QED
      BY <3>1
  <2> QED
    BY <2>1, <2>2
<1> QED
  BY <1>2, <1>4, <1>5

\* What a decided row of a statement refers to is in the table after it.
LEMMA RowRefersToTransaction ==
    ASSUME TypeOK, NEW d, IsStagedDocument(d), Refusals(tables, NoPreview, d) = {},
           NEW i \in DOMAIN d.rows
    PROVE  TransactionOf(tables, NoPreview, d, i, Len(transactions)) \in
             {None} \cup 1..(Len(transactions) + Cardinality(Created(tables, NoPreview, d)))
<1> DEFINE row == d.rows[i]
           I == Created(tables, NoPreview, d)
           fate == Fate(tables, NoPreview, d, row)
           known == Known(tables, NoPreview, d.source, row.external)
           target == TransactionOf(tables, NoPreview, d, i, Len(transactions))
<1> SUFFICES target \in {None} \cup 1..(Len(transactions) + Cardinality(I))
  OBVIOUS
<1>1. /\ DOMAIN transactions = 1..Len(transactions) /\ Len(transactions) \in Nat
      /\ Cardinality(I) \in Nat
  BY CreatedRows DEF TypeOK
<1>2. CASE fate = "reused"
  <2>1. target = known.transaction
    BY <1>2 DEF TransactionOf
  <2>2. known.transaction \in {None} \cup LinkedBy(d.source, row.external)
    BY KnownFromRecords
  <2>3. LinkedBy(d.source, row.external) \subseteq DOMAIN transactions
    BY DEF LinkedBy, RowsNaming, TypeOK
  <2> HIDE DEF known, target, I
  <2> QED
    BY <1>1, <2>1, <2>2, <2>3
<1>3. CASE fate = "linked"
  <2>1. target = row.target
    BY <1>3 DEF TransactionOf
  <2>2. row.action = "link" /\ known.transaction = None
    <3>1. row.action \in {"create", "link", "pending"}
      <4>1. row \in StatementRows
        BY DEF IsStagedDocument
      <4> QED
        BY <4>1 DEF StatementRows
    <3> QED
      BY <1>3, <3>1 DEF Fate
  <2>3. RowErrors(tables, NoPreview, d, row) = {}
    BY NoRowInError
  <2>4. LinkFits(tables, row)
    BY <2>2, <2>3 DEF RowErrors
  <2>5. row.target \in DOMAIN transactions
    BY <2>4 DEF LinkFits, tables
  <2> HIDE DEF target, I
  <2> QED
    BY <1>1, <2>1, <2>5
<1>4. CASE fate = "created"
  <2> DEFINE below == {j \in I : j <= i}
  <2>1. target = Len(transactions) + Cardinality(below)
    BY <1>4 DEF TransactionOf
  <2>2. IsFiniteSet(I)
    <3>1. DOMAIN d.rows = 1..Len(d.rows) /\ Len(d.rows) \in Nat
      BY DEF IsStagedDocument
    <3>2. IsFiniteSet(1..Len(d.rows)) /\ I \subseteq 1..Len(d.rows)
      BY <3>1, FS_Interval DEF Created
    <3> QED
      BY <3>2, FS_Subset
  <2>3. i \in below
    BY <1>4 DEF Created, IsStagedDocument
  <2>4. IsFiniteSet(below) /\ Cardinality(below) <= Cardinality(I)
    BY <2>2, FS_Subset
  <2>5. Cardinality(below) \in Nat /\ Cardinality(below) # 0
    BY <2>3, <2>4, FS_CardinalityType, FS_EmptySet
  <2> HIDE DEF target, below, I
  <2> QED
    BY <1>1, <2>1, <2>4, <2>5
<1>5. CASE fate \notin {"reused", "linked", "created"}
  BY <1>5 DEF TransactionOf
<1> QED
  BY <1>2, <1>3, <1>4, <1>5

LEMMA StatementKeepsTables ==
    ASSUME TypeOK, NEW d, IsStagedDocument(d), ImportFile(File("statement", d))
    PROVE  TypeOK' /\ RowsStay
<1> DEFINE I == Created(tables, NoPreview, d)
           f == CreatedTransactions(d, I)
           rows == {[source |-> d.source, content |-> Content(d.rows[i]),
                     transaction |-> TransactionOf(tables, NoPreview, d, i, Len(transactions))] :
                        i \in DOMAIN d.rows}
<1>1. /\ Refusals(tables, NoPreview, d) = {}
      /\ records' = records \cup rows
      /\ transactions' = transactions \o f
      /\ UNCHANGED <<bindings, settled, closed>>
  BY StatementImport
<1>2. /\ Cardinality(I) \in Nat
      /\ f \in [1..Cardinality(I) -> Transactions]
      /\ \A n \in 1..Cardinality(I) : f[n].group = {}
  BY CreatedRows
<1> HIDE DEF f
<1>3. /\ transactions' \in Seq(Transactions)
      /\ RowsStay
      /\ DOMAIN transactions' = 1..(Len(transactions) + Cardinality(I))
      /\ \A t \in DOMAIN transactions' : transactions'[t].group \subseteq DOMAIN transactions'
  BY <1>1, <1>2, TableGrows
<1>4. \A r \in rows : r.transaction \in {None} \cup DOMAIN transactions'
  BY <1>1, <1>3, RowRefersToTransaction
<1>5. \A r \in records : r.transaction \in {None} \cup DOMAIN transactions'
  BY <1>3 DEF TypeOK, RowsStay
<1>6. revision' \in Nat
  BY DEF ImportFile, Mutation, TypeOK
<1>7. bindings' \in Seq(Bindings) /\ withdrawn' \subseteq DOMAIN allocations'
  BY <1>1 DEF TypeOK, settled
<1> HIDE DEF rows
<1> QED
  BY <1>1, <1>3, <1>4, <1>5, <1>6, <1>7 DEF TypeOK

LEMMA WorkbookKeepsTables ==
    ASSUME TypeOK, NEW w \in Workbooks, ImportFile(File("workbook", w))
    PROVE  TypeOK' /\ RowsStay
<1>1. /\ records' = records
      /\ transactions' = transactions \o Inserted(w, transactions, Len(transactions))
      /\ UNCHANGED <<bindings, settled, closed>>
  BY WorkbookImport
<1>2. PICK n \in Nat :
         /\ Inserted(w, transactions, Len(transactions)) \in [1..n -> Transactions]
         /\ \A i \in 1..n : Inserted(w, transactions, Len(transactions))[i].group = {}
  BY InsertedRows
<1>3. /\ transactions' \in Seq(Transactions)
      /\ RowsStay
      /\ \A t \in DOMAIN transactions' : transactions'[t].group \subseteq DOMAIN transactions'
  BY <1>1, <1>2, TableGrows
<1>4. \A r \in records' : r.transaction \in {None} \cup DOMAIN transactions'
  BY <1>1, <1>3 DEF TypeOK, RowsStay
<1>5. revision' \in Nat
  BY DEF ImportFile, Mutation, TypeOK
<1>6. bindings' \in Seq(Bindings) /\ withdrawn' \subseteq DOMAIN allocations'
  BY <1>1 DEF TypeOK, settled
<1> QED
  BY <1>3, <1>4, <1>5, <1>6 DEF TypeOK

LEMMA RecomputeKeepsTables ==
    ASSUME TypeOK, RecomputeTransfers
    PROVE  TypeOK' /\ RowsStay
<1> DEFINE group(t) == PairOf(Matched, t)
           after(t) == [transactions[t] EXCEPT !.candidate = Flag(TransferLike(t)),
                                               !.transfer = Flag(group(t) # {}),
                                               !.group = group(t)]
<1>1. transactions' = [t \in DOMAIN transactions |-> after(t)]
  BY DEF RecomputeTransfers, Derived
<1>2. transactions \in Seq(Transactions) /\ DOMAIN transactions = 1..Len(transactions)
      /\ Len(transactions) \in Nat
  BY DEF TypeOK
<1>3. \A t : group(t) \subseteq DOMAIN transactions
  BY DEF PairOf
<1>4. \A b : Flag(b) \in Flags
  BY DEF Flag, Flags
<1>5. ASSUME NEW t \in DOMAIN transactions
      PROVE  /\ after(t) \in Transactions
             /\ after(t).group = group(t)
             /\ after(t).amount = transactions[t].amount
             /\ after(t).currency = transactions[t].currency
  <2>1. transactions[t] \in Transactions
    BY <1>2
  <2>2. group(t) \in SUBSET Nat
    BY <1>2, <1>3
  <2>3. Flag(TransferLike(t)) \in Flags /\ Flag(group(t) # {}) \in Flags
    BY <1>4
  <2> HIDE DEF group
  <2> QED
    BY <2>1, <2>2, <2>3 DEF Transactions
<1> HIDE DEF after, group
<1>6. transactions' \in [1..Len(transactions) -> Transactions]
  BY <1>1, <1>2, <1>5
<1>7. transactions' \in Seq(Transactions) /\ DOMAIN transactions' = DOMAIN transactions
  BY <1>2, <1>6
<1>8. RowsStay
  BY <1>1, <1>5, <1>7 DEF RowsStay
<1>9. \A t \in DOMAIN transactions' : transactions'[t].group \subseteq DOMAIN transactions'
  BY <1>1, <1>3, <1>5, <1>7
<1>10. /\ revision' \in Nat
       /\ bindings' \in Seq(Bindings)
       /\ \A r \in records' : r.transaction \in {None} \cup DOMAIN transactions'
       /\ withdrawn' \subseteq DOMAIN allocations'
  BY <1>7 DEF RecomputeTransfers, Mutation, TypeOK, imported, settled
<1> QED
  BY <1>7, <1>8, <1>9, <1>10 DEF TypeOK

\* Commands that leave the transaction table alone.
LEMMA OthersKeepTables ==
    ASSUME TypeOK, revision' \in Nat, UNCHANGED <<imported, transactions>>,
           bindings' \in Seq(Bindings), withdrawn' \subseteq DOMAIN allocations'
    PROVE  TypeOK' /\ RowsStay
BY DEF TypeOK, RowsStay, imported

\* Well-formed tables, with the allocations in a table of their own.
TablesInv == TypeOK /\ IsTable(allocations)

LEMMA TablesStart == Init => TablesInv
<1> SUFFICES ASSUME Init PROVE TablesInv
  OBVIOUS
<1>1. IsTable(<<>>)
  <2>1. <<>> \in Seq({})
    OBVIOUS
  <2> QED
    BY <2>1, TypedTable
<1> QED
  BY <1>1 DEF Init, TablesInv, TypeOK

LEMMA TablesStep ==
    ASSUME TablesInv, [Next]_vars
    PROVE  TablesInv' /\ RowsStay
<1>1. ASSUME NEW k \in Keys,
             NEW a \in Accounts \cup {transactions[t].account : t \in DOMAIN transactions},
             NEW previous \in {None} \cup DOMAIN bindings,
             BindAccount(k, a, previous)
      PROVE  TablesInv' /\ RowsStay
  <2>1. a \in AccountIds
    <3>1. \A t \in DOMAIN transactions : transactions[t].account \in AccountIds
      <4>1. transactions \in Seq(Transactions)
        BY DEF TablesInv, TypeOK
      <4>2. \A t \in DOMAIN transactions : transactions[t] \in Transactions
        BY <4>1
      <4> QED
        BY <4>2 DEF Transactions
    <3> QED
      BY <3>1 DEF AccountIds
  <2>2. previous \in Nat /\ bindings \in Seq(Bindings)
    BY DEF TablesInv, TypeOK, None
  <2>3. [key |-> k, account |-> a, previous |-> previous] \in Bindings
    BY <2>1, <2>2 DEF Bindings
  <2>4. bindings' \in Seq(Bindings)
    BY <1>1, <2>2, <2>3 DEF BindAccount
  <2>5. revision' \in Nat /\ UNCHANGED <<imported, transactions, withdrawn, allocations>>
    BY <1>1 DEF BindAccount, Mutation, TablesInv, TypeOK, settled
  <2>6. IsTable(allocations)' /\ withdrawn' \subseteq DOMAIN allocations'
    BY <2>5 DEF TablesInv, TypeOK, IsTable
  <2> QED
    BY <2>4, <2>5, <2>6, OthersKeepTables DEF TablesInv
<1>2. ASSUME NEW document \in Documents, NEW d \in Staged(document),
             ImportFile(File("statement", d))
      PROVE  TablesInv' /\ RowsStay
  <2>1. IsStagedDocument(d)
    BY StagedDocument DEF TablesInv
  <2>2. IsTable(allocations)'
    BY <1>2, StatementImport DEF settled, TablesInv, IsTable
  <2> QED
    BY <1>2, <2>1, <2>2, StatementKeepsTables DEF TablesInv
<1>3. ASSUME NEW w \in Workbooks, ImportFile(File("workbook", w))
      PROVE  TablesInv' /\ RowsStay
  <2>1. IsTable(allocations)'
    BY <1>3, WorkbookImport DEF settled, TablesInv, IsTable
  <2> QED
    BY <1>3, <2>1, WorkbookKeepsTables DEF TablesInv
<1>4. ASSUME RecomputeTransfers PROVE TablesInv' /\ RowsStay
  <2>1. IsTable(allocations)'
    BY <1>4 DEF RecomputeTransfers, settled, TablesInv, IsTable
  <2> QED
    BY <1>4, <2>1, RecomputeKeepsTables DEF TablesInv
<1>5. ASSUME NEW items, ImportEvidence(items) PROVE TablesInv' /\ RowsStay
  <2>1. /\ revision' \in Nat /\ UNCHANGED <<imported, transactions, bindings>>
        /\ UNCHANGED <<allocations, withdrawn>>
    BY <1>5 DEF ImportEvidence, Mutation, TablesInv, TypeOK
  <2> QED
    BY <2>1, OthersKeepTables DEF TablesInv, TypeOK, IsTable
<1>6. ASSUME NEW eids, NEW pids, ConfirmAllocation(eids, pids)
      PROVE  TablesInv' /\ RowsStay
  <2>1. /\ revision' \in Nat /\ UNCHANGED <<imported, transactions, bindings, withdrawn>>
        /\ allocations' = Append(allocations, Allocation(eids, pids))
    BY <1>6 DEF ConfirmAllocation, Mutation, TablesInv, TypeOK
  <2>2. IsTable(allocations)' /\ DOMAIN allocations \subseteq DOMAIN allocations'
    BY <2>1, AppendedRow DEF TablesInv, IsTable
  <2> QED
    BY <2>1, <2>2, OthersKeepTables DEF TablesInv, TypeOK
<1>7. ASSUME NEW a, WithdrawAllocation(a) PROVE TablesInv' /\ RowsStay
  <2>1. /\ revision' \in Nat /\ UNCHANGED <<imported, transactions, bindings, allocations>>
        /\ withdrawn' = withdrawn \cup {a} /\ a \in DOMAIN allocations
    BY <1>7 DEF WithdrawAllocation, Active, Mutation, TablesInv, TypeOK
  <2> QED
    BY <2>1, OthersKeepTables DEF TablesInv, TypeOK, IsTable
<1>8. ASSUME NEW period, ClosePeriod(period) \/ ReopenPeriod(period)
      PROVE  TablesInv' /\ RowsStay
  <2>1. /\ revision' \in Nat /\ UNCHANGED <<imported, transactions, bindings>>
        /\ UNCHANGED <<allocations, withdrawn>>
    BY <1>8 DEF ClosePeriod, ReopenPeriod, Mutation, TablesInv, TypeOK, settled
  <2> QED
    BY <2>1, OthersKeepTables DEF TablesInv, TypeOK, IsTable
<1>9. CASE UNCHANGED vars
  <2>1. /\ revision' \in Nat /\ UNCHANGED <<imported, transactions, bindings>>
        /\ UNCHANGED <<allocations, withdrawn>>
    BY <1>9 DEF vars, TablesInv, TypeOK, settled
  <2> QED
    BY <2>1, OthersKeepTables DEF TablesInv, TypeOK, IsTable
<1> QED
  BY <1>1, <1>2, <1>3, <1>4, <1>5, <1>6, <1>7, <1>8, <1>9 DEF Next

\* Every table keeps well-formed rows whatever is imported, and what rows
\* refer to is there: linked transactions, pairs and withdrawn allocations.
THEOREM BooksTypeCorrect == Spec => []TypeOK
<1>1. TablesInv => TypeOK
  BY DEF TablesInv
<1>2. TablesInv /\ [Next]_vars => TablesInv'
  BY TablesStep
<1> QED
  BY <1>1, <1>2, TablesStart, PTL DEF Spec

----------------------------------------------------------------------------
(* Statements: one transaction for one external id.                        *)

LEMMA StatementKeepsExternalIds ==
    ASSUME OneTransactionPerExternalId, NEW d, IsStagedDocument(d),
           ImportFile(File("statement", d))
    PROVE  OneTransactionPerExternalId'
<1> DEFINE new(i) == [source |-> d.source, content |-> Content(d.rows[i]),
                      transaction |-> TransactionOf(tables, NoPreview, d, i, Len(transactions))]
           Same(r, q) == r.source = q.source /\ r.content.external = q.content.external
           Agree(r, q) == /\ r.content = q.content
                          /\ None \notin {r.transaction, q.transaction} =>
                                r.transaction = q.transaction
<1>1. records' = records \cup {new(i) : i \in DOMAIN d.rows}
  BY StatementImport
<1>2. ASSUME NEW i \in DOMAIN d.rows, NEW q \in records, Same(new(i), q)
      PROVE  Agree(new(i), q)
  <2> DEFINE row == d.rows[i]
             known == Known(tables, NoPreview, d.source, row.external)
  <2>1. q \in RowsNaming(d.source, row.external)
    BY <1>2 DEF RowsNaming, Content
  <2>2. RowErrors(tables, NoPreview, d, row) = {}
    BY NoRowInError, StatementImport
  <2>3. known.contents = {r.content : r \in RowsNaming(d.source, row.external)}
    BY KnownFromRecords
  <2>4. Content(row) \in known.contents
    BY <2>1, <2>2, <2>3 DEF RowErrors
  <2>5. Content(row) = q.content
    BY <2>1, <2>3, <2>4 DEF RowsNaming, OneTransactionPerExternalId
  <2>6. ASSUME q.transaction # None PROVE new(i).transaction = q.transaction
    <3>1. q.transaction \in LinkedBy(d.source, row.external)
      BY <2>1, <2>6 DEF LinkedBy
    <3>2. known.transaction \in LinkedBy(d.source, row.external) /\ known.transaction # None
      BY <3>1, KnownFromRecords
    <3>3. known.transaction = q.transaction
      BY <2>1, <2>6, <3>2 DEF LinkedBy, RowsNaming, OneTransactionPerExternalId
    <3>4. Fate(tables, NoPreview, d, row) = "reused"
      BY <3>2 DEF Fate
    <3> QED
      BY <3>3, <3>4 DEF TransactionOf
  <2> QED
    BY <2>5, <2>6
<1>3. ASSUME NEW i \in DOMAIN d.rows, NEW j \in DOMAIN d.rows, Same(new(i), new(j))
      PROVE  i = j
  BY <1>3 DEF Content, IsStagedDocument
<1>4. ASSUME NEW r \in records', NEW q \in records', Same(r, q)
      PROVE  Agree(r, q)
  <2> HIDE DEF new
  <2>1. CASE r \in records /\ q \in records
    BY <1>4, <2>1 DEF OneTransactionPerExternalId
  <2>2. CASE r \in records /\ q \notin records
    <3>1. PICK i \in DOMAIN d.rows : q = new(i)
      BY <1>1, <2>2
    <3> QED
      BY <1>2, <1>4, <2>2, <3>1
  <2>3. CASE r \notin records /\ q \in records
    <3>1. PICK i \in DOMAIN d.rows : r = new(i)
      BY <1>1, <2>3
    <3> QED
      BY <1>2, <1>4, <2>3, <3>1
  <2>4. CASE r \notin records /\ q \notin records
    <3>1. PICK i \in DOMAIN d.rows : r = new(i)
      BY <1>1, <2>4
    <3>2. PICK j \in DOMAIN d.rows : q = new(j)
      BY <1>1, <2>4
    <3> QED
      BY <1>3, <1>4, <3>1, <3>2
  <2> QED
    BY <2>1, <2>2, <2>3, <2>4
<1> QED
  BY <1>4 DEF OneTransactionPerExternalId

LEMMA ExternalIdsStep ==
    ASSUME TablesInv, OneTransactionPerExternalId, [Next]_vars
    PROVE  OneTransactionPerExternalId'
<1>1. ASSUME NEW document \in Documents, NEW d \in Staged(document),
             ImportFile(File("statement", d))
      PROVE  OneTransactionPerExternalId'
  BY <1>1, StagedDocument, StatementKeepsExternalIds DEF TablesInv
<1>2. ASSUME NEW w \in Workbooks, ImportFile(File("workbook", w))
      PROVE  records' = records
  BY <1>2, WorkbookImport
<1>3. ASSUME NEW k, NEW a, NEW previous, BindAccount(k, a, previous) PROVE records' = records
  BY <1>3 DEF BindAccount, imported
<1>4. CASE RecomputeTransfers
  BY <1>4 DEF RecomputeTransfers, imported, OneTransactionPerExternalId
<1>5. ASSUME NEW items, ImportEvidence(items) PROVE records' = records
  BY <1>5 DEF ImportEvidence, imported
<1>6. ASSUME NEW eids, NEW pids, ConfirmAllocation(eids, pids) PROVE records' = records
  BY <1>6 DEF ConfirmAllocation, imported
<1>7. ASSUME NEW a, WithdrawAllocation(a) PROVE records' = records
  BY <1>7 DEF WithdrawAllocation, imported
<1>8. ASSUME NEW period, ClosePeriod(period) \/ ReopenPeriod(period) PROVE records' = records
  BY <1>8 DEF ClosePeriod, ReopenPeriod, imported
<1>9. CASE UNCHANGED vars
  BY <1>9 DEF vars, imported, OneTransactionPerExternalId
<1>10. CASE records' = records
  BY <1>10 DEF OneTransactionPerExternalId
<1> QED
  BY <1>1, <1>2, <1>3, <1>4, <1>5, <1>6, <1>7, <1>8, <1>9, <1>10 DEF Next

\* However many documents name an external id, in whatever order, before or
\* after its account is bound: one content and at most one transaction.
THEOREM BooksOneTransactionPerExternalId == Spec => []OneTransactionPerExternalId
<1>1. Init => OneTransactionPerExternalId
  BY DEF Init, OneTransactionPerExternalId
<1>2. TablesInv /\ [Next]_vars => TablesInv'
  BY TablesStep
<1>3. TablesInv /\ OneTransactionPerExternalId /\ [Next]_vars => OneTransactionPerExternalId'
  BY ExternalIdsStep
<1> QED
  BY <1>1, <1>2, <1>3, TablesStart, PTL DEF Spec

----------------------------------------------------------------------------
(* Settlement: allocations stay supported and occurrences reserved once.   *)

OneEvidencePerId == \A e, f \in evidence : e.id = f.id => e = f

SettlementInv == OneEvidencePerId /\ SettlementIsValid

\* An allocation refers to evidence and payments that later steps do not change.
LEMMA SupportStays ==
    ASSUME RowsStay, OneEvidencePerId', evidence \subseteq evidence',
           NEW a, AllocationIsSupported(a)
    PROVE  AllocationIsSupported(a)'
<1> DEFINE eids == a.evidence
           pids == a.payments
<1>1. /\ eids \subseteq EvidenceIds /\ pids \subseteq DOMAIN transactions
      /\ SelectionIsValid(eids, pids)
      /\ a = Allocation(eids, pids)
  BY DEF AllocationIsSupported, SelectionIsValid
<1>2. ASSUME NEW e \in eids PROVE Evidence(e)' = Evidence(e)
  <2>1. PICK item \in evidence : item.id = e
    BY <1>1 DEF EvidenceIds, Ids
  <2>2. \A other \in evidence' : other.id = e => other = item
    BY <2>1 DEF OneEvidencePerId
  <2>3. (CHOOSE x \in evidence : x.id = e) = item
    BY <2>1, <2>2
  <2>4. (CHOOSE x \in evidence' : x.id = e) = item
    BY <2>1, <2>2
  <2> QED
    BY <2>3, <2>4 DEF Evidence
<1>3. \A t \in pids : /\ t \in DOMAIN transactions'
                      /\ transactions'[t].amount = transactions[t].amount
                      /\ transactions'[t].currency = transactions[t].currency
  BY <1>1 DEF RowsStay
<1>4. Values(eids, pids)' = Values(eids, pids)
  BY <1>2, <1>3 DEF Values
<1>5. Currencies(eids, pids)' = Currencies(eids, pids)
  BY <1>2, <1>3 DEF Currencies
<1>6. EvidenceIds \subseteq EvidenceIds'
  BY DEF EvidenceIds, Ids
<1>7. SelectionIsValid(eids, pids)'
  BY <1>1, <1>2, <1>3, <1>4, <1>5, <1>6 DEF SelectionIsValid
<1>8. Residual(eids, pids)' = Residual(eids, pids)
  <2>1. [e \in eids |-> Evidence(e)'.amount] = [e \in eids |-> Evidence(e).amount]
    BY <1>2
  <2>2. [t \in pids |-> transactions'[t].amount] = [t \in pids |-> transactions[t].amount]
    BY <1>3
  <2> QED
    BY <2>1, <2>2 DEF Residual
<1>9. Allocation(eids, pids)' = Allocation(eids, pids)
  BY <1>8 DEF Allocation
<1> QED
  BY <1>1, <1>7, <1>9 DEF AllocationIsSupported

\* Steps that append no allocation.
LEMMA OthersKeepSettlement ==
    ASSUME SettlementInv, RowsStay, OneEvidencePerId', evidence \subseteq evidence',
           allocations' = allocations, withdrawn \subseteq withdrawn'
    PROVE  SettlementInv'
<1>1. \A a \in DOMAIN allocations' : AllocationIsSupported(allocations[a])'
  <2>1. ASSUME NEW a \in DOMAIN allocations PROVE AllocationIsSupported(allocations[a])'
    <3>1. PICK x : x = allocations[a]
      OBVIOUS
    <3>2. AllocationIsSupported(x)
      BY <3>1 DEF SettlementInv, SettlementIsValid
    <3>3. AllocationIsSupported(x)'
      BY <3>2, SupportStays
    <3> QED
      BY <3>1, <3>3
  <2> QED
    BY <2>1
<1>2. Active' \subseteq Active
  BY DEF Active
<1>3. ReservedOnce'
  BY <1>2 DEF ReservedOnce, SettlementInv, SettlementIsValid
<1> QED
  BY <1>1, <1>3 DEF SettlementInv, SettlementIsValid

LEMMA EvidenceKeepsIds ==
    ASSUME OneEvidencePerId, NEW items, ImportEvidence(items)
    PROVE  OneEvidencePerId' /\ evidence \subseteq evidence'
<1>1. /\ evidence' = evidence \cup items
      /\ \A e, f \in items : e.id = f.id => e = f
      /\ \A e \in items : e.id \in EvidenceIds => e = Evidence(e.id)
  BY DEF ImportEvidence, CanImportEvidence
<1>2. ASSUME NEW e \in items, NEW f \in evidence, e.id = f.id PROVE e = f
  <2>1. e.id \in EvidenceIds
    BY <1>2 DEF EvidenceIds, Ids
  <2>2. (CHOOSE x \in evidence : x.id = e.id) = f
    BY <1>2 DEF OneEvidencePerId
  <2> QED
    BY <1>1, <2>1, <2>2 DEF Evidence
<1> QED
  BY <1>1, <1>2 DEF OneEvidencePerId

LEMMA ConfirmKeepsSettlement ==
    ASSUME TablesInv, SettlementInv, NEW eids, NEW pids, ConfirmAllocation(eids, pids)
    PROVE  SettlementInv'
<1>1. PICK new : new = Allocation(eids, pids)
  OBVIOUS
<1>2. new.evidence = eids /\ new.payments = pids
  BY <1>1 DEF Allocation
<1>3. /\ allocations' = Append(allocations, new)
      /\ UNCHANGED <<transactions, evidence, withdrawn>>
      /\ SelectionIsValid(eids, pids) /\ Free(eids, pids)
  BY <1>1 DEF ConfirmAllocation, CanConfirm
<1> DEFINE n == Len(allocations) + 1
<1>4. /\ DOMAIN allocations' = DOMAIN allocations \cup {n}
      /\ n \notin DOMAIN allocations
      /\ \A a \in DOMAIN allocations : allocations'[a] = allocations[a]
      /\ allocations'[n] = new
  BY <1>3, AppendedRow DEF TablesInv
<1>5. RowsStay /\ OneEvidencePerId' /\ evidence \subseteq evidence'
  BY <1>3 DEF RowsStay, SettlementInv, OneEvidencePerId
<1>6. AllocationIsSupported(new)'
  <2>1. AllocationIsSupported(new)
    BY <1>1, <1>2, <1>3 DEF AllocationIsSupported
  <2> QED
    BY <1>5, <2>1, SupportStays
<1>7. ASSUME NEW a \in DOMAIN allocations' PROVE AllocationIsSupported(allocations[a])'
  <2>1. CASE a = n
    BY <1>4, <1>6, <2>1
  <2>2. CASE a # n
    <3>1. PICK x : x = allocations[a]
      OBVIOUS
    <3>2. a \in DOMAIN allocations /\ allocations'[a] = x /\ AllocationIsSupported(x)
      BY <1>4, <2>2, <3>1 DEF SettlementInv, SettlementIsValid
    <3>3. AllocationIsSupported(x)'
      BY <1>5, <3>2, SupportStays
    <3> QED
      BY <3>2, <3>3
  <2> QED
    BY <2>1, <2>2
<1>8. Active' = Active \cup {n} /\ n \notin Active
  BY <1>3, <1>4 DEF Active, TablesInv, TypeOK
<1>9. \A a \in Active : /\ allocations'[a] = allocations[a]
                        /\ allocations[a].evidence \cap eids = {}
                        /\ allocations[a].payments \cap pids = {}
  <2>1. \A a \in Active : /\ allocations[a].evidence \subseteq ReservedEvidence
                          /\ allocations[a].payments \subseteq ReservedPayments
    BY DEF ReservedEvidence, ReservedPayments
  <2>2. eids \cap ReservedEvidence = {} /\ pids \cap ReservedPayments = {}
    BY <1>3 DEF Free
  <2>3. \A a \in Active : allocations'[a] = allocations[a]
    BY <1>4 DEF Active
  <2> QED
    BY <2>1, <2>2, <2>3
<1>10. ReservedOnce'
  <2>1. ASSUME NEW a \in Active', NEW b \in Active', a # b
        PROVE  /\ allocations'[a].evidence \cap allocations'[b].evidence = {}
               /\ allocations'[a].payments \cap allocations'[b].payments = {}
    <3>1. CASE a \in Active /\ b \in Active
      BY <1>9, <2>1, <3>1 DEF SettlementInv, SettlementIsValid, ReservedOnce
    <3>2. CASE a = n
      BY <1>2, <1>4, <1>8, <1>9, <2>1, <3>2
    <3>3. CASE b = n
      BY <1>2, <1>4, <1>8, <1>9, <2>1, <3>3
    <3> QED
      BY <1>8, <3>1, <3>2, <3>3
  <2> QED
    BY <2>1 DEF ReservedOnce
<1> QED
  BY <1>5, <1>7, <1>10 DEF SettlementInv, SettlementIsValid

LEMMA SettlementStep ==
    ASSUME TablesInv, SettlementInv, [Next]_vars
    PROVE  SettlementInv'
<1>1. RowsStay
  BY TablesStep
<1>2. CASE UNCHANGED settled
  BY <1>1, <1>2, OthersKeepSettlement DEF settled, SettlementInv, OneEvidencePerId
<1>3. ASSUME NEW d, ImportFile(File("statement", d)) PROVE UNCHANGED settled
  BY <1>3, StatementImport
<1>4. ASSUME NEW w, ImportFile(File("workbook", w)) PROVE UNCHANGED settled
  BY <1>4, WorkbookImport
<1>5. ASSUME NEW k, NEW a, NEW previous, BindAccount(k, a, previous) PROVE UNCHANGED settled
  BY <1>5 DEF BindAccount
<1>6. ASSUME RecomputeTransfers PROVE UNCHANGED settled
  BY <1>6 DEF RecomputeTransfers
<1>7. ASSUME NEW items, ImportEvidence(items) PROVE SettlementInv'
  <2>1. OneEvidencePerId' /\ evidence \subseteq evidence'
    BY <1>7, EvidenceKeepsIds DEF SettlementInv
  <2>2. UNCHANGED <<allocations, withdrawn>>
    BY <1>7 DEF ImportEvidence
  <2> QED
    BY <1>1, <2>1, <2>2, OthersKeepSettlement
<1>8. ASSUME NEW eids, NEW pids, ConfirmAllocation(eids, pids) PROVE SettlementInv'
  BY <1>8, ConfirmKeepsSettlement
<1>9. ASSUME NEW a, WithdrawAllocation(a) PROVE SettlementInv'
  <2>1. UNCHANGED <<evidence, allocations>> /\ withdrawn \subseteq withdrawn'
    BY <1>9 DEF WithdrawAllocation
  <2> QED
    BY <1>1, <2>1, OthersKeepSettlement DEF SettlementInv, OneEvidencePerId
<1>10. ASSUME NEW period, ClosePeriod(period) \/ ReopenPeriod(period) PROVE UNCHANGED settled
  BY <1>10 DEF ClosePeriod, ReopenPeriod
<1>11. ASSUME UNCHANGED vars PROVE UNCHANGED settled
  BY <1>11 DEF vars
<1> QED
  BY <1>2, <1>3, <1>4, <1>5, <1>6, <1>7, <1>8, <1>9, <1>10, <1>11 DEF Next

\* Allocations stay supported by the evidence and payments they name, and no
\* occurrence is reserved twice, for any submissions, selections and imports.
THEOREM BooksSettlementIsValid == Spec => []SettlementIsValid
<1>1. Init => SettlementInv
  BY DEF Init, SettlementInv, OneEvidencePerId, SettlementIsValid, ReservedOnce, Active
<1>2. TablesInv /\ [Next]_vars => TablesInv'
  BY TablesStep
<1>3. TablesInv /\ SettlementInv /\ [Next]_vars => SettlementInv'
  BY SettlementStep
<1>4. SettlementInv => SettlementIsValid
  BY DEF SettlementInv
<1> QED
  BY <1>1, <1>2, <1>3, <1>4, TablesStart, PTL DEF Spec

----------------------------------------------------------------------------
(* Workbooks: no second transaction for a movement that is there.          *)

NoTwinAdded ==
    \A t \in DOMAIN transactions' \ DOMAIN transactions, u \in DOMAIN transactions :
        transactions'[t].origin = "workbook" => ~SameMovement(transactions[u], transactions'[t])

\* A row inserted for a movement would have overlapped it.
LEMMA TwinOverlaps ==
    ASSUME NEW row \in WorkbookRows, NEW n, NEW u, SameMovement(u, WorkbookTransaction(row, n))
    PROVE  Overlaps(u, row)
<1> DEFINE twin == WorkbookTransaction(row, n)
<1>1. /\ twin.type = row.type /\ twin.amount = row.amount /\ twin.currency = row.currency
      /\ twin.clock = [row.clock EXCEPT !.precision = StoredPrecision(row)]
  BY DEF WorkbookTransaction
<1>2. row.clock \in Clocks
  BY DEF WorkbookRows
<1>3. /\ twin.clock.day = row.clock.day /\ twin.clock.minute = row.clock.minute
      /\ twin.clock.second = row.clock.second /\ twin.clock.known = row.clock.known
      /\ twin.clock.zone = row.clock.zone
  BY <1>1, <1>2 DEF Clocks
<1>4. Instant(twin.clock) = Instant(row.clock)
  BY <1>3 DEF Instant
<1> HIDE DEF twin
<1>5. /\ u.type = twin.type /\ u.amount = twin.amount /\ u.currency = twin.currency
      /\ \/ u.clock.day = twin.clock.day /\ u.clock.minute = twin.clock.minute
               /\ u.clock.second = twin.clock.second
         \/ u.clock.known /\ twin.clock.known /\ Instant(u.clock) = Instant(twin.clock)
  BY DEF SameMovement, twin
<1>6. CASE u.clock.known /\ twin.clock.known /\ Instant(u.clock) = Instant(twin.clock)
  BY <1>1, <1>3, <1>4, <1>5, <1>6 DEF Overlaps, IdentityClock
<1>7. CASE u.clock.day = twin.clock.day /\ u.clock.minute = twin.clock.minute
              /\ u.clock.second = twin.clock.second
  <2>1. \A precision : CivilMatches(u.clock, row.clock, precision)
    BY <1>3, <1>7 DEF CivilMatches
  <2> QED
    BY <1>1, <1>5, <2>1 DEF Overlaps, IdentityClock
<1> QED
  BY <1>5, <1>6, <1>7

LEMMA WorkbookAddsNoTwin ==
    ASSUME TypeOK, NEW w \in Workbooks, ImportFile(File("workbook", w))
    PROVE  NoTwinAdded
<1> DEFINE I == {i \in DOMAIN w.rows : Disposition(w.rows[i], transactions) = "inserted"}
           new == Inserted(w, transactions, Len(transactions))
<1>1. /\ Cardinality(I) \in Nat
      /\ new \in [1..Cardinality(I) -> Transactions]
      /\ \A n \in 1..Cardinality(I) :
            /\ Nth(I, n) \in I
            /\ new[n] = WorkbookTransaction(w.rows[Nth(I, n)], Len(transactions) + n)
  BY InsertedRows
<1>2. transactions' = transactions \o new
  BY WorkbookImport
<1>3. w.rows \in Seq(WorkbookRows)
  BY BooksAssumption
<1>4. ASSUME NEW i \in I, NEW n, NEW u \in DOMAIN transactions
      PROVE  ~SameMovement(transactions[u], WorkbookTransaction(w.rows[i], n))
  <2>1. w.rows[i] \in WorkbookRows
    BY <1>3
  <2>2. ~Overlaps(transactions[u], w.rows[i])
    BY DEF Disposition, ToSet
  <2> QED
    BY <2>1, <2>2, TwinOverlaps
<1> HIDE DEF I, new
<1>5. ASSUME NEW t \in DOMAIN transactions' \ DOMAIN transactions
      PROVE  t - Len(transactions) \in 1..Cardinality(I)
             /\ transactions'[t] = new[t - Len(transactions)]
  <2>1. transactions \in Seq(Transactions)
    BY DEF TypeOK
  <2>2. \A i \in DOMAIN (transactions \o new) \ DOMAIN transactions :
          i - Len(transactions) \in 1..Cardinality(I)
          /\ (transactions \o new)[i] = new[i - Len(transactions)]
    BY <1>1, <2>1, AppendedRows
  <2> QED
    BY <1>2, <2>2
<1>6. ASSUME NEW t \in DOMAIN transactions' \ DOMAIN transactions,
             NEW u \in DOMAIN transactions
      PROVE  ~SameMovement(transactions[u], transactions'[t])
  <2>1. PICK k \in 1..Cardinality(I) : k = t - Len(transactions)
    BY <1>5
  <2>2. Nth(I, k) \in I
        /\ transactions'[t] = WorkbookTransaction(w.rows[Nth(I, k)], Len(transactions) + k)
    BY <1>1, <1>5, <2>1
  <2> QED
    BY <1>4, <2>2
<1> QED
  BY <1>6 DEF NoTwinAdded

LEMMA StatementAddsNoWorkbookRow ==
    ASSUME TypeOK, NEW d, IsStagedDocument(d), ImportFile(File("statement", d))
    PROVE  NoTwinAdded
<1> DEFINE I == Created(tables, NoPreview, d)
           new == CreatedTransactions(d, I)
<1>1. /\ Cardinality(I) \in Nat
      /\ new \in [1..Cardinality(I) -> Transactions]
      /\ \A n \in 1..Cardinality(I) : new[n].origin = "statement"
  BY CreatedRows
<1>2. transactions' = transactions \o new
  BY StatementImport
<1> HIDE DEF I, new
<1>3. ASSUME NEW t \in DOMAIN transactions' \ DOMAIN transactions
      PROVE  transactions'[t].origin = "statement"
  <2>1. transactions \in Seq(Transactions)
    BY DEF TypeOK
  <2>2. \A i \in DOMAIN (transactions \o new) \ DOMAIN transactions :
          i - Len(transactions) \in 1..Cardinality(I)
          /\ (transactions \o new)[i] = new[i - Len(transactions)]
    BY <1>1, <2>1, AppendedRows
  <2> QED
    BY <1>1, <1>2, <2>2
<1> QED
  BY <1>3 DEF NoTwinAdded

LEMMA TwinStep ==
    ASSUME TablesInv, [Next]_vars
    PROVE  NoTwinAdded
<1>1. ASSUME DOMAIN transactions' = DOMAIN transactions PROVE NoTwinAdded
  BY <1>1 DEF NoTwinAdded
<1>2. ASSUME NEW document \in Documents, NEW d \in Staged(document),
             ImportFile(File("statement", d))
      PROVE  NoTwinAdded
  BY <1>2, StagedDocument, StatementAddsNoWorkbookRow DEF TablesInv
<1>3. ASSUME NEW w \in Workbooks, ImportFile(File("workbook", w)) PROVE NoTwinAdded
  BY <1>3, WorkbookAddsNoTwin DEF TablesInv
<1>4. ASSUME NEW k, NEW a, NEW previous, BindAccount(k, a, previous) PROVE NoTwinAdded
  BY <1>1, <1>4 DEF BindAccount
<1>5. CASE RecomputeTransfers
  BY <1>1, <1>5 DEF RecomputeTransfers, Derived
<1>6. ASSUME NEW items, ImportEvidence(items) PROVE NoTwinAdded
  BY <1>1, <1>6 DEF ImportEvidence
<1>7. ASSUME NEW eids, NEW pids, ConfirmAllocation(eids, pids) PROVE NoTwinAdded
  BY <1>1, <1>7 DEF ConfirmAllocation
<1>8. ASSUME NEW a, WithdrawAllocation(a) PROVE NoTwinAdded
  BY <1>1, <1>8 DEF WithdrawAllocation
<1>9. ASSUME NEW period, ClosePeriod(period) \/ ReopenPeriod(period) PROVE NoTwinAdded
  BY <1>1, <1>9 DEF ClosePeriod, ReopenPeriod
<1>10. CASE UNCHANGED vars
  BY <1>1, <1>10 DEF vars
<1> QED
  BY <1>2, <1>3, <1>4, <1>5, <1>6, <1>7, <1>8, <1>9, <1>10 DEF Next

\* No workbook, whatever its rows and their zones, adds a transaction for a
\* movement that is already in the table.
THEOREM BooksNoTwinFromWorkbooks == Spec => NoTwinFromWorkbooks
<1>1. TablesInv /\ [Next]_vars => TablesInv'
  BY TablesStep
<1>2. TablesInv /\ [Next]_vars => [NoTwinAdded]_vars
  BY TwinStep
<1>3. Spec => [][NoTwinAdded]_vars
  BY <1>1, <1>2, TablesStart, PTL DEF Spec
<1> QED
  BY <1>3 DEF NoTwinFromWorkbooks, NoTwinAdded

----------------------------------------------------------------------------
(* The pairing of transfers.                                               *)

\* A set of naturals has a least member.
LEMMA Least ==
    ASSUME NEW N, N \subseteq Nat, N # {}
    PROVE  \E n \in N : \A m \in N : n <= m
<1> DEFINE less == {p \in Nat \X Nat : p[1] < p[2]}
<1>1. IsWellFoundedOn(less, Nat)
  BY NatLessThanWellFounded, Zenon DEF OpToRel
<1>2. PICK n \in N : \A m \in N : ~(<<m, n>> \in less)
  <2> HIDE DEF less
  <2> QED
    BY <1>1, WFMin, Zenon
<1>3. \A m \in N : ~(m < n)
  BY <1>2
<1> QED
  BY <1>3

\* Members of a finite ordered set have fewer members before them than those they precede.
LEMMA RankGrows ==
    ASSUME NEW P, IsFiniteSet(P), NEW R,
           \A p \in P : <<p, p>> \notin R,
           \A p, q, r \in P : <<p, q>> \in R /\ <<q, r>> \in R => <<p, r>> \in R
    PROVE  \E rank \in [P -> 0..Cardinality(P)] : \A p, q \in P : <<p, q>> \in R => rank[p] < rank[q]
<1> DEFINE below(p) == {q \in P : <<q, p>> \in R}
           rank == [p \in P |-> Cardinality(below(p))]
<1>1. \A p \in P : IsFiniteSet(below(p)) /\ Cardinality(below(p)) \in Nat
  BY FS_Subset, FS_CardinalityType
<1>2. ASSUME NEW p \in P, NEW q \in P, <<p, q>> \in R
      PROVE  Cardinality(below(p)) < Cardinality(below(q))
  <2>1. below(p) \subseteq below(q)
    BY <1>2
  <2>2. p \in below(q) /\ p \notin below(p)
    BY <1>2
  <2> HIDE DEF below
  <2>3. below(p) \in SUBSET below(q)
    BY <2>1
  <2>4. /\ Cardinality(below(p)) <= Cardinality(below(q))
        /\ Cardinality(below(p)) # Cardinality(below(q))
    BY <1>1, <2>2, <2>3, FS_Subset
  <2> QED
    BY <1>1, <2>4
<1>3. rank \in [P -> 0..Cardinality(P)]
  <2>1. \A p \in P : Cardinality(below(p)) <= Cardinality(P)
    BY FS_Subset
  <2>2. Cardinality(P) \in Nat
    BY FS_CardinalityType
  <2> HIDE DEF below
  <2> QED
    BY <1>1, <2>1, <2>2
<1>4. \A p, q \in P : <<p, q>> \in R => rank[p] < rank[q]
  BY <1>2
<1> HIDE DEF below
<1> WITNESS rank \in [P -> 0..Cardinality(P)]
<1> QED
  BY <1>4

\* What f says of who is taken: each member that is in conflict with no earlier one taken.
Greedy(P, C, R, f) == [p \in P |-> ~\E q \in P : <<p, q>> \in C /\ <<q, p>> \in R /\ f[q]]

\* Taking the members of a finite ordered set in their order, each one that is in conflict with
\* none taken before it, decides of every member.
LEMMA GreedyDecides ==
    ASSUME NEW P, IsFiniteSet(P), NEW C, NEW R,
           \A p \in P : <<p, p>> \notin R,
           \A p, q, r \in P : <<p, q>> \in R /\ <<q, r>> \in R => <<p, r>> \in R
    PROVE  \E f : f = Greedy(P, C, R, f)
<1>1. PICK rank \in [P -> 0..Cardinality(P)] : \A p, q \in P : <<p, q>> \in R => rank[p] < rank[q]
  BY RankGrows
<1> DEFINE Before(n) == {p \in P : rank[p] < n}
           Rule(f, p) == ~\E q \in P : <<p, q>> \in C /\ <<q, p>> \in R /\ f[q]
           Good(n, f) == f = [p \in Before(n) |-> Rule(f, p)]
           Undecided == {n \in Nat : \A f : ~Good(n, f)}
<1>2. Cardinality(P) \in Nat /\ \A p \in P : rank[p] \in Nat /\ rank[p] <= Cardinality(P)
  BY <1>1, FS_CardinalityType
<1>3. ASSUME NEW n \in Nat, n \in Undecided, \A m \in Undecided : n <= m PROVE FALSE
  <2>1. CASE n = 0
    <3>1. Before(0) = {}
      BY <1>2
    <3>2. \A f, g : [p \in {} |-> Rule(f, p)] = [p \in {} |-> Rule(g, p)]
      OBVIOUS
    <3>3. PICK f : f = [p \in {} |-> Rule({}, p)]
      OBVIOUS
    <3>4. f = [p \in {} |-> Rule(f, p)]
      BY <3>2, <3>3
    <3>5. Good(0, f)
      BY <3>1, <3>4
    <3> QED
      BY <1>3, <2>1, <3>5
  <2>2. CASE n # 0
    <3>1. n - 1 \in Nat /\ n - 1 \notin Undecided
      <4> HIDE DEF Undecided
      <4> QED
        BY <1>3, <2>2
    <3>2. PICK f : Good(n - 1, f)
      <4> HIDE DEF Good
      <4> QED
        BY <3>1
    <3> DEFINE g == [p \in Before(n) |-> IF p \in Before(n - 1) THEN f[p] ELSE Rule(f, p)]
    <3>3. ASSUME NEW p \in Before(n) PROVE Rule(g, p) <=> Rule(f, p)
      <4>1. ASSUME NEW q \in P, <<q, p>> \in R PROVE q \in Before(n - 1)
        BY <1>1, <1>2, <1>3, <4>1
      <4>2. \A q \in P : <<q, p>> \in R => g[q] = f[q]
        BY <1>2, <1>3, <4>1
      <4> QED
        BY <4>2
    <3>4. ASSUME NEW p \in Before(n) PROVE g[p] = Rule(f, p)
      BY <3>2
    <3>5. g = [p \in Before(n) |-> Rule(g, p)]
      BY <3>3, <3>4
    <3> QED
      BY <1>3, <3>5
  <2> QED
    BY <2>1, <2>2
<1>4. Undecided = {}
  BY <1>3, Least
<1>5. Cardinality(P) + 1 \in Nat /\ Before(Cardinality(P) + 1) = P
  BY <1>2
<1>6. PICK f : Good(Cardinality(P) + 1, f)
  <2> HIDE DEF Good
  <2> QED
    BY <1>4, <1>5
<1> QED
  BY <1>5, <1>6 DEF Greedy

\* Keys of numbers compared place by place are in a strict order.
LEMMA KeysOrdered ==
    ASSUME NEW k \in [1..9 -> Int], NEW l \in [1..9 -> Int], NEW m \in [1..9 -> Int]
    PROVE  /\ ~Precedes(k, k)
           /\ Precedes(k, l) /\ Precedes(l, m) => Precedes(k, m)
           /\ k # l => Precedes(k, l) \/ Precedes(l, k)
<1>1. ~Precedes(k, k)
  BY DEF Precedes
<1>2. ASSUME Precedes(k, l), Precedes(l, m) PROVE Precedes(k, m)
  <2>1. PICK i \in 1..9 : k[i] < l[i] /\ \A j \in 1..(i - 1) : k[j] = l[j]
    BY <1>2 DEF Precedes
  <2>2. PICK h \in 1..9 : l[h] < m[h] /\ \A j \in 1..(h - 1) : l[j] = m[j]
    BY <1>2 DEF Precedes
  <2>3. CASE i <= h
    <3>1. k[i] < m[i]
      <4>1. l[i] <= m[i]
        BY <2>2, <2>3
      <4> QED
        BY <2>1, <4>1
    <3>2. \A j \in 1..(i - 1) : k[j] = m[j]
      BY <2>1, <2>2, <2>3
    <3> QED
      BY <3>1, <3>2 DEF Precedes
  <2>4. CASE h < i
    <3>1. k[h] < m[h]
      BY <2>1, <2>2, <2>4
    <3>2. \A j \in 1..(h - 1) : k[j] = m[j]
      BY <2>1, <2>2, <2>4
    <3> QED
      BY <3>1, <3>2 DEF Precedes
  <2> QED
    BY <2>3, <2>4
<1>3. ASSUME k # l PROVE Precedes(k, l) \/ Precedes(l, k)
  <2> DEFINE N == {i \in 1..9 : k[i] # l[i]}
  <2>1. N # {} /\ N \subseteq Nat
    BY <1>3
  <2>2. PICK i \in N : \A j \in N : i <= j
    <3> HIDE DEF N
    <3> QED
      BY <2>1, Least
  <2>3. \A j \in 1..(i - 1) : k[j] = l[j]
    BY <2>2
  <2>4. i \in 1..9 /\ (k[i] < l[i] \/ l[i] < k[i])
    OBVIOUS
  <2>5. \A j \in 1..(i - 1) : l[j] = k[j]
    BY <2>3
  <2> QED
    BY <2>3, <2>4, <2>5 DEF Precedes
<1> QED
  BY <1>1, <1>2, <1>3

\* Ratios of naturals, compared by cross products.
LEMMA RatiosOrdered ==
    ASSUME NEW a \in Nat, NEW b \in Nat, NEW c \in Nat,
           NEW x \in Nat \ {0}, NEW y \in Nat \ {0}, NEW z \in Nat \ {0}
    PROVE  /\ a * y < b * x /\ b * z < c * y => a * z < c * x
           /\ a * y < b * x /\ b * z = c * y => a * z < c * x
           /\ a * y = b * x /\ b * z < c * y => a * z < c * x
           /\ a * y = b * x /\ b * z = c * y => a * z = c * x
<1>1. \A p, q \in Nat, r \in Nat \ {0} : (p < q <=> p * r < q * r) /\ (p = q <=> p * r = q * r)
  OBVIOUS
<1>2. /\ a * y * z \in Nat /\ b * x * z \in Nat /\ b * z * x \in Nat /\ c * y * x \in Nat
      /\ a * z \in Nat /\ c * x \in Nat
      /\ a * y * z = (a * z) * y /\ b * x * z = b * z * x /\ c * y * x = (c * x) * y
  OBVIOUS
<1>3. /\ a * y < b * x => a * y * z < b * x * z
      /\ a * y = b * x => a * y * z = b * x * z
      /\ b * z < c * y => b * z * x < c * y * x
      /\ b * z = c * y => b * z * x = c * y * x
  BY <1>1
<1>4. /\ (a * z) * y < (c * x) * y => a * z < c * x
      /\ (a * z) * y = (c * x) * y => a * z = c * x
  BY <1>1, <1>2
<1> QED
  BY <1>2, <1>3, <1>4

\* The helpers for the size, the least and the largest of two numbers return numbers.
LEMMA Extremes ==
    ASSUME NEW a \in Int, NEW b \in Int
    PROVE  /\ Min({a, b}) \in {a, b} /\ Min({a, b}) <= a /\ Min({a, b}) <= b
           /\ Max({a, b}) \in {a, b} /\ a <= Max({a, b}) /\ b <= Max({a, b})
<1>1. \E x \in {a, b} : \A y \in {a, b} : x <= y
  OBVIOUS
<1>2. \E x \in {a, b} : \A y \in {a, b} : x >= y
  OBVIOUS
<1> QED
  BY <1>1, <1>2 DEF Min, Max

\* The rows of a transaction table and what the matcher reads of them.
LEMMA RowNumbers ==
    ASSUME TypeOK, NEW t \in DOMAIN transactions
    PROVE  t \in Nat /\ Amount(t) \in Int /\ Moment(t) \in Int
<1>1. transactions[t] \in Transactions /\ t \in Nat
  BY DEF TypeOK
<1>2. PICK row \in Transactions : row = transactions[t]
  BY <1>1
<1>3. row.amount \in Int /\ row.clock \in Clocks
  BY DEF Transactions
<1>4. EffectiveClock(row) \in Clocks
  <2>1. "day" \in DOMAIN Rank
    BY DEF Rank
  <2>2. ASSUME NEW clock \in Clocks PROVE DayOnly(clock) \in Clocks
    BY <2>1 DEF DayOnly, Clocks
  <2> QED
    BY <1>3, <2>2 DEF EffectiveClock
<1>5. PICK clock \in Clocks : clock = EffectiveClock(row)
  BY <1>4
<1>6. Instant(clock) \in Int
  BY DEF Instant, Clocks
<1>7. Amount(t) = row.amount /\ Moment(t) = Instant(clock)
  <2>1. EffectiveClock(transactions[t]) = clock
    BY <1>2, <1>5
  <2> QED
    BY <1>2, <2>1 DEF Amount, Moment
<1> QED
  BY <1>1, <1>3, <1>6, <1>7

\* The two rows of a pair are different, and what the matcher computes of it are numbers.
LEMMA PairNumbers ==
    ASSUME TypeOK, NEW p \in Pairs
    PROVE  /\ p.out \in DOMAIN transactions /\ p.in \in DOMAIN transactions
           /\ p = [out |-> p.out, in |-> p.in]
           /\ p.out # p.in
           /\ Pairable(p)
           /\ Mismatch(p) \in Nat /\ Largest(p) \in Nat \ {0}
           /\ Key(p) \in [1..9 -> Int] /\ Key(p)[6] = p.out /\ Key(p)[9] = p.in
<1>1. /\ p.out \in DOMAIN transactions /\ p.in \in DOMAIN transactions
      /\ p = [out |-> p.out, in |-> p.in]
      /\ Pairable(p)
  BY DEF Pairs
<1>2. /\ p.out \in Nat /\ Amount(p.out) \in Int /\ Moment(p.out) \in Int
      /\ p.in \in Nat /\ Amount(p.in) \in Int /\ Moment(p.in) \in Int
  BY <1>1, RowNumbers
<1>3. Amount(p.out) < 0 /\ Amount(p.in) > 0
  BY <1>1 DEF Pairable
<1>4. p.out # p.in
  BY <1>2, <1>3
<1>5. \A x \in Int : Magnitude(x) \in Nat
  BY DEF Magnitude
<1>6. Magnitude(Amount(p.out)) \in Nat \ {0} /\ Magnitude(Amount(p.in)) \in Nat \ {0}
  BY <1>2, <1>3 DEF Magnitude
<1>7. Mismatch(p) \in Nat /\ Distance(p) \in Nat
  BY <1>2, <1>5 DEF Mismatch, Distance
<1>8. Largest(p) \in Nat \ {0}
  <2>1. PICK a \in Nat \ {0}, b \in Nat \ {0} :
           a = Magnitude(Amount(p.out)) /\ b = Magnitude(Amount(p.in))
    BY <1>6
  <2>2. Max({a, b}) \in {a, b}
    BY Extremes
  <2> QED
    BY <2>1, <2>2 DEF Largest
<1>9. Min({Moment(p.out), Moment(p.in)}) \in Int /\ Max({Moment(p.out), Moment(p.in)}) \in Int
  BY <1>2, Extremes
<1>10. Key(p) \in [1..9 -> Int] /\ Key(p)[6] = p.out /\ Key(p)[9] = p.in
  BY <1>2, <1>6, <1>7, <1>9 DEF Key
<1> QED
  BY <1>1, <1>4, <1>7, <1>8, <1>10

\* The matcher's order is strict and total on the pairs.
LEMMA PairsOrdered ==
    ASSUME TypeOK
    PROVE  /\ \A p \in Pairs : ~Closer(p, p)
           /\ \A p, q, r \in Pairs : Closer(p, q) /\ Closer(q, r) => Closer(p, r)
           /\ \A p, q \in Pairs : p # q => Closer(p, q) \/ Closer(q, p)
<1>1. ASSUME NEW p \in Pairs PROVE ~Closer(p, p)
  <2>1. Mismatch(p) * Largest(p) \in Nat /\ ~Precedes(Key(p), Key(p))
    BY PairNumbers, KeysOrdered
  <2> QED
    BY <2>1 DEF Closer
<1>2. ASSUME NEW p \in Pairs, NEW q \in Pairs, NEW r \in Pairs, Closer(p, q), Closer(q, r)
      PROVE  Closer(p, r)
  <2>1. /\ Mismatch(p) \in Nat /\ Mismatch(q) \in Nat /\ Mismatch(r) \in Nat
        /\ Largest(p) \in Nat \ {0} /\ Largest(q) \in Nat \ {0} /\ Largest(r) \in Nat \ {0}
    BY PairNumbers
  <2>2. Precedes(Key(p), Key(q)) /\ Precedes(Key(q), Key(r)) => Precedes(Key(p), Key(r))
    BY PairNumbers, KeysOrdered
  <2> QED
    BY <1>2, <2>1, <2>2, RatiosOrdered DEF Closer
<1>3. ASSUME NEW p \in Pairs, NEW q \in Pairs, p # q PROVE Closer(p, q) \/ Closer(q, p)
  <2>1. Mismatch(p) * Largest(q) \in Nat /\ Mismatch(q) * Largest(p) \in Nat
    BY PairNumbers
  <2>2. Key(p) # Key(q)
    BY <1>3, PairNumbers
  <2>3. Precedes(Key(p), Key(q)) \/ Precedes(Key(q), Key(p))
    BY <2>2, PairNumbers, KeysOrdered
  <2> QED
    BY <2>1, <2>3 DEF Closer
<1> QED
  BY <1>1, <1>2, <1>3

\* A finite table has finitely many pairs.
LEMMA PairsFinite == TypeOK => IsFiniteSet(Pairs)
<1> SUFFICES ASSUME TypeOK PROVE IsFiniteSet(Pairs)
  OBVIOUS
<1> DEFINE D == DOMAIN transactions
           S == {x \in D \X D : [out |-> x[1], in |-> x[2]] \in Pairs}
           f == [x \in S |-> [out |-> x[1], in |-> x[2]]]
<1>1. IsFiniteSet(D)
  <2>1. D = 1..Len(transactions) /\ Len(transactions) \in Nat
    BY DEF TypeOK
  <2> QED
    BY <2>1, FS_Interval
<1>2. IsFiniteSet(S)
  <2>1. IsFiniteSet(D \X D)
    BY <1>1, FS_Product
  <2>2. S \in SUBSET (D \X D)
    OBVIOUS
  <2> HIDE DEF S, D
  <2> QED
    BY <2>1, <2>2, FS_Subset
<1>3. f \in Surjection(S, Pairs)
  <2>1. f \in [S -> Pairs]
    OBVIOUS
  <2>2. ASSUME NEW p \in Pairs PROVE \E x \in S : f[x] = p
    <3>1. p.out \in D /\ p.in \in D /\ p = [out |-> p.out, in |-> p.in]
      BY PairNumbers
    <3>2. <<p.out, p.in>> \in S
      BY <3>1
    <3> QED
      BY <3>1, <3>2
  <2> HIDE DEF f
  <2> QED
    BY <2>1, <2>2 DEF Surjection
<1> HIDE DEF f, S
<1> QED
  BY <1>2, <1>3, FS_Surjection

\* The pairs taken share no row, and every other pair shares a row with one of them.
LEMMA MatchedIs ==
    ASSUME TypeOK
    PROVE  /\ Matched \subseteq Pairs
           /\ \A p, q \in Matched : Share(p, q) => p = q
           /\ \A p \in Pairs : \E q \in Matched : Share(p, q)
<1>0. PICK P : P = Pairs
  OBVIOUS
<1>1. PICK R : R = {x \in P \X P : Closer(x[1], x[2])}
  OBVIOUS
<1>2. PICK C : C = {x \in P \X P : Share(x[1], x[2])}
  OBVIOUS
<1>3. PICK f : f = Greedy(P, C, R, f)
  <2>1. IsFiniteSet(P)
    BY <1>0, PairsFinite
  <2>2. \A p, q \in P : <<p, q>> \in R <=> Closer(p, q)
    BY <1>1
  <2>3. \A p \in P : <<p, p>> \notin R
    BY <1>0, <2>2, PairsOrdered
  <2>4. \A p, q, r \in P : <<p, q>> \in R /\ <<q, r>> \in R => <<p, r>> \in R
    BY <1>0, <2>2, PairsOrdered
  <2> QED
    BY <2>1, <2>3, <2>4, GreedyDecides
<1> DEFINE taken == CHOOSE g : g = [p \in P |-> ~\E q \in P : Share(p, q) /\ Closer(q, p) /\ g[q]]
<1>4. f = [p \in P |-> ~\E q \in P : Share(p, q) /\ Closer(q, p) /\ f[q]]
  <2>1. \A p \in P : (\E q \in P : <<p, q>> \in C /\ <<q, p>> \in R /\ f[q])
                     <=> (\E q \in P : Share(p, q) /\ Closer(q, p) /\ f[q])
    BY <1>1, <1>2
  <2> QED
    BY <1>3, <2>1 DEF Greedy
<1>5. taken = [p \in P |-> ~\E q \in P : Share(p, q) /\ Closer(q, p) /\ taken[q]]
  BY <1>4
<1>6. Matched = {p \in P : taken[p]}
  BY <1>0 DEF Matched
<1> HIDE DEF taken
<1>7. \A p \in P : taken[p] <=> ~\E q \in P : Share(p, q) /\ Closer(q, p) /\ taken[q]
  BY <1>5
<1>8. Matched \subseteq Pairs
  BY <1>0, <1>6
<1>9. ASSUME NEW p \in Matched, NEW q \in Matched, Share(p, q) PROVE p = q
  <2>1. p \in P /\ q \in P /\ taken[p] /\ taken[q]
    BY <1>6
  <2>2. Share(q, p)
    BY <1>9 DEF Share
  <2>3. ~Closer(p, q) /\ ~Closer(q, p)
    BY <1>7, <1>9, <2>1, <2>2
  <2> QED
    BY <2>1, <2>3, <1>0, PairsOrdered
<1>10. ASSUME NEW p \in Pairs PROVE \E q \in Matched : Share(p, q)
  <2>1. p \in P
    BY <1>0
  <2>2. CASE taken[p]
    BY <1>6, <2>1, <2>2 DEF Share, PairMembers
  <2>3. CASE ~taken[p]
    BY <1>6, <1>7, <2>1, <2>3
  <2> QED
    BY <2>2, <2>3
<1> QED
  BY <1>8, <1>9, <1>10

\* A row of a pair taken is grouped with the other row of that pair, any other row with none.
LEMMA GroupIsPair ==
    ASSUME TypeOK
    PROVE  /\ \A p \in Matched : \A t \in PairMembers(p) : PairOf(Matched, t) = PairMembers(p)
           /\ \A t : PairOf(Matched, t) # {} => \E p \in Matched : t \in PairMembers(p)
<1>1. ASSUME NEW p \in Matched, NEW t \in PairMembers(p)
      PROVE  PairOf(Matched, t) = PairMembers(p)
  <2>1. PairMembers(p) \subseteq DOMAIN transactions
    BY MatchedIs, PairNumbers DEF PairMembers
  <2>2. PairMembers(p) \subseteq PairOf(Matched, t)
    BY <2>1 DEF PairOf
  <2>3. ASSUME NEW u \in PairOf(Matched, t) PROVE u \in PairMembers(p)
    <3>1. PICK q \in Matched : {t, u} \subseteq PairMembers(q)
      BY DEF PairOf
    <3>2. p = q
      BY <3>1, MatchedIs DEF Share
    <3> QED
      BY <3>1, <3>2
  <2> QED
    BY <2>2, <2>3
<1>2. \A t : PairOf(Matched, t) # {} => \E p \in Matched : t \in PairMembers(p)
  BY DEF PairOf
<1> QED
  BY <1>1, <1>2

\* Whether two rows can be paired depends on what no recompute writes.
SameMatter(x, y) ==
    /\ x.type = y.type /\ x.clock = y.clock /\ x.origin = y.origin /\ x.currency = y.currency
    /\ x.major = y.major /\ x.amount = y.amount

\* Such a row stays a candidate at its moment with its amount ...
LEMMA SameNumbers ==
    ASSUME NEW t, SameMatter(transactions'[t], transactions[t])
    PROVE  /\ Candidate(t)' <=> Candidate(t)
           /\ Moment(t)' = Moment(t)
           /\ Amount(t)' = Amount(t)
<1>1. EffectiveClock(transactions'[t]) = EffectiveClock(transactions[t])
  BY DEF SameMatter, EffectiveClock
<1> QED
  BY <1>1 DEF SameMatter, Candidate, TransferLike, Usable, Moment, Amount

\* ... and two of them stay pairable.
LEMMA SamePairable ==
    ASSUME NEW p, SameMatter(transactions'[p.out], transactions[p.out]),
           SameMatter(transactions'[p.in], transactions[p.in])
    PROVE  Pairable(p)' <=> Pairable(p)
<1>1. /\ Moment(p.out)' = Moment(p.out) /\ Amount(p.out)' = Amount(p.out)
      /\ Moment(p.in)' = Moment(p.in) /\ Amount(p.in)' = Amount(p.in)
  BY SameNumbers
<1>2. Distance(p)' = Distance(p) /\ Mismatch(p)' = Mismatch(p) /\ Largest(p)' = Largest(p)
  BY <1>1 DEF Distance, Mismatch, Largest
<1> QED
  BY <1>1, <1>2 DEF Pairable, SameMatter

\* Pairs of rows that were there were pairs.
LEMMA OldPairs ==
    ASSUME NEW p \in Pairs', p.out \in DOMAIN transactions, p.in \in DOMAIN transactions,
           \A t \in DOMAIN transactions : SameMatter(transactions'[t], transactions[t])
    PROVE  p \in Pairs
<1>1. /\ p = [out |-> p.out, in |-> p.in] /\ Pairable(p)'
      /\ Candidate(p.out)' /\ Candidate(p.in)'
  BY DEF Pairs
<1>2. Candidate(p.out) /\ Candidate(p.in) /\ Pairable(p)
  BY <1>1, SameNumbers, SamePairable
<1> QED
  BY <1>1, <1>2 DEF Pairs

\* What a recompute leaves of each row.
LEMMA RecomputedRows ==
    ASSUME TypeOK, RecomputeTransfers
    PROVE  /\ DOMAIN transactions' = DOMAIN transactions
           /\ \A t \in DOMAIN transactions :
                 /\ SameMatter(transactions'[t], transactions[t])
                 /\ transactions'[t].transfer = Flag(PairOf(Matched, t) # {})
                 /\ transactions'[t].group = PairOf(Matched, t)
<1>1. transactions' = Derived(Matched)
  BY DEF RecomputeTransfers
<1>2. DOMAIN transactions' = DOMAIN transactions
  BY <1>1 DEF Derived
<1>3. ASSUME NEW t \in DOMAIN transactions
      PROVE  /\ SameMatter(transactions'[t], transactions[t])
             /\ transactions'[t].transfer = Flag(PairOf(Matched, t) # {})
             /\ transactions'[t].group = PairOf(Matched, t)
  <2>1. transactions[t] \in Transactions
    BY DEF TypeOK
  <2>2. PICK c, y, g : /\ c = Flag(TransferLike(t)) /\ y = Flag(PairOf(Matched, t) # {})
                       /\ g = PairOf(Matched, t)
    OBVIOUS
  <2>3. transactions'[t] = [transactions[t] EXCEPT !.candidate = c, !.transfer = y, !.group = g]
    BY <1>1, <2>2 DEF Derived
  <2>4. PICK x \in Transactions : x = transactions[t]
    BY <2>1
  <2>5. PICK z : z = [x EXCEPT !.candidate = c, !.transfer = y, !.group = g]
    OBVIOUS
  <2>6. SameMatter(z, x) /\ z.transfer = y /\ z.group = g
    BY <2>4, <2>5 DEF Transactions, SameMatter
  <2>7. transactions'[t] = z
    BY <2>3, <2>4, <2>5
  <2> QED
    BY <2>2, <2>4, <2>6, <2>7
<1> QED
  BY <1>2, <1>3

\* A recompute makes the pairing sound whatever it was before.
LEMMA RecomputePairs ==
    ASSUME TypeOK, RecomputeTransfers
    PROVE  PairingIsSound'
<1>1. /\ DOMAIN transactions' = DOMAIN transactions
      /\ \A t \in DOMAIN transactions :
            /\ SameMatter(transactions'[t], transactions[t])
            /\ transactions'[t].transfer = Flag(PairOf(Matched, t) # {})
            /\ transactions'[t].group = PairOf(Matched, t)
  BY RecomputedRows
<1>2. ASSUME NEW p \in Matched
      PROVE  /\ p.out \in DOMAIN transactions /\ p.in \in DOMAIN transactions /\ p.out # p.in
             /\ \A t \in {p.out, p.in} : /\ transactions'[t].transfer = "yes"
                                         /\ transactions'[t].group = {p.out, p.in}
             /\ transactions'[p.out].currency = transactions'[p.in].currency
             /\ transactions'[p.out].amount < 0 /\ transactions'[p.in].amount > 0
             /\ transactions'[p.out].amount \in Int /\ transactions'[p.in].amount \in Int
  <2>1. p \in Pairs
    BY MatchedIs
  <2>2. /\ p.out \in DOMAIN transactions /\ p.in \in DOMAIN transactions /\ p.out # p.in
        /\ Pairable(p)
    BY <2>1, PairNumbers
  <2>3. \A t \in {p.out, p.in} : PairOf(Matched, t) = {p.out, p.in}
    BY GroupIsPair DEF PairMembers
  <2>4. \A t \in {p.out, p.in} : /\ transactions'[t].transfer = "yes"
                                 /\ transactions'[t].group = {p.out, p.in}
    BY <1>1, <2>2, <2>3 DEF Flag
  <2>5. /\ transactions[p.out].currency = transactions[p.in].currency
        /\ transactions[p.out].amount < 0 /\ transactions[p.in].amount > 0
        /\ transactions[p.out].amount \in Int /\ transactions[p.in].amount \in Int
    BY <2>2, RowNumbers DEF Pairable, Amount
  <2> QED
    BY <1>1, <2>2, <2>4, <2>5 DEF SameMatter
<1>3. ASSUME NEW t \in DOMAIN transactions', transactions'[t].transfer = "yes"
      PROVE  \E u \in DOMAIN transactions' \ {t} :
                /\ transactions'[t].group = {t, u} /\ transactions'[u].group = {t, u}
                /\ transactions'[u].transfer = "yes"
                /\ transactions'[t].currency = transactions'[u].currency
                /\ (transactions'[t].amount < 0) <=> (transactions'[u].amount > 0)
  <2>1. PairOf(Matched, t) # {}
    BY <1>1, <1>3 DEF Flag
  <2>2. PICK p \in Matched : t \in PairMembers(p)
    BY <2>1, GroupIsPair
  <2>3. CASE t = p.out
    <3>1. p.in \in DOMAIN transactions' \ {t}
      BY <1>1, <1>2, <2>3
    <3>2. {p.out, p.in} = {t, p.in}
      BY <2>3
    <3>3. (transactions'[t].amount < 0) <=> (transactions'[p.in].amount > 0)
      BY <1>2, <2>3
    <3> QED
      BY <1>2, <2>3, <3>1, <3>2, <3>3
  <2>4. CASE t = p.in
    <3>1. p.out \in DOMAIN transactions' \ {t}
      BY <1>1, <1>2, <2>4
    <3>2. {p.out, p.in} = {t, p.out}
      BY <2>4
    <3>3. (transactions'[t].amount < 0) <=> (transactions'[p.out].amount > 0)
      BY <1>2, <2>4
    <3> QED
      BY <1>2, <2>4, <3>1, <3>2, <3>3
  <2> QED
    BY <2>2, <2>3, <2>4 DEF PairMembers
<1>4. ASSUME NEW t \in DOMAIN transactions', transactions'[t].transfer # "yes"
      PROVE  transactions'[t].group = {}
  BY <1>1, <1>4 DEF Flag
<1>5. ASSUME NEW p \in Pairs'
      PROVE  \E t \in PairMembers(p) : transactions'[t].transfer \in {"yes", "null"}
  <2>1. p.out \in DOMAIN transactions /\ p.in \in DOMAIN transactions
    BY <1>1 DEF Pairs
  <2>2. p \in Pairs
    BY <1>1, <2>1, OldPairs
  <2>3. PICK q \in Matched : Share(p, q)
    BY <2>2, MatchedIs
  <2>4. PICK t : t \in PairMembers(p) /\ t \in PairMembers(q)
    BY <2>3 DEF Share
  <2>5. transactions'[t].transfer = "yes"
    BY <1>2, <2>4 DEF PairMembers
  <2> QED
    BY <2>4, <2>5
<1> QED
  BY <1>3, <1>4, <1>5 DEF PairingIsSound, PairMembers

\* New rows are undecided, so that the rows there stay paired as they were.
LEMMA PairingStays ==
    ASSUME TypeOK, PairingIsSound, DOMAIN transactions \subseteq DOMAIN transactions',
           \A t \in DOMAIN transactions : transactions'[t] = transactions[t],
           \A t \in DOMAIN transactions' \ DOMAIN transactions :
              transactions'[t].group = {} /\ transactions'[t].transfer = "null"
    PROVE  PairingIsSound'
<1>1. ASSUME NEW t \in DOMAIN transactions', transactions'[t].transfer = "yes"
      PROVE  \E u \in DOMAIN transactions' \ {t} :
                /\ transactions'[t].group = {t, u} /\ transactions'[u].group = {t, u}
                /\ transactions'[u].transfer = "yes"
                /\ transactions'[t].currency = transactions'[u].currency
                /\ (transactions'[t].amount < 0) <=> (transactions'[u].amount > 0)
  <2>1. t \in DOMAIN transactions /\ transactions[t].transfer = "yes"
    BY <1>1
  <2>2. PICK u \in DOMAIN transactions \ {t} :
           /\ transactions[t].group = {t, u} /\ transactions[u].group = {t, u}
           /\ transactions[u].transfer = "yes"
           /\ transactions[t].currency = transactions[u].currency
           /\ (transactions[t].amount < 0) <=> (transactions[u].amount > 0)
    BY <2>1 DEF PairingIsSound
  <2> QED
    BY <2>1, <2>2
<1>2. ASSUME NEW t \in DOMAIN transactions', transactions'[t].transfer # "yes"
      PROVE  transactions'[t].group = {}
  BY <1>2 DEF PairingIsSound
<1>3. ASSUME NEW p \in Pairs'
      PROVE  \E t \in PairMembers(p) : transactions'[t].transfer \in {"yes", "null"}
  <2>1. p.out \in DOMAIN transactions' /\ p.in \in DOMAIN transactions'
    BY DEF Pairs
  <2>2. CASE p.out \in DOMAIN transactions /\ p.in \in DOMAIN transactions
    <3>1. p \in Pairs
      BY <2>2, OldPairs DEF SameMatter
    <3>2. PICK t \in PairMembers(p) : transactions[t].transfer \in {"yes", "null"}
      BY <3>1 DEF PairingIsSound
    <3> QED
      BY <2>2, <3>2 DEF PairMembers
  <2>3. CASE ~(p.out \in DOMAIN transactions /\ p.in \in DOMAIN transactions)
    BY <2>1, <2>3 DEF PairMembers
  <2> QED
    BY <2>2, <2>3
<1> QED
  BY <1>1, <1>2, <1>3 DEF PairingIsSound, PairMembers

\* Rows appended by an import.
LEMMA PairingGrows ==
    ASSUME TypeOK, PairingIsSound, NEW n \in Nat, NEW f \in [1..n -> Transactions],
           \A i \in 1..n : f[i].group = {} /\ f[i].transfer = "null",
           transactions' = transactions \o f
    PROVE  PairingIsSound'
<1>1. transactions \in Seq(Transactions)
  BY DEF TypeOK
<1>2. PICK after : after = transactions \o f
  OBVIOUS
<1>3. /\ DOMAIN transactions \subseteq DOMAIN after
      /\ \A t \in DOMAIN transactions : after[t] = transactions[t]
      /\ \A t \in DOMAIN after \ DOMAIN transactions : after[t].group = {} /\ after[t].transfer = "null"
  <2>1. PICK s \in Seq(Transactions) : s = transactions
    BY <1>1
  <2>2. /\ DOMAIN s = 1..Len(s) /\ DOMAIN (s \o f) = 1..(Len(s) + n) /\ Len(s) \in Nat
        /\ \A i \in DOMAIN s : (s \o f)[i] = s[i]
        /\ \A i \in DOMAIN (s \o f) \ DOMAIN s :
              i - Len(s) \in 1..n /\ (s \o f)[i] = f[i - Len(s)]
    BY AppendedRows
  <2>3. DOMAIN s \subseteq DOMAIN (s \o f)
    BY <2>2
  <2> QED
    BY <1>2, <2>1, <2>2, <2>3
<1> QED
  BY <1>2, <1>3, PairingStays

\* Each command keeps the pairing sound.
LEMMA PairingStep ==
    ASSUME TablesInv, PairingIsSound, [Next]_vars
    PROVE  PairingIsSound'
<1>0. TypeOK
  BY DEF TablesInv
<1>1. ASSUME transactions' = transactions PROVE PairingIsSound'
  BY <1>0, <1>1, PairingStays
<1>2. ASSUME NEW document \in Documents, NEW d \in Staged(document),
             ImportFile(File("statement", d))
      PROVE  PairingIsSound'
  <2> DEFINE I == Created(tables, NoPreview, d)
             new == CreatedTransactions(d, I)
  <2>1. IsStagedDocument(d)
    BY <1>0, StagedDocument
  <2>2. /\ Cardinality(I) \in Nat
        /\ new \in [1..Cardinality(I) -> Transactions]
        /\ \A n \in 1..Cardinality(I) : new[n].group = {} /\ new[n].transfer = "null"
    BY <1>0, <2>1, CreatedRows
  <2>3. transactions' = transactions \o new
    BY <1>2, StatementImport
  <2>4. PICK n \in Nat : \E f \in [1..n -> Transactions] :
           f = new /\ \A i \in 1..n : f[i].group = {} /\ f[i].transfer = "null"
    <3> HIDE DEF new, I
    <3> QED
      BY <2>2
  <2>5. PICK f \in [1..n -> Transactions] :
           f = new /\ \A i \in 1..n : f[i].group = {} /\ f[i].transfer = "null"
    BY <2>4
  <2> QED
    BY <1>0, <2>3, <2>5, PairingGrows
<1>3. ASSUME NEW w \in Workbooks, ImportFile(File("workbook", w)) PROVE PairingIsSound'
  <2> DEFINE new == Inserted(w, transactions, Len(transactions))
  <2>1. transactions' = transactions \o new
    BY <1>3, WorkbookImport
  <2>2. PICK n \in Nat : /\ new \in [1..n -> Transactions]
                         /\ \A i \in 1..n : new[i].group = {} /\ new[i].transfer = "null"
    BY <1>0, InsertedRows
  <2>3. PICK f \in [1..n -> Transactions] :
           f = new /\ \A i \in 1..n : f[i].group = {} /\ f[i].transfer = "null"
    <3> HIDE DEF new
    <3> QED
      BY <2>2
  <2> QED
    BY <1>0, <2>1, <2>3, PairingGrows
<1>4. ASSUME NEW k, NEW a, NEW previous, BindAccount(k, a, previous) PROVE PairingIsSound'
  BY <1>1, <1>4 DEF BindAccount
<1>5. CASE RecomputeTransfers
  BY <1>0, <1>5, RecomputePairs
<1>6. ASSUME NEW items, ImportEvidence(items) PROVE PairingIsSound'
  BY <1>1, <1>6 DEF ImportEvidence
<1>7. ASSUME NEW eids, NEW pids, ConfirmAllocation(eids, pids) PROVE PairingIsSound'
  BY <1>1, <1>7 DEF ConfirmAllocation
<1>8. ASSUME NEW a, WithdrawAllocation(a) PROVE PairingIsSound'
  BY <1>1, <1>8 DEF WithdrawAllocation
<1>9. ASSUME NEW period, ClosePeriod(period) \/ ReopenPeriod(period) PROVE PairingIsSound'
  BY <1>1, <1>9 DEF ClosePeriod, ReopenPeriod
<1>10. CASE UNCHANGED vars
  BY <1>1, <1>10 DEF vars
<1> QED
  BY <1>2, <1>3, <1>4, <1>5, <1>6, <1>7, <1>8, <1>9, <1>10 DEF Next

\* Transfers are confirmed in mutual pairs of opposite sign and one currency, and a recompute
\* leaves no two rows unpaired that it could have paired, for any table, window and tolerance
\* (pair_exact_transfer_candidates, _derived_after).
THEOREM BooksPairingIsSound == Spec => []PairingIsSound
<1>1. Init => PairingIsSound
  BY DEF Init, PairingIsSound, Pairs
<1>2. TablesInv /\ [Next]_vars => TablesInv'
  BY TablesStep
<1>3. TablesInv /\ PairingIsSound /\ [Next]_vars => PairingIsSound'
  BY PairingStep
<1> QED
  BY <1>1, <1>2, <1>3, TablesStart, PTL DEF Spec

----------------------------------------------------------------------------
(* Previews.                                                               *)

\* What a preview has seen of the tables: the transactions linked to an external id and the
\* contents its rows have.
LinkedIn(T, s, x) ==
    {r.transaction : r \in {q \in T.records : /\ q.source = s /\ q.content.external = x
                                              /\ q.transaction # None}}
ContentsIn(T, s, x) == {r.content : r \in {q \in T.records : q.source = s /\ q.content.external = x}}
Some(S) == CHOOSE t \in S : TRUE
Mapped(P, s, x) == <<s, x>> \in DOMAIN P.mappings

LEMMA KnownIs ==
    ASSUME NEW T, NEW P, NEW s, NEW x
    PROVE  /\ Known(T, P, s, x).transaction =
                 IF LinkedIn(T, s, x) # {} THEN Some(LinkedIn(T, s, x))
                 ELSE IF Mapped(P, s, x) THEN P.mappings[<<s, x>>].transaction ELSE None
           /\ Known(T, P, s, x).contents =
                 IF Mapped(P, s, x) THEN ContentsIn(T, s, x) \cup P.mappings[<<s, x>>].contents
                 ELSE ContentsIn(T, s, x)
<1> DEFINE rows == {r \in T.records : r.source = s /\ r.content.external = x}
           linked == {r.transaction : r \in {q \in rows : q.transaction # None}}
           staged == {m \in DOMAIN P.mappings : m = <<s, x>>}
<1>1. linked = LinkedIn(T, s, x)
  BY DEF LinkedIn
<1>2. {r.content : r \in rows} = ContentsIn(T, s, x)
  BY DEF ContentsIn
<1>3. staged = IF Mapped(P, s, x) THEN {<<s, x>>} ELSE {}
  BY DEF Mapped
<1>4. UNION {P.mappings[m].contents : m \in staged} =
        IF Mapped(P, s, x) THEN P.mappings[<<s, x>>].contents ELSE {}
  BY <1>3
<1>5. Known(T, P, s, x) =
        [transaction |->
           IF linked # {} THEN CHOOSE t \in linked : TRUE
           ELSE IF staged # {} THEN P.mappings[<<s, x>>].transaction
           ELSE None,
         contents |-> {r.content : r \in rows} \cup UNION {P.mappings[m].contents : m \in staged}]
  BY DEF Known
<1>6. Some(linked) = CHOOSE t \in linked : TRUE
  BY DEF Some
<1>8. {r.content : r \in rows} \cup UNION {P.mappings[m].contents : m \in staged} =
        IF Mapped(P, s, x) THEN {r.content : r \in rows} \cup P.mappings[<<s, x>>].contents
        ELSE {r.content : r \in rows}
  <2> HIDE DEF rows, staged
  <2> QED
    BY <1>4
<1> HIDE DEF rows, linked, staged
<1>7. Known(T, P, s, x) =
        [transaction |->
           IF linked # {} THEN Some(linked)
           ELSE IF staged # {} THEN P.mappings[<<s, x>>].transaction
           ELSE None,
         contents |-> {r.content : r \in rows} \cup UNION {P.mappings[m].contents : m \in staged}]
  BY <1>5, <1>6
<1> QED
  BY <1>1, <1>2, <1>3, <1>7, <1>8

LEMMA KnownMapped ==
    ASSUME NEW T, NEW P, NEW s, NEW x, Mapped(P, s, x)
    PROVE  /\ Known(T, P, s, x).transaction =
                 IF LinkedIn(T, s, x) # {} THEN Some(LinkedIn(T, s, x))
                 ELSE P.mappings[<<s, x>>].transaction
           /\ Known(T, P, s, x).contents = ContentsIn(T, s, x) \cup P.mappings[<<s, x>>].contents
BY KnownIs

LEMMA KnownUnmapped ==
    ASSUME NEW T, NEW P, NEW s, NEW x, ~Mapped(P, s, x)
    PROVE  /\ Known(T, P, s, x).transaction =
                 IF LinkedIn(T, s, x) # {} THEN Some(LinkedIn(T, s, x)) ELSE None
           /\ Known(T, P, s, x).contents = ContentsIn(T, s, x)
BY KnownIs

LEMMA KnownRecord ==
    ASSUME NEW T, NEW P, NEW s, NEW x
    PROVE  \E k, c : Known(T, P, s, x) = [transaction |-> k, contents |-> c]
BY DEF Known

LEMMA KnownSame ==
    ASSUME NEW T, NEW P, NEW U, NEW Q, NEW s, NEW x,
           Known(T, P, s, x).transaction = Known(U, Q, s, x).transaction,
           Known(T, P, s, x).contents = Known(U, Q, s, x).contents
    PROVE  Known(T, P, s, x) = Known(U, Q, s, x)
<1>1. PICK k, c : Known(T, P, s, x) = [transaction |-> k, contents |-> c]
  BY KnownRecord
<1>2. PICK l, e : Known(U, Q, s, x) = [transaction |-> l, contents |-> e]
  BY KnownRecord
<1>3. k = l /\ c = e
  BY <1>1, <1>2
<1> QED
  BY <1>1, <1>2, <1>3

\* Without a preview.
LEMMA KnownOfTables ==
    ASSUME NEW T, NEW s, NEW x
    PROVE  /\ Known(T, NoPreview, s, x).transaction =
                 IF LinkedIn(T, s, x) # {} THEN Some(LinkedIn(T, s, x)) ELSE None
           /\ Known(T, NoPreview, s, x).contents = ContentsIn(T, s, x)
           /\ Known(T, NoPreview, s, x).transaction = None <=> LinkedIn(T, s, x) = {}
<1>1. ~Mapped(NoPreview, s, x)
  BY DEF Mapped, NoPreview
<1>2. None \notin LinkedIn(T, s, x)
  BY DEF LinkedIn
<1>3. LinkedIn(T, s, x) # {} => Some(LinkedIn(T, s, x)) \in LinkedIn(T, s, x)
  BY DEF Some
<1> QED
  BY <1>1, <1>2, <1>3, KnownIs

----------------------------------------------------------------------------
(* A preview P of the tables T stands for the tables U that a run has reached. *)

Stands(T, P, U) ==
    /\ P = [mappings |-> P.mappings, documents |-> P.documents,
            identities |-> P.identities, completed |-> P.completed]
    /\ IsTable(T.transactions) /\ IsTable(P.identities)
    /\ U.transactions = T.transactions \o P.identities
    /\ U.documents = T.documents \cup P.documents
    /\ U.workbooks = T.workbooks \cup P.completed
    /\ \A s, x : Known(T, P, s, x) = Known(U, NoPreview, s, x)

\* The records of an external id have one content, the rows of a recorded document have a
\* record, and a completed workbook has a count of the rows it inserted.
Consistent(U) ==
    /\ U = [records |-> U.records, documents |-> U.documents, workbooks |-> U.workbooks,
            transactions |-> U.transactions]
    /\ \A s, x : \A c, e \in ContentsIn(U, s, x) : c = e
    /\ \A d \in U.documents : \A i \in DOMAIN d.rows :
          Content(d.rows[i]) \in ContentsIn(U, d.source, d.rows[i].external)
    /\ \A c \in U.workbooks : "inserted" \in DOMAIN c.counts

\* A document all of whose links aim at transactions of T.
Plannable(T, d) ==
    /\ DOMAIN d.rows \subseteq Nat /\ IsFiniteSet(DOMAIN d.rows)
    /\ \A i, j \in DOMAIN d.rows : d.rows[i].external = d.rows[j].external => i = j
    /\ \A i \in DOMAIN d.rows :
          d.rows[i].action = "link" => d.rows[i].target \in DOMAIN T.transactions

LEMMA TablesAppended ==
    ASSUME NEW a, NEW b, IsTable(a), IsTable(b)
    PROVE  /\ IsTable(a \o b) /\ Len(a \o b) = Len(a) + Len(b)
           /\ \A i \in DOMAIN a : i \in DOMAIN (a \o b) /\ (a \o b)[i] = a[i]
<1> DEFINE S == {a[i] : i \in 1..Len(a)} \cup {b[i] : i \in 1..Len(b)}
<1>1. a \in Seq(S) /\ b \in Seq(S)
  BY DEF IsTable
<1> HIDE DEF S
<1>2. /\ a \o b \in Seq(S) /\ Len(a \o b) = Len(a) + Len(b)
      /\ \A i \in 1..(Len(a) + Len(b)) : (a \o b)[i] = IF i <= Len(a) THEN a[i] ELSE b[i - Len(a)]
  BY <1>1, ConcatProperties
<1>3. /\ DOMAIN a = 1..Len(a) /\ Len(a) \in Nat /\ Len(b) \in Nat
      /\ DOMAIN (a \o b) = 1..(Len(a) + Len(b))
  BY <1>1, <1>2
<1>4. IsTable(a \o b)
  <2>1. PICK c \in Seq(S) : c = a \o b
    BY <1>2
  <2>2. IsTable(c)
    BY DEF IsTable
  <2> QED
    BY <2>1, <2>2
<1> QED
  BY <1>2, <1>3, <1>4

LEMMA TablesAssociate ==
    ASSUME NEW a, NEW b, NEW c, IsTable(a), IsTable(b), IsTable(c)
    PROVE  (a \o b) \o c = a \o (b \o c)
<1> DEFINE S == {a[i] : i \in 1..Len(a)} \cup {b[i] : i \in 1..Len(b)} \cup {c[i] : i \in 1..Len(c)}
<1>1. a \in Seq(S) /\ b \in Seq(S) /\ c \in Seq(S)
  BY DEF IsTable
<1> HIDE DEF S
<1> QED
  BY <1>1, ConcatAssociative

LEMMA TableOf ==
    ASSUME NEW n \in Nat, NEW f, f = [i \in 1..n |-> f[i]]
    PROVE  IsTable(f) /\ Len(f) = n
<1> DEFINE S == {f[i] : i \in 1..n}
<1>1. f \in [1..n -> S]
  OBVIOUS
<1> HIDE DEF S
<1>2. f \in Seq(S) /\ Len(f) = n
  BY <1>1
<1> QED
  BY <1>2 DEF IsTable

----------------------------------------------------------------------------
(* The plan of a document is the same by a preview.                        *)

LEMMA SamePlan ==
    ASSUME NEW T, NEW P, NEW U, Stands(T, P, U), NEW d, Plannable(T, d)
    PROVE  /\ Refusals(T, P, d) = Refusals(U, NoPreview, d)
           /\ \A i \in DOMAIN d.rows : /\ RowErrors(T, P, d, d.rows[i]) = RowErrors(U, NoPreview, d, d.rows[i])
                                       /\ Fate(T, P, d, d.rows[i]) = Fate(U, NoPreview, d, d.rows[i])
           /\ Created(T, P, d) = Created(U, NoPreview, d)
           /\ Tally(T, P, d) = Tally(U, NoPreview, d)
           /\ \A i \in DOMAIN d.rows : \A length :
                 TransactionOf(T, P, d, i, length) = TransactionOf(U, NoPreview, d, i, length)
<1>1. \A s, x : Known(T, P, s, x) = Known(U, NoPreview, s, x)
  BY DEF Stands
<1>2. ASSUME NEW i \in DOMAIN d.rows, d.rows[i].action = "link"
      PROVE  LinkFits(T, d.rows[i]) <=> LinkFits(U, d.rows[i])
  <2>1. d.rows[i].target \in DOMAIN T.transactions
    BY <1>2 DEF Plannable
  <2>2. /\ d.rows[i].target \in DOMAIN U.transactions
        /\ U.transactions[d.rows[i].target] = T.transactions[d.rows[i].target]
    BY <2>1, TablesAppended DEF Stands
  <2> QED
    BY <2>1, <2>2 DEF LinkFits
<1>3. ASSUME NEW i \in DOMAIN d.rows
      PROVE  /\ RowErrors(T, P, d, d.rows[i]) = RowErrors(U, NoPreview, d, d.rows[i])
             /\ Fate(T, P, d, d.rows[i]) = Fate(U, NoPreview, d, d.rows[i])
  <2>1. Known(T, P, d.source, d.rows[i].external) = Known(U, NoPreview, d.source, d.rows[i].external)
    BY <1>1
  <2>2. Fate(T, P, d, d.rows[i]) = Fate(U, NoPreview, d, d.rows[i])
    BY <2>1 DEF Fate
  <2>3. RowErrors(T, P, d, d.rows[i]) = RowErrors(U, NoPreview, d, d.rows[i])
    BY <1>2, <2>1 DEF RowErrors
  <2> QED
    BY <2>2, <2>3
<1>4. Refusals(T, P, d) = Refusals(U, NoPreview, d)
  BY <1>3 DEF Refusals
<1>5. Created(T, P, d) = Created(U, NoPreview, d)
  BY <1>3 DEF Created
<1>6. Tally(T, P, d) = Tally(U, NoPreview, d)
  BY <1>3 DEF Tally
<1>7. ASSUME NEW i \in DOMAIN d.rows, NEW length
      PROVE  TransactionOf(T, P, d, i, length) = TransactionOf(U, NoPreview, d, i, length)
  BY <1>1, <1>3, <1>5 DEF TransactionOf
<1> QED
  BY <1>3, <1>4, <1>5, <1>6, <1>7

----------------------------------------------------------------------------
(* What a document leaves to be known of its rows.                         *)

Transaction(U, d, i) == TransactionOf(U, NoPreview, d, i, Len(U.transactions))
NewRecord(U, d, i) ==
    [source |-> d.source, content |-> Content(d.rows[i]), transaction |-> Transaction(U, d, i)]
NewRecords(U, d) == {NewRecord(U, d, i) : i \in DOMAIN d.rows}
Applied(U, V, d) == V.records = U.records \cup NewRecords(U, d)
Names(d, s, x) == s = d.source /\ \E i \in DOMAIN d.rows : x = d.rows[i].external

\* The rows of a document that is applied are known as they were applied.
LEMMA KnownAfterRun ==
    ASSUME NEW T, NEW U, NEW V, NEW d, Plannable(T, d),
           Applied(U, V, d)
    PROVE  /\ \A i \in DOMAIN d.rows :
                 /\ Known(V, NoPreview, d.source, d.rows[i].external).transaction = Transaction(U, d, i)
                 /\ ContentsIn(V, d.source, d.rows[i].external) =
                       ContentsIn(U, d.source, d.rows[i].external) \cup {Content(d.rows[i])}
           /\ \A s, x : ~Names(d, s, x) =>
                 /\ Known(V, NoPreview, s, x) = Known(U, NoPreview, s, x)
                 /\ ContentsIn(V, s, x) = ContentsIn(U, s, x)
<1>1. PICK tx : tx = [i \in DOMAIN d.rows |-> Transaction(U, d, i)]
  OBVIOUS
<1> DEFINE new(i) == [source |-> d.source, content |-> Content(d.rows[i]), transaction |-> tx[i]]
<1>2. V.records = U.records \cup {new(i) : i \in DOMAIN d.rows}
  BY <1>1 DEF Applied, NewRecords, NewRecord
<1>3. \A i \in DOMAIN d.rows : /\ new(i).source = d.source
                               /\ new(i).content.external = d.rows[i].external
                               /\ new(i).content = Content(d.rows[i])
                               /\ new(i).transaction = tx[i]
  BY DEF Content
<1> HIDE DEF new
<1>4. ASSUME NEW s, NEW x, ~Names(d, s, x)
      PROVE  LinkedIn(V, s, x) = LinkedIn(U, s, x) /\ ContentsIn(V, s, x) = ContentsIn(U, s, x)
  BY <1>2, <1>3, <1>4 DEF LinkedIn, ContentsIn, Names
<1>5. ASSUME NEW s, NEW x, ~Names(d, s, x)
      PROVE  Known(V, NoPreview, s, x) = Known(U, NoPreview, s, x)
  <2>1. /\ Known(V, NoPreview, s, x).transaction = Known(U, NoPreview, s, x).transaction
        /\ Known(V, NoPreview, s, x).contents = Known(U, NoPreview, s, x).contents
    BY <1>4, <1>5, KnownOfTables
  <2> QED
    BY <2>1, KnownSame
<1>6. ASSUME NEW i \in DOMAIN d.rows
      PROVE  /\ LinkedIn(V, d.source, d.rows[i].external) =
                   LinkedIn(U, d.source, d.rows[i].external) \cup ({tx[i]} \ {None})
             /\ ContentsIn(V, d.source, d.rows[i].external) =
                   ContentsIn(U, d.source, d.rows[i].external) \cup {Content(d.rows[i])}
  <2>1. \A j \in DOMAIN d.rows : d.rows[i].external = d.rows[j].external => i = j
    BY DEF Plannable
  <2> QED
    BY <1>2, <1>3, <2>1 DEF LinkedIn, ContentsIn
<1>7. ASSUME NEW i \in DOMAIN d.rows
      PROVE  Known(V, NoPreview, d.source, d.rows[i].external).transaction = tx[i]
  <2> DEFINE s == d.source
             x == d.rows[i].external
  <2>1. CASE LinkedIn(U, s, x) = {}
    <3>1. CASE tx[i] = None
      BY <1>6, <2>1, <3>1, KnownOfTables
    <3>2. CASE tx[i] # None
      <4>1. LinkedIn(V, s, x) = {tx[i]}
        BY <1>6, <2>1, <3>2
      <4> QED
        BY <4>1, KnownOfTables DEF Some
    <3> QED
      BY <3>1, <3>2
  <2>2. CASE LinkedIn(U, s, x) # {}
    <3>1. Known(U, NoPreview, s, x).transaction # None
      BY <2>2, KnownOfTables
    <3>2. Fate(U, NoPreview, d, d.rows[i]) = "reused"
      BY <3>1 DEF Fate
    <3>3. tx[i] = Known(U, NoPreview, s, x).transaction
      BY <1>1, <3>2 DEF Transaction, TransactionOf
    <3>4. tx[i] = Some(LinkedIn(U, s, x))
      BY <2>2, <3>3, KnownOfTables
    <3>5. tx[i] \in LinkedIn(U, s, x)
      BY <2>2, <3>4 DEF Some
    <3>6. LinkedIn(V, s, x) = LinkedIn(U, s, x)
      BY <1>6, <3>5
    <3> QED
      BY <2>2, <3>4, <3>6, KnownOfTables
  <2> QED
    BY <2>1, <2>2
<1> QED
  BY <1>1, <1>4, <1>5, <1>6, <1>7

Remembered(T, P, U, d, Q) ==
    /\ Q = [mappings |-> Q.mappings, documents |-> P.documents \cup {d},
            identities |-> P.identities \o CreatedTransactions(d, Created(U, NoPreview, d)),
            completed |-> P.completed]
    /\ \A i \in DOMAIN d.rows :
          /\ Known(T, Q, d.source, d.rows[i].external).transaction = Transaction(U, d, i)
          /\ Known(T, Q, d.source, d.rows[i].external).contents =
                ContentsIn(T, d.source, d.rows[i].external) \cup {Content(d.rows[i])}
    /\ \A s, x : ~Names(d, s, x) => Known(T, Q, s, x) = Known(T, P, s, x)

\* A preview that remembers a document knows of its rows what applying it makes known.
LEMMA KnownAfterPreview ==
    ASSUME NEW T, NEW P, NEW U, Stands(T, P, U), NEW d, Plannable(T, d)
    PROVE  Remembered(T, P, U, d, Remember(T, P, d))
<1>0. PICK Q : Q = Remember(T, P, d)
  OBVIOUS
<1> DEFINE length == Len(T.transactions) + Len(P.identities)
           place(m) == CHOOSE i \in DOMAIN d.rows : m = <<d.source, d.rows[i].external>>
           mapped == {<<d.source, row.external>> : row \in ToSet(d.rows)}
           mapping(m) == [transaction |-> TransactionOf(T, P, d, place(m), length),
                          contents |-> {Content(d.rows[place(m)])}]
<1>1. /\ Q = [mappings |-> [m \in mapped \cup DOMAIN P.mappings |->
                              IF m \in mapped THEN mapping(m) ELSE P.mappings[m]],
              documents |-> P.documents \cup {d},
              identities |-> P.identities \o CreatedTransactions(d, Created(T, P, d)),
              completed |-> P.completed]
  <2>1. PICK maps, ids :
           /\ maps = [m \in mapped \cup DOMAIN P.mappings |->
                         IF m \in mapped THEN mapping(m) ELSE P.mappings[m]]
           /\ ids = P.identities \o CreatedTransactions(d, Created(T, P, d))
    OBVIOUS
  <2>2. Q = [P EXCEPT !.mappings = maps, !.identities = ids, !.documents = P.documents \cup {d}]
    BY <1>0, <2>1 DEF Remember
  <2>3. P = [mappings |-> P.mappings, documents |-> P.documents, identities |-> P.identities,
             completed |-> P.completed]
    BY DEF Stands
  <2>4. Q = [mappings |-> maps, documents |-> P.documents \cup {d}, identities |-> ids,
             completed |-> P.completed]
    BY <2>2, <2>3
  <2> QED
    BY <2>1, <2>4
<1>2. Created(T, P, d) = Created(U, NoPreview, d)
  BY SamePlan
<1>3. \A s, x : <<s, x>> \in mapped <=> Names(d, s, x)
  BY DEF ToSet, Names
<1>4. length = Len(U.transactions)
  BY TablesAppended DEF Stands
<1>5. ASSUME NEW i \in DOMAIN d.rows
      PROVE  /\ mapping(<<d.source, d.rows[i].external>>).transaction = Transaction(U, d, i)
             /\ mapping(<<d.source, d.rows[i].external>>).contents = {Content(d.rows[i])}
  <2>1. \A j \in DOMAIN d.rows :
           <<d.source, d.rows[i].external>> = <<d.source, d.rows[j].external>> => j = i
    BY DEF Plannable
  <2>2. place(<<d.source, d.rows[i].external>>) = i
    BY <2>1
  <2>3. TransactionOf(T, P, d, i, length) = Transaction(U, d, i)
    <3> HIDE DEF length
    <3> QED
      BY <1>4, SamePlan DEF Transaction
  <2>4. mapping(<<d.source, d.rows[i].external>>) =
          [transaction |-> TransactionOf(T, P, d, i, length), contents |-> {Content(d.rows[i])}]
    <3> HIDE DEF place, length
    <3> QED
      BY <2>2
  <2> HIDE DEF mapping, length
  <2> QED
    BY <2>3, <2>4
<1> HIDE DEF mapping, mapped
<1>6. /\ DOMAIN Q.mappings = mapped \cup DOMAIN P.mappings
      /\ \A m \in mapped : Q.mappings[m] = mapping(m)
      /\ \A m \in DOMAIN P.mappings \ mapped : Q.mappings[m] = P.mappings[m]
  BY <1>1
<1>7. ASSUME NEW s, NEW x, ~Names(d, s, x) PROVE Known(T, Q, s, x) = Known(T, P, s, x)
  <2>1. <<s, x>> \notin mapped
    BY <1>3, <1>7
  <2>2. Mapped(Q, s, x) <=> Mapped(P, s, x)
    BY <1>6, <2>1 DEF Mapped
  <2>3. Mapped(P, s, x) => Q.mappings[<<s, x>>] = P.mappings[<<s, x>>]
    BY <1>6, <2>1 DEF Mapped
  <2>4. CASE Mapped(P, s, x)
    <3>1. Mapped(Q, s, x)
      BY <2>2, <2>4
    <3>2. /\ Known(T, Q, s, x).transaction =
                 IF LinkedIn(T, s, x) # {} THEN Some(LinkedIn(T, s, x))
                 ELSE Q.mappings[<<s, x>>].transaction
          /\ Known(T, Q, s, x).contents = ContentsIn(T, s, x) \cup Q.mappings[<<s, x>>].contents
      BY <3>1, KnownIs
    <3>3. /\ Known(T, P, s, x).transaction =
                 IF LinkedIn(T, s, x) # {} THEN Some(LinkedIn(T, s, x))
                 ELSE P.mappings[<<s, x>>].transaction
          /\ Known(T, P, s, x).contents = ContentsIn(T, s, x) \cup P.mappings[<<s, x>>].contents
      BY <2>4, KnownIs
    <3>4. Q.mappings[<<s, x>>] = P.mappings[<<s, x>>]
      BY <2>3, <2>4
    <3>5. /\ Known(T, Q, s, x).transaction = Known(T, P, s, x).transaction
          /\ Known(T, Q, s, x).contents = Known(T, P, s, x).contents
      BY <3>2, <3>3, <3>4
    <3> QED
      BY <3>5, KnownSame
  <2>5. CASE ~Mapped(P, s, x)
    <3>1. /\ Known(T, Q, s, x).transaction = Known(T, P, s, x).transaction
          /\ Known(T, Q, s, x).contents = Known(T, P, s, x).contents
      BY <2>2, <2>5, KnownUnmapped
    <3> QED
      BY <3>1, KnownSame
  <2> QED
    BY <2>4, <2>5
<1>8. ASSUME NEW i \in DOMAIN d.rows
      PROVE  /\ Known(T, Q, d.source, d.rows[i].external).transaction = Transaction(U, d, i)
             /\ Known(T, Q, d.source, d.rows[i].external).contents =
                   ContentsIn(T, d.source, d.rows[i].external) \cup {Content(d.rows[i])}
  <2>1. PICK s, x : s = d.source /\ x = d.rows[i].external
    OBVIOUS
  <2>2. <<s, x>> \in mapped
    BY <1>3, <2>1 DEF Names
  <2>3. /\ Mapped(Q, s, x)
        /\ Q.mappings[<<s, x>>].transaction = Transaction(U, d, i)
        /\ Q.mappings[<<s, x>>].contents = {Content(d.rows[i])}
    BY <1>5, <1>6, <2>1, <2>2 DEF Mapped
  <2>4. Known(T, Q, s, x).contents = ContentsIn(T, s, x) \cup {Content(d.rows[i])}
    BY <2>3, KnownIs
  <2>5. Known(T, Q, s, x).transaction = Transaction(U, d, i)
    <3>1. CASE LinkedIn(T, s, x) = {}
      BY <2>3, <3>1, KnownIs
    <3>2. CASE LinkedIn(T, s, x) # {}
      <4>1. /\ Known(T, Q, s, x).transaction = Some(LinkedIn(T, s, x))
            /\ Known(T, P, s, x).transaction = Some(LinkedIn(T, s, x))
        BY <3>2, KnownIs
      <4>2. Known(T, P, s, x).transaction # None
        BY <3>2, <4>1 DEF LinkedIn, Some
      <4>3. Known(T, P, s, x) = Known(U, NoPreview, s, x)
        BY DEF Stands
      <4>4. Transaction(U, d, i) = Known(U, NoPreview, s, x).transaction
        BY <2>1, <4>2, <4>3 DEF Transaction, TransactionOf, Fate
      <4> QED
        BY <4>1, <4>3, <4>4
    <3> QED
      BY <3>1, <3>2
  <2> QED
    BY <2>1, <2>4, <2>5
<1>9. Q = [mappings |-> Q.mappings, documents |-> P.documents \cup {d},
           identities |-> P.identities \o CreatedTransactions(d, Created(U, NoPreview, d)),
           completed |-> P.completed]
  BY <1>1, <1>2
<1> QED
  BY <1>0, <1>7, <1>8, <1>9 DEF Remembered

\* A row that is not in error has the content that its external id has.
LEMMA ContentAgrees ==
    ASSUME NEW U, Consistent(U), NEW d, NEW i \in DOMAIN d.rows,
           RowErrors(U, NoPreview, d, d.rows[i]) = {}
    PROVE  ContentsIn(U, d.source, d.rows[i].external) \subseteq {Content(d.rows[i])}
<1> DEFINE known == Known(U, NoPreview, d.source, d.rows[i].external)
<1>1. known.contents = {} \/ Content(d.rows[i]) \in known.contents
  BY DEF RowErrors
<1>2. known.contents = ContentsIn(U, d.source, d.rows[i].external)
  BY KnownOfTables
<1> QED
  BY <1>1, <1>2 DEF Consistent

\* Contents seen in the tables of a preview are in the tables a run has reached.
LEMMA ContentsStay ==
    ASSUME NEW T, NEW P, NEW U, Stands(T, P, U), NEW s, NEW x
    PROVE  ContentsIn(T, s, x) \subseteq ContentsIn(U, s, x)
<1>1. ContentsIn(T, s, x) \subseteq Known(T, P, s, x).contents
  BY KnownIs
<1>2. Known(T, P, s, x) = Known(U, NoPreview, s, x)
  BY DEF Stands
<1>3. Known(U, NoPreview, s, x).contents = ContentsIn(U, s, x)
  BY KnownOfTables
<1> QED
  BY <1>1, <1>2, <1>3

\* As many transactions are created as the receipt counts.
LEMMA CreatedCounted ==
    ASSUME NEW U, NEW d, IsFiniteSet(DOMAIN d.rows)
    PROVE  LET n == Tally(U, NoPreview, d)["created"]
               new == CreatedTransactions(d, Created(U, NoPreview, d))
           IN /\ n \in Nat /\ n = Cardinality(Created(U, NoPreview, d))
              /\ IsTable(new) /\ Len(new) = n
              /\ NewRows(Receipt(Tally(U, NoPreview, d), TRUE)) = n
              /\ NewRows(Receipt(Tally(U, NoPreview, d), FALSE)) = n
<1>1. PICK counts : counts = Tally(U, NoPreview, d)
  OBVIOUS
<1>2. PICK I : I = Created(U, NoPreview, d)
  OBVIOUS
<1>3. IsFiniteSet(I) /\ Cardinality(I) \in Nat
  BY <1>2, FS_Subset, FS_CardinalityType DEF Created
<1>4. DOMAIN counts = {"created", "linked", "reused", "pending"} /\ counts["created"] = Cardinality(I)
  BY <1>1, <1>2 DEF Tally, Created
<1>5. NewRows(Receipt(counts, TRUE)) = counts["created"]
  BY <1>4 DEF NewRows, Receipt
<1>6. NewRows(Receipt(counts, FALSE)) = counts["created"]
  BY <1>4 DEF NewRows, Receipt
<1>7. PICK new : new = CreatedTransactions(d, I)
  OBVIOUS
<1>8. new = [n \in 1..Cardinality(I) |-> new[n]]
  BY <1>7 DEF CreatedTransactions
<1>9. IsTable(new) /\ Len(new) = Cardinality(I)
  BY <1>3, <1>8, TableOf
<1> QED
  BY <1>1, <1>2, <1>3, <1>4, <1>5, <1>6, <1>7, <1>9

\* What an import does to consistent tables leaves them consistent.
LEMMA AppliedConsistent ==
    ASSUME NEW T, NEW U, Consistent(U), NEW d, Plannable(T, d), Refusals(U, NoPreview, d) = {}
    PROVE  LET V == AppliedTables(U, d)
           IN /\ V = [records |-> U.records \cup NewRecords(U, d),
                      documents |-> U.documents \cup {d}, workbooks |-> U.workbooks,
                      transactions |-> U.transactions
                         \o CreatedTransactions(d, Created(U, NoPreview, d))]
              /\ Consistent(V)
<1>1. PICK V : V = AppliedTables(U, d)
  OBVIOUS
<1>2. V = [records |-> U.records \cup NewRecords(U, d),
           documents |-> U.documents \cup {d}, workbooks |-> U.workbooks,
           transactions |-> U.transactions \o CreatedTransactions(d, Created(U, NoPreview, d))]
  <2>1. PICK rows, more : /\ rows = NewRecords(U, d)
                          /\ more = CreatedTransactions(d, Created(U, NoPreview, d))
    OBVIOUS
  <2>2. V = [U EXCEPT !.documents = U.documents \cup {d}, !.records = U.records \cup rows,
                      !.transactions = U.transactions \o more]
    BY <1>1, <2>1 DEF AppliedTables, NewRecords, NewRecord, Transaction
  <2>3. U = [records |-> U.records, documents |-> U.documents, workbooks |-> U.workbooks,
             transactions |-> U.transactions]
    BY DEF Consistent
  <2>4. V = [records |-> U.records \cup rows, documents |-> U.documents \cup {d},
             workbooks |-> U.workbooks, transactions |-> U.transactions \o more]
    BY <2>2, <2>3
  <2> QED
    BY <2>1, <2>4
<1>3. /\ V.records = U.records \cup NewRecords(U, d)
      /\ V.documents = U.documents \cup {d} /\ V.workbooks = U.workbooks
      /\ V = [records |-> V.records, documents |-> V.documents, workbooks |-> V.workbooks,
              transactions |-> V.transactions]
  BY <1>2
<1>4. /\ \A i \in DOMAIN d.rows : ContentsIn(V, d.source, d.rows[i].external) =
             ContentsIn(U, d.source, d.rows[i].external) \cup {Content(d.rows[i])}
      /\ \A s, x : ~Names(d, s, x) => ContentsIn(V, s, x) = ContentsIn(U, s, x)
  <2>1. Applied(U, V, d)
    BY <1>3 DEF Applied
  <2> QED
    BY <2>1, KnownAfterRun
<1>5. ASSUME NEW i \in DOMAIN d.rows
      PROVE  ContentsIn(V, d.source, d.rows[i].external) = {Content(d.rows[i])}
  <2>1. RowErrors(U, NoPreview, d, d.rows[i]) = {}
    BY NoRowFails DEF Plannable
  <2> QED
    BY <1>4, <2>1, ContentAgrees
<1>6. ASSUME NEW s, NEW x, NEW c \in ContentsIn(V, s, x), NEW e \in ContentsIn(V, s, x)
      PROVE  c = e
  <2>1. CASE Names(d, s, x)
    <3>1. PICK i \in DOMAIN d.rows : s = d.source /\ x = d.rows[i].external
      BY <2>1 DEF Names
    <3> QED
      BY <1>5, <1>6, <3>1
  <2>2. CASE ~Names(d, s, x)
    BY <1>4, <1>6, <2>2 DEF Consistent
  <2> QED
    BY <2>1, <2>2
<1>7. ASSUME NEW s, NEW x PROVE ContentsIn(U, s, x) \subseteq ContentsIn(V, s, x)
  BY <1>3 DEF ContentsIn
<1>8. ASSUME NEW e \in V.documents, NEW i \in DOMAIN e.rows
      PROVE  Content(e.rows[i]) \in ContentsIn(V, e.source, e.rows[i].external)
  <2>1. CASE e = d
    BY <1>5, <2>1
  <2>2. CASE e \in U.documents
    BY <1>7, <2>2 DEF Consistent
  <2> QED
    BY <1>3, <2>1, <2>2
<1>9. Consistent(V)
  BY <1>3, <1>6, <1>8 DEF Consistent
<1> QED
  BY <1>1, <1>2, <1>9

\* Previewing a statement gives the receipt of importing it, and the preview then stands for
\* the tables after the import.
LEMMA StatementPreviewed ==
    ASSUME NEW T, NEW P, NEW U, Stands(T, P, U), Consistent(U), NEW d, Plannable(T, d)
    PROVE  LET run == ImportStatement(U, d)
               preview == PreviewStatement(T, P, d)
           IN /\ preview.receipt = run.receipt
              /\ Stands(T, preview.preview, run.tables) /\ Consistent(run.tables)
              /\ NewRows(run.receipt) \in Nat
              /\ Len(run.tables.transactions) = Len(U.transactions) + NewRows(run.receipt)
<1>1. PICK run, preview, counts, errors, Q, new :
         /\ run = ImportStatement(U, d) /\ preview = PreviewStatement(T, P, d)
         /\ counts = Tally(U, NoPreview, d) /\ errors = Refusals(U, NoPreview, d)
         /\ Q = Remember(T, P, d) /\ new = CreatedTransactions(d, Created(U, NoPreview, d))
  OBVIOUS
<1> SUFFICES /\ preview.receipt = run.receipt
             /\ Stands(T, preview.preview, run.tables) /\ Consistent(run.tables)
             /\ NewRows(run.receipt) \in Nat
             /\ Len(run.tables.transactions) = Len(U.transactions) + NewRows(run.receipt)
  BY <1>1
<1>2. Tally(T, P, d) = counts /\ Refusals(T, P, d) = errors
  BY <1>1, SamePlan
<1>3. DOMAIN d.rows \subseteq Nat /\ IsFiniteSet(DOMAIN d.rows)
  BY DEF Plannable
<1>4. IsTable(U.transactions) /\ Len(U.transactions) \in Nat
  BY TablesAppended DEF Stands, IsTable
<1>5. CASE errors # {}
  <2>1. run = [tables |-> U, receipt |-> Refused(errors)]
    BY <1>1, <1>5 DEF ImportStatement
  <2>2. preview = [preview |-> P, receipt |-> Refused(errors)]
    BY <1>1, <1>2, <1>5 DEF PreviewStatement
  <2>3. NewRows(Refused(errors)) = 0
    <3>1. "ok" \notin errors
      BY <1>1 DEF Refusals, RowErrors
    <3>2. Refused(errors).result # "ok"
      BY <1>5, <3>1 DEF Refused
    <3> QED
      BY <3>2 DEF NewRows
  <2>4. run.tables = U /\ run.receipt = Refused(errors)
        /\ preview.preview = P /\ preview.receipt = Refused(errors)
    BY <2>1, <2>2
  <2> QED
    BY <1>4, <2>3, <2>4
<1>6. CASE errors = {}
  <2> DEFINE noop == d \in U.documents /\ ~NewDecisions(counts)
  <2>1. run = IF noop THEN [tables |-> U, receipt |-> Receipt(counts, TRUE)]
              ELSE [tables |-> AppliedTables(U, d), receipt |-> Receipt(counts, FALSE)]
    BY <1>1, <1>6 DEF ImportStatement
  <2>2. d \in T.documents \cup P.documents <=> d \in U.documents
    BY DEF Stands
  <2>3. preview = [preview |-> Q, receipt |-> Receipt(counts, noop)]
    BY <1>1, <1>2, <1>6, <2>2 DEF PreviewStatement
  <2>4. /\ Q = [mappings |-> Q.mappings, documents |-> P.documents \cup {d},
                identities |-> P.identities \o new, completed |-> P.completed]
        /\ \A i \in DOMAIN d.rows :
              /\ Known(T, Q, d.source, d.rows[i].external).transaction = Transaction(U, d, i)
              /\ Known(T, Q, d.source, d.rows[i].external).contents =
                    ContentsIn(T, d.source, d.rows[i].external) \cup {Content(d.rows[i])}
        /\ \A s, x : ~Names(d, s, x) => Known(T, Q, s, x) = Known(T, P, s, x)
    <3>1. Remembered(T, P, U, d, Q)
      BY <1>1, KnownAfterPreview
    <3> QED
      BY <1>1, <3>1 DEF Remembered
  <2>5. /\ counts["created"] \in Nat /\ counts["created"] = Cardinality(Created(U, NoPreview, d))
        /\ IsTable(new) /\ Len(new) = counts["created"]
        /\ NewRows(Receipt(counts, TRUE)) = counts["created"]
        /\ NewRows(Receipt(counts, FALSE)) = counts["created"]
    BY <1>1, <1>3, CreatedCounted
  <2>6. ASSUME NEW i \in DOMAIN d.rows
        PROVE  /\ ContentsIn(U, d.source, d.rows[i].external) \subseteq {Content(d.rows[i])}
               /\ ContentsIn(T, d.source, d.rows[i].external) \subseteq {Content(d.rows[i])}
    <3>1. RowErrors(U, NoPreview, d, d.rows[i]) = {}
      BY <1>1, <1>3, <1>6, NoRowFails
    <3>2. ContentsIn(U, d.source, d.rows[i].external) \subseteq {Content(d.rows[i])}
      BY <3>1, ContentAgrees
    <3> QED
      BY <3>2, ContentsStay
  <2>7. ASSUME NEW i \in DOMAIN d.rows
        PROVE  Known(T, Q, d.source, d.rows[i].external).contents = {Content(d.rows[i])}
    BY <2>4, <2>6
  <2>8. /\ IsTable(Q.identities) /\ IsTable(U.transactions \o new)
        /\ U.transactions \o new = T.transactions \o Q.identities
        /\ Len(U.transactions \o new) = Len(U.transactions) + counts["created"]
    <3>1. IsTable(P.identities) /\ IsTable(T.transactions)
      BY DEF Stands
    <3>2. Q.identities = P.identities \o new
      BY <2>4
    <3>3. U.transactions = T.transactions \o P.identities
      BY DEF Stands
    <3>4. (T.transactions \o P.identities) \o new = T.transactions \o (P.identities \o new)
      <4>1. PICK a, b, c : a = T.transactions /\ b = P.identities /\ c = new
        OBVIOUS
      <4>2. IsTable(a) /\ IsTable(b) /\ IsTable(c)
        BY <2>5, <3>1, <4>1
      <4>3. (a \o b) \o c = a \o (b \o c)
        BY <4>2, TablesAssociate
      <4> QED
        BY <4>1, <4>3
    <3>5. IsTable(P.identities \o new)
      BY <2>5, <3>1, TablesAppended
    <3>6. IsTable(U.transactions \o new)
          /\ Len(U.transactions \o new) = Len(U.transactions) + Len(new)
      BY <1>4, <2>5, TablesAppended
    <3> QED
      BY <2>5, <3>2, <3>3, <3>4, <3>5, <3>6
  <2>9. ASSUME NEW V, Consistent(V), V.transactions = U.transactions \o new,
               V.documents = U.documents \cup {d}, V.workbooks = U.workbooks,
               \A s, x : ~Names(d, s, x) => Known(V, NoPreview, s, x) = Known(U, NoPreview, s, x),
               \A i \in DOMAIN d.rows :
                  /\ Known(V, NoPreview, d.source, d.rows[i].external).transaction =
                        Transaction(U, d, i)
                  /\ Known(V, NoPreview, d.source, d.rows[i].external).contents =
                        {Content(d.rows[i])}
        PROVE  Stands(T, Q, V)
    <3>1. ASSUME NEW s, NEW x PROVE Known(T, Q, s, x) = Known(V, NoPreview, s, x)
      <4>1. CASE Names(d, s, x)
        <5>1. PICK i \in DOMAIN d.rows : s = d.source /\ x = d.rows[i].external
          BY <4>1 DEF Names
        <5>2. /\ Known(T, Q, s, x).transaction = Known(V, NoPreview, s, x).transaction
              /\ Known(T, Q, s, x).contents = Known(V, NoPreview, s, x).contents
          BY <2>4, <2>7, <2>9, <5>1
        <5> QED
          BY <5>2, KnownSame
      <4>2. CASE ~Names(d, s, x)
        BY <2>4, <2>9, <4>2 DEF Stands
      <4> QED
        BY <4>1, <4>2
    <3>2. /\ Q = [mappings |-> Q.mappings, documents |-> Q.documents, identities |-> Q.identities,
                  completed |-> Q.completed]
          /\ Q.documents = P.documents \cup {d} /\ Q.completed = P.completed
      BY <2>4
    <3>3. V.documents = T.documents \cup Q.documents /\ V.workbooks = T.workbooks \cup Q.completed
      BY <2>9, <3>2 DEF Stands
    <3>4. IsTable(T.transactions) /\ IsTable(Q.identities)
          /\ V.transactions = T.transactions \o Q.identities
      BY <2>8, <2>9 DEF Stands
    <3> QED
      BY <3>1, <3>2, <3>3, <3>4 DEF Stands
  <2>10. CASE noop
    <3>1. run.tables = U /\ run.receipt = Receipt(counts, TRUE)
          /\ preview.preview = Q /\ preview.receipt = Receipt(counts, TRUE)
      BY <2>1, <2>3, <2>10
    <3>2. counts["created"] = 0 /\ ~(counts["linked"] > 0)
      BY <2>5, <2>10 DEF NewDecisions
    <3>3. U.transactions \o new = U.transactions
      BY <1>4, <2>5, <3>2 DEF IsTable
    <3>4. ASSUME NEW i \in DOMAIN d.rows
          PROVE  /\ Known(U, NoPreview, d.source, d.rows[i].external).transaction =
                       Transaction(U, d, i)
                 /\ Known(U, NoPreview, d.source, d.rows[i].external).contents =
                       {Content(d.rows[i])}
      <4>1. PICK fate : fate = [j \in DOMAIN d.rows |-> Fate(U, NoPreview, d, d.rows[j])]
        OBVIOUS
      <4>2. fate[i] \notin {"created", "linked"}
        <5>1. PICK I, J : /\ I = {j \in DOMAIN d.rows : fate[j] = "created"}
                          /\ J = {j \in DOMAIN d.rows : fate[j] = "linked"}
          OBVIOUS
        <5>2. counts["created"] = Cardinality(I) /\ counts["linked"] = Cardinality(J)
          BY <1>1, <4>1, <5>1 DEF Tally
        <5>3. /\ IsFiniteSet(I) /\ Cardinality(I) \in Nat
              /\ IsFiniteSet(J) /\ Cardinality(J) \in Nat
          BY <1>3, <5>1, FS_Subset, FS_CardinalityType
        <5>4. I = {} /\ J = {}
          BY <3>2, <5>2, <5>3, FS_EmptySet
        <5> QED
          BY <5>1, <5>4
      <4>3. Known(U, NoPreview, d.source, d.rows[i].external).transaction = Transaction(U, d, i)
        BY <4>1, <4>2 DEF Transaction, TransactionOf, Fate
      <4>4. Content(d.rows[i]) \in ContentsIn(U, d.source, d.rows[i].external)
        BY <2>10 DEF Consistent
      <4>5. ContentsIn(U, d.source, d.rows[i].external) = {Content(d.rows[i])}
        BY <2>6, <4>4
      <4> QED
        BY <4>3, <4>5, KnownOfTables
    <3>5. Stands(T, Q, U)
      BY <2>9, <2>10, <3>3, <3>4
    <3> QED
      <4>1. NewRows(run.receipt) = 0
        BY <2>5, <3>1, <3>2
      <4>2. Len(run.tables.transactions) = Len(U.transactions)
        BY <3>1
      <4>3. Stands(T, preview.preview, run.tables) /\ Consistent(run.tables)
        BY <3>1, <3>5
      <4>4. preview.receipt = run.receipt
        BY <3>1
      <4>5. NewRows(run.receipt) \in Nat
            /\ Len(run.tables.transactions) = Len(U.transactions) + NewRows(run.receipt)
        BY <1>4, <4>1, <4>2
      <4> QED
        BY <4>3, <4>4, <4>5
  <2>11. CASE ~noop
    <3>1. run.tables = AppliedTables(U, d) /\ run.receipt = Receipt(counts, FALSE)
          /\ preview.preview = Q /\ preview.receipt = Receipt(counts, FALSE)
      BY <2>1, <2>3, <2>11
    <3>2. PICK V : V = AppliedTables(U, d)
      OBVIOUS
    <3>3. /\ V = [records |-> U.records \cup NewRecords(U, d),
                  documents |-> U.documents \cup {d}, workbooks |-> U.workbooks,
                  transactions |-> U.transactions \o new]
          /\ Consistent(V)
      BY <1>1, <1>6, <3>2, AppliedConsistent
    <3>4. Applied(U, V, d)
      BY <3>3 DEF Applied
    <3>5. ASSUME NEW i \in DOMAIN d.rows
          PROVE  /\ Known(V, NoPreview, d.source, d.rows[i].external).transaction =
                       Transaction(U, d, i)
                 /\ Known(V, NoPreview, d.source, d.rows[i].external).contents =
                       {Content(d.rows[i])}
      <4>1. ContentsIn(V, d.source, d.rows[i].external) =
              ContentsIn(U, d.source, d.rows[i].external) \cup {Content(d.rows[i])}
        BY <3>4, KnownAfterRun
      <4>2. Known(V, NoPreview, d.source, d.rows[i].external).contents =
              ContentsIn(V, d.source, d.rows[i].external)
        BY KnownOfTables
      <4>3. Known(V, NoPreview, d.source, d.rows[i].external).transaction = Transaction(U, d, i)
        BY <3>4, KnownAfterRun
      <4> QED
        BY <2>6, <4>1, <4>2, <4>3
    <3>6. \A s, x : ~Names(d, s, x) => Known(V, NoPreview, s, x) = Known(U, NoPreview, s, x)
      BY <3>4, KnownAfterRun
    <3>7. Stands(T, Q, V)
      BY <2>9, <3>3, <3>5, <3>6
    <3>8. Len(V.transactions) = Len(U.transactions) + counts["created"]
      BY <2>8, <3>3
    <3> QED
      BY <2>5, <3>1, <3>2, <3>3, <3>7, <3>8
  <2> QED
    BY <2>10, <2>11
<1> QED
  BY <1>5, <1>6

\* The tables after a workbook that is new to them.
WorkbookTables(U, w) ==
    [records |-> U.records, documents |-> U.documents,
     workbooks |-> U.workbooks \cup {[book |-> w, counts |-> PlanCounts(w, U.transactions)]},
     transactions |-> U.transactions \o Inserted(w, U.transactions, Len(U.transactions))]

LEMMA WorkbookApplied ==
    ASSUME NEW U, Consistent(U), NEW w, Completions(U.workbooks, w) = {}
    PROVE  /\ ImportWorkbook(U, w).tables = WorkbookTables(U, w)
           /\ ImportWorkbook(U, w).receipt = Receipt(PlanCounts(w, U.transactions), FALSE)
           /\ Consistent(WorkbookTables(U, w))
           /\ \A s, x : Known(WorkbookTables(U, w), NoPreview, s, x) = Known(U, NoPreview, s, x)
<1>1. PICK counts, grown, done :
         /\ counts = PlanCounts(w, U.transactions)
         /\ grown = U.transactions \o Inserted(w, U.transactions, Len(U.transactions))
         /\ done = U.workbooks \cup {[book |-> w, counts |-> counts]}
  OBVIOUS
<1>2. PICK V : V = [records |-> U.records, documents |-> U.documents, workbooks |-> done,
                    transactions |-> grown]
  OBVIOUS
<1>3. V = WorkbookTables(U, w)
  BY <1>1, <1>2 DEF WorkbookTables
<1>4. [U EXCEPT !.transactions = grown, !.workbooks = done] = V
  <2>1. U = [records |-> U.records, documents |-> U.documents, workbooks |-> U.workbooks,
             transactions |-> U.transactions]
    BY DEF Consistent
  <2>2. PICK W : W = [U EXCEPT !.transactions = grown, !.workbooks = done]
    OBVIOUS
  <2>3. W = [records |-> U.records, documents |-> U.documents, workbooks |-> done,
             transactions |-> grown]
    BY <2>1, <2>2
  <2> QED
    BY <1>2, <2>2, <2>3
<1>5. ImportWorkbook(U, w) = [tables |-> V, receipt |-> Receipt(counts, FALSE)]
  BY <1>1, <1>4 DEF ImportWorkbook
<1>6. V.records = U.records /\ V.documents = U.documents
  BY <1>2
<1>7. ASSUME NEW s, NEW x
      PROVE  ContentsIn(V, s, x) = ContentsIn(U, s, x) /\ LinkedIn(V, s, x) = LinkedIn(U, s, x)
  BY <1>6 DEF ContentsIn, LinkedIn
<1>8. ASSUME NEW s, NEW x PROVE Known(V, NoPreview, s, x) = Known(U, NoPreview, s, x)
  <2>1. /\ Known(V, NoPreview, s, x).transaction = Known(U, NoPreview, s, x).transaction
        /\ Known(V, NoPreview, s, x).contents = Known(U, NoPreview, s, x).contents
    BY <1>7, KnownOfTables
  <2> QED
    BY <2>1, KnownSame
<1>9. Consistent(V)
  <2>1. \A s, x : \A c, e \in ContentsIn(V, s, x) : c = e
    BY <1>7 DEF Consistent
  <2>2. \A d \in V.documents : \A i \in DOMAIN d.rows :
           Content(d.rows[i]) \in ContentsIn(V, d.source, d.rows[i].external)
    BY <1>6, <1>7 DEF Consistent
  <2>3. \A c \in V.workbooks : "inserted" \in DOMAIN c.counts
    <3>1. "inserted" \in DOMAIN counts
      BY <1>1 DEF PlanCounts
    <3>2. \A c \in U.workbooks : "inserted" \in DOMAIN c.counts
      BY DEF Consistent
    <3>3. V.workbooks = U.workbooks \cup {[book |-> w, counts |-> counts]}
      BY <1>1, <1>2
    <3> QED
      BY <3>1, <3>2, <3>3
  <2>4. V = [records |-> V.records, documents |-> V.documents, workbooks |-> V.workbooks,
             transactions |-> V.transactions]
    BY <1>2
  <2> QED
    BY <2>1, <2>2, <2>3, <2>4 DEF Consistent
<1>10. ImportWorkbook(U, w).tables = V /\ ImportWorkbook(U, w).receipt = Receipt(counts, FALSE)
  BY <1>5
<1> QED
  BY <1>1, <1>3, <1>8, <1>9, <1>10

LEMMA InsertedCounted ==
    ASSUME NEW t, NEW w, IsFiniteSet(DOMAIN w.rows)
    PROVE  LET n == PlanCounts(w, t)["inserted"]
               new == Inserted(w, t, Len(t))
           IN /\ n \in Nat /\ IsTable(new) /\ Len(new) = n
              /\ NewRows(Receipt(PlanCounts(w, t), FALSE)) = n
<1>1. PICK I : I = {i \in DOMAIN w.rows : Disposition(w.rows[i], t) = "inserted"}
  OBVIOUS
<1>2. PICK new : new = Inserted(w, t, Len(t))
  OBVIOUS
<1>3. PICK counts : counts = PlanCounts(w, t)
  OBVIOUS
<1>4. IsFiniteSet(I) /\ Cardinality(I) \in Nat
  BY <1>1, FS_Subset, FS_CardinalityType
<1>5. "inserted" \in DOMAIN counts /\ counts["inserted"] = Cardinality(I)
  BY <1>1, <1>3 DEF PlanCounts
<1>6. new = [n \in 1..Cardinality(I) |-> new[n]]
  BY <1>1, <1>2 DEF Inserted
<1>7. IsTable(new) /\ Len(new) = Cardinality(I)
  BY <1>4, <1>6, TableOf
<1>8. NewRows(Receipt(counts, FALSE)) = counts["inserted"]
  BY <1>5 DEF NewRows, Receipt
<1> QED
  BY <1>2, <1>3, <1>4, <1>5, <1>7, <1>8

LEMMA WorkbookPreviewed ==
    ASSUME NEW T, NEW P, NEW U, Stands(T, P, U), Consistent(U), NEW w, IsFiniteSet(DOMAIN w.rows)
    PROVE  LET run == ImportWorkbook(U, w)
               preview == PreviewWorkbook(T, P, w)
           IN /\ preview.receipt = run.receipt
              /\ Stands(T, preview.preview, run.tables) /\ Consistent(run.tables)
              /\ NewRows(run.receipt) \in Nat
              /\ Len(run.tables.transactions) = Len(U.transactions) + NewRows(run.receipt)
<1>1. PICK run, preview, counts, completions, new :
         /\ run = ImportWorkbook(U, w) /\ preview = PreviewWorkbook(T, P, w)
         /\ counts = PlanCounts(w, U.transactions)
         /\ completions = Completions(U.workbooks, w)
         /\ new = Inserted(w, U.transactions, Len(U.transactions))
  OBVIOUS
<1> SUFFICES /\ preview.receipt = run.receipt
             /\ Stands(T, preview.preview, run.tables) /\ Consistent(run.tables)
             /\ NewRows(run.receipt) \in Nat
             /\ Len(run.tables.transactions) = Len(U.transactions) + NewRows(run.receipt)
  BY <1>1
<1>2. /\ T.workbooks \cup P.completed = U.workbooks
      /\ T.transactions \o P.identities = U.transactions
  BY DEF Stands
<1>3. IsTable(U.transactions) /\ Len(U.transactions) \in Nat
  BY TablesAppended DEF Stands, IsTable
<1>4. preview =
        IF completions # {} THEN [preview |-> P, receipt |-> CompletedReceipt(completions)]
        ELSE [preview |-> [P EXCEPT !.identities = P.identities \o new,
                             !.completed = P.completed \cup {[book |-> w, counts |-> counts]}],
              receipt |-> Receipt(counts, FALSE)]
  BY <1>1, <1>2 DEF PreviewWorkbook
<1>5. CASE completions # {}
  <2>1. run = [tables |-> U, receipt |-> CompletedReceipt(completions)]
    BY <1>1, <1>5 DEF ImportWorkbook
  <2>2. /\ run.tables = U /\ preview.preview = P
        /\ run.receipt = CompletedReceipt(completions)
        /\ preview.receipt = CompletedReceipt(completions)
    BY <1>4, <1>5, <2>1
  <2>3. NewRows(CompletedReceipt(completions)) = 0
    <3>1. PICK c : c = CHOOSE e \in completions : TRUE
      OBVIOUS
    <3>2. c \in completions
      BY <1>5, <3>1
    <3>3. "inserted" \in DOMAIN c.counts
      BY <1>1, <3>2 DEF Completions, Consistent
    <3>4. PICK done : done = CompletedCounts(c.counts)
      OBVIOUS
    <3>5. "inserted" \in DOMAIN done /\ done["inserted"] = 0
      BY <3>3, <3>4 DEF CompletedCounts
    <3>6. CompletedReceipt(completions) = Receipt(done, TRUE)
      BY <3>1, <3>4 DEF CompletedReceipt
    <3>7. NewRows(Receipt(done, TRUE)) = 0
      BY <3>5 DEF NewRows, Receipt
    <3> QED
      BY <3>6, <3>7
  <2>4. NewRows(run.receipt) \in Nat
        /\ Len(run.tables.transactions) = Len(U.transactions) + NewRows(run.receipt)
    BY <1>3, <2>2, <2>3
  <2>5. Stands(T, preview.preview, run.tables) /\ Consistent(run.tables)
    BY <2>2
  <2>6. preview.receipt = run.receipt
    BY <2>2
  <2> QED
    BY <2>4, <2>5, <2>6
<1>6. CASE completions = {}
  <2>1. PICK V : V = WorkbookTables(U, w)
    OBVIOUS
  <2>2. /\ run.tables = V /\ run.receipt = Receipt(counts, FALSE) /\ Consistent(V)
        /\ \A s, x : Known(V, NoPreview, s, x) = Known(U, NoPreview, s, x)
    BY <1>1, <1>6, <2>1, WorkbookApplied
  <2>0. /\ V.records = U.records /\ V.documents = U.documents
        /\ V.workbooks = U.workbooks \cup {[book |-> w, counts |-> counts]}
        /\ V.transactions = U.transactions \o new
    BY <1>1, <2>1 DEF WorkbookTables
  <2>3. PICK Q : Q = [mappings |-> P.mappings, documents |-> P.documents,
                      identities |-> P.identities \o new,
                      completed |-> P.completed \cup {[book |-> w, counts |-> counts]}]
    OBVIOUS
  <2>4. preview = [preview |-> Q, receipt |-> Receipt(counts, FALSE)]
    <3>1. P = [mappings |-> P.mappings, documents |-> P.documents, identities |-> P.identities,
               completed |-> P.completed]
      BY DEF Stands
    <3>2. PICK more, done : /\ more = P.identities \o new
                            /\ done = P.completed \cup {[book |-> w, counts |-> counts]}
      OBVIOUS
    <3>3. PICK R : R = [P EXCEPT !.identities = more, !.completed = done]
      OBVIOUS
    <3>4. R = [mappings |-> P.mappings, documents |-> P.documents, identities |-> more,
               completed |-> done]
      BY <3>1, <3>3
    <3>5. R = Q
      BY <2>3, <3>2, <3>4
    <3> QED
      BY <1>4, <1>6, <3>2, <3>3, <3>5
  <2>5. /\ counts["inserted"] \in Nat /\ IsTable(new) /\ Len(new) = counts["inserted"]
        /\ NewRows(Receipt(counts, FALSE)) = counts["inserted"]
    BY <1>1, InsertedCounted
  <2>6. /\ run.tables = V /\ run.receipt = Receipt(counts, FALSE)
        /\ preview.preview = Q /\ preview.receipt = Receipt(counts, FALSE)
    BY <2>2, <2>4
  <2>7. V.transactions = T.transactions \o Q.identities
    <3>1. PICK a, b, c : a = T.transactions /\ b = P.identities /\ c = new
      OBVIOUS
    <3>2. IsTable(a) /\ IsTable(b) /\ IsTable(c)
      BY <2>5, <3>1 DEF Stands
    <3>3. (a \o b) \o c = a \o (b \o c)
      BY <3>2, TablesAssociate
    <3> QED
      BY <1>2, <2>0, <2>3, <3>1, <3>3
  <2>8. IsTable(Q.identities)
    <3>1. IsTable(P.identities)
      BY DEF Stands
    <3> QED
      BY <2>3, <2>5, <3>1, TablesAppended
  <2>9. Len(V.transactions) = Len(U.transactions) + counts["inserted"]
    <3>1. Len(U.transactions \o new) = Len(U.transactions) + Len(new)
      BY <1>3, <2>5, TablesAppended
    <3> QED
      BY <2>0, <2>5, <3>1
  <2>10. \A s, x : Known(T, Q, s, x) = Known(V, NoPreview, s, x)
    <3>1. Q.mappings = P.mappings
      BY <2>3
    <3>2. ASSUME NEW s, NEW x PROVE Known(T, Q, s, x) = Known(T, P, s, x)
      BY <3>1 DEF Known
    <3> QED
      BY <2>2, <3>2 DEF Stands
  <2>11. Stands(T, Q, V)
    <3>1. V.documents = T.documents \cup Q.documents /\ V.workbooks = T.workbooks \cup Q.completed
      BY <1>2, <2>0, <2>3 DEF Stands
    <3>2. Q = [mappings |-> Q.mappings, documents |-> Q.documents, identities |-> Q.identities,
               completed |-> Q.completed]
      BY <2>3
    <3>3. IsTable(T.transactions)
      BY DEF Stands
    <3> QED
      BY <2>7, <2>8, <2>10, <3>1, <3>2, <3>3 DEF Stands
  <2>12. Stands(T, preview.preview, run.tables) /\ Consistent(run.tables)
    BY <2>2, <2>6, <2>11
  <2>13. preview.receipt = run.receipt
    BY <2>6
  <2>14. NewRows(run.receipt) \in Nat
         /\ Len(run.tables.transactions) = Len(U.transactions) + NewRows(run.receipt)
    BY <2>5, <2>6, <2>9
  <2> QED
    BY <2>12, <2>13, <2>14
<1> QED
  BY <1>5, <1>6

\* A file of a batch whose links aim at transactions of T.
Importable(T, file) ==
    IF IsStatement(file) THEN Plannable(T, file.content) ELSE IsFiniteSet(DOMAIN file.content.rows)

LEMMA FilePreviewed ==
    ASSUME NEW T, NEW P, NEW U, Stands(T, P, U), Consistent(U), NEW file, Importable(T, file)
    PROVE  LET run == Import(U, file)
               preview == Preview(T, P, file)
           IN /\ preview.receipt = run.receipt
              /\ Stands(T, preview.preview, run.tables) /\ Consistent(run.tables)
              /\ NewRows(run.receipt) \in Nat
              /\ Len(run.tables.transactions) = Len(U.transactions) + NewRows(run.receipt)
<1>1. CASE IsStatement(file)
  <2>1. Plannable(T, file.content)
    BY <1>1 DEF Importable
  <2>2. /\ Import(U, file) = ImportStatement(U, file.content)
        /\ Preview(T, P, file) = PreviewStatement(T, P, file.content)
    BY <1>1 DEF Import, Preview
  <2> QED
    BY <2>1, <2>2, StatementPreviewed
<1>2. CASE ~IsStatement(file)
  <2>1. IsFiniteSet(DOMAIN file.content.rows)
    BY <1>2 DEF Importable
  <2>2. /\ Import(U, file) = ImportWorkbook(U, file.content)
        /\ Preview(T, P, file) = PreviewWorkbook(T, P, file.content)
    BY <1>2 DEF Import, Preview
  <2> QED
    BY <2>1, <2>2, WorkbookPreviewed
<1> QED
  BY <1>1, <1>2

----------------------------------------------------------------------------
(* A directory, file by file.                                              *)

\* What holds of 0 and of the successor of every number it holds of below m holds of m.
LEMMA UpTo ==
    ASSUME NEW m \in Nat, NEW N, N \subseteq 0..m, m \in N,
           \A n \in 1..m : n \in N => n - 1 \in N
    PROVE  0 \in N
<1>1. PICK n \in N : \A k \in N : n <= k
  <2>1. N \subseteq Nat /\ N # {}
    OBVIOUS
  <2> QED
    BY <2>1, Least
<1>2. n = 0
  BY <1>1
<1> QED
  BY <1>2

RunStart(T) == [tables |-> T, receipts |-> <<>>]
RunSteps(T, files, m, f) ==
    f = [n \in 0..m |-> IF n = 0 THEN RunStart(T) ELSE RunFile(f[n - 1], files[n])]

LEMMA RunChain ==
    ASSUME NEW T, NEW files, Len(files) \in Nat
    PROVE  \E f : RunSteps(T, files, Len(files), f) /\ RunBatch(T, files) = f[Len(files)]
<1>1. PICK m : m = Len(files)
  OBVIOUS
<1>2. PICK N : N = {n \in 0..m : ~\E f : RunSteps(T, files, n, f)}
  OBVIOUS
<1>3. \E f : RunSteps(T, files, 0, f)
  <2>1. PICK f : f = [n \in 0..0 |-> RunStart(T)]
    OBVIOUS
  <2>2. RunSteps(T, files, 0, f)
    BY <2>1 DEF RunSteps
  <2> QED
    BY <2>2
<1>4. ASSUME NEW n \in 1..m, n \in N PROVE n - 1 \in N
  <2>1. n - 1 \in 0..m /\ n \in Nat
    BY <1>1
  <2>2. SUFFICES ASSUME NEW f, RunSteps(T, files, n - 1, f) PROVE FALSE
    BY <1>2, <2>1
  <2>3. PICK g : g = [k \in 0..n |-> IF k = n THEN RunFile(f[n - 1], files[n]) ELSE f[k]]
    OBVIOUS
  <2>4. f = [k \in 0..(n - 1) |-> IF k = 0 THEN RunStart(T) ELSE RunFile(f[k - 1], files[k])]
    BY <2>2 DEF RunSteps
  <2>5. ASSUME NEW k \in 0..n
        PROVE  g[k] = IF k = 0 THEN RunStart(T) ELSE RunFile(g[k - 1], files[k])
    <3>1. CASE k = n
      BY <2>1, <2>3, <3>1
    <3>2. CASE k # n
      <4>1. k \in 0..(n - 1) /\ (k # 0 => k - 1 \in 0..n /\ k - 1 # n)
        BY <2>1, <3>2
      <4>2. g[k] = f[k] /\ (k # 0 => g[k - 1] = f[k - 1])
        BY <2>3, <3>2, <4>1
      <4>3. f[k] = IF k = 0 THEN RunStart(T) ELSE RunFile(f[k - 1], files[k])
        BY <2>4, <4>1
      <4> QED
        BY <4>2, <4>3
    <3> QED
      BY <3>1, <3>2
  <2>6. g = [k \in 0..n |-> g[k]]
    BY <2>3
  <2>7. RunSteps(T, files, n, g)
    BY <2>5, <2>6 DEF RunSteps
  <2> QED
    BY <1>2, <1>4, <2>7
<1>5. \E f : RunSteps(T, files, m, f)
  <2>1. 0 \notin N
    BY <1>2, <1>3
  <2>2. m \notin N
    BY <1>1, <1>2, <1>4, <2>1, UpTo
  <2> QED
    BY <1>1, <1>2, <2>2
<1>6. PICK g : g = CHOOSE f : RunSteps(T, files, m, f)
  OBVIOUS
<1>7. RunSteps(T, files, m, g)
  BY <1>5, <1>6
<1>8. RunBatch(T, files) = g[m]
  BY <1>1, <1>6 DEF RunBatch, RunSteps, RunStart
<1> QED
  BY <1>1, <1>7, <1>8

PreviewStart == [preview |-> NoPreview, receipts |-> <<>>]
PreviewSteps(T, files, m, f) ==
    f = [n \in 0..m |-> IF n = 0 THEN PreviewStart ELSE PreviewFile(T, f[n - 1], files[n])]

LEMMA PreviewChain ==
    ASSUME NEW T, NEW files, Len(files) \in Nat
    PROVE  \E f : /\ PreviewSteps(T, files, Len(files), f)
                  /\ PreviewBatch(T, files) = f[Len(files)].receipts
<1>1. PICK m : m = Len(files)
  OBVIOUS
<1>2. PICK N : N = {n \in 0..m : ~\E f : PreviewSteps(T, files, n, f)}
  OBVIOUS
<1>3. \E f : PreviewSteps(T, files, 0, f)
  <2>1. PICK f : f = [n \in 0..0 |-> PreviewStart]
    OBVIOUS
  <2>2. PreviewSteps(T, files, 0, f)
    BY <2>1 DEF PreviewSteps
  <2> QED
    BY <2>2
<1>4. ASSUME NEW n \in 1..m, n \in N PROVE n - 1 \in N
  <2>1. n - 1 \in 0..m /\ n \in Nat
    BY <1>1
  <2>2. SUFFICES ASSUME NEW f, PreviewSteps(T, files, n - 1, f) PROVE FALSE
    BY <1>2, <2>1
  <2>3. PICK g : g = [k \in 0..n |-> IF k = n THEN PreviewFile(T, f[n - 1], files[n]) ELSE f[k]]
    OBVIOUS
  <2>4. f = [k \in 0..(n - 1) |->
               IF k = 0 THEN PreviewStart ELSE PreviewFile(T, f[k - 1], files[k])]
    BY <2>2 DEF PreviewSteps
  <2>5. ASSUME NEW k \in 0..n
        PROVE  g[k] = IF k = 0 THEN PreviewStart ELSE PreviewFile(T, g[k - 1], files[k])
    <3>1. CASE k = n
      BY <2>1, <2>3, <3>1
    <3>2. CASE k # n
      <4>1. k \in 0..(n - 1) /\ (k # 0 => k - 1 \in 0..n /\ k - 1 # n)
        BY <2>1, <3>2
      <4>2. g[k] = f[k] /\ (k # 0 => g[k - 1] = f[k - 1])
        BY <2>3, <3>2, <4>1
      <4>3. f[k] = IF k = 0 THEN PreviewStart ELSE PreviewFile(T, f[k - 1], files[k])
        BY <2>4, <4>1
      <4> QED
        BY <4>2, <4>3
    <3> QED
      BY <3>1, <3>2
  <2>6. g = [k \in 0..n |-> g[k]]
    BY <2>3
  <2>7. PreviewSteps(T, files, n, g)
    BY <2>5, <2>6 DEF PreviewSteps
  <2> QED
    BY <1>2, <1>4, <2>7
<1>5. \E f : PreviewSteps(T, files, m, f)
  <2>1. 0 \notin N
    BY <1>2, <1>3
  <2>2. m \notin N
    BY <1>1, <1>2, <1>4, <2>1, UpTo
  <2> QED
    BY <1>1, <1>2, <2>2
<1>6. PICK g : g = CHOOSE f : PreviewSteps(T, files, m, f)
  OBVIOUS
<1>7. PreviewSteps(T, files, m, g)
  BY <1>5, <1>6
<1>8. PreviewBatch(T, files) = g[m].receipts
  BY <1>1, <1>6 DEF PreviewBatch, PreviewSteps, PreviewStart
<1> QED
  BY <1>1, <1>7, <1>8

\* The new rows of a list of receipts are those of its receipts, one after another.
AddedSteps(receipts, m, f) ==
    f = [n \in 0..m |-> IF n = 0 THEN 0 ELSE f[n - 1] + NewRows(receipts[n])]

LEMMA AddedChain ==
    ASSUME NEW receipts, Len(receipts) \in Nat
    PROVE  \E f : AddedSteps(receipts, Len(receipts), f) /\ Added(receipts) = f[Len(receipts)]
<1>1. PICK m : m = Len(receipts)
  OBVIOUS
<1>2. PICK N : N = {n \in 0..m : ~\E f : AddedSteps(receipts, n, f)}
  OBVIOUS
<1>3. \E f : AddedSteps(receipts, 0, f)
  <2>1. PICK f : f = [n \in 0..0 |-> 0]
    OBVIOUS
  <2>2. AddedSteps(receipts, 0, f)
    BY <2>1 DEF AddedSteps
  <2> QED
    BY <2>2
<1>4. ASSUME NEW n \in 1..m, n \in N PROVE n - 1 \in N
  <2>1. n - 1 \in 0..m /\ n \in Nat
    BY <1>1
  <2>2. SUFFICES ASSUME NEW f, AddedSteps(receipts, n - 1, f) PROVE FALSE
    BY <1>2, <2>1
  <2>3. PICK g : g = [k \in 0..n |-> IF k = n THEN f[n - 1] + NewRows(receipts[n]) ELSE f[k]]
    OBVIOUS
  <2>4. f = [k \in 0..(n - 1) |-> IF k = 0 THEN 0 ELSE f[k - 1] + NewRows(receipts[k])]
    BY <2>2 DEF AddedSteps
  <2>5. ASSUME NEW k \in 0..n
        PROVE  g[k] = IF k = 0 THEN 0 ELSE g[k - 1] + NewRows(receipts[k])
    <3>1. CASE k = n
      BY <2>1, <2>3, <3>1
    <3>2. CASE k # n
      <4>1. k \in 0..(n - 1) /\ (k # 0 => k - 1 \in 0..n /\ k - 1 # n)
        BY <2>1, <3>2
      <4>2. g[k] = f[k] /\ (k # 0 => g[k - 1] = f[k - 1])
        BY <2>3, <3>2, <4>1
      <4>3. f[k] = IF k = 0 THEN 0 ELSE f[k - 1] + NewRows(receipts[k])
        BY <2>4, <4>1
      <4> QED
        BY <4>2, <4>3
    <3> QED
      BY <3>1, <3>2
  <2>6. g = [k \in 0..n |-> g[k]]
    BY <2>3
  <2>7. AddedSteps(receipts, n, g)
    BY <2>5, <2>6 DEF AddedSteps
  <2> QED
    BY <1>2, <1>4, <2>7
<1>5. \E f : AddedSteps(receipts, m, f)
  <2>1. 0 \notin N
    BY <1>2, <1>3
  <2>2. m \notin N
    BY <1>1, <1>2, <1>4, <2>1, UpTo
  <2> QED
    BY <1>1, <1>2, <2>2
<1>6. PICK g : g = CHOOSE f : AddedSteps(receipts, m, f)
  OBVIOUS
<1>7. AddedSteps(receipts, m, g)
  BY <1>5, <1>6
<1>8. Added(receipts) = g[m]
  BY <1>1, <1>6 DEF Added, AddedSteps
<1> QED
  BY <1>1, <1>7, <1>8

LEMMA AddedAppend ==
    ASSUME NEW receipts, IsTable(receipts), NEW r
    PROVE  Added(Append(receipts, r)) = Added(receipts) + NewRows(r)
<1>1. PICK m, longer : m = Len(receipts) /\ longer = Append(receipts, r)
  OBVIOUS
<1>2. /\ m \in Nat /\ Len(longer) = m + 1 /\ longer[m + 1] = r
      /\ \A k \in 1..m : longer[k] = receipts[k]
  <2>1. PICK S : S = {receipts[i] : i \in 1..Len(receipts)} \cup {r}
    OBVIOUS
  <2>2. receipts \in Seq(S) /\ r \in S
    BY <2>1 DEF IsTable
  <2> QED
    BY <1>1, <2>2
<1>3. PICK f : AddedSteps(receipts, m, f) /\ Added(receipts) = f[m]
  BY <1>1, <1>2, AddedChain
<1>4. PICK g : AddedSteps(longer, m + 1, g) /\ Added(longer) = g[m + 1]
  <2>1. Len(longer) \in Nat
    BY <1>2
  <2> QED
    BY <1>2, <2>1, AddedChain
<1>5. f = [n \in 0..m |-> IF n = 0 THEN 0 ELSE f[n - 1] + NewRows(receipts[n])]
  BY <1>3 DEF AddedSteps
<1>6. g = [n \in 0..(m + 1) |-> IF n = 0 THEN 0 ELSE g[n - 1] + NewRows(longer[n])]
  BY <1>4 DEF AddedSteps
<1>7. PICK N : N = {n \in 0..m : g[n] # f[n]}
  OBVIOUS
<1>8. 0 \notin N
  <2>1. 0 \in 0..m /\ 0 \in 0..(m + 1)
    BY <1>2
  <2>2. f[0] = 0
    BY <1>5, <2>1
  <2>3. g[0] = 0
    BY <1>6, <2>1
  <2> QED
    BY <1>7, <2>2, <2>3
<1>9. ASSUME NEW n \in 1..m, n \in N PROVE n - 1 \in N
  <2>1. n \in 0..m /\ n \in 0..(m + 1) /\ n - 1 \in 0..m /\ n # 0
    BY <1>2
  <2>2. f[n] = f[n - 1] + NewRows(receipts[n])
    BY <1>5, <2>1
  <2>3. g[n] = g[n - 1] + NewRows(longer[n])
    BY <1>6, <2>1
  <2>4. longer[n] = receipts[n]
    BY <1>2
  <2> QED
    BY <1>7, <1>9, <2>1, <2>2, <2>3, <2>4
<1>10. m \notin N
  BY <1>2, <1>7, <1>8, <1>9, UpTo
<1>11. g[m] = f[m]
  BY <1>2, <1>7, <1>10
<1>12. g[m + 1] = g[m] + NewRows(longer[m + 1])
  <2>1. m + 1 \in 0..(m + 1) /\ m + 1 # 0 /\ (m + 1) - 1 = m
    BY <1>2
  <2>2. g[m + 1] = IF m + 1 = 0 THEN 0 ELSE g[(m + 1) - 1] + NewRows(longer[m + 1])
    BY <1>6, <2>1
  <2> QED
    BY <2>1, <2>2
<1> QED
  BY <1>1, <1>2, <1>3, <1>4, <1>11, <1>12

\* A preview of a batch that has predicted what its run has done.
Predicted(T, run, preview) ==
    /\ preview.receipts = run.receipts /\ IsTable(run.receipts)
    /\ Stands(T, preview.preview, run.tables) /\ Consistent(run.tables)
    /\ Added(run.receipts) \in Nat
    /\ Len(run.tables.transactions) = Len(T.transactions) + Added(run.receipts)

LEMMA StandsAtFirst ==
    ASSUME NEW T, IsTable(T.transactions)
    PROVE  Stands(T, NoPreview, T)
<1>1. PICK P : P = NoPreview
  OBVIOUS
<1>2. /\ P = [mappings |-> P.mappings, documents |-> P.documents, identities |-> P.identities,
              completed |-> P.completed]
      /\ P.documents = {} /\ P.identities = <<>> /\ P.completed = {}
  BY <1>1 DEF NoPreview
<1>3. IsTable(<<>>)
  <2>1. <<>> \in Seq({})
    OBVIOUS
  <2> QED
    BY <2>1, TypedTable
<1>4. T.transactions = T.transactions \o <<>>
  BY DEF IsTable
<1>5. Stands(T, P, T)
  BY <1>1, <1>2, <1>3, <1>4 DEF Stands
<1> QED
  BY <1>1, <1>5

LEMMA FilePredicted ==
    ASSUME NEW T, IsTable(T.transactions), NEW run, NEW preview, Predicted(T, run, preview),
           NEW file, Importable(T, file)
    PROVE  Predicted(T, RunFile(run, file), PreviewFile(T, preview, file))
<1>1. PICK P, U, receipts :
         P = preview.preview /\ U = run.tables /\ receipts = run.receipts
  OBVIOUS
<1>2. /\ preview.receipts = receipts /\ IsTable(receipts) /\ Stands(T, P, U) /\ Consistent(U)
      /\ Added(receipts) \in Nat /\ Len(U.transactions) = Len(T.transactions) + Added(receipts)
  BY <1>1 DEF Predicted
<1>3. CASE Stopped(receipts)
  BY <1>1, <1>2, <1>3 DEF RunFile, PreviewFile
<1>4. CASE ~Stopped(receipts)
  <2>1. PICK done, seen : done = Import(U, file) /\ seen = Preview(T, P, file)
    OBVIOUS
  <2>2. /\ seen.receipt = done.receipt
        /\ Stands(T, seen.preview, done.tables) /\ Consistent(done.tables)
        /\ NewRows(done.receipt) \in Nat
        /\ Len(done.tables.transactions) = Len(U.transactions) + NewRows(done.receipt)
    BY <1>2, <2>1, FilePreviewed
  <2>3. PICK runs, previews : /\ runs = RunFile(run, file)
                              /\ previews = PreviewFile(T, preview, file)
    OBVIOUS
  <2>4. runs.tables = done.tables /\ runs.receipts = Append(receipts, done.receipt)
    BY <1>1, <1>4, <2>1, <2>3 DEF RunFile
  <2>5. previews.preview = seen.preview /\ previews.receipts = Append(receipts, seen.receipt)
    BY <1>1, <1>2, <1>4, <2>1, <2>3 DEF PreviewFile
  <2>6. Added(runs.receipts) = Added(receipts) + NewRows(done.receipt)
    BY <1>2, <2>4, AddedAppend
  <2>7. IsTable(runs.receipts)
    BY <1>2, <2>4, AppendedRow
  <2>8. Len(T.transactions) \in Nat
    BY DEF IsTable
  <2>9. Len(runs.tables.transactions) = Len(T.transactions) + Added(runs.receipts)
    BY <1>2, <2>2, <2>4, <2>6, <2>8
  <2>10. Added(runs.receipts) \in Nat
    BY <1>2, <2>2, <2>6
  <2>11. Stands(T, previews.preview, runs.tables) /\ Consistent(runs.tables)
    BY <2>2, <2>4, <2>5
  <2>12. previews.receipts = runs.receipts
    BY <2>2, <2>4, <2>5
  <2>13. Predicted(T, runs, previews)
    BY <2>7, <2>9, <2>10, <2>11, <2>12 DEF Predicted
  <2> QED
    BY <2>3, <2>13
<1> QED
  BY <1>3, <1>4

LEMMA BatchPredicted ==
    ASSUME NEW T, Consistent(T), IsTable(T.transactions), NEW files, IsTable(files),
           \A i \in DOMAIN files : Importable(T, files[i])
    PROVE  /\ PreviewBatch(T, files) = RunBatch(T, files).receipts
           /\ Len(RunBatch(T, files).tables.transactions) =
                 Len(T.transactions) + Added(PreviewBatch(T, files))
<1>1. PICK m : m = Len(files) /\ m \in Nat /\ DOMAIN files = 1..m
  BY DEF IsTable
<1>2. PICK f : RunSteps(T, files, m, f) /\ RunBatch(T, files) = f[m]
  BY <1>1, RunChain
<1>3. PICK g : PreviewSteps(T, files, m, g) /\ PreviewBatch(T, files) = g[m].receipts
  BY <1>1, PreviewChain
<1>4. PICK N : N = {n \in 0..m : ~Predicted(T, f[n], g[n])}
  OBVIOUS
<1>5. 0 \notin N
  <2>1. f[0] = RunStart(T) /\ g[0] = PreviewStart
    BY <1>1, <1>2, <1>3 DEF RunSteps, PreviewSteps
  <2>2. /\ f[0].tables = T /\ f[0].receipts = <<>>
        /\ g[0].preview = NoPreview /\ g[0].receipts = <<>>
    BY <2>1 DEF RunStart, PreviewStart
  <2>3. IsTable(<<>>) /\ Len(<<>>) = 0
    <3>1. <<>> \in Seq({})
      OBVIOUS
    <3> QED
      BY <3>1, TypedTable
  <2>4. Added(<<>>) = 0
    <3>1. PICK none : none = <<>>
      OBVIOUS
    <3>2. PICK h : AddedSteps(none, 0, h) /\ Added(none) = h[0]
      BY <2>3, <3>1, AddedChain
    <3>3. h[0] = 0
      BY <3>2 DEF AddedSteps
    <3> QED
      BY <3>1, <3>2, <3>3
  <2>5. Len(T.transactions) \in Nat
    BY DEF IsTable
  <2>6. Predicted(T, f[0], g[0])
    BY <2>2, <2>3, <2>4, <2>5, StandsAtFirst DEF Predicted
  <2> QED
    BY <1>4, <2>6
<1>6. ASSUME NEW n \in 1..m, n \in N PROVE n - 1 \in N
  <2>1. n \in 0..m /\ n - 1 \in 0..m /\ n # 0
    BY <1>1
  <2>2. f[n] = RunFile(f[n - 1], files[n])
    BY <1>2, <2>1 DEF RunSteps
  <2>3. g[n] = PreviewFile(T, g[n - 1], files[n])
    BY <1>3, <2>1 DEF PreviewSteps
  <2>4. Importable(T, files[n])
    BY <1>1
  <2>5. Predicted(T, f[n - 1], g[n - 1]) => Predicted(T, f[n], g[n])
    BY <2>2, <2>3, <2>4, FilePredicted
  <2> QED
    BY <1>4, <1>6, <2>1, <2>5
<1>7. m \notin N
  BY <1>1, <1>4, <1>5, <1>6, UpTo
<1>8. Predicted(T, f[m], g[m])
  BY <1>1, <1>4, <1>7
<1> QED
  BY <1>2, <1>3, <1>8 DEF Predicted

----------------------------------------------------------------------------
(* What can be staged can be imported.                                     *)

LEMMA StatementImportable ==
    ASSUME TypeOK, NEW d, IsStagedDocument(d),
           \A i \in DOMAIN d.rows :
              d.rows[i].action = "link" => d.rows[i].target \in DOMAIN transactions
    PROVE  Importable(tables, File("statement", d))
<1>1. PICK T : T = tables
  OBVIOUS
<1>2. T.transactions = transactions
  BY <1>1 DEF tables
<1>3. DOMAIN d.rows = 1..Len(d.rows) /\ Len(d.rows) \in Nat
  BY DEF IsStagedDocument
<1>4. IsFiniteSet(DOMAIN d.rows) /\ DOMAIN d.rows \subseteq Nat
  BY <1>3, FS_Interval
<1>5. Plannable(T, d)
  BY <1>2, <1>4 DEF Plannable, IsStagedDocument
<1>6. IsStatement(File("statement", d)) /\ File("statement", d).content = d
  BY DEF IsStatement, File
<1> QED
  BY <1>1, <1>5, <1>6 DEF Importable

LEMMA WorkbookImportable ==
    ASSUME NEW w \in Workbooks
    PROVE  Importable(tables, File("workbook", w))
<1>1. ~IsStatement(File("workbook", w)) /\ File("workbook", w).content = w
  BY DEF IsStatement, File
<1>2. w.rows \in Seq(WorkbookRows)
  BY BooksAssumption
<1>3. DOMAIN w.rows = 1..Len(w.rows) /\ Len(w.rows) \in Nat
  BY <1>2
<1>4. IsFiniteSet(DOMAIN w.rows)
  BY <1>3, FS_Interval
<1> QED
  BY <1>1, <1>4 DEF Importable

LEMMA AimedImportable ==
    ASSUME TypeOK, NEW document \in Documents, NEW t \in DOMAIN transactions
    PROVE  Importable(tables, File("statement", Aimed(document, t)))
<1>1. PICK d : d = Aimed(document, t)
  OBVIOUS
<1>2. /\ IsStagedDocument(d)
      /\ \A i \in DOMAIN d.rows : d.rows[i].action = "link" => d.rows[i].target = t
  BY <1>1, AimedDocument
<1> QED
  BY <1>1, <1>2, StatementImportable

LEMMA StagedImportable ==
    ASSUME TypeOK, NEW document \in Documents, NEW d \in Staged(document)
    PROVE  Importable(tables, File("statement", d))
<1>1. CASE Links(document)
  <2>1. PICK t \in DOMAIN transactions : d = Aimed(document, t)
    BY <1>1 DEF Staged
  <2> QED
    BY <2>1, AimedImportable
<1>2. CASE ~Links(document)
  <2>1. d = document
    BY <1>2 DEF Staged
  <2>2. \A i \in DOMAIN d.rows : d.rows[i].action # "link"
    BY <1>2, <2>1 DEF Links, ToSet
  <2> QED
    BY <2>2, StagedDocument, StatementImportable
<1> QED
  BY <1>1, <1>2

LEMMA StagedBatchImportable ==
    ASSUME TypeOK, NEW files \in StagedBatches
    PROVE  IsTable(files) /\ \A i \in DOMAIN files : Importable(tables, files[i])
<1>1. PICK Sources : Sources = {File("statement", d) : d \in Documents}
                                 \cup {File("workbook", w) : w \in Workbooks}
  OBVIOUS
<1>2. \A b \in Batches : b \in Seq(Sources)
  BY <1>1, BatchesAssumption
<1>3. CASE /\ files \in Batches
           /\ \A i \in DOMAIN files : IsStatement(files[i]) => ~Links(files[i].content)
  <2>1. files \in Seq(Sources)
    BY <1>2, <1>3
  <2>2. ASSUME NEW i \in DOMAIN files PROVE Importable(tables, files[i])
    <3>1. files[i] \in Sources
      BY <2>1
    <3>2. ASSUME NEW d \in Documents, files[i] = File("statement", d)
          PROVE  Importable(tables, files[i])
      <4>1. IsStatement(files[i]) /\ files[i].content = d
        BY <3>2 DEF IsStatement, File
      <4>2. ~Links(d)
        BY <1>3, <4>1
      <4>3. \A j \in DOMAIN d.rows : d.rows[j].action # "link"
        BY <4>2 DEF Links, ToSet
      <4> QED
        BY <3>2, <4>3, DeclaredDocument, StatementImportable
    <3>3. ASSUME NEW w \in Workbooks, files[i] = File("workbook", w)
          PROVE  Importable(tables, files[i])
      BY <3>3, WorkbookImportable
    <3> QED
      BY <1>1, <3>1, <3>2, <3>3
  <2> QED
    BY <2>1, <2>2, TypedTable
<1>4. ASSUME NEW b \in Batches, NEW t \in DOMAIN transactions, files = AimedBatch(b, t)
      PROVE  IsTable(files) /\ \A i \in DOMAIN files : Importable(tables, files[i])
  <2>1. b \in Seq(Sources)
    BY <1>2
  <2>2. /\ DOMAIN files = DOMAIN b /\ DOMAIN b = 1..Len(b) /\ Len(b) \in Nat
        /\ files = [i \in 1..Len(b) |-> files[i]]
    BY <1>4, <2>1 DEF AimedBatch
  <2>3. IsTable(files)
    BY <2>2, TableOf
  <2>4. ASSUME NEW i \in DOMAIN files PROVE Importable(tables, files[i])
    <3>1. b[i] \in Sources
      BY <2>1, <2>2
    <3>2. ASSUME NEW d \in Documents, b[i] = File("statement", d)
          PROVE  Importable(tables, files[i])
      <4>1. IsStatement(b[i]) /\ b[i].content = d
        BY <3>2 DEF IsStatement, File
      <4>2. files[i] = [b[i] EXCEPT !.content = Aimed(d, t)]
        BY <1>4, <2>2, <4>1 DEF AimedBatch
      <4>3. files[i] = File("statement", Aimed(d, t))
        BY <3>2, <4>2 DEF File
      <4> QED
        BY <4>3, AimedImportable
    <3>3. ASSUME NEW w \in Workbooks, b[i] = File("workbook", w)
          PROVE  Importable(tables, files[i])
      <4>1. ~IsStatement(b[i])
        BY <3>3 DEF IsStatement, File
      <4>2. files[i] = File("workbook", w)
        BY <1>4, <2>2, <3>3, <4>1 DEF AimedBatch
      <4> QED
        BY <4>2, WorkbookImportable
    <3> QED
      BY <1>1, <3>1, <3>2, <3>3
  <2> QED
    BY <2>3, <2>4
<1> QED
  BY <1>3, <1>4 DEF StagedBatches

LEMMA ConsistentStart == Init => Consistent(tables)
<1> SUFFICES ASSUME Init PROVE Consistent(tables)
  OBVIOUS
<1>1. /\ tables.records = {} /\ tables.documents = {} /\ tables.workbooks = {}
      /\ tables = [records |-> tables.records, documents |-> tables.documents,
                   workbooks |-> tables.workbooks, transactions |-> tables.transactions]
  BY DEF Init, tables
<1>2. \A s, x : ContentsIn(tables, s, x) = {}
  BY <1>1 DEF ContentsIn
<1> QED
  BY <1>1, <1>2 DEF Consistent

LEMMA ImportKeepsConsistent ==
    ASSUME TypeOK, Consistent(tables), NEW file, Importable(tables, file), ImportFile(file)
    PROVE  Consistent(tables')
<1>1. PICK T : T = tables
  OBVIOUS
<1>2. IsTable(T.transactions) /\ Consistent(T) /\ Importable(T, file)
  BY <1>1, TypedTable DEF tables, TypeOK
<1>3. PICK V : V = Import(T, file).tables
  OBVIOUS
<1>4. Consistent(V)
  BY <1>2, <1>3, StandsAtFirst, FilePreviewed
<1>5. V = [records |-> V.records, documents |-> V.documents, workbooks |-> V.workbooks,
           transactions |-> V.transactions]
  BY <1>4 DEF Consistent
<1>6. /\ records' = V.records /\ documents' = V.documents /\ workbooks' = V.workbooks
      /\ transactions' = V.transactions
  BY <1>1, <1>3 DEF ImportFile
<1>7. tables' = V
  BY <1>5, <1>6 DEF tables
<1> QED
  BY <1>4, <1>7

LEMMA OthersKeepConsistent ==
    ASSUME Consistent(tables), UNCHANGED imported
    PROVE  Consistent(tables')
<1>1. PICK T, V : T = tables /\ V = tables'
  OBVIOUS
<1>2. /\ V.records = T.records /\ V.documents = T.documents /\ V.workbooks = T.workbooks
      /\ V = [records |-> V.records, documents |-> V.documents, workbooks |-> V.workbooks,
              transactions |-> V.transactions]
  BY <1>1 DEF tables, imported
<1>3. \A s, x : ContentsIn(V, s, x) = ContentsIn(T, s, x)
  BY <1>2 DEF ContentsIn
<1>4. Consistent(T)
  BY <1>1
<1>5. Consistent(V)
  BY <1>2, <1>3, <1>4 DEF Consistent
<1> QED
  BY <1>1, <1>5

LEMMA ConsistentStep ==
    ASSUME TypeOK, Consistent(tables), [Next]_vars
    PROVE  Consistent(tables')
<1>1. ASSUME NEW document \in Documents, NEW d \in Staged(document),
             ImportFile(File("statement", d))
      PROVE  Consistent(tables')
  BY <1>1, StagedImportable, ImportKeepsConsistent
<1>2. ASSUME NEW w \in Workbooks, ImportFile(File("workbook", w))
      PROVE  Consistent(tables')
  BY <1>2, WorkbookImportable, ImportKeepsConsistent
<1>3. ASSUME NEW k, NEW a, NEW previous, BindAccount(k, a, previous) PROVE UNCHANGED imported
  BY <1>3 DEF BindAccount
<1>4. RecomputeTransfers => UNCHANGED imported
  BY DEF RecomputeTransfers
<1>5. ASSUME NEW items, ImportEvidence(items) PROVE UNCHANGED imported
  BY <1>5 DEF ImportEvidence
<1>6. ASSUME NEW eids, NEW pids, ConfirmAllocation(eids, pids) PROVE UNCHANGED imported
  BY <1>6 DEF ConfirmAllocation
<1>7. ASSUME NEW a, WithdrawAllocation(a) PROVE UNCHANGED imported
  BY <1>7 DEF WithdrawAllocation
<1>8. ASSUME NEW period, ClosePeriod(period) \/ ReopenPeriod(period) PROVE UNCHANGED imported
  BY <1>8 DEF ClosePeriod, ReopenPeriod
<1>9. UNCHANGED vars => UNCHANGED imported
  BY DEF vars
<1>10. CASE UNCHANGED imported
  BY <1>10, OthersKeepConsistent
<1> QED
  BY <1>1, <1>2, <1>3, <1>4, <1>5, <1>6, <1>7, <1>8, <1>9, <1>10 DEF Next

\* Whatever has been imported, previewing a directory gives the receipts its run would give,
\* file by file, and announces the transactions the run would add.
THEOREM BooksPreviewPredictsBatch == Spec => []PreviewPredictsBatch
<1>1. TablesInv /\ Consistent(tables) => PreviewPredictsBatch
  <2> SUFFICES ASSUME TablesInv, Consistent(tables), NEW files \in StagedBatches
               PROVE  /\ PreviewBatch(tables, files) = RunBatch(tables, files).receipts
                      /\ Len(RunBatch(tables, files).tables.transactions) =
                            Len(transactions) + Added(PreviewBatch(tables, files))
    BY DEF PreviewPredictsBatch
  <2>1. PICK T : T = tables
    OBVIOUS
  <2>2. T.transactions = transactions /\ IsTable(T.transactions) /\ Consistent(T)
    BY <2>1, TypedTable DEF tables, TablesInv, TypeOK
  <2>3. IsTable(files) /\ \A i \in DOMAIN files : Importable(T, files[i])
    BY <2>1, StagedBatchImportable DEF TablesInv
  <2>4. /\ PreviewBatch(T, files) = RunBatch(T, files).receipts
        /\ Len(RunBatch(T, files).tables.transactions) =
              Len(T.transactions) + Added(PreviewBatch(T, files))
    BY <2>2, <2>3, BatchPredicted
  <2> QED
    BY <2>1, <2>2, <2>4
<1>2. TablesInv /\ [Next]_vars => TablesInv'
  BY TablesStep
<1>3. TablesInv /\ Consistent(tables) /\ [Next]_vars => Consistent(tables)'
  BY ConsistentStep DEF TablesInv
<1> QED
  BY <1>1, <1>2, <1>3, TablesStart, ConsistentStart, PTL DEF Spec
----------------------------------------------------------------------------
(* Sums, in whatever order their terms are taken.                          *)

\* g[T] is the sum of f over T, for every subset T of S.
SumSteps(f, S, g) ==
    g = [T \in SUBSET S |-> IF T = {} THEN 0 ELSE f[Some(T)] + g[T \ {Some(T)}]]

\* The library's sum is one such function's value.
LEMMA SumIs ==
    ASSUME NEW f, NEW S
    PROVE  SumFunctionOnSet(f, S) = (CHOOSE g : SumSteps(f, S, g))[S]
BY DEF SumFunctionOnSet, FoldFunctionOnSet, MapThenFoldSet, SumSteps, Some

\* What is left of a finite set without one member.
LEMMA Without ==
    ASSUME NEW T, IsFiniteSet(T), NEW x \in T
    PROVE  /\ IsFiniteSet(T \ {x}) /\ Cardinality(T) \in Nat /\ Cardinality(T \ {x}) \in Nat
           /\ Cardinality(T) = Cardinality(T \ {x}) + 1
<1>1. IsFiniteSet(T \ {x}) /\ Cardinality(T \ {x}) = Cardinality(T) - 1
  BY FS_RemoveElement
<1>2. Cardinality(T) \in Nat
  BY FS_CardinalityType
<1>3. Cardinality(T \ {x}) \in Nat
  BY <1>1, FS_CardinalityType
<1> QED
  BY <1>1, <1>2, <1>3

\* There is such a function: on sets of at most n members, for every n.
LEMMA SumExists ==
    ASSUME NEW f, NEW S, IsFiniteSet(S)
    PROVE  \E g : SumSteps(f, S, g)
<1>1. PICK m : m = Cardinality(S)
  OBVIOUS
<1>2. m \in Nat
  BY <1>1, FS_CardinalityType
<1>3. PICK PS : PS = SUBSET S
  OBVIOUS
<1>4. PICK size : size = [T \in PS |-> Cardinality(T)]
  OBVIOUS
<1>5. PICK rest : rest = [T \in PS |-> T \ {Some(T)}]
  OBVIOUS
<1>6. {} \in PS /\ S \in PS
  BY <1>3
<1>7. ASSUME NEW T \in PS
      PROVE  /\ size[T] \in 0..m
             /\ size[T] = 0 <=> T = {}
             /\ T # {} => rest[T] \in PS /\ size[rest[T]] = size[T] - 1
  <2>1. T \in SUBSET S
    BY <1>3
  <2>2. IsFiniteSet(T) /\ Cardinality(T) <= m
    BY <1>1, <2>1, FS_Subset
  <2>3. Cardinality(T) \in Nat
    BY <2>2, FS_CardinalityType
  <2>4. size[T] \in 0..m
    BY <1>2, <1>4, <2>2, <2>3
  <2>5. size[T] = 0 <=> T = {}
    BY <1>4, <2>2, FS_EmptySet
  <2>6. ASSUME T # {} PROVE rest[T] \in PS /\ size[rest[T]] = size[T] - 1
    <3>1. Some(T) \in T
      BY <2>6 DEF Some
    <3>2. PICK R : R = T \ {Some(T)}
      OBVIOUS
    <3>3. Cardinality(T) = Cardinality(R) + 1 /\ Cardinality(R) \in Nat
      BY <2>2, <3>1, <3>2, Without
    <3>4. R \in PS
      BY <1>3, <2>1, <3>2
    <3>5. rest[T] = R /\ size[R] = Cardinality(R) /\ size[T] = Cardinality(T)
      BY <1>4, <1>5, <3>2, <3>4
    <3> QED
      BY <2>3, <3>3, <3>4, <3>5
  <2> QED
    BY <2>4, <2>5, <2>6
<1>8. PICK upto : upto = [n \in 0..m |-> {T \in PS : size[T] <= n}]
  OBVIOUS
<1> DEFINE Steps(n, g) == g = [T \in upto[n] |-> IF T = {} THEN 0 ELSE f[Some(T)] + g[rest[T]]]
<1>9. PICK N : N = {n \in 0..m : ~\E g : Steps(n, g)}
  OBVIOUS
<1>10. 0 \notin N
  <2>1. \A T \in upto[0] : T = {}
    BY <1>2, <1>7, <1>8
  <2>2. PICK g : g = [T \in upto[0] |-> 0]
    OBVIOUS
  <2>3. Steps(0, g)
    BY <2>1, <2>2
  <2> QED
    BY <1>9, <2>3
<1>11. ASSUME NEW n \in 1..m, n \in N PROVE n - 1 \in N
  <2>1. n - 1 \in 0..m /\ n \in Nat /\ n \in 0..m
    BY <1>2
  <2>2. SUFFICES ASSUME NEW g, Steps(n - 1, g) PROVE FALSE
    BY <1>9, <2>1
  <2>3. PICK h : h = [T \in upto[n] |-> IF T = {} THEN 0 ELSE f[Some(T)] + g[rest[T]]]
    OBVIOUS
  <2>4. \A T \in upto[n - 1] : g[T] = IF T = {} THEN 0 ELSE f[Some(T)] + g[rest[T]]
    BY <2>2
  <2>5. ASSUME NEW T \in upto[n], T # {} PROVE h[rest[T]] = g[rest[T]]
    <3>1. PICK R : R = rest[T]
      OBVIOUS
    <3>2. T \in PS /\ size[T] <= n
      BY <1>8, <2>1
    <3>3. R \in PS /\ size[R] \in 0..m /\ size[R] <= n - 1 /\ size[R] <= n
      BY <1>2, <1>7, <2>1, <2>5, <3>1, <3>2
    <3>4. R \in upto[n - 1] /\ R \in upto[n]
      BY <1>8, <2>1, <3>3
    <3> QED
      BY <2>3, <2>4, <3>1, <3>4
  <2>6. \A T \in upto[n] : h[T] = IF T = {} THEN 0 ELSE f[Some(T)] + h[rest[T]]
    BY <2>3, <2>5
  <2>7. h = [T \in upto[n] |-> h[T]]
    BY <2>3
  <2>8. Steps(n, h)
    BY <2>6, <2>7
  <2> QED
    BY <1>9, <1>11, <2>8
<1>12. m \notin N
  BY <1>2, <1>9, <1>10, <1>11, UpTo
<1>13. PICK g : Steps(m, g)
  BY <1>2, <1>9, <1>12
<1>14. upto[m] = PS
  BY <1>2, <1>7, <1>8
<1>15. g = [T \in PS |-> IF T = {} THEN 0 ELSE f[Some(T)] + g[rest[T]]]
  BY <1>13, <1>14
<1>16. g = [T \in PS |-> IF T = {} THEN 0 ELSE f[Some(T)] + g[T \ {Some(T)}]]
  BY <1>5, <1>15
<1> QED
  BY <1>3, <1>16 DEF SumSteps

\* There is only one.
LEMMA SumUnique ==
    ASSUME NEW f, NEW S, NEW R, IsFiniteSet(R), R \subseteq S, NEW g, NEW h,
           SumSteps(f, S, g), SumSteps(f, R, h)
    PROVE  g[R] = h[R]
<1>1. PICK N : N = {Cardinality(T) : T \in {T \in SUBSET R : g[T] # h[T]}}
  OBVIOUS
<1>2. SUFFICES ASSUME N # {} PROVE FALSE
  <2>1. R \in SUBSET R
    OBVIOUS
  <2> QED
    BY <1>1, <2>1
<1>3. \A T \in SUBSET R : IsFiniteSet(T) /\ Cardinality(T) \in Nat
  BY FS_Subset, FS_CardinalityType
<1>4. N \subseteq Nat
  BY <1>1, <1>3
<1>5. PICK n \in N : \A k \in N : n <= k
  BY <1>2, <1>4, Least
<1>6. PICK T \in SUBSET R : g[T] # h[T] /\ Cardinality(T) = n
  BY <1>1, <1>5
<1>7. g[T] = IF T = {} THEN 0 ELSE f[Some(T)] + g[T \ {Some(T)}]
  <2>1. T \in SUBSET S
    BY <1>6
  <2> QED
    BY <2>1 DEF SumSteps
<1>8. h[T] = IF T = {} THEN 0 ELSE f[Some(T)] + h[T \ {Some(T)}]
  BY <1>6 DEF SumSteps
<1>9. T # {}
  BY <1>6, <1>7, <1>8
<1>10. Some(T) \in T
  BY <1>9 DEF Some
<1>11. PICK Q : Q = T \ {Some(T)}
  OBVIOUS
<1>12. Q \in SUBSET R /\ g[Q] # h[Q]
  BY <1>6, <1>7, <1>8, <1>9, <1>11
<1>13. Cardinality(Q) \in N
  BY <1>1, <1>12
<1>14. Cardinality(T) = Cardinality(Q) + 1 /\ Cardinality(Q) \in Nat
  BY <1>3, <1>6, <1>10, <1>11, Without
<1> QED
  BY <1>5, <1>6, <1>13, <1>14

\* Taking members away one at a time from a subset of a finite set ends.
LEMMA TakenAway ==
    ASSUME NEW S, IsFiniteSet(S), NEW N, N \subseteq SUBSET S, {} \notin N,
           \A T \in N : \E x \in T : T \ {x} \in N
    PROVE  N = {}
<1>1. \A T \in N : IsFiniteSet(T) /\ Cardinality(T) \in Nat
  BY FS_Subset, FS_CardinalityType
<1>2. PICK C : C = {Cardinality(T) : T \in N}
  OBVIOUS
<1>3. SUFFICES ASSUME N # {} PROVE FALSE
  OBVIOUS
<1>4. C \subseteq Nat /\ C # {}
  BY <1>1, <1>2, <1>3
<1>5. PICK n \in C : \A k \in C : n <= k
  BY <1>4, Least
<1>6. PICK T \in N : Cardinality(T) = n
  BY <1>2, <1>5
<1>7. PICK x \in T : T \ {x} \in N
  BY <1>6
<1>8. PICK R : R = T \ {x}
  OBVIOUS
<1>9. Cardinality(T) = Cardinality(R) + 1 /\ Cardinality(R) \in Nat
  BY <1>1, <1>7, <1>8, Without
<1>10. Cardinality(R) \in C
  BY <1>2, <1>7, <1>8
<1> QED
  BY <1>5, <1>6, <1>9, <1>10

\* A sum takes a chosen member first.
LEMMA SumSome ==
    ASSUME NEW f, NEW S, IsFiniteSet(S), NEW T, T \subseteq S
    PROVE  SumFunctionOnSet(f, T) =
              IF T = {} THEN 0 ELSE f[Some(T)] + SumFunctionOnSet(f, T \ {Some(T)})
<1>1. IsFiniteSet(T)
  BY FS_Subset
<1>2. PICK g : g = CHOOSE h : SumSteps(f, T, h)
  OBVIOUS
<1>3. SumSteps(f, T, g)
  BY <1>1, <1>2, SumExists
<1>4. SumFunctionOnSet(f, T) = g[T]
  BY <1>2, SumIs
<1>5. PICK PT : PT = SUBSET T
  OBVIOUS
<1>6. g = [U \in PT |-> IF U = {} THEN 0 ELSE f[Some(U)] + g[U \ {Some(U)}]]
  BY <1>3, <1>5 DEF SumSteps
<1>7. T \in PT
  BY <1>5
<1>8. g[T] = IF T = {} THEN 0 ELSE f[Some(T)] + g[T \ {Some(T)}]
  BY <1>6, <1>7
<1>9. PICK R : R = T \ {Some(T)}
  OBVIOUS
<1>10. R \subseteq T /\ IsFiniteSet(R)
  BY <1>1, <1>9, FS_Subset
<1>11. PICK h : h = CHOOSE k : SumSteps(f, R, k)
  OBVIOUS
<1>12. SumSteps(f, R, h)
  BY <1>10, <1>11, SumExists
<1>13. SumFunctionOnSet(f, R) = h[R]
  BY <1>11, SumIs
<1>14. g[R] = h[R]
  BY <1>3, <1>10, <1>12, SumUnique
<1> QED
  BY <1>4, <1>8, <1>9, <1>13, <1>14

\* A sum of integers is an integer.
LEMMA SumInt ==
    ASSUME NEW S, IsFiniteSet(S), NEW f, \A x \in S : f[x] \in Int
    PROVE  \A T \in SUBSET S : SumFunctionOnSet(f, T) \in Int
<1>1. PICK N : N = {T \in SUBSET S : SumFunctionOnSet(f, T) \notin Int}
  OBVIOUS
<1>2. N \subseteq SUBSET S
  BY <1>1
<1>3. SumFunctionOnSet(f, {}) = 0
  BY SumSome
<1>4. {} \notin N
  BY <1>1, <1>3
<1>5. ASSUME NEW T \in N PROVE \E x \in T : T \ {x} \in N
  <2>1. T \subseteq S /\ SumFunctionOnSet(f, T) \notin Int
    BY <1>1
  <2>2. T # {}
    BY <1>4
  <2>3. Some(T) \in T
    BY <2>2 DEF Some
  <2>4. SumFunctionOnSet(f, T) = f[Some(T)] + SumFunctionOnSet(f, T \ {Some(T)})
    BY <2>1, <2>2, SumSome
  <2>5. SumFunctionOnSet(f, T \ {Some(T)}) \notin Int
    BY <2>1, <2>3, <2>4
  <2>6. T \ {Some(T)} \subseteq S
    BY <2>1
  <2> QED
    BY <1>1, <2>3, <2>5, <2>6
<1>6. N = {}
  BY <1>2, <1>4, <1>5, TakenAway
<1> QED
  BY <1>1, <1>6

\* The order in which a sum takes its terms does not matter.
LEMMA SumRemove ==
    ASSUME NEW S, IsFiniteSet(S), NEW f, \A x \in S : f[x] \in Int
    PROVE  \A T \in SUBSET S : \A x \in T :
              SumFunctionOnSet(f, T) = f[x] + SumFunctionOnSet(f, T \ {x})
<1> DEFINE Sum(T) == SumFunctionOnSet(f, T)
           Wrong(T, x) == Sum(T) # f[x] + Sum(T \ {x})
<1>1. PICK N : N = {T \in SUBSET S : \E x \in T : Wrong(T, x)}
  OBVIOUS
<1>2. N \subseteq SUBSET S /\ {} \notin N
  BY <1>1
<1>3. ASSUME NEW T \in N PROVE \E x \in T : T \ {x} \in N
  <2>1. T \subseteq S
    BY <1>1
  <2>2. PICK x \in T : Wrong(T, x)
    BY <1>1
  <2>3. PICK s : s = Some(T)
    OBVIOUS
  <2>4. s \in T
    BY <2>2, <2>3 DEF Some
  <2>5. PICK A, B, C : A = T \ {x} /\ B = T \ {s} /\ C = T \ {x, s}
    OBVIOUS
  <2>6. Sum(T) = f[s] + Sum(B)
    BY <2>1, <2>2, <2>3, <2>5, SumSome
  <2>7. x # s
    BY <2>2, <2>5, <2>6
  <2>8. SUFFICES ASSUME A \notin N, B \notin N PROVE FALSE
    BY <2>2, <2>4, <2>5
  <2>9. A \in SUBSET S /\ B \in SUBSET S /\ C \in SUBSET S /\ s \in A /\ x \in B
    BY <2>1, <2>2, <2>4, <2>5, <2>7
  <2>10. ~Wrong(A, s) /\ ~Wrong(B, x)
    BY <1>1, <2>8, <2>9
  <2>11. A \ {s} = C /\ B \ {x} = C
    BY <2>5
  <2>12. Sum(A) = f[s] + Sum(C) /\ Sum(B) = f[x] + Sum(C)
    BY <2>10, <2>11
  <2>13. Sum(C) \in Int /\ f[s] \in Int /\ f[x] \in Int
    BY <2>1, <2>2, <2>4, <2>9, SumInt
  <2>14. Sum(T) # f[x] + Sum(A)
    BY <2>2, <2>5
  <2> HIDE DEF Sum
  <2> QED
    BY <2>6, <2>12, <2>13, <2>14
<1>4. N = {}
  BY <1>2, <1>3, TakenAway
<1>5. SUFFICES ASSUME NEW T \in SUBSET S, NEW x \in T 
               PROVE SumFunctionOnSet(f, T) = f[x] + SumFunctionOnSet(f, T \ {x})
  BY Zenon
<1> QED
  BY <1>1, <1>4

\* Sums of the same terms, differently named.
LEMMA SumMapped ==
    ASSUME NEW S, IsFiniteSet(S), NEW f, NEW g, NEW h,
           \A x, y \in S : h[x] = h[y] => x = y,
           \A x \in S : f[x] \in Int /\ g[h[x]] = f[x]
    PROVE  SumFunctionOnSet(g, {h[x] : x \in S}) = SumFunctionOnSet(f, S)
<1> DEFINE Image(T) == {h[x] : x \in T}
<1>1. PICK N : N = {T \in SUBSET S : SumFunctionOnSet(g, Image(T)) # SumFunctionOnSet(f, T)}
  OBVIOUS
<1>2. N \subseteq SUBSET S
  BY <1>1
<1>3. Image({}) = {}
  OBVIOUS
<1>4. SumFunctionOnSet(f, {}) = 0 /\ SumFunctionOnSet(g, {}) = 0
  BY SumSome, FS_EmptySet
<1>5. {} \notin N
  BY <1>1, <1>3, <1>4
<1>6. IsFiniteSet(Image(S))
  <2>1. [x \in S |-> h[x]] \in Surjection(S, Image(S))
    BY DEF Surjection
  <2> QED
    BY <2>1, FS_Surjection
<1>7. \A y \in Image(S) : g[y] \in Int
  OBVIOUS
<1>8. ASSUME NEW T \in N PROVE \E x \in T : T \ {x} \in N
  <2>1. T \in SUBSET S /\ SumFunctionOnSet(g, Image(T)) # SumFunctionOnSet(f, T)
    BY <1>1
  <2>2. T # {}
    BY <1>5
  <2>3. PICK x \in T : TRUE
    BY <2>2
  <2>4. PICK R : R = T \ {x}
    OBVIOUS
  <2>5. R \in SUBSET S /\ x \in S
    BY <2>1, <2>4
  <2>6. SumFunctionOnSet(f, T) = f[x] + SumFunctionOnSet(f, R)
    BY <2>1, <2>4, SumRemove
  <2>7. PICK IT, IR : IT = Image(T) /\ IR = Image(R)
    OBVIOUS
  <2>8. IT \in SUBSET Image(S) /\ h[x] \in IT
    BY <2>1, <2>7
  <2>9. IR = IT \ {h[x]}
    BY <2>1, <2>4, <2>7
  <2>10. SumFunctionOnSet(g, IT) = g[h[x]] + SumFunctionOnSet(g, IR)
    <3> HIDE DEF Image
    <3> QED
      BY <1>6, <1>7, <2>8, <2>9, SumRemove
  <2>11. SumFunctionOnSet(g, IR) # SumFunctionOnSet(f, R)
    BY <2>1, <2>5, <2>6, <2>7, <2>10
  <2>12. R \in N
    BY <1>1, <2>5, <2>7, <2>11
  <2> QED
    BY <2>4, <2>12
<1>9. N = {}
  BY <1>2, <1>5, <1>8, TakenAway
<1>10. S \in SUBSET S
  OBVIOUS
<1> QED
  BY <1>1, <1>9, <1>10

\* Terms of the opposite sign have the opposite sum.
LEMMA SumNegated ==
    ASSUME NEW S, IsFiniteSet(S), NEW f, NEW g,
           \A x \in S : f[x] \in Int /\ g[x] \in Int /\ g[x] = -f[x]
    PROVE  SumFunctionOnSet(g, S) = -SumFunctionOnSet(f, S)
<1>1. PICK N : N = {T \in SUBSET S : SumFunctionOnSet(g, T) # -SumFunctionOnSet(f, T)}
  OBVIOUS
<1>2. N \subseteq SUBSET S
  BY <1>1
<1>3. SumFunctionOnSet(f, {}) = 0 /\ SumFunctionOnSet(g, {}) = 0
  BY SumSome
<1>4. {} \notin N
  BY <1>1, <1>3
<1>5. ASSUME NEW T \in N PROVE \E x \in T : T \ {x} \in N
  <2>1. T \in SUBSET S /\ SumFunctionOnSet(g, T) # -SumFunctionOnSet(f, T)
    BY <1>1
  <2>2. PICK x \in T : TRUE
    BY <1>4
  <2>3. PICK R : R = T \ {x}
    OBVIOUS
  <2>4. R \in SUBSET S /\ x \in S
    BY <2>1, <2>3
  <2>5. SumFunctionOnSet(f, T) = f[x] + SumFunctionOnSet(f, R)
    BY <2>1, <2>3, SumRemove
  <2>6. SumFunctionOnSet(g, T) = g[x] + SumFunctionOnSet(g, R)
    BY <2>1, <2>3, SumRemove
  <2>7. SumFunctionOnSet(f, R) \in Int /\ SumFunctionOnSet(g, R) \in Int
    BY <2>4, SumInt
  <2>8. SumFunctionOnSet(g, R) # -SumFunctionOnSet(f, R)
    BY <2>1, <2>4, <2>5, <2>6, <2>7
  <2> QED
    BY <1>1, <2>3, <2>4, <2>8
<1>6. N = {}
  BY <1>2, <1>4, <1>5, TakenAway
<1>7. S \in SUBSET S
  OBVIOUS
<1> QED
  BY <1>1, <1>6, <1>7

----------------------------------------------------------------------------
(* Ordered sets: their first member and their sequence.                    *)

\* R is a strict total order of S.
IsOrder(S, R) ==
    /\ \A a \in S : <<a, a>> \notin R
    /\ \A a, b, c \in S : <<a, b>> \in R /\ <<b, c>> \in R => <<a, c>> \in R
    /\ \A a, b \in S : a = b \/ <<a, b>> \in R \/ <<b, a>> \in R
Preceding(S, R, a) == {b \in S : <<b, a>> \in R}
Place(S, R, a) == Cardinality(Preceding(S, R, a))

\* Every place from 0 on has its member.
LEMMA Places ==
    ASSUME NEW S, IsFiniteSet(S), NEW R, IsOrder(S, R)
    PROVE  /\ \A a \in S : Place(S, R, a) \in 0..(Cardinality(S) - 1)
           /\ \A a, b \in S : <<a, b>> \in R => Place(S, R, a) < Place(S, R, b)
           /\ \A n \in 1..Cardinality(S) : \E a \in S : Place(S, R, a) = n - 1
<1>1. PICK m : m = Cardinality(S)
  OBVIOUS
<1>2. m \in Nat
  BY <1>1, FS_CardinalityType
<1>3. ASSUME NEW a \in S
      PROVE  IsFiniteSet(Preceding(S, R, a)) /\ Place(S, R, a) \in Nat /\ Place(S, R, a) <= m - 1
  <2>1. PICK B : B = Preceding(S, R, a)
    OBVIOUS
  <2>2. B \subseteq S /\ a \notin B
    BY <2>1 DEF Preceding, IsOrder
  <2>3. IsFiniteSet(B) /\ Cardinality(B) <= m
    BY <1>1, <2>2, FS_Subset
  <2>4. Cardinality(B) # m
    BY <1>1, <2>2, FS_Subset
  <2>5. Cardinality(B) \in Nat
    BY <2>3, FS_CardinalityType
  <2> QED
    BY <1>2, <2>1, <2>3, <2>4, <2>5 DEF Place
<1>4. ASSUME NEW a \in S, NEW b \in S, <<a, b>> \in R PROVE Place(S, R, a) < Place(S, R, b)
  <2>1. PICK A, B : A = Preceding(S, R, a) /\ B = Preceding(S, R, b)
    OBVIOUS
  <2>2. A \subseteq B /\ a \in B /\ a \notin A
    BY <1>4, <2>1 DEF Preceding, IsOrder
  <2>3. IsFiniteSet(B) /\ Cardinality(A) \in Nat /\ Cardinality(B) \in Nat
    BY <1>3, <2>1 DEF Place
  <2>4. Cardinality(A) <= Cardinality(B) /\ Cardinality(A) # Cardinality(B)
    BY <2>2, <2>3, FS_Subset
  <2> QED
    BY <2>1, <2>3, <2>4 DEF Place
<1>5. PICK f : f = [a \in S |-> Place(S, R, a) + 1]
  OBVIOUS
<1>6. f \in [S -> 1..m]
  <2>1. \A a \in S : Place(S, R, a) + 1 \in 1..m
    BY <1>2, <1>3
  <2> QED
    BY <1>5, <2>1
<1>7. ASSUME NEW a \in S, NEW b \in S, f[a] = f[b] PROVE a = b
  <2>1. Place(S, R, a) = Place(S, R, b) /\ Place(S, R, a) \in Nat
    BY <1>3, <1>5, <1>7
  <2>2. a = b \/ <<a, b>> \in R \/ <<b, a>> \in R
    BY DEF IsOrder
  <2>3. Place(S, R, b) \in Nat
    BY <1>3
  <2> QED
    BY <1>4, <2>1, <2>2, <2>3
<1>8. f \in Injection(S, 1..m)
  BY <1>6, <1>7 DEF Injection, IsInjective
<1>9. IsFiniteSet(1..m) /\ Cardinality(1..m) = m
  BY <1>2, FS_Interval
<1>10. f \in Surjection(S, 1..m)
  BY <1>1, <1>8, <1>9, FS_Injection
<1>11. ASSUME NEW n \in 1..m PROVE \E a \in S : Place(S, R, a) = n - 1
  <2>1. PICK a \in S : f[a] = n
    BY <1>10 DEF Surjection
  <2>2. Place(S, R, a) = n - 1
    BY <1>2, <1>3, <1>5, <2>1
  <2> QED
    BY <2>2
<1>12. \A a \in S : Place(S, R, a) \in 0..(m - 1)
  BY <1>2, <1>3
<1> QED
  BY <1>1, <1>4, <1>11, <1>12

\* An ordered set has a first member.
LEMMA FirstOne ==
    ASSUME NEW S, IsFiniteSet(S), S # {}, NEW R, IsOrder(S, R)
    PROVE  First(S, R) \in S
<1>1. 1 \in 1..Cardinality(S)
  BY FS_CardinalityType, FS_EmptySet
<1>2. PICK a \in S : Place(S, R, a) = 0
  BY <1>1, Places
<1>3. ASSUME NEW b \in S \ {a} PROVE <<a, b>> \in R
  <2>1. <<a, b>> \in R \/ <<b, a>> \in R
    BY DEF IsOrder
  <2>2. Place(S, R, b) \in 0..(Cardinality(S) - 1)
    BY Places
  <2>3. Place(S, R, b) >= 0 /\ Place(S, R, b) \in Int
    BY <2>2, FS_CardinalityType
  <2>4. <<b, a>> \in R => Place(S, R, b) < Place(S, R, a)
    BY Places
  <2> QED
    BY <1>2, <2>1, <2>3, <2>4
<1> QED
  BY <1>3 DEF First

\* Its sequence holds its members, each once.
LEMMA SortedOnce ==
    ASSUME NEW S, IsFiniteSet(S), NEW R, IsOrder(S, R)
    PROVE  /\ DOMAIN Sorted(S, R) = 1..Cardinality(S)
           /\ \A n \in 1..Cardinality(S) : Sorted(S, R)[n] \in S
           /\ \A n, k \in 1..Cardinality(S) : Sorted(S, R)[n] = Sorted(S, R)[k] => n = k
<1>1. PICK m : m = Cardinality(S)
  OBVIOUS
<1>2. PICK s : s = Sorted(S, R)
  OBVIOUS
<1>3. s = [n \in 1..m |-> CHOOSE a \in S : Place(S, R, a) = n - 1]
  BY <1>1, <1>2 DEF Sorted, Place, Preceding
<1>4. \A n \in 1..m : s[n] \in S /\ Place(S, R, s[n]) = n - 1
  <2>1. \A n \in 1..m : \E a \in S : Place(S, R, a) = n - 1
    BY <1>1, Places
  <2> QED
    BY <1>3, <2>1
<1>5. m \in Nat
  BY <1>1, FS_CardinalityType
<1>6. ASSUME NEW n \in 1..m, NEW k \in 1..m, s[n] = s[k] PROVE n = k
  BY <1>4, <1>5, <1>6
<1>7. DOMAIN s = 1..m
  BY <1>3
<1> QED
  BY <1>1, <1>2, <1>4, <1>6, <1>7

----------------------------------------------------------------------------
(* Items and the orders they are taken in.                                 *)

\* A finite set of items, one per id.
AreItems(S) ==
    /\ IsFiniteSet(S)
    /\ \A x \in S : x.id \in Int /\ x.day \in Int /\ x.amount \in Int
    /\ \A x, y \in S : x.id = y.id => x = y

\* So are some of them.
LEMMA FewerItems ==
    ASSUME NEW S, AreItems(S), NEW T, T \subseteq S
    PROVE  AreItems(T)
<1>1. IsFiniteSet(T)
  BY FS_Subset DEF AreItems
<1> QED
  BY <1>1 DEF AreItems

\* The size of an item is a number.
LEMMA SizeIsNatural ==
    ASSUME NEW x, x.amount \in Int
    PROVE  Size(x) \in Nat
BY DEF Size, Magnitude

\* Items in the order of their ids.
LEMMA IdOrder ==
    ASSUME NEW S, AreItems(S)
    PROVE  IsOrder(S, ById(S))
<1>1. PICK R : R = ById(S)
  OBVIOUS
<1>2. \A a, b \in S : <<a, b>> \in R <=> a.id < b.id
  BY <1>1 DEF ById
<1>3. \A a, b \in S : a.id \in Int /\ (a.id = b.id => a = b)
  BY DEF AreItems
<1> QED
  BY <1>1, <1>2, <1>3 DEF IsOrder

\* Items in the order of their dates, then ids.
LEMMA DateOrder ==
    ASSUME NEW S, AreItems(S)
    PROVE  /\ IsOrder(S, ByDate(S))
           /\ \A a, b \in S : <<a, b>> \in ByDate(S) <=>
                 a.day < b.day \/ (a.day = b.day /\ a.id < b.id)
<1>1. PICK R : R = ByDate(S)
  OBVIOUS
<1>2. \A a, b \in S : <<a, b>> \in R <=> a.day < b.day \/ (a.day = b.day /\ a.id < b.id)
  BY <1>1 DEF ByDate
<1>3. \A a, b \in S : a.id \in Int /\ a.day \in Int /\ (a.id = b.id => a = b)
  BY DEF AreItems
<1>4. \A a \in S : <<a, a>> \notin R
  BY <1>2, <1>3
<1>5. \A a, b, c \in S : <<a, b>> \in R /\ <<b, c>> \in R => <<a, c>> \in R
  BY <1>2, <1>3
<1>6. ASSUME NEW a \in S, NEW b \in S PROVE a = b \/ <<a, b>> \in R \/ <<b, a>> \in R
  <2>1. a.id \in Int /\ b.id \in Int /\ a.day \in Int /\ b.day \in Int
    BY <1>3
  <2>2. \/ a.day < b.day \/ (a.day = b.day /\ a.id < b.id)
        \/ b.day < a.day \/ (b.day = a.day /\ b.id < a.id)
        \/ a.id = b.id
    BY <2>1
  <2> QED
    BY <1>2, <1>3, <2>2
<1> QED
  BY <1>1, <1>2, <1>4, <1>5, <1>6 DEF IsOrder

\* Items in the order of their sizes, the largest first.
LEMMA SizeOrder ==
    ASSUME NEW S, AreItems(S)
    PROVE  IsOrder(S, LargestFirst(S))
<1>1. PICK R : R = LargestFirst(S)
  OBVIOUS
<1>2. PICK D : D = ByDate(S)
  OBVIOUS
<1>3. \A a, b \in S : <<a, b>> \in R <=> Size(a) > Size(b) \/ (Size(a) = Size(b) /\ <<a, b>> \in D)
  BY <1>1, <1>2 DEF LargestFirst
<1>4. \A a \in S : Size(a) \in Nat
  BY SizeIsNatural DEF AreItems
<1>5. IsOrder(S, D)
  BY <1>2, DateOrder
<1>6. ASSUME NEW a \in S PROVE <<a, a>> \notin R
  <2>1. <<a, a>> \notin D
    BY <1>5 DEF IsOrder
  <2> QED
    BY <1>3, <1>4, <2>1
<1>7. ASSUME NEW a \in S, NEW b \in S, NEW c \in S, <<a, b>> \in R, <<b, c>> \in R
      PROVE  <<a, c>> \in R
  <2>1. <<a, b>> \in D /\ <<b, c>> \in D => <<a, c>> \in D
    BY <1>5 DEF IsOrder
  <2> QED
    BY <1>3, <1>4, <1>7, <2>1
<1>8. ASSUME NEW a \in S, NEW b \in S PROVE a = b \/ <<a, b>> \in R \/ <<b, a>> \in R
  <2>1. a = b \/ <<a, b>> \in D \/ <<b, a>> \in D
    BY <1>5 DEF IsOrder
  <2> QED
    BY <1>3, <1>4, <2>1
<1> QED
  BY <1>1, <1>6, <1>7, <1>8 DEF IsOrder

\* The first number at which two different sets of numbers differ.
LEMMA FirstDifference ==
    ASSUME NEW c, NEW d, c \subseteq Nat, d \subseteq Nat, c # d
    PROVE  \E m \in SymDiff(c, d) :
              /\ m = Min(SymDiff(c, d)) /\ m \in Nat
              /\ \A k \in Nat : k < m => (k \in c <=> k \in d)
<1>1. PICK D : D = SymDiff(c, d)
  OBVIOUS
<1>2. D \subseteq Nat /\ D # {} /\ \A k : k \in D <=> (k \in c /\ k \notin d) \/ (k \in d /\ k \notin c)
  BY <1>1 DEF SymDiff
<1>3. \E n \in D : \A k \in D : n <= k
  BY <1>2, Least
<1>4. PICK m : m = Min(D)
  OBVIOUS
<1>5. m \in D /\ \A k \in D : m <= k
  BY <1>3, <1>4 DEF Min
<1>6. \A k \in Nat : k < m => (k \in c <=> k \in d)
  BY <1>2, <1>5
<1> QED
  BY <1>1, <1>2, <1>4, <1>5, <1>6

\* c is before d among combinations of one size.
Lexical(c, d) == \E m \in Nat : /\ m \in c /\ m \notin d
                                /\ \A k \in Nat : k < m => (k \in c <=> k \in d)
\* Two combinations of one size are compared by their first difference.
LEMMA LexicalIs ==
    ASSUME NEW c, NEW d, c \subseteq Nat, d \subseteq Nat
    PROVE  /\ c # d /\ Min(SymDiff(c, d)) \in c <=> Lexical(c, d)
           /\ c = d \/ Lexical(c, d) \/ Lexical(d, c)
<1>1. CASE c = d
  BY <1>1 DEF Lexical
<1>2. CASE c # d
  <2>1. PICK m \in SymDiff(c, d) :
              /\ m = Min(SymDiff(c, d)) /\ m \in Nat
              /\ \A k \in Nat : k < m => (k \in c <=> k \in d)
    BY <1>2, FirstDifference
  <2>2. (m \in c /\ m \notin d) \/ (m \in d /\ m \notin c)
    BY DEF SymDiff
  <2>3. m \in c => Lexical(c, d)
    BY <2>1, <2>2 DEF Lexical
  <2>4. m \in d => Lexical(d, c)
    BY <2>1, <2>2 DEF Lexical
  <2>5. ASSUME Lexical(c, d) PROVE m \in c
    <3>1. PICK n \in Nat : n \in c /\ n \notin d /\ \A k \in Nat : k < n => (k \in c <=> k \in d)
      BY <2>5 DEF Lexical
    <3>2. ~(m < n) /\ ~(n < m)
      BY <2>1, <2>2, <3>1
    <3>3. m = n
      BY <2>1, <3>1, <3>2
    <3> QED
      BY <3>1, <3>3
  <2> QED
    BY <1>2, <2>1, <2>2, <2>3, <2>4, <2>5
<1> QED
  BY <1>1, <1>2

\* That comparison is transitive.
LEMMA LexicalOrder ==
    ASSUME NEW c, NEW d, NEW e, Lexical(c, d), Lexical(d, e)
    PROVE  Lexical(c, e)
<1>1. PICK m \in Nat : m \in c /\ m \notin d /\ \A k \in Nat : k < m => (k \in c <=> k \in d)
  BY DEF Lexical
<1>2. PICK n \in Nat : n \in d /\ n \notin e /\ \A k \in Nat : k < n => (k \in d <=> k \in e)
  BY DEF Lexical
<1>3. CASE m < n
  BY <1>1, <1>2, <1>3 DEF Lexical
<1>4. CASE n < m
  BY <1>1, <1>2, <1>4 DEF Lexical
<1> QED
  BY <1>1, <1>2, <1>3, <1>4

\* Combinations have an order: by size, then lexicographically.
LEMMA ComboOrder ==
    ASSUME NEW D, D \subseteq Nat, IsFiniteSet(D), NEW C, C \subseteq SUBSET D
    PROVE  IsFiniteSet(C) /\ IsOrder(C, Earlier(C))
<1>1. IsFiniteSet(C)
  BY FS_SUBSET, FS_Subset
<1>2. PICK R : R = Earlier(C)
  OBVIOUS
<1>3. PICK n : n = [c \in C |-> Cardinality(c)]
  OBVIOUS
<1>4. ASSUME NEW c \in C PROVE n[c] \in Nat /\ c \subseteq Nat
  <2>1. IsFiniteSet(c)
    BY FS_Subset
  <2> QED
    BY <1>3, <2>1, FS_CardinalityType
<1>5. ASSUME NEW c \in C, NEW d \in C
      PROVE  <<c, d>> \in R <=> n[c] < n[d] \/ (n[c] = n[d] /\ Lexical(c, d))
  <2>1. c \subseteq Nat /\ d \subseteq Nat
    BY <1>4
  <2>2. c # d /\ Min(SymDiff(c, d)) \in c <=> Lexical(c, d)
    BY <2>1, LexicalIs
  <2>3. <<c, d>> \in R <=> \/ Cardinality(c) < Cardinality(d)
                           \/ /\ Cardinality(c) = Cardinality(d) /\ c # d
                              /\ Min(SymDiff(c, d)) \in c
    BY <1>2 DEF Earlier
  <2> QED
    BY <1>3, <2>2, <2>3
<1>6. \A c \in C : <<c, c>> \notin R
  <2>1. \A c \in C : ~Lexical(c, c)
    BY DEF Lexical
  <2> QED
    BY <1>4, <1>5, <2>1
<1>7. ASSUME NEW b \in C, NEW c \in C, NEW d \in C, <<b, c>> \in R, <<c, d>> \in R
      PROVE  <<b, d>> \in R
  <2>1. Lexical(b, c) /\ Lexical(c, d) => Lexical(b, d)
    BY LexicalOrder
  <2>2. n[b] \in Nat /\ n[c] \in Nat /\ n[d] \in Nat
    BY <1>4
  <2> QED
    BY <1>5, <1>7, <2>1, <2>2
<1>8. ASSUME NEW c \in C, NEW d \in C PROVE c = d \/ <<c, d>> \in R \/ <<d, c>> \in R
  <2>1. c = d \/ Lexical(c, d) \/ Lexical(d, c)
    BY <1>4, LexicalIs
  <2>2. n[c] \in Nat /\ n[d] \in Nat
    BY <1>4
  <2> QED
    BY <1>5, <2>1, <2>2
<1> QED
  BY <1>1, <1>2, <1>6, <1>7, <1>8 DEF IsOrder

----------------------------------------------------------------------------
(* The searches for combinations.                                          *)

\* The size of one item.
LEMMA SizeOfOne ==
    ASSUME NEW x, x.amount \in Int
    PROVE  SizeOf({x}) = Size(x)
<1>1. PICK f : f = [item \in {x} |-> Size(item)]
  OBVIOUS
<1>2. SizeOf({x}) = SumFunctionOnSet(f, {x})
  BY <1>1 DEF SizeOf, SumFunction
<1>3. IsFiniteSet({x}) /\ Some({x}) = x
  BY FS_Singleton DEF Some
<1>4. SumFunctionOnSet(f, {x}) = f[x] + SumFunctionOnSet(f, {x} \ {x})
  BY <1>3, SumSome
<1>5. SumFunctionOnSet(f, {x} \ {x}) = 0
  <2>1. {x} \ {x} = {}
    OBVIOUS
  <2> QED
    BY <1>3, <2>1, SumSome
<1>6. f[x] = Size(x) /\ Size(x) \in Nat
  BY <1>1, SizeIsNatural
<1> QED
  BY <1>2, <1>4, <1>5, <1>6

\* A combination of a sorted set of items is a subset of the same size.
LEMMA MembersOf ==
    ASSUME NEW S, AreItems(S), NEW R, IsOrder(S, R), NEW c, c \subseteq DOMAIN Sorted(S, R)
    PROVE  /\ Members(Sorted(S, R), c) \subseteq S
           /\ SizeOf(Members(Sorted(S, R), c)) = Total(Sorted(S, R), c)
<1>1. PICK s : s = Sorted(S, R)
  OBVIOUS
<1>2. PICK m : m = Cardinality(S)
  OBVIOUS
<1>3. /\ DOMAIN s = 1..m
      /\ \A n \in 1..m : s[n] \in S
      /\ \A n, k \in 1..m : s[n] = s[k] => n = k
  BY <1>1, <1>2, SortedOnce DEF AreItems
<1>4. m \in Nat
  BY <1>2, FS_CardinalityType DEF AreItems
<1>5. PICK T : T = Members(s, c)
  OBVIOUS
<1>6. T = {s[n] : n \in c} /\ T \subseteq S
  BY <1>1, <1>3, <1>5 DEF Members
<1>7. PICK f : f = [i \in DOMAIN s |-> Size(s[i])]
  OBVIOUS
<1>8. PICK g : g = [item \in T |-> Size(item)]
  OBVIOUS
<1>9. IsFiniteSet(c)
  BY <1>1, <1>3, <1>4, FS_Interval, FS_Subset
<1>10. \A n \in c : f[n] \in Int /\ g[s[n]] = f[n]
  <2>1. ASSUME NEW n \in c PROVE f[n] \in Int /\ g[s[n]] = f[n]
    <3>1. n \in DOMAIN s /\ s[n] \in S /\ s[n] \in T
      BY <1>1, <1>3, <1>6
    <3>2. Size(s[n]) \in Int
      BY <3>1, SizeIsNatural DEF AreItems
    <3> QED
      BY <1>7, <1>8, <3>1, <3>2
  <2> QED
    BY <2>1
<1>11. \A n, k \in c : s[n] = s[k] => n = k
  BY <1>1, <1>3
<1>12. SumFunctionOnSet(g, {s[n] : n \in c}) = SumFunctionOnSet(f, c)
  BY <1>9, <1>10, <1>11, SumMapped
<1>13. Total(s, c) = SumFunctionOnSet(f, c)
  BY <1>7 DEF Total
<1>14. SizeOf(T) = SumFunctionOnSet(g, T)
  BY <1>8 DEF SizeOf, SumFunction
<1> QED
  BY <1>1, <1>5, <1>6, <1>12, <1>13, <1>14

\* Of the combinations of a sequence that are left, there is a first.
LEMMA FirstCombo ==
    ASSUME NEW S, AreItems(S), NEW R, IsOrder(S, R),
           NEW C, C # {}, C \subseteq SUBSET DOMAIN Sorted(S, R)
    PROVE  First(C, Earlier(C)) \in C
<1>1. PICK D : D = DOMAIN Sorted(S, R)
  OBVIOUS
<1>2. D = 1..Cardinality(S) /\ Cardinality(S) \in Nat
  BY <1>1, SortedOnce, FS_CardinalityType DEF AreItems
<1>3. D \subseteq Nat /\ IsFiniteSet(D)
  BY <1>2, FS_Interval
<1>4. C \subseteq SUBSET D
  BY <1>1
<1>5. IsFiniteSet(C) /\ IsOrder(C, Earlier(C))
  BY <1>3, <1>4, ComboOrder
<1> QED
  BY <1>5, FirstOne

\* What is found for a target sums to it.
LEMMA FoundSum ==
    ASSUME NEW S, AreItems(S), NEW target, SummingTo(Sorted(S, ByDate(S)), target) # {}
    PROVE  /\ SummingTo(Sorted(S, ByDate(S)), target) \subseteq S
           /\ SizeOf(SummingTo(Sorted(S, ByDate(S)), target)) = target
<1>1. PICK s : s = Sorted(S, ByDate(S))
  OBVIOUS
<1>2. PICK hits : hits = {c \in Combos(s, PossibleSizes(s, target)) : Total(s, c) = target}
  OBVIOUS
<1>3. SummingTo(s, target) = IF hits = {} THEN {} ELSE Members(s, First(hits, Earlier(hits)))
  BY <1>2 DEF SummingTo
<1>4. hits # {}
  BY <1>1, <1>3
<1>5. \A c \in hits : c \subseteq DOMAIN s /\ Total(s, c) = target
  BY <1>2 DEF Combos
<1>6. PICK c : c = First(hits, Earlier(hits))
  OBVIOUS
<1>7. IsOrder(S, ByDate(S))
  BY DateOrder
<1>8. c \in hits
  <2>1. hits \subseteq SUBSET DOMAIN s
    BY <1>5
  <2> QED
    BY <1>1, <1>4, <1>6, <1>7, <2>1, FirstCombo
<1>9. Members(s, c) \subseteq S /\ SizeOf(Members(s, c)) = Total(s, c)
  BY <1>1, <1>5, <1>7, <1>8, MembersOf
<1> QED
  BY <1>1, <1>3, <1>4, <1>5, <1>6, <1>8, <1>9

\* A partial match is one of the items searched.
LEMMA FoundPartial ==
    ASSUME NEW S, AreItems(S), NEW target
    PROVE  BestPartial(Sorted(S, ByDate(S)), target) \subseteq S
<1>1. PICK s : s = Sorted(S, ByDate(S))
  OBVIOUS
<1>2. PICK below : below = {c \in Combos(s, PossiblePartialSizes(s, target)) :
                               0 < Total(s, c) /\ Total(s, c) < target}
  OBVIOUS
<1>3. PICK best : best = {c \in below : \A d \in below : Total(s, d) <= Total(s, c)}
  OBVIOUS
<1>4. PICK enough : enough = {c \in best : 2 * Total(s, c) >= target}
  OBVIOUS
<1>5. BestPartial(s, target) =
        IF enough = {} THEN {} ELSE Members(s, First(enough, Earlier(enough)))
  BY <1>2, <1>3, <1>4 DEF BestPartial
<1>6. SUFFICES ASSUME enough # {} PROVE Members(s, First(enough, Earlier(enough))) \subseteq S
  BY <1>1, <1>5
<1>7. enough \subseteq below
  BY <1>3, <1>4
<1>8. \A c \in enough : c \subseteq DOMAIN s
  BY <1>2, <1>7 DEF Combos
<1>9. enough \subseteq SUBSET DOMAIN s
  BY <1>8
<1>10. IsOrder(S, ByDate(S))
  BY DateOrder
<1>11. First(enough, Earlier(enough)) \in enough
  BY <1>1, <1>6, <1>9, <1>10, FirstCombo
<1> QED
  BY <1>1, <1>8, <1>10, <1>11, MembersOf

\* Candidates are some of the payments.
LEMMA CandidatesAmong ==
    ASSUME NEW S, AreItems(S), NEW target
    PROVE  Candidates(S, target) \subseteq S
<1>1. PICK eligible : eligible = {p \in S : Size(p) <= target}
  OBVIOUS
<1>2. eligible \subseteq S /\ AreItems(eligible)
  BY <1>1, FewerItems
<1>3. PICK s : s = Sorted(eligible, LargestFirst(eligible))
  OBVIOUS
<1>4. Candidates(S, target) = IF Cardinality(eligible) <= MaxCandidates THEN eligible
                              ELSE Members(s, 1..MaxCandidates)
  BY <1>1, <1>3 DEF Candidates
<1>5. CASE Cardinality(eligible) <= MaxCandidates
  BY <1>2, <1>4, <1>5
<1>6. CASE ~(Cardinality(eligible) <= MaxCandidates)
  <2>1. Cardinality(eligible) \in Nat /\ MaxCandidates \in Nat
    BY <1>2, FS_CardinalityType, MatchingAssumption DEF AreItems
  <2>2. DOMAIN s = 1..Cardinality(eligible)
    BY <1>2, <1>3, SizeOrder, SortedOnce DEF AreItems
  <2>3. 1..MaxCandidates \subseteq DOMAIN s
    BY <1>6, <2>1, <2>2
  <2>4. Members(s, 1..MaxCandidates) \subseteq eligible
    BY <1>2, <1>3, <2>3, SizeOrder, MembersOf
  <2> QED
    BY <1>2, <1>4, <1>6, <2>4
<1> QED
  BY <1>5, <1>6

\* Eligible evidence is some of the evidence.
LEMMA EligibleAmong ==
    ASSUME NEW S, NEW target
    PROVE  Eligible(S, target) \subseteq S
BY DEF Eligible

----------------------------------------------------------------------------
(* What the bounds of the searches leave out.                              *)

\* As many terms, none of them larger than one they replace, have no larger sum.
LEMMA Exchange ==
    ASSUME NEW S, IsFiniteSet(S), NEW f, \A x \in S : f[x] \in Int,
           NEW A, NEW B, A \subseteq S, B \subseteq S, Cardinality(A) = Cardinality(B),
           \A a \in A \ B, b \in B \ A : f[a] <= f[b]
    PROVE  SumFunctionOnSet(f, A) <= SumFunctionOnSet(f, B)
<1> DEFINE Sum(T) == SumFunctionOnSet(f, T)
           Exceeds(T, U) == /\ Cardinality(T) = Cardinality(U) /\ ~(Sum(T) <= Sum(U))
                            /\ \A a \in T \ U, b \in U \ T : f[a] <= f[b]
<1>1. PICK N : N = {T \in SUBSET A : \E U \in SUBSET B : Exceeds(T, U)}
  OBVIOUS
<1>2. IsFiniteSet(A) /\ IsFiniteSet(B)
  BY FS_Subset
<1>3. ASSUME NEW T \in SUBSET A, NEW U \in SUBSET B
      PROVE  /\ IsFiniteSet(T) /\ IsFiniteSet(U)
             /\ Cardinality(T) \in Nat /\ Cardinality(U) \in Nat
             /\ Sum(T) \in Int /\ Sum(U) \in Int
  <2>1. IsFiniteSet(T) /\ IsFiniteSet(U)
    BY <1>2, FS_Subset
  <2>2. T \in SUBSET S /\ U \in SUBSET S
    OBVIOUS
  <2> QED
    BY <2>1, <2>2, FS_CardinalityType, SumInt
<1>4. {} \notin N
  <2>1. SUFFICES ASSUME NEW U \in SUBSET B, Exceeds({}, U) PROVE FALSE
    BY <1>1
  <2>2. U = {}
    BY <1>3, <2>1, FS_EmptySet
  <2> QED
    BY <1>3, <2>1, <2>2
<1>5. ASSUME NEW T \in N PROVE \E x \in T : T \ {x} \in N
  <2>1. PICK U \in SUBSET B : Exceeds(T, U)
    BY <1>1
  <2>2. T \in SUBSET A
    BY <1>1
  <2>3. T # U
    BY <1>3, <2>1, <2>2
  <2>4. ~(T \subseteq U) /\ ~(U \subseteq T)
    BY <1>3, <2>1, <2>2, <2>3, FS_Subset
  <2>5. PICK a \in T \ U, b \in U \ T : TRUE
    BY <2>4
  <2>6. PICK V, W : V = T \ {a} /\ W = U \ {b}
    OBVIOUS
  <2>7. V \in SUBSET A /\ W \in SUBSET B /\ T \in SUBSET S /\ U \in SUBSET S
    BY <2>2, <2>6
  <2>8. Cardinality(V) = Cardinality(W)
    <3>1. Cardinality(T) = Cardinality(V) + 1 /\ Cardinality(U) = Cardinality(W) + 1
      BY <1>3, <2>2, <2>5, <2>6, Without
    <3>2. /\ Cardinality(T) \in Nat /\ Cardinality(V) \in Nat
          /\ Cardinality(U) \in Nat /\ Cardinality(W) \in Nat
      BY <1>3, <2>2, <2>7
    <3>3. Cardinality(T) = Cardinality(U)
      BY <2>1
    <3> HIDE DEF Exceeds
    <3> QED
      BY <3>1, <3>2, <3>3
  <2>9. Sum(T) = f[a] + Sum(V) /\ Sum(U) = f[b] + Sum(W)
    BY <2>5, <2>6, <2>7, SumRemove
  <2>10. f[a] <= f[b] /\ f[a] \in Int /\ f[b] \in Int
    BY <2>1, <2>5, <2>7
  <2>11. ~(Sum(V) <= Sum(W))
    <3>1. Sum(V) \in Int /\ Sum(W) \in Int /\ ~(Sum(T) <= Sum(U))
      BY <1>3, <2>1, <2>7
    <3> HIDE DEF Sum
    <3> QED
      BY <2>9, <2>10, <3>1
  <2>12. V \ W \subseteq T \ U /\ W \ V \subseteq U \ T
    BY <2>5, <2>6
  <2>13. Exceeds(V, W)
    BY <2>1, <2>8, <2>11, <2>12
  <2> HIDE DEF Exceeds
  <2>14. V \in N
    BY <1>1, <2>7, <2>13
  <2> QED
    BY <2>5, <2>6, <2>14
<1>6. N \subseteq SUBSET A
  BY <1>1
<1>7. N = {}
  <2> HIDE DEF Exceeds
  <2> QED
    BY <1>2, <1>4, <1>5, <1>6, TakenAway
<1>8. ~Exceeds(A, B)
  BY <1>1, <1>7
<1> QED
  BY <1>3, <1>8

\* The n-th member of an ordered set has n - 1 before it.
LEMMA SortedPlace ==
    ASSUME NEW S, IsFiniteSet(S), NEW R, IsOrder(S, R)
    PROVE  /\ \A n \in 1..Cardinality(S) : Place(S, R, Sorted(S, R)[n]) = n - 1
           /\ \A a \in S : \E n \in 1..Cardinality(S) : Sorted(S, R)[n] = a
           /\ \A n, k \in 1..Cardinality(S) :
                 n < k <=> <<Sorted(S, R)[n], Sorted(S, R)[k]>> \in R
<1>1. PICK m : m = Cardinality(S) /\ m \in Nat
  BY FS_CardinalityType
<1>2. PICK s : s = Sorted(S, R)
  OBVIOUS
<1>3. s = [n \in 1..m |-> CHOOSE a \in S : Place(S, R, a) = n - 1]
  BY <1>1, <1>2 DEF Sorted, Place, Preceding
<1>4. \A n \in 1..m : s[n] \in S /\ Place(S, R, s[n]) = n - 1
  <2>1. \A n \in 1..m : \E a \in S : Place(S, R, a) = n - 1
    BY <1>1, Places
  <2> QED
    BY <1>3, <2>1
<1>5. \A a, b \in S : a = b \/ <<a, b>> \in R \/ <<b, a>> \in R
  BY DEF IsOrder
<1>6. \A a, b \in S : <<a, b>> \in R => Place(S, R, a) < Place(S, R, b)
  BY Places
<1>7. ASSUME NEW a \in S PROVE \E n \in 1..m : s[n] = a
  <2>1. Place(S, R, a) \in 0..(m - 1)
    BY <1>1, Places
  <2>2. PICK n \in 1..m : Place(S, R, a) = n - 1
    BY <1>1, <2>1
  <2>3. s[n] \in S /\ Place(S, R, s[n]) = n - 1
    BY <1>4
  <2>4. Place(S, R, s[n]) = Place(S, R, a) /\ Place(S, R, a) \in Int
    BY <1>1, <2>2, <2>3
  <2>5. <<s[n], a>> \notin R /\ <<a, s[n]>> \notin R
    BY <1>6, <2>3, <2>4
  <2>6. s[n] = a
    BY <1>5, <2>3, <2>5
  <2> QED
    BY <2>6
<1>8. ASSUME NEW n \in 1..m, NEW k \in 1..m PROVE n < k <=> <<s[n], s[k]>> \in R
  <2>1. /\ s[n] \in S /\ Place(S, R, s[n]) = n - 1
        /\ s[k] \in S /\ Place(S, R, s[k]) = k - 1
    BY <1>4
  <2>2. <<s[n], s[k]>> \in R => n < k
    BY <1>6, <2>1
  <2>3. n < k => s[n] # s[k]
    BY <2>1
  <2>4. <<s[k], s[n]>> \in R => k < n
    BY <1>6, <2>1
  <2> QED
    BY <1>5, <2>1, <2>2, <2>3, <2>4
<1> QED
  BY <1>1, <1>2, <1>4, <1>7, <1>8

\* A sequence names its places once each.
LEMMA Named ==
    ASSUME NEW c, IsFiniteSet(c), NEW a, \A n, k \in c : a[n] = a[k] => n = k
    PROVE  IsFiniteSet(Members(a, c)) /\ Cardinality(Members(a, c)) = Cardinality(c)
<1>1. PICK T : T = Members(a, c)
  OBVIOUS
<1>2. T = {a[n] : n \in c}
  BY <1>1 DEF Members
<1>3. PICK f : f = [n \in c |-> a[n]]
  OBVIOUS
<1>4. f \in Surjection(c, T) /\ f \in Injection(c, T)
  BY <1>2, <1>3 DEF Surjection, Injection, IsInjective
<1> QED
  BY <1>1, <1>4, FS_Surjection

\* Positions ordered by the size of their items.
LEMMA PositionOrder ==
    ASSUME NEW s, NEW m \in Nat, DOMAIN s = 1..m, \A i \in 1..m : Size(s[i]) \in Nat
    PROVE  /\ IsFiniteSet(1..m) /\ Cardinality(1..m) = m
           /\ IsOrder(1..m, BySize(s))
           /\ \A i, j \in 1..m : <<i, j>> \in BySize(s) => Size(s[i]) <= Size(s[j])
<1>1. PICK R : R = BySize(s)
  OBVIOUS
<1>2. PICK z : z = [i \in 1..m |-> Size(s[i])]
  OBVIOUS
<1>3. \A i \in 1..m : z[i] \in Nat /\ z[i] = Size(s[i])
  BY <1>2
<1>4. \A i, j \in 1..m : <<i, j>> \in R <=> z[i] < z[j] \/ (z[i] = z[j] /\ i < j)
  BY <1>1, <1>3 DEF BySize
<1>5. \A i, j \in 1..m : i \in Nat /\ j \in Nat
  OBVIOUS
<1>6. IsOrder(1..m, R)
  <2>1. \A i \in 1..m : <<i, i>> \notin R
    BY <1>3, <1>4
  <2>2. \A i, j, k \in 1..m : <<i, j>> \in R /\ <<j, k>> \in R => <<i, k>> \in R
    BY <1>3, <1>4
  <2>3. ASSUME NEW i \in 1..m, NEW j \in 1..m
        PROVE  i = j \/ <<i, j>> \in R \/ <<j, i>> \in R
    <3>1. z[i] \in Nat /\ z[j] \in Nat /\ i \in Nat /\ j \in Nat
      BY <1>3
    <3>2. i = j \/ z[i] < z[j] \/ z[j] < z[i] \/ (z[i] = z[j] /\ (i < j \/ j < i))
      BY <3>1
    <3> QED
      BY <1>4, <3>2
  <2> QED
    BY <2>1, <2>2, <2>3 DEF IsOrder
<1>7. \A i, j \in 1..m : <<i, j>> \in R => Size(s[i]) <= Size(s[j])
  BY <1>3, <1>4
<1>8. IsFiniteSet(1..m) /\ Cardinality(1..m) = m
  BY FS_Interval
<1> QED
  BY <1>1, <1>6, <1>7, <1>8

\* A sum of naturals is a natural, and no less than any of them.
LEMMA SumNatural ==
    ASSUME NEW S, IsFiniteSet(S), NEW f, \A x \in S : f[x] \in Nat
    PROVE  \A T \in SUBSET S : /\ SumFunctionOnSet(f, T) \in Nat
                               /\ \A x \in T : f[x] <= SumFunctionOnSet(f, T)
<1> DEFINE Sum(T) == SumFunctionOnSet(f, T)
<1>1. \A x \in S : f[x] \in Int
  OBVIOUS
<1>2. PICK N : N = {T \in SUBSET S : Sum(T) \notin Nat}
  OBVIOUS
<1>3. N \subseteq SUBSET S /\ {} \notin N
  <2>1. Sum({}) = 0
    BY SumSome
  <2> QED
    BY <1>2, <2>1
<1>4. ASSUME NEW T \in SUBSET S, NEW x \in T
      PROVE  /\ T \ {x} \in SUBSET S /\ Sum(T \ {x}) \in Int /\ Sum(T) = f[x] + Sum(T \ {x})
             /\ f[x] \in Nat
  <2>1. T \ {x} \in SUBSET S
    OBVIOUS
  <2> QED
    BY <1>1, <2>1, SumInt, SumRemove
<1>5. ASSUME NEW T \in N PROVE \E x \in T : T \ {x} \in N
  <2>1. PICK x \in T : TRUE
    BY <1>3
  <2>2. PICK V : V = T \ {x}
    OBVIOUS
  <2>3. V \in SUBSET S /\ Sum(V) \in Int /\ Sum(T) = f[x] + Sum(V) /\ f[x] \in Nat
    BY <1>3, <1>4, <2>2
  <2>4. Sum(T) \notin Nat
    BY <1>2
  <2>5. Sum(V) \notin Nat
    <3> HIDE DEF Sum
    <3> QED
      BY <2>3, <2>4
  <2> QED
    BY <1>2, <2>2, <2>3, <2>5
<1>6. N = {}
  BY <1>3, <1>5, TakenAway
<1>7. \A T \in SUBSET S : Sum(T) \in Nat
  BY <1>2, <1>6
<1>8. ASSUME NEW T \in SUBSET S, NEW x \in T PROVE f[x] <= Sum(T)
  <2>1. Sum(T \ {x}) \in Nat /\ Sum(T) = f[x] + Sum(T \ {x}) /\ f[x] \in Nat
    BY <1>4, <1>7
  <2> HIDE DEF Sum
  <2> QED
    BY <2>1
<1> QED
  BY <1>7, <1>8

\* s is a sequence of sized items.
AreSized(s) == /\ Len(s) \in Nat /\ DOMAIN s = 1..Len(s)
               /\ \A i \in 1..Len(s) : Size(s[i]) \in Nat

Sizes(s) == [i \in DOMAIN s |-> Size(s[i])]

\* The sizes of a sequence and the total of some of them.
LEMMA SizesOf ==
    ASSUME NEW s, AreSized(s)
    PROVE  /\ IsFiniteSet(1..Len(s))
           /\ \A i \in 1..Len(s) : Sizes(s)[i] = Size(s[i])
           /\ \A i \in 1..Len(s) : Sizes(s)[i] \in Int
           /\ \A i \in 1..Len(s) : Sizes(s)[i] \in Nat
           /\ \A c : Total(s, c) = SumFunctionOnSet(Sizes(s), c)
<1>1. IsFiniteSet(1..Len(s))
  BY FS_Interval DEF AreSized
<1>2. \A i \in 1..Len(s) : Sizes(s)[i] = Size(s[i]) /\ Sizes(s)[i] \in Nat
  BY DEF AreSized, Sizes
<1>3. \A i \in 1..Len(s) : Sizes(s)[i] \in Int
  BY <1>2
<1>4. \A c : Total(s, c) = SumFunctionOnSet(Sizes(s), c)
  BY DEF Total, Sizes
<1> QED
  BY <1>1, <1>2, <1>3, <1>4

\* The total of some items is a number, no less than any of them, and a sum.
LEMMA TotalIs ==
    ASSUME NEW s, AreSized(s)
    PROVE  \A c \in SUBSET (1..Len(s)) :
              /\ IsFiniteSet(c) /\ Total(s, c) \in Nat
              /\ \A i \in c : /\ Size(s[i]) <= Total(s, c)
                              /\ Total(s, c) = Size(s[i]) + Total(s, c \ {i})
<1>1. PICK D, f : D = 1..Len(s) /\ f = Sizes(s)
  OBVIOUS
<1>2. IsFiniteSet(D) /\ \A i \in D : f[i] \in Int
  BY <1>1, SizesOf
<1>3. /\ \A i \in D : f[i] = Size(s[i])
      /\ \A i \in D : f[i] \in Nat
      /\ \A c : Total(s, c) = SumFunctionOnSet(f, c)
  BY <1>1, SizesOf
<1>4. \A c \in SUBSET D : /\ SumFunctionOnSet(f, c) \in Nat
                          /\ \A i \in c : f[i] <= SumFunctionOnSet(f, c)
  BY <1>2, <1>3, SumNatural
<1>5. ASSUME NEW c \in SUBSET D, NEW i \in c
      PROVE  SumFunctionOnSet(f, c) = f[i] + SumFunctionOnSet(f, c \ {i})
  BY <1>2, SumRemove
<1>6. \A c \in SUBSET D : IsFiniteSet(c)
  BY <1>2, FS_Subset
<1>7. ASSUME NEW c \in SUBSET D
      PROVE  /\ IsFiniteSet(c) /\ Total(s, c) \in Nat
             /\ \A i \in c : /\ Size(s[i]) <= Total(s, c)
                             /\ Total(s, c) = Size(s[i]) + Total(s, c \ {i})
  BY <1>3, <1>4, <1>5, <1>6
<1> QED
  BY <1>1, <1>7

\* No combination totals less than the smallest items or more than the greatest.
LEMMA SizeBounds ==
    ASSUME NEW s, AreSized(s), NEW c \in SUBSET (1..Len(s))
    PROVE  /\ Cardinality(c) \in 0..Len(s)
           /\ Smallest(s, Cardinality(c)) \in Nat /\ Greatest(s, Cardinality(c)) \in Nat
           /\ Smallest(s, Cardinality(c)) <= Total(s, c)
           /\ Total(s, c) <= Greatest(s, Cardinality(c))
<1>1. PICK m : m = Len(s) /\ m \in Nat
  BY DEF AreSized
<1>2. PICK D : D = 1..m /\ D = DOMAIN s
  BY <1>1 DEF AreSized
<1>3. PICK R : R = BySize(s)
  OBVIOUS
<1>4. /\ IsFiniteSet(D) /\ Cardinality(D) = m /\ IsOrder(D, R)
      /\ \A i, j \in D : <<i, j>> \in R => Size(s[i]) <= Size(s[j])
  BY <1>1, <1>2, <1>3, PositionOrder DEF AreSized
<1>5. PICK a : a = Ascending(s)
  OBVIOUS
<1>6. a = Sorted(D, R)
  BY <1>2, <1>3, <1>5 DEF Ascending
<1>7. /\ \A n \in 1..m : a[n] \in D
      /\ \A n, k \in 1..m : a[n] = a[k] => n = k
  BY <1>4, <1>6, SortedOnce
<1>8. /\ \A i \in D : \E n \in 1..m : a[n] = i
      /\ \A n, k \in 1..m : n < k => <<a[n], a[k]>> \in R
  BY <1>4, <1>6, SortedPlace
<1>9. PICK k : k = Cardinality(c) /\ k \in 0..m /\ IsFiniteSet(c) /\ c \subseteq D
  <2>1. c \in SUBSET D
    BY <1>1, <1>2
  <2>2. IsFiniteSet(c) /\ Cardinality(c) <= m
    BY <1>4, <2>1, FS_Subset
  <2> QED
    BY <1>1, <2>1, <2>2, FS_CardinalityType
<1>10. PICK f : f = Sizes(s)
  OBVIOUS
<1>11. /\ \A i \in D : f[i] = Size(s[i])
       /\ \A i \in D : f[i] \in Int
  BY <1>1, <1>2, <1>10, SizesOf
<1>12. ASSUME NEW lo \in Int, NEW hi \in Int, 1 <= lo, hi <= m, hi - lo + 1 = k
       PROVE  /\ Members(a, lo..hi) \in SUBSET D
              /\ Cardinality(Members(a, lo..hi)) = k
  <2>1. lo..hi \subseteq 1..m
    BY <1>1, <1>12
  <2>2. IsFiniteSet(lo..hi) /\ Cardinality(lo..hi) = k
    BY <1>9, <1>12, FS_Interval
  <2>3. \A n, j \in lo..hi : a[n] = a[j] => n = j
    BY <1>7, <2>1
  <2>4. Members(a, lo..hi) \subseteq D
    BY <1>7, <2>1 DEF Members
  <2> QED
    BY <2>2, <2>3, <2>4, Named
<1>13. PICK L : L = Members(a, 1..k)
  OBVIOUS
<1>14. PICK G : G = Members(a, (m - k + 1)..m)
  OBVIOUS
<1>15. L \in SUBSET D /\ Cardinality(L) = k
  BY <1>1, <1>9, <1>12, <1>13
<1>16. G \in SUBSET D /\ Cardinality(G) = k
  BY <1>1, <1>9, <1>12, <1>14
<1>17. ASSUME NEW i \in L, NEW j \in D \ L PROVE f[i] <= f[j]
  <2>1. PICK n \in 1..k : a[n] = i
    BY <1>13 DEF Members
  <2>2. PICK l \in 1..m : a[l] = j
    BY <1>8
  <2>3. l \notin 1..k
    BY <1>13, <2>2 DEF Members
  <2>4. n < l /\ n \in 1..m
    BY <1>1, <1>9, <2>3
  <2>5. <<i, j>> \in R
    BY <1>8, <2>1, <2>2, <2>4
  <2> QED
    BY <1>4, <1>11, <1>15, <2>5
<1>18. ASSUME NEW i \in D \ G, NEW j \in G PROVE f[i] <= f[j]
  <2>1. PICK n \in (m - k + 1)..m : a[n] = j
    BY <1>14 DEF Members
  <2>2. PICK l \in 1..m : a[l] = i
    BY <1>8
  <2>3. l \notin (m - k + 1)..m
    BY <1>14, <2>2 DEF Members
  <2>4. l < n /\ n \in 1..m
    BY <1>1, <1>9, <2>3
  <2>5. <<i, j>> \in R
    BY <1>8, <2>1, <2>2, <2>4
  <2> QED
    BY <1>4, <1>11, <1>16, <2>5
<1>19. SumFunctionOnSet(f, L) <= SumFunctionOnSet(f, c)
  <2>1. \A i \in L \ c, j \in c \ L : f[i] <= f[j]
    BY <1>9, <1>17
  <2>2. L \subseteq D /\ Cardinality(L) = Cardinality(c)
    BY <1>9, <1>15
  <2> QED
    BY <1>4, <1>9, <1>11, <2>1, <2>2, Exchange
<1>20. SumFunctionOnSet(f, c) <= SumFunctionOnSet(f, G)
  <2>1. \A i \in c \ G, j \in G \ c : f[i] <= f[j]
    BY <1>9, <1>18
  <2>2. G \subseteq D /\ Cardinality(c) = Cardinality(G)
    BY <1>9, <1>16
  <2> QED
    BY <1>4, <1>9, <1>11, <2>1, <2>2, Exchange
<1>21. \A d \in {c, L, G} : Total(s, d) = SumFunctionOnSet(f, d) /\ Total(s, d) \in Nat
  BY <1>1, <1>2, <1>9, <1>10, <1>15, <1>16, SizesOf, TotalIs
<1>22. Smallest(s, k) = Total(s, L) /\ Greatest(s, k) = Total(s, G)
  BY <1>1, <1>5, <1>13, <1>14 DEF Smallest, Greatest
<1> QED
  BY <1>1, <1>9, <1>19, <1>20, <1>21, <1>22

\* The sequence of a set of items by date.
LEMMA Dated ==
    ASSUME NEW S, AreItems(S), NEW s, s = Sorted(S, ByDate(S))
    PROVE  /\ AreSized(s) /\ Len(s) = Cardinality(S)
           /\ \A i \in 1..Len(s) : s[i] \in S
           /\ \A i, j \in 1..Len(s) : s[i] = s[j] => i = j
<1>1. PICK m : m = Cardinality(S) /\ m \in Nat
  BY FS_CardinalityType DEF AreItems
<1>2. IsOrder(S, ByDate(S)) /\ IsFiniteSet(S)
  BY DateOrder DEF AreItems
<1>3. /\ DOMAIN s = 1..m
      /\ \A i \in 1..m : s[i] \in S
      /\ \A i, j \in 1..m : s[i] = s[j] => i = j
  BY <1>1, <1>2, SortedOnce
<1>4. PICK h : h = [n \in 1..m |-> CHOOSE a \in S : Cardinality({b \in S : <<b, a>> \in ByDate(S)}) = n - 1]
  OBVIOUS
<1>5. s = h
  BY <1>1, <1>4 DEF Sorted
<1>6. s \in [1..m -> S]
  BY <1>3, <1>4, <1>5
<1>7. Len(s) = m
  BY <1>1, <1>6
<1>8. \A i \in 1..m : Size(s[i]) \in Nat
  BY <1>3, SizeIsNatural DEF AreItems
<1> QED
  BY <1>1, <1>3, <1>7, <1>8 DEF AreSized

\* The largest size searched.
LEMMA LimitIs ==
    ASSUME NEW s, Len(s) \in Nat
    PROVE  /\ Limit(s) \in Nat /\ Limit(s) <= Len(s) /\ Limit(s) <= MaxCombo
           /\ Limit(s) = Len(s) \/ Limit(s) = MaxCombo
<1>1. MaxCombo \in Nat
  BY MatchingAssumption
<1>2. /\ Min({Len(s), MaxCombo}) \in {Len(s), MaxCombo}
      /\ Min({Len(s), MaxCombo}) <= Len(s) /\ Min({Len(s), MaxCombo}) <= MaxCombo
  BY <1>1, Extremes
<1> QED
  BY <1>1, <1>2 DEF Limit

\* The bounds by size leave out no combination that reaches the target.
LEMMA SumsPruned ==
    ASSUME NEW s, AreSized(s), NEW target \in Int
    PROVE  SummingTo(s, target) = AllSums(s, target)
<1>1. PICK hits : hits = {c \in Combos(s, PossibleSizes(s, target)) : Total(s, c) = target}
  OBVIOUS
<1>2. PICK all : all = {c \in Combos(s, 2..Limit(s)) : Total(s, c) = target}
  OBVIOUS
<1>3. ASSUME NEW c \in SUBSET DOMAIN s, Total(s, c) = target
      PROVE  Cardinality(c) \in PossibleSizes(s, target) <=> Cardinality(c) \in 2..Limit(s)
  <2>1. c \in SUBSET (1..Len(s))
    BY DEF AreSized
  <2>2. /\ Smallest(s, Cardinality(c)) <= Total(s, c)
        /\ Total(s, c) <= Greatest(s, Cardinality(c))
    BY <2>1, SizeBounds
  <2> QED
    BY <1>3, <2>2 DEF PossibleSizes
<1>4. hits = all
  BY <1>1, <1>2, <1>3 DEF Combos
<1> QED
  BY <1>1, <1>2, <1>4 DEF SummingTo, AllSums

\* They leave out no combination a partial match may be.
LEMMA PartialsPruned ==
    ASSUME NEW s, AreSized(s), NEW target \in Int
    PROVE  BestPartial(s, target) = AllPartials(s, target)
<1> DEFINE Below(c) == 0 < Total(s, c) /\ Total(s, c) < target
           Half(c) == 2 * Total(s, c) >= target
<1>1. PICK below : below = {c \in Combos(s, PossiblePartialSizes(s, target)) :
                               0 < Total(s, c) /\ Total(s, c) < target}
  OBVIOUS
<1>2. PICK best : best = {c \in below : \A d \in below : Total(s, d) <= Total(s, c)}
  OBVIOUS
<1>3. PICK enough : enough = {c \in best : 2 * Total(s, c) >= target}
  OBVIOUS
<1>4. BestPartial(s, target) =
        IF enough = {} THEN {} ELSE Members(s, First(enough, Earlier(enough)))
  BY <1>1, <1>2, <1>3 DEF BestPartial
<1>5. PICK every : every = {c \in Combos(s, 1..Limit(s)) : 0 < Total(s, c) /\ Total(s, c) < target}
  OBVIOUS
<1>6. PICK most : most = {c \in every : \A d \in every : Total(s, d) <= Total(s, c)}
  OBVIOUS
<1>7. AllPartials(s, target) =
        IF most = {} \/ (\E c \in most : 2 * Total(s, c) < target) THEN {}
        ELSE Members(s, First(most, Earlier(most)))
  BY <1>5, <1>6 DEF AllPartials
<1>8. ASSUME NEW c \in every PROVE Total(s, c) \in Nat /\ c \in SUBSET (1..Len(s))
  <2>1. c \in SUBSET (1..Len(s))
    BY <1>5 DEF Combos, AreSized
  <2>2. Total(s, c) \in Nat
    BY <2>1, TotalIs
  <2> QED
    BY <2>1, <2>2
<1>9. below \subseteq every
  BY <1>1, <1>5 DEF Combos, PossiblePartialSizes
<1>10. ASSUME NEW c \in every, Half(c) PROVE c \in below
  <2>1. PICK k : k = Cardinality(c)
    OBVIOUS
  <2>2. /\ Smallest(s, k) \in Nat /\ Greatest(s, k) \in Nat
        /\ Smallest(s, k) <= Total(s, c) /\ Total(s, c) <= Greatest(s, k)
    BY <1>8, <2>1, SizeBounds
  <2>3. c \in SUBSET DOMAIN s /\ k \in 1..Limit(s) /\ Below(c)
    BY <1>5, <2>1 DEF Combos
  <2>4. 2 * Greatest(s, k) >= target /\ Smallest(s, k) < target
    BY <1>8, <1>10, <2>2, <2>3
  <2>5. k \in PossiblePartialSizes(s, target)
    BY <2>3, <2>4 DEF PossiblePartialSizes
  <2> QED
    BY <1>1, <2>1, <2>3, <2>5 DEF Combos
<1>11. CASE \E c \in most : Half(c)
  <2>1. PICK c \in most : Half(c)
    BY <1>11
  <2>2. \A d \in most : Total(s, d) = Total(s, c)
    BY <1>6, <1>8, <2>1
  <2>3. \A d \in most : Half(d) /\ d \in below
    BY <1>6, <1>10, <2>1, <2>2
  <2>4. most \subseteq enough
    <3>1. ASSUME NEW d \in most PROVE d \in enough
      <4>1. \A e \in below : Total(s, e) <= Total(s, d)
        BY <1>6, <1>9
      <4> QED
        BY <1>2, <1>3, <2>3, <4>1
    <3> QED
      BY <3>1
  <2>5. enough \subseteq most
    <3>1. ASSUME NEW d \in enough PROVE d \in most
      <4>1. d \in every /\ Total(s, c) <= Total(s, d)
        BY <1>2, <1>3, <1>9, <2>1, <2>3
      <4>2. \A e \in every : Total(s, e) <= Total(s, c)
        BY <1>6, <2>1
      <4>3. c \in every
        BY <1>6, <2>1
      <4>4. ASSUME NEW e \in every PROVE Total(s, e) <= Total(s, d)
        <5>1. Total(s, e) \in Nat /\ Total(s, d) \in Nat /\ Total(s, c) \in Nat
          BY <1>8, <4>1, <4>3
        <5> QED
          BY <4>1, <4>2, <5>1
      <4> QED
        BY <1>6, <4>1, <4>4
    <3> QED
      BY <3>1
  <2>6. enough = most /\ most # {}
    BY <2>1, <2>4, <2>5
  <2>7. ~\E d \in most : 2 * Total(s, d) < target
    <3>1. ASSUME NEW d \in most PROVE ~(2 * Total(s, d) < target)
      <4>1. Total(s, d) \in Nat /\ Half(d)
        BY <1>6, <1>8, <2>3
      <4> QED
        BY <4>1
    <3> QED
      BY <3>1
  <2> QED
    BY <1>4, <1>7, <2>6, <2>7
<1>12. CASE ~\E c \in most : Half(c)
  <2>1. AllPartials(s, target) = {}
    <3>1. ASSUME NEW c \in most PROVE 2 * Total(s, c) < target
      <4>1. Total(s, c) \in Nat /\ ~Half(c)
        BY <1>6, <1>8, <1>12
      <4> QED
        BY <4>1
    <3> QED
      BY <1>7, <3>1
  <2>2. enough = {}
    <3>1. SUFFICES ASSUME NEW c \in enough PROVE FALSE
      OBVIOUS
    <3>2. c \in every /\ Half(c) /\ \A d \in below : Total(s, d) <= Total(s, c)
      BY <1>2, <1>3, <1>9
    <3>3. ASSUME NEW d \in every PROVE Total(s, d) <= Total(s, c)
      <4>1. Total(s, d) \in Nat /\ Total(s, c) \in Nat
        BY <1>8, <3>2
      <4>2. CASE Half(d)
        BY <1>10, <3>2, <4>2
      <4>3. CASE ~Half(d)
        BY <3>2, <4>1, <4>3
      <4> QED
        BY <4>2, <4>3
    <3> QED
      BY <1>6, <1>12, <3>2, <3>3
  <2> QED
    BY <1>4, <2>1, <2>2
<1> QED
  BY <1>11, <1>12

\* A finite set of numbers has a greatest.
LEMMA GreatestIs ==
    ASSUME NEW N, N \subseteq Nat, N # {}, NEW m \in Nat, \A n \in N : n <= m
    PROVE  Max(N) \in N /\ \A n \in N : n <= Max(N)
<1>1. PICK C : C = {k \in Nat : \E n \in N : k = m - n}
  OBVIOUS
<1>2. C \subseteq Nat /\ C # {}
  <2>1. PICK n \in N : TRUE
    OBVIOUS
  <2>2. m - n \in C
    BY <1>1, <2>1
  <2> QED
    BY <1>1, <2>2
<1>3. PICK k \in C : \A l \in C : k <= l
  BY <1>2, Least
<1>4. PICK n \in N : k = m - n
  BY <1>1
<1>5. ASSUME NEW l \in N PROVE n >= l
  <2>1. m - l \in C /\ l \in Nat /\ n \in Nat
    BY <1>1
  <2> QED
    BY <1>3, <1>4, <2>1
<1>6. PICK x : x = Max(N)
  OBVIOUS
<1>7. x \in N /\ \A l \in N : x >= l
  BY <1>5, <1>6 DEF Max
<1> QED
  BY <1>6, <1>7

\* What divides two numbers divides their sum.
LEMMA DividesSum ==
    ASSUME NEW d \in Nat, NEW x \in Nat, NEW y \in Nat, Divides(d, x), Divides(d, y)
    PROVE  Divides(d, x + y)
<1>1. PICK k \in 0..x : k * d = x
  BY DEF Divides
<1>2. PICK l \in 0..y : l * d = y
  BY DEF Divides
<1>3. (k + l) * d = x + y
  BY <1>1, <1>2
<1>4. k + l \in 0..(x + y)
  OBVIOUS
<1> QED
  BY <1>3, <1>4 DEF Divides

\* What divides every item divides their total.
LEMMA DividesTotal ==
    ASSUME NEW s, AreSized(s), NEW d \in Nat, NEW c \in SUBSET (1..Len(s)),
           \A i \in c : Divides(d, Size(s[i]))
    PROVE  Divides(d, Total(s, c))
<1>1. PICK N : N = {T \in SUBSET c : ~Divides(d, Total(s, T))}
  OBVIOUS
<1>2. PICK f : f = Sizes(s)
  OBVIOUS
<1>3. ASSUME NEW T \in SUBSET c
      PROVE  /\ IsFiniteSet(T) /\ Total(s, T) = SumFunctionOnSet(f, T) /\ Total(s, T) \in Nat
             /\ \A i \in T : Total(s, T) = Size(s[i]) + Total(s, T \ {i})
  <2>1. T \in SUBSET (1..Len(s))
    OBVIOUS
  <2> QED
    BY <1>2, <2>1, SizesOf, TotalIs
<1>4. N \subseteq SUBSET c
  BY <1>1
<1>5. {} \notin N
  <2>1. SumFunctionOnSet(f, {}) = 0
    BY <1>3, SumSome
  <2>2. Total(s, {}) = 0
    BY <1>3, <2>1
  <2>3. Divides(d, 0)
    BY DEF Divides
  <2> QED
    BY <1>1, <2>2, <2>3
<1>6. ASSUME NEW T \in N PROVE \E x \in T : T \ {x} \in N
  <2>1. T \in SUBSET c /\ ~Divides(d, Total(s, T))
    BY <1>1
  <2>2. PICK x \in T : TRUE
    BY <1>5
  <2>3. T \ {x} \in SUBSET c /\ x \in 1..Len(s)
    BY <2>1
  <2>4. Total(s, T) = Size(s[x]) + Total(s, T \ {x}) /\ Total(s, T \ {x}) \in Nat
    BY <1>3, <2>1, <2>2, <2>3
  <2>5. Divides(d, Size(s[x])) /\ Size(s[x]) \in Nat
    BY <2>1, <2>2, <2>3 DEF AreSized
  <2>6. ~Divides(d, Total(s, T \ {x}))
    BY <2>1, <2>4, <2>5, DividesSum
  <2> QED
    BY <1>1, <2>2, <2>3, <2>6
<1>7. N = {}
  BY <1>3, <1>4, <1>5, <1>6, TakenAway
<1> QED
  BY <1>1, <1>7

\* A finite set of positive numbers has a common divisor.
LEMMA CommonDivisorIs ==
    ASSUME NEW N, N \subseteq Nat \ {0}, N # {}, NEW m \in Nat, \A n \in N : n <= m
    PROVE  CommonDivisor(N) \in Nat /\ \A n \in N : Divides(CommonDivisor(N), n)
<1>1. PICK g : g = Max(N)
  OBVIOUS
<1>2. g \in N /\ g \in Nat \ {0}
  BY <1>1, GreatestIs
<1>3. PICK D : D = {d \in 1..g : \A x \in N : Divides(d, x)}
  OBVIOUS
<1>4. \A x \in N : Divides(1, x)
  <2>1. ASSUME NEW x \in N PROVE Divides(1, x)
    <3>1. x \in 0..x /\ x * 1 = x
      OBVIOUS
    <3> QED
      BY <3>1 DEF Divides
  <2> QED
    BY <2>1
<1>5. 1 \in D
  BY <1>2, <1>3, <1>4
<1>6. D \subseteq Nat /\ \A d \in D : d <= g
  BY <1>2, <1>3
<1>7. Max(D) \in D
  BY <1>2, <1>5, <1>6, GreatestIs
<1>8. CommonDivisor(N) = Max(D)
  BY <1>1, <1>3 DEF CommonDivisor
<1> QED
  BY <1>3, <1>6, <1>7, <1>8

\* The first member of an ordered set is before every other, and is the only such member.
LEMMA FirstIs ==
    ASSUME NEW S, IsFiniteSet(S), S # {}, NEW R, IsOrder(S, R)
    PROVE  /\ First(S, R) \in S
           /\ \A b \in S \ {First(S, R)} : <<First(S, R), b>> \in R
           /\ \A a \in S : (\A b \in S \ {a} : <<a, b>> \in R) => First(S, R) = a
<1>1. PICK a : a = First(S, R)
  OBVIOUS
<1>2. PICK f \in S : \A b \in S \ {f} : <<f, b>> \in R
  <2>1. 1 \in 1..Cardinality(S)
    BY FS_CardinalityType, FS_EmptySet
  <2>2. PICK n : n = Sorted(S, R)[1]
    OBVIOUS
  <2>3. n \in S
    BY <2>1, <2>2, SortedOnce
  <2>4. ASSUME NEW b \in S \ {n} PROVE <<n, b>> \in R
    <3>1. PICK k \in 1..Cardinality(S) : Sorted(S, R)[k] = b
      BY SortedPlace
    <3>2. 1 < k
      BY <2>2, <2>4, <3>1
    <3> QED
      BY <2>1, <2>2, <3>1, <3>2, SortedPlace
  <2> QED
    BY <2>3, <2>4
<1>3. a \in S /\ \A b \in S \ {a} : <<a, b>> \in R
  BY <1>1, <1>2 DEF First
<1>4. ASSUME NEW c \in S, \A b \in S \ {c} : <<c, b>> \in R PROVE a = c
  <2>1. a # c => <<a, c>> \in R /\ <<c, a>> \in R
    BY <1>3, <1>4
  <2>2. a # c => <<a, a>> \in R
    BY <1>3, <2>1 DEF IsOrder
  <2> QED
    BY <1>3, <2>2 DEF IsOrder
<1> QED
  BY <1>1, <1>3, <1>4

\* What the order of combinations says of two of them.
LEMMA EarlierIs ==
    ASSUME NEW D, D \subseteq Nat, NEW C, C \subseteq SUBSET D, NEW c \in C, NEW d \in C
    PROVE  <<c, d>> \in Earlier(C) <=>
              \/ Cardinality(c) < Cardinality(d)
              \/ Cardinality(c) = Cardinality(d) /\ Lexical(c, d)
<1>1. c \subseteq Nat /\ d \subseteq Nat
  OBVIOUS
<1>2. c # d /\ Min(SymDiff(c, d)) \in c <=> Lexical(c, d)
  BY <1>1, LexicalIs
<1>3. <<c, d>> \in Earlier(C) <=> \/ Cardinality(c) < Cardinality(d)
                                  \/ /\ Cardinality(c) = Cardinality(d) /\ c # d
                                     /\ Min(SymDiff(c, d)) \in c
  BY DEF Earlier
<1> QED
  BY <1>2, <1>3

\* Leaving out items larger than the target leaves out none of a sum, and changes
\* none of the order sums are found in.
LEMMA SumsNarrowed ==
    ASSUME NEW S, AreItems(S), NEW T, T \subseteq S,
           NEW target \in Nat, \A x \in S : Size(x) <= target => x \in T,
           NEW s, s = Sorted(S, ByDate(S)), NEW t, t = Sorted(T, ByDate(T))
    PROVE  AllSums(t, target) = AllSums(s, target)
<1>1. AreItems(T) /\ IsFiniteSet(S) /\ IsFiniteSet(T)
  BY FewerItems DEF AreItems
<1>2. PICK m : m = Len(s) /\ m = Cardinality(S) /\ m \in Nat
  BY Dated DEF AreSized
<1>3. PICK n : n = Len(t) /\ n = Cardinality(T) /\ n \in Nat
  BY <1>1, Dated DEF AreSized
<1>4. /\ AreSized(s) /\ DOMAIN s = 1..m
      /\ \A i \in 1..m : s[i] \in S /\ Size(s[i]) \in Nat
  BY <1>2, Dated DEF AreSized
<1>5. /\ AreSized(t) /\ DOMAIN t = 1..n
      /\ \A i \in 1..n : t[i] \in T /\ t[i] \in S
  BY <1>1, <1>3, Dated DEF AreSized
<1>6. n <= m
  BY <1>1, <1>2, <1>3, FS_Subset
<1>7. /\ IsOrder(S, ByDate(S)) /\ IsOrder(T, ByDate(T))
      /\ \A a, b \in T : <<a, b>> \in ByDate(T) <=> <<a, b>> \in ByDate(S)
  <2>1. \A a, b \in S : <<a, b>> \in ByDate(S) <=>
           a.day < b.day \/ (a.day = b.day /\ a.id < b.id)
    BY DateOrder
  <2>2. \A a, b \in T : <<a, b>> \in ByDate(T) <=>
           a.day < b.day \/ (a.day = b.day /\ a.id < b.id)
    BY <1>1, DateOrder
  <2>3. IsOrder(S, ByDate(S)) /\ IsOrder(T, ByDate(T))
    BY <1>1, DateOrder
  <2> QED
    BY <2>1, <2>2, <2>3
<1>8. /\ \A a \in S : \E i \in 1..m : s[i] = a
      /\ \A i, j \in 1..m : i < j <=> <<s[i], s[j]>> \in ByDate(S)
  BY <1>1, <1>2, <1>7, SortedPlace
<1>9. /\ \A a \in T : \E i \in 1..n : t[i] = a
      /\ \A i, j \in 1..n : i < j <=> <<t[i], t[j]>> \in ByDate(T)
  BY <1>1, <1>3, <1>7, SortedPlace
<1>10. PICK f : f = [i \in 1..n |-> CHOOSE k \in 1..m : s[k] = t[i]]
  OBVIOUS
<1>11. \A i \in 1..n : f[i] \in 1..m /\ s[f[i]] = t[i]
  BY <1>5, <1>8, <1>10
<1>12. ASSUME NEW i \in 1..n, NEW j \in 1..n PROVE i < j <=> f[i] < f[j]
  <2>1. i < j <=> <<t[i], t[j]>> \in ByDate(T)
    BY <1>9
  <2>2. f[i] < f[j] <=> <<s[f[i]], s[f[j]]>> \in ByDate(S)
    BY <1>8, <1>11
  <2> QED
    BY <1>5, <1>7, <1>11, <2>1, <2>2
<1>13. \A i, j \in 1..n : f[i] = f[j] => i = j
  <2>1. ASSUME NEW i \in 1..n, NEW j \in 1..n, f[i] = f[j] PROVE i = j
    <3>1. ~(i < j) /\ ~(j < i)
      BY <1>11, <1>12, <2>1
    <3> QED
      BY <3>1
  <2> QED
    BY <2>1
<1>14. PICK C : C = SUBSET (1..n)
  OBVIOUS
<1>15. PICK F : F = [c \in C |-> Members(f, c)]
  OBVIOUS
<1>16. ASSUME NEW c \in C
       PROVE  /\ F[c] \in SUBSET (1..m) /\ Cardinality(F[c]) = Cardinality(c)
              /\ IsFiniteSet(c) /\ Cardinality(c) \in 0..n
              /\ Members(s, F[c]) = Members(t, c) /\ Total(s, F[c]) = Total(t, c)
  <2>1. c \in SUBSET (1..n) /\ F[c] = Members(f, c)
    BY <1>14, <1>15
  <2>2. IsFiniteSet(c) /\ Cardinality(c) \in 0..n
    BY <1>3, <1>5, <2>1, SizeBounds, TotalIs
  <2>3. Cardinality(F[c]) = Cardinality(c)
    BY <1>13, <2>1, <2>2, Named
  <2>4. F[c] \in SUBSET (1..m)
    BY <1>11, <2>1 DEF Members
  <2>5. Members(s, F[c]) = Members(t, c)
    BY <1>11, <2>1 DEF Members
  <2>6. SizeOf(Members(s, F[c])) = Total(s, F[c])
    BY <1>4, <1>7, <2>4, MembersOf
  <2>7. SizeOf(Members(t, c)) = Total(t, c)
    BY <1>1, <1>5, <1>7, <2>1, MembersOf
  <2> QED
    BY <2>2, <2>3, <2>4, <2>5, <2>6, <2>7
<1>17. ASSUME NEW c \in C, NEW d \in C, Lexical(c, d) PROVE Lexical(F[c], F[d])
  <2>1. PICK l \in Nat : l \in c /\ l \notin d /\ \A k \in Nat : k < l => (k \in c <=> k \in d)
    BY <1>17 DEF Lexical
  <2>2. F[c] = Members(f, c) /\ F[d] = Members(f, d) /\ c \subseteq 1..n /\ d \subseteq 1..n
    BY <1>14, <1>15
  <2>3. f[l] \in F[c] /\ f[l] \notin F[d] /\ f[l] \in Nat /\ l \in 1..n
    BY <1>11, <1>13, <2>1, <2>2 DEF Members
  <2>4. \A i \in 1..n : f[i] < f[l] => (i \in c <=> i \in d)
    BY <1>12, <2>1, <2>3
  <2>5. \A k \in Nat : k < f[l] => (k \in F[c] <=> k \in F[d])
    BY <2>2, <2>4 DEF Members
  <2> QED
    BY <2>3, <2>5 DEF Lexical
<1>18. PICK hits : hits = {c \in Combos(t, 2..Limit(t)) : Total(t, c) = target}
  OBVIOUS
<1>19. PICK all : all = {c \in Combos(s, 2..Limit(s)) : Total(s, c) = target}
  OBVIOUS
<1>20. /\ Limit(t) \in Nat /\ Limit(s) \in Nat /\ MaxCombo \in Nat
       /\ Limit(t) <= MaxCombo /\ Limit(s) <= MaxCombo /\ Limit(t) <= n /\ Limit(s) <= m
       /\ Limit(t) = n \/ Limit(t) = MaxCombo
       /\ Limit(s) = m \/ Limit(s) = MaxCombo
  BY <1>2, <1>3, LimitIs, MatchingAssumption
<1>21. ASSUME NEW c \in hits PROVE c \in C /\ F[c] \in all
  <2>1. c \in C /\ Cardinality(c) \in 2..Limit(t) /\ Total(t, c) = target
    BY <1>5, <1>14, <1>18 DEF Combos
  <2>2. Cardinality(F[c]) \in 2..Limit(s)
    <3>1. Cardinality(F[c]) = Cardinality(c) /\ Cardinality(c) \in Int
      BY <1>16, <2>1
    <3>2. 2 <= Cardinality(c) /\ Cardinality(c) <= Limit(t)
      BY <2>1
    <3>3. Limit(t) <= Limit(s)
      BY <1>2, <1>3, <1>6, <1>20
    <3> QED
      BY <1>20, <3>1, <3>2, <3>3
  <2> QED
    BY <1>4, <1>16, <1>19, <2>1, <2>2 DEF Combos
<1>22. ASSUME NEW b \in all PROVE \E c \in hits : F[c] = b
  <2>1. b \in SUBSET (1..m) /\ Cardinality(b) \in 2..Limit(s) /\ Total(s, b) = target
    BY <1>4, <1>19 DEF Combos
  <2>2. \A i \in b : Size(s[i]) <= target
    BY <1>2, <1>4, <2>1, TotalIs
  <2>3. \A i \in b : s[i] \in T
    BY <1>4, <2>1, <2>2
  <2>4. \A i \in b : \E k \in 1..n : f[k] = i
    <3>1. ASSUME NEW i \in b PROVE \E k \in 1..n : f[k] = i
      <4>1. PICK k \in 1..n : t[k] = s[i]
        BY <1>9, <2>3
      <4>2. f[k] \in 1..m /\ s[f[k]] = s[i] /\ i \in 1..m
        BY <1>11, <2>1, <4>1
      <4>3. f[k] = i
        BY <1>2, <4>2, Dated
      <4> QED
        BY <4>3
    <3> QED
      BY <3>1
  <2>5. PICK c : c = {k \in 1..n : f[k] \in b}
    OBVIOUS
  <2>6. c \in C /\ F[c] = b
    BY <1>14, <1>15, <2>4, <2>5 DEF Members
  <2>7. Cardinality(c) \in 2..Limit(t)
    BY <1>3, <1>16, <1>20, <2>1, <2>6
  <2>8. Total(t, c) = target
    BY <1>16, <2>1, <2>6
  <2> QED
    BY <1>5, <1>14, <1>18, <2>6, <2>7, <2>8 DEF Combos
<1>23. CASE hits = {}
  BY <1>18, <1>19, <1>22, <1>23 DEF AllSums
<1>24. CASE hits # {}
  <2>1. PICK c : c = First(hits, Earlier(hits))
    OBVIOUS
  <2>2. hits \subseteq SUBSET (1..n) /\ all \subseteq SUBSET (1..m)
    BY <1>4, <1>5, <1>18, <1>19 DEF Combos
  <2>3. /\ 1..n \subseteq Nat /\ IsFiniteSet(1..n)
        /\ 1..m \subseteq Nat /\ IsFiniteSet(1..m)
    <3>1. IsFiniteSet(1..n) /\ IsFiniteSet(1..m)
      BY <1>2, <1>3, FS_Interval
    <3>2. 1..n \subseteq Nat /\ 1..m \subseteq Nat
      OBVIOUS
    <3> QED
      BY <3>1, <3>2
  <2>4. IsFiniteSet(hits) /\ IsOrder(hits, Earlier(hits))
    BY <2>2, <2>3, ComboOrder
  <2>5. IsFiniteSet(all) /\ IsOrder(all, Earlier(all))
    BY <2>2, <2>3, ComboOrder
  <2>6. c \in hits /\ \A d \in hits \ {c} : <<c, d>> \in Earlier(hits)
    BY <1>24, <2>1, <2>4, FirstIs
  <2>7. ASSUME NEW b \in all \ {F[c]} PROVE <<F[c], b>> \in Earlier(all)
    <3>1. PICK d \in hits : F[d] = b
      BY <1>22
    <3>2. <<c, d>> \in Earlier(hits)
      BY <2>6, <2>7, <3>1
    <3>3. c \in C /\ d \in C /\ F[c] \in all /\ F[d] \in all
      BY <1>21, <2>6
    <3>4. \/ Cardinality(c) < Cardinality(d)
          \/ Cardinality(c) = Cardinality(d) /\ Lexical(c, d)
      BY <2>2, <2>3, <2>6, <3>2, EarlierIs
    <3>5. \/ Cardinality(F[c]) < Cardinality(F[d])
          \/ Cardinality(F[c]) = Cardinality(F[d]) /\ Lexical(F[c], F[d])
      BY <1>16, <1>17, <3>3, <3>4
    <3> QED
      BY <2>2, <2>3, <3>1, <3>3, <3>5, EarlierIs
  <2>8. First(all, Earlier(all)) = F[c]
    BY <1>21, <2>5, <2>6, <2>7, FirstIs
  <2>9. Members(s, F[c]) = Members(t, c)
    BY <1>16, <1>21, <2>6
  <2>10. AllSums(t, target) = Members(t, c)
    BY <1>18, <1>24, <2>1 DEF AllSums
  <2>11. all # {}
    BY <1>21, <2>6
  <2>12. AllSums(s, target) = Members(s, F[c])
    BY <1>19, <2>8, <2>11 DEF AllSums
  <2> QED
    BY <2>9, <2>10, <2>12
<1> QED
  BY <1>23, <1>24

\* Without a common divisor of the eligible items that divides it, no sum reaches the target.
LEMMA DivisorIsExact ==
    ASSUME NEW S, AreItems(S), NEW s, s = Sorted(S, ByDate(S)), NEW target \in Nat,
           Eligible(S, target) # {e \in S : Size(e) <= target}
    PROVE  AllSums(s, target) = {}
<1>1. PICK all : all = {c \in Combos(s, 2..Limit(s)) : Total(s, c) = target}
  OBVIOUS
<1>2. SUFFICES ASSUME NEW c \in all PROVE FALSE
  BY <1>1 DEF AllSums
<1>3. AreSized(s) /\ \A i \in 1..Len(s) : s[i] \in S /\ Size(s[i]) \in Nat
  BY Dated DEF AreSized
<1>4. c \in SUBSET (1..Len(s)) /\ Total(s, c) = target
  BY <1>1, <1>3 DEF Combos, AreSized
<1>5. \A i \in c : Size(s[i]) <= target
  BY <1>3, <1>4, TotalIs
<1>6. PICK eligible : eligible = {e \in S : Size(e) <= target}
  OBVIOUS
<1>7. PICK amounts : amounts = {Size(e) : e \in eligible} \ {0}
  OBVIOUS
<1>8. /\ amounts = {} => target # 0
      /\ amounts # {} => ~Divides(CommonDivisor(amounts), target)
  BY <1>6, <1>7 DEF Eligible
<1>9. amounts \subseteq Nat \ {0} /\ \A x \in amounts : x <= target
  <2>1. \A e \in eligible : Size(e) \in Nat /\ Size(e) <= target
    BY <1>6, SizeIsNatural DEF AreItems
  <2> QED
    BY <1>7, <2>1
<1>10. \A i \in c : Size(s[i]) = 0 \/ Size(s[i]) \in amounts
  BY <1>3, <1>4, <1>5, <1>6, <1>7
<1>11. \A d \in Nat : Divides(d, 0)
  BY DEF Divides
<1>12. CASE amounts = {}
  <2>1. \A i \in c : Divides(0, Size(s[i]))
    BY <1>10, <1>11, <1>12
  <2>2. Divides(0, target)
    BY <1>3, <1>4, <2>1, DividesTotal
  <2>3. target = 0
    BY <2>2 DEF Divides
  <2> QED
    BY <1>8, <1>12, <2>3
<1>13. CASE amounts # {}
  <2>1. PICK d : d = CommonDivisor(amounts)
    OBVIOUS
  <2>2. d \in Nat /\ \A x \in amounts : Divides(d, x)
    BY <1>9, <1>13, <2>1, CommonDivisorIs
  <2>3. \A i \in c : Divides(d, Size(s[i]))
    BY <1>10, <1>11, <2>2
  <2>4. Divides(d, target)
    BY <1>3, <1>4, <2>2, <2>3, DividesTotal
  <2> QED
    BY <1>8, <1>13, <2>1, <2>4
<1> QED
  BY <1>12, <1>13

\* Nothing is found among no items.
LEMMA NothingFound ==
    ASSUME NEW target \in Int
    PROVE  SummingTo(Sorted({}, ByDate({})), target) = {}
<1>1. AreItems({})
  BY FS_EmptySet DEF AreItems
<1>2. SummingTo(Sorted({}, ByDate({})), target) # {} =>
         SummingTo(Sorted({}, ByDate({})), target) \subseteq {}
  BY <1>1, FoundSum
<1> QED
  BY <1>2

\* The bounds of the matcher prune its searches and never their answers: bounding the
\* sizes of combinations by the smallest and greatest totals of a size, dropping evidence
\* above the target and giving up when the amounts' common divisor does not divide it find
\* exactly what the search of every combination finds, for any items and any target.
THEOREM MatchingBoundsAreExact ==
    ASSUME NEW items, AreItems(items), NEW target \in Nat
    PROVE  BoundsAreExact(items, target)
<1>1. PICK s : s = Sorted(items, ByDate(items))
  OBVIOUS
<1>2. AreSized(s)
  BY <1>1, Dated
<1>3. SummingTo(s, target) = AllSums(s, target) /\ BestPartial(s, target) = AllPartials(s, target)
  BY <1>2, SumsPruned, PartialsPruned
<1>4. PICK eligible : eligible = Eligible(items, target)
  OBVIOUS
<1>5. PICK t : t = Sorted(eligible, ByDate(eligible))
  OBVIOUS
<1>6. SummingTo(t, target) = AllSums(s, target) => BoundsAreExact(items, target)
  BY <1>1, <1>3, <1>4, <1>5 DEF BoundsAreExact
<1>7. CASE eligible = {e \in items : Size(e) <= target}
  <2>1. eligible \subseteq items /\ \A x \in items : Size(x) <= target => x \in eligible
    BY <1>7
  <2>2. AllSums(t, target) = AllSums(s, target)
    BY <1>1, <1>5, <2>1, SumsNarrowed
  <2>3. AreItems(eligible)
    BY <2>1, FewerItems
  <2>4. SummingTo(t, target) = AllSums(t, target)
    BY <1>5, <2>3, Dated, SumsPruned
  <2> QED
    BY <1>6, <2>2, <2>4
<1>8. CASE eligible # {e \in items : Size(e) <= target}
  <2>1. AllSums(s, target) = {}
    BY <1>1, <1>4, <1>8, DivisorIsExact
  <2>2. eligible = {}
    BY <1>4, <1>8 DEF Eligible
  <2>3. SummingTo(t, target) = {}
    BY <1>5, <2>2, NothingFound
  <2> QED
    BY <1>6, <2>1, <2>3
<1> QED
  BY <1>7, <1>8

----------------------------------------------------------------------------
(* The passes of the matcher.                                              *)

\* All of X and Y are in one currency.
OneCurrency(X, Y) == \A x \in X, y \in Y : x.currency = y.currency
\* g is the group of the evidence X and the payments Y, with what they leave open.
Settles(g, X, Y) ==
    /\ X # {} /\ OneCurrency(X, Y)
    /\ g = Group(X, Y, SizeOf(X) - SizeOf(Y))
\* Groups of evidence and payments that are offered once, all the evidence of E.
Offer(groups, E, P) ==
    /\ \A g \in groups : \E X \in SUBSET E, Y \in SUBSET P : Settles(g, X, Y)
    /\ \A g, h \in groups : g # h => /\ g.evidence \cap h.evidence = {}
                                     /\ g.payments \cap h.payments = {}
    /\ UNION {g.evidence : g \in groups} = Ids(E)
\* What every pass keeps: the groups offer exactly what the state no longer has of
\* the evidence E, against payments it no longer has of P.
MatchInv(E, P, state) ==
    /\ state.evidence \subseteq E /\ state.payments \subseteq P
    /\ Offer(state.groups, E \ state.evidence, P \ state.payments)

LEMMA IdsApart ==
    ASSUME NEW S, AreItems(S), NEW A, NEW B, A \subseteq S, B \subseteq S, A \cap B = {}
    PROVE  Ids(A) \cap Ids(B) = {}
<1>1. \A x, y \in S : x.id = y.id => x = y
  BY DEF AreItems
<1>2. ASSUME NEW a \in A, NEW b \in B, a.id = b.id PROVE FALSE
  BY <1>1, <1>2
<1> QED
  BY <1>2 DEF Ids

LEMMA IdsTogether ==
    ASSUME NEW A, NEW B
    PROVE  Ids(A \cup B) = Ids(A) \cup Ids(B)
BY DEF Ids

\* A group of what is left joins the ones there are.
LEMMA OneMoreGroup ==
    ASSUME NEW E, AreItems(E), NEW P, AreItems(P), NEW F, F \subseteq E, NEW Q, Q \subseteq P,
           NEW groups, Offer(groups, F, Q),
           NEW X, X \subseteq E, X \cap F = {}, NEW Y, Y \subseteq P, Y \cap Q = {},
           NEW g, Settles(g, X, Y)
    PROVE  Offer(groups \cup {g}, F \cup X, Q \cup Y)
<1>1. PICK G, H : G = F \cup X /\ H = Q \cup Y
  OBVIOUS
<1>2. F \subseteq G /\ X \subseteq G /\ Q \subseteq H /\ Y \subseteq H
  BY <1>1
<1>3. \A h \in groups : \E A \in SUBSET F, B \in SUBSET Q : Settles(h, A, B)
  BY DEF Offer
<1>4. ASSUME NEW h \in groups \cup {g}
      PROVE  \E A \in SUBSET G, B \in SUBSET H : Settles(h, A, B)
  <2>1. CASE h = g
    BY <1>2, <2>1
  <2>2. CASE h # g
    <3>1. PICK A \in SUBSET F, B \in SUBSET Q : Settles(h, A, B)
      BY <1>3, <2>2
    <3>2. A \in SUBSET G /\ B \in SUBSET H
      BY <1>2
    <3> QED
      BY <3>1, <3>2
  <2> QED
    BY <2>1, <2>2
<1>5. g.evidence = Ids(X) /\ g.payments = Ids(Y)
  BY DEF Settles, Group
<1>6. ASSUME NEW h \in groups
      PROVE  h.evidence \cap g.evidence = {} /\ h.payments \cap g.payments = {}
  <2>1. PICK A \in SUBSET F, B \in SUBSET Q : Settles(h, A, B)
    BY <1>3
  <2>2. h.evidence = Ids(A) /\ h.payments = Ids(B)
    BY <2>1 DEF Settles, Group
  <2>3. A \subseteq E /\ A \cap X = {} /\ B \subseteq P /\ B \cap Y = {}
    OBVIOUS
  <2>4. Ids(A) \cap Ids(X) = {}
    BY <2>3, IdsApart
  <2>5. Ids(B) \cap Ids(Y) = {}
    BY <2>3, IdsApart
  <2> QED
    BY <1>5, <2>2, <2>4, <2>5
<1>7. \A h, k \in groups \cup {g} : h # k => /\ h.evidence \cap k.evidence = {}
                                           /\ h.payments \cap k.payments = {}
  <2>1. ASSUME NEW h \in groups \cup {g}, NEW k \in groups \cup {g}, h # k
        PROVE  h.evidence \cap k.evidence = {} /\ h.payments \cap k.payments = {}
    <3>1. CASE h \in groups /\ k \in groups
      BY <2>1, <3>1 DEF Offer
    <3>2. CASE h = g /\ k \in groups
      BY <1>6, <3>2
    <3>3. CASE k = g /\ h \in groups
      BY <1>6, <3>3
    <3> QED
      BY <2>1, <3>1, <3>2, <3>3
  <2> QED
    BY <2>1
<1>8. UNION {h.evidence : h \in groups \cup {g}} = Ids(G)
  <2>1. UNION {h.evidence : h \in groups \cup {g}} =
           (UNION {h.evidence : h \in groups}) \cup g.evidence
    OBVIOUS
  <2>2. UNION {h.evidence : h \in groups} = Ids(F)
    BY DEF Offer
  <2>3. Ids(G) = Ids(F) \cup Ids(X)
    BY <1>1, IdsTogether
  <2> QED
    BY <1>5, <2>1, <2>2, <2>3
<1>9. Offer(groups \cup {g}, G, H)
  BY <1>4, <1>7, <1>8 DEF Offer
<1> QED
  BY <1>1, <1>9

\* What a turn may take.
Takes(state, X, Y, residual) ==
    /\ X \subseteq state.evidence /\ X # {} /\ Y \subseteq state.payments
    /\ OneCurrency(X, Y) /\ residual = SizeOf(X) - SizeOf(Y)

LEMMA TakeKeeps ==
    ASSUME NEW E, AreItems(E), NEW P, AreItems(P), NEW state, MatchInv(E, P, state),
           NEW X, NEW Y, NEW residual, Takes(state, X, Y, residual)
    PROVE  /\ MatchInv(E, P, Take(state, X, Y, residual))
           /\ Take(state, X, Y, residual).evidence = state.evidence \ X
           /\ Take(state, X, Y, residual).payments = state.payments \ Y
<1>1. PICK next : next = Take(state, X, Y, residual)
  OBVIOUS
<1>2. PICK g : g = Group(X, Y, residual)
  OBVIOUS
<1>3. /\ next.evidence = state.evidence \ X
      /\ next.payments = state.payments \ Y
      /\ next.groups = state.groups \cup {g}
  BY <1>1, <1>2 DEF Take
<1>4. Settles(g, X, Y) /\ X \subseteq state.evidence /\ Y \subseteq state.payments
  BY <1>2 DEF Settles, Takes
<1>5. PICK F, Q : F = E \ state.evidence /\ Q = P \ state.payments
  OBVIOUS
<1>6. /\ state.evidence \subseteq E /\ state.payments \subseteq P
      /\ Offer(state.groups, F, Q)
  BY <1>5 DEF MatchInv
<1>7. /\ F \subseteq E /\ Q \subseteq P /\ X \subseteq E /\ Y \subseteq P
      /\ X \cap F = {} /\ Y \cap Q = {}
      /\ F \cup X = E \ next.evidence /\ Q \cup Y = P \ next.payments
      /\ next.evidence \subseteq E /\ next.payments \subseteq P
  BY <1>3, <1>4, <1>5, <1>6
<1>8. Offer(state.groups \cup {g}, F \cup X, Q \cup Y)
  BY <1>4, <1>6, <1>7, OneMoreGroup
<1>9. Offer(next.groups, E \ next.evidence, P \ next.payments)
  BY <1>3, <1>7, <1>8
<1>10. MatchInv(E, P, next)
  BY <1>7, <1>9 DEF MatchInv
<1> QED
  BY <1>1, <1>3, <1>10

LEMMA OneToOneKeeps ==
    ASSUME NEW E, AreItems(E), NEW P, AreItems(P), NEW state, MatchInv(E, P, state),
           NEW e \in state.evidence
    PROVE  /\ MatchInv(E, P, OneToOne(state, e))
           /\ state.evidence \ {e} \subseteq OneToOne(state, e).evidence
<1>1. PICK matches : matches = {p \in state.payments : InWindow(e, p) /\ Size(p) = Size(e)}
  OBVIOUS
<1>2. PICK p : p = First(matches, ByDate(matches))
  OBVIOUS
<1>3. OneToOne(state, e) = IF matches = {} THEN state ELSE Take(state, {e}, {p}, 0)
  BY <1>1, <1>2 DEF OneToOne
<1>4. CASE matches = {}
  BY <1>3, <1>4
<1>5. CASE matches # {}
  <2>1. matches \subseteq P /\ e \in E
    BY <1>1 DEF MatchInv
  <2>2. AreItems(matches)
    BY <2>1, FewerItems
  <2>3. p \in matches
    BY <1>2, <1>5, <2>2, DateOrder, FirstOne DEF AreItems
  <2>4. p \in state.payments /\ Size(p) = Size(e) /\ OneCurrency({e}, {p})
    BY <1>1, <2>3 DEF InWindow, OneCurrency
  <2>5. e.amount \in Int /\ p.amount \in Int
    BY <2>1, <2>3 DEF AreItems
  <2>6. SizeOf({e}) = Size(e) /\ SizeOf({p}) = Size(p) /\ Size(e) \in Nat
    BY <2>5, SizeOfOne, SizeIsNatural
  <2>7. SizeOf({e}) - SizeOf({p}) = 0
    BY <2>4, <2>6
  <2>8. Takes(state, {e}, {p}, 0)
    BY <2>4, <2>7 DEF Takes
  <2>9. /\ MatchInv(E, P, Take(state, {e}, {p}, 0))
        /\ Take(state, {e}, {p}, 0).evidence = state.evidence \ {e}
    <3>1. PICK X, Y : X = {e} /\ Y = {p}
      OBVIOUS
    <3>2. Takes(state, X, Y, 0)
      BY <2>8, <3>1
    <3>3. /\ MatchInv(E, P, Take(state, X, Y, 0))
          /\ Take(state, X, Y, 0).evidence = state.evidence \ X
      BY <3>2, TakeKeeps
    <3> QED
      BY <3>1, <3>3
  <2> QED
    BY <1>3, <1>5, <2>9
<1> QED
  BY <1>4, <1>5

LEMMA OneToManyKeeps ==
    ASSUME NEW E, AreItems(E), NEW P, AreItems(P), NEW state, MatchInv(E, P, state),
           NEW e \in state.evidence
    PROVE  /\ MatchInv(E, P, OneToMany(state, e))
           /\ state.evidence \ {e} \subseteq OneToMany(state, e).evidence
<1>1. PICK near : near = {p \in state.payments : InWindow(e, p) /\ p.amount <= 0}
  OBVIOUS
<1>2. PICK candidates : candidates = Candidates(near, Size(e))
  OBVIOUS
<1>3. PICK ordered : ordered = Sorted(candidates, ByDate(candidates))
  OBVIOUS
<1>4. PICK exact : exact = SummingTo(ordered, Size(e))
  OBVIOUS
<1>5. PICK chosen : chosen = IF exact # {} THEN exact ELSE BestPartial(ordered, Size(e))
  OBVIOUS
<1>6. PICK residual : residual = Size(e) - SizeOf(chosen)
  OBVIOUS
<1>7. OneToMany(state, e) = IF chosen = {} THEN state ELSE Take(state, {e}, chosen, residual)
  BY <1>1, <1>2, <1>3, <1>4, <1>5, <1>6 DEF OneToMany
<1>8. CASE chosen = {}
  BY <1>7, <1>8
<1>9. CASE chosen # {}
  <2>1. near \subseteq P /\ near \subseteq state.payments /\ e \in E
    BY <1>1 DEF MatchInv
  <2>2. AreItems(near)
    BY <2>1, FewerItems
  <2>3. candidates \subseteq near
    BY <1>2, <2>2, CandidatesAmong
  <2>4. AreItems(candidates)
    BY <2>2, <2>3, FewerItems
  <2>5. exact # {} => exact \subseteq candidates
    BY <1>3, <1>4, <2>4, FoundSum
  <2>6. BestPartial(ordered, Size(e)) \subseteq candidates
    BY <1>3, <2>4, FoundPartial
  <2>7. chosen \subseteq candidates
    BY <1>5, <2>5, <2>6
  <2>8. OneCurrency({e}, chosen)
    BY <1>1, <2>3, <2>7 DEF InWindow, OneCurrency
  <2>9. SizeOf({e}) = Size(e)
    BY <2>1, SizeOfOne DEF AreItems
  <2>10. /\ MatchInv(E, P, Take(state, {e}, chosen, residual))
         /\ Take(state, {e}, chosen, residual).evidence = state.evidence \ {e}
    <3>1. chosen \subseteq state.payments /\ {e} \subseteq state.evidence /\ {e} # {}
      BY <2>1, <2>3, <2>7
    <3>2. residual = SizeOf({e}) - SizeOf(chosen)
      BY <1>6, <2>9
    <3>3. Takes(state, {e}, chosen, residual)
      BY <2>8, <3>1, <3>2 DEF Takes
    <3>4. PICK X : X = {e}
      OBVIOUS
    <3>5. Takes(state, X, chosen, residual)
      BY <3>3, <3>4
    <3>6. /\ MatchInv(E, P, Take(state, X, chosen, residual))
          /\ Take(state, X, chosen, residual).evidence = state.evidence \ X
      BY <3>5, TakeKeeps
    <3> QED
      BY <3>4, <3>6
  <2> QED
    BY <1>7, <1>9, <2>10
<1> QED
  BY <1>8, <1>9

LEMMA ManyToOneKeeps ==
    ASSUME NEW E, AreItems(E), NEW P, AreItems(P), NEW state, MatchInv(E, P, state),
           NEW p \in state.payments
    PROVE  /\ MatchInv(E, P, ManyToOne(state, p))
           /\ state.payments \ {p} \subseteq ManyToOne(state, p).payments
<1>1. PICK near : near = {e \in state.evidence : InWindow(e, p)}
  OBVIOUS
<1>2. PICK eligible : eligible = Eligible(near, Size(p))
  OBVIOUS
<1>3. PICK combo : combo = SummingTo(Sorted(eligible, ByDate(eligible)), Size(p))
  OBVIOUS
<1>4. ManyToOne(state, p) = IF combo = {} THEN state ELSE Take(state, combo, {p}, 0)
  BY <1>1, <1>2, <1>3 DEF ManyToOne
<1>5. CASE combo = {}
  BY <1>4, <1>5
<1>6. CASE combo # {}
  <2>1. near \subseteq E /\ near \subseteq state.evidence /\ p \in P
    BY <1>1 DEF MatchInv
  <2>2. eligible \subseteq near
    BY <1>2, EligibleAmong
  <2>3. AreItems(eligible)
    BY <2>1, <2>2, FewerItems
  <2>4. combo \subseteq eligible /\ SizeOf(combo) = Size(p)
    BY <1>3, <1>6, <2>3, FoundSum
  <2>5. OneCurrency(combo, {p})
    BY <1>1, <2>2, <2>4 DEF InWindow, OneCurrency
  <2>6. p.amount \in Int
    BY <2>1 DEF AreItems
  <2>7. SizeOf({p}) = Size(p) /\ Size(p) \in Nat
    BY <2>6, SizeOfOne, SizeIsNatural
  <2>8. SizeOf(combo) - SizeOf({p}) = 0
    BY <2>4, <2>7
  <2>9. combo \subseteq state.evidence /\ {p} \subseteq state.payments
    BY <2>1, <2>2, <2>4
  <2>10. /\ MatchInv(E, P, Take(state, combo, {p}, 0))
         /\ Take(state, combo, {p}, 0).payments = state.payments \ {p}
    <3>1. Takes(state, combo, {p}, 0)
      BY <1>6, <2>5, <2>8, <2>9 DEF Takes
    <3>2. PICK Y : Y = {p}
      OBVIOUS
    <3>3. Takes(state, combo, Y, 0)
      BY <3>1, <3>2
    <3>4. /\ MatchInv(E, P, Take(state, combo, Y, 0))
          /\ Take(state, combo, Y, 0).payments = state.payments \ Y
      BY <3>3, TakeKeeps
    <3> QED
      BY <3>2, <3>4
  <2> QED
    BY <1>4, <1>6, <2>10
<1> QED
  BY <1>5, <1>6

\* f[n] is the state after n turns of a pass.
PassSteps(pass, start, turn, m, f) ==
    f = [n \in 0..m |-> IF n = 0 THEN start ELSE Turn(pass, f[n - 1], turn[n])]

\* There is such a function, and the pass gives its last value.
LEMMA PassChain ==
    ASSUME NEW pass, NEW start, NEW items, items = Pending(pass, start), Cardinality(items) \in Nat
    PROVE  \E f : /\ PassSteps(pass, start, Sorted(items, ById(items)), Cardinality(items), f)
                  /\ Pass(pass, start) = f[Cardinality(items)]
<1>1. PICK m : m = Cardinality(items)
  OBVIOUS
<1>2. PICK turn : turn = Sorted(items, ById(items))
  OBVIOUS
<1>3. PICK N : N = {n \in 0..m : ~\E f : PassSteps(pass, start, turn, n, f)}
  OBVIOUS
<1>4. 0 \notin N
  <2>1. PICK f : f = [n \in 0..0 |-> start]
    OBVIOUS
  <2>2. PassSteps(pass, start, turn, 0, f)
    BY <2>1 DEF PassSteps
  <2> QED
    BY <1>3, <2>2
<1>5. ASSUME NEW n \in 1..m, n \in N PROVE n - 1 \in N
  <2>1. n - 1 \in 0..m /\ n \in Nat
    BY <1>1
  <2>2. SUFFICES ASSUME NEW f, PassSteps(pass, start, turn, n - 1, f) PROVE FALSE
    BY <1>3, <2>1
  <2>3. PICK g : g = [k \in 0..n |-> IF k = n THEN Turn(pass, f[n - 1], turn[n]) ELSE f[k]]
    OBVIOUS
  <2>4. f = [k \in 0..(n - 1) |-> IF k = 0 THEN start ELSE Turn(pass, f[k - 1], turn[k])]
    BY <2>2 DEF PassSteps
  <2>5. ASSUME NEW k \in 0..n
        PROVE  g[k] = IF k = 0 THEN start ELSE Turn(pass, g[k - 1], turn[k])
    <3>1. CASE k = n
      BY <2>1, <2>3, <3>1
    <3>2. CASE k # n
      <4>1. k \in 0..(n - 1) /\ (k # 0 => k - 1 \in 0..n /\ k - 1 # n)
        BY <2>1, <3>2
      <4>2. g[k] = f[k] /\ (k # 0 => g[k - 1] = f[k - 1])
        BY <2>3, <3>2, <4>1
      <4>3. f[k] = IF k = 0 THEN start ELSE Turn(pass, f[k - 1], turn[k])
        BY <2>4, <4>1
      <4> QED
        BY <4>2, <4>3
    <3> QED
      BY <3>1, <3>2
  <2>6. g = [k \in 0..n |-> g[k]]
    BY <2>3
  <2>7. PassSteps(pass, start, turn, n, g)
    BY <2>5, <2>6 DEF PassSteps
  <2> QED
    BY <1>3, <1>5, <2>7
<1>6. m \notin N
  BY <1>1, <1>3, <1>4, <1>5, UpTo
<1>7. \E f : PassSteps(pass, start, turn, m, f)
  BY <1>1, <1>3, <1>6
<1>8. PICK g : g = CHOOSE f : PassSteps(pass, start, turn, m, f)
  OBVIOUS
<1>9. PassSteps(pass, start, turn, m, g)
  BY <1>7, <1>8
<1>10. Pass(pass, start) = g[m]
  BY <1>1, <1>2, <1>8 DEF Pass, PassSteps
<1> QED
  BY <1>1, <1>2, <1>9, <1>10

\* A pass takes every item in a state that still has it.
PassNames == {"one_to_one", "one_to_many", "many_to_one"}

\* A turn of any pass keeps the invariant of the passes.
LEMMA TurnKeeps ==
    ASSUME NEW E, AreItems(E), NEW P, AreItems(P), NEW state, MatchInv(E, P, state),
           NEW pass \in PassNames, NEW item, item \in Pending(pass, state)
    PROVE  /\ MatchInv(E, P, Turn(pass, state, item))
           /\ Pending(pass, state) \ {item} \subseteq Pending(pass, Turn(pass, state, item))
<1>1. CASE pass = "one_to_one"
  <2>1. item \in state.evidence /\ Turn(pass, state, item) = OneToOne(state, item)
    BY <1>1 DEF Pending, Turn
  <2>2. /\ MatchInv(E, P, OneToOne(state, item))
        /\ state.evidence \ {item} \subseteq OneToOne(state, item).evidence
    BY <2>1, OneToOneKeeps
  <2> QED
    BY <1>1, <2>1, <2>2 DEF Pending
<1>2. CASE pass = "one_to_many"
  <2>1. item \in state.evidence /\ Turn(pass, state, item) = OneToMany(state, item)
    BY <1>2 DEF Pending, Turn
  <2>2. /\ MatchInv(E, P, OneToMany(state, item))
        /\ state.evidence \ {item} \subseteq OneToMany(state, item).evidence
    BY <2>1, OneToManyKeeps
  <2> QED
    BY <1>2, <2>1, <2>2 DEF Pending
<1>3. CASE pass = "many_to_one"
  <2>1. item \in state.payments /\ Turn(pass, state, item) = ManyToOne(state, item)
    BY <1>3 DEF Pending, Turn
  <2>2. /\ MatchInv(E, P, ManyToOne(state, item))
        /\ state.payments \ {item} \subseteq ManyToOne(state, item).payments
    BY <2>1, ManyToOneKeeps
  <2> QED
    BY <1>3, <2>1, <2>2 DEF Pending
<1> QED
  BY <1>1, <1>2, <1>3 DEF PassNames

LEMMA PassKeeps ==
    ASSUME NEW E, AreItems(E), NEW P, AreItems(P), NEW start, MatchInv(E, P, start),
           NEW pass \in PassNames
    PROVE  MatchInv(E, P, Pass(pass, start))
<1>1. PICK items : items = Pending(pass, start)
  OBVIOUS
<1>2. AreItems(items)
  <2>1. items \subseteq E \/ items \subseteq P
    BY <1>1 DEF Pending, MatchInv
  <2> QED
    BY <2>1, FewerItems
<1>3. PICK m : m = Cardinality(items)
  OBVIOUS
<1>4. m \in Nat
  BY <1>2, <1>3, FS_CardinalityType DEF AreItems
<1>5. PICK turn : turn = Sorted(items, ById(items))
  OBVIOUS
<1>6. /\ \A n \in 1..m : turn[n] \in items
      /\ \A n, k \in 1..m : turn[n] = turn[k] => n = k
  BY <1>2, <1>3, <1>5, IdOrder, SortedOnce DEF AreItems
<1>7. PICK f : PassSteps(pass, start, turn, m, f) /\ Pass(pass, start) = f[m]
  BY <1>1, <1>3, <1>4, <1>5, PassChain
<1>8. \A n \in 0..m : f[n] = IF n = 0 THEN start ELSE Turn(pass, f[n - 1], turn[n])
  BY <1>7 DEF PassSteps
<1> DEFINE Good(n) == /\ MatchInv(E, P, f[n])
                      /\ \A k \in 1..m : k > n => turn[k] \in Pending(pass, f[n])
<1>9. PICK N : N = {n \in 0..m : ~Good(n)}
  OBVIOUS
<1>10. Good(0)
  <2>1. f[0] = start
    BY <1>4, <1>8
  <2> QED
    BY <1>1, <1>6, <2>1
<1>11. ASSUME NEW n \in 1..m, Good(n - 1) PROVE Good(n)
  <2>1. n \in Nat /\ n - 1 \in 0..m /\ n \in 0..m /\ n > n - 1
    BY <1>4
  <2>2. PICK before : before = f[n - 1]
    OBVIOUS
  <2>3. PICK item : item = turn[n]
    OBVIOUS
  <2>4. f[n] = Turn(pass, before, item)
    BY <1>8, <2>1, <2>2, <2>3
  <2>5. MatchInv(E, P, before) /\ item \in Pending(pass, before)
    BY <1>11, <2>1, <2>2, <2>3
  <2>6. MatchInv(E, P, f[n]) /\ Pending(pass, before) \ {item} \subseteq Pending(pass, f[n])
    BY <2>4, <2>5, TurnKeeps
  <2>7. ASSUME NEW k \in 1..m, k > n PROVE turn[k] \in Pending(pass, f[n])
    <3>1. k # n /\ k > n - 1
      BY <2>1, <2>7
    <3>2. turn[k] \in Pending(pass, before) /\ turn[k] # item
      BY <1>6, <1>11, <2>2, <2>3, <3>1
    <3> QED
      BY <2>6, <3>2
  <2> QED
    BY <2>6, <2>7
<1>12. 0 \notin N
  BY <1>9, <1>10
<1>13. ASSUME NEW n \in 1..m, n \in N PROVE n - 1 \in N
  <2>1. n - 1 \in 0..m
    BY <1>4
  <2> HIDE DEF Good
  <2> QED
    BY <1>9, <1>11, <1>13, <2>1
<1>14. m \notin N
  BY <1>4, <1>9, <1>12, <1>13, UpTo
<1>15. Good(m)
  BY <1>4, <1>9, <1>14
<1> QED
  BY <1>1, <1>7, <1>15

LEMMA LoneGroups ==
    ASSUME NEW E, AreItems(E), NEW P, NEW F, NEW Q, F \subseteq E, Q \subseteq P,
           NEW groups, Offer(groups, F, Q)
    PROVE  Offer(groups \cup Unmatched(E \ F), E, P)
<1>1. PICK U : U = E \ F
  OBVIOUS
<1>2. PICK lone : lone = Unmatched(U)
  OBVIOUS
<1>3. U \subseteq E /\ F \cup U = E /\ F \cap U = {}
  BY <1>1
<1>4. \A g \in lone : \E e \in U : g = Group({e}, {}, Size(e))
  BY <1>2 DEF Unmatched
<1>5. ASSUME NEW e \in U PROVE Group({e}, {}, Size(e)) \in lone
  <2>1. PICK g : g = Group({e}, {}, Size(e))
    OBVIOUS
  <2>2. g \in Unmatched(U)
    BY <2>1 DEF Unmatched
  <2> QED
    BY <1>2, <2>1, <2>2
<1>6. ASSUME NEW e \in U
      PROVE  /\ Settles(Group({e}, {}, Size(e)), {e}, {})
             /\ Group({e}, {}, Size(e)).evidence = {e.id}
             /\ Group({e}, {}, Size(e)).payments = {}
  <2>1. e.amount \in Int
    BY <1>3 DEF AreItems
  <2>2. SizeOf({e}) = Size(e) /\ Size(e) \in Nat
    BY <2>1, SizeOfOne, SizeIsNatural
  <2>3. SizeOf({}) = 0
    <3>1. PICK f : f = [item \in {} |-> Size(item)]
      OBVIOUS
    <3>2. SizeOf({}) = SumFunctionOnSet(f, {})
      BY <3>1 DEF SizeOf, SumFunction
    <3> QED
      BY <3>2, SumSome, FS_EmptySet
  <2>4. OneCurrency({e}, {})
    BY DEF OneCurrency
  <2>5. Size(e) = SizeOf({e}) - SizeOf({})
    BY <2>2, <2>3
  <2> QED
    BY <2>4, <2>5 DEF Settles, Group, Ids
<1>7. ASSUME NEW g \in groups \cup lone
      PROVE  \E X \in SUBSET E, Y \in SUBSET P : Settles(g, X, Y)
  <2>1. CASE g \in groups
    <3>1. PICK X \in SUBSET F, Y \in SUBSET Q : Settles(g, X, Y)
      BY <2>1 DEF Offer
    <3>2. X \in SUBSET E /\ Y \in SUBSET P
      OBVIOUS
    <3> QED
      BY <3>1, <3>2
  <2>2. CASE g \in lone
    <3>1. PICK e \in U : g = Group({e}, {}, Size(e))
      BY <1>4, <2>2
    <3>2. Settles(g, {e}, {})
      BY <1>6, <3>1
    <3>3. {e} \in SUBSET E /\ {} \in SUBSET P
      BY <1>3
    <3>4. PICK X, Y : X = {e} /\ Y = {}
      OBVIOUS
    <3> QED
      BY <3>2, <3>3, <3>4
  <2> QED
    BY <2>1, <2>2
<1>8. ASSUME NEW g \in groups \cup lone, NEW h \in lone, g # h
      PROVE  g.evidence \cap h.evidence = {} /\ g.payments \cap h.payments = {}
  <2>1. PICK e \in U : h = Group({e}, {}, Size(e))
    BY <1>4
  <2>2. h.evidence = {e.id} /\ h.payments = {}
    BY <1>6, <2>1
  <2>3. CASE g \in groups
    <3>1. g.evidence \subseteq Ids(F)
      BY <2>3 DEF Offer
    <3>2. e.id \notin Ids(F)
      BY <1>3 DEF Ids, AreItems
    <3> QED
      BY <2>2, <3>1, <3>2
  <2>4. CASE g \in lone
    <3>1. PICK d \in U : g = Group({d}, {}, Size(d))
      BY <1>4, <2>4
    <3>2. g.evidence = {d.id}
      BY <1>6, <3>1
    <3>3. d # e
      BY <1>8, <2>1, <3>1
    <3>4. d.id # e.id
      BY <1>3, <3>3 DEF AreItems
    <3> QED
      BY <2>2, <3>2, <3>4
  <2> QED
    BY <2>3, <2>4
<1>9. ASSUME NEW g \in groups \cup lone, NEW h \in groups \cup lone, g # h
      PROVE  g.evidence \cap h.evidence = {} /\ g.payments \cap h.payments = {}
  <2>1. CASE g \in groups /\ h \in groups
    BY <1>9, <2>1 DEF Offer
  <2>2. CASE h \in lone
    BY <1>8, <1>9, <2>2
  <2>3. CASE g \in lone
    BY <1>8, <1>9, <2>3
  <2> QED
    BY <2>1, <2>2, <2>3
<1>10. UNION {g.evidence : g \in groups \cup lone} = Ids(E)
  <2>1. UNION {g.evidence : g \in groups} = Ids(F)
    BY DEF Offer
  <2>2. UNION {g.evidence : g \in lone} = Ids(U)
    <3>1. ASSUME NEW x \in Ids(U) PROVE x \in UNION {g.evidence : g \in lone}
      <4>1. PICK e \in U : x = e.id
        BY DEF Ids
      <4>2. PICK g : g = Group({e}, {}, Size(e))
        OBVIOUS
      <4>3. g \in lone /\ g.evidence = {x}
        BY <1>5, <1>6, <4>1, <4>2
      <4> QED
        BY <4>3
    <3>2. ASSUME NEW g \in lone PROVE g.evidence \subseteq Ids(U)
      <4>1. PICK e \in U : g = Group({e}, {}, Size(e))
        BY <1>4
      <4>2. g.evidence = {e.id}
        BY <1>6, <4>1
      <4> QED
        BY <4>2 DEF Ids
    <3> QED
      BY <3>1, <3>2
  <2>3. UNION {g.evidence : g \in groups \cup lone} =
           (UNION {g.evidence : g \in groups}) \cup (UNION {g.evidence : g \in lone})
    OBVIOUS
  <2>4. Ids(E) = Ids(F) \cup Ids(U)
    BY <1>3, IdsTogether
  <2> QED
    BY <2>1, <2>2, <2>3, <2>4
<1>11. Offer(groups \cup lone, E, P)
  BY <1>7, <1>9, <1>10 DEF Offer
<1> QED
  BY <1>1, <1>2, <1>11

\* The three passes, one on what the other left.
LEMMA ReconcilePasses ==
    ASSUME NEW E, NEW P, NEW start, start = [evidence |-> E, payments |-> P, groups |-> {}],
           NEW one, one = Pass("one_to_one", start),
           NEW many, many = Pass("one_to_many", one),
           NEW several, several = Pass("many_to_one", many)
    PROVE  Reconcile(E, P) = Offers(several)
<1> DEFINE Chained(f) ==
               f = [n \in 0..3 |-> IF n = 0 THEN start ELSE Pass(Passes[n], f[n - 1])]
<1>1. PICK g : g = [n \in 0..3 |-> IF n = 0 THEN start
                                   ELSE IF n = 1 THEN one ELSE IF n = 2 THEN many ELSE several]
  OBVIOUS
<1>2. g[0] = start /\ g[1] = one /\ g[2] = many /\ g[3] = several
  BY <1>1
<1>3. Passes[1] = "one_to_one" /\ Passes[2] = "one_to_many" /\ Passes[3] = "many_to_one"
  BY DEF Passes
<1>4. ASSUME NEW n \in 0..3 PROVE g[n] = IF n = 0 THEN start ELSE Pass(Passes[n], g[n - 1])
  <2>1. n = 0 \/ n = 1 \/ n = 2 \/ n = 3
    OBVIOUS
  <2>2. CASE n = 0
    BY <1>2, <2>2
  <2>3. CASE n = 1
    BY <1>2, <1>3, <2>3
  <2>4. CASE n = 2
    BY <1>2, <1>3, <2>4
  <2>5. CASE n = 3
    BY <1>2, <1>3, <2>5
  <2> QED
    BY <2>1, <2>2, <2>3, <2>4, <2>5
<1>5. Chained(g)
  <2>1. g = [n \in 0..3 |-> g[n]]
    BY <1>1
  <2> QED
    BY <1>4, <2>1
<1>6. PICK f : f = CHOOSE h : Chained(h)
  OBVIOUS
<1>7. Chained(f)
  BY <1>5, <1>6
<1>8. f[3] = several
  <2>1. \A n \in 0..3 : f[n] = IF n = 0 THEN start ELSE Pass(Passes[n], f[n - 1])
    BY <1>7
  <2>2. f[0] = start
    BY <2>1
  <2>3. f[1] = one
    BY <1>3, <2>1, <2>2
  <2>4. f[2] = many
    BY <1>3, <2>1, <2>3
  <2> QED
    BY <1>3, <2>1, <2>4
<1> QED
  BY <1>6, <1>8 DEF Reconcile

\* What the matcher offers: groups that settle up to their residual, all the
\* evidence, nothing twice.
LEMMA ReconcileOffers ==
    ASSUME NEW E, AreItems(E), NEW P, AreItems(P)
    PROVE  Offer(Reconcile(E, P), E, P)
<1>1. PICK start : start = [evidence |-> E, payments |-> P, groups |-> {}]
  OBVIOUS
<1>2. PICK one : one = Pass("one_to_one", start)
  OBVIOUS
<1>3. PICK many : many = Pass("one_to_many", one)
  OBVIOUS
<1>4. PICK several : several = Pass("many_to_one", many)
  OBVIOUS
<1>5. Reconcile(E, P) = several.groups \cup Unmatched(several.evidence)
  BY <1>1, <1>2, <1>3, <1>4, ReconcilePasses DEF Offers
<1>6. MatchInv(E, P, start)
  <2>1. start.evidence = E /\ start.payments = P /\ start.groups = {}
    BY <1>1
  <2>2. E \ E = {}
    OBVIOUS
  <2>3. Offer({}, {}, P \ P)
    BY DEF Offer, Ids
  <2> QED
    BY <2>1, <2>2, <2>3 DEF MatchInv
<1>7. MatchInv(E, P, one)
  BY <1>2, <1>6, PassKeeps DEF PassNames
<1>8. MatchInv(E, P, many)
  BY <1>3, <1>7, PassKeeps DEF PassNames
<1>9. MatchInv(E, P, several)
  BY <1>4, <1>8, PassKeeps DEF PassNames
<1>10. PICK F, Q : F = E \ several.evidence /\ Q = P \ several.payments
  OBVIOUS
<1>11. /\ Offer(several.groups, F, Q) /\ F \subseteq E /\ Q \subseteq P
       /\ several.evidence = E \ F
  BY <1>9, <1>10 DEF MatchInv
<1>12. Offer(several.groups \cup Unmatched(E \ F), E, P)
  BY <1>11, LoneGroups
<1> QED
  BY <1>5, <1>11, <1>12

----------------------------------------------------------------------------
(* Proposals and what confirm_allocation checks.                           *)

\* Evidence is finite, one item per id, and a unit is never of zero amount.
EvidenceInv ==
    /\ OneEvidencePerId
    /\ IsFiniteSet(evidence)
    /\ \A e \in evidence : /\ e.id \in Int /\ e.day \in Int /\ e.amount \in Int
                           /\ e.unit => e.amount # 0

\* Evidence is only added, item by item, under new ids.
LEMMA EvidenceStep ==
    ASSUME EvidenceInv, [Next]_vars
    PROVE  EvidenceInv'
<1>1. ASSUME UNCHANGED evidence PROVE EvidenceInv'
  BY <1>1 DEF EvidenceInv, OneEvidencePerId
<1>2. CASE UNCHANGED vars
  BY <1>1, <1>2 DEF vars, settled
<1>3. ASSUME NEW d, ImportFile(File("statement", d)) PROVE UNCHANGED evidence
  BY <1>3, StatementImport DEF settled
<1>4. ASSUME NEW w, ImportFile(File("workbook", w)) PROVE UNCHANGED evidence
  BY <1>4, WorkbookImport DEF settled
<1>5. ASSUME NEW k, NEW a, NEW previous, BindAccount(k, a, previous) PROVE UNCHANGED evidence
  BY <1>5 DEF BindAccount, settled
<1>6. ASSUME RecomputeTransfers PROVE UNCHANGED evidence
  BY <1>6 DEF RecomputeTransfers, settled
<1>7. ASSUME NEW items \in Submissions, ImportEvidence(items) PROVE EvidenceInv'
  <2>1. OneEvidencePerId'
    BY <1>7, EvidenceKeepsIds DEF EvidenceInv
  <2>2. /\ evidence' = evidence \cup items
        /\ \A e \in items : e.unit => e.amount # 0
    BY <1>7 DEF ImportEvidence, CanImportEvidence
  <2>3. IsFiniteSet(items) /\ \A e \in items : e.id \in Int /\ e.day \in Int /\ e.amount \in Int
    BY BooksAssumption DEF EvidenceItems
  <2>4. IsFiniteSet(evidence')
    BY <2>2, <2>3, FS_Union DEF EvidenceInv
  <2> QED
    BY <2>1, <2>2, <2>3, <2>4 DEF EvidenceInv
<1>8. ASSUME NEW eids, NEW pids, ConfirmAllocation(eids, pids) PROVE UNCHANGED evidence
  BY <1>8 DEF ConfirmAllocation
<1>9. ASSUME NEW a, WithdrawAllocation(a) PROVE UNCHANGED evidence
  BY <1>9 DEF WithdrawAllocation
<1>10. ASSUME NEW period, ClosePeriod(period) \/ ReopenPeriod(period) PROVE UNCHANGED evidence
  BY <1>10 DEF ClosePeriod, ReopenPeriod, settled
<1> QED
  BY <1>1, <1>2, <1>3, <1>4, <1>5, <1>6, <1>7, <1>8, <1>9, <1>10 DEF Next

\* The sizes of items of one sign add up to their amounts.
LEMMA SignedSizes ==
    ASSUME NEW S, AreItems(S), NEW g, DOMAIN g = Ids(S), \A x \in S : g[x.id] = x.amount
    PROVE  /\ SumFunction(g) \in Int
           /\ (\A x \in S : x.amount > 0) => SizeOf(S) = SumFunction(g)
           /\ (\A x \in S : x.amount < 0) => SizeOf(S) = -SumFunction(g)
<1>1. PICK f : f = [x \in S |-> Size(x)]
  OBVIOUS
<1>2. PICK a : a = [x \in S |-> x.amount]
  OBVIOUS
<1>3. PICK h : h = [x \in S |-> x.id]
  OBVIOUS
<1>4. IsFiniteSet(S) /\ S \in SUBSET S /\ \A x \in S : x.amount \in Int
  BY DEF AreItems
<1>5. SizeOf(S) = SumFunctionOnSet(f, S)
  BY <1>1 DEF SizeOf, SumFunction
<1>6. PICK T : T = {h[x] : x \in S}
  OBVIOUS
<1>7. T = Ids(S)
  BY <1>3, <1>6 DEF Ids
<1>8. SumFunction(g) = SumFunctionOnSet(g, T)
  BY <1>7 DEF SumFunction
<1>9. \A x, y \in S : h[x] = h[y] => x = y
  BY <1>3 DEF AreItems
<1>10. \A x \in S : a[x] \in Int /\ g[h[x]] = a[x]
  BY <1>2, <1>3, <1>4
<1>11. SumFunctionOnSet(g, T) = SumFunctionOnSet(a, S)
  BY <1>4, <1>6, <1>9, <1>10, SumMapped
<1>12. SumFunctionOnSet(a, S) \in Int
  BY <1>4, <1>10, SumInt
<1>13. ASSUME \A x \in S : x.amount > 0 PROVE f = a
  <2>1. \A x \in S : Size(x) = x.amount
    BY <1>4, <1>13 DEF Size, Magnitude
  <2> QED
    BY <1>1, <1>2, <2>1
<1>14. ASSUME \A x \in S : x.amount < 0
       PROVE  SumFunctionOnSet(f, S) = -SumFunctionOnSet(a, S)
  <2>1. \A x \in S : Size(x) = -x.amount
    BY <1>4, <1>14 DEF Size, Magnitude
  <2>2. \A x \in S : a[x] \in Int /\ f[x] \in Int /\ f[x] = -a[x]
    BY <1>1, <1>2, <1>4, <2>1
  <2> QED
    BY <1>4, <2>2, SumNegated
<1> QED
  BY <1>5, <1>8, <1>11, <1>12, <1>13, <1>14

Sided(sign, amount) == IF sign = 1 THEN amount > 0 ELSE amount < 0
Opposed(sign, amount) == IF sign = 1 THEN amount < 0 ELSE amount > 0
OpenSide(sign) == Items({e \in OpenEvidence : sign * e.amount > 0})
PaidSide(sign) == {p \in OpenPayments : sign * p.amount < 0}
Offered(sign, h) == [h EXCEPT !.residual = sign * @]

\* The proposals are what is matched of each side.
LEMMA ProposalsAre ==
    \A g : g \in Proposals <=>
        \E sign \in {-1, 1} : \E h \in Reconcile(OpenSide(sign), PaidSide(sign)) :
            g = Offered(sign, h)
BY DEF Proposals, OpenSide, PaidSide, Offered

\* Every open item of a side stands for one unit of evidence that is not reserved.
LEMMA OpenItems ==
    ASSUME EvidenceInv, NEW sign \in {-1, 1}
    PROVE  /\ AreItems(OpenSide(sign))
           /\ \A x \in OpenSide(sign) :
                 /\ Sided(sign, x.amount)
                 /\ x.id \in EvidenceIds /\ x.id \notin ReservedEvidence
                 /\ Evidence(x.id).unit
                 /\ Evidence(x.id).amount = x.amount
                 /\ Evidence(x.id).currency = x.currency
           /\ \A e \in OpenEvidence : Sided(sign, e.amount) => e.id \in Ids(OpenSide(sign))
           /\ Ids(OpenSide(sign)) \subseteq Ids(OpenEvidence)
<1>1. PICK open : open = {e \in OpenEvidence : sign * e.amount > 0}
  OBVIOUS
<1>2. \A e \in OpenEvidence : e \in evidence /\ e.unit /\ e.id \notin ReservedEvidence
  BY DEF OpenEvidence
<1>3. open \subseteq OpenEvidence /\ \A e \in OpenEvidence : e \in open <=> Sided(sign, e.amount)
  <2>1. ASSUME NEW e \in OpenEvidence PROVE sign * e.amount > 0 <=> Sided(sign, e.amount)
    <3>1. e.amount \in Int
      BY <1>2 DEF EvidenceInv
    <3>2. CASE sign = 1
      BY <3>1, <3>2 DEF Sided, Opposed
    <3>3. CASE sign = -1
      BY <3>1, <3>3 DEF Sided, Opposed
    <3> QED
      BY <3>2, <3>3
  <2> QED
    BY <1>1, <2>1
<1>4. PICK item : item = [e \in open |-> [id |-> e.id, day |-> e.day, amount |-> e.amount,
                                            currency |-> e.currency]]
  OBVIOUS
<1>5. PICK S : S = OpenSide(sign)
  OBVIOUS
<1>6. S = {item[e] : e \in open}
  BY <1>1, <1>4, <1>5 DEF OpenSide, Items
<1>7. \A e \in open : /\ item[e].id = e.id /\ item[e].day = e.day
                      /\ item[e].amount = e.amount /\ item[e].currency = e.currency
  BY <1>4
<1>8. IsFiniteSet(S)
  <2>1. IsFiniteSet(open)
    <3>1. open \subseteq evidence
      BY <1>2, <1>3
    <3> QED
      BY <3>1, FS_Subset DEF EvidenceInv
  <2>2. item \in Surjection(open, S)
    BY <1>4, <1>6 DEF Surjection
  <2> QED
    BY <2>1, <2>2, FS_Surjection
<1>9. \A e, f \in open : e.id = f.id => e = f
  BY <1>2, <1>3 DEF EvidenceInv, OneEvidencePerId
<1>10. ASSUME NEW x \in S
       PROVE  /\ x.id \in Int /\ x.day \in Int /\ x.amount \in Int
              /\ Sided(sign, x.amount)
              /\ x.id \in EvidenceIds /\ x.id \notin ReservedEvidence
              /\ Evidence(x.id).unit
              /\ Evidence(x.id).amount = x.amount
              /\ Evidence(x.id).currency = x.currency
              /\ x.id \in Ids(OpenEvidence)
  <2>1. PICK e \in open : x = item[e]
    BY <1>6
  <2>2. /\ x.id = e.id /\ x.day = e.day /\ x.amount = e.amount /\ x.currency = e.currency
        /\ e \in evidence /\ e \in OpenEvidence /\ e.unit /\ e.id \notin ReservedEvidence
        /\ Sided(sign, e.amount)
    BY <1>2, <1>3, <1>7, <2>1
  <2>3. Evidence(x.id) = e
    <3>1. \A f \in evidence : f.id = x.id => f = e
      BY <2>2 DEF EvidenceInv, OneEvidencePerId
    <3> QED
      BY <2>2, <3>1 DEF Evidence
  <2>4. e.id \in EvidenceIds /\ e.id \in Ids(OpenEvidence)
    BY <2>2 DEF EvidenceIds, Ids
  <2>5. e.id \in Int /\ e.day \in Int /\ e.amount \in Int
    BY <2>2 DEF EvidenceInv
  <2> QED
    BY <2>2, <2>3, <2>4, <2>5
<1>11. AreItems(S)
  <2>1. ASSUME NEW x \in S, NEW y \in S, x.id = y.id PROVE x = y
    <3>1. PICK e \in open, f \in open : x = item[e] /\ y = item[f]
      BY <1>6
    <3> QED
      BY <1>7, <1>9, <2>1, <3>1
  <2> QED
    BY <1>8, <1>10, <2>1 DEF AreItems
<1>12. ASSUME NEW e \in OpenEvidence, Sided(sign, e.amount) PROVE e.id \in Ids(S)
  <2>1. e \in open
    BY <1>3, <1>12
  <2>2. item[e] \in S /\ item[e].id = e.id
    BY <1>6, <1>7, <2>1
  <2> QED
    BY <2>2 DEF Ids
<1>13. Ids(S) \subseteq Ids(OpenEvidence)
  <2>1. ASSUME NEW i \in Ids(S) PROVE i \in Ids(OpenEvidence)
    <3>1. PICK x \in S : i = x.id
      BY DEF Ids
    <3> QED
      BY <1>10, <3>1
  <2> QED
    BY <2>1
<1> QED
  BY <1>5, <1>10, <1>11, <1>12, <1>13

\* Every payment of a side stands for one transaction that is not reserved.
LEMMA PaidItems ==
    ASSUME TypeOK, NEW sign \in {-1, 1}
    PROVE  /\ AreItems(PaidSide(sign))
           /\ \A y \in PaidSide(sign) :
                 /\ Opposed(sign, y.amount)
                 /\ y.id \in DOMAIN transactions /\ y.id \notin ReservedPayments
                 /\ transactions[y.id].amount = y.amount
                 /\ transactions[y.id].currency = y.currency
<1>1. PICK S : S = PaidSide(sign)
  OBVIOUS
<1>2. PICK D : D = {u \in DOMAIN transactions :
                      transactions[u].amount # 0 /\ u \notin ReservedPayments}
  OBVIOUS
<1>3. OpenPayments = {Payment(t) : t \in D}
  BY <1>2 DEF OpenPayments
<1>4. PICK pay : pay = [t \in D |-> Payment(t)]
  OBVIOUS
<1>5. ASSUME NEW t \in D
      PROVE  /\ pay[t].id = t /\ t \in DOMAIN transactions /\ t \notin ReservedPayments
             /\ pay[t].amount = transactions[t].amount
             /\ pay[t].currency = transactions[t].currency
             /\ t \in Int /\ pay[t].day \in Int /\ pay[t].amount \in Int
  <2>1. t \in DOMAIN transactions /\ t \notin ReservedPayments
    BY <1>2
  <2>2. transactions[t] \in Transactions /\ t \in Int
    BY <2>1 DEF TypeOK
  <2>3. transactions[t].clock.day \in Int /\ transactions[t].amount \in Int
    BY <2>2 DEF Transactions, Clocks
  <2> QED
    BY <1>4, <2>1, <2>2, <2>3 DEF Payment
<1>6. IsFiniteSet(D)
  <2>1. DOMAIN transactions = 1..Len(transactions) /\ Len(transactions) \in Nat
    BY DEF TypeOK
  <2>2. IsFiniteSet(DOMAIN transactions)
    BY <2>1, FS_Interval
  <2> QED
    BY <1>2, <2>2, FS_Subset
<1>7. PICK A : A = {pay[t] : t \in D}
  OBVIOUS
<1>8. A = OpenPayments
  BY <1>3, <1>4, <1>7
<1>9. IsFiniteSet(A)
  <2>1. pay \in Surjection(D, A)
    BY <1>4, <1>7 DEF Surjection
  <2> QED
    BY <1>6, <2>1, FS_Surjection
<1>10. S = {p \in A : sign * p.amount < 0}
  BY <1>1, <1>8 DEF PaidSide
<1>11. IsFiniteSet(S)
  BY <1>9, <1>10, FS_Subset
<1>12. ASSUME NEW y \in S
       PROVE  /\ y.id \in D /\ y = pay[y.id] /\ Opposed(sign, y.amount)
  <2>1. PICK t \in D : y = pay[t]
    BY <1>7, <1>10
  <2>2. y.id = t /\ y.amount \in Int
    BY <1>5, <2>1
  <2>3. sign * y.amount < 0
    BY <1>10
  <2>4. CASE sign = 1
    BY <2>1, <2>2, <2>3, <2>4 DEF Sided, Opposed
  <2>5. CASE sign = -1
    BY <2>1, <2>2, <2>3, <2>5 DEF Sided, Opposed
  <2> QED
    BY <2>1, <2>2, <2>4, <2>5
<1>13. AreItems(S)
  <2>1. \A x, y \in S : x.id = y.id => x = y
    BY <1>12
  <2>2. \A y \in S : y.id \in Int /\ y.day \in Int /\ y.amount \in Int
    BY <1>5, <1>12
  <2> QED
    BY <1>11, <2>1, <2>2 DEF AreItems
<1>14. ASSUME NEW y \in S
       PROVE  /\ y.id \in DOMAIN transactions /\ y.id \notin ReservedPayments
              /\ transactions[y.id].amount = y.amount
              /\ transactions[y.id].currency = y.currency
  BY <1>5, <1>12
<1> QED
  BY <1>1, <1>12, <1>13, <1>14

\* An offer in the terms of the evidence and payments it is of.
LEMMA OfferedIs ==
    ASSUME NEW X, NEW Y, NEW h, Settles(h, X, Y), NEW sign
    PROVE  /\ Offered(sign, h).evidence = Ids(X)
           /\ Offered(sign, h).payments = Ids(Y)
           /\ Offered(sign, h).residual = sign * (SizeOf(X) - SizeOf(Y))
<1>1. PICK r : r = SizeOf(X) - SizeOf(Y)
  OBVIOUS
<1>2. h = [evidence |-> Ids(X), payments |-> Ids(Y), residual |-> r]
  BY <1>1 DEF Settles, Group
<1>3. Offered(sign, h) = [evidence |-> Ids(X), payments |-> Ids(Y), residual |-> sign * r]
  BY <1>2 DEF Offered
<1> QED
  BY <1>1, <1>3

\* A group with payments can be confirmed as it is offered.
LEMMA OfferedConfirms ==
    ASSUME TypeOK, EvidenceInv, PaymentsReadable, NEW sign \in {-1, 1},
           NEW X, X \subseteq OpenSide(sign), NEW Y, Y \subseteq PaidSide(sign), Y # {},
           NEW h, Settles(h, X, Y)
    PROVE  CanConfirm(Ids(X), Ids(Y), sign * (SizeOf(X) - SizeOf(Y)))
<1>1. PICK eids, pids : eids = Ids(X) /\ pids = Ids(Y)
  OBVIOUS
<1>2. X # {} /\ OneCurrency(X, Y)
  BY DEF Settles
<1>3. AreItems(X) /\ AreItems(Y)
  BY OpenItems, PaidItems, FewerItems
<1>4. \A x \in X : /\ Sided(sign, x.amount)
                   /\ x.id \in EvidenceIds /\ x.id \notin ReservedEvidence
                   /\ Evidence(x.id).unit
                   /\ Evidence(x.id).amount = x.amount
                   /\ Evidence(x.id).currency = x.currency
  BY OpenItems
<1>5. \A y \in Y : /\ Opposed(sign, y.amount)
                   /\ y.id \in DOMAIN transactions /\ y.id \notin ReservedPayments
                   /\ transactions[y.id].amount = y.amount
                   /\ transactions[y.id].currency = y.currency
  BY PaidItems
<1>6. \A e \in eids : \E x \in X : e = x.id
  BY <1>1 DEF Ids
<1>7. \A t \in pids : \E y \in Y : t = y.id
  BY <1>1 DEF Ids
<1>8. \A x \in X : x.id \in eids
  BY <1>1 DEF Ids
<1>9. \A y \in Y : y.id \in pids
  BY <1>1 DEF Ids
<1>10. eids # {} /\ pids # {}
  BY <1>2, <1>8, <1>9
<1>11. /\ eids \subseteq EvidenceIds /\ eids \cap ReservedEvidence = {}
       /\ \A e \in eids : Evidence(e).unit
  BY <1>4, <1>6
<1>12. pids \subseteq DOMAIN transactions /\ pids \cap ReservedPayments = {}
  BY <1>5, <1>7
<1>13. PICK x0 \in X, y0 \in Y : TRUE
  BY <1>2
<1>14. PICK currency : currency = y0.currency
  OBVIOUS
<1>15. \A x \in X : x.currency = currency
  BY <1>2, <1>13, <1>14 DEF OneCurrency
<1>16. \A y \in Y : y.currency = currency
  BY <1>2, <1>13, <1>15 DEF OneCurrency
<1>17. Currencies(eids, pids) = {currency}
  <2>1. \A e \in eids : Evidence(e).currency = currency
    BY <1>4, <1>6, <1>15
  <2>2. \A t \in pids : transactions[t].currency = currency
    BY <1>5, <1>7, <1>16
  <2> QED
    BY <1>10, <2>1, <2>2 DEF Currencies
<1>18. Cardinality(Currencies(eids, pids)) = 1 /\ Unknown \notin Currencies(eids, pids)
  <2>1. Cardinality(Currencies(eids, pids)) = 1
    BY <1>17, FS_Singleton
  <2>2. y0.id \in DOMAIN transactions /\ transactions[y0.id].currency = currency
    BY <1>5, <1>13, <1>14
  <2>3. currency # Unknown
    BY <2>2 DEF PaymentsReadable
  <2> QED
    BY <1>17, <2>1, <2>3
<1>19. /\ \A e \in eids : Sided(sign, Evidence(e).amount) /\ Evidence(e).amount \in Int
       /\ \A t \in pids : Opposed(sign, transactions[t].amount) /\ transactions[t].amount \in Int
  BY <1>3, <1>4, <1>5, <1>6, <1>7 DEF AreItems
<1>20. \/ \A v \in Values(eids, pids) : v > 0
       \/ \A v \in Values(eids, pids) : v < 0
  <2>1. CASE sign = 1
    <3>1. \A e \in eids : Evidence(e).amount > 0
      BY <1>19, <2>1 DEF Sided, Opposed
    <3>2. \A t \in pids : -transactions[t].amount > 0
      BY <1>19, <2>1 DEF Sided, Opposed
    <3> QED
      BY <3>1, <3>2 DEF Values
  <2>2. CASE sign = -1
    <3>1. \A e \in eids : Evidence(e).amount < 0
      BY <1>19, <2>2 DEF Sided, Opposed
    <3>2. \A t \in pids : -transactions[t].amount < 0
      BY <1>19, <2>2 DEF Sided, Opposed
    <3> QED
      BY <3>1, <3>2 DEF Values
  <2> QED
    BY <2>1, <2>2
<1>21. SelectionIsValid(eids, pids)
  BY <1>10, <1>11, <1>12, <1>18, <1>20 DEF SelectionIsValid
<1>22. PICK f, g : /\ f = [e \in eids |-> Evidence(e).amount]
                   /\ g = [t \in pids |-> transactions[t].amount]
  OBVIOUS
<1>23. Residual(eids, pids) = SumFunction(f) + SumFunction(g)
  BY <1>22 DEF Residual
<1>24. DOMAIN f = Ids(X) /\ \A x \in X : f[x.id] = x.amount
  BY <1>1, <1>4, <1>8, <1>22
<1>25. DOMAIN g = Ids(Y) /\ \A y \in Y : g[y.id] = y.amount
  BY <1>1, <1>5, <1>9, <1>22
<1>26. sign * (SizeOf(X) - SizeOf(Y)) = Residual(eids, pids)
  <2>1. CASE sign = 1
    <3>1. (\A x \in X : x.amount > 0) /\ (\A y \in Y : y.amount < 0)
      BY <1>4, <1>5, <2>1 DEF Sided, Opposed
    <3>2. SizeOf(X) = SumFunction(f) /\ SumFunction(f) \in Int
      BY <1>3, <1>24, <3>1, SignedSizes
    <3>3. SizeOf(Y) = -SumFunction(g) /\ SumFunction(g) \in Int
      BY <1>3, <1>25, <3>1, SignedSizes
    <3> QED
      BY <1>23, <2>1, <3>2, <3>3
  <2>2. CASE sign = -1
    <3>1. (\A x \in X : x.amount < 0) /\ (\A y \in Y : y.amount > 0)
      BY <1>4, <1>5, <2>2 DEF Sided, Opposed
    <3>2. SizeOf(X) = -SumFunction(f) /\ SumFunction(f) \in Int
      BY <1>3, <1>24, <3>1, SignedSizes
    <3>3. SizeOf(Y) = SumFunction(g) /\ SumFunction(g) \in Int
      BY <1>3, <1>25, <3>1, SignedSizes
    <3> QED
      BY <1>23, <2>2, <3>2, <3>3
  <2> QED
    BY <2>1, <2>2
<1> QED
  BY <1>1, <1>11, <1>12, <1>21, <1>26 DEF CanConfirm, Free

\* The two sides share no open item.
LEMMA SidesApart ==
    ASSUME TypeOK, EvidenceInv
    PROVE  /\ Ids(OpenSide(1)) \cap Ids(OpenSide(-1)) = {}
           /\ Ids(PaidSide(1)) \cap Ids(PaidSide(-1)) = {}
           /\ Ids(OpenSide(1)) \cup Ids(OpenSide(-1)) = Ids(OpenEvidence)
<1>0. 1 \in {-1, 1} /\ -1 \in {-1, 1}
  OBVIOUS
<1>1. \A e \in EvidenceIds : Evidence(e).amount \in Int
  <2>1. ASSUME NEW i \in EvidenceIds PROVE Evidence(i) \in evidence
    <3>1. \E e \in evidence : e.id = i
      BY DEF EvidenceIds, Ids
    <3> QED
      BY <3>1 DEF Evidence
  <2> QED
    BY <2>1 DEF EvidenceInv
<1>2. ASSUME NEW i \in Ids(OpenSide(1)) PROVE i \in EvidenceIds /\ Evidence(i).amount > 0
  <2>1. PICK x \in OpenSide(1) : i = x.id
    BY DEF Ids
  <2>2. Sided(1, x.amount) /\ x.id \in EvidenceIds /\ Evidence(x.id).amount = x.amount
    BY <1>0, OpenItems
  <2> QED
    BY <2>1, <2>2 DEF Sided, Opposed
<1>3. ASSUME NEW i \in Ids(OpenSide(-1)) PROVE i \in EvidenceIds /\ Evidence(i).amount < 0
  <2>1. PICK x \in OpenSide(-1) : i = x.id
    BY DEF Ids
  <2>2. Sided(-1, x.amount) /\ x.id \in EvidenceIds /\ Evidence(x.id).amount = x.amount
    BY <1>0, OpenItems
  <2> QED
    BY <2>1, <2>2 DEF Sided, Opposed
<1>4. ASSUME NEW t \in Ids(PaidSide(1))
      PROVE  transactions[t].amount < 0 /\ transactions[t].amount \in Int
  <2>1. PICK y \in PaidSide(1) : t = y.id
    BY DEF Ids
  <2>2. Opposed(1, y.amount) /\ transactions[y.id].amount = y.amount /\ y.amount \in Int
    BY <1>0, PaidItems DEF AreItems
  <2> QED
    BY <2>1, <2>2 DEF Sided, Opposed
<1>5. ASSUME NEW t \in Ids(PaidSide(-1))
      PROVE  transactions[t].amount > 0 /\ transactions[t].amount \in Int
  <2>1. PICK y \in PaidSide(-1) : t = y.id
    BY DEF Ids
  <2>2. Opposed(-1, y.amount) /\ transactions[y.id].amount = y.amount /\ y.amount \in Int
    BY <1>0, PaidItems DEF AreItems
  <2> QED
    BY <2>1, <2>2 DEF Sided, Opposed
<1>6. Ids(OpenSide(1)) \cap Ids(OpenSide(-1)) = {}
  <2>1. ASSUME NEW i \in Ids(OpenSide(1)), i \in Ids(OpenSide(-1)) PROVE FALSE
    <3>1. Evidence(i).amount > 0 /\ Evidence(i).amount \in Int
      BY <1>1, <1>2
    <3>2. Evidence(i).amount < 0
      BY <1>3, <2>1
    <3> QED
      BY <3>1, <3>2
  <2> QED
    BY <2>1
<1>7. Ids(PaidSide(1)) \cap Ids(PaidSide(-1)) = {}
  <2>1. ASSUME NEW t \in Ids(PaidSide(1)), t \in Ids(PaidSide(-1)) PROVE FALSE
    <3>1. transactions[t].amount < 0 /\ transactions[t].amount \in Int
      BY <1>4
    <3>2. transactions[t].amount > 0
      BY <1>5, <2>1
    <3> QED
      BY <3>1, <3>2
  <2> QED
    BY <2>1
<1>8. ASSUME NEW i \in Ids(OpenEvidence) PROVE i \in Ids(OpenSide(1)) \cup Ids(OpenSide(-1))
  <2>1. PICK e \in OpenEvidence : i = e.id
    BY DEF Ids
  <2>2. e.amount \in Int /\ e.amount # 0
    BY DEF OpenEvidence, EvidenceInv
  <2>3. Sided(1, e.amount) \/ Sided(-1, e.amount)
    BY <2>2 DEF Sided, Opposed
  <2>4. CASE Sided(1, e.amount)
    BY <1>0, <2>1, <2>4, OpenItems
  <2>5. CASE Sided(-1, e.amount)
    BY <1>0, <2>1, <2>5, OpenItems
  <2> QED
    BY <2>3, <2>4, <2>5
<1>9. Ids(OpenSide(1)) \subseteq Ids(OpenEvidence) /\ Ids(OpenSide(-1)) \subseteq Ids(OpenEvidence)
  BY <1>0, OpenItems
<1> QED
  BY <1>6, <1>7, <1>8, <1>9

\* The two sides together.
LEMMA ProposalsAreConfirmable ==
    ASSUME TypeOK, EvidenceInv
    PROVE  ProposalsConfirm
<1>1. SUFFICES ASSUME PaymentsReadable, NEW groups, groups = Proposals
      PROVE  /\ \A g \in groups : g.payments # {} =>
                   CanConfirm(g.evidence, g.payments, g.residual)
             /\ \A g, h \in groups : g # h => /\ g.evidence \cap h.evidence = {}
                                              /\ g.payments \cap h.payments = {}
             /\ UNION {g.evidence : g \in groups} = Ids(OpenEvidence)
  BY DEF ProposalsConfirm
<1>2. PICK side : side = [sign \in {-1, 1} |-> Reconcile(OpenSide(sign), PaidSide(sign))]
  OBVIOUS
<1>3. ASSUME NEW sign \in {-1, 1} PROVE Offer(side[sign], OpenSide(sign), PaidSide(sign))
  <2>1. AreItems(OpenSide(sign)) /\ AreItems(PaidSide(sign))
    BY OpenItems, PaidItems
  <2>2. Offer(Reconcile(OpenSide(sign), PaidSide(sign)), OpenSide(sign), PaidSide(sign))
    BY <2>1, ReconcileOffers
  <2> QED
    BY <1>2, <2>2
<1>4. \A g : g \in groups <=> \E sign \in {-1, 1} : \E h \in side[sign] : g = Offered(sign, h)
  BY <1>1, <1>2, ProposalsAre
<1>5. ASSUME NEW sign \in {-1, 1}, NEW h \in side[sign]
      PROVE  \E X \in SUBSET OpenSide(sign), Y \in SUBSET PaidSide(sign) :
                /\ Settles(h, X, Y)
                /\ h.evidence = Ids(X) /\ h.payments = Ids(Y)
                /\ Offered(sign, h).evidence = Ids(X)
                /\ Offered(sign, h).payments = Ids(Y)
                /\ Offered(sign, h).residual = sign * (SizeOf(X) - SizeOf(Y))
  <2>1. PICK X \in SUBSET OpenSide(sign), Y \in SUBSET PaidSide(sign) : Settles(h, X, Y)
    BY <1>3 DEF Offer
  <2>2. h.evidence = Ids(X) /\ h.payments = Ids(Y)
    BY <2>1 DEF Settles, Group
  <2>3. /\ Offered(sign, h).evidence = Ids(X)
        /\ Offered(sign, h).payments = Ids(Y)
        /\ Offered(sign, h).residual = sign * (SizeOf(X) - SizeOf(Y))
    BY <2>1, OfferedIs
  <2> QED
    BY <2>1, <2>2, <2>3
<1>6. ASSUME NEW sign \in {-1, 1}, NEW h \in side[sign]
      PROVE  /\ Offered(sign, h).evidence = h.evidence
             /\ Offered(sign, h).payments = h.payments
             /\ h.evidence \subseteq Ids(OpenSide(sign))
             /\ h.payments \subseteq Ids(PaidSide(sign))
  <2>1. PICK X \in SUBSET OpenSide(sign), Y \in SUBSET PaidSide(sign) :
                /\ h.evidence = Ids(X) /\ h.payments = Ids(Y)
                /\ Offered(sign, h).evidence = Ids(X)
                /\ Offered(sign, h).payments = Ids(Y)
    BY <1>5
  <2>2. Ids(X) \subseteq Ids(OpenSide(sign)) /\ Ids(Y) \subseteq Ids(PaidSide(sign))
    BY DEF Ids
  <2> QED
    BY <2>1, <2>2
<1>7. ASSUME NEW g \in groups, g.payments # {}
      PROVE  CanConfirm(g.evidence, g.payments, g.residual)
  <2>1. PICK sign \in {-1, 1} : \E h \in side[sign] : g = Offered(sign, h)
    BY <1>4
  <2>2. PICK h \in side[sign] : g = Offered(sign, h)
    BY <2>1
  <2>3. PICK X \in SUBSET OpenSide(sign), Y \in SUBSET PaidSide(sign) :
                /\ Settles(h, X, Y)
                /\ g.evidence = Ids(X)
                /\ g.payments = Ids(Y)
                /\ g.residual = sign * (SizeOf(X) - SizeOf(Y))
    BY <1>5, <2>2
  <2>4. Y # {}
    BY <1>7, <2>3 DEF Ids
  <2>5. X \subseteq OpenSide(sign) /\ Y \subseteq PaidSide(sign)
    BY <2>3
  <2>6. CanConfirm(Ids(X), Ids(Y), sign * (SizeOf(X) - SizeOf(Y)))
    BY <1>1, <2>3, <2>4, <2>5, OfferedConfirms
  <2> QED
    BY <2>3, <2>6
<1>8. ASSUME NEW g \in groups, NEW h \in groups, g # h
      PROVE  g.evidence \cap h.evidence = {} /\ g.payments \cap h.payments = {}
  <2>1. PICK s \in {-1, 1} : \E a \in side[s] : g = Offered(s, a)
    BY <1>4
  <2>2. PICK a \in side[s] : g = Offered(s, a)
    BY <2>1
  <2>3. PICK r \in {-1, 1} : \E b \in side[r] : h = Offered(r, b)
    BY <1>4
  <2>4. PICK b \in side[r] : h = Offered(r, b)
    BY <2>3
  <2>5. /\ g.evidence = a.evidence /\ g.payments = a.payments
        /\ a.evidence \subseteq Ids(OpenSide(s)) /\ a.payments \subseteq Ids(PaidSide(s))
    BY <1>6, <2>2
  <2>6. /\ h.evidence = b.evidence /\ h.payments = b.payments
        /\ b.evidence \subseteq Ids(OpenSide(r)) /\ b.payments \subseteq Ids(PaidSide(r))
    BY <1>6, <2>4
  <2>7. CASE s = r
    <3>1. a # b
      BY <1>8, <2>2, <2>4, <2>7
    <3>2. a.evidence \cap b.evidence = {} /\ a.payments \cap b.payments = {}
      BY <1>3, <2>7, <3>1 DEF Offer
    <3> QED
      BY <2>5, <2>6, <3>2
  <2>8. CASE s # r
    <3>1. (s = 1 /\ r = -1) \/ (s = -1 /\ r = 1)
      BY <2>8
    <3>2. /\ Ids(OpenSide(s)) \cap Ids(OpenSide(r)) = {}
          /\ Ids(PaidSide(s)) \cap Ids(PaidSide(r)) = {}
      BY <3>1, SidesApart
    <3> QED
      BY <2>5, <2>6, <3>2
  <2> QED
    BY <2>7, <2>8
<1>9. UNION {g.evidence : g \in groups} = Ids(OpenEvidence)
  <2>1. ASSUME NEW g \in groups PROVE g.evidence \subseteq Ids(OpenEvidence)
    <3>1. PICK s \in {-1, 1} : \E a \in side[s] : g = Offered(s, a)
      BY <1>4
    <3>2. PICK a \in side[s] : g = Offered(s, a)
      BY <3>1
    <3>3. g.evidence \subseteq Ids(OpenSide(s))
      BY <1>6, <3>2
    <3> QED
      BY <3>3, OpenItems
  <2>2. ASSUME NEW i \in Ids(OpenEvidence) PROVE \E g \in groups : i \in g.evidence
    <3>1. PICK s \in {-1, 1} : i \in Ids(OpenSide(s))
      BY SidesApart
    <3>2. PICK a \in side[s] : i \in a.evidence
      BY <1>3, <3>1 DEF Offer
    <3>3. PICK g : g = Offered(s, a)
      OBVIOUS
    <3>4. g \in groups /\ g.evidence = a.evidence
      BY <1>4, <1>6, <3>3
    <3> QED
      BY <3>2, <3>4
  <2> QED
    BY <2>1, <2>2
<1> QED
  BY <1>7, <1>8, <1>9

\* Whatever evidence, payments and allocations there are, everything the matcher
\* offers can be confirmed as it is offered, nothing is offered twice, and every
\* open unit of evidence is offered.
THEOREM BooksProposalsConfirm == Spec => []ProposalsConfirm
<1>1. Init => EvidenceInv
  BY FS_EmptySet DEF Init, EvidenceInv, OneEvidencePerId
<1>2. EvidenceInv /\ [Next]_vars => EvidenceInv'
  BY EvidenceStep
<1>3. TypeOK /\ EvidenceInv => ProposalsConfirm
  BY ProposalsAreConfirmable
<1> QED
  BY <1>1, <1>2, <1>3, BooksTypeCorrect, PTL DEF Spec
=============================================================================
