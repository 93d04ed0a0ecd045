---------------------------- MODULE LegacyProofs ----------------------------
(***************************************************************************)
(* Proofs about the workspace of CSV files and its full backup, for any    *)
(* processes, workbooks, sheets, months and any number of commands and     *)
(* attempts.                                                               *)
(***************************************************************************)
EXTENDS LegacyBackup, WellFoundedInduction, TLAPS

(***************************************************************************)
(* The invariant of the workspace speaks of what a command has read some   *)
(* time ago next to what the files and the history variable say now.  It   *)
(* is stated of a disk D and a set L of lost facts that are parameters, so *)
(* that one lemma says that a file that is put in place spoils none of it. *)
(***************************************************************************)

Held(D, f) == IF f \in DOMAIN D THEN D[f] ELSE Empty
KnownIn(D, L, r) == r \in DOMAIN Held(D, PartitionOf(r)) \/ \E fact \in L : fact[2] = r
SaidIn(D, L, s, id) == <<"record", s, id>> \in L \cup Says(History, Held(D, History))
BookIn(D, s) == IF s \in Workbooks THEN s ELSE D[s]
BooksIn(D, L, s) == {BookIn(D, s)} \cup {w \in Workbooks : <<"copy", s, w>> \in L}
SourcesIn(D) == Workbooks \cup (DOMAIN D \ Tables)
\* The row r is of a workbook that was imported under this id.
OriginIn(D, L, r, id) ==
    \E s \in SourcesIn(D) : SaidIn(D, L, s, id) /\ \E w \in BooksIn(D, L, s) : r \in RowsOf[w]

Columns(x) == [file_id |-> x.file_id, manual |-> x.manual, tagged |-> x.tagged, group |-> x.group]
IsPartition(f, c) ==
    /\ c = [r \in DOMAIN c |-> Columns(c[r])]
    /\ \A r \in DOMAIN c : r \in Rows /\ PartitionOf(r) = f
IsHistory(c) == c = [s \in DOMAIN c |-> Record(c[s].id, c[s].archived)]
IsTable(f, c) == (f = History => IsHistory(c)) /\ (f \in AllPartitions => IsPartition(f, c))

\* What a table holds, or held when a command read it.
Sound(D, L, f, c) ==
    /\ IsTable(f, c)
    /\ f \in AllPartitions =>
          \A r \in DOMAIN c : KnownIn(D, L, r) /\ OriginIn(D, L, r, c[r].file_id)

DiskInv(D, L) ==
    /\ D = [f \in DOMAIN D |-> D[f]]
    /\ \A f \in DOMAIN D : f \in Tables => Sound(D, L, f, D[f])
    /\ \A f \in DOMAIN D \ Tables : D[f] \in Workbooks

SeenInv(D, L, q) ==
    /\ q.seen = [f \in DOMAIN q.seen |-> q.seen[f]]
    /\ \A f \in DOMAIN q.seen : f \in Tables /\ Sound(D, L, f, q.seen[f])

Ingesting(at, source, archive, rows, sheets, id, month, seen, todo) ==
    [op |-> "ingest", at |-> at, source |-> source, archive |-> archive, rows |-> rows,
     sheets |-> sheets, id |-> id, month |-> month, seen |-> seen, todo |-> todo]
IngestShape(q) ==
    Ingesting(q.at, q.source, q.archive, q.rows, q.sheets, q.id, q.month, q.seen, q.todo)
\* A row of the workbook is still to be looked for, or is known.
RowInv(D, L, q, r) ==
    /\ r \in Rows
    /\ \E w \in BooksIn(D, L, q.source) : r \in RowsOf[w]
    /\ \/ PartitionOf(r) \in q.todo
       \/ q.at = "merge" /\ PartitionOf(r) = q.month
       \/ KnownIn(D, L, r)
IngestInv(D, L, q) ==
    /\ q = IngestShape(q)
    /\ q.at \in {"record", "archive", "reload", "rerecord", "months", "merge"}
    /\ q.source \in SourcesIn(D)
    /\ q.archive => q.source \in Workbooks
    /\ q.at = "archive" => q.archive
    /\ SeenInv(D, L, q) /\ History \in DOMAIN q.seen
    /\ q.todo \subseteq AllPartitions
    /\ q.at = "merge" => q.month \in AllPartitions /\ q.month \in DOMAIN q.seen
    /\ q.at # "record" => SaidIn(D, L, q.source, q.id)
    /\ \A r \in q.rows : RowInv(D, L, q, r)

Rewriting(op, at, seen, todo) == [op |-> op, at |-> at, seen |-> seen, todo |-> todo]
Editing(at, seen, todo, row, tag) ==
    [op |-> "edit", at |-> at, seen |-> seen, todo |-> todo, row |-> row, tag |-> tag]
BulkShape(q) ==
    IF q.op = "edit" THEN Editing(q.at, q.seen, q.todo, q.row, q.tag)
    ELSE Rewriting(q.op, q.at, q.seen, q.todo)
BulkInv(D, L, q) ==
    /\ q.op \in Bulk
    /\ q = BulkShape(q)
    /\ q.at \in {"read", "write"}
    /\ SeenInv(D, L, q) /\ History \notin DOMAIN q.seen
    /\ q.at = "read" => q.todo # {} /\ q.todo \subseteq AllPartitions
    /\ q.at = "write" => q.todo \subseteq DOMAIN Outcome(q)

CommandInv(D, L, q) == q = Idle \/ IngestInv(D, L, q) \/ BulkInv(D, L, q)

WorkspaceInv ==
    /\ DiskInv(disk, lost)
    /\ proc = [p \in Processes |-> proc[p]]
    /\ \A p \in Processes : CommandInv(disk, lost, proc[p])
    /\ \A i \in ingested : \A r \in i[2] : r \in Rows /\ KnownIn(disk, lost, r)

----------------------------------------------------------------------------
(* Names of files.                                                          *)

LEMMA Distinct ==
    /\ History \notin AllPartitions
    /\ \A id : Archive(id) \notin Tables
    /\ \A r \in Rows : PartitionOf(r) \in AllPartitions
<1>1. \A t, m, x : <<"history">> # <<t, m>> /\ <<"history">> # <<"archive", x>>
  BY SMT
<1>2. \A f \in AllPartitions : \E t \in Named : \E m : f = <<t, m>>
  BY WorkspaceAssumption DEF AllPartitions, PartitionOf, Partition
<1>3. History \notin AllPartitions
  BY <1>1, <1>2 DEF History
<1>4. ASSUME NEW id PROVE Archive(id) \notin Tables
  <2>1. Archive(id) # History
    BY <1>1 DEF Archive, History
  <2>2. \A t \in Named : \A m : <<"archive", id>> # <<t, m>>
    BY WorkspaceAssumption
  <2>. QED
    BY <2>1, <2>2, <1>2 DEF Tables, Archive
<1>5. \A r \in Rows : PartitionOf(r) \in AllPartitions
  BY DEF AllPartitions
<1>. QED
  BY <1>3, <1>4, <1>5

\* There is an earliest month to read as long as one is left.
LEMMA EarliestIsLeft == ASSUME NEW S, S # {}, S \subseteq AllPartitions PROVE Earliest(S) \in S
<1>1. \A f \in S : f[2] \in Nat
  <2>1. \A r \in Rows : MonthOf[r] \in Nat
    BY WorkspaceAssumption, Zenon
  <2>2. \A f \in AllPartitions : \E r \in Rows : f = <<TableOf[r], MonthOf[r]>>
    BY DEF AllPartitions, PartitionOf, Partition
  <2>. QED
    BY <2>1, <2>2
<1> DEFINE M == {f[2] : f \in S}
<1> DEFINE Less == {pair \in Nat \X Nat : pair[1] < pair[2]}
<1>2. \E m \in M : \A n \in M : <<n, m>> \notin Less
  <2>1. M # {} /\ M \subseteq Nat
    BY <1>1
  <2>2. IsWellFoundedOn(Less, Nat)
    BY NatLessThanWellFounded, Zenon DEF OpToRel
  <2> HIDE DEF M, Less
  <2> QED BY <2>1, <2>2, WFMin, Zenon
<1>3. PICK f \in S : \A g \in S : <<g[2], f[2]>> \notin Less
  BY <1>2
<1>4. \A g \in S : f[2] <= g[2]
  <2>. SUFFICES ASSUME NEW g \in S PROVE f[2] <= g[2]
    OBVIOUS
  <2>1. g[2] \in Nat /\ f[2] \in Nat /\ <<g[2], f[2]>> \notin Less
    BY <1>1, <1>3
  <2>. QED
    BY <2>1
<1> QED BY <1>4 DEF Earliest

----------------------------------------------------------------------------
(* What a file that is put in place leaves true.                            *)

LEMMA SaysWhat ==
    ASSUME NEW c
    PROVE  /\ Says(History, c) = {<<"record", s, c[s].id>> : s \in DOMAIN c}
           /\ \A f \in AllPartitions :
                 Says(f, c) = {<<"row", r, c[r].file_id>> : r \in DOMAIN c} \cup
                              UNION {{<<"edit", r, e>> : e \in c[r].manual} : r \in DOMAIN c}
           /\ \A f : f \notin Tables => Says(f, c) = {<<"copy", f, c>>}
BY Distinct, Zenon DEF Says, Tables

Lost(D, L, f, c) == IF f \in DOMAIN D THEN L \cup (Says(f, D[f]) \ Says(f, c)) ELSE L

LEMMA PutHeld ==
    ASSUME NEW D, NEW f, NEW c
    PROVE  /\ Held(With(D, f, c), f) = c
           /\ \A g : g # f => Held(With(D, f, c), g) = Held(D, g)
           /\ DOMAIN With(D, f, c) = DOMAIN D \cup {f}
           /\ With(D, f, c)[f] = c
           /\ \A g \in DOMAIN D : g # f => With(D, f, c)[g] = D[g]
BY DEF With, Held

\* Whether a row is known, what was ever recorded, and which workbooks a source was.
Keeps(D, L, D2, L2) ==
    /\ \A r \in Rows : KnownIn(D, L, r) => KnownIn(D2, L2, r)
    /\ \A s, id : SaidIn(D, L, s, id) => SaidIn(D2, L2, s, id)
    /\ SourcesIn(D) \subseteq SourcesIn(D2)
    /\ \A s \in SourcesIn(D) : BooksIn(D, L, s) \subseteq BooksIn(D2, L2, s)

LEMMA PutKeeps ==
    ASSUME NEW D, NEW L, NEW f, NEW c, DiskInv(D, L)
    PROVE  Keeps(D, L, With(D, f, c), Lost(D, L, f, c))
<1> DEFINE D2 == With(D, f, c)
           L2 == Lost(D, L, f, c)
<1>0. /\ Held(D2, f) = c /\ \A g : g # f => Held(D2, g) = Held(D, g)
      /\ DOMAIN D2 = DOMAIN D \cup {f} /\ D2[f] = c
      /\ \A g \in DOMAIN D : g # f => D2[g] = D[g]
  BY DEF With, Held
<1>1. L \subseteq L2
  BY DEF Lost
<1>2. DOMAIN Empty = {}
  BY DEF Empty
<1>7. f \in DOMAIN D => L2 = L \cup (Says(f, D[f]) \ Says(f, c))
  BY DEF Lost
<1>. HIDE DEF D2, L2
<1>3. ASSUME NEW r \in Rows, KnownIn(D, L, r) PROVE KnownIn(D2, L2, r)
  <2>1. CASE PartitionOf(r) # f \/ \E fact \in L : fact[2] = r
    BY <2>1, <1>1, <1>3, <1>0 DEF KnownIn
  <2>2. CASE PartitionOf(r) = f /\ r \in DOMAIN Held(D, f)
    <3>1. f \in AllPartitions /\ f \in DOMAIN D /\ r \in DOMAIN D[f]
      BY <2>2, <1>2, Distinct DEF Held
    <3>2. CASE r \in DOMAIN c
      BY <3>2, <2>2, <1>0 DEF KnownIn
    <3>3. CASE r \notin DOMAIN c
      <4>1. <<"row", r, D[f][r].file_id>> \in Says(f, D[f])
        BY <3>1, SaysWhat
      <4>2. <<"row", r, D[f][r].file_id>> \notin Says(f, c)
        BY <3>1, <3>3, SaysWhat
      <4>3. <<"row", r, D[f][r].file_id>> \in L2
        BY <4>1, <4>2, <3>1, <1>7
      <4>. QED
        BY <4>3 DEF KnownIn
    <3>. QED
      BY <3>2, <3>3
  <2>. QED
    BY <2>1, <2>2, <1>3 DEF KnownIn
<1>4. ASSUME NEW s, NEW id, SaidIn(D, L, s, id) PROVE SaidIn(D2, L2, s, id)
  <2>1. CASE History # f
    BY <2>1, <1>1, <1>4, <1>0 DEF SaidIn
  <2>2. CASE History = f /\ <<"record", s, id>> \notin L
    <3>1. <<"record", s, id>> \in Says(History, Held(D, f)) /\ Held(D2, f) = c
      BY <2>2, <1>4, <1>0 DEF SaidIn
    <3>2. f \in DOMAIN D /\ Held(D, f) = D[f]
      BY <3>1, <1>2, SaysWhat DEF Held
    <3>. QED
      BY <2>2, <3>1, <3>2, <1>7 DEF SaidIn
  <2>. QED
    BY <2>1, <2>2, <1>1 DEF SaidIn
<1>5. SourcesIn(D) \subseteq SourcesIn(D2)
  BY <1>0 DEF SourcesIn
<1>6. ASSUME NEW s \in SourcesIn(D), NEW w \in BooksIn(D, L, s) PROVE w \in BooksIn(D2, L2, s)
  <2>1. CASE s \in Workbooks
    BY <2>1, <1>1 DEF BooksIn, BookIn
  <2>2. CASE s \notin Workbooks
    <3>1. s \in DOMAIN D /\ s \notin Tables /\ D[s] \in Workbooks
      BY <2>2 DEF SourcesIn, DiskInv
    <3>2. CASE w = D[s] /\ f = s
      <4>1. CASE c = D[s]
        BY <4>1, <3>2, <2>2, <1>0 DEF BooksIn, BookIn
      <4>2. CASE c # D[s]
        <5>1. <<"copy", s, w>> \in Says(s, D[s]) /\ <<"copy", s, w>> \notin Says(s, c)
          <6>1. Says(s, D[s]) = {<<"copy", s, D[s]>>} /\ Says(s, c) = {<<"copy", s, c>>}
            BY <3>1, SaysWhat
          <6>. QED
            BY <6>1, <3>2, <4>2
        <5>. QED
          BY <5>1, <3>1, <3>2, <1>7 DEF BooksIn
      <4>. QED
        BY <4>1, <4>2
    <3>3. CASE w = D[s] /\ f # s
      BY <3>1, <3>3, <2>2, <1>0 DEF BooksIn, BookIn
    <3>4. CASE w # D[s]
      BY <3>4, <2>2, <1>1 DEF BooksIn, BookIn
    <3>. QED
      BY <3>2, <3>3, <3>4
  <2>. QED
    BY <2>1, <2>2
<1>. QED
  BY <1>3, <1>4, <1>5, <1>6 DEF Keeps, D2, L2

LEMMA SoundKept ==
    ASSUME NEW D, NEW L, NEW D2, NEW L2, Keeps(D, L, D2, L2), NEW f, NEW c, Sound(D, L, f, c)
    PROVE  Sound(D2, L2, f, c)
<1>1. ASSUME NEW r, NEW id, OriginIn(D, L, r, id) PROVE OriginIn(D2, L2, r, id)
  BY <1>1 DEF OriginIn, Keeps
<1>2. ASSUME f \in AllPartitions, NEW r \in DOMAIN c PROVE r \in Rows
  BY <1>2 DEF Sound, IsTable, IsPartition
<1>. QED
  BY <1>1, <1>2 DEF Sound, Keeps

LEMMA SeenKept ==
    ASSUME NEW D, NEW L, NEW D2, NEW L2, Keeps(D, L, D2, L2), NEW q, SeenInv(D, L, q)
    PROVE  SeenInv(D2, L2, q)
BY SoundKept DEF SeenInv

LEMMA CommandKept ==
    ASSUME NEW D, NEW L, NEW D2, NEW L2, Keeps(D, L, D2, L2), NEW q, CommandInv(D, L, q)
    PROVE  CommandInv(D2, L2, q)
<1>1. CASE IngestInv(D, L, q)
  <2>1. SeenInv(D2, L2, q)
    BY <1>1, SeenKept DEF IngestInv
  <2>2. q.source \in SourcesIn(D2) /\ BooksIn(D, L, q.source) \subseteq BooksIn(D2, L2, q.source)
    BY <1>1 DEF IngestInv, Keeps
  <2>3. \A r \in q.rows : RowInv(D2, L2, q, r)
    BY <1>1, <2>2 DEF IngestInv, RowInv, Keeps
  <2>. QED
    BY <1>1, <2>1, <2>2, <2>3 DEF IngestInv, CommandInv, Keeps
<1>2. CASE BulkInv(D, L, q)
  <2>1. SeenInv(D2, L2, q)
    BY <1>2, SeenKept DEF BulkInv
  <2>. QED
    BY <1>2, <2>1 DEF BulkInv, CommandInv
<1>. QED
  BY <1>1, <1>2 DEF CommandInv

----------------------------------------------------------------------------
(* The steps of an ingest, as functions of the disk and of what the command *)
(* has read.                                                                *)

\* A file may be put in place by a command that is at q.
MayPut(D, L, q, f, c) ==
    IF f \in Tables
    THEN /\ f \in DOMAIN q.seen /\ Says(f, q.seen[f]) \subseteq Says(f, c)
         /\ Sound(With(D, f, c), Lost(D, L, f, c), f, c)
    ELSE c \in Workbooks

LEMMA HeldSound ==
    ASSUME NEW D, NEW L, DiskInv(D, L), NEW f \in Tables
    PROVE  Sound(D, L, f, Held(D, f))
<1>1. CASE f \in DOMAIN D
  BY <1>1 DEF Held, DiskInv
<1>2. CASE f \notin DOMAIN D
  BY <1>2 DEF Held, Empty, Sound, IsTable, IsHistory, IsPartition
<1>. QED
  BY <1>1, <1>2

LEMMA IngestKept ==
    ASSUME NEW D, NEW L, NEW q, IngestInv(D, L, q), NEW D2, NEW L2, Keeps(D, L, D2, L2)
    PROVE  IngestInv(D2, L2, q)
<1>1. q.op = "ingest"
  BY DEF IngestInv, IngestShape, Ingesting
<1>2. CommandInv(D2, L2, q)
  BY CommandKept DEF CommandInv
<1>. QED
  BY <1>1, <1>2 DEF CommandInv, Idle, BulkInv, Bulk

\* A record that is there keeps its id.
LEMMA RecordedKeeps ==
    ASSUME NEW h, IsHistory(h), NEW s, NEW a
    PROVE  /\ IsHistory(Recorded(h, s, a))
           /\ s \in DOMAIN Recorded(h, s, a)
           /\ Says(History, h) \subseteq Says(History, Recorded(h, s, a))
<1> DEFINE h2 == Recorded(h, s, a)
<1>1. /\ IsHistory(h2) /\ s \in DOMAIN h2 /\ DOMAIN h \subseteq DOMAIN h2
      /\ \A x \in DOMAIN h : h2[x].id = h[x].id
  <2>1. CASE s \in DOMAIN h
    <3>1. h2 = [x \in DOMAIN h |-> IF x = s THEN [h[x] EXCEPT !.archived = @ \/ a] ELSE h[x]]
      BY <2>1, Zenon DEF Recorded, IsHistory
    <3>2. \A x \in DOMAIN h : h[x] = [id |-> h[x].id, archived |-> h[x].archived]
      BY DEF IsHistory, Record
    <3>3. \A x \in DOMAIN h : [h[x] EXCEPT !.archived = @ \/ a]
                              = [id |-> h[x].id, archived |-> h[x].archived \/ a]
      BY <3>2
    <3>. QED
      BY <3>1, <3>2, <3>3, <2>1 DEF IsHistory, Record
  <2>2. CASE s \notin DOMAIN h
    <3>1. h2 = [x \in DOMAIN h \cup {s} |-> IF x = s THEN Record(FileId(s, Ids(h)), a) ELSE h[x]]
      BY <2>2, Zenon DEF Recorded, With
    <3>. QED
      BY <3>1, <2>2 DEF IsHistory, Record
  <2>. QED
    BY <2>1, <2>2
<1> HIDE DEF h2
<1>2. /\ Says(History, h) = {<<"record", x, h[x].id>> : x \in DOMAIN h}
      /\ Says(History, h2) = {<<"record", x, h2[x].id>> : x \in DOMAIN h2}
  BY SaysWhat
<1>3. Says(History, h) \subseteq Says(History, h2)
  BY <1>1, <1>2
<1>. QED
  BY <1>1, <1>3 DEF h2

LEMMA RecordMayPut ==
    ASSUME NEW D, NEW L, NEW q, DiskInv(D, L), IngestInv(D, L, q), NEW a
    PROVE  MayPut(D, L, q, History, Recorded(q.seen[History], q.source, a))
<1>1. History \in Tables /\ History \in DOMAIN q.seen /\ IsHistory(q.seen[History])
  BY DEF Tables, IngestInv, SeenInv, Sound, IsTable
<1>2. /\ IsHistory(Recorded(q.seen[History], q.source, a))
      /\ Says(History, q.seen[History]) \subseteq Says(History, Recorded(q.seen[History], q.source, a))
  BY <1>1, RecordedKeeps
<1>. QED
  BY <1>1, <1>2, Distinct DEF MayPut, Sound, IsTable

\* The id that a history has for a source is said.
LEMMA SaysRecord ==
    ASSUME NEW h, NEW s \in DOMAIN h
    PROVE  <<"record", s, h[s].id>> \in Says(History, h)
BY SaysWhat

\* An ingest with some of its fields changed.
StepTo(q, at) == [q EXCEPT !.at = at]
GivenId(q, id, at) == [q EXCEPT !.id = id, !.at = at]
SeeingNow(q, seen, at) == [q EXCEPT !.seen = seen, !.at = at]
OnSheet(q, rows, sheets, todo) == [q EXCEPT !.rows = rows, !.sheets = sheets, !.todo = todo]
InMonth(q, seen, at, todo, month) == [q EXCEPT !.seen = seen, !.at = at, !.todo = todo, !.month = month]

LEMMA StepToIs ==
    ASSUME NEW q, q = IngestShape(q), NEW at
    PROVE  StepTo(q, at) =
               Ingesting(at, q.source, q.archive, q.rows, q.sheets, q.id, q.month, q.seen, q.todo)
<1>. DEFINE Changes ==
                [op : {"ingest"}, at : {q.at, at}, source : {q.source}, archive : {q.archive},
                 rows : {q.rows}, sheets : {q.sheets}, id : {q.id},
                 month : {q.month}, seen : {q.seen}, todo : {q.todo}]
            q2 == StepTo(q, at)
<1>1. q \in Changes
  BY DEF IngestShape, Ingesting
<1>2. q2 \in Changes
  BY <1>1 DEF StepTo
<1>3. q2.at = at
  BY <1>1 DEF StepTo
<1>. HIDE DEF q2
<1>4. q2 = Ingesting(at, q.source, q.archive, q.rows, q.sheets, q.id, q.month, q.seen, q.todo)
  BY <1>2, <1>3 DEF Ingesting
<1>. QED
  BY <1>4 DEF q2

LEMMA GivenIdIs ==
    ASSUME NEW q, q = IngestShape(q), NEW id, NEW at
    PROVE  GivenId(q, id, at) =
               Ingesting(at, q.source, q.archive, q.rows, q.sheets, id, q.month, q.seen, q.todo)
<1>. DEFINE Changes ==
                [op : {"ingest"}, at : {q.at, at}, source : {q.source}, archive : {q.archive},
                 rows : {q.rows}, sheets : {q.sheets}, id : {q.id, id},
                 month : {q.month}, seen : {q.seen}, todo : {q.todo}]
            q2 == GivenId(q, id, at)
<1>1. q \in Changes
  BY DEF IngestShape, Ingesting
<1>2. q2 \in Changes
  BY <1>1 DEF GivenId
<1>3. q2.id = id /\ q2.at = at
  BY <1>1 DEF GivenId
<1>. HIDE DEF q2
<1>4. q2 = Ingesting(at, q.source, q.archive, q.rows, q.sheets, id, q.month, q.seen, q.todo)
  BY <1>2, <1>3 DEF Ingesting
<1>. QED
  BY <1>4 DEF q2

LEMMA SeeingNowIs ==
    ASSUME NEW q, q = IngestShape(q), NEW seen, NEW at
    PROVE  SeeingNow(q, seen, at) =
               Ingesting(at, q.source, q.archive, q.rows, q.sheets, q.id, q.month, seen, q.todo)
<1>. DEFINE Changes ==
                [op : {"ingest"}, at : {q.at, at}, source : {q.source}, archive : {q.archive},
                 rows : {q.rows}, sheets : {q.sheets}, id : {q.id},
                 month : {q.month}, seen : {q.seen, seen}, todo : {q.todo}]
            q2 == SeeingNow(q, seen, at)
<1>1. q \in Changes
  BY DEF IngestShape, Ingesting
<1>2. q2 \in Changes
  BY <1>1 DEF SeeingNow
<1>3. q2.seen = seen /\ q2.at = at
  BY <1>1 DEF SeeingNow
<1>. HIDE DEF q2
<1>4. q2 = Ingesting(at, q.source, q.archive, q.rows, q.sheets, q.id, q.month, seen, q.todo)
  BY <1>2, <1>3 DEF Ingesting
<1>. QED
  BY <1>4 DEF q2

LEMMA OnSheetIs ==
    ASSUME NEW q, q = IngestShape(q), NEW rows, NEW sheets, NEW todo
    PROVE  OnSheet(q, rows, sheets, todo) =
               Ingesting(q.at, q.source, q.archive, rows, sheets, q.id, q.month, q.seen, todo)
<1>. DEFINE Changes ==
                [op : {"ingest"}, at : {q.at}, source : {q.source}, archive : {q.archive},
                 rows : {q.rows, rows}, sheets : {q.sheets, sheets}, id : {q.id},
                 month : {q.month}, seen : {q.seen}, todo : {q.todo, todo}]
            q2 == OnSheet(q, rows, sheets, todo)
<1>1. q \in Changes
  BY DEF IngestShape, Ingesting
<1>2. q2 \in Changes
  BY <1>1 DEF OnSheet
<1>3. q2.rows = rows /\ q2.sheets = sheets /\ q2.todo = todo
  BY <1>1 DEF OnSheet
<1>. HIDE DEF q2
<1>4. q2 = Ingesting(q.at, q.source, q.archive, rows, sheets, q.id, q.month, q.seen, todo)
  BY <1>2, <1>3 DEF Ingesting
<1>. QED
  BY <1>4 DEF q2

LEMMA InMonthIs ==
    ASSUME NEW q, q = IngestShape(q), NEW seen, NEW at, NEW todo, NEW month
    PROVE  InMonth(q, seen, at, todo, month) =
               Ingesting(at, q.source, q.archive, q.rows, q.sheets, q.id, month, seen, todo)
<1>. DEFINE Changes ==
                [op : {"ingest"}, at : {q.at, at}, source : {q.source}, archive : {q.archive},
                 rows : {q.rows}, sheets : {q.sheets}, id : {q.id},
                 month : {q.month, month}, seen : {q.seen, seen}, todo : {q.todo, todo}]
            q2 == InMonth(q, seen, at, todo, month)
<1>1. q \in Changes
  BY DEF IngestShape, Ingesting
<1>2. q2 \in Changes
  BY <1>1 DEF InMonth
<1>3. q2.seen = seen /\ q2.at = at /\ q2.todo = todo /\ q2.month = month
  BY <1>1 DEF InMonth
<1>. HIDE DEF q2
<1>4. q2 = Ingesting(at, q.source, q.archive, q.rows, q.sheets, q.id, month, seen, todo)
  BY <1>2, <1>3 DEF Ingesting
<1>. QED
  BY <1>4 DEF q2

LEMMA RecordStep ==
    ASSUME NEW D, NEW L, NEW q, DiskInv(D, L), IngestInv(D, L, q), q.at = "record",
           NEW h, h = Recorded(q.seen[History], q.source, FALSE),
           NEW id, id = h[q.source].id, NEW at \in {"archive", "months"}, at = "archive" => q.archive
    PROVE  CommandInv(With(D, History, h), Lost(D, L, History, h),
                      GivenId(q, id, at))
<1> DEFINE D2 == With(D, History, h)
           L2 == Lost(D, L, History, h)
           q2 == GivenId(q, id, at)
<1>1. IngestInv(D2, L2, q)
  BY PutKeeps, IngestKept
<1>2. SaidIn(D2, L2, q.source, h[q.source].id)
  <2>1. q.source \in DOMAIN h
    BY RecordedKeeps DEF IngestInv, SeenInv, Sound, IsTable
  <2>2. <<"record", q.source, h[q.source].id>> \in Says(History, h)
    BY <2>1, SaysRecord, Zenon
  <2>3. Held(D2, History) = h
    BY DEF With, Held
  <2>. QED
    BY <2>2, <2>3 DEF SaidIn
<1> HIDE DEF D2, L2
<1>3. /\ q2 = IngestShape(q2) /\ q2.at = at /\ q2.source = q.source
      /\ q2.archive = q.archive /\ q2.rows = q.rows /\ q2.seen = q.seen /\ q2.todo = q.todo
      /\ q2.id = id
  <2>1. q = IngestShape(q)
    BY DEF IngestInv
  <2>2. q2 = Ingesting(at, q.source, q.archive, q.rows, q.sheets, id, q.month, q.seen, q.todo)
    BY <2>1, GivenIdIs
  <2>. HIDE DEF q2
  <2>. QED
    BY <2>2 DEF IngestShape, Ingesting
<1> HIDE DEF q2
<1>4. SeenInv(D2, L2, q2)
  BY <1>1, <1>3 DEF IngestInv, SeenInv
<1>5. \A r \in q2.rows : RowInv(D2, L2, q2, r)
  BY <1>1, <1>3 DEF IngestInv, RowInv
<1>6. IngestInv(D2, L2, q2)
  BY <1>1, <1>2, <1>3, <1>4, <1>5 DEF IngestInv
<1>. QED
  BY <1>6 DEF CommandInv, D2, L2, q2

LEMMA StepInv ==
    ASSUME NEW D, NEW L, NEW q, IngestInv(D, L, q), q.at # "record", NEW at \in {"reload", "months"},
           \A r \in q.rows : q.at = "merge" /\ PartitionOf(r) = q.month => KnownIn(D, L, r)
    PROVE  IngestInv(D, L, StepTo(q, at))
<1>. DEFINE q2 == StepTo(q, at)
<1>1. /\ q2 = IngestShape(q2) /\ q2.at = at /\ q2.source = q.source /\ q2.archive = q.archive
      /\ q2.rows = q.rows /\ q2.seen = q.seen /\ q2.todo = q.todo /\ q2.id = q.id
  <2>1. q = IngestShape(q)
    BY DEF IngestInv
  <2>2. q2 = Ingesting(at, q.source, q.archive, q.rows, q.sheets, q.id, q.month, q.seen, q.todo)
    BY <2>1, StepToIs
  <2>. HIDE DEF q2
  <2>. QED
    BY <2>2 DEF IngestShape, Ingesting
<1>. HIDE DEF q2
<1>2. SeenInv(D, L, q2)
  BY <1>1 DEF IngestInv, SeenInv
<1>3. \A r \in q2.rows : RowInv(D, L, q2, r)
  BY <1>1 DEF IngestInv, RowInv
<1>4. IngestInv(D, L, q2)
  BY <1>1, <1>2, <1>3 DEF IngestInv
<1>. QED
  BY <1>4 DEF q2

\* archive_source_file.
LEMMA CopyStep ==
    ASSUME NEW D, NEW L, NEW q, DiskInv(D, L), IngestInv(D, L, q), q.at = "archive",
           NEW f, f = Archive(q.id)
    PROVE  /\ MayPut(D, L, q, f, q.source)
           /\ CommandInv(With(D, f, q.source), Lost(D, L, f, q.source), StepTo(q, "reload"))
<1>1. q.source \in Workbooks /\ f \notin Tables
  BY Distinct DEF IngestInv
<1>2. IngestInv(With(D, f, q.source), Lost(D, L, f, q.source), q)
  BY PutKeeps, IngestKept
<1>3. IngestInv(With(D, f, q.source), Lost(D, L, f, q.source), StepTo(q, "reload"))
  BY <1>2, StepInv
<1>. QED
  BY <1>1, <1>3 DEF MayPut, CommandInv

\* The second record_import.
LEMMA RerecordStep ==
    ASSUME NEW D, NEW L, NEW q, DiskInv(D, L), IngestInv(D, L, q), q.at = "rerecord", NEW h
    PROVE  CommandInv(With(D, History, h), Lost(D, L, History, h), StepTo(q, "months"))
<1>1. IngestInv(With(D, History, h), Lost(D, L, History, h), q)
  BY PutKeeps, IngestKept
<1>2. IngestInv(With(D, History, h), Lost(D, L, History, h), StepTo(q, "months"))
  BY <1>1, StepInv
<1>. QED
  BY <1>2 DEF CommandInv

\* What is read is sound.
LEMMA SeenMore ==
    ASSUME NEW D, NEW L, NEW q, DiskInv(D, L), SeenInv(D, L, q), NEW f \in Tables,
           NEW q2, q2.seen = With(q.seen, f, Held(D, f))
    PROVE  /\ SeenInv(D, L, q2)
           /\ DOMAIN q2.seen = DOMAIN q.seen \cup {f}
           /\ q2.seen[f] = Held(D, f)
<1>1. Sound(D, L, f, Held(D, f))
  BY HeldSound
<1>2. /\ DOMAIN q2.seen = DOMAIN q.seen \cup {f}
      /\ q2.seen = [g \in DOMAIN q2.seen |-> q2.seen[g]]
      /\ \A g \in DOMAIN q2.seen : q2.seen[g] = IF g = f THEN Held(D, f) ELSE q.seen[g]
  BY DEF With
<1>. QED
  BY <1>1, <1>2 DEF SeenInv

LEMMA ReloadStep ==
    ASSUME NEW D, NEW L, NEW q, DiskInv(D, L), IngestInv(D, L, q), q.at = "reload",
           NEW seen, seen = With(q.seen, History, Held(D, History))
    PROVE  CommandInv(D, L, SeeingNow(q, seen, "rerecord"))
<1>. DEFINE q2 == SeeingNow(q, seen, "rerecord")
<1>1. /\ q2 = IngestShape(q2) /\ q2.at = "rerecord" /\ q2.source = q.source
      /\ q2.archive = q.archive /\ q2.rows = q.rows /\ q2.seen = seen /\ q2.todo = q.todo
      /\ q2.id = q.id
  <2>1. q = IngestShape(q)
    BY DEF IngestInv
  <2>2. q2 = Ingesting("rerecord", q.source, q.archive, q.rows, q.sheets, q.id, q.month, seen, q.todo)
    BY <2>1, SeeingNowIs
  <2>. HIDE DEF q2
  <2>. QED
    BY <2>2 DEF IngestShape, Ingesting
<1>. HIDE DEF q2
<1>2. SeenInv(D, L, q2) /\ History \in DOMAIN q2.seen
  BY <1>1, SeenMore DEF IngestInv, Tables
<1>3. \A r \in q2.rows : RowInv(D, L, q2, r)
  BY <1>1 DEF IngestInv, RowInv
<1>4. IngestInv(D, L, q2)
  BY <1>1, <1>2, <1>3 DEF IngestInv
<1>. QED
  BY <1>4 DEF CommandInv, q2

\* The rows of a workbook that is there, on one sheet.
LEMMA RowsOfSheet ==
    ASSUME NEW D, NEW L, DiskInv(D, L), NEW source \in SourcesIn(D), NEW sheet,
           NEW rows, rows = RowsOn(sheet, BookIn(D, source))
    PROVE  /\ Targets(rows) \subseteq AllPartitions
           /\ \A r \in rows : /\ r \in Rows /\ PartitionOf(r) \in Targets(rows)
                              /\ \E w \in BooksIn(D, L, source) : r \in RowsOf[w]
<1>1. BookIn(D, source) \in Workbooks
  BY DEF BookIn, SourcesIn, DiskInv
<1>2. rows \subseteq RowsOf[BookIn(D, source)]
  BY DEF RowsOn
<1>3. rows \subseteq Rows
  BY <1>1, <1>2 DEF Rows
<1>4. BookIn(D, source) \in BooksIn(D, L, source)
  BY DEF BooksIn
<1>. QED
  BY <1>2, <1>3, <1>4, Distinct DEF Targets

LEMMA SheetStep ==
    ASSUME NEW D, NEW L, NEW q, DiskInv(D, L), IngestInv(D, L, q), q.at = "months", q.todo = {},
           NEW sheet, NEW sheets, NEW new, new = RowsOn(sheet, BookIn(D, q.source)),
           NEW rows, rows = q.rows \cup new, NEW todo, todo = Targets(new)
    PROVE  CommandInv(D, L, OnSheet(q, rows, sheets, todo))
<1>. DEFINE q2 == OnSheet(q, rows, sheets, todo)
<1>1. /\ q2 = IngestShape(q2) /\ q2.at = "months" /\ q2.source = q.source
      /\ q2.archive = q.archive /\ q2.rows = rows /\ q2.seen = q.seen /\ q2.todo = todo
      /\ q2.id = q.id
  <2>1. q = IngestShape(q)
    BY DEF IngestInv
  <2>2. q2 = Ingesting(q.at, q.source, q.archive, rows, sheets, q.id, q.month, q.seen, todo)
    BY <2>1, OnSheetIs
  <2>. HIDE DEF q2
  <2>. QED
    BY <2>2 DEF IngestShape, Ingesting
<1>. HIDE DEF q2
<1>2. /\ todo \subseteq AllPartitions
      /\ \A r \in new : /\ r \in Rows /\ PartitionOf(r) \in todo
                        /\ \E w \in BooksIn(D, L, q.source) : r \in RowsOf[w]
  BY RowsOfSheet DEF IngestInv
<1>3. SeenInv(D, L, q2)
  BY <1>1 DEF IngestInv, SeenInv
<1>4. \A r \in q2.rows : RowInv(D, L, q2, r)
  BY <1>1, <1>2 DEF IngestInv, RowInv
<1>5. IngestInv(D, L, q2)
  BY <1>1, <1>2, <1>3, <1>4 DEF IngestInv
<1>. QED
  BY <1>5 DEF CommandInv, q2

LEMMA MonthStep ==
    ASSUME NEW D, NEW L, NEW q, DiskInv(D, L), IngestInv(D, L, q), q.at = "months",
           NEW m \in q.todo, NEW seen, seen = With(q.seen, m, Held(D, m)),
           NEW todo, todo = q.todo \ {m}
    PROVE  CommandInv(D, L, InMonth(q, seen, "merge", todo, m))
<1>. DEFINE q2 == InMonth(q, seen, "merge", todo, m)
<1>1. /\ q2 = IngestShape(q2) /\ q2.at = "merge" /\ q2.source = q.source
      /\ q2.archive = q.archive /\ q2.rows = q.rows /\ q2.seen = seen /\ q2.todo = todo
      /\ q2.id = q.id /\ q2.month = m
  <2>1. q = IngestShape(q)
    BY DEF IngestInv
  <2>2. q2 = Ingesting("merge", q.source, q.archive, q.rows, q.sheets, q.id, m, seen, todo)
    BY <2>1, InMonthIs
  <2>. HIDE DEF q2
  <2>. QED
    BY <2>2 DEF IngestShape, Ingesting
<1>. HIDE DEF q2
<1>2. m \in AllPartitions /\ m \in Tables
  BY DEF IngestInv, Tables
<1>3. SeenInv(D, L, q2) /\ DOMAIN q2.seen = DOMAIN q.seen \cup {m}
  BY <1>1, <1>2, SeenMore DEF IngestInv
<1>4. \A r \in q2.rows : RowInv(D, L, q2, r)
  BY <1>1 DEF IngestInv, RowInv
<1>5. IngestInv(D, L, q2)
  BY <1>1, <1>2, <1>3, <1>4 DEF IngestInv
<1>. QED
  BY <1>5 DEF CommandInv, q2

\* A partition whose rows stay, with their import and with their manual edits.
LEMMA SaysKept ==
    ASSUME NEW f \in AllPartitions, NEW c, NEW d, DOMAIN c \subseteq DOMAIN d,
           \A r \in DOMAIN c : d[r].file_id = c[r].file_id /\ c[r].manual \subseteq d[r].manual
    PROVE  Says(f, c) \subseteq Says(f, d)
<1>1. \A x : Says(f, x) = {<<"row", r, x[r].file_id>> : r \in DOMAIN x} \cup
                         UNION {{<<"edit", r, e>> : e \in x[r].manual} : r \in DOMAIN x}
  BY SaysWhat
<1>. QED
  BY <1>1

\* append_transactions: what is written has the rows that were read and the new ones.
LEMMA MergedSound ==
    ASSUME NEW D, NEW L, NEW q, DiskInv(D, L), IngestInv(D, L, q), q.at = "merge",
           NEW c, c = Merged(q)
    PROVE  /\ MayPut(D, L, q, q.month, c)
           /\ CommandInv(With(D, q.month, c), Lost(D, L, q.month, c), StepTo(q, "months"))
<1>. DEFINE m == q.month
            old == q.seen[m]
            D2 == With(D, m, c)
            L2 == Lost(D, L, m, c)
<1>1. m \in AllPartitions /\ m \in Tables /\ m \in DOMAIN q.seen /\ m # History
  BY Distinct DEF IngestInv, Tables
<1>2. IngestInv(D2, L2, q)
  BY PutKeeps, IngestKept
<1>3. Held(D2, m) = c
  BY DEF With, Held
<1>. HIDE DEF D2, L2
<1>4. Sound(D2, L2, m, old)
  BY <1>1, <1>2 DEF IngestInv, SeenInv
<1>5. /\ DOMAIN c = DOMAIN old \cup NewRows(q)
      /\ \A r \in DOMAIN old : c[r] = old[r]
      /\ \A r \in NewRows(q) : r \notin DOMAIN old /\ c[r] = Imported(q.id)
      /\ c = [r \in DOMAIN c |-> c[r]]
  BY DEF Merged, NewRows
<1>6. \A r \in NewRows(q) : r \in q.rows /\ PartitionOf(r) = m
  BY DEF NewRows
<1>7. \A r \in NewRows(q) : Columns(c[r]) = c[r] /\ c[r].file_id = q.id
  BY <1>5 DEF Columns, Imported
<1>8. \A r \in DOMAIN old : Columns(c[r]) = c[r] /\ r \in Rows /\ PartitionOf(r) = m
  BY <1>1, <1>4, <1>5 DEF Sound, IsTable, IsPartition
<1>9. IsPartition(m, c)
  <2>1. \A r \in NewRows(q) : r \in Rows
    BY <1>2, <1>6 DEF IngestInv, RowInv
  <2>. QED
    BY <2>1, <1>5, <1>6, <1>7, <1>8 DEF IsPartition
<1>10. \A r \in DOMAIN c : KnownIn(D2, L2, r)
  BY <1>3, <1>9 DEF IsPartition, KnownIn
<1>11. \A r \in DOMAIN c : OriginIn(D2, L2, r, c[r].file_id)
  <2>1. ASSUME NEW r \in DOMAIN old PROVE OriginIn(D2, L2, r, c[r].file_id)
    BY <2>1, <1>1, <1>4, <1>5 DEF Sound
  <2>2. ASSUME NEW r \in NewRows(q) PROVE OriginIn(D2, L2, r, c[r].file_id)
    <3>1. SaidIn(D2, L2, q.source, c[r].file_id) /\ q.source \in SourcesIn(D2)
      BY <1>2, <1>7 DEF IngestInv
    <3>2. \E w \in BooksIn(D2, L2, q.source) : r \in RowsOf[w]
      BY <1>2, <1>6 DEF IngestInv, RowInv
    <3>. QED
      BY <3>1, <3>2 DEF OriginIn
  <2>. QED
    BY <2>1, <2>2, <1>5
<1>12. Sound(D2, L2, m, c)
  BY <1>1, <1>9, <1>10, <1>11 DEF Sound, IsTable
<1>13. Says(m, old) \subseteq Says(m, c)
  BY <1>1, <1>5, SaysKept
<1>14. \A r \in q.rows : PartitionOf(r) = m => r \in DOMAIN c
  BY <1>5 DEF NewRows
<1>15. IngestInv(D2, L2, StepTo(q, "months"))
  <2>1. \A r \in q.rows : q.at = "merge" /\ PartitionOf(r) = q.month => KnownIn(D2, L2, r)
    BY <1>10, <1>14
  <2>. QED
    BY <2>1, <1>2, StepInv
<1>. QED
  BY <1>1, <1>12, <1>13, <1>15 DEF MayPut, CommandInv, D2, L2

\* Nothing is written if every row of the workbook is there.
LEMMA NothingNew ==
    ASSUME NEW D, NEW L, NEW q, DiskInv(D, L), IngestInv(D, L, q), q.at = "merge", NewRows(q) = {}
    PROVE  CommandInv(D, L, StepTo(q, "months"))
<1>1. \A r \in q.rows : PartitionOf(r) = q.month => r \in DOMAIN q.seen[q.month]
  BY DEF NewRows
<1>2. \A r \in DOMAIN q.seen[q.month] : KnownIn(D, L, r)
  BY DEF IngestInv, SeenInv, Sound
<1>3. IngestInv(D, L, StepTo(q, "months"))
  BY <1>1, <1>2, StepInv
<1>. QED
  BY <1>3 DEF CommandInv

----------------------------------------------------------------------------
(* The steps of tag, transfer and tag --edit.                               *)

\* The columns of a row, one of them changed.
TaggedRow(x, v) == [x EXCEPT !.tagged = v]
LinkedRow(x, v) == [x EXCEPT !.group = v]
EditedRow(x, v) == [x EXCEPT !.manual = v]
LEMMA ColumnsStay ==
    ASSUME NEW x, x = Columns(x), NEW v
    PROVE  /\ \A y \in {TaggedRow(x, v), LinkedRow(x, v), EditedRow(x, v)} :
                 y = Columns(y) /\ y.file_id = x.file_id
           /\ TaggedRow(x, v).manual = x.manual
           /\ LinkedRow(x, v).manual = x.manual
           /\ EditedRow(x, v).manual = v
<1>. DEFINE Around == [file_id : {x.file_id}, manual : {x.manual, v}, tagged : {x.tagged, v},
                    group : {x.group, v}]
<1>1. x \in Around
  BY DEF Columns
<1>2. TaggedRow(x, v) \in Around /\ TaggedRow(x, v).manual = x.manual
  BY <1>1 DEF TaggedRow
<1>3. LinkedRow(x, v) \in Around /\ LinkedRow(x, v).manual = x.manual
  BY <1>1 DEF LinkedRow
<1>4. EditedRow(x, v) \in Around /\ EditedRow(x, v).manual = v
  BY <1>1 DEF EditedRow
<1>5. \A z \in Around : z = Columns(z) /\ z.file_id = x.file_id
  BY DEF Columns
<1>. HIDE DEF Around
<1>. QED
  BY <1>2, <1>3, <1>4, <1>5

\* Nothing that was read of a partition is left out of what is written.
KeepsRows(c, d) ==
    /\ d = [r \in DOMAIN c |-> Columns(d[r])]
    /\ \A r \in DOMAIN c : d[r].file_id = c[r].file_id /\ c[r].manual \subseteq d[r].manual

LEMMA TaggedKeeps ==
    ASSUME NEW f, NEW c, IsPartition(f, c)
    PROVE  KeepsRows(c, Tagged(c))
<1>1. \A r \in DOMAIN c : c[r] = Columns(c[r])
  BY DEF IsPartition
<1>. DEFINE d == Tagged(c)
<1>2. DOMAIN d = DOMAIN c /\ d = [r \in DOMAIN c |-> d[r]]
  BY DEF Tagged
<1>3. \A r \in DOMAIN c : \E g : d[r] = TaggedRow(c[r], g)
  BY Zenon DEF Tagged, TaggedRow
<1>. HIDE DEF d
<1>4. \A r \in DOMAIN c : d[r] = Columns(d[r]) /\ d[r].file_id = c[r].file_id /\ d[r].manual = c[r].manual
  BY <1>1, <1>3, ColumnsStay
<1>. QED
  BY <1>2, <1>4 DEF KeepsRows, d

LEMMA LinkedKeeps ==
    ASSUME NEW f, NEW c, IsPartition(f, c), NEW pairs
    PROVE  KeepsRows(c, Linked(c, pairs))
<1>1. \A r \in DOMAIN c : c[r] = Columns(c[r])
  BY DEF IsPartition
<1>. DEFINE d == Linked(c, pairs)
<1>2. DOMAIN d = DOMAIN c /\ d = [r \in DOMAIN c |-> d[r]]
  BY DEF Linked
<1>3. \A r \in DOMAIN c : \E g : d[r] = LinkedRow(c[r], g)
  BY Zenon DEF Linked, LinkedRow
<1>. HIDE DEF d
<1>4. \A r \in DOMAIN c : d[r] = Columns(d[r]) /\ d[r].file_id = c[r].file_id /\ d[r].manual = c[r].manual
  BY <1>1, <1>3, ColumnsStay
<1>. QED
  BY <1>2, <1>4 DEF KeepsRows, d

LEMMA EditedKeeps ==
    ASSUME NEW f, NEW c, IsPartition(f, c), NEW row \in DOMAIN c, NEW e
    PROVE  KeepsRows(c, Edited(c, row, e))
<1>1. \A r \in DOMAIN c : c[r] = Columns(c[r])
  BY DEF IsPartition
<1>. DEFINE d == Edited(c, row, e)
            v == c[row].manual \cup {e}
<1>2. d = [r \in DOMAIN c |-> IF r = row THEN [c[r] EXCEPT !.manual = @ \cup {e}] ELSE c[r]]
  BY Zenon DEF Edited, IsPartition
<1>3. d = [r \in DOMAIN c |-> d[r]]
  BY <1>2
<1>4. d[row] = EditedRow(c[row], v)
  BY <1>2, Zenon DEF EditedRow
<1>5. \A r \in DOMAIN c : r # row => d[r] = c[r]
  BY <1>2
<1>6. c[row].manual \subseteq v
  OBVIOUS
<1>. HIDE DEF d, v
<1>7. \A r \in DOMAIN c : d[r] = Columns(d[r]) /\ d[r].file_id = c[r].file_id /\ c[r].manual \subseteq d[r].manual
  BY <1>1, <1>4, <1>5, <1>6, ColumnsStay
<1>. QED
  BY <1>3, <1>7 DEF KeepsRows, d

\* What a rewrite has computed for a month: the partition that was read, row by row.
LEMMA OutcomeKeeps ==
    ASSUME NEW D, NEW L, NEW q, q.op \in Bulk, SeenInv(D, L, q), History \notin DOMAIN q.seen,
           NEW m \in DOMAIN Outcome(q)
    PROVE  m \in DOMAIN q.seen /\ m \in AllPartitions /\ KeepsRows(q.seen[m], Outcome(q)[m])
<1>1. \A f \in DOMAIN q.seen : f \in AllPartitions /\ IsPartition(f, q.seen[f])
  BY DEF SeenInv, Tables, Sound, IsTable
<1>2. CASE q.op = "tag"
  <2>1. Outcome(q) = [f \in DOMAIN q.seen |-> Tagged(q.seen[f])]
    BY <1>2 DEF Outcome
  <2>. QED
    BY <2>1, <1>1, TaggedKeeps
<1>3. CASE q.op = "transfer"
  <2>1. Outcome(q) = [f \in DOMAIN q.seen |-> Linked(q.seen[f], Paired(SeenRows(q)))]
    BY <1>3 DEF Outcome
  <2>. QED
    BY <2>1, <1>1, LinkedKeeps
<1>4. CASE q.op = "edit"
  <2>. DEFINE found == {f \in DOMAIN q.seen : /\ q.row \in DOMAIN q.seen[f]
                                              /\ q.tag \notin q.seen[f][q.row].manual}
  <2>1. Outcome(q) = [f \in found |-> Edited(q.seen[f], q.row, q.tag)]
    BY <1>4 DEF Outcome
  <2>. QED
    BY <2>1, <1>1, EditedKeeps
<1>. QED
  BY <1>2, <1>3, <1>4 DEF Bulk

\* The outcome is that of what was read, whatever has been written since.
SameRead(q, q2) ==
    /\ q2.op = q.op /\ q2.seen = q.seen
    /\ q.op = "edit" => q2.row = q.row /\ q2.tag = q.tag
LEMMA SameOutcome ==
    ASSUME NEW q, NEW q2, q.op \in Bulk, SameRead(q, q2)
    PROVE  Outcome(q2) = Outcome(q)
BY DEF SameRead, Outcome, SeenRows, Bulk

Reading(q, seen, todo) == [q EXCEPT !.seen = seen, !.todo = todo]
Left(q, at, todo) == [q EXCEPT !.at = at, !.todo = todo]
LEMMA ReadingIs ==
    ASSUME NEW q, q.op \in Bulk, q = BulkShape(q), NEW seen, NEW todo,
           NEW q2, q2 = Reading(q, seen, todo)
    PROVE  q2 = BulkShape(q2) /\ q2.op = q.op /\ q2.at = q.at /\ q2.seen = seen /\ q2.todo = todo
<1>1. CASE q.op = "edit"
  <2>. DEFINE Changes == [op : {"edit"}, at : {q.at}, seen : {q.seen, seen},
                          todo : {q.todo, todo}, row : {q.row}, tag : {q.tag}]
              q3 == Reading(q, seen, todo)
  <2>1. q \in Changes
    BY <1>1 DEF BulkShape, Editing
  <2>2. q3 \in Changes /\ q3.seen = seen /\ q3.todo = todo
    BY <2>1 DEF Reading
  <2>. HIDE DEF q3
  <2>3. q3 = Editing(q.at, seen, todo, q.row, q.tag)
    BY <2>2 DEF Editing
  <2>4. q2 = q3
    BY DEF q3
  <2>. QED
    BY <2>3, <2>4, <1>1 DEF BulkShape, Editing
<1>2. CASE q.op # "edit"
  <2>. DEFINE Changes == [op : {q.op}, at : {q.at}, seen : {q.seen, seen}, todo : {q.todo, todo}]
              q3 == Reading(q, seen, todo)
  <2>1. q \in Changes
    BY <1>2 DEF BulkShape, Rewriting
  <2>2. q3 \in Changes /\ q3.seen = seen /\ q3.todo = todo
    BY <2>1 DEF Reading
  <2>. HIDE DEF q3
  <2>3. q3 = Rewriting(q.op, q.at, seen, todo)
    BY <2>2 DEF Rewriting
  <2>4. q2 = q3
    BY DEF q3
  <2>. QED
    BY <2>3, <2>4, <1>2 DEF BulkShape, Rewriting
<1>. QED
  BY <1>1, <1>2

LEMMA LeftIs ==
    ASSUME NEW q, q.op \in Bulk, q = BulkShape(q), NEW at, NEW todo,
           NEW q2, q2 = Left(q, at, todo)
    PROVE  q2 = BulkShape(q2) /\ SameRead(q, q2) /\ q2.at = at /\ q2.todo = todo
<1>1. CASE q.op = "edit"
  <2>. DEFINE Changes == [op : {"edit"}, at : {q.at, at}, seen : {q.seen},
                          todo : {q.todo, todo}, row : {q.row}, tag : {q.tag}]
              q3 == Left(q, at, todo)
  <2>1. q \in Changes
    BY <1>1 DEF BulkShape, Editing
  <2>2. q3 \in Changes /\ q3.at = at /\ q3.todo = todo
    BY <2>1 DEF Left
  <2>. HIDE DEF q3
  <2>3. q3 = Editing(at, q.seen, todo, q.row, q.tag)
    BY <2>2 DEF Editing
  <2>4. q2 = q3
    BY DEF q3
  <2>. QED
    BY <2>3, <2>4, <1>1 DEF BulkShape, Editing, SameRead
<1>2. CASE q.op # "edit"
  <2>. DEFINE Changes == [op : {q.op}, at : {q.at, at}, seen : {q.seen}, todo : {q.todo, todo}]
              q3 == Left(q, at, todo)
  <2>1. q \in Changes
    BY <1>2 DEF BulkShape, Rewriting
  <2>2. q3 \in Changes /\ q3.at = at /\ q3.todo = todo
    BY <2>1 DEF Left
  <2>. HIDE DEF q3
  <2>3. q3 = Rewriting(q.op, at, q.seen, todo)
    BY <2>2 DEF Rewriting
  <2>4. q2 = q3
    BY DEF q3
  <2>. QED
    BY <2>3, <2>4, <1>2 DEF BulkShape, Rewriting, SameRead
<1>. QED
  BY <1>1, <1>2

LEMMA WritingInv ==
    ASSUME NEW D, NEW L, NEW q, q.op \in Bulk, q = BulkShape(q), SeenInv(D, L, q),
           History \notin DOMAIN q.seen, NEW left, left \subseteq DOMAIN Outcome(q)
    PROVE  CommandInv(D, L, Writing(q, left))
<1>1. CASE left = {}
  BY <1>1 DEF Writing, CommandInv
<1>2. CASE left # {}
  <2>. DEFINE q2 == Left(q, "write", left)
  <2>1. Writing(q, left) = q2
    BY <1>2, Zenon DEF Writing, Left
  <2>2. q2 = BulkShape(q2) /\ SameRead(q, q2) /\ q2.at = "write" /\ q2.todo = left
    BY LeftIs
  <2>. HIDE DEF q2
  <2>3. Outcome(q2) = Outcome(q)
    BY <2>2, SameOutcome
  <2>4. SeenInv(D, L, q2) /\ q2.op = q.op /\ History \notin DOMAIN q2.seen
    BY <2>2 DEF SeenInv, SameRead
  <2>5. BulkInv(D, L, q2)
    BY <2>2, <2>3, <2>4 DEF BulkInv
  <2>. QED
    BY <2>1, <2>5 DEF CommandInv
<1>. QED
  BY <1>1, <1>2

LEMMA ReadStep ==
    ASSUME NEW D, NEW L, NEW q, DiskInv(D, L), BulkInv(D, L, q), q.at = "read",
           NEW m, m = Earliest(q.todo), NEW seen, seen = With(q.seen, m, Held(D, m)),
           NEW todo, todo = q.todo \ {m}, NEW q2, q2 = Reading(q, seen, todo)
    PROVE  CommandInv(D, L, IF todo = {} THEN Writing(q2, DOMAIN Outcome(q2)) ELSE q2)
<1>1. m \in q.todo /\ m \in AllPartitions /\ m \in Tables /\ m # History
  <2>1. m \in q.todo /\ q.todo \subseteq AllPartitions
    BY EarliestIsLeft DEF BulkInv
  <2>. QED
    BY <2>1, Distinct DEF Tables
<1>2. q2 = BulkShape(q2) /\ q2.op = q.op /\ q2.at = q.at /\ q2.seen = seen /\ q2.todo = todo
  BY ReadingIs DEF BulkInv
<1>3. SeenInv(D, L, q2) /\ DOMAIN q2.seen = DOMAIN q.seen \cup {m}
  <2>1. SeenInv(D, L, q)
    BY DEF BulkInv
  <2>2. q2.seen = With(q.seen, m, Held(D, m))
    BY <1>2
  <2>3. m \in Tables
    BY <1>1
  <2>. QED
    BY <2>1, <2>2, <2>3, SeenMore, SMTT(60)
<1>4. q2.op \in Bulk /\ History \notin DOMAIN q2.seen
  BY <1>1, <1>2, <1>3 DEF BulkInv
<1>5. CASE todo = {}
  <2>1. CommandInv(D, L, Writing(q2, DOMAIN Outcome(q2)))
    BY <1>2, <1>3, <1>4, WritingInv
  <2>. QED
    BY <1>5, <2>1
<1>6. CASE todo # {}
  <2>1. BulkInv(D, L, q2)
    BY <1>2, <1>3, <1>4, <1>6 DEF BulkInv
  <2>. QED
    BY <1>6, <2>1 DEF CommandInv
<1>. QED
  BY <1>5, <1>6

LEMMA WriteStep ==
    ASSUME NEW D, NEW L, NEW q, DiskInv(D, L), BulkInv(D, L, q), q.at = "write",
           NEW m \in q.todo, NEW c, c = Outcome(q)[m]
    PROVE  /\ MayPut(D, L, q, m, c)
           /\ CommandInv(With(D, m, c), Lost(D, L, m, c), Writing(q, q.todo \ {m}))
<1>. DEFINE D2 == With(D, m, c)
            L2 == Lost(D, L, m, c)
            old == q.seen[m]
<1>1. m \in DOMAIN q.seen /\ m \in AllPartitions /\ m \in Tables /\ m # History
  <2>1. m \in DOMAIN Outcome(q)
    BY DEF BulkInv
  <2>. QED
    BY <2>1, OutcomeKeeps, Distinct DEF BulkInv, Tables
<1>2. KeepsRows(old, c)
  BY OutcomeKeeps DEF BulkInv
<1>3. Keeps(D, L, D2, L2)
  BY PutKeeps
<1>4. Held(D2, m) = c
  BY DEF With, Held
<1>. HIDE DEF D2, L2
<1>5. SeenInv(D2, L2, q)
  BY <1>3, SeenKept DEF BulkInv
<1>6. Sound(D2, L2, m, old)
  BY <1>1, <1>5 DEF SeenInv
<1>7. DOMAIN c = DOMAIN old /\ IsPartition(m, c)
  BY <1>1, <1>2, <1>6 DEF KeepsRows, Sound, IsTable, IsPartition
<1>8. \A r \in DOMAIN c : KnownIn(D2, L2, r)
  BY <1>4, <1>7 DEF IsPartition, KnownIn
<1>9. \A r \in DOMAIN c : OriginIn(D2, L2, r, c[r].file_id)
  BY <1>1, <1>2, <1>6, <1>7 DEF Sound, KeepsRows
<1>10. Sound(D2, L2, m, c)
  BY <1>1, <1>7, <1>8, <1>9 DEF Sound, IsTable
<1>11. Says(m, old) \subseteq Says(m, c)
  BY <1>1, <1>2, <1>7, SaysKept DEF KeepsRows
<1>12. CommandInv(D2, L2, Writing(q, q.todo \ {m}))
  BY <1>5, WritingInv DEF BulkInv
<1>. QED
  BY <1>1, <1>10, <1>11, <1>12 DEF MayPut, D2, L2

----------------------------------------------------------------------------
(* Every step of the workspace lets one process read, or put one file.      *)

Looks(p, q2) ==
    /\ proc' = [proc EXCEPT ![p] = q2]
    /\ UNCHANGED <<disk, replaced, lost>>
    /\ CommandInv(disk, lost, q2)
Puts(p, q2, f, c) ==
    /\ proc' = [proc EXCEPT ![p] = q2]
    /\ Put(f, c)
    /\ proc[p].op # "idle" /\ MayPut(disk, lost, proc[p], f, c)
    /\ CommandInv(With(disk, f, c), Lost(disk, lost, f, c), q2)
Moves(p) == (\E q2 : Looks(p, q2)) \/ (\E q2, f, c : Puts(p, q2, f, c))

LEMMA CommandIs ==
    ASSUME WorkspaceInv, NEW p \in Processes
    PROVE  /\ DiskInv(disk, lost)
           /\ proc[p].op = "ingest" => IngestInv(disk, lost, proc[p])
           /\ proc[p].op \in Bulk => BulkInv(disk, lost, proc[p])
<1>1. CommandInv(disk, lost, proc[p]) /\ DiskInv(disk, lost)
  BY DEF WorkspaceInv
<1>2. CASE proc[p] = Idle
  BY <1>1, <1>2 DEF Idle, Bulk
<1>3. CASE IngestInv(disk, lost, proc[p])
  BY <1>1, <1>3 DEF IngestInv, IngestShape, Ingesting, Bulk
<1>4. CASE BulkInv(disk, lost, proc[p])
  BY <1>1, <1>4 DEF BulkInv, Bulk
<1>. QED
  BY <1>1, <1>2, <1>3, <1>4 DEF CommandInv

LEMMA RecordImportMoves ==
    ASSUME WorkspaceInv, NEW p \in Processes, RecordImport(p)
    PROVE  Moves(p)
<1>1. PICK q : q = proc[p]
  OBVIOUS
<1>2. PICK h : h = Recorded(q.seen[History], q.source, FALSE)
  OBVIOUS
<1>3. PICK id : id = h[q.source].id
  OBVIOUS
<1>4. PICK at : at = IF q.archive THEN "archive" ELSE "months"
  OBVIOUS
<1>5. /\ q.op = "ingest" /\ q.at = "record" /\ Put(History, h)
      /\ proc' = [proc EXCEPT ![p] = GivenId(q, id, at)]
  BY <1>1, <1>2, <1>3, <1>4, Zenon DEF RecordImport, At, Becomes, GivenId, ReturnedId
<1>6. DiskInv(disk, lost) /\ IngestInv(disk, lost, q)
  BY <1>1, <1>5, CommandIs
<1>7. at \in {"archive", "months"} /\ (at = "archive" => q.archive)
  BY <1>4
<1>8. CommandInv(With(disk, History, h), Lost(disk, lost, History, h), GivenId(q, id, at))
  BY <1>2, <1>3, <1>5, <1>6, <1>7, RecordStep
<1>9. MayPut(disk, lost, q, History, h)
  BY <1>2, <1>6, RecordMayPut
<1>10. q.op # "idle"
  BY <1>5
<1>. QED
  BY <1>1, <1>5, <1>8, <1>9, <1>10, Zenon DEF Moves, Puts

LEMMA ArchiveSourceMoves ==
    ASSUME WorkspaceInv, NEW p \in Processes, ArchiveSource(p)
    PROVE  Moves(p)
<1>1. PICK q : q = proc[p]
  OBVIOUS
<1>2. PICK f : f = Archive(q.id)
  OBVIOUS
<1>3. /\ q.op = "ingest" /\ q.at = "archive" /\ Put(f, q.source)
      /\ proc' = [proc EXCEPT ![p] = StepTo(q, "reload")]
  BY <1>1, <1>2, Zenon DEF ArchiveSource, At, Step, Becomes, StepTo
<1>4. DiskInv(disk, lost) /\ IngestInv(disk, lost, q)
  BY <1>1, <1>3, CommandIs
<1>5. /\ MayPut(disk, lost, q, f, q.source)
      /\ CommandInv(With(disk, f, q.source), Lost(disk, lost, f, q.source), StepTo(q, "reload"))
  BY <1>2, <1>3, <1>4, CopyStep
<1>6. q.op # "idle"
  BY <1>3
<1>. QED
  BY <1>1, <1>3, <1>5, <1>6, Zenon DEF Moves, Puts

LEMMA ReloadHistoryMoves ==
    ASSUME WorkspaceInv, NEW p \in Processes, ReloadHistory(p)
    PROVE  Moves(p)
<1>1. PICK q : q = proc[p]
  OBVIOUS
<1>2. PICK seen : seen = With(q.seen, History, Held(disk, History))
  OBVIOUS
<1>3. /\ q.op = "ingest" /\ q.at = "reload" /\ UNCHANGED <<disk, replaced, lost>>
      /\ proc' = [proc EXCEPT ![p] = SeeingNow(q, seen, "rerecord")]
  BY <1>1, <1>2, Zenon DEF ReloadHistory, At, Look, Becomes, SeeingNow, Content, Held
<1>4. DiskInv(disk, lost) /\ IngestInv(disk, lost, q)
  BY <1>1, <1>3, CommandIs
<1>5. CommandInv(disk, lost, SeeingNow(q, seen, "rerecord"))
  BY <1>2, <1>3, <1>4, ReloadStep
<1>. QED
  BY <1>3, <1>5, Zenon DEF Moves, Looks

LEMMA RecordArchiveMoves ==
    ASSUME WorkspaceInv, NEW p \in Processes, RecordArchive(p)
    PROVE  Moves(p)
<1>1. PICK q : q = proc[p]
  OBVIOUS
<1>2. PICK h : h = Recorded(q.seen[History], q.source, TRUE)
  OBVIOUS
<1>3. /\ q.op = "ingest" /\ q.at = "rerecord" /\ Put(History, h)
      /\ proc' = [proc EXCEPT ![p] = StepTo(q, "months")]
  BY <1>1, <1>2, Zenon DEF RecordArchive, At, Step, Becomes, StepTo
<1>4. DiskInv(disk, lost) /\ IngestInv(disk, lost, q)
  BY <1>1, <1>3, CommandIs
<1>5. CommandInv(With(disk, History, h), Lost(disk, lost, History, h), StepTo(q, "months"))
  BY <1>3, <1>4, RerecordStep
<1>6. MayPut(disk, lost, q, History, h)
  BY <1>2, <1>4, RecordMayPut
<1>7. q.op # "idle"
  BY <1>3
<1>. QED
  BY <1>1, <1>3, <1>5, <1>6, <1>7, Zenon DEF Moves, Puts

LEMMA ReadSheetMoves ==
    ASSUME WorkspaceInv, NEW p \in Processes, ReadSheet(p)
    PROVE  Moves(p)
<1>1. PICK q : q = proc[p]
  OBVIOUS
<1>2. PICK sheet, new : sheet = Head(q.sheets) /\ new = RowsOn(sheet, BookIn(disk, q.source))
  OBVIOUS
<1>3. PICK rows, sheets, todo : rows = q.rows \cup new /\ sheets = Tail(q.sheets) /\ todo = Targets(new)
  OBVIOUS
<1>4. /\ q.op = "ingest" /\ q.at = "months" /\ q.todo = {} /\ UNCHANGED <<disk, replaced, lost>>
      /\ proc' = [proc EXCEPT ![p] = OnSheet(q, rows, sheets, todo)]
  BY <1>1, <1>2, <1>3, Zenon DEF ReadSheet, At, Becomes, OnSheet, Book, BookIn
<1>5. DiskInv(disk, lost) /\ IngestInv(disk, lost, q)
  BY <1>1, <1>4, CommandIs
<1>6. CommandInv(disk, lost, OnSheet(q, rows, sheets, todo))
  BY <1>2, <1>3, <1>4, <1>5, SheetStep
<1>. QED
  BY <1>4, <1>6, Zenon DEF Moves, Looks

LEMMA ReadMonthMoves ==
    ASSUME WorkspaceInv, NEW p \in Processes, NEW m, ReadMonth(p, m)
    PROVE  Moves(p)
<1>1. PICK q : q = proc[p]
  OBVIOUS
<1>2. PICK seen, todo : seen = With(q.seen, m, Held(disk, m)) /\ todo = q.todo \ {m}
  OBVIOUS
<1>3. /\ q.op = "ingest" /\ q.at = "months" /\ m \in q.todo /\ UNCHANGED <<disk, replaced, lost>>
      /\ proc' = [proc EXCEPT ![p] = InMonth(q, seen, "merge", todo, m)]
  BY <1>1, <1>2, Zenon DEF ReadMonth, At, Becomes, InMonth, Content, Held
<1>4. DiskInv(disk, lost) /\ IngestInv(disk, lost, q)
  BY <1>1, <1>3, CommandIs
<1>5. CommandInv(disk, lost, InMonth(q, seen, "merge", todo, m))
  BY <1>2, <1>3, <1>4, MonthStep
<1>. QED
  BY <1>3, <1>5, Zenon DEF Moves, Looks

LEMMA WriteMonthMoves ==
    ASSUME WorkspaceInv, NEW p \in Processes, WriteMonth(p)
    PROVE  Moves(p)
<1>1. PICK q : q = proc[p]
  OBVIOUS
<1>2. PICK c : c = Merged(q)
  OBVIOUS
<1>3. /\ q.op = "ingest" /\ q.at = "merge"
      /\ IF NewRows(q) = {} THEN UNCHANGED <<disk, replaced, lost>> ELSE Put(q.month, c)
      /\ proc' = [proc EXCEPT ![p] = StepTo(q, "months")]
  BY <1>1, <1>2, Zenon DEF WriteMonth, At, Step, Becomes, StepTo
<1>4. DiskInv(disk, lost) /\ IngestInv(disk, lost, q)
  BY <1>1, <1>3, CommandIs
<1>5. CASE NewRows(q) = {}
  <2>1. CommandInv(disk, lost, StepTo(q, "months"))
    BY <1>3, <1>4, <1>5, NothingNew
  <2>. QED
    BY <1>3, <1>5, <2>1, Zenon DEF Moves, Looks
<1>6. CASE NewRows(q) # {}
  <2>1. /\ MayPut(disk, lost, q, q.month, c)
        /\ CommandInv(With(disk, q.month, c), Lost(disk, lost, q.month, c), StepTo(q, "months"))
    BY <1>2, <1>3, <1>4, MergedSound
  <2>2. q.op # "idle"
    BY <1>3
  <2>. QED
    BY <1>1, <1>3, <1>6, <2>1, <2>2, Zenon DEF Moves, Puts
<1>. QED
  BY <1>5, <1>6

LEMMA ReadNextMoves ==
    ASSUME WorkspaceInv, NEW p \in Processes, ReadNext(p)
    PROVE  Moves(p)
<1>1. PICK q : q = proc[p]
  OBVIOUS
<1>2. PICK m : m = Earliest(q.todo)
  OBVIOUS
<1>3. PICK seen, todo : seen = With(q.seen, m, Held(disk, m)) /\ todo = q.todo \ {m}
  OBVIOUS
<1>4. PICK q2 : q2 = Reading(q, seen, todo)
  OBVIOUS
<1>5. /\ q.op \in Bulk /\ q.at = "read" /\ UNCHANGED <<disk, replaced, lost>>
      /\ proc' = [proc EXCEPT ![p] = IF q2.todo = {} THEN Writing(q2, DOMAIN Outcome(q2)) ELSE q2]
  BY <1>1, <1>2, <1>3, <1>4, Zenon DEF ReadNext, At, Becomes, Reading, Content, Held
<1>6. DiskInv(disk, lost) /\ BulkInv(disk, lost, q)
  BY <1>1, <1>5, CommandIs
<1>7. CommandInv(disk, lost, IF todo = {} THEN Writing(q2, DOMAIN Outcome(q2)) ELSE q2)
  BY <1>2, <1>3, <1>4, <1>5, <1>6, ReadStep
<1>8. q2.todo = todo
  BY <1>4, <1>5, <1>6, ReadingIs DEF BulkInv
<1>. QED
  BY <1>5, <1>7, <1>8, Zenon DEF Moves, Looks

LEMMA WriteNextMoves ==
    ASSUME WorkspaceInv, NEW p \in Processes, NEW m, WriteNext(p, m)
    PROVE  Moves(p)
<1>1. PICK q : q = proc[p]
  OBVIOUS
<1>2. PICK c : c = Outcome(q)[m]
  OBVIOUS
<1>3. /\ q.op \in Bulk /\ q.at = "write" /\ m \in q.todo /\ Put(m, c)
      /\ proc' = [proc EXCEPT ![p] = Writing(q, q.todo \ {m})]
  BY <1>1, <1>2, Zenon DEF WriteNext, Becomes
<1>4. DiskInv(disk, lost) /\ BulkInv(disk, lost, q)
  BY <1>1, <1>3, CommandIs
<1>5. /\ MayPut(disk, lost, q, m, c)
      /\ CommandInv(With(disk, m, c), Lost(disk, lost, m, c), Writing(q, q.todo \ {m}))
  BY <1>2, <1>3, <1>4, WriteStep
<1>6. q.op # "idle"
  BY <1>3 DEF Bulk
<1>. QED
  BY <1>1, <1>3, <1>5, <1>6, Zenon DEF Moves, Puts

\* A command has read nothing but what is there.
LEMMA StartIngestMoves ==
    ASSUME WorkspaceInv, NEW p \in Processes, NEW source \in Workbooks \cup Archived,
           NEW archive \in BOOLEAN, StartIngest(p, source, archive)
    PROVE  Moves(p)
<1>1. PICK sheet, rows : sheet = Head(Sheets) /\ rows = RowsOn(sheet, BookIn(disk, source))
  OBVIOUS
<1>2. PICK todo, seen : todo = Targets(rows) /\ seen = With(Empty, History, Held(disk, History))
  OBVIOUS
<1>3. PICK q2 : q2 = Ingesting("record", source, archive, rows, Tail(Sheets), None, None, seen, todo)
  OBVIOUS
<1>4. /\ archive => source \in Archivable
      /\ proc' = [proc EXCEPT ![p] = q2] /\ UNCHANGED <<disk, replaced, lost>>
  BY <1>1, <1>2, <1>3, Zenon
     DEF StartIngest, Starts, Ingesting, Book, BookIn, Content, Held
<1>5. /\ q2 = IngestShape(q2) /\ q2.at = "record" /\ q2.source = source /\ q2.archive = archive
      /\ q2.rows = rows /\ q2.seen = seen /\ q2.todo = todo
  BY <1>3 DEF IngestShape, Ingesting
<1>6. DiskInv(disk, lost) /\ source \in SourcesIn(disk) /\ (archive => source \in Workbooks)
  BY <1>4, WorkspaceAssumption DEF WorkspaceInv, SourcesIn, Archived
<1>7. /\ todo \subseteq AllPartitions
      /\ \A r \in rows : /\ r \in Rows /\ PartitionOf(r) \in todo
                         /\ \E w \in BooksIn(disk, lost, source) : r \in RowsOf[w]
  BY <1>1, <1>2, <1>6, RowsOfSheet
<1>8. SeenInv(disk, lost, q2) /\ History \in DOMAIN q2.seen
  <2>1. Sound(disk, lost, History, Held(disk, History))
    BY <1>6, HeldSound DEF Tables
  <2>2. seen = [f \in {History} |-> Held(disk, History)]
    BY <1>2 DEF With, Empty
  <2>. QED
    BY <1>5, <2>1, <2>2 DEF SeenInv, Tables
<1>9. \A r \in q2.rows : RowInv(disk, lost, q2, r)
  BY <1>5, <1>7 DEF RowInv
<1>10. IngestInv(disk, lost, q2)
  BY <1>5, <1>6, <1>7, <1>8, <1>9 DEF IngestInv
<1>. QED
  BY <1>4, <1>10 DEF Moves, Looks, CommandInv

LEMMA BeginsToRead ==
    ASSUME WorkspaceInv, NEW q, q.op \in Bulk, q = BulkShape(q), q.at = "read", q.seen = Empty,
           q.todo = Partitions, Partitions # {}
    PROVE  CommandInv(disk, lost, q)
<1>1. Partitions \subseteq AllPartitions
  BY DEF Partitions, Transactions
<1>2. SeenInv(disk, lost, q) /\ History \notin DOMAIN q.seen
  BY DEF SeenInv, Empty
<1>. QED
  BY <1>1, <1>2 DEF CommandInv, BulkInv

LEMMA StartBulkMoves ==
    ASSUME WorkspaceInv, NEW p \in Processes, NEW op, StartBulk(p, op)
    PROVE  Moves(p)
<1>1. PICK q2 : q2 = Rewriting(op, "read", Empty, Partitions)
  OBVIOUS
<1>2. /\ op \in {"tag", "transfer"} /\ Partitions # {}
      /\ proc' = [proc EXCEPT ![p] = q2] /\ UNCHANGED <<disk, replaced, lost>>
  BY <1>1, Zenon DEF StartBulk, Starts, Rewriting
<1>3. /\ q2.op \in Bulk /\ q2 = BulkShape(q2) /\ q2.at = "read" /\ q2.seen = Empty
      /\ q2.todo = Partitions
  BY <1>1, <1>2 DEF BulkShape, Rewriting, Bulk
<1>4. CommandInv(disk, lost, q2)
  BY <1>2, <1>3, BeginsToRead
<1>. QED
  BY <1>2, <1>4 DEF Moves, Looks

LEMMA StartEditMoves ==
    ASSUME WorkspaceInv, NEW p \in Processes, NEW r, NEW e, StartEdit(p, r, e)
    PROVE  Moves(p)
<1>1. PICK q2 : q2 = Editing("read", Empty, Partitions, r, e)
  OBVIOUS
<1>2. /\ Partitions # {}
      /\ proc' = [proc EXCEPT ![p] = q2] /\ UNCHANGED <<disk, replaced, lost>>
  BY <1>1, Zenon DEF StartEdit, Starts, Editing
<1>3. /\ q2.op \in Bulk /\ q2 = BulkShape(q2) /\ q2.at = "read" /\ q2.seen = Empty
      /\ q2.todo = Partitions
  BY <1>1, <1>2 DEF BulkShape, Editing, Bulk
<1>4. CommandInv(disk, lost, q2)
  BY <1>2, <1>3, BeginsToRead
<1>. QED
  BY <1>2, <1>4 DEF Moves, Looks

LEMMA EndMoves ==
    ASSUME WorkspaceInv, NEW p \in Processes, Die(p) \/ ReportIngest(p)
    PROVE  Moves(p)
<1>1. Looks(p, Idle)
  BY Zenon DEF Die, ReportIngest, Becomes, Looks, CommandInv
<1>. QED
  BY <1>1 DEF Moves

LEMMA WorkspaceMoves ==
    ASSUME WorkspaceInv, WorkspaceNext
    PROVE  \E p \in Processes : Moves(p)
<1>1. PICK p \in Processes : Start(p) \/ Ingest(p) \/ Rewrite(p) \/ Die(p)
  BY DEF WorkspaceNext
<1>2. CASE Start(p)
  BY <1>2, StartIngestMoves, StartBulkMoves, StartEditMoves DEF Start
<1>3. CASE Ingest(p)
  BY <1>3, RecordImportMoves, ArchiveSourceMoves, ReloadHistoryMoves, RecordArchiveMoves,
     ReadMonthMoves, WriteMonthMoves, ReadSheetMoves, EndMoves DEF Ingest
<1>4. CASE Rewrite(p)
  BY <1>4, ReadNextMoves, WriteNextMoves DEF Rewrite
<1>5. CASE Die(p)
  BY <1>5, EndMoves
<1>. QED
  BY <1>1, <1>2, <1>3, <1>4, <1>5

----------------------------------------------------------------------------
(* The invariant of the workspace.                                          *)

LEMMA DiskPut ==
    ASSUME NEW D, NEW L, DiskInv(D, L), NEW q, NEW f, NEW c, MayPut(D, L, q, f, c)
    PROVE  DiskInv(With(D, f, c), Lost(D, L, f, c))
<1>. DEFINE D2 == With(D, f, c)
            L2 == Lost(D, L, f, c)
<1>1. /\ DOMAIN D2 = DOMAIN D \cup {f} /\ D2[f] = c
      /\ \A g \in DOMAIN D : g # f => D2[g] = D[g]
      /\ D2 = [g \in DOMAIN D2 |-> D2[g]]
  BY DEF With
<1>2. Keeps(D, L, D2, L2)
  BY PutKeeps
<1>3. f \in Tables => Sound(D2, L2, f, c)
  BY DEF MayPut
<1>4. f \notin Tables => c \in Workbooks
  BY DEF MayPut
<1>. HIDE DEF D2, L2
<1>5. \A g \in DOMAIN D2 : g \in Tables => Sound(D2, L2, g, D2[g])
  <2>. SUFFICES ASSUME NEW g \in DOMAIN D2, g \in Tables PROVE Sound(D2, L2, g, D2[g])
    OBVIOUS
  <2>1. CASE g = f
    BY <2>1, <1>1, <1>3
  <2>2. CASE g # f
    <3>1. Sound(D, L, g, D2[g])
      BY <2>2, <1>1 DEF DiskInv
    <3>. QED
      BY <3>1, <1>2, SoundKept
  <2>. QED
    BY <2>1, <2>2
<1>6. \A g \in DOMAIN D2 \ Tables : D2[g] \in Workbooks
  BY <1>1, <1>4 DEF DiskInv
<1>. QED
  BY <1>1, <1>5, <1>6 DEF DiskInv, D2, L2

\* What a move leaves of what was known, and what the process that moves is at.
LEMMA MoveKeeps ==
    ASSUME WorkspaceInv, NEW p \in Processes, Moves(p)
    PROVE  /\ Keeps(disk, lost, disk', lost') /\ DiskInv(disk', lost')
           /\ \E q2 : proc' = [proc EXCEPT ![p] = q2] /\ CommandInv(disk', lost', q2)
<1>1. CASE \E q2 : Looks(p, q2)
  <2>1. PICK q2 : Looks(p, q2)
    BY <1>1
  <2>2. /\ disk' = disk /\ lost' = lost
        /\ proc' = [proc EXCEPT ![p] = q2] /\ CommandInv(disk, lost, q2)
    BY <2>1 DEF Looks
  <2>3. Keeps(disk, lost, disk, lost)
    BY DEF Keeps
  <2>. QED
    BY <2>2, <2>3 DEF WorkspaceInv
<1>2. CASE \E q2, f, c : Puts(p, q2, f, c)
  <2>1. PICK q2, f, c : Puts(p, q2, f, c)
    BY <1>2
  <2>2. disk' = With(disk, f, c) /\ lost' = Lost(disk, lost, f, c)
    BY <2>1 DEF Puts, Put, Lost
  <2>3. DiskInv(disk, lost) /\ MayPut(disk, lost, proc[p], f, c)
    BY <2>1 DEF Puts, WorkspaceInv
  <2>4. Keeps(disk, lost, disk', lost') /\ DiskInv(disk', lost')
    BY <2>2, <2>3, PutKeeps, DiskPut
  <2>5. proc' = [proc EXCEPT ![p] = q2] /\ CommandInv(disk', lost', q2)
    BY <2>1, <2>2 DEF Puts
  <2>. QED
    BY <2>4, <2>5
<1>. QED
  BY <1>1, <1>2 DEF Moves

\* An ingest reports when it has looked for every row.
LEMMA ReportedKnown ==
    ASSUME WorkspaceInv, WorkspaceNext
    PROVE  \A i \in ingested' : \A r \in i[2] : r \in Rows /\ KnownIn(disk, lost, r)
<1>1. CASE UNCHANGED ingested
  BY <1>1 DEF WorkspaceInv
<1>2. CASE \E p \in Processes : ReportIngest(p)
  <2>1. PICK p \in Processes : ReportIngest(p)
    BY <1>2
  <2>2. /\ proc[p].op = "ingest" /\ proc[p].at = "months" /\ proc[p].todo = {}
        /\ ingested' = ingested \cup {<<proc[p].source, proc[p].rows>>}
    BY <2>1 DEF ReportIngest, At
  <2>3. IngestInv(disk, lost, proc[p])
    BY <2>2, CommandIs
  <2>4. \A r \in proc[p].rows : r \in Rows /\ KnownIn(disk, lost, r)
    BY <2>2, <2>3 DEF IngestInv, RowInv
  <2>. QED
    BY <2>2, <2>4 DEF WorkspaceInv
<1>3. UNCHANGED ingested \/ \E p \in Processes : ReportIngest(p)
  <2>1. PICK p \in Processes : Start(p) \/ Ingest(p) \/ Rewrite(p) \/ Die(p)
    BY DEF WorkspaceNext
  <2>2. CASE Start(p)
    BY <2>2, Zenon DEF Start, StartIngest, StartBulk, StartEdit, Starts
  <2>3. CASE Ingest(p)
    BY <2>3, Zenon DEF Ingest, RecordImport, ArchiveSource, ReloadHistory, RecordArchive, ReadMonth,
                WriteMonth, ReadSheet
  <2>4. CASE Rewrite(p) \/ Die(p)
    BY <2>4, Zenon DEF Rewrite, ReadNext, WriteNext, Die
  <2>. QED
    BY <2>1, <2>2, <2>3, <2>4
<1>. QED
  BY <1>1, <1>2, <1>3

LEMMA WorkspaceStep ==
    ASSUME WorkspaceInv, WorkspaceNext
    PROVE  WorkspaceInv'
<1>1. PICK p \in Processes : Moves(p)
  BY WorkspaceMoves
<1>2. Keeps(disk, lost, disk', lost') /\ DiskInv(disk', lost')
  BY <1>1, MoveKeeps
<1>3. PICK q2 : proc' = [proc EXCEPT ![p] = q2] /\ CommandInv(disk', lost', q2)
  BY <1>1, MoveKeeps
<1>4. proc = [x \in Processes |-> proc[x]] /\ \A x \in Processes : CommandInv(disk, lost, proc[x])
  BY DEF WorkspaceInv
<1>5. \A x \in Processes : CommandInv(disk', lost', proc[x])
  BY <1>2, <1>4, CommandKept
<1>6. /\ proc' = [x \in Processes |-> proc'[x]]
      /\ \A x \in Processes : proc'[x] = IF x = p THEN q2 ELSE proc[x]
  BY <1>3, <1>4
<1>7. \A x \in Processes : CommandInv(disk', lost', proc'[x])
  BY <1>3, <1>5, <1>6
<1>8. \A i \in ingested' : \A r \in i[2] : r \in Rows /\ KnownIn(disk', lost', r)
  BY <1>2, ReportedKnown DEF Keeps
<1>. QED
  BY <1>2, <1>6, <1>7, <1>8 DEF WorkspaceInv

\* The files one finished import leaves are those of an import.
LEMMA AfterIsSound ==
    ASSUME NEW w \in Workbooks
    PROVE  /\ DiskInv(After(w), {})
           /\ \A r \in RowsOf[w] : r \in Rows /\ KnownIn(After(w), {}, r)
<1>. DEFINE D == After(w)
            h == Recorded(Empty, w, FALSE)
            files == {PartitionOf(r) : r \in RowsOf[w]}
            month == [f \in files |->
                        [r \in {r \in RowsOf[w] : PartitionOf(r) = f} |-> Imported(h[w].id)]]
<1>1. D = With(month, History, h)
  BY Zenon DEF After
<1>2. RowsOf[w] \subseteq Rows /\ files \subseteq AllPartitions /\ History \notin files
  BY Distinct DEF Rows
<1>3. DOMAIN month = files
  OBVIOUS
<1>4. \A f \in files : /\ DOMAIN month[f] = {r \in RowsOf[w] : PartitionOf(r) = f}
                       /\ \A r \in DOMAIN month[f] : month[f][r] = Imported(h[w].id)
                       /\ month[f] = [r \in DOMAIN month[f] |-> month[f][r]]
  OBVIOUS
<1>5. IsHistory(h) /\ w \in DOMAIN h
  <2>1. IsHistory(Empty)
    BY DEF IsHistory, Empty
  <2>. QED
    BY <2>1, RecordedKeeps
<1>. HIDE DEF h, month
<1>6. /\ DOMAIN D = files \cup {History} /\ D[History] = h
      /\ \A f \in files : D[f] = month[f]
      /\ D = [f \in DOMAIN D |-> D[f]]
  BY <1>1, <1>2, <1>3 DEF With
<1>. HIDE DEF D
<1>7. Held(D, History) = h /\ \A f \in files : Held(D, f) = month[f]
  BY <1>6 DEF Held
<1>8. \A r \in RowsOf[w] : KnownIn(D, {}, r)
  <2>1. \A r \in RowsOf[w] : PartitionOf(r) \in files
    OBVIOUS
  <2>. HIDE DEF files
  <2>. QED
    BY <2>1, <1>4, <1>7 DEF KnownIn
<1>9. \A r \in RowsOf[w] : OriginIn(D, {}, r, h[w].id)
  <2>1. <<"record", w, h[w].id>> \in Says(History, h)
    BY <1>5, SaysRecord, Zenon
  <2>2. SaidIn(D, {}, w, h[w].id)
    BY <2>1, <1>7 DEF SaidIn
  <2>3. w \in SourcesIn(D) /\ w \in BooksIn(D, {}, w)
    BY DEF SourcesIn, BooksIn, BookIn
  <2>. QED
    BY <2>2, <2>3 DEF OriginIn
<1>10. ASSUME NEW f \in files PROVE Sound(D, {}, f, D[f])
  <2>1. \A r \in DOMAIN D[f] : /\ r \in RowsOf[w] /\ PartitionOf(r) = f
                               /\ D[f][r] = Imported(h[w].id)
    <3>1. D[f] = month[f] /\ DOMAIN month[f] = {r \in RowsOf[w] : PartitionOf(r) = f}
      BY <1>4, <1>6
    <3>. QED
      BY <3>1, <1>4
  <2>2. D[f] = [r \in DOMAIN D[f] |-> D[f][r]]
    BY <1>4, <1>6
  <2>3. \A id : Columns(Imported(id)) = Imported(id) /\ Imported(id).file_id = id
    BY DEF Columns, Imported
  <2>4. IsPartition(f, D[f])
    BY <2>1, <2>2, <2>3, <1>2 DEF IsPartition
  <2>5. \A r \in DOMAIN D[f] : KnownIn(D, {}, r) /\ OriginIn(D, {}, r, D[f][r].file_id)
    BY <2>1, <2>3, <1>8, <1>9
  <2>. QED
    BY <2>4, <2>5, <1>2 DEF Sound, IsTable
<1>11. Sound(D, {}, History, D[History])
  BY <1>5, <1>6, Distinct DEF Sound, IsTable
<1>12. DiskInv(D, {})
  BY <1>2, <1>6, <1>10, <1>11 DEF DiskInv, Tables
<1>. QED
  BY <1>2, <1>8, <1>12 DEF D

LEMMA WorkspaceStart ==
    ASSUME WorkspaceInit
    PROVE  WorkspaceInv
<1>1. PICK w \in Beginnings : /\ disk = IF w = None THEN Empty ELSE After(w)
                              /\ ingested = IF w = None THEN {} ELSE {<<w, RowsOf[w]>>}
  BY DEF WorkspaceInit
<1>2. lost = {} /\ proc = [p \in Processes |-> Idle]
  BY DEF WorkspaceInit
<1>3. CASE w = None
  <2>1. DiskInv(disk, lost) /\ ingested = {}
    BY <1>1, <1>3 DEF DiskInv, Empty
  <2>. QED
    BY <2>1, <1>2 DEF WorkspaceInv, CommandInv
<1>4. CASE w # None
  <2>1. w \in Workbooks
    BY <1>4, WorkspaceAssumption
  <2>2. DiskInv(disk, lost) /\ \A r \in RowsOf[w] : r \in Rows /\ KnownIn(disk, lost, r)
    BY <2>1, <1>1, <1>2, <1>4, AfterIsSound
  <2>. QED
    BY <2>2, <1>1, <1>2, <1>4 DEF WorkspaceInv, CommandInv
<1>. QED
  BY <1>3, <1>4

----------------------------------------------------------------------------
(* What the workspace promises.                                             *)

\* Whatever the commands do and wherever they die, what a command has read is what some table
\* held, each row in its month and of a workbook that was imported under its id, and an
\* ingest that goes on has looked for every row it does not have on its list.
THEOREM LegacyWorkspaceInvariant == Spec => []WorkspaceInv
<1>1. Init => WorkspaceInv
  BY WorkspaceStart DEF Init
<1>2. WorkspaceInv /\ [Next]_vars => WorkspaceInv'
  <2>1. CASE Work
    BY <2>1, WorkspaceStep DEF Work
  <2>2. CASE TakeBackup \/ UNCHANGED vars
    <3>1. UNCHANGED <<disk, proc, ingested, lost>>
      BY <2>2, Zenon DEF TakeBackup, StartBackup, Scan, Copy, Rescan, Compare, KillBackup, vars
    <3>. QED
      BY <3>1 DEF WorkspaceInv
  <2>. QED
    BY <2>1, <2>2 DEF Next
<1>. QED
  BY <1>1, <1>2, PTL DEF Spec

\* IngestIsAccountedFor: an ingest that reports success has its rows in the partitions and
\* every row names a record of a workbook that has it, but for what a step took out again.
THEOREM LegacyIngestIsAccountedFor == Spec => []IngestIsAccountedFor
<1>1. WorkspaceInv => IngestIsAccountedFor
  <2>. SUFFICES ASSUME WorkspaceInv PROVE IngestIsAccountedFor
    OBVIOUS
  <2>1. \A i \in ingested : \A r \in i[2] : Stored(r) \/ \E fact \in lost : fact[2] = r
    BY DEF WorkspaceInv, KnownIn, Stored, Content, Held
  <2>2. ASSUME NEW m \in AllPartitions \cap DOMAIN disk, NEW r \in DOMAIN disk[m]
        PROVE  /\ PartitionOf(r) = m
               /\ \E s \in Workbooks \cup Archived :
                     /\ EverSaid(s, disk[m][r].file_id)
                     /\ \E w \in EverHeld(s) : r \in RowsOf[w]
    <3>1. m \in DOMAIN disk /\ m \in AllPartitions /\ m \in Tables
      BY DEF Tables
    <3>2. Sound(disk, lost, m, disk[m])
      BY <3>1 DEF WorkspaceInv, DiskInv
    <3>3. PartitionOf(r) = m /\ OriginIn(disk, lost, r, disk[m][r].file_id)
      BY <3>1, <3>2 DEF Sound, IsTable, IsPartition
    <3>. QED
      BY <3>3 DEF OriginIn, SourcesIn, SaidIn, BooksIn, BookIn, Held, Archived, EverSaid, EverHeld,
                  Book, Content
  <2>. QED
    BY <2>1, <2>2 DEF IngestIsAccountedFor
<1>. QED
  BY <1>1, LegacyWorkspaceInvariant, PTL

\* OnlyUnseenIsLost: a command that replaces a table keeps every fact it has read there.
THEOREM LegacyOnlyUnseenIsLost == Spec => OnlyUnseenIsLost
<1>. DEFINE Allowed ==
       \A f \in {f \in Tables : Content(f) # Content(f)'} :
          \A fact \in Says(f, Content(f)) \ Says(f, Content(f)') :
             \E p \in Processes : /\ proc[p].op # "idle" /\ f \in DOMAIN proc[p].seen
                                  /\ fact \notin Says(f, proc[p].seen[f])
<1>1. WorkspaceInv /\ [Next]_vars => [Allowed]_workspace
  <2>. SUFFICES ASSUME WorkspaceInv, [Next]_vars PROVE Allowed \/ UNCHANGED workspace
    OBVIOUS
  <2>1. ASSUME disk' = disk PROVE Allowed
    BY <2>1 DEF Content
  <2>2. CASE TakeBackup \/ UNCHANGED vars
    <3>1. disk' = disk
      BY <2>2, Zenon DEF TakeBackup, StartBackup, Scan, Copy, Rescan, Compare, KillBackup, vars
    <3>. QED
      BY <3>1, <2>1
  <2>3. CASE Work
    <3>1. PICK p \in Processes : Moves(p)
      BY <2>3, WorkspaceMoves DEF Work
    <3>2. CASE \E q2 : Looks(p, q2)
      BY <3>2, <2>1 DEF Looks
    <3>3. CASE \E q2, g, c : Puts(p, q2, g, c)
      <4>1. PICK q2, g, c : Puts(p, q2, g, c)
        BY <3>3
      <4>2. /\ disk' = With(disk, g, c) /\ proc[p].op # "idle"
            /\ MayPut(disk, lost, proc[p], g, c)
        BY <4>1 DEF Puts, Put
      <4>3. \A f : f # g => Content(f)' = Content(f)
        BY <4>2 DEF Content, With
      <4>4. Content(g)' = c
        BY <4>2 DEF Content, With
      <4>5. g \in Tables => /\ g \in DOMAIN proc[p].seen
                            /\ Says(g, proc[p].seen[g]) \subseteq Says(g, c)
        BY <4>2 DEF MayPut
      <4>. QED
        BY <4>2, <4>3, <4>4, <4>5
    <3>. QED
      BY <3>1, <3>2, <3>3 DEF Moves
  <2>. QED
    BY <2>2, <2>3 DEF Next
<1>. QED
  BY <1>1, LegacyWorkspaceInvariant, PTL DEF Spec, OnlyUnseenIsLost

----------------------------------------------------------------------------
(* The backup.  A file that is not what the first scan, or the output, has  *)
(* of it is a replaced one; what a later visit finds not replaced was not   *)
(* replaced at any time since.                                              *)

In(D, f) == IF f \in DOMAIN D THEN D[f] ELSE Absent
Attempt(at, visited, scan, whole) == [at |-> at, visited |-> visited, scan |-> scan, whole |-> whole]
Positions == 1..Len(Order)

\* What a tree has of a file that is not replaced is what is there.
Faithful(D, R, tree) == \A f \in DOMAIN tree : f \notin R => tree[f] = In(D, f)
\* A file that is still to be visited was replaced.
Ahead(R, visited, S) == \E i \in Positions : i > visited /\ Order[i] \in R /\ Order[i] \in S

AttemptInv(R, B, O) ==
    /\ B.at = "scan" => DOMAIN B.scan = {Order[i] : i \in 1..B.visited}
    /\ B.at \in {"copy", "rescan"} => DOMAIN B.scan = Names
    /\ B.at \in {"scan", "copy", "rescan"} => O = None
    /\ B.at = "copy" => (B.whole \/ Ahead(R, 0, Names))
    /\ B.at = "rescan" => (B.whole \/ Ahead(R, B.visited, Names))
    /\ B.at = "compare" => O # None /\ (B.whole \/ Ahead(R, B.visited, Tables))
    /\ B.at = "complete" => B.whole

BackupInv(D, R, B, O) ==
    /\ B = Attempt(B.at, B.visited, B.scan, B.whole)
    /\ B.at \in {"stopped", "scan", "copy", "rescan", "compare", "complete"}
    /\ B.visited \in Nat /\ B.whole \in BOOLEAN
    /\ B.at \in {"scan", "rescan", "compare"} => B.visited < Len(Order)
    /\ B.scan = [f \in DOMAIN B.scan |-> B.scan[f]] /\ Faithful(D, R, B.scan)
    /\ AttemptInv(R, B, O)
    /\ O # None => O.whole /\ DOMAIN O.tree = Names /\ Faithful(D, R, O.tree)

LEMMA Places ==
    /\ Len(Order) \in Nat \ {0} /\ Names = {Order[i] : i \in Positions}
    /\ Tables \subseteq Names
<1>1. Order \in Seq(Names) /\ Order # <<>> /\ Names = {Order[i] : i \in DOMAIN Order}
  BY OrderAssumption, Zenon
<1>2. DOMAIN Order = 1..Len(Order) /\ Len(Order) \in Nat
  BY <1>1
<1>3. Len(Order) # 0
  BY <1>1
<1>. QED
  BY <1>1, <1>2, <1>3 DEF Positions, Names

\* Replacing a file: the backup no longer believes what it has of it.
LEMMA ReplacedStays ==
    ASSUME NEW D, NEW R, NEW D2, NEW R2, R \subseteq R2, \A f : f \notin R2 => In(D2, f) = In(D, f),
           NEW B, NEW O, BackupInv(D, R, B, O)
    PROVE  BackupInv(D2, R2, B, O)
<1>1. \A t : Faithful(D, R, t) => Faithful(D2, R2, t)
  BY DEF Faithful
<1>2. \A n, S : Ahead(R, n, S) => Ahead(R2, n, S)
  BY DEF Ahead
<1>3. AttemptInv(R2, B, O)
  BY <1>2 DEF BackupInv, AttemptInv
<1>. QED
  BY <1>1, <1>3 DEF BackupInv

\* An attempt with some of its fields changed.
Going(B, at) == [B EXCEPT !.at = at]
GoingBack(B, at, visited) == [B EXCEPT !.at = at, !.visited = visited]
Judged(B, at, whole) == [B EXCEPT !.at = at, !.whole = whole]
Onward(B, visited) == [B EXCEPT !.visited = visited]
Scanned(B, visited, scan) == [[B EXCEPT !.visited = visited] EXCEPT !.scan = scan]
LEMMA AttemptWith ==
    ASSUME NEW B, B = Attempt(B.at, B.visited, B.scan, B.whole), B.whole \in BOOLEAN,
           NEW at, NEW visited, NEW scan, NEW whole \in BOOLEAN
    PROVE  /\ Going(B, at) = Attempt(at, B.visited, B.scan, B.whole)
           /\ GoingBack(B, at, visited) = Attempt(at, visited, B.scan, B.whole)
           /\ Judged(B, at, whole) = Attempt(at, B.visited, B.scan, whole)
           /\ Onward(B, visited) = Attempt(B.at, visited, B.scan, B.whole)
           /\ Scanned(B, visited, scan) = Attempt(B.at, visited, scan, B.whole)
<1>. DEFINE Around == [at : {B.at, at}, visited : {B.visited, visited}, scan : {B.scan, scan},
                    whole : BOOLEAN]
            b1 == Going(B, at)
            b2 == GoingBack(B, at, visited)
            b3 == Judged(B, at, whole)
            b4 == Onward(B, visited)
            b5 == Scanned(B, visited, scan)
<1>1. B \in Around
  BY DEF Attempt
<1>2. b1 \in Around /\ b1.at = at /\ b1.visited = B.visited /\ b1.scan = B.scan /\ b1.whole = B.whole
  BY <1>1 DEF Going
<1>3. b2 \in Around /\ b2.at = at /\ b2.visited = visited /\ b2.scan = B.scan /\ b2.whole = B.whole
  BY <1>1 DEF GoingBack
<1>4. b3 \in Around /\ b3.at = at /\ b3.visited = B.visited /\ b3.scan = B.scan /\ b3.whole = whole
  BY <1>1 DEF Judged
<1>5. b4 \in Around /\ b4.at = B.at /\ b4.visited = visited /\ b4.scan = B.scan /\ b4.whole = B.whole
  BY <1>1 DEF Onward
<1>6. b5 \in Around /\ b5.at = B.at /\ b5.visited = visited /\ b5.scan = scan /\ b5.whole = B.whole
  BY <1>1 DEF Scanned
<1>7. \A b \in Around : b = Attempt(b.at, b.visited, b.scan, b.whole)
  BY DEF Attempt
<1>. HIDE DEF Around, b1, b2, b3, b4, b5
<1>8. /\ b1 = Attempt(at, B.visited, B.scan, B.whole) /\ b2 = Attempt(at, visited, B.scan, B.whole)
      /\ b3 = Attempt(at, B.visited, B.scan, whole) /\ b4 = Attempt(B.at, visited, B.scan, B.whole)
      /\ b5 = Attempt(B.at, visited, scan, B.whole)
  BY <1>2, <1>3, <1>4, <1>5, <1>6, <1>7
<1>. QED
  BY <1>8 DEF b1, b2, b3, b4, b5

BackupOK == BackupInv(disk, replaced, backup, output)

LEMMA FileIs == /\ \A f : FileAt(f) = In(disk, f)
                /\ Tree = [f \in Names |-> In(disk, f)]
BY DEF FileAt, In, Tree

\* An attempt that has stopped claims nothing.
LEMMA StoppedInv ==
    ASSUME BackupOK, NEW R, output # None => replaced \subseteq R
    PROVE  BackupInv(disk, R, Stopped, output)
<1>1. /\ Stopped.at = "stopped" /\ Stopped.visited = 0 /\ Stopped.scan = Empty /\ Stopped.whole = FALSE
      /\ Stopped = Attempt("stopped", 0, Empty, FALSE)
  BY DEF Stopped, Attempt
<1>2. Empty = [f \in DOMAIN Empty |-> Empty[f]] /\ Faithful(disk, R, Empty)
  BY DEF Empty, Faithful
<1>3. output # None => output.whole /\ DOMAIN output.tree = Names /\ Faithful(disk, R, output.tree)
  BY DEF BackupOK, BackupInv, Faithful
<1>4. AttemptInv(R, Stopped, output)
  BY <1>1 DEF AttemptInv
<1>5. Stopped.visited \in Nat /\ Stopped.whole \in BOOLEAN
  BY DEF Stopped
<1>. QED
  BY <1>1, <1>2, <1>3, <1>4, <1>5 DEF BackupInv

LEMMA StopKeeps ==
    ASSUME BackupOK, Stop, UNCHANGED <<disk, output>>
    PROVE  BackupOK'
<1>1. output # None => replaced \subseteq replaced'
  BY DEF Stop
<1>2. PICK R : R = replaced'
  OBVIOUS
<1>3. BackupInv(disk, R, Stopped, output)
  <2>1. output # None => replaced \subseteq R
    BY <1>1, <1>2
  <2>. QED
    BY <2>1, StoppedInv
<1>. QED
  BY <1>2, <1>3 DEF BackupOK, Stop

LEMMA StartBackupKeeps ==
    ASSUME BackupOK, StartBackup
    PROVE  BackupOK'
<1>1. /\ Stopped = Attempt(Stopped.at, Stopped.visited, Stopped.scan, Stopped.whole)
      /\ Stopped.visited = 0 /\ Stopped.scan = Empty /\ Stopped.whole = FALSE
  BY DEF Stopped, Attempt
<1>2. Empty = [f \in DOMAIN Empty |-> Empty[f]] /\ Faithful(disk, replaced, Empty) /\ DOMAIN Empty = {}
  BY DEF Empty, Faithful
<1>3. output # None => output.whole /\ DOMAIN output.tree = Names /\ Faithful(disk, replaced, output.tree)
  BY DEF BackupOK, BackupInv
<1>4. CASE output = None
  <2>1. backup' = Going(Stopped, "scan") /\ UNCHANGED <<disk, replaced, output>>
    BY <1>4, Zenon DEF StartBackup, Going
  <2>2. PICK B : B = backup'
    OBVIOUS
  <2>3. B = Attempt("scan", 0, Empty, FALSE)
    BY <2>1, <2>2, <1>1, AttemptWith
  <2>4. B.at = "scan" /\ B.visited = 0 /\ B.scan = Empty /\ B.whole = FALSE
        /\ B = Attempt(B.at, B.visited, B.scan, B.whole)
    BY <2>3 DEF Attempt
  <2>5. DOMAIN B.scan = {Order[i] : i \in 1..B.visited}
    BY <2>4, <1>2
  <2>6. AttemptInv(replaced, B, output)
    BY <2>4, <2>5, <1>4 DEF AttemptInv
  <2>7. B.visited \in Nat /\ B.visited < Len(Order)
    BY <2>4, Places
  <2>8. BackupInv(disk, replaced, B, output)
    BY <2>4, <2>6, <2>7, <1>2, <1>3 DEF BackupInv
  <2>. QED
    BY <2>1, <2>2, <2>8 DEF BackupOK
<1>5. CASE output # None
  <2>1. PICK w \in BOOLEAN : w = Agrees(output.tree)
    BY Zenon DEF Agrees
  <2>2. backup' = Judged(Stopped, "compare", w) /\ UNCHANGED <<disk, replaced, output>>
    BY <1>5, <2>1, Zenon DEF StartBackup, Judged
  <2>3. PICK B : B = backup'
    OBVIOUS
  <2>4. B = Attempt("compare", 0, Empty, w)
    BY <2>2, <2>3, <1>1, AttemptWith
  <2>5. B.at = "compare" /\ B.visited = 0 /\ B.scan = Empty /\ B.whole = w
        /\ B = Attempt(B.at, B.visited, B.scan, B.whole)
    BY <2>4 DEF Attempt
  <2>6. w \/ Ahead(replaced, 0, Tables)
    <3>. SUFFICES ASSUME ~w PROVE Ahead(replaced, 0, Tables)
      OBVIOUS
    <3>1. PICK f \in Tables : output.tree[f] # In(disk, f)
      BY <2>1, FileIs DEF Agrees
    <3>2. f \in Names /\ f \in replaced
      BY <3>1, <1>3, <1>5, Places DEF Faithful
    <3>. QED
      BY <3>2, Places DEF Ahead, Positions
  <2>7. BackupInv(disk, replaced, B, output)
    BY <2>5, <2>6, <1>2, <1>3, <1>5, Places DEF BackupInv, AttemptInv
  <2>. QED
    BY <2>2, <2>3, <2>7 DEF BackupOK
<1>. QED
  BY <1>4, <1>5

\* A visit passes by a file that was not replaced.
LEMMA Passes ==
    ASSUME NEW R, NEW n \in Nat, NEW S, n < Len(Order), Ahead(R, n, S),
           ~ (Order[n + 1] \in R /\ Order[n + 1] \in S)
    PROVE  Ahead(R, n + 1, S) /\ n + 1 < Len(Order)
<1>1. PICK i \in Positions : i > n /\ Order[i] \in R /\ Order[i] \in S
  BY DEF Ahead
<1>2. i # n + 1 /\ i \in Nat /\ i <= Len(Order)
  BY <1>1, Places DEF Positions
<1>3. i > n + 1
  BY <1>1, <1>2
<1>. QED
  BY <1>1, <1>2, <1>3, Places DEF Ahead

LEMMA CompareKeeps ==
    ASSUME BackupOK, Compare
    PROVE  BackupOK'
<1>1. /\ backup.at = "compare" /\ UNCHANGED <<disk, replaced, output>> /\ output # None
      /\ backup.visited \in Nat /\ backup.visited < Len(Order)
      /\ backup.whole \/ Ahead(replaced, backup.visited, Tables)
      /\ backup = Attempt(backup.at, backup.visited, backup.scan, backup.whole)
      /\ backup.whole \in BOOLEAN
  BY DEF Compare, BackupOK, BackupInv, AttemptInv
<1>2. CASE ~Matches(This)
  <2>1. backup' = Stopped
    BY <1>2 DEF Compare
  <2>2. BackupInv(disk, replaced, Stopped, output)
    BY StoppedInv
  <2>. QED
    BY <1>1, <2>1, <2>2 DEF BackupOK
<1>3. CASE Matches(This)
  <2>1. ~ (This \in replaced /\ This \in Tables)
    BY <1>3 DEF Matches, Same
  <2>2. backup.whole \/ (Ahead(replaced, backup.visited + 1, Tables) /\ backup.visited + 1 < Len(Order))
    BY <1>1, <2>1, Passes DEF This
  <2>3. CASE IsLast
    <3>1. backup' = Going(backup, "complete") /\ backup.whole
      BY <1>1, <1>3, <2>2, <2>3, Places DEF Compare, Going, IsLast
    <3>2. PICK B : B = backup'
      OBVIOUS
    <3>3. B = Attempt("complete", backup.visited, backup.scan, backup.whole)
      BY <1>1, <3>1, <3>2, AttemptWith
    <3>4. /\ B.at = "complete" /\ B.visited = backup.visited /\ B.scan = backup.scan
          /\ B.whole = backup.whole /\ B = Attempt(B.at, B.visited, B.scan, B.whole)
      BY <3>3 DEF Attempt
    <3>5. BackupInv(disk, replaced, B, output)
      BY <3>1, <3>4 DEF BackupOK, BackupInv, AttemptInv
    <3>. QED
      BY <1>1, <3>2, <3>5 DEF BackupOK
  <2>4. CASE ~IsLast
    <3>1. backup' = Onward(backup, backup.visited + 1)
      BY <1>3, <2>4, Zenon DEF Compare, Visited, Onward
    <3>2. PICK B : B = backup'
      OBVIOUS
    <3>3. B = Attempt(backup.at, backup.visited + 1, backup.scan, backup.whole)
      BY <1>1, <3>1, <3>2, AttemptWith
    <3>4. /\ B.at = "compare" /\ B.visited = backup.visited + 1 /\ B.scan = backup.scan
          /\ B.whole = backup.whole /\ B = Attempt(B.at, B.visited, B.scan, B.whole)
      BY <1>1, <3>3 DEF Attempt
    <3>5. B.visited \in Nat /\ B.visited < Len(Order)
      BY <1>1, <3>4, <2>4, Places DEF IsLast
    <3>6. BackupInv(disk, replaced, B, output)
      BY <1>1, <2>2, <3>4, <3>5 DEF BackupOK, BackupInv, AttemptInv
    <3>. QED
      BY <1>1, <3>2, <3>6 DEF BackupOK
  <2>. QED
    BY <2>3, <2>4
<1>. QED
  BY <1>2, <1>3

LEMMA ScanKeeps ==
    ASSUME BackupOK, Scan
    PROVE  BackupOK'
<1>1. /\ backup.at = "scan" /\ UNCHANGED <<disk, output>> /\ output = None
      /\ backup.visited \in Nat /\ backup.visited < Len(Order) /\ backup.whole \in BOOLEAN
      /\ backup = Attempt(backup.at, backup.visited, backup.scan, backup.whole)
      /\ DOMAIN backup.scan = {Order[i] : i \in 1..backup.visited}
      /\ Faithful(disk, replaced, backup.scan)
      /\ replaced' = replaced \ {This}
  BY DEF Scan, BackupOK, BackupInv, AttemptInv
<1>2. PICK n : n = backup.visited + 1
  OBVIOUS
<1>3. PICK f, R : f = Order[n] /\ f = This /\ R = replaced \ {f}
  BY <1>2 DEF This
<1>4. Onward(backup, n).scan = backup.scan
  <2>1. Onward(backup, n) = Attempt(backup.at, n, backup.scan, backup.whole)
    BY <1>1, AttemptWith
  <2>. QED
    BY <2>1 DEF Attempt
<1>5. PICK scan : scan = With(backup.scan, f, In(disk, f))
  OBVIOUS
<1>6. PICK now : now = Scanned(backup, n, scan)
  OBVIOUS
<1>7. now = Attempt("scan", n, scan, backup.whole)
  <2>1. Scanned(backup, n, scan) = Attempt(backup.at, n, scan, backup.whole)
    BY <1>1, AttemptWith
  <2>. QED
    BY <2>1, <1>1, <1>6
<1>8. /\ now.at = "scan" /\ now.visited = n /\ now.scan = scan /\ now.whole = backup.whole
      /\ now = Attempt(now.at, now.visited, now.scan, now.whole)
  BY <1>7 DEF Attempt
<1>9. PICK w \in BOOLEAN : w = (now.scan = Tree)
  BY Zenon
<1>10. backup' = IF IsLast THEN Judged(now, "copy", w) ELSE now
  <2>1. [Visited EXCEPT !.scan = With(@, This, FileAt(This))] = now
    BY <1>2, <1>3, <1>4, <1>5, <1>6, FileIs, Zenon DEF Visited, Scanned, Onward
  <2>. QED
    BY <2>1, <1>9, Zenon DEF Scan, Judged
<1>11. n \in Nat /\ n <= Len(Order) /\ (IsLast <=> n = Len(Order))
  BY <1>1, <1>2, Places DEF IsLast
<1>12. DOMAIN scan = {Order[i] : i \in 1..n} /\ scan = [g \in DOMAIN scan |-> scan[g]]
  <2>1. DOMAIN scan = DOMAIN backup.scan \cup {f} /\ scan = [g \in DOMAIN scan |-> scan[g]]
    BY <1>5 DEF With
  <2>2. 1..n = (1..backup.visited) \cup {n}
    BY <1>1, <1>2
  <2>. QED
    BY <2>1, <2>2, <1>1, <1>3
<1>13. Faithful(disk, R, scan)
  BY <1>1, <1>3, <1>5 DEF Faithful, With
<1>14. CASE ~IsLast
  <2>1. backup' = now /\ n < Len(Order)
    BY <1>10, <1>11, <1>14, Places
  <2>2. AttemptInv(R, now, output)
    BY <1>1, <1>8, <1>12 DEF AttemptInv
  <2>3. BackupInv(disk, R, now, output)
    BY <1>1, <1>8, <1>11, <1>12, <1>13, <2>1, <2>2 DEF BackupInv
  <2>. QED
    BY <1>1, <1>3, <2>1, <2>3 DEF BackupOK
<1>15. CASE IsLast
  <2>1. PICK B : B = Judged(now, "copy", w)
    OBVIOUS
  <2>2. B = Attempt("copy", n, scan, w)
    BY <1>1, <1>8, <2>1, AttemptWith
  <2>3. /\ B.at = "copy" /\ B.visited = n /\ B.scan = scan /\ B.whole = w
        /\ B = Attempt(B.at, B.visited, B.scan, B.whole)
    BY <2>2 DEF Attempt
  <2>4. DOMAIN scan = Names
    BY <1>11, <1>12, <1>15, Places DEF Positions
  <2>5. w \/ Ahead(R, 0, Names)
    <3>. SUFFICES ASSUME ~w PROVE Ahead(R, 0, Names)
      OBVIOUS
    <3>1. scan # [g \in Names |-> In(disk, g)]
      BY <1>8, <1>9, FileIs
    <3>2. PICK g \in Names : scan[g] # In(disk, g)
      BY <3>1, <2>4, <1>12
    <3>3. g \in R
      BY <3>2, <2>4, <1>13 DEF Faithful
    <3>. QED
      BY <3>2, <3>3, Places DEF Ahead, Positions
  <2>6. AttemptInv(R, B, output)
    BY <1>1, <2>3, <2>4, <2>5 DEF AttemptInv
  <2>7. B.visited \in Nat /\ B.whole \in BOOLEAN
    BY <1>11, <2>3
  <2>8. BackupInv(disk, R, B, output)
    BY <1>1, <1>12, <1>13, <2>3, <2>6, <2>7 DEF BackupInv
  <2>. QED
    BY <1>1, <1>3, <1>10, <1>15, <2>1, <2>8 DEF BackupOK
<1>. QED
  BY <1>14, <1>15

LEMMA CopyKeeps ==
    ASSUME BackupOK, Copy
    PROVE  BackupOK'
<1>1. /\ backup.at = "copy" /\ UNCHANGED <<disk, output>> /\ output = None
      /\ backup.whole \in BOOLEAN /\ DOMAIN backup.scan = Names
      /\ backup.whole \/ Ahead(replaced, 0, Names)
      /\ backup = Attempt(backup.at, backup.visited, backup.scan, backup.whole)
  BY DEF Copy, BackupOK, BackupInv, AttemptInv
<1>2. CASE Stop
  BY <1>1, <1>2, StopKeeps
<1>3. CASE ~Stop
  <2>1. backup' = GoingBack(backup, "rescan", 0) /\ UNCHANGED replaced
    BY <1>3, Zenon DEF Copy, GoingBack
  <2>2. PICK B : B = backup'
    OBVIOUS
  <2>3. B = Attempt("rescan", 0, backup.scan, backup.whole)
    BY <1>1, <2>1, <2>2, AttemptWith
  <2>4. /\ B.at = "rescan" /\ B.visited = 0 /\ B.scan = backup.scan /\ B.whole = backup.whole
        /\ B = Attempt(B.at, B.visited, B.scan, B.whole)
    BY <2>3 DEF Attempt
  <2>5. AttemptInv(replaced, B, output)
    BY <1>1, <2>4 DEF AttemptInv
  <2>6. BackupInv(disk, replaced, B, output)
    BY <1>1, <2>4, <2>5, Places DEF BackupOK, BackupInv
  <2>. QED
    BY <1>1, <2>1, <2>2, <2>6 DEF BackupOK
<1>. QED
  BY <1>2, <1>3

LEMMA RescanKeeps ==
    ASSUME BackupOK, Rescan
    PROVE  BackupOK'
<1>1. /\ backup.at = "rescan" /\ UNCHANGED disk /\ output = None
      /\ backup.visited \in Nat /\ backup.visited < Len(Order)
      /\ backup.whole \in BOOLEAN /\ DOMAIN backup.scan = Names
      /\ backup.whole \/ Ahead(replaced, backup.visited, Names)
      /\ backup = Attempt(backup.at, backup.visited, backup.scan, backup.whole)
      /\ Faithful(disk, replaced, backup.scan)
  BY DEF Rescan, BackupOK, BackupInv, AttemptInv
<1>2. CASE ~Same(This)
  <2>1. Stop /\ UNCHANGED output
    BY <1>2 DEF Rescan
  <2>. QED
    BY <1>1, <2>1, StopKeeps
<1>3. CASE Same(This)
  <2>1. This \notin replaced
    BY <1>3 DEF Same
  <2>2. backup.whole \/ (Ahead(replaced, backup.visited + 1, Names) /\ backup.visited + 1 < Len(Order))
    BY <1>1, <2>1, Passes DEF This
  <2>3. CASE ~IsLast
    <3>1. backup' = Onward(backup, backup.visited + 1) /\ UNCHANGED <<replaced, output>>
      BY <1>3, <2>3, Zenon DEF Rescan, Visited, Onward
    <3>2. PICK B : B = backup'
      OBVIOUS
    <3>3. B = Attempt(backup.at, backup.visited + 1, backup.scan, backup.whole)
      BY <1>1, <3>1, <3>2, AttemptWith
    <3>4. /\ B.at = "rescan" /\ B.visited = backup.visited + 1 /\ B.scan = backup.scan
          /\ B.whole = backup.whole /\ B = Attempt(B.at, B.visited, B.scan, B.whole)
      BY <1>1, <3>3 DEF Attempt
    <3>5. B.visited \in Nat /\ B.visited < Len(Order)
      BY <1>1, <3>4, <2>3, Places DEF IsLast
    <3>6. AttemptInv(replaced, B, output)
      BY <1>1, <2>2, <3>4 DEF AttemptInv
    <3>7. BackupInv(disk, replaced, B, output)
      BY <1>1, <3>4, <3>5, <3>6 DEF BackupOK, BackupInv
    <3>. QED
      BY <1>1, <3>1, <3>2, <3>7 DEF BackupOK
  <2>4. CASE IsLast
    <3>1. /\ output' = [tree |-> backup.scan, whole |-> backup.whole]
          /\ backup' = Stopped /\ UNCHANGED replaced
      BY <1>3, <2>4 DEF Rescan
    <3>2. PICK O : O = output'
      OBVIOUS
    <3>3. backup.whole
      BY <1>1, <2>2, <2>4, Places DEF IsLast
    <3>4. O.tree = backup.scan /\ O.whole
      BY <3>1, <3>2, <3>3
    <3>5. /\ Stopped.at = "stopped" /\ Stopped.visited \in Nat /\ Stopped.scan = Empty
          /\ Stopped.whole \in BOOLEAN
          /\ Stopped = Attempt(Stopped.at, Stopped.visited, Stopped.scan, Stopped.whole)
      BY DEF Stopped, Attempt
    <3>6. Empty = [f \in DOMAIN Empty |-> Empty[f]] /\ Faithful(disk, replaced, Empty)
      BY DEF Empty, Faithful
    <3>7. AttemptInv(replaced, Stopped, O)
      BY <3>5 DEF AttemptInv
    <3>8. BackupInv(disk, replaced, Stopped, O)
      BY <1>1, <3>4, <3>5, <3>6, <3>7 DEF BackupInv
    <3>. QED
      BY <1>1, <3>1, <3>2, <3>8 DEF BackupOK
  <2>. QED
    BY <2>3, <2>4
<1>. QED
  BY <1>2, <1>3

\* A command that puts a file in place marks it as replaced.
LEMMA WorkKeeps ==
    ASSUME WorkspaceInv, BackupOK, Work
    PROVE  BackupOK'
<1>1. PICK p \in Processes : Moves(p)
  BY WorkspaceMoves DEF Work
<1>2. UNCHANGED <<backup, output>>
  BY DEF Work, backups
<1>3. replaced \subseteq replaced' /\ \A f : f \notin replaced' => In(disk', f) = In(disk, f)
  <2>1. CASE \E q2 : Looks(p, q2)
    BY <2>1 DEF Looks
  <2>2. CASE \E q2, g, c : Puts(p, q2, g, c)
    <3>1. PICK g, c : disk' = With(disk, g, c) /\ replaced' = replaced \cup {g}
      BY <2>2 DEF Puts, Put
    <3>. QED
      BY <3>1 DEF With, In
  <2>. QED
    BY <1>1, <2>1, <2>2 DEF Moves
<1>4. BackupInv(disk', replaced', backup, output)
  BY <1>3, ReplacedStays DEF BackupOK
<1>. QED
  BY <1>2, <1>4 DEF BackupOK

LEMMA BackupStart ==
    ASSUME Init
    PROVE  BackupOK
<1>1. /\ backup = Stopped
      /\ \/ output = None
         \/ output = [tree |-> Tree, whole |-> TRUE]
  BY DEF Init
<1>2. /\ Stopped.at = "stopped" /\ Stopped.visited \in Nat /\ Stopped.scan = Empty
      /\ Stopped.whole \in BOOLEAN
      /\ Stopped = Attempt(Stopped.at, Stopped.visited, Stopped.scan, Stopped.whole)
  BY DEF Stopped, Attempt
<1>3. Empty = [f \in DOMAIN Empty |-> Empty[f]] /\ Faithful(disk, replaced, Empty)
  BY DEF Empty, Faithful
<1>4. AttemptInv(replaced, Stopped, output)
  BY <1>2 DEF AttemptInv
<1>5. output # None => output.whole /\ output.tree = Tree
  BY <1>1
<1>6. DOMAIN Tree = Names /\ Faithful(disk, replaced, Tree)
  BY FileIs DEF Faithful
<1>. QED
  BY <1>1, <1>2, <1>3, <1>4, <1>5, <1>6 DEF BackupOK, BackupInv

\* BackupIsSnapshot: whatever the writers do between any two visits of the attempt, what is
\* published is the workspace of one instant, and an output is found complete only if its
\* tables were those of the workspace at one instant.
THEOREM LegacyBackupIsSnapshot == Spec => []BackupIsSnapshot
<1>1. Init => BackupOK
  BY BackupStart
<1>2. WorkspaceInv /\ BackupOK /\ [Next]_vars => BackupOK'
  <2>. SUFFICES ASSUME WorkspaceInv, BackupOK, [Next]_vars PROVE BackupOK'
    OBVIOUS
  <2>1. CASE Work
    BY <2>1, WorkKeeps
  <2>2. CASE TakeBackup
    <3>1. CASE KillBackup
      BY <3>1, StopKeeps DEF KillBackup
    <3>. QED
      BY <2>2, <3>1, StartBackupKeeps, ScanKeeps, CopyKeeps, RescanKeeps, CompareKeeps DEF TakeBackup
  <2>3. CASE UNCHANGED vars
    BY <2>3 DEF vars, BackupOK
  <2>. QED
    BY <2>1, <2>2, <2>3 DEF Next
<1>3. BackupOK => BackupIsSnapshot
  BY DEF BackupOK, BackupInv, AttemptInv, BackupIsSnapshot
<1>. QED
  BY <1>1, <1>2, <1>3, LegacyWorkspaceInvariant, PTL DEF Spec

=============================================================================
