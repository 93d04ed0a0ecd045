--------------------------- MODULE MCLegacyBackup ---------------------------
EXTENDS LegacyBackup

CONSTANTS p1, p2, a, b, x, y, z, t, tag

\* Two exports that overlap in the transaction y; the two legs of a transfer, x and z, are
\* in different exports and months; one export also states a holding, t.
MCRowsOf == a :> {x, y} @@ b :> {y, z, t}
MCMonthOf == x :> 2 @@ y :> 2 @@ z :> 1 @@ t :> 2
MCTableOf == x :> "transactions" @@ y :> "transactions" @@ z :> "transactions" @@ t :> "assets"
MCSheets == <<<<"transactions">>, <<"assets">>>>
MCCounterparts == {{x, z}}
MCEdits == {<<y, tag>>}

LastFirst(f, g) == f[2] > g[2]
MCOrder == SetToSortSeq(Transactions, LastFirst) \o <<History>> \o SetToSeq(Archives) \o
           SetToSortSeq(AllPartitions \ Transactions, LastFirst)

Symmetry == Permutations(Processes)
=============================================================================
