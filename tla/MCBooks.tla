------------------------------- MODULE MCBooks -------------------------------
EXTENDS Books
CONSTANTS bank, cash, own

\* Korean time is 540 minutes east.
Clock(day, minute, precision, known, zone) ==
    [day |-> day, minute |-> minute, second |-> 0, precision |-> precision,
     known |-> known, zone |-> zone]

\* Statements of two sources.  x is at half past midnight of day 3 in Korea.
X == [external |-> "x", key |-> bank, type |-> "expense", amount |-> -30, currency |-> "KRW",
      clock |-> Clock(3, 30, "second", TRUE, 540), action |-> "create", target |-> 0]
Y == [X EXCEPT !.external = "y", !.amount = 30, !.type = "income",
               !.clock = Clock(3, 0, "day", FALSE, 0)]
Document(source, rows) == [source |-> source, rows |-> rows]
First1 == Document("bank", <<X>>)
Waiting == Document("bank", <<[X EXCEPT !.action = "pending"], Y>>)
Changed == Document("bank", <<[X EXCEPT !.amount = -31]>>)
Linking == Document("card", <<[X EXCEPT !.external = "z", !.action = "link"]>>)
MCDocuments == {First1, Waiting, Changed, Linking}

\* Workbooks.  The first holds x in London time and two transfers; the second
\* is a later export with a closer counterpart and a row of unknown currency.
Row(type, amount, currency, clock) ==
    [type |-> type, amount |-> amount, currency |-> currency, clock |-> clock, key |-> cash,
     major |-> "move", embedded |-> FALSE, supported |-> TRUE]
Book(rows) == [rows |-> rows]
Export == Book(<<Row("expense", -30, "KRW", Clock(2, 930, "minute", TRUE, 0)),
            Row("transfer", -50, "KRW", Clock(3, 600, "minute", TRUE, 0)),
            Row("transfer", 50, "KRW", Clock(3, 605, "minute", TRUE, 0))>>)
Later == Book(<<[Row("transfer", -50, "KRW", Clock(3, 600, "second", TRUE, 0)) EXCEPT !.embedded = TRUE],
           Row("transfer", 50, "KRW", Clock(3, 601, "minute", TRUE, 0))>>)
Foreign == Book(<<Row("expense", -30, Unknown, Clock(3, 0, "day", FALSE, 0))>>)
MCWorkbooks == {Export, Later, Foreign}

Item(id, day, amount, unit, parent) ==
    [id |-> id, namespace |-> "shop", kind |-> "order", day |-> day, amount |-> amount,
     currency |-> "KRW", unit |-> unit, parent |-> parent, transaction |-> 0]
MCSubmissions == {{Item(1, 2, 80, TRUE, 0)},
                  {Item(2, 3, 30, TRUE, 0), Item(3, 3, -30, TRUE, 0), Item(6, 3, 20, TRUE, 0)},
                  {[Item(4, 3, 30, FALSE, 5) EXCEPT !.kind = "payment_evidence", !.transaction = 1],
                   Item(5, 3, 30, FALSE, 0)}}

S(document) == File("statement", document)
W(book) == File("workbook", book)
MCBatches == {<<S(First1), S(Waiting), W(Export)>>, <<S(Waiting), S(First1), W(Foreign)>>,
              <<S(First1), S(Changed)>>, <<S(Linking), S(Linking), W(Later)>>,
              <<W(Export), W(Later), W(Export)>>}

\* The bounds of the matcher prune only, over every small set of items and target.
ASSUME PruningAssumption ==
    \A n \in 1..4 : \A f \in [1..n -> 0..3] : \A target \in 0..7 :
        BoundsAreExact({[id |-> i, day |-> 0, amount |-> f[i], currency |-> "KRW"] : i \in 1..n},
                       target)
=============================================================================
