------------------------- MODULE MCCoordinationLease -------------------------
EXTENDS CoordinationLease, TLC
CONSTANTS t1, t2, t3, p1, p2
\* Two threads of one process and a thread of another.
MCProcessOf == (t1 :> p1) @@ (t2 :> p1) @@ (t3 :> p2)
=============================================================================
