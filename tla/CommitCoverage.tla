---------------------------- MODULE CommitCoverage ----------------------------
(***************************************************************************)
(* backup_coverage.py: which committed facts a copy holds, and which copy  *)
(* of a store holds the newest ones.  The facts of a copy are a function   *)
(* from the identities of committed records to their contents; a copy      *)
(* whose records cannot be read has none.                                  *)
(***************************************************************************)
EXTENDS Integers, FiniteSets

CONSTANT Unreadable

Conflict(f, g) == \E x \in DOMAIN f \cap DOMAIN g : f[x] # g[x]
Covers(f, g) == DOMAIN g \subseteq DOMAIN f /\ ~Conflict(f, g)
StrictlyCovers(f, g) == Covers(f, g) /\ DOMAIN g # DOMAIN f

\* coverage_relation in {"equal", "left_contains", "right_contains"}
Comparable(f, g) == Covers(f, g) \/ Covers(g, f)

Readable(copies) == {c \in copies : c.facts # Unreadable}
\* Copies that may hold facts no other copy holds.
Unresolved(copies) ==
    (copies \ Readable(copies)) \cup
    {c \in Readable(copies) : \E d \in Readable(copies) : ~Comparable(c.facts, d.facts)}

Maximal(copies) ==
    {c \in copies : ~ \E d \in copies : StrictlyCovers(d.facts, c.facts)}
LaterCopy(c, d) == c.created > d.created \/ (c.created = d.created /\ c.id > d.id)

\* select_retention_latest: at most one copy.  Equal facts age by timestamp and identity.
RetentionLatest(copies) ==
    LET newest == Maximal(copies \ Unresolved(copies))
    IN {c \in newest : \A d \in newest \ {c} : LaterCopy(c, d)}

=============================================================================
