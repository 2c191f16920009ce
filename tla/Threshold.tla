------------------------------ MODULE Threshold ------------------------------
(***************************************************************************)
(* The arithmetic of services/threshold.py: how many votes a story needs   *)
(* before it is archived for ever.  Pure operators; the dynamic base is an *)
(* input of StoryArchive.                                                  *)
(***************************************************************************)
EXTENDS Integers, FiniteSets

Larger(a, b) == IF a >= b THEN a ELSE b
Smaller(a, b) == IF a <= b THEN a ELSE b

Clamp(lo, hi, x) == Larger(lo, Smaller(hi, x))

\* Variant: without max(1, ...).
NoFloor(gapScore, base, deleted, blocked) ==
    IF deleted >= 1 THEN base - 2
    ELSE IF blocked >= 1 THEN base - 1
    ELSE base

\* compute_effective_threshold: one source gone lowers the base by two, one
\* source blocked by one, and never below one human vote.  gap_score is a
\* parameter of the code too, and the code never looks at it.
EffectiveThreshold(gapScore, base, deleted, blocked) ==
    IF deleted >= 1 THEN Larger(1, base - 2)
    ELSE IF blocked >= 1 THEN Larger(1, base - 1)
    ELSE base

Urgency(gapScore, deleted, blocked) ==
    IF deleted >= 1 THEN "high"
    ELSE IF blocked >= 1 THEN "medium"
    ELSE "normal"

\* Variant: a source that was never seen alive counts too.
HardUnseen(rows) ==
    Cardinality({r \in rows : r.status = "deleted" /\ r.http \in {404, 410}})

\* count_citation_signals over a set of citation_checks rows.  A row counts
\* as hard only when the source was once seen alive (baseline_at).
HardDeleted(rows) ==
    Cardinality({r \in rows : r.status = "deleted" /\ r.http \in {404, 410}
                              /\ r.witnessed})
HardBlocked(rows) ==
    Cardinality({r \in rows : r.status = "blocked" /\ r.http = 403
                              /\ r.witnessed})
=============================================================================
