--------------------------- MODULE MCCaptureQueue ---------------------------
(* Bounds for TLC: see the README, "Runs".                                   *)
EXTENDS CaptureQueue

CONSTANTS a1, a2, b1, A, B, w1, w2, x, y

OneSource == [u \in Url |-> A]
TwoSources == [u \in Url |-> IF u = b1 THEN B ELSE A]

AnyAnswer == [u \in Url |-> Version \cup {"soft", "gone", "error"}]
\* One post of A always fails for reasons of its source, one may be deleted, and
\* B's may be gone for good.
SomeAnswers ==
    [u \in Url |-> CASE u = a1 -> {"error"} [] u = a2 -> {"soft", x} [] u = b1 -> {"gone", x}]

Symmetry == Permutations(Worker) \cup Permutations(Version)
=============================================================================
