------------------------- MODULE MCGraphContinuation -------------------------
(* TLC instances of GraphContinuation.                                     *)
EXTENDS GraphContinuation, TLC

CONSTANTS w1, w2, b1, d1, d2

TwoWorkers == {w1, w2}
OneBaseline == {b1}
TwoDrafts == {d1, d2}

Symmetry == Permutations({w1, w2}) \cup Permutations({d1, d2})
=============================================================================
