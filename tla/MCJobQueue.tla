----------------------------- MODULE MCJobQueue -----------------------------
(* An instance of JobQueue for TLC: one job in depth. *)
EXTENDS JobQueue, TLC

CONSTANTS j1, w1, w2, c1, c2

OneJob == {j1}
TwoWorkers == {w1, w2}
TwoCallers == {c1, c2}
ZeroOne == {0, 1}

Symmetry == Permutations({w1, w2}) \cup Permutations({c1, c2})
=============================================================================
