----------------------------- MODULE MCRecovery -----------------------------
(* An instance of FailureHistory for TLC. *)
EXTENDS FailureHistory, TLC

CONSTANTS j1, w1, w2, mon

OneJob == {j1}
TwoWorkers == {w1, w2}
OnlyMonitor == {mon}
None == {}
TwoSegs == 0 .. 1
ZeroTwo == 0 .. 2

Symmetry == Permutations({w1, w2})
=============================================================================
