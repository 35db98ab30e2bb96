---------------------------- MODULE MCTranscode ----------------------------
(* Instances of Transcode for TLC. *)
EXTENDS Claims, TLC

CONSTANTS j1, w1, w2, mon, dog, view, play

OneJob == {j1}
NoJobs == {}
OneWorker == {w1}
TwoWorkers == {w1, w2}
OneMonitor == {mon}
OneWatchdog == {dog}
OneViewer == {view}
OnePlayer == {play}
None == {}
AllCallers == {mon, dog, play}
TwoSegs == 0 .. 1
ZeroOne == 0 .. 1

Symmetry == Permutations({w1, w2})
=============================================================================
