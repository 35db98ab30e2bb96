------------------------------ MODULE MCRanges ------------------------------
(* An instance of Ranges for TLC: files of one or two ranges. *)
EXTENDS Ranges, TLC

CONSTANTS p, r0, r1, w1, clean

Rows == {p, r0, r1}
Subs == <<r0, r1>>
OneWorker == {w1}
OneCaller == {clean}     \* one DeleteJob at a time
Zero == {0}
Numbered == 0 .. 5
\* cut within a segment, nowhere, and too short
Files == {[duration |-> 11, keyframes |-> {0, 3, 5, 8}, n |-> 2],
          [duration |-> 8, keyframes |-> {0, 3, 7}, n |-> 2],
          [duration |-> 4, keyframes |-> {0, 2}, n |-> 2]}
=============================================================================
