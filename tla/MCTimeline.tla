----------------------------- MODULE MCTimeline -----------------------------
(* An instance of Timeline for TLC: four segments of two units. *)
EXTENDS Timeline

Positions == {4}
=============================================================================
