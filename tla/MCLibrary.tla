----------------------------- MODULE MCLibrary -----------------------------
(* Instances of Library for TLC. *)
EXTENDS Library, TLC

CONSTANTS lib, show, old, new, kShow, kOld, kNew, m, n, tick, post

OneLib == {lib}
ShowPaths == {show, old, new}
ShowTree == (show :> Root) @@ (old :> show) @@ (new :> show)
ShowLibs == [p \in ShowPaths |-> lib]
ShowKeys == (show :> kShow) @@ (old :> kOld) @@ (new :> kNew)
TwoIdentities == {m, n}
ShowDisks == {(show :> n) @@ (old :> m) @@ (new :> Gone)}
ShowVolatile == {old, new}
TickAndPost == {tick, post}
OneTick == {tick}
AllLibs == [s \in TickAndPost |-> OneLib]
Either == {Plain, m}
=============================================================================
