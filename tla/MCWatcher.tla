----------------------------- MODULE MCWatcher -----------------------------
(* An instance of Watcher for TLC: a directory, a video in it, one beside it. *)
EXTENDS Watcher, TLC

CONSTANTS lib, dir, deep, flat, kDir, kVideo, boot, watchman

OneLib == {lib}
MCPaths == {dir, deep, flat}
MCTree == (dir :> Root) @@ (deep :> dir) @@ (flat :> Root)
MCLibs == [p \in MCPaths |-> lib]
MCKeys == (dir :> kDir) @@ (deep :> kVideo) @@ (flat :> kVideo)
MCDirectories == {dir}
NoIdentities == {}
MCDisks == [MCPaths -> {Gone}] \cup {(dir :> Plain) @@ (deep :> Gone) @@ (flat :> Plain)}
TwoScanners == {boot, watchman}
NoTickers == {}
OwnLib == [s \in TwoScanners |-> OneLib]
JustPlain == {Plain}
=============================================================================
