--------------------------- MODULE FailureHistory ---------------------------
(***************************************************************************)
(* Transcode with a history variable: which jobs a worker has ever         *)
(* reported Failed.  The row does not keep it, and the monitor recovers    *)
(* the two kinds of jobs from different places: a job whose worker died    *)
(* from the files on the volume, a Failed one from last_segment_num        *)
(* (src/ControlPlane/main.go, startPassiveRecoveryMonitor).                *)
(***************************************************************************)
EXTENDS Transcode

VARIABLE failed    \* the jobs that have been Failed so far

historyVars == <<vars, failed>>

HistoryInit == Init /\ failed = {}

HistoryNext ==
  Next /\ failed' = failed \cup {j \in Jobs : jobs'[j].status = "Failed"}

HistorySpec == HistoryInit /\ [][HistoryNext]_historyVars
-----------------------------------------------------------------------------
\* However many workers of a job die and are replaced, ffmpeg never writes again
\* a segment that is stored and still on the volume: "JIT recovery resumes from
\* the latest segment file on disk", README.md:106.  A job that has failed is not
\* spoken of: it is retried from last_segment_num, which may be behind its files.
StoredSegmentsKept ==
  [][\A w \in Workers :
       OpenSegment(w) /\ wk[w].job \notin failed =>
         ~ /\ wk[w].cur \in segments[wk[w].job]
           /\ dirs[wk[w].job].file[wk[w].cur] = "closed"]_historyVars
=============================================================================
