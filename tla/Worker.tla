------------------------------- MODULE Worker -------------------------------
(***************************************************************************)
(* The compute plane: TranscodeWorker (src/internal/services/worker.go).   *)
(* Each worker runs one job at a time: processJob, with its heartbeat      *)
(* goroutine, its segment watcher and its ffmpeg process, each of which    *)
(* moves on its own.  The queue is reached over HTTP: a call may be lost,  *)
(* and the code logs most failures and goes on.                            *)
(***************************************************************************)
EXTENDS SegmentDir, Faults

VARIABLE wk        \* per worker: processJob's locals and its goroutines

(* pc         where processJob is                                          *)
(* job        the job it runs; restarts, startSeg, lastSeg: its copy of it *)
(* hb         the age of the copy's LastHeartbeat, set once, at the start  *)
(* cancelled  jobCtx is done;  term: the process got SIGTERM               *)
(* ff         the ffmpeg process; from, cur, open: its first segment, the  *)
(*            one it is at, and whether it has that one open               *)
(* told       reportedSegments                                             *)
(* late       ticks of a watcher, of this or an earlier job, with manifest  *)
(*            entries read and not yet reported; mostly it does both at once *)
Steps == {"idle", "claimed", "mkdir", "launch", "manifest", "stream",
          "cleanup", "stopped"}

WorkerState ==
  [pc : Steps, job : Jobs \cup {NoCall},
   restarts : Restarts, startSeg : Positions, lastSeg : Nat,
   hb : {"fresh", "stale"}, cancelled : BOOLEAN, term : BOOLEAN,
   ff : {"none", "run", "ok", "error", "killed"},
   from : Positions, cur : Positions, open : BOOLEAN,
   told : SUBSET Segs, late : SUBSET (Jobs \X SUBSET Segs)]

IdleWorker ==
  [pc |-> "idle", job |-> NoCall, restarts |-> 0, startSeg |-> 0,
   lastSeg |-> 0, hb |-> "fresh", cancelled |-> FALSE, term |-> FALSE,
   ff |-> "none", from |-> 0, cur |-> 0, open |-> FALSE,
   told |-> {}, late |-> {}]

Stopped == [IdleWorker EXCEPT !.pc = "stopped"]

WorkersTypeOK == wk \in [Workers -> WorkerState]

Set(w, state) == wk' = [wk EXCEPT ![w] = state]

Cancel(w) == Set(w, [wk[w] EXCEPT !.cancelled = TRUE])

\* processJob returns: the deferred jobCancel ends the goroutines, and Start
\* looks at its context before it dequeues again.
Return(w) ==
  Set(w, IF wk[w].term THEN Stopped ELSE [IdleWorker EXCEPT !.late = wk[w].late])

\* w's heartbeat goroutine is running, or about to.
Beating(w) == wk[w].pc \notin {"idle", "stopped"} /\ ~ wk[w].cancelled
-----------------------------------------------------------------------------
(* UpdateJob calls: a refused or lost one is logged and forgotten *)

ReportOf(w, status) == [status |-> status, worker |-> w, hb |-> wk[w].hb,
                        lastSeg |-> wk[w].lastSeg]

Delivered(w, status) ==
  LET j == wk[w].job IN
    IF OwnedBy(j, w) THEN UpdateJob(j, ReportOf(w, status))
                     ELSE UNCHANGED queueVars

Lost == UNCHANGED queueVars /\ Fault("lostCall")

Tell(w, status) == \/ Delivered(w, status) /\ NoFault
                   \/ Lost

\* With the worker's own context, which SIGTERM has cancelled.
TellInContext(w, status) ==
  IF wk[w].term THEN UNCHANGED queueVars /\ NoFault ELSE Tell(w, status)
-----------------------------------------------------------------------------
(* processJob *)

\* The worker's copy of the job.
Given(w, j) ==
  [wk[w] EXCEPT !.pc = "claimed", !.job = j, !.restarts = jobs[j].restarts,
                !.startSeg = jobs[j].startSeg, !.lastSeg = jobs[j].lastSeg]

\* Start: the job is claimed in the store even if the answer is lost.
Claim(w, j) ==
  /\ wk[w].pc = "idle"
  /\ Dequeue(j, w)
  /\ \/ Set(w, Given(w, j)) /\ NoFault
     \/ Fault("lostCall") /\ UNCHANGED wk
  /\ UNCHANGED dirs

MarkProcessing(w) ==
  /\ wk[w].pc = "claimed"
  /\ TellInContext(w, "Processing")
  /\ Set(w, [wk[w] EXCEPT !.pc = "mkdir"])
  /\ UNCHANGED dirs

\* The directory is made, and the heartbeat goroutine started.
MakeDir(w) ==
  /\ wk[w].pc = "mkdir"
  /\ dirs' = [dirs EXCEPT ![wk[w].job] = Made(@)]
  /\ Set(w, [wk[w] EXCEPT !.pc = "launch"])
  /\ NoFault /\ UNCHANGED queueVars

\* It cannot be made: the job fails and the worker moves on.
MkdirFails(w) ==
  /\ wk[w].pc = "mkdir"
  /\ Fault("launch")
  /\ IF wk[w].term THEN UNCHANGED queueVars ELSE Delivered(w, "Failed")
  /\ Return(w)
  /\ UNCHANGED dirs

\* The resume point.  An explicit start segment wins; else a restarted job
\* resumes after the files on disk, and only then drops the old manifest.
\* Mutant: what is on disk wins over an explicit start segment.
ResumesWheneverRestarted(w) == wk[w].restarts > 0

ResumesLocally(w) == wk[w].startSeg = 0 /\ wk[w].restarts > 0

Surveyed(w, short) ==
  IF ResumesLocally(w) THEN Repaired(dirs[wk[w].job], short)
                       ELSE dirs[wk[w].job]

ResumePoint(w, short) == IF ResumesLocally(w) THEN NextOnDisk(Surveyed(w, short))
                                              ELSE wk[w].startSeg

Prepared(w, short) ==
  IF ResumesLocally(w) /\ ResumePoint(w, short) > 0
    THEN [Surveyed(w, short) EXCEPT !.manifest = {}]
    ELSE Surveyed(w, short)

Launch(w) ==
  /\ wk[w].pc = "launch" /\ ~ wk[w].cancelled
  /\ \E short \in SUBSET MaybeShort(dirs[wk[w].job]) :
       LET start == ResumePoint(w, short) IN
         /\ dirs' = [dirs EXCEPT ![wk[w].job] = Prepared(w, short)]
         /\ Set(w, [wk[w] EXCEPT
                      !.pc = "manifest", !.ff = "run",
                      !.from = start, !.cur = start,
                      !.lastSeg = IF ResumesLocally(w) /\ start > 0
                                    THEN start - 1 ELSE @,
                      !.restarts = 0, !.startSeg = 0])
  /\ NoFault /\ UNCHANGED queueVars

\* ffmpeg cannot be started, which a cancelled context also causes.
StartFails(w) ==
  /\ wk[w].pc = "launch"
  /\ \E short \in SUBSET MaybeShort(dirs[wk[w].job]) :
       dirs' = [dirs EXCEPT ![wk[w].job] = Prepared(w, short)]
  /\ IF wk[w].cancelled THEN TellInContext(w, "Failed")
                        ELSE Fault("launch") /\ Delivered(w, "Failed")
  /\ Set(w, [wk[w] EXCEPT !.pc = "cleanup"])

\* The poll finds a manifest, this process's or an older one.
MarkReady(w) ==
  /\ wk[w].pc = "manifest"
  /\ dirs[wk[w].job].manifest # {}
  /\ TellInContext(w, "Ready")
  /\ Set(w, [wk[w] EXCEPT !.pc = "stream"])
  /\ UNCHANGED dirs

ManifestTimeout(w) ==
  /\ wk[w].pc = "manifest"
  /\ dirs[wk[w].job].manifest = {}
  /\ IF wk[w].ff = "run"
       THEN /\ Fault("noManifest")
            /\ IF wk[w].term THEN UNCHANGED queueVars
                             ELSE Delivered(w, "Failed")
       ELSE TellInContext(w, "Failed")
  /\ Set(w, [wk[w] EXCEPT !.pc = "cleanup", !.ff = "killed", !.open = FALSE])
  /\ UNCHANGED dirs

\* cmd.Wait has returned.
Completes(w) ==
  /\ wk[w].pc = "stream" /\ wk[w].ff = "ok"
  /\ Tell(w, "Completed")
  /\ Return(w)
  /\ UNCHANGED dirs

Fails(w) ==
  /\ wk[w].pc = "stream" /\ wk[w].ff = "error" /\ ~ wk[w].cancelled
  /\ Tell(w, "Failed")
  /\ Return(w)
  /\ UNCHANGED dirs

Aborts(w) ==
  /\ wk[w].pc = "stream" /\ wk[w].ff \in {"error", "killed"}
  /\ wk[w].cancelled
  /\ Set(w, [wk[w] EXCEPT !.pc = "cleanup"])
  /\ NoFault /\ UNCHANGED <<queueVars, dirs>>

\* cleanupJobDir: the whole directory, whoever else writes in it by now.
Cleanup(w) ==
  /\ wk[w].pc = "cleanup"
  /\ RemoveDir(wk[w].job)
  /\ Return(w)
  /\ NoFault /\ UNCHANGED queueVars
-----------------------------------------------------------------------------
(* The heartbeat goroutine *)

\* Mutant: the heartbeat goroutine is started once the stream is ready.
LoopRunsWhileStreaming(w) == wk[w].pc = "stream" /\ ~ wk[w].cancelled

LoopRuns(w) == /\ wk[w].pc \in {"launch", "manifest", "stream", "cleanup"}
               /\ ~ wk[w].cancelled

\* A call that fails ends the job, whether or not the store has executed it.
BeatLost(w) ==
  /\ Fault("lostCall")
  /\ Heartbeat(wk[w].job, w) \/ UNCHANGED queueVars
  /\ Cancel(w)

Beat(w) ==
  /\ LoopRuns(w)
  /\ \/ Heartbeat(wk[w].job, w) /\ NoFault /\ UNCHANGED wk
     \/ ~ OwnedBy(wk[w].job, w) /\ Cancel(w) /\ NoFault /\ UNCHANGED queueVars
     \/ BeatLost(w)
  /\ UNCHANGED dirs

\* The job as GetJob returns it is gone, or no longer this worker's.
Disowned(w) == \/ jobs[wk[w].job].status \in {"absent", "Cancelled", "Pending"}
               \/ jobs[wk[w].job].worker # w

\* Mutant: only Ready counts as still being the worker's.
StatusCheckStrict(w) ==
  /\ LoopRuns(w)
  /\ jobs[wk[w].job].status # "Ready" \/ Disowned(w)
  /\ Cancel(w)
  /\ NoFault /\ UNCHANGED <<queueVars, dirs>>

\* A GetJob that fails counts as a job that is gone.
StatusCheck(w) ==
  /\ LoopRuns(w)
  /\ \/ Disowned(w) /\ NoFault
     \/ Fault("lostCall")
  /\ Cancel(w)
  /\ UNCHANGED <<queueVars, dirs>>
-----------------------------------------------------------------------------
(* The segment watcher: no ownership is asked for, and a segment whose     *)
(* report fails is reported again                                          *)

\* The entries of the manifest that a tick of the watcher finds new.
Unreported(w) ==
  IF wk[w].pc = "stream" /\ ~ wk[w].cancelled
    THEN {s \in dirs[wk[w].job].manifest :
            /\ s >= wk[w].from /\ s \notin wk[w].told
            /\ \A tick \in wk[w].late : tick[1] = wk[w].job => s \notin tick[2]}
    ELSE {}

\* Entries are reported in turn.  A call that fails, whether or not the store
\* has executed it, is made again by a later tick, and this one goes on.
ReportSegment(w, s) ==
  /\ s \in Unreported(w)
  /\ AddSegment(wk[w].job, s)
  /\ \/ /\ s = Min(Unreported(w)) /\ NoFault
        /\ Set(w, [wk[w] EXCEPT !.told = @ \cup {s}])
     \/ /\ s # Min(Unreported(w)) /\ Fault("lostCall")
        /\ Set(w, [wk[w] EXCEPT !.told = @ \cup {s}])
     \/ Fault("lostCall") /\ UNCHANGED wk
  /\ UNCHANGED dirs

\* The reports of a tick take their time, and the context is looked at only
\* once per tick: they are made whatever has become of the job by then.
ReadAhead(w) ==
  /\ Unreported(w) # {}
  /\ Fault("slowReport")
  /\ Set(w, [wk[w] EXCEPT !.late = @ \cup {<<wk[w].job, Unreported(w)>>}])
  /\ UNCHANGED <<queueVars, dirs>>

\* The tick without the entry it has just reported.
Shorter(tick, s) == IF tick[2] = {s} THEN {} ELSE {<<tick[1], tick[2] \ {s}>>}

\* The store refuses a segment of a job it does not have.
ReportLate(w) ==
  /\ \E tick \in wk[w].late :
       LET j    == tick[1]
           s    == Min(tick[2])
           left == (wk[w].late \ {tick}) \cup Shorter(tick, s) IN
         \/ /\ AddSegment(j, s)
            /\ Set(w, [wk[w] EXCEPT
                         !.late = left,
                         !.told = IF j = wk[w].job THEN @ \cup {s} ELSE @])
         \/ /\ ~ Exists(j) /\ UNCHANGED queueVars
            /\ Set(w, [wk[w] EXCEPT !.late = left])
  /\ NoFault /\ UNCHANGED dirs

Watcher(w) == \/ \E s \in Segs : ReportSegment(w, s)
              \/ ReadAhead(w) \/ ReportLate(w)
-----------------------------------------------------------------------------
(* ffmpeg (external): segment after segment into the job's directory, an   *)
(* error if the directory is gone                                          *)

WriteDir(w, dir) == dirs' = [dirs EXCEPT ![wk[w].job] = dir]

OpenSegment(w) ==
  /\ wk[w].ff = "run" /\ ~ wk[w].open /\ wk[w].cur \in Segs
  /\ LET dir == dirs[wk[w].job] IN
       IF dir.present
         THEN /\ WriteDir(w, [dir EXCEPT !.file[wk[w].cur] = "partial"])
              /\ Set(w, [wk[w] EXCEPT !.open = TRUE])
         ELSE Set(w, [wk[w] EXCEPT !.ff = "error"]) /\ UNCHANGED dirs
  /\ NoFault /\ UNCHANGED queueVars

OthersWrite(w, s) ==
  \E v \in Workers \ {w} : wk[v].job = wk[w].job /\ wk[v].open /\ wk[v].cur = s

CloseSegment(w) ==
  /\ wk[w].ff = "run" /\ wk[w].open
  /\ LET dir == dirs[wk[w].job]
         s   == wk[w].cur IN
       IF dir.present
         THEN /\ WriteDir(w, [dir EXCEPT
                   !.file[s] = IF @ = "absent" \/ OthersWrite(w, s)
                                 THEN @ ELSE "closed",
                   !.manifest = wk[w].from .. s])
              /\ Set(w, [wk[w] EXCEPT !.open = FALSE, !.cur = @ + 1])
         ELSE /\ Set(w, [wk[w] EXCEPT !.open = FALSE, !.ff = "error"])
              /\ UNCHANGED dirs
  /\ NoFault /\ UNCHANGED queueVars

\* The end of the media.  Started past it, ffmpeg has nothing to write, which
\* it may or may not call an error.
EncodeEnds(w) ==
  /\ wk[w].ff = "run" /\ ~ wk[w].open /\ wk[w].cur \notin Segs
  /\ \E result \in {"ok", "error"} :
       /\ result = "error" => wk[w].from \notin Segs
       /\ Set(w, [wk[w] EXCEPT !.ff = result])
  /\ NoFault /\ UNCHANGED <<queueVars, dirs>>

EncodeFails(w) ==
  /\ wk[w].ff = "run"
  /\ Fault("ffmpeg")
  /\ Set(w, [wk[w] EXCEPT !.ff = "error", !.open = FALSE])
  /\ UNCHANGED <<queueVars, dirs>>

\* exec.CommandContext kills the process once jobCtx is done.
Killed(w) ==
  /\ wk[w].ff = "run" /\ wk[w].cancelled
  /\ Set(w, [wk[w] EXCEPT !.ff = "killed", !.open = FALSE])
  /\ NoFault /\ UNCHANGED <<queueVars, dirs>>
-----------------------------------------------------------------------------
(* The process *)

Crash(w) ==
  /\ wk[w].pc # "stopped"
  /\ Fault("crash")
  /\ Set(w, Stopped)
  /\ UNCHANGED <<queueVars, dirs>>

Sigterm(w) ==
  /\ wk[w].pc # "stopped" /\ ~ wk[w].term
  /\ Fault("sigterm")
  /\ Set(w, IF wk[w].pc = "idle" THEN Stopped
            ELSE [wk[w] EXCEPT !.term = TRUE, !.cancelled = TRUE])
  /\ UNCHANGED <<queueVars, dirs>>

\* The copy's LastHeartbeat is older than the threshold before Ready is sent.
FirstSegmentSlow(w) ==
  /\ wk[w].pc = "manifest" /\ wk[w].hb = "fresh"
  /\ Fault("slowFirst")
  /\ Set(w, [wk[w] EXCEPT !.hb = "stale"])
  /\ UNCHANGED <<queueVars, dirs>>
-----------------------------------------------------------------------------
WorkersInit == wk = [w \in Workers |-> IdleWorker]

\* processJob itself, the goroutines and the process around them.
JobThread(w) ==
  \/ MarkProcessing(w) \/ MakeDir(w) \/ MkdirFails(w)
  \/ Launch(w) \/ StartFails(w)
  \/ MarkReady(w) \/ ManifestTimeout(w)
  \/ Completes(w) \/ Fails(w) \/ Aborts(w) \/ Cleanup(w)

HeartbeatLoop(w) == Beat(w) \/ StatusCheck(w)

Ffmpeg(w) == \/ OpenSegment(w) \/ CloseSegment(w) \/ EncodeEnds(w)
             \/ EncodeFails(w) \/ Killed(w)

WorkerStep(w) ==
  \/ \E j \in Jobs : Claim(w, j)
  \/ JobThread(w)
  \/ HeartbeatLoop(w)
  \/ Watcher(w)
  \/ Ffmpeg(w)
  \/ Crash(w) \/ Sigterm(w) \/ FirstSegmentSlow(w)
=============================================================================
