---------------------------- MODULE ControlPlane ----------------------------
(***************************************************************************)
(* The control plane's users of the job store (src/ControlPlane/main.go):  *)
(* the recovery monitor, the session watchdog and the HTTP handlers for    *)
(* segments, playback and sessions.  Each is a goroutine that reads the    *)
(* store, keeps what it read and acts on it with later calls, between      *)
(* which every other goroutine and worker runs.                            *)
(***************************************************************************)
EXTENDS SegmentDir, Faults

CONSTANTS
  Monitors,     \* startPassiveRecoveryMonitor, one per control plane
  Watchdogs,    \* startSessionWatchdog
  Viewers,      \* requests on /hls/ in progress at the same time
  Players,      \* requests on /api/playback/ and /api/session/
  MaxRestarts   \* the configured retry limit; restart counts saturate at it

ASSUME ControlAssumption ==
  /\ Monitors \cup Watchdogs \cup Players \subseteq Callers
  /\ MaxRestarts \in Nat \ {0} /\ Restarts = 0 .. MaxRestarts
  /\ Monitors \cap (Watchdogs \cup Viewers \cup Players) = {}
  /\ Jobs # {}

VARIABLE ctl       \* per goroutine: what it is doing and what it has read

Goroutines == Monitors \cup Watchdogs \cup Viewers \cup Players

\* What a goroutine keeps of a row it read; the rest of the copy is not used.
Copies == [job : Jobs, status : Statuses, restarts : Restarts, lastSeg : Nat]

CopyOf(j) == [job |-> j, status |-> jobs[j].status,
              restarts |-> jobs[j].restarts, lastSeg |-> jobs[j].lastSeg]

\* pc: what comes next; todo: rows of the snapshot still to be handled;
\* copy: the row at hand; seg: the segment or position asked for.
Control ==
  [pc   : {"idle", "list", "dead", "deleteRow", "removeDir", "read", "jit",
           "probed", "enqueue", "seekRow", "seek"},
   todo : SUBSET Copies, copy : Copies, seg : Positions]

Blank(j) == [job |-> j, status |-> "absent", restarts |-> 0, lastSeg |-> 0]
NoCopy == Blank(CHOOSE j \in Jobs : TRUE)
Resting == [pc |-> "idle", todo |-> {}, copy |-> NoCopy, seg |-> 0]

ControlTypeOK == ctl \in [Goroutines -> Control]

Go(g, state) == ctl' = [ctl EXCEPT ![g] = state]

At(g, pc) == ctl[g].pc = pc

Job(g) == ctl[g].copy.job

Bumped(restarts) == IF restarts = MaxRestarts THEN restarts ELSE restarts + 1

\* Enqueue, whose refusal (ErrRecoveryInProgress) callers log or swallow.
Submit(j, req) ==
  IF Exists(j) /\ ~ EnqueueAccepted(j) THEN UNCHANGED queueVars
                                       ELSE Enqueue(j, req)

\* triggerJITRecovery: the row written is built from the copy.
TriggerJIT(copy, start) ==
  Submit(copy.job, [restarts |-> Bumped(copy.restarts), startSeg |-> start,
                    recovering |-> TRUE])
-----------------------------------------------------------------------------
(* Deleting a job: DeleteJob's two statements, then os.RemoveAll.  Callers   *)
(* log a failure of either and go on as if the job were deleted.            *)

\* The first statement, after which g is at the second; a failed one leaves
\* none to make.
BeginDelete(g, j, next, skipped) ==
  /\ \/ DeleteSegments(g, j) /\ Go(g, next) /\ NoFault
     \/ UNCHANGED queueVars /\ Go(g, skipped) /\ Fault("query")
  /\ UNCHANGED dirs

EndDelete(g, from, to) ==
  /\ At(g, from)
  /\ \/ DeleteRow(g) /\ NoFault
     \/ DeletesAbandoned({g}) /\ Fault("query")
  /\ Go(g, IF to = "idle" THEN Resting ELSE [ctl[g] EXCEPT !.pc = to])
  /\ UNCHANGED dirs

\* ListActiveJobs, which lists all but the Cancelled rows.
Listed == {j \in Jobs : jobs[j].status \notin {"absent", "Cancelled"}}

\* The loop over the snapshot goes on with the next row.
NextRow(g) == [ctl[g] EXCEPT !.pc = IF ctl[g].todo = {} THEN "idle" ELSE "list",
                             !.copy = NoCopy]

RemoveJobDir(g) ==
  /\ At(g, "removeDir")
  /\ RemoveDir(Job(g))
  /\ Go(g, NextRow(g))
  /\ NoFault /\ UNCHANGED queueVars

\* A row taken from the snapshot; at pc "list" the loop is between two rows.
Taken(g, copy, pc) ==
  [ctl[g] EXCEPT !.todo = @ \ {copy}, !.copy = copy, !.pc = pc]

DeleteTaken(g, copy) ==
  BeginDelete(g, copy.job, Taken(g, copy, "deleteRow"),
                           Taken(g, copy, "removeDir"))

Skip(g, copy) ==
  Go(g, [ctl[g] EXCEPT !.todo = @ \ {copy},
                       !.pc = IF ctl[g].todo = {copy} THEN "idle" ELSE "list"])
-----------------------------------------------------------------------------
(* startPassiveRecoveryMonitor *)

\* Mutants: Completed jobs are not passed over; the threshold is not compared; a
\* job is looked after only once it is streaming, or only until it is.
DeadOrDone(j) == jobs[j].status # "Failed" /\ jobs[j].hb = "stale"
AnyHeartbeat(j) == /\ jobs[j].status \notin {"Completed", "Failed"}
                   /\ jobs[j].hb # "none"
DeadWhenReady(j) == jobs[j].status = "Ready" /\ jobs[j].hb = "stale"
DeadBeforeReady(j) == jobs[j].status = "Processing" /\ jobs[j].hb = "stale"

DeadWorker(j) == /\ jobs[j].status \notin {"Completed", "Failed"}
                 /\ jobs[j].hb = "stale"

\* One tick: the snapshot, and which of its rows call for something.
MonitorList(m) ==
  /\ At(m, "idle")
  /\ LET found == {j \in Listed : jobs[j].status = "Failed" \/ DeadWorker(j)} IN
       /\ found # {}
       /\ Go(m, [Resting EXCEPT !.pc = "list",
                                !.todo = {CopyOf(j) : j \in found}])
  /\ NoFault /\ UNCHANGED <<queueVars, dirs>>

\* A Failed job with restarts left is retried after its last segment.
RetryFailed(m, copy) ==
  /\ copy.status = "Failed" /\ copy.restarts < MaxRestarts
  /\ TriggerJIT(copy, copy.lastSeg + 1)
  /\ Skip(m, copy)
  /\ NoFault /\ UNCHANGED dirs

\* Mutant: the restart just used up is counted twice.
GiveUpEarly(m, copy) ==
  /\ copy.status = "Failed" /\ copy.restarts + 1 >= MaxRestarts
  /\ DeleteTaken(m, copy)

\* One without is deleted with its files.
GiveUp(m, copy) ==
  /\ copy.status = "Failed" /\ copy.restarts >= MaxRestarts
  /\ DeleteTaken(m, copy)

MarkDead(m, copy) ==
  /\ copy.status # "Failed"
  /\ \/ MarkWorkerAsDead(copy.job)
     \/ (~ Exists(copy.job) \/ jobs[copy.job].disc = MaxDisc)
        /\ UNCHANGED queueVars
  /\ Go(m, Taken(m, copy, "dead"))
  /\ NoFault /\ UNCHANGED dirs

MonitorRow(m) ==
  /\ At(m, "list")
  /\ \E copy \in ctl[m].todo :
       RetryFailed(m, copy) \/ GiveUp(m, copy) \/ MarkDead(m, copy)

\* Mutants: the last segment on disk again; the one after the next.
RecoveryPointRepeats(copy) ==
  IF Files(dirs[copy.job]) # {} THEN Max(Files(dirs[copy.job])) ELSE 0
RecoveryPointSkips(copy) ==
  IF Files(dirs[copy.job]) # {} THEN NextOnDisk(dirs[copy.job]) + 1 ELSE 0

\* The segment to resume from: after the files on disk, else after the last
\* segment of the copy, where 0 stands for none.
RecoveryPoint(copy) ==
  IF Files(dirs[copy.job]) # {} THEN NextOnDisk(dirs[copy.job])
  ELSE IF copy.lastSeg > 0 THEN copy.lastSeg + 1 ELSE 0

RecoverDead(m) ==
  /\ At(m, "dead")
  /\ TriggerJIT(ctl[m].copy, RecoveryPoint(ctl[m].copy))
  /\ Go(m, NextRow(m))
  /\ NoFault /\ UNCHANGED dirs

MonitorStep(m) ==
  \/ MonitorList(m) \/ MonitorRow(m) \/ RecoverDead(m)
  \/ EndDelete(m, "deleteRow", "removeDir") \/ RemoveJobDir(m)
-----------------------------------------------------------------------------
(* startSessionWatchdog *)

\* Mutant: Completed jobs are passed over, as in the recovery monitor.
WatchdogListsRunning(d) ==
  /\ At(d, "idle")
  /\ LET idle == {j \in Listed : /\ jobs[j].status # "Completed"
                                 /\ jobs[j].access = "idle"} IN
       /\ idle # {}
       /\ Go(d, [Resting EXCEPT !.pc = "list", !.todo = {Blank(j) : j \in idle}])
  /\ NoFault /\ UNCHANGED <<queueVars, dirs>>

WatchdogList(d) ==
  /\ At(d, "idle")
  /\ LET idle == {j \in Listed : jobs[j].access = "idle"} IN
       /\ idle # {}
       /\ Go(d, [Resting EXCEPT !.pc = "list", !.todo = {Blank(j) : j \in idle}])
  /\ NoFault /\ UNCHANGED <<queueVars, dirs>>

Reap(d) ==
  /\ At(d, "list")
  /\ \E copy \in ctl[d].todo : DeleteTaken(d, copy)

WatchdogStep(d) ==
  \/ WatchdogList(d) \/ Reap(d)
  \/ EndDelete(d, "deleteRow", "removeDir") \/ RemoveJobDir(d)
-----------------------------------------------------------------------------
(* /hls/<job>/ *)

Touched(j) == IF Exists(j) THEN TouchJob(j) ELSE UNCHANGED queueVars

\* A playlist is served, and the job touched, unless it is missing or Failed.
RequestPlaylist(v, j) ==
  /\ At(v, "idle")
  /\ Exists(j) /\ jobs[j].status # "Failed"
  /\ TouchJob(j)
  /\ NoFault /\ UNCHANGED <<ctl, dirs>>

\* A segment with a row and a file is served; else the request goes on.
Served(j, s) == s \in segments[j] /\ dirs[j].file[s] # "absent"

RequestSegment(v, j, s) ==
  /\ At(v, "idle")
  /\ Touched(j)
  /\ IF Served(j, s) THEN UNCHANGED ctl
     ELSE Go(v, [Resting EXCEPT !.pc = "read", !.copy = Blank(j), !.seg = s])
  /\ NoFault /\ UNCHANGED dirs

\* GetJob: 404 for a missing job, 500 for a Failed one.
ReadJob(v) ==
  /\ At(v, "read")
  /\ Go(v, IF jobs[Job(v)].status \in {"absent", "Failed"} THEN Resting
           ELSE [ctl[v] EXCEPT
                   !.pc = "jit",
                   !.copy = [Blank(Job(v)) EXCEPT
                               !.restarts = jobs[Job(v)].restarts]])
  /\ NoFault /\ UNCHANGED <<queueVars, dirs>>

\* 503 with Retry-After, whatever Enqueue answered.
RequestJIT(v) ==
  /\ At(v, "jit")
  /\ TriggerJIT(ctl[v].copy, ctl[v].seg)
  /\ Go(v, Resting)
  /\ NoFault /\ UNCHANGED dirs

Answering(v) == ReadJob(v) \/ RequestJIT(v)

ViewerStep(v) ==
  \/ \E j \in Jobs : RequestPlaylist(v, j)
  \/ \E j \in Jobs, s \in Segs : RequestSegment(v, j, s)
  \/ Answering(v)
-----------------------------------------------------------------------------
(* /api/playback/ and /api/session/ *)

FreshRequest(pos) == [restarts |-> 0, startSeg |-> pos, recovering |-> FALSE]

\* handlePlaybackRequest: an active job is returned as it is; a failed probe,
\* or one that needs no transcode, ends the request too, without any change.
RequestPlayback(p, j) ==
  /\ At(p, "idle")
  /\ jobs[j].status \notin {"Ready", "Processing", "Completed"}
  /\ Go(p, [Resting EXCEPT !.pc = "probed", !.copy = Blank(j)])
  /\ NoFault /\ UNCHANGED <<queueVars, dirs>>

LookAgain(p) ==
  /\ At(p, "probed")
  /\ Go(p, IF Exists(Job(p)) THEN Resting
           ELSE [ctl[p] EXCEPT !.pc = "enqueue"])
  /\ NoFault /\ UNCHANGED <<queueVars, dirs>>

StartPlayback(p) ==
  /\ At(p, "enqueue")
  /\ Submit(Job(p), FreshRequest(0))
  /\ Go(p, Resting)
  /\ NoFault /\ UNCHANGED dirs

\* Stop is a DeleteJob, and leaves the directory as it is.
RequestStop(p, j) ==
  /\ At(p, "idle")
  /\ BeginDelete(p, j, [Resting EXCEPT !.pc = "deleteRow", !.copy = Blank(j)],
                       Resting)

\* Seek is a DeleteJob and a fresh Enqueue.
RequestSeek(p, j, pos) ==
  /\ At(p, "idle")
  /\ LET at(pc) == [Resting EXCEPT !.pc = pc, !.copy = Blank(j), !.seg = pos]
     IN  BeginDelete(p, j, at("seekRow"), at("seek"))

StartSeek(p) ==
  /\ At(p, "seek")
  /\ Submit(Job(p), FreshRequest(ctl[p].seg))
  /\ Go(p, Resting)
  /\ NoFault /\ UNCHANGED dirs

Handling(p) ==
  \/ LookAgain(p) \/ StartPlayback(p)
  \/ EndDelete(p, "deleteRow", "idle")
  \/ EndDelete(p, "seekRow", "seek")
  \/ StartSeek(p)

PlayerStep(p) ==
  \/ \E j \in Jobs : RequestPlayback(p, j)
  \/ \E j \in Jobs : RequestStop(p, j)
  \/ \E j \in Jobs, pos \in Segs : RequestSeek(p, j, pos)
  \/ Handling(p)
-----------------------------------------------------------------------------
\* The control plane restarts: every goroutine stops where it is.
ControlPlaneCrash ==
  /\ Fault("cpCrash")
  /\ \E g \in Goroutines : ~ At(g, "idle")
  /\ ctl' = [g \in Goroutines |-> Resting]
  /\ DeletesAbandoned(Callers)
  /\ UNCHANGED dirs

\* A client goes away: the request's context is cancelled, and the calls its
\* handler has still to make all fail.
Disconnect(g) ==
  /\ ~ At(g, "idle")
  /\ Fault("disconnect")
  /\ Go(g, Resting)
  /\ DeletesAbandoned({g})
  /\ UNCHANGED dirs

ControlInit == ctl = [g \in Goroutines |-> Resting]

ControlStep ==
  \/ \E m \in Monitors : MonitorStep(m)
  \/ \E d \in Watchdogs : WatchdogStep(d)
  \/ \E v \in Viewers : ViewerStep(v)
  \/ \E p \in Players : PlayerStep(p)
  \/ \E g \in Viewers \cup Players : Disconnect(g)
  \/ ControlPlaneCrash
=============================================================================
