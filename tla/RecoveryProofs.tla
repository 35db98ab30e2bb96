--------------------------- MODULE RecoveryProofs ---------------------------
(***************************************************************************)
(* What recovery does to jobs and workers, for any number of them, in the  *)
(* deployments and under the upsets each theorem names: a directory is     *)
(* removed only by a worker that lost its job, only dead workers are       *)
(* declared dead, only exhausted jobs are given up, and the replacement of *)
(* a dead worker never writes again what is stored.                        *)
(***************************************************************************)
EXTENDS TranscodeProofs, FailureHistory

(* Cleanup *)

\* A worker stops for a job, and cleans up after it, once the store no longer
\* counts it as the job's worker; an idle one has nothing to stop for.
LossInv ==
  \A w \in Workers :
    /\ ~ wk[w].term
    /\ wk[w].cancelled => wk[w].pc \notin {"idle", "stopped"}
    /\ wk[w].cancelled \/ wk[w].pc = "cleanup" => ~ OwnedBy(wk[w].job, w)

\* A report of failure that is not lost leaves the worker without the job.
LEMMA FailureGivesUp ==
  ASSUME SystemInv, NEW w \in Workers, wk[w].pc \notin {"idle", "stopped"},
         Delivered(w, "Failed"), NEW j, j = wk[w].job
  PROVE  ~ OwnedBy(j, w)'
<1>1. j \in Jobs /\ jobs \in [Jobs -> JobRow]
  BY DEF SystemInv, SaneWorkers, SaneWorker, QueueTypeOK
<1>2. CASE OwnedBy(j, w)
  <2>1. jobs' = [jobs EXCEPT ![j] = ReportedRow(@, ReportOf(w, "Failed"))]
    BY <1>2 DEF Delivered, UpdateJob
  <2>2. jobs'[j].status = "Failed"
    BY <1>1, <2>1 DEF ReportedRow, ReportOf, JobRow
  <2> QED BY <2>2 DEF OwnedBy, Active
<1>3. CASE ~ OwnedBy(j, w)
  BY <1>3 DEF Delivered, queueVars, OwnedBy
<1> QED BY <1>2, <1>3

\* A worker whose goroutines find that it lost the job, or whose job failed
\* before it streamed, has no claim on it any more; nothing gives it one back.
LEMMA LossStep ==
  ASSUME SystemInv, LossInv, [Next]_vars,
         "lostCall" \notin FaultKinds, "sigterm" \notin FaultKinds
  PROVE  LossInv'
<1>1. wk \in [Workers -> SaneWorkers] /\ jobs \in [Jobs -> JobRow]
  BY DEF SystemInv, QueueTypeOK
<1> DEFINE Safe(w) ==
      /\ ~ wk[w].term
      /\ wk[w].cancelled => wk[w].pc \notin {"idle", "stopped"}
      /\ wk[w].cancelled \/ wk[w].pc = "cleanup" => ~ OwnedBy(wk[w].job, w)
<1>2. SUFFICES ASSUME NEW w \in Workers
               PROVE  Safe(w)'
  BY DEF LossInv
<1>3. Safe(w) /\ wk[w] \in WorkerState
  BY <1>1 DEF LossInv, SaneWorkers
<1>4. wk[w].pc \notin {"idle", "stopped"} => wk[w].job \in Jobs
  BY <1>1 DEF SaneWorkers, SaneWorker
<1>5. ASSUME NEW v \in Workers, NEW k \in Jobs, Claim(v, k)
      PROVE  Safe(w)'
  <2>1. jobs' = [jobs EXCEPT ![k] = ClaimedRow(@, v)] /\ jobs'[k].worker = v
        /\ wk[v].pc = "idle" /\ Set(v, Given(v, k))
    BY <1>1, <1>5 DEF Claim, Dequeue, ClaimedRow, JobRow, Fault
  <2>2. CASE v = w
    <3>1. wk'[w] = Given(w, k)
      BY <1>1, <2>1, <2>2 DEF Set
    <3>2. wk'[w].pc = "claimed" /\ wk'[w].cancelled = wk[w].cancelled
          /\ wk'[w].term = wk[w].term
      BY <1>3, <3>1 DEF Given, WorkerState
    <3> QED BY <1>3, <2>1, <2>2, <3>2
  <2>3. CASE v # w
    <3>1. wk'[w] = wk[w]
      BY <1>1, <2>1, <2>3 DEF Set
    <3>2. ASSUME NEW j \in Jobs, OwnedBy(j, w)'
          PROVE  OwnedBy(j, w)
      BY <1>1, <2>1, <2>3, <3>2 DEF OwnedBy
    <3>3. wk[w].cancelled \/ wk[w].pc = "cleanup" => wk[w].job \in Jobs
      BY <1>3, <1>4
    <3> QED BY <1>3, <3>1, <3>2, <3>3
  <2> QED BY <2>2, <2>3
<1>6. ASSUME OwnershipKept, NEW j \in Jobs, j = wk[w].job, ~ OwnedBy(j, w)
      PROVE  ~ OwnedBy(j, w)'
  BY <1>6 DEF OwnershipKept
\* A step that changes neither what the worker is asked nor where it cleans up.
<1>7. ASSUME OwnershipKept, wk'[w].job = wk[w].job, wk'[w].term = wk[w].term,
             wk'[w].cancelled = wk[w].cancelled,
             wk'[w].pc = wk[w].pc \/ wk'[w].pc \notin {"idle", "stopped", "cleanup"}
      PROVE  Safe(w)'
  <2>1. wk[w].cancelled \/ wk[w].pc = "cleanup" =>
          /\ wk[w].job \in Jobs /\ ~ OwnedBy(wk[w].job, w)
    BY <1>3, <1>4
  <2>2. wk[w].cancelled \/ wk[w].pc = "cleanup" => ~ OwnedBy(wk[w].job, w)'
    BY <1>7, <2>1 DEF OwnershipKept
  <2> QED BY <1>3, <1>7, <2>2
<1>8. ASSUME OwnershipKept, wk'[w] = wk[w]
      PROVE  Safe(w)'
  BY <1>7, <1>8
<1>9. ASSUME OwnershipKept, WorkerStep(w), \A k \in Jobs : ~ Claim(w, k)
      PROVE  Safe(w)'
  <2>1. ASSUME NEW st, Set(w, st)
        PROVE  wk'[w] = st
    BY <1>1, <2>1 DEF Set
  <2>2. ASSUME Return(w)
        PROVE  Safe(w)'
    <3>1. wk'[w] = Stopped \/ wk'[w] = [IdleWorker EXCEPT !.late = wk[w].late]
      BY <2>1, <2>2 DEF Return
    <3>2. wk'[w].pc \in {"idle", "stopped"} /\ ~ wk'[w].cancelled /\ ~ wk'[w].term
      BY <3>1 DEF Stopped, IdleWorker
    <3> QED BY <3>2
  <2>3. ASSUME Cancel(w), ~ OwnedBy(wk[w].job, w), wk[w].pc \notin {"idle", "stopped"}
        PROVE  Safe(w)'
    <3>1. wk'[w].job = wk[w].job /\ wk'[w].pc = wk[w].pc /\ wk'[w].term = wk[w].term
      BY <1>3, <2>1, <2>3 DEF Cancel, WorkerState
    <3>2. ~ OwnedBy(wk[w].job, w)'
      BY <1>4, <1>6, <1>9, <2>3, <3>1
    <3> QED BY <1>3, <2>3, <3>1, <3>2
  <2>4. ASSUME NEW st, Set(w, st), wk[w].pc \notin {"idle", "stopped"},
               st.pc = "cleanup", st.job = wk[w].job, st.term = wk[w].term,
               \A j : j = wk[w].job => ~ OwnedBy(j, w)'
        PROVE  Safe(w)'
    <3>1. wk'[w] = st
      BY <2>1, <2>4
    <3>2. ~ OwnedBy(wk[w].job, w)'
      BY <2>4, <3>1
    <3> QED BY <1>3, <2>4, <3>1, <3>2
  <2>5. CASE JobThread(w)
    <3>1. CASE MarkProcessing(w)
      BY <1>3, <1>7, <1>9, <2>1, <3>1 DEF MarkProcessing, WorkerState
    <3>2. CASE MakeDir(w)
      BY <1>3, <1>7, <1>9, <2>1, <3>2 DEF MakeDir, WorkerState
    <3>3. CASE Launch(w)
      <4>1. PICK start, last :
              Set(w, [wk[w] EXCEPT
                        !.pc = "manifest", !.ff = "run",
                        !.from = start, !.cur = start, !.lastSeg = last,
                        !.restarts = 0, !.startSeg = 0])
        BY <3>3 DEF Launch
      <4>2. wk'[w] = [wk[w] EXCEPT
                        !.pc = "manifest", !.ff = "run",
                        !.from = start, !.cur = start, !.lastSeg = last,
                        !.restarts = 0, !.startSeg = 0]
        BY <2>1, <4>1
      <4>3. /\ wk'[w].job = wk[w].job /\ wk'[w].term = wk[w].term
            /\ wk'[w].cancelled = wk[w].cancelled /\ wk'[w].pc = "manifest"
        BY <1>3, <4>2 DEF WorkerState
      <4> QED BY <1>7, <1>9, <4>3
    <3>4. CASE MarkReady(w)
      BY <1>3, <1>7, <1>9, <2>1, <3>4 DEF MarkReady, WorkerState
    <3>5. CASE StartFails(w)
      <4>1. \A j : j = wk[w].job => ~ OwnedBy(j, w)'
        BY <1>3, <3>5, FailureGivesUp
        DEF StartFails, TellInContext, Tell, Lost, Fault
      <4>2. [wk[w] EXCEPT !.pc = "cleanup"].job = wk[w].job
            /\ [wk[w] EXCEPT !.pc = "cleanup"].term = wk[w].term
            /\ [wk[w] EXCEPT !.pc = "cleanup"].pc = "cleanup"
        BY <1>3 DEF WorkerState
      <4> QED BY <2>4, <3>5, <4>1, <4>2 DEF StartFails
    <3>6. CASE ManifestTimeout(w)
      <4>1. \A j : j = wk[w].job => ~ OwnedBy(j, w)'
        BY <1>3, <3>6, FailureGivesUp
        DEF ManifestTimeout, TellInContext, Tell, Lost, Fault
      <4> DEFINE st == [wk[w] EXCEPT !.pc = "cleanup", !.ff = "killed", !.open = FALSE]
      <4>2. st.job = wk[w].job /\ st.term = wk[w].term /\ st.pc = "cleanup"
        BY <1>3 DEF WorkerState
      <4> QED BY <2>4, <3>6, <4>1, <4>2 DEF ManifestTimeout
    <3>7. CASE Aborts(w)
      <4>1. \A j : j = wk[w].job => ~ OwnedBy(j, w)'
        BY <1>3, <1>4, <1>6, <1>9, <3>7 DEF Aborts
      <4>2. [wk[w] EXCEPT !.pc = "cleanup"].job = wk[w].job
            /\ [wk[w] EXCEPT !.pc = "cleanup"].term = wk[w].term
            /\ [wk[w] EXCEPT !.pc = "cleanup"].pc = "cleanup"
        BY <1>3 DEF WorkerState
      <4> QED BY <2>4, <3>7, <4>1, <4>2 DEF Aborts
    <3>8. CASE MkdirFails(w) \/ Completes(w) \/ Fails(w) \/ Cleanup(w)
      BY <2>2, <3>8 DEF MkdirFails, Completes, Fails, Cleanup
    <3> QED BY <2>5, <3>1, <3>2, <3>3, <3>4, <3>5, <3>6, <3>7, <3>8 DEF JobThread
  <2>6. CASE HeartbeatLoop(w)
    <3>1. LoopRuns(w)
      BY <2>6 DEF HeartbeatLoop, Beat, StatusCheck
    <3>2. CASE UNCHANGED wk
      BY <1>8, <1>9, <3>2
    <3>3. CASE Cancel(w)
      <4>1. ~ OwnedBy(wk[w].job, w) \/ UNCHANGED wk
        BY <2>6 DEF HeartbeatLoop, Beat, BeatLost, StatusCheck, Disowned, Fault,
                    OwnedBy, Active
      <4>2. wk[w].pc \notin {"idle", "stopped"}
        BY <3>1 DEF LoopRuns
      <4> QED BY <1>8, <1>9, <2>3, <3>3, <4>1, <4>2
    <3> QED BY <2>6, <3>2, <3>3 DEF HeartbeatLoop, Beat, BeatLost, StatusCheck
  <2>7. CASE Watcher(w)
    <3>1. ASSUME NEW told, NEW late,
                 \/ Set(w, [wk[w] EXCEPT !.told = told])
                 \/ Set(w, [wk[w] EXCEPT !.late = late])
                 \/ Set(w, [wk[w] EXCEPT !.late = late, !.told = told])
          PROVE  Safe(w)'
      <4>1. /\ wk'[w].job = wk[w].job /\ wk'[w].term = wk[w].term
            /\ wk'[w].cancelled = wk[w].cancelled /\ wk'[w].pc = wk[w].pc
        BY <1>3, <2>1, <3>1 DEF WorkerState
      <4> QED BY <1>7, <1>9, <4>1
    <3>2. CASE \E s \in Segs : ReportSegment(w, s)
      BY <1>8, <1>9, <3>1, <3>2 DEF ReportSegment
    <3>3. CASE ReadAhead(w)
      BY <3>1, <3>3 DEF ReadAhead
    <3>4. CASE ReportLate(w)
      BY <3>1, <3>4 DEF ReportLate
    <3> QED BY <2>7, <3>2, <3>3, <3>4 DEF Watcher
  <2>8. CASE Ffmpeg(w)
    BY <1>7, <1>9, <2>8, FfmpegLeaves
  <2>9. CASE Crash(w)
    BY <2>1, <2>9 DEF Crash, Stopped, IdleWorker
  <2>10. CASE FirstSegmentSlow(w)
    BY <1>3, <1>7, <1>9, <2>1, <2>10 DEF FirstSegmentSlow, WorkerState
  <2>11. ~ Sigterm(w)
    BY DEF Sigterm, Fault
  <2> QED BY <1>9, <2>5, <2>6, <2>7, <2>8, <2>9, <2>10, <2>11 DEF WorkerStep
<1>10. OwnershipKept \/ \E v \in Workers, k \in Jobs : Claim(v, k)
  BY OwnersStep
<1>11. wk'[w] = wk[w] \/ WorkerStep(w)
  BY OthersUntouched DEF Next, vars, Time
<1> QED
  <2> HIDE DEF Safe
  <2> QED BY <1>5, <1>8, <1>9, <1>10, <1>11

\* Where no call is lost and no worker is asked to shut down, a worker removes the
\* shared directory of its job only when the store no longer counts it as the
\* job's worker, whatever crashes, fails, times out or is sought meanwhile.
THEOREM CleanupIsSafe ==
  ASSUME "lostCall" \notin FaultKinds, "sigterm" \notin FaultKinds
  PROVE  Spec => CleanupOnlyAfterLoss
<1>1. Init => LossInv
  BY DEF Init, WorkersInit, IdleWorker, LossInv
<1>2. SystemInv /\ LossInv /\ [Next]_vars => LossInv'
  BY LossStep
<1>3. LossInv => \A w \in Workers : Cleanup(w) => ~ OwnedBy(wk[w].job, w)
  BY DEF LossInv, Cleanup
<1> QED BY <1>1, <1>2, <1>3, SystemSafe, PTL DEF Spec, CleanupOnlyAfterLoss
-----------------------------------------------------------------------------
(* Where recovery is the only one to enqueue again *)

\* No client asks for a segment, a playback or a session, and one control plane
\* runs: jobs are those enqueued before.
OneMonitor == \A m, n \in Monitors : m = n
NoClients == Viewers = {} /\ Players = {}

\* The monitor retries a row of its snapshot, or recovers the one at hand.
Recovers(m, j) ==
  \/ \E copy \in ctl[m].todo : copy.job = j /\ At(m, "list") /\ RetryFailed(m, copy)
  \/ Job(m) = j /\ RecoverDead(m)

\* A DeleteJob of the job comes to its end.
Dropped(j) == \E c \in Callers : deleting[c] = j /\ deleting'[c] = NoCall

\* What becomes of a row that is neither claimed nor recovered.
Calm(j) ==
  /\ jobs'[j].status = "Pending" => jobs[j].status = "Pending"
  /\ jobs'[j].worker \in {jobs[j].worker, NoWorker}
  /\ jobs'[j].status = "Pending" /\ jobs[j].hb = "none" => jobs'[j].hb = "none"
  /\ jobs'[j].hb = "stale" =>
       \/ jobs[j].hb = "stale" \/ ~ Kept(j) \/ "lateBeat" \in FaultKinds
       \/ \E w \in Workers : wk[w].hb = "stale"
  /\ jobs[j].status = "Failed" =>
       \/ jobs'[j].status = "Failed" /\ jobs'[j].restarts = jobs[j].restarts
       \/ Dropped(j)
  /\ Exists(j) /\ ~ Exists(j)' => Dropped(j)

\* The statements other than Enqueue and Claim leave a row calm.
LEMMA CalmStatements ==
  ASSUME SystemInv, NEW k \in Jobs, NEW j \in Jobs,
         \/ UNCHANGED jobs
         \/ \E w \in Workers : Heartbeat(j, w)
         \/ \E w \in Workers, report \in Reports :
              report.worker = w /\ report.hb = wk[w].hb /\ UpdateJob(j, report)
         \/ \E s \in Segs : AddSegment(j, s)
         \/ MarkWorkerAsDead(j) \/ TouchJob(j)
         \/ HeartbeatAges(j) /\ (Kept(j) => "lateBeat" \in FaultKinds)
         \/ RecoveryAges(j) \/ AccessAges(j)
         \/ \E c \in Callers : DeleteRow(c)
  PROVE  Calm(k)
<1>1. jobs \in [Jobs -> JobRow]
  BY DEF SystemInv, QueueTypeOK
<1>2. CASE jobs'[k] = jobs[k]
  BY <1>1, <1>2 DEF Calm, JobRow, Exists
<1>3. CASE \E w \in Workers : Heartbeat(j, w)
  BY <1>1, <1>3 DEF Calm, Heartbeat, OwnedBy, Active, JobRow, Exists
<1>4. ASSUME NEW w \in Workers, NEW report \in Reports, UpdateJob(j, report),
             report.worker = w, report.hb = wk[w].hb
      PROVE  Calm(k)
  <2>1. jobs' = [jobs EXCEPT ![j] = ReportedRow(@, report)] /\ OwnedBy(j, w)
    BY <1>4 DEF UpdateJob
  <2>2. /\ ReportedRow(jobs[j], report).status = report.status
        /\ ReportedRow(jobs[j], report).worker = w
        /\ ReportedRow(jobs[j], report).hb = wk[w].hb
    BY <1>1, <1>4 DEF ReportedRow, JobRow
  <2>3. report.status \notin {"Pending", "absent"}
    BY DEF Reports, Reported
  <2> QED BY <1>1, <1>2, <2>1, <2>2, <2>3 DEF Calm, OwnedBy, Active, Exists
<1>5. ASSUME NEW s \in Segs, AddSegment(j, s)
      PROVE  Calm(k)
  <2>1. jobs' = [jobs EXCEPT ![j] = ExtendedRow(@, s, s \in segments[j])]
    BY <1>5 DEF AddSegment
  <2>2. ASSUME NEW row, row = ExtendedRow(jobs[j], s, s \in segments[j])
        PROVE  /\ row.status = jobs[j].status /\ row.worker = jobs[j].worker
               /\ row.hb = jobs[j].hb /\ row.restarts = jobs[j].restarts
    BY <1>1, <2>2 DEF ExtendedRow, JobRow
  <2> QED BY <1>1, <1>2, <2>1, <2>2 DEF Calm, Exists
<1>6. CASE MarkWorkerAsDead(j) \/ TouchJob(j) \/ RecoveryAges(j) \/ AccessAges(j)
  BY <1>1, <1>6 DEF Calm, MarkWorkerAsDead, TouchJob, RecoveryAges, AccessAges,
                    JobRow, Exists
<1>7. CASE HeartbeatAges(j) /\ (Kept(j) => "lateBeat" \in FaultKinds)
  <2>1. CASE k = j
    <3>1. /\ jobs[j].hb = "fresh" /\ jobs'[j].status = jobs[j].status
          /\ jobs'[j].worker = jobs[j].worker
          /\ jobs'[j].restarts = jobs[j].restarts
      BY <1>1, <1>7 DEF HeartbeatAges, JobRow
    <3> QED BY <1>7, <2>1, <3>1 DEF Calm, Exists
  <2> QED BY <1>1, <1>2, <1>7, <2>1 DEF HeartbeatAges
<1>8. ASSUME NEW c \in Callers, DeleteRow(c)
      PROVE  Calm(k)
  <2>1. \/ jobs'[k] = jobs[k]
        \/ deleting[c] = k /\ deleting'[c] = NoCall /\ jobs'[k] = AbsentRow
    BY <1>1, <1>8 DEF DeleteRow, SystemInv, QueueTypeOK
  <2> QED BY <1>2, <2>1 DEF Calm, Dropped, AbsentRow, Exists
<1> QED BY <1>1, <1>2, <1>3, <1>4, <1>5, <1>6, <1>7, <1>8

\* Without clients, a row is claimed, recovered or calm.
LEMMA CalmStep ==
  ASSUME SystemInv, NoClients, [Next]_vars, NEW j \in Jobs
  PROVE  \/ \E w \in Workers : Claim(w, j)
         \/ \E m \in Monitors : Recovers(m, j)
         \/ Calm(j)
<1>1. jobs \in [Jobs -> JobRow]
  BY DEF SystemInv, QueueTypeOK
<1>2. ASSUME UNCHANGED queueVars \/ UNCHANGED jobs
      PROVE  Calm(j)
  BY <1>2, CalmStatements DEF queueVars
<1>3. ASSUME NEW w \in Workers, WorkerCall(w)
      PROVE  Calm(j) \/ Claim(w, j)
  <2>1. ASSUME NEW k \in Jobs \ {j}, Claim(w, k)
        PROVE  Calm(j)
    <3>1. jobs'[j] = jobs[j]
      BY <1>1, <2>1 DEF Claim, Dequeue
    <3> QED BY <1>1, <3>1 DEF Calm, JobRow, Exists
  <2> QED BY <1>2, <1>3, <2>1, CalmStatements DEF WorkerCall
<1>4. ASSUME NEW k \in Jobs, Time(k)
      PROVE  Calm(j)
  BY <1>4, CalmStatements DEF Time, Fault
<1>5. ASSUME NEW g, NEW from, NEW to, EndDelete(g, from, to), g \in Callers
      PROVE  Calm(j)
  BY <1>2, <1>5, CalmStatements DEF EndDelete, DeletesAbandoned
<1>6. ASSUME NEW copy, NEW start, TriggerJIT(copy, start), copy.job \in Jobs \ {j}
      PROVE  Calm(j)
  <2>1. jobs'[j] = jobs[j]
    BY <1>1, <1>6 DEF TriggerJIT, Submit, Enqueue, Insert, Upsert, queueVars
  <2> QED BY <1>1, <2>1 DEF Calm, JobRow, Exists
<1>7. ASSUME NEW m \in Monitors, MonitorStep(m)
      PROVE  Recovers(m, j) \/ Calm(j)
  <2>1. m \in Callers /\ m \in Goroutines
    BY ControlAssumption DEF Goroutines
  <2>2. ctl[m].todo \subseteq Copies /\ ctl[m].copy \in Copies
    BY <2>1 DEF SystemInv, SaneControl, SaneCopies
  <2>3. ASSUME NEW copy \in ctl[m].todo, At(m, "list"),
               RetryFailed(m, copy) \/ GiveUp(m, copy) \/ MarkDead(m, copy)
        PROVE  Recovers(m, j) \/ Calm(j)
    <3>1. copy.job \in Jobs
      BY <2>2 DEF Copies
    <3>2. CASE RetryFailed(m, copy)
      BY <1>6, <2>3, <3>1, <3>2 DEF RetryFailed, Recovers
    <3>3. CASE GiveUp(m, copy)
      BY <1>2, <3>3 DEF GiveUp, DeleteTaken, BeginDelete, DeleteSegments
    <3>4. CASE MarkDead(m, copy)
      BY <1>2, <3>1, <3>4, CalmStatements DEF MarkDead
    <3> QED BY <2>3, <3>2, <3>3, <3>4
  <2>4. CASE RecoverDead(m)
    BY <1>6, <2>2, <2>4 DEF RecoverDead, Recovers, Job, Copies
  <2> QED BY <1>2, <1>5, <1>7, <2>1, <2>3, <2>4
          DEF MonitorStep, MonitorList, MonitorRow, RemoveJobDir
<1>8. ASSUME NEW d \in Watchdogs, WatchdogStep(d)
      PROVE  Calm(j)
  <2>1. d \in Callers
    BY ControlAssumption
  <2> QED BY <1>2, <1>5, <1>8, <2>1
          DEF WatchdogStep, WatchdogList, Reap, DeleteTaken, BeginDelete, DeleteSegments,
              RemoveJobDir
<1>9. CASE ControlStep
  BY <1>2, <1>7, <1>8, <1>9 DEF ControlStep, NoClients, ControlPlaneCrash, DeletesAbandoned
<1>10. CASE UNCHANGED vars
  BY <1>2, <1>10 DEF vars
<1>11. CASE \E w \in Workers : WorkerStep(w)
  BY <1>3, <1>11, WorkersCall
<1>12. CASE \E k \in Jobs : Time(k)
  BY <1>4, <1>12
<1> QED BY <1>9, <1>10, <1>11, <1>12 DEF Next

\* A monitor works through a snapshot that has one copy of a row, and takes the
\* copy out of it before it acts on it.
TodoOf(m) ==
  /\ ctl[m].pc \in {"idle", "list", "dead", "deleteRow", "removeDir"}
  /\ \A a, b \in ctl[m].todo : a.job = b.job => a = b
  /\ ctl[m].pc \in {"dead", "deleteRow", "removeDir"} =>
       \A a \in ctl[m].todo : a.job # ctl[m].copy.job

TodoInv == \A m \in Monitors : TodoOf(m)

\* Others leave a monitor alone, unless the control plane restarts.
LEMMA MonitorsTurn ==
  ASSUME SystemInv, [Next]_vars, NEW m \in Monitors
  PROVE  \/ MonitorStep(m) /\ UNCHANGED wk
         \/ ctl'[m] = ctl[m]
         \/ ctl'[m] = Resting /\ ControlPlaneCrash
<1>1. ctl \in [Goroutines -> SaneControl] /\ m \in Goroutines
  BY DEF SystemInv, Goroutines
<1>2. CASE ctl' = ctl
  BY <1>2
<1>3. ASSUME NEW g \in Goroutines \ {m}, NEW st, Go(g, st)
      PROVE  ctl'[m] = ctl[m]
  BY <1>1, <1>3 DEF Go
<1>4. ASSUME NEW g \in Goroutines \ {m}, NEW from, NEW to,
             \/ EndDelete(g, from, to) \/ RemoveJobDir(g)
             \/ \E copy : DeleteTaken(g, copy)
             \/ \E j : BeginDelete(g, j, from, to)
      PROVE  ctl'[m] = ctl[m]
  BY <1>3, <1>4 DEF EndDelete, RemoveJobDir, DeleteTaken, BeginDelete
<1>5. ASSUME NEW n \in Monitors \ {m}, MonitorStep(n)
      PROVE  ctl'[m] = ctl[m]
  BY <1>3, <1>4, <1>5 DEF MonitorStep, MonitorList, MonitorRow, RetryFailed, GiveUp,
       MarkDead, Skip, RecoverDead, Goroutines
<1>6. ASSUME NEW d \in Watchdogs, WatchdogStep(d)
      PROVE  ctl'[m] = ctl[m]
  <2>1. d \in Goroutines \ {m}
    BY ControlAssumption DEF Goroutines
  <2> QED BY <1>3, <1>4, <1>6, <2>1 DEF WatchdogStep, WatchdogList, Reap
<1>7. ASSUME NEW v \in Viewers, ViewerStep(v)
      PROVE  ctl'[m] = ctl[m]
  <2>1. v \in Goroutines \ {m}
    BY ControlAssumption DEF Goroutines
  <2> QED BY <1>3, <1>7, <2>1 DEF ViewerStep, RequestPlaylist, RequestSegment,
                                  Answering, ReadJob, RequestJIT
<1>8. ASSUME NEW p \in Players, PlayerStep(p)
      PROVE  ctl'[m] = ctl[m]
  <2>1. p \in Goroutines \ {m}
    BY ControlAssumption DEF Goroutines
  <2> QED BY <1>3, <1>4, <1>8, <2>1 DEF PlayerStep, RequestPlayback, RequestStop,
       RequestSeek, Handling, LookAgain, StartPlayback, StartSeek
<1>9. ASSUME NEW g \in Viewers \cup Players, Disconnect(g)
      PROVE  ctl'[m] = ctl[m]
  <2>1. g \in Goroutines \ {m}
    BY ControlAssumption DEF Goroutines
  <2> QED BY <1>3, <1>9, <2>1 DEF Disconnect
<1>10. CASE ControlPlaneCrash
  BY <1>1, <1>10 DEF ControlPlaneCrash
<1> QED BY <1>2, <1>5, <1>6, <1>7, <1>8, <1>9, <1>10 DEF Next, vars, Time, ControlStep

\* How a step of a monitor changes what it has to do.
LEMMA MonitorMoves ==
  ASSUME SystemInv, NEW m \in Monitors, MonitorStep(m)
  PROVE  \/ /\ MonitorList(m)
            /\ ctl'[m].pc = "list"
            /\ \A a \in ctl'[m].todo : a.job \in Jobs /\ a = CopyOf(a.job)
         \/ \E copy \in ctl[m].todo :
              /\ At(m, "list")
              /\ ctl'[m].todo = ctl[m].todo \ {copy}
              /\ \/ RetryFailed(m, copy) /\ ctl'[m].pc \in {"idle", "list"}
                 \/ /\ GiveUp(m, copy) /\ ctl'[m].copy = copy
                    /\ \/ DeleteSegments(m, copy.job) /\ ctl'[m].pc = "deleteRow"
                       \/ UNCHANGED queueVars /\ ctl'[m].pc = "removeDir"
                 \/ /\ MarkDead(m, copy)
                    /\ ctl'[m].pc = "dead" /\ ctl'[m].copy = copy
         \/ /\ ctl'[m].todo = ctl[m].todo
            /\ \/ /\ EndDelete(m, "deleteRow", "removeDir")
                  /\ ctl'[m].pc = "removeDir" /\ ctl'[m].copy = ctl[m].copy
               \/ RemoveJobDir(m) /\ ctl'[m].pc \in {"idle", "list"}
               \/ RecoverDead(m) /\ ctl'[m].pc \in {"idle", "list"}
<1>1. ctl \in [Goroutines -> SaneControl] /\ m \in Goroutines
  BY DEF SystemInv, Goroutines
<1>2. ctl[m] \in Control
  BY <1>1 DEF SaneControl
<1>3. ASSUME NEW st, Go(m, st)
      PROVE  ctl'[m] = st
  BY <1>1, <1>3 DEF Go
<1>4. CASE MonitorList(m)
  <2>1. PICK found \in SUBSET Jobs :
          Go(m, [Resting EXCEPT !.pc = "list", !.todo = {CopyOf(j) : j \in found}])
    BY <1>4 DEF MonitorList, Listed
  <2>2. ctl'[m].pc = "list" /\ ctl'[m].todo = {CopyOf(j) : j \in found}
    BY <1>3, <2>1 DEF Resting
  <2>3. \A j \in Jobs : CopyOf(j).job = j
    BY DEF CopyOf
  <2> QED BY <1>4, <2>2, <2>3
<1>5. ASSUME NEW copy, Skip(m, copy)
      PROVE  ctl'[m].pc \in {"idle", "list"} /\ ctl'[m].todo = ctl[m].todo \ {copy}
  BY <1>2, <1>3, <1>5 DEF Skip, Control
<1>6. ASSUME NEW copy, NEW pc, Go(m, Taken(m, copy, pc))
      PROVE  /\ ctl'[m].pc = pc /\ ctl'[m].copy = copy
             /\ ctl'[m].todo = ctl[m].todo \ {copy}
  BY <1>2, <1>3, <1>6 DEF Taken, Control
<1>7. CASE MonitorRow(m)
  <2>1. PICK copy \in ctl[m].todo :
          At(m, "list") /\ (RetryFailed(m, copy) \/ GiveUp(m, copy) \/ MarkDead(m, copy))
    BY <1>7 DEF MonitorRow
  <2>2. CASE RetryFailed(m, copy)
    BY <1>5, <2>1, <2>2 DEF RetryFailed
  <2>3. CASE GiveUp(m, copy)
    BY <1>6, <2>1, <2>3 DEF GiveUp, DeleteTaken, BeginDelete
  <2>4. CASE MarkDead(m, copy)
    BY <1>6, <2>1, <2>4 DEF MarkDead
  <2> QED BY <2>1, <2>2, <2>3, <2>4
<1>8. ASSUME Go(m, NextRow(m))
      PROVE  ctl'[m].pc \in {"idle", "list"} /\ ctl'[m].todo = ctl[m].todo
  BY <1>2, <1>3, <1>8 DEF NextRow, Control
<1>9. CASE RecoverDead(m) \/ RemoveJobDir(m)
  BY <1>8, <1>9 DEF RecoverDead, RemoveJobDir
<1>10. CASE EndDelete(m, "deleteRow", "removeDir")
  BY <1>2, <1>3, <1>10 DEF EndDelete, Control
<1> QED BY <1>4, <1>7, <1>9, <1>10 DEF MonitorStep

\* The snapshot is worked off one row at a time.
LEMMA TodoStep ==
  ASSUME SystemInv, TodoInv, [Next]_vars
  PROVE  TodoInv'
<1>1. SUFFICES ASSUME NEW m \in Monitors
               PROVE  TodoOf(m)'
  BY DEF TodoInv
<1> USE DEF TodoOf
<1>2. CASE MonitorStep(m)
  <2>1. /\ \A a, b \in ctl[m].todo : a.job = b.job => a = b
        /\ ctl[m].pc \in {"dead", "deleteRow", "removeDir"} =>
             \A a \in ctl[m].todo : a.job # ctl[m].copy.job
    BY DEF TodoInv
  <2>2. CASE MonitorList(m) /\ ctl'[m].pc = "list"
             /\ \A a \in ctl'[m].todo : a.job \in Jobs /\ a = CopyOf(a.job)
    BY <2>2 DEF CopyOf
  <2>3. ASSUME NEW copy \in ctl[m].todo, ctl'[m].todo = ctl[m].todo \ {copy},
               \/ ctl'[m].pc \in {"idle", "list"}
               \/ /\ ctl'[m].pc \in {"deleteRow", "removeDir", "dead"}
                  /\ ctl'[m].copy = copy
        PROVE  TodoOf(m)'
    BY <2>1, <2>3
  <2>4. CASE /\ ctl'[m].todo = ctl[m].todo
             /\ \/ ctl'[m].pc \in {"idle", "list"}
                \/ /\ ctl[m].pc = "deleteRow" /\ ctl'[m].pc = "removeDir"
                   /\ ctl'[m].copy = ctl[m].copy
    BY <2>1, <2>4
  <2> QED BY <1>2, <2>2, <2>3, <2>4, MonitorMoves DEF EndDelete, At
<1>3. CASE ctl'[m] = ctl[m]
  BY <1>3 DEF TodoInv
<1>4. CASE ctl'[m] = Resting
  BY <1>4 DEF Resting
<1> QED BY <1>2, <1>3, <1>4, MonitorsTurn

(* Only dead workers are declared dead *)

\* Nobody's heartbeat is late: a worker on a job it holds has a recent one, a row
\* that waits for a worker has none, and a row of the snapshot with a dead worker
\* neither waits nor is worked on.
MarkInv ==
  /\ \A w \in Workers : wk[w].hb = "fresh"
  /\ \A j \in Jobs :
       /\ Kept(j) => jobs[j].hb # "stale"
       /\ jobs[j].status = "Pending" => jobs[j].hb = "none"
  /\ \A m \in Monitors : \A copy \in ctl[m].todo :
       copy.status # "Failed" =>
         jobs[copy.job].status # "Pending" /\ ~ Kept(copy.job)

\* A worker comes to work on a job only by claiming it.
LEMMA KeptStep ==
  ASSUME SystemInv, [Next]_vars, NEW j \in Jobs, Kept(j)',
         \A w \in Workers : ~ Claim(w, j),
         jobs'[j].worker \in {jobs[j].worker, NoWorker}
  PROVE  Kept(j)
<1>1. PICK w \in Workers : (Beating(w) /\ wk[w].job = j /\ jobs[j].worker = w)'
  BY DEF Kept
<1>2. jobs[j].worker = w
  BY <1>1, NamesAssumption
<1>3. CASE wk'[w] = wk[w]
  BY <1>1, <1>2, <1>3 DEF Kept, Beating
<1>4. CASE WorkerStep(w)
  <2>1. CASE Steady(w)
    BY <1>1, <1>2, <2>1 DEF Kept, Beating, Steady
  <2>2. CASE Launch(w)
    <3>1. PICK start, last :
            Set(w, [wk[w] EXCEPT
                      !.pc = "manifest", !.ff = "run",
                      !.from = start, !.cur = start, !.lastSeg = last,
                      !.restarts = 0, !.startSeg = 0])
      BY <2>2 DEF Launch
    <3>2. wk'[w].job = wk[w].job
      BY <3>1 DEF Set, SystemInv, SaneWorkers, WorkerState
    <3>3. wk[w].pc = "launch" /\ ~ wk[w].cancelled
      BY <2>2 DEF Launch
    <3> QED BY <1>1, <1>2, <3>2, <3>3 DEF Kept, Beating
  <2>3. ASSUME NEW k \in Jobs, Claim(w, k)
        PROVE  FALSE
    <3>1. wk[w].pc = "idle" /\ (Set(w, Given(w, k)) \/ UNCHANGED wk)
      BY <2>3 DEF Claim
    <3>2. CASE UNCHANGED wk
      BY <1>1, <3>1, <3>2 DEF Beating
    <3>3. CASE Set(w, Given(w, k))
      <4>1. wk[w] \in WorkerState /\ wk'[w] = Given(w, k)
        BY <3>3 DEF Set, SystemInv, SaneWorkers
      <4>2. wk'[w].job = k
        BY <4>1 DEF Given, WorkerState
      <4> QED BY <1>1, <2>3, <4>2
    <3> QED BY <3>1, <3>2, <3>3
  <2> QED BY <1>4, <2>1, <2>2, <2>3, SteadyStep
<1> QED BY <1>3, <1>4, OthersUntouched DEF Next, vars, Time

\* Without late calls and slow encoders, no worker's copy of the heartbeat ages.
LEMMA FreshStep ==
  ASSUME SystemInv, MarkInv, [Next]_vars, "slowFirst" \notin FaultKinds,
         NEW w \in Workers
  PROVE  wk'[w].hb = "fresh"
<1>1. wk[w] \in WorkerState /\ wk[w].hb = "fresh"
  BY DEF SystemInv, SaneWorkers, MarkInv
<1>2. ASSUME NEW st, Set(w, st)
      PROVE  wk'[w] = st
  BY <1>2 DEF Set, SystemInv
<1>3. CASE wk'[w] = wk[w]
  BY <1>1, <1>3
<1>4. CASE Steady(w)
  BY <1>1, <1>4 DEF Steady
<1>5. CASE Launch(w)
  <2>1. PICK start, last :
          Set(w, [wk[w] EXCEPT
                    !.pc = "manifest", !.ff = "run",
                    !.from = start, !.cur = start, !.lastSeg = last,
                    !.restarts = 0, !.startSeg = 0])
    BY <1>5 DEF Launch
  <2> QED BY <1>1, <1>2, <2>1 DEF WorkerState
<1>6. ASSUME NEW k \in Jobs, Claim(w, k)
      PROVE  wk'[w].hb = "fresh"
  <2>1. Set(w, Given(w, k)) \/ UNCHANGED wk
    BY <1>6 DEF Claim
  <2> QED BY <1>1, <1>2, <1>3, <2>1 DEF Given, WorkerState
<1> QED BY <1>3, <1>4, <1>5, <1>6, SteadyStep, OthersUntouched DEF Next, vars, Time

\* A recovery that goes through leaves a row that nobody holds.
LEMMA RecoversRow ==
  ASSUME SystemInv, NEW m \in Monitors, NEW j \in Jobs, Recovers(m, j)
  PROVE  \/ jobs'[j] = jobs[j]
         \/ /\ jobs'[j].status = "Pending" /\ jobs'[j].hb = "none"
            /\ jobs'[j].worker = NoWorker
<1>1. jobs \in [Jobs -> JobRow]
  BY DEF SystemInv, QueueTypeOK
<1>2. PICK copy, start : TriggerJIT(copy, start) /\ copy.job = j
  BY DEF Recovers, RetryFailed, RecoverDead, Job
<1>3. PICK req : Submit(j, req) /\ req.recovering
  BY <1>2 DEF TriggerJIT
<1>4. CASE UNCHANGED queueVars
  BY <1>4 DEF queueVars
<1>5. CASE Insert(j, req)
  BY <1>1, <1>5 DEF Insert, InsertedRow, AbsentRow
<1>6. CASE Upsert(j, req)
  <2>1. jobs'[j] = UpsertedRow(jobs[j], req)
    BY <1>1, <1>6 DEF Upsert
  <2> QED BY <1>1, <1>3, <2>1 DEF UpsertedRow, JobRow
<1> QED BY <1>3, <1>4, <1>5, <1>6 DEF Submit, Enqueue

\* In a snapshot, only one that the monitor is about to drop from it is recovered.
LEMMA OthersNotRecovered ==
  ASSUME OneMonitor, TodoInv, NEW m \in Monitors, NEW copy \in ctl[m].todo,
         NEW n \in Monitors, Recovers(n, copy.job)
  PROVE  RetryFailed(m, copy)
<1>1. n = m /\ TodoOf(m)
  BY DEF OneMonitor, TodoInv
<1>2. ~ RecoverDead(m) \/ Job(m) # copy.job
  BY <1>1 DEF RecoverDead, TodoOf, At, Job
<1> QED BY <1>1, <1>2 DEF Recovers, TodoOf

\* Rows of the snapshot stay as the monitor believes them to be.
LEMMA MarkStep ==
  ASSUME SystemInv, TodoInv, MarkInv, [Next]_vars, OneMonitor, NoClients,
         "lateBeat" \notin FaultKinds, "slowFirst" \notin FaultKinds
  PROVE  MarkInv'
<1>1. jobs \in [Jobs -> JobRow] /\ jobs' \in [Jobs -> JobRow]
  BY SystemStep DEF SystemInv, QueueTypeOK
<1>2. ASSUME NEW w \in Workers, NEW j \in Jobs, Claim(w, j)
      PROVE  /\ jobs[j].status = "Pending"
             /\ jobs'[j].status = "Processing" /\ jobs'[j].hb = "fresh"
  BY <1>1, <1>2 DEF Claim, Dequeue, Claimable, ClaimedRow, JobRow
<1>3. \A w \in Workers : wk'[w].hb = "fresh"
  BY FreshStep
<1> DEFINE Timely(j) == /\ Kept(j) => jobs[j].hb # "stale"
                        /\ jobs[j].status = "Pending" => jobs[j].hb = "none"
<1>4. ASSUME NEW j \in Jobs
      PROVE  Timely(j)'
  <2>1. /\ Kept(j) => jobs[j].hb # "stale"
        /\ jobs[j].status = "Pending" => jobs[j].hb = "none"
    BY DEF MarkInv
  <2>2. CASE \E w \in Workers : Claim(w, j)
    BY <1>2, <2>2
  <2>3. CASE Calm(j) /\ \A w \in Workers : ~ Claim(w, j)
    <3>1. Kept(j)' => Kept(j)
      BY <2>3, KeptStep DEF Calm
    <3> QED BY <2>1, <2>3, <3>1 DEF Calm, MarkInv
  <2>4. ASSUME NEW m \in Monitors, Recovers(m, j), \A w \in Workers : ~ Claim(w, j)
        PROVE  Timely(j)'
    <3>1. CASE jobs'[j] = jobs[j]
      <4>1. Kept(j)' => Kept(j)
        BY <2>4, <3>1, KeptStep
      <4> QED BY <2>1, <3>1, <4>1
    <3>2. CASE jobs'[j].hb = "none"
      BY <3>2
    <3> QED BY <2>4, <3>1, <3>2, RecoversRow
  <2> QED BY <2>2, <2>3, <2>4, CalmStep
<1>5. ASSUME NEW m \in Monitors, NEW copy \in ctl'[m].todo, copy.status # "Failed"
      PROVE  jobs'[copy.job].status # "Pending" /\ ~ Kept(copy.job)'
  <2>1. ctl[m] \in SaneControl
    BY DEF SystemInv, Goroutines
  <2>2. CASE MonitorList(m) /\ UNCHANGED wk
    <3>1. PICK found \in SUBSET Jobs :
            /\ \A j \in found : jobs[j].status = "Failed" \/ DeadWorker(j)
            /\ Go(m, [Resting EXCEPT !.pc = "list", !.todo = {CopyOf(j) : j \in found}])
      BY <2>2 DEF MonitorList, Listed
    <3>2. ctl'[m].todo = {CopyOf(j) : j \in found}
      BY <3>1 DEF Go, SystemInv, Goroutines, Resting
    <3>3. PICK j \in found : copy = CopyOf(j)
      BY <3>2
    <3>4. copy.job = j /\ copy.status = jobs[j].status
      BY <3>3 DEF CopyOf
    <3>5. jobs[j].hb = "stale"
      BY <1>5, <3>1, <3>4 DEF DeadWorker
    <3>6. jobs[j].status # "Pending" /\ ~ Kept(j)
      BY <3>5 DEF MarkInv
    <3>7. jobs' = jobs
      BY <2>2 DEF MonitorList, queueVars
    <3> QED BY <2>2, <3>4, <3>6, <3>7 DEF Kept, Beating
  <2>3. CASE copy \in ctl[m].todo
    <3>1. copy.job \in Jobs
      BY <2>1, <2>3 DEF SaneControl, SaneCopies, Copies
    <3>2. jobs[copy.job].status # "Pending" /\ ~ Kept(copy.job)
      BY <1>5, <2>3 DEF MarkInv
    <3>3. \A w \in Workers : ~ Claim(w, copy.job)
      BY <1>2, <3>1, <3>2
    <3>4. \A n \in Monitors : ~ Recovers(n, copy.job)
      BY <1>5, <2>3, OthersNotRecovered DEF RetryFailed
    <3>5. Calm(copy.job)
      BY <3>1, <3>3, <3>4, CalmStep
    <3> QED BY <3>1, <3>2, <3>3, <3>5, KeptStep DEF Calm
  <2>4. copy \in ctl[m].todo \/ (MonitorList(m) /\ UNCHANGED wk)
    BY <1>5, MonitorsTurn, MonitorMoves DEF Resting
  <2> QED BY <2>2, <2>3, <2>4
<1> QED BY <1>3, <1>4, <1>5 DEF MarkInv

\* Only the monitor counts a discontinuity, and only for a row that it did not
\* read as Failed.
LEMMA DiscontinuityStep ==
  ASSUME SystemInv, [Next]_vars, NEW j \in Jobs, jobs'[j].disc > jobs[j].disc
  PROVE  \E m \in Monitors : \E copy \in ctl[m].todo :
           copy.job = j /\ copy.status # "Failed"
<1>1. jobs \in [Jobs -> JobRow] /\ jobs[j].disc \in Nat
  BY DEF SystemInv, QueueTypeOK, JobRow
<1> DEFINE Counted == \E m \in Monitors : \E copy \in ctl[m].todo :
                        copy.job = j /\ copy.status # "Failed"
<1>2. ASSUME jobs'[j].disc \in {jobs[j].disc, 0}
      PROVE  FALSE
  BY <1>1, <1>2
<1>3. ASSUME NEW k \in Jobs, NEW req \in Requests, Enqueue(k, req)
      PROVE  FALSE
  <2>1. InsertedRow(req).disc = 0 /\ UpsertedRow(jobs[j], req).disc = jobs[j].disc
    BY <1>1 DEF InsertedRow, AbsentRow, UpsertedRow, JobRow
  <2> QED BY <1>1, <1>2, <1>3, <2>1 DEF Enqueue, Insert, Upsert
<1>4. ASSUME NEW k \in Jobs, NEW report \in Reports, UpdateJob(k, report)
      PROVE  FALSE
  <2>1. ReportedRow(jobs[j], report).disc = jobs[j].disc
    BY <1>1 DEF ReportedRow, JobRow
  <2> QED BY <1>1, <1>2, <1>4, <2>1 DEF UpdateJob
<1>5. ASSUME NEW k \in Jobs, NEW s \in Segs, AddSegment(k, s)
      PROVE  FALSE
  <2>1. ExtendedRow(jobs[j], s, s \in segments[j]).disc = jobs[j].disc
    BY <1>1 DEF ExtendedRow, JobRow
  <2> QED BY <1>1, <1>2, <1>5, <2>1 DEF AddSegment
<1>6. ASSUME NEW k \in Jobs, NEW w \in Workers, Claim(w, k)
      PROVE  FALSE
  <2>1. ClaimedRow(jobs[j], w).disc = jobs[j].disc
    BY <1>1 DEF ClaimedRow, JobRow
  <2> QED BY <1>1, <1>2, <1>6, <2>1 DEF Claim, Dequeue
<1>7. ASSUME NEW k \in Jobs,
             \/ \E w \in Workers : Heartbeat(k, w)
             \/ TouchJob(k) \/ HeartbeatAges(k) \/ RecoveryAges(k) \/ AccessAges(k)
      PROVE  FALSE
  BY <1>1, <1>2, <1>7 DEF Heartbeat, TouchJob, HeartbeatAges, RecoveryAges,
                          AccessAges, JobRow
<1>8. ASSUME NEW c \in Callers, DeleteRow(c)
      PROVE  FALSE
  BY <1>1, <1>2, <1>8 DEF DeleteRow, AbsentRow
<1>9. ASSUME NEW m \in Monitors, NEW copy \in ctl[m].todo, copy.job \in Jobs,
             MarkDead(m, copy), MarkWorkerAsDead(copy.job)
      PROVE  Counted
  BY <1>1, <1>2, <1>9 DEF MarkDead, MarkWorkerAsDead
<1>10. ASSUME UNCHANGED jobs
       PROVE  FALSE
  BY <1>2, <1>10
<1>11. ASSUME NEW w \in Workers, WorkerCall(w)
       PROVE  FALSE
  BY <1>4, <1>5, <1>6, <1>7, <1>10, <1>11 DEF WorkerCall, queueVars
<1>12. CASE ControlCall
  BY <1>3, <1>7, <1>8, <1>9, <1>10, <1>12
  DEF ControlCall, queueVars, DeleteSegments, DeletesAbandoned
<1>13. CASE Ageing
  BY <1>7, <1>13 DEF Ageing
<1> QED BY <1>10, <1>11, <1>12, <1>13, SystemCalls DEF vars

\* With one control plane that only its monitor and watchdogs use, and heartbeats
\* that are not late, no worker is ever declared dead while it works on the job,
\* whatever crashes, loses calls or fails between the monitor's snapshot and the
\* mark.
THEOREM OnlyTheDeadMarked ==
  ASSUME OneMonitor, NoClients,
         "lateBeat" \notin FaultKinds, "slowFirst" \notin FaultKinds
  PROVE  Spec => OnlyDeadWorkersMarked
<1>1. Init => TodoInv /\ MarkInv
  <2>1. ASSUME Init, NEW j \in Jobs
        PROVE  jobs[j].hb = "none"
    BY <2>1 DEF Init, InsertedRow, AbsentRow
  <2> QED BY <2>1 DEF Init, WorkersInit, IdleWorker, ControlInit, Resting, Goroutines,
                      TodoInv, TodoOf, MarkInv
<1>2. SystemInv /\ TodoInv /\ MarkInv /\ [Next]_vars => TodoInv' /\ MarkInv'
  BY TodoStep, MarkStep
<1>3. SystemInv /\ MarkInv /\ [Next]_vars =>
        [\A j \in Jobs : jobs'[j].disc > jobs[j].disc => ~ Kept(j)]_vars
  BY DiscontinuityStep DEF MarkInv
<1> QED BY <1>1, <1>2, <1>3, SystemSafe, PTL DEF Spec, OnlyDeadWorkersMarked
-----------------------------------------------------------------------------
(* Only exhausted jobs are given up *)

\* The row is still as the monitor read it: failed, with as many restarts.
Settled(copy) == /\ jobs[copy.job].status = "Failed"
                 /\ jobs[copy.job].restarts = copy.restarts

\* Failed rows of the snapshot are settled, and the one whose DeleteJob is in
\* progress has no restarts left; no other DeleteJob is.
GiveUpInv ==
  /\ \A c \in Callers : deleting[c] # NoCall =>
       c \in Monitors /\ ctl[c].pc = "deleteRow" /\ ctl[c].copy.job = deleting[c]
  /\ \A m \in Monitors :
       /\ \A copy \in ctl[m].todo : copy.status = "Failed" => Settled(copy)
       /\ ctl[m].pc = "deleteRow" =>
            Settled(ctl[m].copy) /\ ctl[m].copy.restarts >= MaxRestarts

\* The jobs of the snapshot and of the row at hand.
LEMMA MonitorsJobs ==
  ASSUME SystemInv, NEW m \in Monitors
  PROVE  /\ m \in Callers /\ m \in Goroutines
         /\ ctl[m].copy \in Copies /\ ctl[m].todo \subseteq Copies
<1>1. m \in Callers /\ m \in Goroutines
  BY ControlAssumption DEF Goroutines
<1> QED BY <1>1 DEF SystemInv, SaneControl, SaneCopies

\* A retry takes the copy out of the snapshot.
LEMMA RetryDrops ==
  ASSUME SystemInv, NEW m \in Monitors, NEW copy \in ctl[m].todo,
         RetryFailed(m, copy)
  PROVE  ctl'[m].todo = ctl[m].todo \ {copy} /\ copy \notin ctl'[m].todo
<1>1. ctl \in [Goroutines -> SaneControl] /\ ctl[m] \in Control
  BY MonitorsJobs DEF SystemInv, SaneControl
<1> QED BY <1>1, MonitorsJobs DEF RetryFailed, Skip, Go, Control

\* A step that is neither the monitor's nor a crash of the control plane deletes
\* nothing and changes no plans.
LEMMA NothingDeleted ==
  ASSUME SystemInv, NoClients, Watchdogs = {}, [Next]_vars
  PROVE  \/ deleting' = deleting /\ ctl' = ctl
         \/ \E m \in Monitors : MonitorStep(m)
         \/ ControlPlaneCrash
<1>1. ASSUME NEW w \in Workers, WorkerCall(w)
      PROVE  deleting' = deleting
  BY <1>1 DEF WorkerCall, queueVars, Claim, Dequeue, Heartbeat, UpdateJob, AddSegment
<1>2. ASSUME NEW j \in Jobs, Time(j)
      PROVE  deleting' = deleting /\ ctl' = ctl
  BY <1>2 DEF Time, HeartbeatAges, RecoveryAges, AccessAges
<1> QED BY <1>1, <1>2, WorkersCall DEF Next, vars, ControlStep, NoClients

\* A settled row is only unsettled by a retry of the monitor, or dropped.
LEMMA SettledStep ==
  ASSUME SystemInv, NoClients, [Next]_vars, NEW copy \in Copies, Settled(copy),
         \A m \in Monitors : ~ Recovers(m, copy.job), ~ Dropped(copy.job)
  PROVE  Settled(copy)'
<1>1. copy.job \in Jobs
  BY DEF Copies
<1>2. \A w \in Workers : ~ Claim(w, copy.job)
  BY <1>1 DEF Settled, Claim, Dequeue, Claimable
<1> QED BY <1>1, <1>2, CalmStep DEF Settled, Calm

\* Between the snapshot and the second statement of DeleteJob nobody but the
\* monitor touches a failed row, so it is still exhausted when it is dropped.
LEMMA GiveUpStep ==
  ASSUME SystemInv, TodoInv, GiveUpInv, [Next]_vars,
         OneMonitor, NoClients, Watchdogs = {}
  PROVE  GiveUpInv'
<1>1. \A c \in Callers : deleting[c] # NoCall =>
        c \in Monitors /\ ctl[c].pc = "deleteRow" /\ ctl[c].copy.job = deleting[c]
  BY DEF GiveUpInv
<1>2. ASSUME NEW m \in Monitors
      PROVE  /\ \A copy \in ctl[m].todo : copy.status = "Failed" => Settled(copy)
             /\ ctl[m].pc = "deleteRow" =>
                  Settled(ctl[m].copy) /\ ctl[m].copy.restarts >= MaxRestarts
  BY DEF GiveUpInv
<1>3. deleting \in [Callers -> Jobs \cup {NoCall}]
  BY DEF SystemInv, QueueTypeOK
\* What is dropped is the row at hand.
<1>4. ASSUME NEW m \in Monitors, NEW j \in Jobs, Dropped(j)
      PROVE  ctl[m].pc = "deleteRow" /\ ctl[m].copy.job = j
  BY <1>1, <1>4, NamesAssumption DEF Dropped, OneMonitor
<1>5. ASSUME NEW m \in Monitors, NEW copy \in ctl[m].todo, copy.status = "Failed",
             ~ RetryFailed(m, copy)
      PROVE  Settled(copy)'
  <2>1. copy \in Copies /\ copy.job \in Jobs
    BY MonitorsJobs DEF Copies
  <2>2. ~ Dropped(copy.job)
    BY <1>4, <2>1 DEF TodoInv, TodoOf
  <2>3. \A n \in Monitors : ~ Recovers(n, copy.job)
    BY <1>5, OthersNotRecovered
  <2> QED BY <1>2, <1>5, <2>1, <2>2, <2>3, SettledStep
<1>6. CASE deleting' = deleting /\ ctl' = ctl
  <2>1. ASSUME NEW m \in Monitors, NEW copy \in Copies, Settled(copy),
               copy \in ctl[m].todo \/ (ctl[m].pc = "deleteRow" /\ copy = ctl[m].copy)
        PROVE  Settled(copy)'
    <3>1. ~ Dropped(copy.job)
      BY <1>6, NamesAssumption DEF Dropped, Copies
    <3>2. ASSUME NEW n \in Monitors, Recovers(n, copy.job)
          PROVE  FALSE
      <4>1. ctl \in [Goroutines -> SaneControl] /\ ctl[n] \in Control
        BY MonitorsJobs DEF SystemInv, SaneControl
      <4>2. RecoverDead(n)
        BY <1>6, <3>2, RetryDrops DEF Recovers
      <4>3. ctl'[n].pc \in {"idle", "list"} /\ ctl[n].pc = "dead"
        BY <4>1, <4>2, MonitorsJobs DEF RecoverDead, NextRow, Go, Control, At
      <4> QED BY <1>6, <4>3
    <3> QED BY <2>1, <3>1, <3>2, SettledStep
  <2>2. ASSUME NEW m \in Monitors
        PROVE  /\ \A copy \in ctl'[m].todo : copy.status = "Failed" => Settled(copy)'
               /\ ctl'[m].pc = "deleteRow" =>
                    Settled(ctl[m].copy)' /\ ctl'[m].copy.restarts >= MaxRestarts
    <3>1. ctl[m].todo \subseteq Copies /\ ctl[m].copy \in Copies
      BY MonitorsJobs
    <3>2. ctl'[m].pc = "deleteRow" => Settled(ctl[m].copy)'
      <4>1. CASE ctl[m].pc = "deleteRow"
        <5>1. PICK copy \in Copies : copy = ctl[m].copy
          BY <3>1
        <5>2. Settled(copy)'
          BY <1>2, <2>1, <4>1, <5>1
        <5> QED BY <1>6, <5>1, <5>2 DEF Settled
      <4> QED BY <1>6, <4>1
    <3>3. ASSUME NEW copy \in ctl[m].todo, copy.status = "Failed"
          PROVE  Settled(copy)'
      <4>1. copy \in Copies /\ Settled(copy)
        BY <1>2, <3>1, <3>3
      <4> QED BY <2>1, <3>3, <4>1
    <3>4. ctl'[m].pc = "deleteRow" => ctl'[m].copy.restarts >= MaxRestarts
      BY <1>2, <1>6
    <3> QED BY <1>6, <3>2, <3>3, <3>4
  <2> QED BY <1>1, <1>6, <2>2 DEF GiveUpInv
<1>7. CASE ControlPlaneCrash
  <2>1. \A c \in Callers : deleting'[c] = NoCall
    BY <1>7 DEF ControlPlaneCrash, DeletesAbandoned
  <2>2. \A m \in Monitors : ctl'[m].todo = {} /\ ctl'[m].pc = "idle"
    BY <1>7, MonitorsJobs DEF ControlPlaneCrash, Resting
  <2> QED BY <2>1, <2>2 DEF GiveUpInv
<1>8. ASSUME NEW m \in Monitors, MonitorStep(m)
      PROVE  GiveUpInv'
  <2>1. m \in Callers /\ \A n \in Monitors : n = m
    BY MonitorsJobs DEF OneMonitor
  <2> DEFINE Plan == /\ \A copy \in ctl[m].todo : copy.status = "Failed" => Settled(copy)
                     /\ ctl[m].pc = "deleteRow" =>
                          Settled(ctl[m].copy) /\ ctl[m].copy.restarts >= MaxRestarts
             Call == \A c \in Callers : deleting[c] # NoCall =>
                       /\ c = m /\ ctl[c].pc = "deleteRow"
                       /\ ctl[c].copy.job = deleting[c]
  <2>2. SUFFICES Plan' /\ Call'
    BY <2>1 DEF GiveUpInv
  <2>3. Plan /\ Call
    BY <1>1, <1>2, <2>1
  <2>4. CASE MonitorList(m) /\ ctl'[m].pc = "list"
             /\ \A a \in ctl'[m].todo : a.job \in Jobs /\ a = CopyOf(a.job)
    <3>1. ctl[m].pc = "idle" /\ UNCHANGED queueVars
      BY <2>4 DEF MonitorList, At
    <3>2. \A c \in Callers : deleting'[c] = NoCall
      BY <2>3, <3>1 DEF queueVars
    <3>3. ASSUME NEW a \in ctl'[m].todo, a.status = "Failed"
          PROVE  Settled(a)'
      <4>1. a.status = jobs[a.job].status /\ a.restarts = jobs[a.job].restarts
        BY <2>4 DEF CopyOf
      <4> QED BY <3>1, <3>3, <4>1 DEF Settled, queueVars
    <3> QED BY <2>4, <3>2, <3>3
  <2>5. ASSUME NEW copy \in ctl[m].todo, At(m, "list"),
               ctl'[m].todo = ctl[m].todo \ {copy},
               \/ RetryFailed(m, copy) /\ ctl'[m].pc \in {"idle", "list"}
               \/ /\ GiveUp(m, copy) /\ ctl'[m].copy = copy
                  /\ \/ DeleteSegments(m, copy.job) /\ ctl'[m].pc = "deleteRow"
                     \/ UNCHANGED queueVars /\ ctl'[m].pc = "removeDir"
               \/ /\ MarkDead(m, copy)
                  /\ ctl'[m].pc = "dead" /\ ctl'[m].copy = copy
        PROVE  Plan' /\ Call'
    <3>1. \A c \in Callers : deleting[c] = NoCall
      BY <2>3, <2>5 DEF At
    <3>2. ASSUME NEW a \in ctl[m].todo \ {copy}, RetryFailed(m, a)
          PROVE  FALSE
      <4>1. ctl'[m].todo = ctl[m].todo \ {a}
        BY <3>2, RetryDrops
      <4> QED BY <2>5, <3>2, <4>1
    <3>3. \A a \in ctl'[m].todo : a.status = "Failed" => Settled(a)'
      BY <1>5, <2>5, <3>2
    <3>4. CASE /\ GiveUp(m, copy) /\ DeleteSegments(m, copy.job)
               /\ ctl'[m].pc = "deleteRow" /\ ctl'[m].copy = copy
      <4>1. /\ deleting' = [deleting EXCEPT ![m] = copy.job] /\ jobs' = jobs
            /\ copy.status = "Failed" /\ copy.restarts >= MaxRestarts
        BY <3>4 DEF GiveUp, DeleteSegments
      <4>2. Settled(copy)'
        BY <2>3, <4>1 DEF Settled
      <4> QED BY <1>3, <2>1, <3>1, <3>3, <3>4, <4>1, <4>2
    <3>5. CASE /\ \/ RetryFailed(m, copy) \/ MarkDead(m, copy)
                  \/ UNCHANGED queueVars
               /\ ctl'[m].pc # "deleteRow"
      <4>1. deleting' = deleting
        BY <3>5 DEF RetryFailed, TriggerJIT, Submit, Enqueue, Insert, Upsert, queueVars,
                    MarkDead, MarkWorkerAsDead
      <4> QED BY <3>1, <3>3, <3>5, <4>1
    <3> QED BY <2>5, <3>4, <3>5
  <2>6. ASSUME ctl'[m].todo = ctl[m].todo,
               \/ /\ EndDelete(m, "deleteRow", "removeDir")
                  /\ ctl'[m].pc = "removeDir" /\ ctl'[m].copy = ctl[m].copy
               \/ RemoveJobDir(m) /\ ctl'[m].pc \in {"idle", "list"}
               \/ RecoverDead(m) /\ ctl'[m].pc \in {"idle", "list"}
        PROVE  Plan' /\ Call'
    <3>1. At(m, "deleteRow") \/ At(m, "removeDir") \/ At(m, "dead")
      BY <2>6 DEF EndDelete, RemoveJobDir, RecoverDead
    <3>2. \A a \in ctl'[m].todo : a.status = "Failed" => Settled(a)'
      BY <1>5, <2>6, RetryDrops
    <3>3. \A c \in Callers : deleting'[c] = NoCall
      <4>1. CASE EndDelete(m, "deleteRow", "removeDir")
        BY <1>3, <2>1, <2>3, <4>1 DEF EndDelete, DeleteRow, DeletesAbandoned
      <4>2. CASE RemoveJobDir(m)
        BY <2>3, <4>2 DEF RemoveJobDir, queueVars, At
      <4>3. CASE RecoverDead(m)
        BY <2>3, <4>3 DEF RecoverDead, At, TriggerJIT, Submit, Enqueue, Insert,
                          Upsert, queueVars
      <4> QED BY <2>6, <4>1, <4>2, <4>3
    <3> QED BY <2>6, <3>2, <3>3
  <2> QED BY <1>8, <2>4, <2>5, <2>6, MonitorMoves
<1> QED BY <1>6, <1>7, <1>8, NothingDeleted

\* Where the monitor of one control plane is the only one that deletes jobs or
\* enqueues them again, it gives up a job only when it has failed with every restart
\* used, even if workers, the control plane or calls fail between its snapshot and
\* the two statements of DeleteJob.
THEOREM OnlyTheExhaustedGivenUp ==
  ASSUME OneMonitor, NoClients, Watchdogs = {}
  PROVE  Spec => GivenUpOnlyWhenExhausted
<1> USE DEF Exists
<1>1. Init => TodoInv /\ GiveUpInv
  BY DEF Init, ControlInit, Resting, Goroutines, TodoInv, TodoOf, GiveUpInv
<1>2. SystemInv /\ TodoInv /\ GiveUpInv /\ [Next]_vars => TodoInv' /\ GiveUpInv'
  BY TodoStep, GiveUpStep
<1>3. ASSUME SystemInv, GiveUpInv, [Next]_vars, NEW j \in Jobs,
             Exists(j), ~ Exists(j)'
      PROVE  jobs[j].status = "Failed" /\ jobs[j].restarts = MaxRestarts
  <2>1. ~ \E w \in Workers : Claim(w, j)
    <3>1. jobs \in [Jobs -> JobRow]
      BY <1>3 DEF SystemInv, QueueTypeOK
    <3>2. ASSUME NEW w \in Workers, Claim(w, j)
          PROVE  jobs'[j].status = "Processing"
      BY <3>1, <3>2 DEF Claim, Dequeue, ClaimedRow, JobRow
    <3> QED BY <1>3, <3>2
  <2>2. ~ \E m \in Monitors : Recovers(m, j)
    BY <1>3, RecoversRow
  <2>3. PICK c \in Callers : deleting[c] = j
    BY <1>3, <2>1, <2>2, CalmStep DEF Calm, Dropped
  <2>4. c \in Monitors /\ ctl[c].pc = "deleteRow" /\ ctl[c].copy.job = j
    BY <2>3, NamesAssumption, <1>3 DEF GiveUpInv
  <2>5. Settled(ctl[c].copy) /\ ctl[c].copy.restarts >= MaxRestarts
    BY <1>3, <2>4 DEF GiveUpInv
  <2>6. jobs[j].restarts \in 0 .. MaxRestarts /\ MaxRestarts \in Nat
    BY <1>3, ControlAssumption DEF SystemInv, RowsInRange
  <2> QED BY <2>4, <2>5, <2>6 DEF Settled
<1>4. SystemInv /\ GiveUpInv /\ [Next]_vars =>
        [\A j \in Jobs : Exists(j) /\ ~ Exists(j)' =>
           jobs[j].status = "Failed" /\ jobs[j].restarts = MaxRestarts]_vars
  BY <1>3
<1> QED BY <1>1, <1>2, <1>4, SystemSafe, PTL DEF Spec, GivenUpOnlyWhenExhausted
-----------------------------------------------------------------------------
(* What is stored is not written again *)

\* The job has no file from this number on.
NoneFrom(j, n) == \A s \in Segs : s >= n => dirs[j].file[s] = "absent"

\* Not in the first of them either.
LEMMA NothingAt ==
  ASSUME NEW j, NEW n \in Segs, NoneFrom(j, n)
  PROVE  dirs[j].file[n] = "absent"
<1>1. n \in Nat /\ n >= n
  BY BoundsAssumption
<1> QED BY <1>1 DEF NoneFrom

Working(w) == wk[w].pc \notin {"idle", "stopped"}

\* The row asks for nothing that has a file.
AsksAfterFiles(j) == NoneFrom(j, jobs[j].startSeg)

\* A job that has not failed waits to be resumed after all of its files.
WaitsAfterFiles(j) ==
  /\ jobs[j].status # "Failed"
  /\ jobs[j].status = "Pending" => AsksAfterFiles(j)

\* Its worker holds it, will start after all of the files, and leaves none ahead
\* of the segment its ffmpeg is at.
WorksAfterFiles(w) ==
  LET j == wk[w].job IN
    /\ OwnedBy(j, w)
    /\ wk[w].pc \in {"claimed", "mkdir", "launch"} => NoneFrom(j, wk[w].startSeg)
    /\ wk[w].ff = "run" =>
         NoneFrom(j, IF wk[w].open THEN wk[w].cur + 1 ELSE wk[w].cur)

\* The row that the monitor is about to recover neither waits nor is worked on.
HandDead(m) ==
  ctl[m].pc = "dead" => /\ jobs[Job(m)].status # "Pending"
                        /\ ~ Kept(Job(m))

ResumeInv ==
  /\ \A j \in Jobs \ failed : WaitsAfterFiles(j)
  /\ \A w \in Workers : Working(w) /\ wk[w].job \notin failed => WorksAfterFiles(w)
  /\ \A m \in Monitors : HandDead(m)

\* What a row says of who works on it, and from where.
SameWork(j) == /\ jobs'[j].status = jobs[j].status
               /\ jobs'[j].worker = jobs[j].worker
               /\ jobs'[j].startSeg = jobs[j].startSeg

\* Statements that are no claim, report, recovery or deletion leave that alone.
LEMMA SameWorkStatements ==
  ASSUME SystemInv, NEW k \in Jobs, NEW j \in Jobs,
         \/ UNCHANGED jobs
         \/ \E w \in Workers : Heartbeat(j, w)
         \/ \E s \in Segs : AddSegment(j, s)
         \/ MarkWorkerAsDead(j) \/ TouchJob(j)
         \/ HeartbeatAges(j) \/ RecoveryAges(j) \/ AccessAges(j)
  PROVE  SameWork(k)
<1>1. jobs \in [Jobs -> JobRow]
  BY DEF SystemInv, QueueTypeOK
<1>2. ASSUME NEW s \in Segs, AddSegment(j, s)
      PROVE  SameWork(k)
  <2>1. jobs' = [jobs EXCEPT ![j] = ExtendedRow(@, s, s \in segments[j])]
    BY <1>2 DEF AddSegment
  <2>2. ASSUME NEW row, row = ExtendedRow(jobs[j], s, s \in segments[j])
        PROVE  /\ row.status = jobs[j].status /\ row.worker = jobs[j].worker
               /\ row.startSeg = jobs[j].startSeg
    BY <1>1, <2>2 DEF ExtendedRow, JobRow
  <2> QED BY <1>1, <2>1, <2>2 DEF SameWork
<1> QED BY <1>1, <1>2 DEF SameWork, Heartbeat, MarkWorkerAsDead, TouchJob,
                          HeartbeatAges, RecoveryAges, AccessAges, JobRow

\* With nobody but the monitor to change it, what a row says of its work changes
\* by a claim, a report of its worker, a recovery or a deletion.
LEMMA WorkStep ==
  ASSUME SystemInv, NoClients, Watchdogs = {}, [Next]_vars, NEW j \in Jobs
  PROVE  \/ SameWork(j)
         \/ \E w \in Workers : Claim(w, j)
         \/ \E w \in Workers, report \in Reports :
              WorkerStep(w) /\ report.worker = w /\ UpdateJob(j, report)
         \/ \E m \in Monitors : Recovers(m, j)
         \/ Dropped(j)
<1>1. jobs \in [Jobs -> JobRow]
  BY DEF SystemInv, QueueTypeOK
<1>2. ASSUME UNCHANGED queueVars \/ UNCHANGED jobs
      PROVE  SameWork(j)
  BY <1>2, SameWorkStatements DEF queueVars
<1>3. ASSUME jobs'[j] = jobs[j]
      PROVE  SameWork(j)
  BY <1>3 DEF SameWork
<1>4. ASSUME NEW w \in Workers, WorkerStep(w), WorkerCall(w)
      PROVE  \/ SameWork(j) \/ Claim(w, j)
             \/ \E report \in Reports : report.worker = w /\ UpdateJob(j, report)
  <2>1. ASSUME NEW k \in Jobs \ {j}, Claim(w, k)
        PROVE  SameWork(j)
    BY <1>1, <1>3, <2>1 DEF Claim, Dequeue
  <2>2. ASSUME NEW k \in Jobs \ {j}, NEW report \in Reports, UpdateJob(k, report)
        PROVE  SameWork(j)
    BY <1>1, <1>3, <2>2 DEF UpdateJob
  <2> QED BY <1>2, <1>4, <2>1, <2>2, SameWorkStatements DEF WorkerCall
<1>5. ASSUME NEW k \in Jobs, Time(k)
      PROVE  SameWork(j)
  BY <1>5, SameWorkStatements DEF Time
<1>6. ASSUME NEW m \in Monitors, DeleteRow(m)
      PROVE  SameWork(j) \/ Dropped(j)
  BY <1>1, <1>2, <1>3, <1>6, MonitorsJobs DEF DeleteRow, Dropped, SystemInv, QueueTypeOK
<1>7. ASSUME NEW copy, NEW start, TriggerJIT(copy, start), copy.job \in Jobs \ {j}
      PROVE  SameWork(j)
  BY <1>1, <1>3, <1>7 DEF TriggerJIT, Submit, Enqueue, Insert, Upsert, queueVars
<1>8. ASSUME NEW m \in Monitors, MonitorStep(m)
      PROVE  SameWork(j) \/ Recovers(m, j) \/ Dropped(j)
  <2>1. ctl[m].todo \subseteq Copies /\ ctl[m].copy \in Copies
    BY MonitorsJobs
  <2>2. ASSUME NEW copy \in ctl[m].todo, At(m, "list"),
               RetryFailed(m, copy) \/ GiveUp(m, copy) \/ MarkDead(m, copy)
        PROVE  SameWork(j) \/ Recovers(m, j)
    <3>1. copy.job \in Jobs
      BY <2>1 DEF Copies
    <3>2. CASE RetryFailed(m, copy)
      BY <1>7, <2>2, <3>1, <3>2 DEF RetryFailed, Recovers
    <3>3. CASE GiveUp(m, copy)
      BY <1>2, <3>3 DEF GiveUp, DeleteTaken, BeginDelete, DeleteSegments
    <3>4. CASE MarkDead(m, copy)
      BY <1>2, <3>1, <3>4, SameWorkStatements DEF MarkDead
    <3> QED BY <2>2, <3>2, <3>3, <3>4
  <2>3. CASE RecoverDead(m)
    BY <1>7, <2>1, <2>3 DEF RecoverDead, Recovers, Job, Copies
  <2> QED BY <1>2, <1>6, <1>8, <2>2, <2>3
          DEF MonitorStep, MonitorList, MonitorRow, EndDelete, DeletesAbandoned,
              RemoveJobDir
<1>9. CASE ControlStep
  BY <1>2, <1>8, <1>9 DEF ControlStep, NoClients, ControlPlaneCrash, DeletesAbandoned
<1>10. CASE UNCHANGED vars
  BY <1>2, <1>10 DEF vars
<1>11. CASE \E w \in Workers : WorkerStep(w)
  BY <1>4, <1>11, WorkersCall
<1>12. CASE \E k \in Jobs : Time(k)
  BY <1>5, <1>12
<1> QED BY <1>9, <1>10, <1>11, <1>12 DEF Next

\* The directory is emptied, or loses files, unless an ffmpeg at work in it opens
\* one: one that closes a file or finds its directory gone makes none.
LEMMA FilesStep ==
  ASSUME SystemInv, [Next]_vars, NEW j \in Jobs, NEW n \in Nat, NoneFrom(j, n),
         \A w \in Workers : wk[w].job = j => ~ OpenSegment(w)
  PROVE  NoneFrom(j, n)'
<1>1. dirs \in [Jobs -> Dir]
  BY DEF SystemInv, DirsTypeOK
<1>2. ASSUME dirs'[j] = dirs[j] \/ dirs'[j] = NoDir
      PROVE  NoneFrom(j, n)'
  BY <1>2 DEF NoneFrom, NoDir
<1>3. ASSUME NEW dir, \A s \in Segs : dir.file[s] \in {dirs[j].file[s], "absent"},
             dirs'[j] = dir
      PROVE  NoneFrom(j, n)'
  BY <1>3 DEF NoneFrom
<1>4. ASSUME UNCHANGED dirs
      PROVE  NoneFrom(j, n)'
  BY <1>2, <1>4
<1>5. ASSUME NEW k \in Jobs, RemoveDir(k)
      PROVE  NoneFrom(j, n)'
  BY <1>1, <1>2, <1>5 DEF RemoveDir
<1>6. ASSUME NEW w \in Workers, WorkerStep(w)
      PROVE  NoneFrom(j, n)'
  <2>1. wk[w].pc \notin {"idle", "stopped"} => wk[w].job \in Jobs
    BY DEF SystemInv, SaneWorkers, SaneWorker
  <2>2. wk[w].ff = "run" => wk[w].job \in Jobs
    BY DEF SystemInv, SaneWorkers, SaneWorker
  <2>3. ASSUME NEW short, Launch(w) \/ StartFails(w),
               dirs' = [dirs EXCEPT ![wk[w].job] = Prepared(w, short)]
        PROVE  NoneFrom(j, n)'
    <3>1. wk[w].job \in Jobs
      BY <2>1, <2>3 DEF Launch, StartFails
    <3>2. CASE wk[w].job = j
      <4>1. dirs[j] \in Dir
        BY <1>1
      <4>2. \A s \in Segs : Repaired(dirs[j], short).file[s]
                              \in {dirs[j].file[s], "absent"}
        BY <4>1 DEF Repaired, Dir
      <4>3. \A s \in Segs : Surveyed(w, short).file[s] \in {dirs[j].file[s], "absent"}
        BY <3>2, <4>2 DEF Surveyed
      <4>4. Surveyed(w, short) \in
              [present : BOOLEAN, manifest : SUBSET Segs,
               file : [Segs -> {"absent", "partial", "closed"}]]
        BY <3>2, <4>1 DEF Surveyed, Repaired, Dir
      <4>5. Prepared(w, short).file = Surveyed(w, short).file
        BY <4>4 DEF Prepared
      <4> QED BY <1>1, <1>3, <2>3, <3>2, <4>3, <4>5
    <3>3. CASE wk[w].job # j
      BY <1>1, <1>2, <2>3, <3>3
    <3> QED BY <3>2, <3>3
  <2>4. CASE MakeDir(w)
    <3>1. Made(dirs[wk[w].job]).file = dirs[wk[w].job].file /\ wk[w].job \in Jobs
      BY <1>1, <2>1, <2>4 DEF MakeDir, Made, Dir
    <3> QED BY <1>1, <1>3, <2>4, <3>1 DEF MakeDir
  <2>5. CASE JobThread(w)
    BY <1>4, <1>5, <2>1, <2>3, <2>4, <2>5 DEF JobThread, MarkProcessing, MkdirFails,
       Launch, StartFails, MarkReady, ManifestTimeout, Completes, Fails, Aborts, Cleanup
  <2>6. CASE OpenSegment(w)
    <3>1. wk[w].job # j /\ wk[w].job \in Jobs
      BY <2>2, <2>6 DEF OpenSegment
    <3> QED BY <1>1, <1>2, <1>4, <2>6, <3>1 DEF OpenSegment, WriteDir
  <2>7. CASE CloseSegment(w)
    <3>1. wk[w].job \in Jobs /\ wk[w].cur \in Segs
      BY <2>2, <2>7 DEF CloseSegment, SystemInv, SaneWorkers, SaneWorker
    <3>2. CASE dirs[wk[w].job].present /\ wk[w].job = j
      <4>1. PICK mark, entries :
              /\ dirs' = [dirs EXCEPT ![j] =
                            [dirs[j] EXCEPT !.file[wk[w].cur] = mark,
                                            !.manifest = entries]]
              /\ dirs[j].file[wk[w].cur] = "absent" => mark = "absent"
        BY <2>7, <3>2 DEF CloseSegment, WriteDir
      <4>2. /\ dirs'[j].file = [dirs[j].file EXCEPT ![wk[w].cur] = mark]
            /\ dirs[j].file \in [Segs -> {"absent", "partial", "closed"}]
        BY <1>1, <4>1 DEF Dir
      <4>3. ASSUME NEW s \in Segs, s >= n
            PROVE  dirs'[j].file[s] = "absent"
        <5>1. dirs[j].file[s] = "absent"
          BY <4>3 DEF NoneFrom
        <5> QED BY <3>1, <4>1, <4>2, <5>1
      <4> QED BY <4>3 DEF NoneFrom
    <3>3. CASE dirs[wk[w].job].present /\ wk[w].job # j
      BY <1>1, <1>2, <2>7, <3>1, <3>3 DEF CloseSegment, WriteDir
    <3>4. CASE ~ dirs[wk[w].job].present
      BY <1>4, <2>7, <3>4 DEF CloseSegment
    <3> QED BY <3>2, <3>3, <3>4
  <2> QED BY <1>4, <1>6, <2>5, <2>6, <2>7
      DEF WorkerStep, Claim, HeartbeatLoop, Beat, StatusCheck, Watcher, ReportSegment,
          ReadAhead, ReportLate, Ffmpeg, EncodeEnds, EncodeFails, Killed, Crash, Sigterm,
          FirstSegmentSlow
<1>7. ASSUME NEW g \in Goroutines, RemoveJobDir(g)
      PROVE  NoneFrom(j, n)'
  <2>1. Job(g) \in Jobs
    BY DEF SystemInv, SaneControl, SaneCopies, Copies, Job
  <2> QED BY <1>5, <1>7, <2>1 DEF RemoveJobDir
<1>8. CASE ControlStep
  <2>1. ASSUME NEW m \in Monitors, MonitorStep(m)
        PROVE  NoneFrom(j, n)'
    BY <1>4, <1>7, <2>1, MonitorsJobs DEF MonitorStep, MonitorList, MonitorRow,
       RetryFailed, GiveUp, MarkDead, DeleteTaken, BeginDelete, RecoverDead, EndDelete
  <2>2. ASSUME NEW d \in Watchdogs, WatchdogStep(d)
        PROVE  NoneFrom(j, n)'
    <3>1. d \in Goroutines
      BY DEF Goroutines
    <3> QED BY <1>4, <1>7, <2>2, <3>1 DEF WatchdogStep, WatchdogList, Reap,
                                          DeleteTaken, BeginDelete, EndDelete
  <2>3. ASSUME NEW v \in Viewers, ViewerStep(v)
        PROVE  NoneFrom(j, n)'
    BY <1>4, <2>3 DEF ViewerStep, RequestPlaylist, RequestSegment, Answering, ReadJob,
       RequestJIT
  <2>4. ASSUME NEW p \in Players, PlayerStep(p)
        PROVE  NoneFrom(j, n)'
    BY <1>4, <2>4 DEF PlayerStep, RequestPlayback, RequestStop, RequestSeek, Handling,
       LookAgain, StartPlayback, StartSeek, BeginDelete, EndDelete
  <2> QED BY <1>4, <1>8, <2>1, <2>2, <2>3, <2>4
          DEF ControlStep, Disconnect, ControlPlaneCrash
<1> QED BY <1>4, <1>6, <1>8 DEF Next, Time, vars

\* Between its mark and its recovery nobody else takes a dead worker's row.
LEMMA HandStep ==
  ASSUME SystemInv, MarkInv, [Next]_vars, OneMonitor, NoClients,
         NEW m \in Monitors, HandDead(m)
  PROVE  HandDead(m)'
<1>1. SUFFICES ASSUME ctl'[m].pc = "dead"
               PROVE  \E j \in Jobs : /\ ctl'[m].copy.job = j
                                      /\ jobs'[j].status # "Pending" /\ ~ Kept(j)'
  BY DEF HandDead, Job
<1>2. ctl[m].copy \in Copies /\ ctl[m].todo \subseteq Copies
  BY MonitorsJobs
<1>3. ASSUME NEW j \in Jobs, jobs[j].status # "Pending", ~ Kept(j),
             \A n \in Monitors : ~ Recovers(n, j)
      PROVE  jobs'[j].status # "Pending" /\ ~ Kept(j)'
  <2>1. \A w \in Workers : ~ Claim(w, j)
    BY <1>3 DEF Claim, Dequeue, Claimable
  <2> QED BY <1>3, <2>1, CalmStep, KeptStep DEF Calm
<1>4. CASE MonitorStep(m)
  <2>1. PICK copy \in ctl[m].todo : MarkDead(m, copy) /\ ctl'[m].copy = copy
                                    /\ At(m, "list")
    BY <1>1, <1>4, MonitorMoves
  <2>2. PICK j \in Jobs : copy.job = j
    BY <1>2, <2>1 DEF Copies
  <2>3. copy.status # "Failed"
    BY <2>1 DEF MarkDead
  <2>4. jobs[j].status # "Pending" /\ ~ Kept(j)
    BY <2>1, <2>2, <2>3 DEF MarkInv
  <2>5. \A n \in Monitors : ~ Recovers(n, j)
    <3>1. SUFFICES ASSUME Recovers(m, j) PROVE FALSE
      BY DEF OneMonitor
    <3>2. ctl[m].pc = "list"
      BY <2>1 DEF At
    <3>3. PICK a \in ctl[m].todo : RetryFailed(m, a)
      BY <3>1, <3>2 DEF Recovers, RecoverDead, At
    <3>4. ctl'[m].pc \in {"idle", "list"}
      <4>1. ctl \in [Goroutines -> SaneControl] /\ ctl[m] \in Control
        BY MonitorsJobs DEF SystemInv, SaneControl
      <4> QED BY <3>3, <4>1, MonitorsJobs DEF RetryFailed, Skip, Go, Control
    <3> QED BY <1>1, <3>4
  <2> QED BY <1>3, <2>1, <2>2, <2>4, <2>5
<1>5. CASE ctl'[m] = ctl[m]
  <2>1. PICK j \in Jobs : Job(m) = j
    BY <1>2 DEF Copies, Job
  <2>2. jobs[j].status # "Pending" /\ ~ Kept(j)
    BY <1>1, <1>5, <2>1 DEF HandDead
  <2>3. ~ Recovers(m, j)
    <3>1. ctl \in [Goroutines -> SaneControl] /\ ctl[m] \in Control
      BY MonitorsJobs DEF SystemInv, SaneControl
    <3>2. ASSUME RecoverDead(m)
          PROVE  FALSE
      BY <1>1, <3>1, <3>2, MonitorsJobs DEF RecoverDead, NextRow, Go, Control
    <3> QED BY <1>1, <1>5, <3>2 DEF Recovers, At
  <2> QED BY <1>3, <1>5, <2>1, <2>2, <2>3 DEF OneMonitor, Job
<1> QED BY <1>1, <1>4, <1>5, MonitorsTurn DEF Resting

\* There are no files from the next number on disk on.
LEMMA FilesBefore ==
  ASSUME NEW dir \in Dir
  PROVE  \A s \in Segs : s >= NextOnDisk(dir) => dir.file[s] = "absent"
<1>1. CASE Files(dir) = {}
  BY <1>1 DEF Files
<1>2. CASE Files(dir) # {}
  <2>1. PICK last \in Segs : Segs = 0 .. last
    BY NumberingAssumption
  <2>2. last \in Nat /\ Files(dir) \subseteq 0 .. last
    BY <2>1, BoundsAssumption DEF Files
  <2>3. /\ Max(Files(dir)) \in Files(dir)
        /\ \A s \in Files(dir) : Max(Files(dir)) >= s
    BY <1>2, <2>2, MaxOf
  <2>4. ASSUME NEW s \in Segs, s >= NextOnDisk(dir)
        PROVE  s \notin Files(dir)
    <3>1. s >= Max(Files(dir)) + 1
      BY <1>2, <2>4 DEF NextOnDisk
    <3> QED BY <2>1, <2>2, <2>3, <3>1
  <2> QED BY <2>4 DEF Files
<1> QED BY <1>1, <1>2

\* A job that has not failed is recovered from a dead worker only, after all files.
LEMMA RecoveredAfterFiles ==
  ASSUME SystemInv, GiveUpInv, NEW j \in Jobs, jobs[j].status # "Failed",
         NEW m \in Monitors, Recovers(m, j)
  PROVE  /\ RecoverDead(m) /\ Job(m) = j
         /\ SameWork(j) \/ AsksAfterFiles(j)'
<1>1. jobs \in [Jobs -> JobRow] /\ dirs[j] \in Dir
  BY DEF SystemInv, QueueTypeOK, DirsTypeOK
<1>2. RecoverDead(m) /\ Job(m) = j
  BY DEF Recovers, RetryFailed, GiveUpInv, Settled
<1>3. SUFFICES SameWork(j) \/ AsksAfterFiles(j)'
  BY <1>2
<1> DEFINE start == RecoveryPoint(ctl[m].copy)
<1>4. PICK req : Submit(j, req) /\ req.startSeg = start
  BY <1>2 DEF RecoverDead, TriggerJIT, Job
<1>5. CASE UNCHANGED queueVars
  BY <1>5 DEF queueVars, SameWork
<1>6. CASE Insert(j, req) \/ Upsert(j, req)
  <2>1. jobs'[j].startSeg = start
    <3>1. CASE Insert(j, req)
      BY <1>1, <1>4, <3>1 DEF Insert, InsertedRow, AbsentRow
    <3>2. CASE Upsert(j, req)
      <4>1. jobs'[j] = UpsertedRow(jobs[j], req)
        BY <1>1, <3>2 DEF Upsert
      <4> QED BY <1>1, <1>4, <4>1 DEF UpsertedRow, JobRow
    <3> QED BY <1>6, <3>1, <3>2
  <2>2. NoneFrom(j, start)
    <3>1. CASE Files(dirs[j]) = {}
      BY <3>1 DEF Files, NoneFrom
    <3>2. CASE Files(dirs[j]) # {}
      <4>1. start = NextOnDisk(dirs[j])
        BY <1>2, <3>2 DEF RecoveryPoint, Job
      <4>2. \A s \in Segs : s >= NextOnDisk(dirs[j]) => dirs[j].file[s] = "absent"
        BY <1>1, FilesBefore
      <4> QED BY <4>1, <4>2 DEF NoneFrom
    <3> QED BY <3>1, <3>2
  <2>3. dirs' = dirs
    BY <1>2 DEF RecoverDead
  <2> QED BY <2>1, <2>2, <2>3 DEF NoneFrom, AsksAfterFiles
<1> QED BY <1>4, <1>5, <1>6 DEF Submit, Enqueue

\* A job that has not failed is not about to be deleted.
LEMMA UnfailedStays ==
  ASSUME SystemInv, GiveUpInv, NEW j \in Jobs, jobs[j].status # "Failed"
  PROVE  ~ Dropped(j)
BY NamesAssumption DEF Dropped, GiveUpInv, Settled

\* As long as a job has not failed, its row waits after its files.
LEMMA WaitsStep ==
  ASSUME SystemInv, GiveUpInv, ResumeInv, [HistoryNext]_historyVars,
         NoClients, Watchdogs = {},
         NEW j \in Jobs \ failed'
  PROVE  WaitsAfterFiles(j)'
<1>1. [Next]_vars /\ j \notin failed
  BY DEF HistoryNext, historyVars
<1>2. WaitsAfterFiles(j)
  BY <1>1 DEF ResumeInv
<1>3. jobs'[j].status # "Failed"
  BY <1>2 DEF HistoryNext, historyVars, vars, WaitsAfterFiles
<1>4. SUFFICES ASSUME jobs'[j].status = "Pending"
               PROVE  AsksAfterFiles(j)'
  BY <1>3 DEF WaitsAfterFiles
<1>5. jobs \in [Jobs -> JobRow]
  BY DEF SystemInv, QueueTypeOK
<1>6. CASE SameWork(j)
  <2>1. jobs[j].status = "Pending" /\ jobs'[j].startSeg = jobs[j].startSeg
    BY <1>4, <1>6 DEF SameWork
  <2>2. ASSUME NEW w \in Workers, wk[w].job = j, OpenSegment(w)
        PROVE  FALSE
    <3>1. wk[w].ff = "run" /\ wk[w] \in SaneWorkers
      BY <2>2 DEF OpenSegment, SystemInv
    <3>2. Working(w)
      BY <3>1 DEF SaneWorkers, SaneWorker, Working
    <3>3. OwnedBy(j, w)
      BY <1>1, <2>2, <3>2 DEF ResumeInv, WorksAfterFiles
    <3> QED BY <2>1, <3>3 DEF OwnedBy, Active
  <2>3. PICK n \in Nat : n = jobs[j].startSeg
    BY <1>5 DEF JobRow
  <2>4. NoneFrom(j, n)
    BY <1>2, <2>1, <2>3 DEF WaitsAfterFiles, AsksAfterFiles
  <2>5. NoneFrom(j, n)'
    BY <1>1, <2>2, <2>4, FilesStep
  <2> QED BY <2>1, <2>3, <2>5 DEF AsksAfterFiles, NoneFrom
<1>7. ASSUME NEW w \in Workers, Claim(w, j)
      PROVE  FALSE
  BY <1>4, <1>5, <1>7 DEF Claim, Dequeue, ClaimedRow, JobRow
<1>8. ASSUME NEW w \in Workers, NEW report \in Reports, UpdateJob(j, report)
      PROVE  FALSE
  BY <1>4, <1>5, <1>8 DEF UpdateJob, ReportedRow, JobRow, Reports, Reported
<1>9. CASE \E m \in Monitors : Recovers(m, j)
  BY <1>2, <1>6, <1>9, RecoveredAfterFiles DEF WaitsAfterFiles
<1>10. ~ Dropped(j)
  BY <1>2, UnfailedStays DEF WaitsAfterFiles
<1> QED BY <1>1, <1>6, <1>7, <1>8, <1>9, <1>10, WorkStep

\* The worker of a job that has not failed is at work for the store too, and
\* nothing makes it stop.
LEMMA OwnerAtWork ==
  ASSUME SystemInv, LossInv, ResumeInv, NEW w \in Workers, Working(w),
         wk[w].job \notin failed
  PROVE  /\ wk[w] \in WorkerState /\ wk[w].job \in Jobs
         /\ OwnedBy(wk[w].job, w) /\ WorksAfterFiles(w)
         /\ ~ wk[w].cancelled /\ ~ wk[w].term /\ wk[w].pc # "cleanup"
         /\ Kept(wk[w].job)
<1>1. wk[w] \in WorkerState /\ wk[w].job \in Jobs
  BY DEF SystemInv, SaneWorkers, SaneWorker, Working
<1>2. OwnedBy(wk[w].job, w) /\ WorksAfterFiles(w)
  BY DEF ResumeInv, WorksAfterFiles
<1>3. ~ wk[w].cancelled /\ ~ wk[w].term /\ wk[w].pc # "cleanup"
  BY <1>2 DEF LossInv
<1>4. Kept(wk[w].job)
  BY <1>2, <1>3 DEF Kept, Beating, Working, OwnedBy
<1> QED BY <1>1, <1>2, <1>3, <1>4

\* Nobody else takes the job from it.
LEMMA OwnerHolds ==
  ASSUME SystemInv, LossInv, GiveUpInv, ResumeInv, [Next]_vars,
         NoClients, Watchdogs = {},
         NEW w \in Workers, Working(w), ~ WorkerStep(w),
         NEW j \in Jobs, wk[w].job = j, j \notin failed
  PROVE  OwnedBy(j, w)'
<1>1. OwnedBy(j, w) /\ Kept(j)
  BY OwnerAtWork
<1>2. CASE SameWork(j)
  BY <1>1, <1>2 DEF SameWork, OwnedBy
<1>3. ASSUME NEW v \in Workers, Claim(v, j)
      PROVE  FALSE
  BY <1>1, <1>3 DEF OwnedBy, Active, Claim, Dequeue, Claimable
<1>4. ASSUME NEW v \in Workers, WorkerStep(v),
             NEW report \in Reports, report.worker = v, UpdateJob(j, report)
      PROVE  FALSE
  BY <1>1, <1>4 DEF OwnedBy, UpdateJob
<1>5. jobs[j].status # "Failed"
  BY <1>1 DEF OwnedBy, Active
<1>6. ASSUME NEW m \in Monitors, Recovers(m, j)
      PROVE  FALSE
  <2>1. RecoverDead(m) /\ Job(m) = j
    BY <1>5, <1>6, RecoveredAfterFiles
  <2> QED BY <1>1, <2>1 DEF ResumeInv, HandDead, RecoverDead, At
<1>7. ~ Dropped(j)
  BY <1>5, UnfailedStays
<1> QED BY <1>2, <1>3, <1>4, <1>6, <1>7, WorkStep

\* Two workers are never on one job that has not failed.
LEMMA AloneOnJob ==
  ASSUME SystemInv, LossInv, ResumeInv, NEW v \in Workers, NEW w \in Workers,
         Working(v), Working(w), wk[v].job = wk[w].job, wk[w].job \notin failed
  PROVE  v = w
BY OwnerAtWork DEF OwnedBy

\* Files ahead of a worker are only made by its own ffmpeg.
LEMMA AheadStep ==
  ASSUME SystemInv, LossInv, ResumeInv, [Next]_vars,
         NEW w \in Workers, Working(w), ~ OpenSegment(w),
         NEW j \in Jobs, wk[w].job = j, j \notin failed,
         NEW n \in Nat, NoneFrom(j, n)
  PROVE  NoneFrom(j, n)'
<1>1. ASSUME NEW v \in Workers, wk[v].job = j, OpenSegment(v)
      PROVE  FALSE
  <2>1. wk[v].ff = "run"
    BY <1>1 DEF OpenSegment
  <2>2. Working(v)
    BY <2>1 DEF SystemInv, SaneWorkers, SaneWorker, Working
  <2> QED BY <1>1, <2>2, AloneOnJob
<1> QED BY <1>1, FilesStep

\* What is left of WorksAfterFiles when a worker goes on with what it is at.
LEMMA GoesOn ==
  ASSUME SystemInv, LossInv, ResumeInv, [Next]_vars,
         NEW w \in Workers, Working(w), ~ OpenSegment(w), wk[w].job \notin failed,
         wk'[w].job = wk[w].job, wk'[w].startSeg = wk[w].startSeg,
         wk'[w].pc \in {"claimed", "mkdir", "launch"} =>
           wk[w].pc \in {"claimed", "mkdir", "launch"},
         wk'[w].ff = "run" =>
           /\ wk[w].ff = "run"
           /\ wk'[w].cur = wk[w].cur /\ wk'[w].open = wk[w].open,
         NEW j \in Jobs, wk[w].job = j, OwnedBy(j, w)'
  PROVE  WorksAfterFiles(w)'
<1>1. wk[w] \in WorkerState /\ WorksAfterFiles(w) /\ Positions \subseteq Nat
  BY OwnerAtWork, Numbering
<1>2. ASSUME NEW n \in Nat, NoneFrom(j, n)
      PROVE  \A s \in Segs : s >= n => dirs'[j].file[s] = "absent"
  <2>1. NoneFrom(j, n)'
    BY <1>2, AheadStep
  <2> QED BY <2>1 DEF NoneFrom
<1>3. ASSUME wk[w].pc \in {"claimed", "mkdir", "launch"}
      PROVE  \A s \in Segs : s >= wk[w].startSeg => dirs'[j].file[s] = "absent"
  <2>1. NoneFrom(j, wk[w].startSeg) /\ wk[w].startSeg \in Nat
    BY <1>1, <1>3 DEF WorksAfterFiles, WorkerState
  <2> QED BY <1>2, <2>1
<1>4. ASSUME wk[w].ff = "run"
      PROVE  \A s \in Segs :
               s >= (IF wk[w].open THEN wk[w].cur + 1 ELSE wk[w].cur) =>
                 dirs'[j].file[s] = "absent"
  <2> DEFINE n == IF wk[w].open THEN wk[w].cur + 1 ELSE wk[w].cur
  <2>1. NoneFrom(j, n)
    BY <1>1, <1>4 DEF WorksAfterFiles
  <2>2. wk[w].cur \in Positions
    BY <1>1 DEF WorkerState
  <2>3. PICK c \in Nat : c = wk[w].cur
    BY <2>2, Numbering
  <2>4. n = c + 1 \/ n = c
    BY <2>3
  <2> HIDE DEF n
  <2>5. n \in Nat
    BY <2>4
  <2>6. \A s \in Segs : s >= n => dirs'[j].file[s] = "absent"
    BY <1>2, <2>1, <2>5
  <2> QED BY <2>6 DEF n
<1> QED BY <1>3, <1>4 DEF WorksAfterFiles, NoneFrom

\* A job that its worker reports Failed has failed.
LEMMA FailureNoted ==
  ASSUME SystemInv, LossInv, ResumeInv, [HistoryNext]_historyVars,
         NEW w \in Workers, Working(w), NEW j \in Jobs, wk[w].job = j, j \notin failed,
         Delivered(w, "Failed")
  PROVE  j \in failed'
<1>1. OwnedBy(j, w) /\ jobs \in [Jobs -> JobRow]
  BY OwnerAtWork DEF SystemInv, QueueTypeOK
<1>2. jobs' = [jobs EXCEPT ![j] = ReportedRow(@, ReportOf(w, "Failed"))]
  BY <1>1 DEF Delivered, UpdateJob
<1>3. jobs'[j].status = "Failed"
  BY <1>1, <1>2 DEF ReportedRow, ReportOf, JobRow
<1>4. jobs[j].status # "Failed"
  BY <1>1 DEF OwnedBy, Active
<1> QED BY <1>3, <1>4 DEF HistoryNext, historyVars, vars

\* A claimed job that has not failed is worked on from after its files.
LEMMA ClaimsAfterFiles ==
  ASSUME SystemInv, ResumeInv, "lostCall" \notin FaultKinds,
         NEW w \in Workers, NEW j \in Jobs \ failed, Claim(w, j)
  PROVE  wk'[w].job = j /\ WorksAfterFiles(w)'
<1>1. wk[w] \in SaneWorkers /\ jobs \in [Jobs -> JobRow]
  BY DEF SystemInv, QueueTypeOK
<1>2. wk[w].pc = "idle" /\ wk[w].ff # "run" /\ wk[w] \in WorkerState
  BY <1>1 DEF Claim, SaneWorkers, SaneWorker
<1>3. wk'[w] = Given(w, j) /\ dirs' = dirs
  BY DEF Claim, Fault, Set, SystemInv
<1>4. /\ wk'[w].job = j /\ wk'[w].startSeg = jobs[j].startSeg
      /\ wk'[w].ff # "run"
  BY <1>2, <1>3 DEF Given, WorkerState
<1>5. OwnedBy(j, w)'
  BY <1>1 DEF Claim, Dequeue, ClaimedRow, JobRow, OwnedBy, Active
<1>6. NoneFrom(j, jobs[j].startSeg)
  BY DEF Claim, Dequeue, Claimable, ResumeInv, WaitsAfterFiles, AsksAfterFiles
<1> QED BY <1>3, <1>4, <1>5, <1>6 DEF WorksAfterFiles, NoneFrom

\* Where ffmpeg starts there is no file yet, whichever way it was found.
LEMMA StartsAfterFiles ==
  ASSUME SystemInv, LossInv, ResumeInv, [Next]_vars,
         NEW w \in Workers, Working(w), wk[w].job \notin failed, Launch(w)
  PROVE  wk'[w].job = wk[w].job /\ WorksAfterFiles(w)'
<1>1. /\ wk[w] \in WorkerState /\ WorksAfterFiles(w) /\ OwnedBy(wk[w].job, w)
      /\ wk[w].job \in Jobs
  BY OwnerAtWork
<1>2. dirs \in [Jobs -> Dir] /\ wk \in [Workers -> SaneWorkers]
  BY DEF SystemInv, DirsTypeOK
<1>3. PICK j \in Jobs : wk[w].job = j
  BY <1>1
<1>4. PICK short \in SUBSET MaybeShort(dirs[j]) :
        /\ dirs' = [dirs EXCEPT ![j] = Prepared(w, short)]
        /\ \E last : Set(w, [wk[w] EXCEPT
                 !.pc = "manifest", !.ff = "run",
                 !.from = ResumePoint(w, short), !.cur = ResumePoint(w, short),
                 !.lastSeg = last, !.restarts = 0, !.startSeg = 0])
  BY <1>3 DEF Launch
<1> DEFINE start == ResumePoint(w, short)
<1>5. /\ wk'[w].job = j /\ wk'[w].pc = "manifest" /\ wk'[w].ff = "run"
      /\ wk'[w].cur = start /\ ~ wk'[w].open
  <2>1. ~ wk[w].open
    BY <1>2 DEF Launch, SaneWorkers, SaneWorker
  <2> QED BY <1>1, <1>2, <1>3, <1>4, <2>1 DEF Set, WorkerState
<1>6. jobs' = jobs
  BY DEF Launch, queueVars
<1>7. \A s \in Segs : s >= start => dirs'[j].file[s] = "absent"
  <2>1. dirs'[j].file = Surveyed(w, short).file
    <3>1. Surveyed(w, short) \in Dir
      BY <1>2, <1>3 DEF Surveyed, Repaired, Dir
    <3>2. Prepared(w, short).file = Surveyed(w, short).file
      BY <3>1 DEF Prepared, Dir
    <3> QED BY <1>2, <1>4, <3>2
  <2>2. CASE ResumesLocally(w)
    <3>1. start = NextOnDisk(Surveyed(w, short))
      BY <2>2 DEF ResumePoint
    <3> DEFINE dir == Surveyed(w, short)
    <3> HIDE DEF dir
    <3>2. dir \in Dir
      BY <1>2, <1>3 DEF dir, Surveyed, Repaired, Dir
    <3>3. \A s \in Segs : s >= NextOnDisk(dir) => dir.file[s] = "absent"
      BY <3>2, FilesBefore
    <3> QED BY <2>1, <3>1, <3>3 DEF dir
  <2>3. CASE ~ ResumesLocally(w)
    <3>1. start = wk[w].startSeg /\ Surveyed(w, short) = dirs[j]
      BY <1>3, <2>3 DEF ResumePoint, Surveyed
    <3>2. NoneFrom(j, wk[w].startSeg)
      BY <1>1, <1>3 DEF WorksAfterFiles, Launch
    <3> QED BY <2>1, <3>1, <3>2 DEF NoneFrom
  <2> QED BY <2>2, <2>3
<1> HIDE DEF start
<1> QED BY <1>1, <1>3, <1>5, <1>6, <1>7 DEF WorksAfterFiles, NoneFrom, OwnedBy

\* A worker's report that it is at work, when no call is lost, leaves it the job.
LEMMA ReportKeepsJob ==
  ASSUME SystemInv, "lostCall" \notin FaultKinds, NEW w \in Workers, ~ wk[w].term,
         NEW j \in Jobs, wk[w].job = j, OwnedBy(j, w), NEW status \in Active,
         TellInContext(w, status)
  PROVE  OwnedBy(j, w)'
<1>1. Delivered(w, status) /\ jobs \in [Jobs -> JobRow]
  BY DEF TellInContext, Tell, Lost, Fault, SystemInv, QueueTypeOK
<1>2. jobs' = [jobs EXCEPT ![j] = ReportedRow(@, ReportOf(w, status))]
  BY <1>1 DEF Delivered, UpdateJob
<1>3. jobs'[j].status = status /\ jobs'[j].worker = w
  BY <1>1, <1>2 DEF ReportedRow, ReportOf, JobRow
<1> QED BY <1>3 DEF OwnedBy

\* processJob, its goroutines and ffmpeg leave no file ahead of the segment the
\* ffmpeg is at, for as long as no worker of the job has failed.
LEMMA WorkerGoesOn ==
  ASSUME SystemInv, LossInv, ResumeInv, [HistoryNext]_historyVars,
         "lostCall" \notin FaultKinds, "sigterm" \notin FaultKinds,
         NEW w \in Workers, WorkerStep(w), Working(w), Working(w)',
         NEW j \in Jobs, wk[w].job = j, j \notin failed'
  PROVE  WorksAfterFiles(w)'
<1>1. [Next]_vars /\ j \notin failed
  BY DEF HistoryNext, historyVars
<1>2. /\ wk[w] \in WorkerState /\ OwnedBy(j, w) /\ WorksAfterFiles(w)
      /\ ~ wk[w].cancelled /\ ~ wk[w].term /\ wk[w].pc # "cleanup"
  BY <1>1, OwnerAtWork
<1>3. wk \in [Workers -> SaneWorkers] /\ dirs \in [Jobs -> Dir]
  BY DEF SystemInv, DirsTypeOK
<1>4. ASSUME NEW st, Set(w, st)
      PROVE  wk'[w] = st
  BY <1>3, <1>4 DEF Set
<1>5. ~ Return(w)
  BY <1>4 DEF Return, Working, Stopped, IdleWorker
<1>6. ~ Delivered(w, "Failed")
  BY <1>1, FailureNoted
<1>7. ~ Lost
  BY DEF Lost, Fault
<1> DEFINE Onward == /\ wk'[w].job = wk[w].job /\ wk'[w].startSeg = wk[w].startSeg
                     /\ wk'[w].pc \in {"claimed", "mkdir", "launch"} =>
                          wk[w].pc \in {"claimed", "mkdir", "launch"}
                     /\ wk'[w].ff = "run" =>
                          /\ wk[w].ff = "run"
                          /\ wk'[w].cur = wk[w].cur /\ wk'[w].open = wk[w].open
<1>8. ASSUME Onward, OwnedBy(j, w)', ~ OpenSegment(w)
      PROVE  WorksAfterFiles(w)'
  BY <1>1, <1>8, GoesOn
<1>9. ASSUME UNCHANGED queueVars \/ SameWork(j)
      PROVE  OwnedBy(j, w)'
  BY <1>2, <1>9 DEF queueVars, SameWork, OwnedBy
<1>10. ASSUME ~ OpenSegment(w), wk'[w] = wk[w], UNCHANGED queueVars \/ SameWork(j)
       PROVE  WorksAfterFiles(w)'
  BY <1>8, <1>9, <1>10
<1>11. ASSUME OpenSegment(w), ~ CloseSegment(w)
       PROVE  WorksAfterFiles(w)'
  <2>1. wk[w].ff = "run" /\ ~ wk[w].open /\ wk[w].cur \in Segs /\ UNCHANGED queueVars
    BY <1>11 DEF OpenSegment
  <2>2. OwnedBy(j, w)' /\ wk[w].pc \in {"manifest", "stream"}
    BY <1>3, <1>9, <2>1 DEF SaneWorkers, SaneWorker
  <2>3. CASE ~ dirs[j].present
    <3>1. wk'[w] = [wk[w] EXCEPT !.ff = "error"]
      BY <1>4, <1>11, <2>3 DEF OpenSegment
    <3>2. wk'[w].job = j /\ wk'[w].pc = wk[w].pc /\ wk'[w].ff = "error"
      BY <1>2, <3>1 DEF WorkerState
    <3> QED BY <2>2, <3>2 DEF WorksAfterFiles
  <2>4. CASE dirs[j].present
    <3>1. /\ wk'[w] = [wk[w] EXCEPT !.open = TRUE]
          /\ dirs' = [dirs EXCEPT ![j] =
                        [dirs[j] EXCEPT !.file[wk[w].cur] = "partial"]]
      BY <1>4, <1>11, <2>4 DEF OpenSegment, WriteDir
    <3>2. /\ wk'[w].job = j /\ wk'[w].pc = wk[w].pc /\ wk'[w].cur = wk[w].cur
          /\ wk'[w].open
      BY <1>2, <3>1 DEF WorkerState
    <3>3. /\ dirs'[j].file = [dirs[j].file EXCEPT ![wk[w].cur] = "partial"]
          /\ dirs[j].file \in [Segs -> {"absent", "partial", "closed"}]
      BY <1>3, <3>1 DEF Dir
    <3>4. NoneFrom(j, wk[w].cur)
      BY <1>2, <2>1 DEF WorksAfterFiles
    <3>5. ASSUME NEW s \in Segs, s >= wk[w].cur + 1
          PROVE  dirs'[j].file[s] = "absent"
      <4>1. s \in Nat /\ wk[w].cur \in Nat
        BY <2>1, Numbering
      <4>2. s >= wk[w].cur /\ s # wk[w].cur
        BY <3>5, <4>1
      <4> QED BY <3>3, <3>4, <4>2 DEF NoneFrom
    <3> QED BY <2>2, <3>2, <3>5 DEF WorksAfterFiles, NoneFrom
  <2> QED BY <2>3, <2>4
<1>12. ASSUME CloseSegment(w)
       PROVE  WorksAfterFiles(w)'
  <2>1. wk[w].ff = "run" /\ wk[w].open /\ UNCHANGED queueVars /\ ~ OpenSegment(w)
    BY <1>12 DEF CloseSegment, OpenSegment
  <2>2. OwnedBy(j, w)' /\ wk[w].pc \in {"manifest", "stream"} /\ wk[w].cur \in Segs
    BY <1>3, <1>9, <2>1 DEF SaneWorkers, SaneWorker
  <2>3. CASE ~ dirs[j].present
    <3>1. wk'[w] = [wk[w] EXCEPT !.open = FALSE, !.ff = "error"]
      BY <1>4, <1>12, <2>3 DEF CloseSegment
    <3>2. wk'[w].job = j /\ wk'[w].pc = wk[w].pc /\ wk'[w].ff = "error"
      BY <1>2, <3>1 DEF WorkerState
    <3> QED BY <2>2, <3>2 DEF WorksAfterFiles
  <2>4. CASE dirs[j].present
    <3>1. wk'[w] = [wk[w] EXCEPT !.open = FALSE, !.cur = wk[w].cur + 1]
      BY <1>4, <1>12, <2>4 DEF CloseSegment
    <3>2. /\ wk'[w].job = j /\ wk'[w].pc = wk[w].pc
          /\ wk'[w].cur = wk[w].cur + 1 /\ ~ wk'[w].open
      BY <1>2, <3>1 DEF WorkerState
    <3>3. PICK n \in Nat : n = wk[w].cur + 1
      BY <2>2, Numbering
    <3>4. NoneFrom(j, n)
      BY <1>2, <2>1, <3>3 DEF WorksAfterFiles
    <3>5. NoneFrom(j, n)'
      BY <1>1, <2>1, <3>4, AheadStep
    <3> QED BY <2>2, <3>2, <3>3, <3>5 DEF WorksAfterFiles, NoneFrom
  <2> QED BY <2>3, <2>4
<1>13. CASE JobThread(w)
  <2>1. ~ OpenSegment(w) \/ UNCHANGED queueVars
    BY DEF OpenSegment
  <2>2. CASE MarkProcessing(w) /\ ~ OpenSegment(w)
    <3>1. OwnedBy(j, w)'
      BY <1>2, <2>2, ReportKeepsJob DEF MarkProcessing, Active
    <3> QED BY <1>2, <1>4, <1>8, <2>2, <3>1 DEF MarkProcessing, WorkerState
  <2>3. CASE MarkReady(w) /\ ~ OpenSegment(w)
    <3>1. OwnedBy(j, w)'
      BY <1>2, <2>3, ReportKeepsJob DEF MarkReady, Active
    <3> QED BY <1>2, <1>4, <1>8, <2>3, <3>1 DEF MarkReady, WorkerState
  <2>4. CASE MakeDir(w) /\ ~ OpenSegment(w)
    BY <1>2, <1>4, <1>8, <1>9, <2>4 DEF MakeDir, WorkerState
  <2>5. CASE Launch(w)
    BY <1>1, <2>5, StartsAfterFiles
  <2>6. CASE StartFails(w)
    BY <1>2, <1>6, <2>6 DEF StartFails
  <2>7. CASE ManifestTimeout(w)
    BY <1>2, <1>6, <1>7, <2>7 DEF ManifestTimeout, TellInContext, Tell
  <2>8. CASE MkdirFails(w) \/ Completes(w) \/ Fails(w) \/ Aborts(w) \/ Cleanup(w)
    BY <1>2, <1>5, <2>8 DEF MkdirFails, Completes, Fails, Aborts, Cleanup
  <2>9. OpenSegment(w) => WorksAfterFiles(w)'
    BY <1>11, <1>12
  <2> QED BY <1>13, <2>2, <2>3, <2>4, <2>5, <2>6, <2>7, <2>8, <2>9 DEF JobThread
<1>14. OpenSegment(w) => WorksAfterFiles(w)'
  BY <1>11, <1>12
<1>15. CASE HeartbeatLoop(w) /\ ~ OpenSegment(w)
  <2>1. ASSUME Heartbeat(j, w), UNCHANGED wk
        PROVE  WorksAfterFiles(w)'
    BY <1>10, <1>15, <2>1, SameWorkStatements
  <2>2. CASE Beat(w)
    BY <1>2, <1>15, <2>1, <2>2 DEF Beat, BeatLost, Fault
  <2>3. CASE StatusCheck(w)
    BY <1>2, <2>3 DEF StatusCheck, Fault, Disowned, OwnedBy, Active
  <2> QED BY <1>15, <2>2, <2>3 DEF HeartbeatLoop
<1>16. CASE Watcher(w) /\ ~ OpenSegment(w)
  <2>1. ASSUME NEW told, NEW late,
               \/ Set(w, [wk[w] EXCEPT !.told = told])
               \/ Set(w, [wk[w] EXCEPT !.late = late])
               \/ Set(w, [wk[w] EXCEPT !.late = late, !.told = told]),
               UNCHANGED queueVars \/ SameWork(j)
        PROVE  WorksAfterFiles(w)'
    <3>1. Onward
      <4>1. CASE Set(w, [wk[w] EXCEPT !.told = told])
        BY <1>2, <1>4, <4>1 DEF WorkerState
      <4>2. CASE Set(w, [wk[w] EXCEPT !.late = late])
        BY <1>2, <1>4, <4>2 DEF WorkerState
      <4>3. CASE Set(w, [wk[w] EXCEPT !.late = late, !.told = told])
        <5>1. wk'[w] = [wk[w] EXCEPT !.late = late, !.told = told]
          BY <1>4, <4>3
        <5> QED BY <1>2, <5>1 DEF WorkerState
      <4> QED BY <2>1, <4>1, <4>2, <4>3
    <3> QED BY <1>8, <1>9, <1>16, <2>1, <3>1
  <2>2. ASSUME NEW s \in Segs, ReportSegment(w, s)
        PROVE  WorksAfterFiles(w)'
    <3>1. SameWork(j)
      BY <2>2, SameWorkStatements DEF ReportSegment
    <3> QED BY <2>1, <2>2, <3>1 DEF ReportSegment, Fault
  <2>3. CASE ReadAhead(w)
    BY <2>1, <2>3 DEF ReadAhead
  <2>4. CASE ReportLate(w)
    <3>1. UNCHANGED queueVars \/ SameWork(j)
      <4>1. WorkerCall(w)
        BY WorkersCall
      <4>2. PICK tick \in wk[w].late :
              AddSegment(tick[1], Min(tick[2])) \/ UNCHANGED queueVars
        BY <2>4 DEF ReportLate
      <4>3. wk[w] \in SaneWorkers
        BY <1>3
      <4>4. tick[1] \in Jobs /\ tick[2] \in SUBSET Segs /\ tick[2] # {}
        BY <4>3 DEF SaneWorkers, SaneWorker, WorkerState
      <4>5. Min(tick[2]) \in Segs
        BY <4>4, MinOf, Numbering
      <4> QED BY <4>2, <4>4, <4>5, SameWorkStatements
    <3> QED BY <2>1, <2>4, <3>1 DEF ReportLate
  <2> QED BY <1>16, <2>2, <2>3, <2>4 DEF Watcher
<1>17. CASE (EncodeEnds(w) \/ EncodeFails(w) \/ Killed(w)) /\ ~ OpenSegment(w)
  <2>1. Onward
    <3>1. CASE EncodeEnds(w)
      <4>1. PICK result \in {"ok", "error"} : Set(w, [wk[w] EXCEPT !.ff = result])
        BY <3>1 DEF EncodeEnds
      <4> QED BY <1>2, <1>4, <4>1 DEF WorkerState
    <3>2. CASE EncodeFails(w)
      <4>1. wk'[w] = [wk[w] EXCEPT !.ff = "error", !.open = FALSE]
        BY <1>4, <3>2 DEF EncodeFails
      <4>2. /\ wk'[w].job = wk[w].job /\ wk'[w].startSeg = wk[w].startSeg
            /\ wk'[w].pc = wk[w].pc /\ wk'[w].ff = "error"
        BY <1>2, <4>1 DEF WorkerState
      <4> QED BY <4>2
    <3>3. CASE Killed(w)
      BY <1>2, <3>3 DEF Killed
    <3> QED BY <1>17, <3>1, <3>2, <3>3
  <2>2. UNCHANGED queueVars
    BY <1>17 DEF EncodeEnds, EncodeFails, Killed
  <2> QED BY <1>8, <1>9, <1>17, <2>1, <2>2
<1>18. CASE Crash(w)
  BY <1>4, <1>18 DEF Crash, Stopped, IdleWorker, Working
<1>19. CASE Sigterm(w)
  BY <1>19 DEF Sigterm, Fault
<1>20. CASE FirstSegmentSlow(w) /\ ~ OpenSegment(w)
  <2>1. Onward
    BY <1>2, <1>4, <1>20 DEF FirstSegmentSlow, WorkerState
  <2> QED BY <1>8, <1>9, <1>20, <2>1 DEF FirstSegmentSlow
<1>21. \A k \in Jobs : ~ Claim(w, k)
  BY DEF Claim, Working
<1> QED BY <1>12, <1>13, <1>14, <1>15, <1>16, <1>17, <1>18, <1>19, <1>20, <1>21
        DEF WorkerStep, Ffmpeg

\* Every step keeps the invariant.
LEMMA ResumeStep ==
  ASSUME SystemInv, LossInv, MarkInv, GiveUpInv, ResumeInv,
         [HistoryNext]_historyVars,
         OneMonitor, NoClients, Watchdogs = {},
         "lostCall" \notin FaultKinds, "sigterm" \notin FaultKinds
  PROVE  ResumeInv'
<1>1. [Next]_vars /\ failed \subseteq failed'
  BY DEF HistoryNext, historyVars
<1>2. \A j \in Jobs \ failed' : WaitsAfterFiles(j)'
  BY WaitsStep
<1>3. \A m \in Monitors : HandDead(m)'
  BY <1>1, HandStep DEF ResumeInv
<1>4. ASSUME NEW w \in Workers, Working(w)', wk'[w].job \notin failed', WorkerStep(w)
      PROVE  WorksAfterFiles(w)'
  <2>1. wk \in [Workers -> SaneWorkers] /\ wk[w] \in WorkerState
    BY DEF SystemInv, SaneWorkers
  <2>2. ASSUME NEW k \in Jobs, Claim(w, k)
        PROVE  WorksAfterFiles(w)'
    <3>1. wk'[w] = Given(w, k)
      BY <2>1, <2>2 DEF Claim, Fault, Set
    <3>2. wk'[w].job = k
      BY <2>1, <3>1 DEF Given, WorkerState
    <3> QED BY <1>1, <1>4, <2>2, <3>2, ClaimsAfterFiles
  <2>3. ASSUME Working(w), wk'[w].job = wk[w].job
        PROVE  WorksAfterFiles(w)'
    <3>1. PICK j \in Jobs : wk[w].job = j
      BY <2>1, <2>3 DEF Working, SaneWorkers, SaneWorker
    <3> QED BY <1>4, <2>3, <3>1, WorkerGoesOn
  <2>4. CASE Launch(w)
    <3>1. PICK start, last :
            Set(w, [wk[w] EXCEPT
                      !.pc = "manifest", !.ff = "run",
                      !.from = start, !.cur = start, !.lastSeg = last,
                      !.restarts = 0, !.startSeg = 0])
      BY <2>4 DEF Launch
    <3>2. wk'[w].job = wk[w].job /\ Working(w)
      BY <2>1, <2>4, <3>1 DEF Set, WorkerState, Launch, Working
    <3> QED BY <2>3, <3>2
  <2>5. CASE Steady(w)
    BY <1>4, <2>3, <2>5 DEF Steady, Working
  <2> QED BY <1>4, <2>2, <2>4, <2>5, SteadyStep
<1>5. ASSUME NEW w \in Workers, Working(w)', wk'[w].job \notin failed', ~ WorkerStep(w)
      PROVE  WorksAfterFiles(w)'
  <2>1. wk'[w] = wk[w]
    BY <1>1, <1>5, OthersUntouched DEF Next, vars, Time
  <2>2. Working(w) /\ wk[w].job \notin failed
    BY <1>1, <1>5, <2>1 DEF Working
  <2>3. PICK j \in Jobs : wk[w].job = j
    BY <2>2, OwnerAtWork
  <2>4. OwnedBy(j, w)'
    BY <1>1, <1>5, <2>2, <2>3, OwnerHolds
  <2>5. ~ OpenSegment(w)
    BY <1>5 DEF WorkerStep, Ffmpeg
  <2> QED BY <1>1, <2>1, <2>2, <2>3, <2>4, <2>5, GoesOn
<1> QED BY <1>2, <1>3, <1>4, <1>5 DEF ResumeInv

\* With one control plane whose monitor is the only one to enqueue jobs again, and
\* workers that die or fail but are neither late nor cut off: however many of a
\* job's workers die, at whatever step and with whatever reports still on their way,
\* no worker that replaces one writes again a segment that is stored and on the
\* volume, until the job is reported Failed.
THEOREM DeadWorkersReplaced ==
  ASSUME OneMonitor, NoClients, Watchdogs = {},
         "lostCall" \notin FaultKinds, "sigterm" \notin FaultKinds,
         "lateBeat" \notin FaultKinds, "slowFirst" \notin FaultKinds
  PROVE  HistorySpec => StoredSegmentsKept
<1>1. HistoryInit => SystemInv /\ LossInv /\ TodoInv /\ MarkInv /\ GiveUpInv /\ ResumeInv
  <2> SUFFICES ASSUME Init, failed = {}
               PROVE  SystemInv /\ LossInv /\ TodoInv /\ MarkInv /\ GiveUpInv /\ ResumeInv
    BY DEF HistoryInit
  <2>1. SystemInv
    BY SystemInit
  <2>2. LossInv
    BY DEF Init, WorkersInit, IdleWorker, LossInv
  <2>3. \A j \in Jobs : jobs[j].hb = "none" /\ jobs[j].status \in {"absent", "Pending"}
    BY DEF Init, InsertedRow, AbsentRow
  <2>4. TodoInv /\ MarkInv
    BY <2>3 DEF Init, WorkersInit, IdleWorker, ControlInit, Resting, Goroutines,
                TodoInv, TodoOf, MarkInv
  <2>5. GiveUpInv
    BY DEF Init, ControlInit, Resting, Goroutines, GiveUpInv
  <2>6. \A j \in Jobs : \A s \in Segs : dirs[j].file[s] = "absent"
    BY DEF Init, NoDir
  <2>7. ResumeInv
    BY <2>3, <2>6 DEF Init, WorkersInit, IdleWorker, ControlInit, Resting, Goroutines,
       ResumeInv, WaitsAfterFiles, AsksAfterFiles, NoneFrom, Working, HandDead
  <2> QED BY <2>1, <2>2, <2>4, <2>5, <2>7
<1> DEFINE Inv == SystemInv /\ LossInv /\ TodoInv /\ MarkInv /\ GiveUpInv /\ ResumeInv
<1>2. Inv /\ [HistoryNext]_historyVars => Inv'
  <2> SUFFICES ASSUME Inv, [HistoryNext]_historyVars
               PROVE  Inv'
    OBVIOUS
  <2>1. [Next]_vars
    BY DEF HistoryNext, historyVars
  <2> QED BY <2>1, SystemStep, LossStep, TodoStep, MarkStep, GiveUpStep, ResumeStep
<1>3. Inv =>
        \A w \in Workers :
          OpenSegment(w) /\ wk[w].job \notin failed =>
            ~ /\ wk[w].cur \in segments[wk[w].job]
              /\ dirs[wk[w].job].file[wk[w].cur] = "closed"
  <2> SUFFICES ASSUME Inv, NEW w \in Workers, OpenSegment(w), wk[w].job \notin failed
               PROVE  dirs[wk[w].job].file[wk[w].cur] # "closed"
    OBVIOUS
  <2>1. wk[w].ff = "run" /\ ~ wk[w].open /\ wk[w].cur \in Segs
    BY DEF OpenSegment
  <2>2. Working(w)
    BY <2>1 DEF SystemInv, SaneWorkers, SaneWorker, Working
  <2>3. NoneFrom(wk[w].job, wk[w].cur)
    BY <2>1, <2>2 DEF ResumeInv, WorksAfterFiles
  <2> QED BY <2>1, <2>3, NothingAt
<1> QED BY <1>1, <1>2, <1>3, PTL DEF HistorySpec, StoredSegmentsKept
-----------------------------------------------------------------------------
(* What is completed is not started again *)

\* Statements that are neither claims nor reports complete nothing.
LEMMA NothingCompleted ==
  ASSUME SystemInv, NEW j \in Jobs,
         jobs[j].status # "Completed", jobs'[j].status = "Completed"
  PROVE  /\ ~ UNCHANGED jobs
         /\ \A k \in Jobs, w \in Workers : ~ Claim(w, k) /\ ~ Heartbeat(k, w)
         /\ \A k \in Jobs, s \in Segs : ~ AddSegment(k, s)
         /\ \A k \in Jobs, req \in Requests : ~ Enqueue(k, req)
         /\ \A k \in Jobs : ~ MarkWorkerAsDead(k) /\ ~ TouchJob(k)
         /\ \A c \in Callers : ~ DeleteRow(c)
         /\ ~ Ageing
<1>1. jobs \in [Jobs -> JobRow]
  BY DEF SystemInv, QueueTypeOK
<1>2. ~ SameWork(j)
  BY DEF SameWork
<1>3. ASSUME NEW k \in Jobs, NEW w \in Workers, Claim(w, k)
      PROVE  FALSE
  BY <1>1, <1>3 DEF Claim, Dequeue, ClaimedRow, JobRow
<1>4. ASSUME NEW k \in Jobs, NEW req \in Requests, Enqueue(k, req)
      PROVE  FALSE
  <2>1. CASE Insert(k, req)
    BY <1>1, <2>1 DEF Insert, InsertedRow, AbsentRow
  <2>2. CASE Upsert(k, req)
    BY <1>1, <2>2 DEF Upsert, UpsertedRow, JobRow
  <2> QED BY <1>4, <2>1, <2>2 DEF Enqueue
<1>5. ASSUME NEW c \in Callers, DeleteRow(c)
      PROVE  FALSE
  BY <1>1, <1>5 DEF DeleteRow, AbsentRow
<1> QED BY <1>2, <1>3, <1>4, <1>5, SameWorkStatements DEF Ageing

\* A worker completes the job that it holds and works on.
LEMMA HolderCompletes ==
  ASSUME SystemInv, LossInv, NEW w \in Workers, WorkerStep(w), NEW j \in Jobs,
         jobs[j].status # "Completed", jobs'[j].status = "Completed"
  PROVE  Kept(j)
<1>1. jobs \in [Jobs -> JobRow] /\ wk[w] \in SaneWorkers
  BY DEF SystemInv, QueueTypeOK
<1>2. wk[w].pc \notin {"idle", "stopped"} => wk[w].job \in Jobs
  BY <1>1 DEF SaneWorkers, SaneWorker
<1>3. /\ ~ UNCHANGED queueVars
      /\ \A k \in Jobs : ~ Claim(w, k) /\ ~ Heartbeat(k, w)
      /\ \A k \in Jobs, s \in Segs : ~ AddSegment(k, s)
  BY NothingCompleted DEF queueVars
<1>4. ASSUME NEW status, wk[w].pc \notin {"idle", "stopped"},
             Delivered(w, status) \/ Tell(w, status) \/ TellInContext(w, status)
      PROVE  Kept(j)
  <2>1. PICK k \in Jobs : k = wk[w].job
    BY <1>2, <1>4
  <2>2. OwnedBy(k, w) /\ UpdateJob(k, ReportOf(w, status))
    BY <1>3, <1>4, <2>1 DEF Tell, TellInContext, Lost, Delivered
  <2>3. k = j
    BY <1>1, <2>2 DEF UpdateJob
  <2>4. ~ wk[w].cancelled
    BY <2>1, <2>2 DEF LossInv
  <2> QED BY <1>4, <2>1, <2>2, <2>3, <2>4 DEF Kept, Beating, OwnedBy
<1>5. CASE JobThread(w)
  <2>1. CASE MarkProcessing(w) \/ MarkReady(w) \/ Completes(w) \/ Fails(w)
    BY <1>4, <2>1 DEF MarkProcessing, MarkReady, Completes, Fails
  <2>2. CASE MkdirFails(w) \/ StartFails(w) \/ ManifestTimeout(w)
    BY <1>3, <1>4, <2>2 DEF MkdirFails, StartFails, ManifestTimeout
  <2>3. CASE MakeDir(w) \/ Launch(w) \/ Aborts(w) \/ Cleanup(w)
    BY <1>3, <2>3 DEF MakeDir, Launch, Aborts, Cleanup
  <2> QED BY <1>5, <2>1, <2>2, <2>3 DEF JobThread
<1>6. CASE HeartbeatLoop(w)
  <2>1. LoopRuns(w)
    BY <1>6 DEF HeartbeatLoop, Beat, StatusCheck
  <2>2. ~ Heartbeat(wk[w].job, w)
    BY <1>2, <1>3, <2>1 DEF LoopRuns
  <2> QED BY <1>3, <1>6, <2>2 DEF HeartbeatLoop, Beat, BeatLost, StatusCheck
<1>7. CASE Watcher(w)
  <2>1. ASSUME NEW s \in Segs, ReportSegment(w, s)
        PROVE  FALSE
    BY <1>2, <1>3, <2>1 DEF ReportSegment, Unreported
  <2>2. ~ ReportLate(w)
    <3>1. ASSUME NEW tick \in wk[w].late, AddSegment(tick[1], Min(tick[2]))
          PROVE  FALSE
      <4>1. tick[1] \in Jobs /\ tick[2] \in SUBSET Segs /\ tick[2] # {}
        BY <1>1 DEF SaneWorkers, SaneWorker, WorkerState
      <4>2. Min(tick[2]) \in Segs
        BY <4>1, MinOf, Numbering
      <4> QED BY <1>3, <3>1, <4>1, <4>2
    <3> QED BY <1>3, <3>1 DEF ReportLate
  <2> QED BY <1>3, <1>7, <2>1, <2>2 DEF Watcher, ReadAhead
<1>8. CASE Ffmpeg(w) \/ Crash(w) \/ Sigterm(w) \/ FirstSegmentSlow(w)
  BY <1>3, <1>8 DEF Ffmpeg, OpenSegment, CloseSegment, EncodeEnds, EncodeFails,
                    Killed, Crash, Sigterm, FirstSegmentSlow
<1> QED BY <1>3, <1>5, <1>6, <1>7, <1>8 DEF WorkerStep

\* So a job that nobody works on is not completed.
LEMMA StaysUncompleted ==
  ASSUME SystemInv, LossInv, [Next]_vars, NEW j \in Jobs,
         jobs[j].status # "Completed", ~ Kept(j)
  PROVE  jobs'[j].status # "Completed"
<1> SUFFICES ASSUME jobs'[j].status = "Completed"
             PROVE  FALSE
  OBVIOUS
<1>1. ~ UNCHANGED jobs
  BY NothingCompleted
<1>2. CASE ControlStep
  BY <1>1, <1>2, ControlCalls, NothingCompleted
  DEF ControlCall, queueVars, DeleteSegments, DeletesAbandoned
<1>3. ASSUME NEW k \in Jobs, Time(k)
      PROVE  FALSE
  BY <1>3, NothingCompleted DEF Time, Ageing
<1>4. ASSUME NEW w \in Workers, WorkerStep(w)
      PROVE  FALSE
  BY <1>4, HolderCompletes
<1> QED BY <1>1, <1>2, <1>3, <1>4 DEF Next, vars, queueVars

\* The rows that a monitor takes for those of dead workers are not worked on, nor
\* completed.
DeadInv ==
  /\ \A m \in Monitors : HandDead(m)
  /\ \A m \in Monitors :
       /\ \A copy \in ctl[m].todo :
            copy.status # "Failed" => jobs[copy.job].status # "Completed"
       /\ ctl[m].pc = "dead" => jobs[Job(m)].status # "Completed"

\* They stay so until the monitor has recovered them.
LEMMA DeadStep ==
  ASSUME SystemInv, LossInv, TodoInv, MarkInv, DeadInv, [Next]_vars,
         OneMonitor, NoClients
  PROVE  DeadInv'
<1>1. ASSUME NEW m \in Monitors
      PROVE  HandDead(m)'
  BY HandStep DEF DeadInv
<1>2. ASSUME NEW m \in Monitors, NEW copy \in ctl[m].todo, copy.status # "Failed"
      PROVE  jobs'[copy.job].status # "Completed"
  <2>1. copy.job \in Jobs
    BY MonitorsJobs DEF Copies
  <2>2. jobs[copy.job].status # "Completed" /\ ~ Kept(copy.job)
    BY <1>2 DEF DeadInv, MarkInv
  <2> QED BY <2>1, <2>2, StaysUncompleted
<1>3. ASSUME NEW m \in Monitors, NEW copy \in ctl'[m].todo, copy.status # "Failed"
      PROVE  jobs'[copy.job].status # "Completed"
  <2>1. CASE copy \in ctl[m].todo
    BY <1>2, <1>3, <2>1
  <2>2. CASE MonitorList(m)
    <3>1. PICK found \in SUBSET Jobs :
            /\ \A j \in found : jobs[j].status = "Failed" \/ DeadWorker(j)
            /\ Go(m, [Resting EXCEPT !.pc = "list", !.todo = {CopyOf(j) : j \in found}])
      BY <2>2 DEF MonitorList, Listed
    <3>2. ctl'[m].todo = {CopyOf(j) : j \in found}
      BY <3>1 DEF Go, SystemInv, Goroutines, Resting
    <3>3. PICK j \in found : copy = CopyOf(j)
      BY <1>3, <3>2
    <3>4. jobs[copy.job].status # "Completed" /\ jobs' = jobs
      BY <1>3, <2>2, <3>1, <3>3 DEF CopyOf, DeadWorker, MonitorList, queueVars
    <3> QED BY <3>4
  <2>3. copy \in ctl[m].todo \/ MonitorList(m)
    BY <1>3, MonitorsTurn, MonitorMoves DEF Resting
  <2> QED BY <2>1, <2>2, <2>3
<1>4. ASSUME NEW m \in Monitors, ctl'[m].pc = "dead"
      PROVE  \E copy : /\ copy = ctl'[m].copy
                       /\ jobs'[copy.job].status # "Completed"
  <2>1. CASE ctl'[m] = ctl[m]
    <3>1. PICK j \in Jobs : j = ctl[m].copy.job
      BY MonitorsJobs DEF Copies
    <3>2. jobs[j].status # "Completed" /\ ~ Kept(j)
      BY <1>4, <2>1, <3>1 DEF DeadInv, HandDead, Job
    <3> QED BY <2>1, <3>1, <3>2, StaysUncompleted
  <2>2. CASE MonitorStep(m)
    <3>1. PICK copy \in ctl[m].todo : MarkDead(m, copy) /\ ctl'[m].copy = copy
      BY <1>4, <2>2, MonitorMoves
    <3>2. copy.status # "Failed"
      BY <3>1 DEF MarkDead
    <3> QED BY <1>2, <3>1, <3>2
  <2> QED BY <1>4, <2>1, <2>2, MonitorsTurn DEF Resting
<1> QED BY <1>1, <1>3, <1>4 DEF DeadInv, Job

\* With one control plane whose monitor is the only one to enqueue or delete jobs,
\* and workers that die or fail but are neither late nor cut off, a Completed job is
\* never queued, claimed or failed again, nor deleted: the snapshot of a tick may be
\* as old as it will, and reports still on their way as late.
THEOREM CompletedIsFinal ==
  ASSUME OneMonitor, NoClients, Watchdogs = {},
         "lostCall" \notin FaultKinds, "sigterm" \notin FaultKinds,
         "lateBeat" \notin FaultKinds, "slowFirst" \notin FaultKinds
  PROVE  Spec => CompletedStays
<1> DEFINE Inv == SystemInv /\ LossInv /\ TodoInv /\ MarkInv /\ GiveUpInv /\ DeadInv
<1>1. Init => LossInv /\ TodoInv /\ MarkInv /\ GiveUpInv /\ DeadInv
  <2> SUFFICES ASSUME Init
               PROVE  LossInv /\ TodoInv /\ MarkInv /\ GiveUpInv /\ DeadInv
    OBVIOUS
  <2>1. LossInv
    BY DEF Init, WorkersInit, IdleWorker, LossInv
  <2>2. \A j \in Jobs : jobs[j].hb = "none" /\ jobs[j].status \in {"absent", "Pending"}
    BY DEF Init, InsertedRow, AbsentRow
  <2>3. TodoInv /\ MarkInv
    BY <2>2 DEF Init, WorkersInit, IdleWorker, ControlInit, Resting, Goroutines,
                TodoInv, TodoOf, MarkInv
  <2>4. GiveUpInv /\ DeadInv
    BY DEF Init, ControlInit, Resting, Goroutines, GiveUpInv, DeadInv, HandDead
  <2> QED BY <2>1, <2>3, <2>4
<1>2. SystemInv /\ LossInv /\ TodoInv /\ MarkInv /\ GiveUpInv /\ DeadInv /\ [Next]_vars =>
        LossInv' /\ TodoInv' /\ MarkInv' /\ GiveUpInv' /\ DeadInv'
  BY LossStep, TodoStep, MarkStep, GiveUpStep, DeadStep
<1>3. ASSUME SystemInv, GiveUpInv, DeadInv, [Next]_vars, NEW j \in Jobs,
             jobs[j].status = "Completed"
      PROVE  jobs'[j].status = "Completed"
  <2>1. \A w \in Workers : ~ Claim(w, j)
    BY <1>3 DEF Claim, Dequeue, Claimable
  <2>2. ASSUME NEW w \in Workers, NEW report \in Reports, UpdateJob(j, report)
        PROVE  FALSE
    BY <1>3, <2>2 DEF UpdateJob, OwnedBy, Active
  <2>3. ASSUME NEW m \in Monitors, Recovers(m, j)
        PROVE  FALSE
    <3>1. RecoverDead(m) /\ Job(m) = j
      BY <1>3, <2>3, RecoveredAfterFiles
    <3> QED BY <1>3, <3>1 DEF DeadInv, RecoverDead, At
  <2>4. ~ Dropped(j)
    BY <1>3, UnfailedStays
  <2> QED BY <1>3, <2>1, <2>2, <2>3, <2>4, WorkStep DEF SameWork
<1>4. SystemInv /\ GiveUpInv /\ DeadInv /\ [Next]_vars =>
        [\A j \in Jobs : jobs[j].status = "Completed" =>
           jobs'[j].status = "Completed"]_vars
  BY <1>3
<1> QED BY <1>1, <1>2, <1>4, SystemSafe, PTL DEF Spec, CompletedStays
=============================================================================
