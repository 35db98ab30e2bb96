-------------------------- MODULE TranscodeProofs --------------------------
(***************************************************************************)
(* The whole transcoding path only ever uses the store the way QueueSpec   *)
(* allows, for any number of jobs, workers, monitors, watchdogs, viewers   *)
(* and players and whatever goes wrong, so that what is proved of the      *)
(* store holds in the system.  What a call passes to the store comes from  *)
(* rows read earlier, files on the volume and manifests; the invariant     *)
(* says that all of these hold numbers of segments.                        *)
(***************************************************************************)
EXTENDS Transcode, JobQueueProofs

\* The columns of every row that callers of the store fill in.
RowsInRange ==
  \A j \in Jobs : /\ jobs[j].startSeg \in Positions
                  /\ jobs[j].lastSeg \in Segs
                  /\ jobs[j].restarts \in Restarts

\* A worker that is on a job, an ffmpeg that is on a segment, ticks that still
\* have something to report.
SaneWorker(st) ==
  /\ st.lastSeg \in Segs
  /\ st.pc \notin {"idle", "stopped"} => st.job \in Jobs
  /\ st.ff = "run" => st.pc \in {"manifest", "stream"}
  /\ st.open => st.ff = "run" /\ st.cur \in Segs
  /\ \A tick \in st.late : tick[2] # {}

SaneWorkers == {st \in WorkerState : SaneWorker(st)}

\* The last segment of a row that was read is one.
SaneCopies == {copy \in Copies : copy.lastSeg \in Segs}

SaneControl == {st \in Control : st.todo \subseteq SaneCopies /\ st.copy \in SaneCopies}

SystemInv ==
  /\ QueueTypeOK /\ RowsInRange
  /\ DirsTypeOK
  /\ wk \in [Workers -> SaneWorkers]
  /\ ctl \in [Goroutines -> SaneControl]
  /\ faults \in 0 .. MaxFaults
-----------------------------------------------------------------------------
(* Numbers of segments *)

\* A set of numbers that is not empty has a minimum.
LEMMA MinOf ==
  ASSUME NEW S \in SUBSET Nat, S # {}
  PROVE  Min(S) \in S /\ \A y \in S : Min(S) <= y
BY LeastNumber DEF Min

\* One that is bounded has a maximum too.
LEMMA MaxOf ==
  ASSUME NEW b \in Nat, NEW S \in SUBSET (0 .. b), S # {}
  PROVE  Max(S) \in S /\ \A y \in S : Max(S) >= y
<1> DEFINE D == {d \in Nat : \E s \in S : d = b - s}
<1>1. D \in SUBSET Nat /\ D # {}
  <2>1. PICK s \in S : TRUE
    OBVIOUS
  <2>2. b - s \in Nat
    BY <2>1
  <2>3. b - s \in D
    BY <2>1, <2>2
  <2> QED BY <2>3
<1>2. PICK d \in D : \A e \in D : d <= e
  <2> HIDE DEF D
  <2> QED BY <1>1, LeastNumber
<1>3. PICK x \in S : d = b - x
  OBVIOUS
<1>4. ASSUME NEW y \in S PROVE x >= y
  <2>1. b - y \in D
    OBVIOUS
  <2>2. b - x <= b - y
    BY <1>2, <1>3, <2>1
  <2> QED BY <2>2
<1> QED BY <1>4 DEF Max

\* Segments are numbered from 0, without a gap.
LEMMA Numbering ==
  /\ 0 \in Segs /\ 0 \in Positions
  /\ Segs \subseteq Nat /\ Segs \subseteq Positions /\ Positions \subseteq Nat
  /\ \A s \in Segs : s + 1 \in Positions
  /\ \A p \in Positions : p > 0 => p - 1 \in Segs
  /\ \A p \in Positions, s \in Segs : p .. s \subseteq Segs
<1>1. PICK last \in Segs : Segs = 0 .. last
  BY NumberingAssumption
<1>2. last \in Nat
  BY <1>1, BoundsAssumption
<1>3. Positions = 0 .. last + 1
  <2>1. ASSUME NEW p \in 0 .. last + 1 PROVE p \in Positions
    <3>1. CASE p = last + 1
      BY <1>1, <1>2, <3>1 DEF Positions
    <3>2. CASE p # last + 1
      BY <1>1, <1>2, <3>2 DEF Positions
    <3> QED BY <3>1, <3>2
  <2>2. ASSUME NEW p \in Positions PROVE p \in 0 .. last + 1
    BY <1>1, <1>2 DEF Positions
  <2> QED BY <2>1, <2>2
<1>4. QED BY <1>1, <1>2, <1>3

\* The segment after the files of a directory is a position.
LEMMA NextIsPosition ==
  ASSUME NEW dir \in Dir
  PROVE  NextOnDisk(dir) \in Positions
<1>1. PICK last \in Segs : Segs = 0 .. last
  BY NumberingAssumption
<1>2. last \in Nat /\ Files(dir) \subseteq 0 .. last
  BY <1>1, BoundsAssumption DEF Files
<1>3. CASE Files(dir) = {}
  BY <1>3, Numbering DEF NextOnDisk
<1>4. CASE Files(dir) # {}
  <2>1. Max(Files(dir)) \in Segs
    BY <1>1, <1>2, <1>4, MaxOf
  <2> QED BY <1>4, <2>1, Numbering DEF NextOnDisk
<1> QED BY <1>3, <1>4
-----------------------------------------------------------------------------
(* What the system asks of the store *)

\* The statements a step of a worker may run.
WorkerCall(w) ==
  \/ UNCHANGED queueVars
  \/ \E j \in Jobs : Claim(w, j) \/ Heartbeat(j, w)
  \/ \E j \in Jobs, report \in Reports :
       report.worker = w /\ report.hb = wk[w].hb /\ UpdateJob(j, report)
  \/ \E j \in Jobs, s \in Segs : AddSegment(j, s)

\* The statements a step of the control plane may run.
ControlCall ==
  \/ UNCHANGED queueVars
  \/ \E j \in Jobs, req \in Requests : Enqueue(j, req)
  \/ \E m \in Monitors : \E copy \in ctl[m].todo :
       copy.job \in Jobs /\ MarkDead(m, copy) /\ MarkWorkerAsDead(copy.job)
  \/ \E j \in Jobs : TouchJob(j)
  \/ \E c \in Callers, j \in Jobs : DeleteSegments(c, j)
  \/ \E c \in Callers : DeleteRow(c)
  \/ \E lost \in SUBSET Callers : DeletesAbandoned(lost)

Ageing ==
  \E j \in Jobs : HeartbeatAges(j) \/ RecoveryAges(j) \/ AccessAges(j)

\* A worker reports the last segment of its copy, which is one, and the age of the
\* heartbeat it has kept since it started the job.
LEMMA ReportTyped ==
  ASSUME SystemInv, NEW w \in Workers, NEW status \in Reported
  PROVE  /\ ReportOf(w, status) \in Reports
         /\ ReportOf(w, status).worker = w /\ ReportOf(w, status).hb = wk[w].hb
<1>1. wk[w] \in SaneWorkers
  BY DEF SystemInv
<1>2. wk[w].hb \in {"fresh", "stale"} /\ wk[w].lastSeg \in Segs
  BY <1>1 DEF SaneWorkers, SaneWorker, WorkerState
<1> QED BY <1>2 DEF ReportOf, Reports

\* Reports of a worker that is on a job are statements of the store, or are
\* refused or lost.
LEMMA ReportsAreCalls ==
  ASSUME SystemInv, NEW w \in Workers, wk[w].pc \notin {"idle", "stopped"},
         NEW status \in Reported,
         Delivered(w, status) \/ Tell(w, status) \/ TellInContext(w, status)
  PROVE  WorkerCall(w)
<1>1. wk[w].job \in Jobs
  BY DEF SystemInv, SaneWorkers, SaneWorker
<1>2. CASE Delivered(w, status)
  BY <1>1, <1>2, ReportTyped DEF Delivered, WorkerCall
<1>3. CASE Lost
  BY <1>3 DEF Lost, WorkerCall
<1>4. CASE UNCHANGED queueVars
  BY <1>4 DEF WorkerCall
<1> QED BY <1>2, <1>3, <1>4 DEF Tell, TellInContext

\* Nothing else is asked of the store by a worker, its goroutines or ffmpeg.
LEMMA WorkersCall ==
  ASSUME SystemInv, NEW w \in Workers, WorkerStep(w)
  PROVE  WorkerCall(w)
<1>1. wk[w] \in SaneWorkers
  BY DEF SystemInv
<1>2. wk[w].pc \notin {"idle", "stopped"} => wk[w].job \in Jobs
  BY <1>1 DEF SaneWorkers, SaneWorker
<1>3. {"Processing", "Ready", "Completed", "Failed"} \subseteq Reported
  BY DEF Reported
<1>4. ASSUME UNCHANGED queueVars
      PROVE  WorkerCall(w)
  BY <1>4 DEF WorkerCall
<1>5. ASSUME NEW j \in Jobs, Claim(w, j)
      PROVE  WorkerCall(w)
  BY <1>5 DEF WorkerCall
<1>6. CASE JobThread(w)
  <2>1. CASE MarkProcessing(w)
    BY <1>3, <2>1, ReportsAreCalls DEF MarkProcessing
  <2>2. CASE MkdirFails(w)
    BY <1>3, <1>4, <2>2, ReportsAreCalls DEF MkdirFails
  <2>3. CASE StartFails(w)
    BY <1>3, <2>3, ReportsAreCalls DEF StartFails
  <2>4. CASE MarkReady(w)
    BY <1>3, <2>4, ReportsAreCalls DEF MarkReady
  <2>5. CASE ManifestTimeout(w)
    BY <1>3, <1>4, <2>5, ReportsAreCalls DEF ManifestTimeout
  <2>6. CASE Completes(w)
    BY <1>3, <2>6, ReportsAreCalls DEF Completes
  <2>7. CASE Fails(w)
    BY <1>3, <2>7, ReportsAreCalls DEF Fails
  <2>8. CASE MakeDir(w) \/ Launch(w) \/ Aborts(w) \/ Cleanup(w)
    BY <1>4, <2>8 DEF MakeDir, Launch, Aborts, Cleanup
  <2> QED BY <1>6, <2>1, <2>2, <2>3, <2>4, <2>5, <2>6, <2>7, <2>8 DEF JobThread
<1>7. CASE HeartbeatLoop(w)
  <2>1. CASE LoopRuns(w) /\ Heartbeat(wk[w].job, w)
    BY <1>2, <2>1 DEF LoopRuns, WorkerCall
  <2>2. QED BY <1>4, <1>7, <2>1 DEF HeartbeatLoop, Beat, BeatLost, StatusCheck
<1>8. CASE Watcher(w)
  <2>1. ASSUME NEW s \in Segs, ReportSegment(w, s)
        PROVE  WorkerCall(w)
    <3>1. wk[w].job \in Jobs /\ AddSegment(wk[w].job, s)
      BY <1>2, <2>1 DEF ReportSegment, Unreported
    <3> QED BY <3>1 DEF WorkerCall
  <2>2. ASSUME ReportLate(w)
        PROVE  WorkerCall(w)
    <3>1. PICK tick \in wk[w].late :
            AddSegment(tick[1], Min(tick[2])) \/ UNCHANGED queueVars
      BY <2>2 DEF ReportLate
    <3>2. tick[1] \in Jobs /\ tick[2] \in SUBSET Segs /\ tick[2] # {}
      BY <1>1 DEF SaneWorkers, SaneWorker, WorkerState
    <3>3. Min(tick[2]) \in Segs
      BY <3>2, MinOf, Numbering
    <3> QED BY <1>4, <3>1, <3>2, <3>3 DEF WorkerCall
  <2> QED BY <1>4, <1>8, <2>1, <2>2 DEF Watcher, ReadAhead
<1>9. CASE Ffmpeg(w) \/ Crash(w) \/ Sigterm(w) \/ FirstSegmentSlow(w)
  BY <1>4, <1>9 DEF Ffmpeg, OpenSegment, CloseSegment, EncodeEnds, EncodeFails,
                    Killed, Crash, Sigterm, FirstSegmentSlow
<1> QED BY <1>5, <1>6, <1>7, <1>8, <1>9 DEF WorkerStep

\* The request a recovery makes is well formed: the next restart count is one
\* the store may hold, and what it resumes from is a position.
LEMMA RecoveryTyped ==
  ASSUME SystemInv, NEW copy \in SaneCopies, NEW start \in Positions,
         TriggerJIT(copy, start)
  PROVE  ControlCall
<1>1. copy.job \in Jobs /\ copy.restarts \in Restarts
  BY DEF SaneCopies, Copies
<1>2. Bumped(copy.restarts) \in Restarts
  BY <1>1, ControlAssumption DEF Bumped
<1>3. [restarts |-> Bumped(copy.restarts), startSeg |-> start,
       recovering |-> TRUE] \in Requests
  BY <1>2 DEF Requests
<1> QED BY <1>1, <1>3 DEF TriggerJIT, Submit, ControlCall

\* A recovery asks for a segment of the file, or the one past its last.
LEMMA RecoveryPointTyped ==
  ASSUME SystemInv, NEW copy \in SaneCopies
  PROVE  RecoveryPoint(copy) \in Positions /\ copy.lastSeg + 1 \in Positions
<1>1. dirs[copy.job] \in Dir /\ copy.lastSeg \in Segs
  BY DEF SystemInv, DirsTypeOK, SaneCopies, Copies
<1> QED BY <1>1, NextIsPosition, Numbering DEF RecoveryPoint

\* Nothing else is asked of the store by the goroutines of the control plane.
LEMMA ControlCalls ==
  ASSUME SystemInv, ControlStep
  PROVE  ControlCall
<1>1. ASSUME NEW g \in Goroutines
      PROVE  /\ ctl[g].todo \subseteq SaneCopies /\ ctl[g].copy \in SaneCopies
             /\ ctl[g].seg \in Positions /\ Job(g) \in Jobs
  BY DEF SystemInv, SaneControl, Control, SaneCopies, Copies, Job
<1>2. ASSUME UNCHANGED queueVars
      PROVE  ControlCall
  BY <1>2 DEF ControlCall
<1>3. ASSUME NEW j \in Jobs, NEW pos \in Positions,
             Submit(j, FreshRequest(pos))
      PROVE  ControlCall
  <2>1. FreshRequest(pos) \in Requests
    BY ControlAssumption DEF FreshRequest, Requests
  <2> QED BY <1>3, <2>1 DEF Submit, ControlCall
<1>4. ASSUME NEW g \in Callers, NEW j \in Jobs, NEW next, NEW skipped,
             BeginDelete(g, j, next, skipped)
      PROVE  ControlCall
  BY <1>4 DEF BeginDelete, ControlCall
<1>5. ASSUME NEW lost, DeletesAbandoned(lost)
      PROVE  ControlCall
  <2>1. DeletesAbandoned(lost \cap Callers) /\ lost \cap Callers \in SUBSET Callers
    BY <1>5 DEF DeletesAbandoned
  <2> QED BY <2>1 DEF ControlCall
<1>6. ASSUME NEW g \in Callers, NEW from, NEW to, EndDelete(g, from, to)
      PROVE  ControlCall
  BY <1>5, <1>6 DEF EndDelete, ControlCall
<1>7. ASSUME NEW m \in Monitors, MonitorStep(m)
      PROVE  ControlCall
  <2>1. m \in Callers /\ m \in Goroutines
    BY ControlAssumption DEF Goroutines
  <2>2. ASSUME NEW copy \in ctl[m].todo,
               RetryFailed(m, copy) \/ GiveUp(m, copy) \/ MarkDead(m, copy)
        PROVE  ControlCall
    <3>1. copy \in SaneCopies /\ copy.job \in Jobs
      BY <1>1, <2>1 DEF SaneCopies, Copies
    <3>2. CASE RetryFailed(m, copy)
      BY <3>1, <3>2, RecoveryTyped, RecoveryPointTyped DEF RetryFailed
    <3>3. CASE GiveUp(m, copy)
      BY <1>4, <2>1, <3>1, <3>3 DEF GiveUp, DeleteTaken
    <3>4. CASE MarkDead(m, copy)
      BY <1>2, <3>1, <3>4 DEF MarkDead, ControlCall
    <3> QED BY <2>2, <3>2, <3>3, <3>4
  <2>3. CASE RecoverDead(m)
    BY <1>1, <2>1, <2>3, RecoveryTyped, RecoveryPointTyped DEF RecoverDead
  <2> QED BY <1>2, <1>6, <1>7, <2>1, <2>2, <2>3
          DEF MonitorStep, MonitorList, MonitorRow, RemoveJobDir
<1>8. ASSUME NEW d \in Watchdogs, WatchdogStep(d)
      PROVE  ControlCall
  <2>1. d \in Callers /\ d \in Goroutines
    BY ControlAssumption DEF Goroutines
  <2>2. CASE Reap(d)
    <3>1. PICK copy \in ctl[d].todo : DeleteTaken(d, copy)
      BY <2>2 DEF Reap
    <3>2. copy.job \in Jobs
      BY <1>1, <2>1 DEF SaneCopies, Copies
    <3> QED BY <1>4, <2>1, <3>1, <3>2 DEF DeleteTaken
  <2> QED BY <1>2, <1>6, <1>8, <2>1, <2>2
          DEF WatchdogStep, WatchdogList, RemoveJobDir
<1>9. ASSUME NEW v \in Viewers, ViewerStep(v)
      PROVE  ControlCall
  <2>1. v \in Goroutines
    BY DEF Goroutines
  <2>2. ASSUME NEW j \in Jobs,
               RequestPlaylist(v, j) \/ \E s \in Segs : RequestSegment(v, j, s)
        PROVE  ControlCall
    BY <1>2, <2>2 DEF RequestPlaylist, RequestSegment, Touched, ControlCall
  <2>3. CASE RequestJIT(v)
    BY <1>1, <2>1, <2>3, RecoveryTyped DEF RequestJIT
  <2> QED BY <1>2, <1>9, <2>2, <2>3 DEF ViewerStep, Answering, ReadJob
<1>10. ASSUME NEW p \in Players, PlayerStep(p)
       PROVE  ControlCall
  <2>1. p \in Callers /\ p \in Goroutines
    BY ControlAssumption DEF Goroutines
  <2>2. CASE StartPlayback(p) \/ StartSeek(p)
    BY <1>1, <1>3, <2>1, <2>2, Numbering DEF StartPlayback, StartSeek
  <2>3. ASSUME NEW j \in Jobs,
               RequestStop(p, j) \/ \E pos \in Segs : RequestSeek(p, j, pos)
        PROVE  ControlCall
    BY <1>4, <2>1, <2>3 DEF RequestStop, RequestSeek
  <2> QED BY <1>2, <1>6, <1>10, <2>1, <2>2, <2>3
          DEF PlayerStep, Handling, RequestPlayback, LookAgain
<1>11. CASE ControlPlaneCrash \/ \E g \in Viewers \cup Players : Disconnect(g)
  BY <1>5, <1>11 DEF ControlPlaneCrash, Disconnect
<1> QED BY <1>7, <1>8, <1>9, <1>10, <1>11 DEF ControlStep

\* Every step of the system is, on the store, one of these.
LEMMA SystemCalls ==
  ASSUME SystemInv, Next
  PROVE  (\E w \in Workers : WorkerCall(w)) \/ ControlCall \/ Ageing
BY WorkersCall, ControlCalls DEF Next, Time, Ageing

\* Whatever the system does, the store takes a step of its own or none.
LEMMA ContractStep ==
  ASSUME SystemInv, [Next]_vars
  PROVE  [QueueNext]_queueVars
<1>1. CASE UNCHANGED vars
  BY <1>1 DEF vars, queueVars
<1>2. CASE \E w \in Workers : WorkerCall(w)
  BY <1>2 DEF WorkerCall, Claim, QueueNext, JobStep
<1>3. CASE ControlCall
  BY <1>3 DEF ControlCall, QueueNext, JobStep, CallerStep
<1>4. CASE Ageing
  BY <1>4 DEF Ageing, QueueNext, JobStep
<1> QED BY <1>1, <1>2, <1>3, <1>4, SystemCalls
-----------------------------------------------------------------------------
(* The invariant is preserved *)

\* A row's start, last segment and restarts come from requests and reports.
LEMMA RowsStep ==
  ASSUME QueueTypeOK, RowsInRange, [QueueNext]_queueVars
  PROVE  RowsInRange'
<1> DEFINE InRange(row) == /\ row.startSeg \in Positions
                           /\ row.lastSeg \in Segs
                           /\ row.restarts \in Restarts
<1>1. jobs \in [Jobs -> JobRow] /\ \A j \in Jobs : InRange(jobs[j])
  BY DEF QueueTypeOK, RowsInRange
<1>2. ASSUME NEW j \in Jobs, NEW row, InRange(row), jobs' = [jobs EXCEPT ![j] = row]
      PROVE  RowsInRange'
  BY <1>1, <1>2 DEF RowsInRange
<1>3. ASSUME UNCHANGED jobs
      PROVE  RowsInRange'
  BY <1>1, <1>3 DEF RowsInRange
<1>4. ASSUME NEW j \in Jobs, NEW req \in Requests, Insert(j, req)
      PROVE  RowsInRange'
  <2>1. InRange(InsertedRow(req))
    BY Numbering DEF InsertedRow, AbsentRow, Requests
  <2> QED BY <1>2, <1>4, <2>1 DEF Insert
<1>5. ASSUME NEW j \in Jobs, NEW req \in Requests, Upsert(j, req)
      PROVE  RowsInRange'
  <2>1. InRange(UpsertedRow(jobs[j], req))
    BY <1>1 DEF UpsertedRow, JobRow, Requests
  <2> QED BY <1>2, <1>5, <2>1 DEF Upsert
<1>6. ASSUME NEW j \in Jobs, NEW w \in Workers, Dequeue(j, w)
      PROVE  RowsInRange'
  <2>1. InRange(ClaimedRow(jobs[j], w))
    BY <1>1 DEF ClaimedRow, JobRow
  <2> QED BY <1>2, <1>6, <2>1 DEF Dequeue
<1>7. ASSUME NEW j \in Jobs, NEW report \in Reports, UpdateJob(j, report)
      PROVE  RowsInRange'
  <2>1. InRange(ReportedRow(jobs[j], report))
    BY <1>1 DEF ReportedRow, JobRow, Reports, AtLeast
  <2> QED BY <1>2, <1>7, <2>1 DEF UpdateJob
<1>8. ASSUME NEW j \in Jobs, NEW s \in Segs, AddSegment(j, s)
      PROVE  RowsInRange'
  <2>1. InRange(ExtendedRow(jobs[j], s, s \in segments[j]))
    BY <1>1 DEF ExtendedRow, JobRow, AtLeast
  <2> QED BY <1>2, <1>8, <2>1 DEF AddSegment
<1>9. ASSUME NEW j \in Jobs,
             \/ \E w \in Workers : Heartbeat(j, w)
             \/ MarkWorkerAsDead(j) \/ PurgeJobs(j) \/ TouchJob(j)
             \/ HeartbeatAges(j) \/ RecoveryAges(j) \/ AccessAges(j)
      PROVE  RowsInRange'
  BY <1>1, <1>9 DEF Heartbeat, MarkWorkerAsDead, PurgeJobs, TouchJob,
     HeartbeatAges, RecoveryAges, AccessAges, JobRow, RowsInRange
<1>10. ASSUME NEW c \in Callers, DeleteRow(c)
       PROVE  RowsInRange'
  <2>1. InRange(AbsentRow)
    BY Numbering, ControlAssumption DEF AbsentRow
  <2>2. deleting[c] \in Jobs
    BY <1>10 DEF DeleteRow, QueueTypeOK
  <2> QED BY <1>2, <1>3, <1>10, <2>1, <2>2 DEF DeleteRow
<1>11. QED
  <2> HIDE DEF InRange
  <2>1. CASE QueueNext
    BY <1>3, <1>4, <1>5, <1>6, <1>7, <1>8, <1>9, <1>10, <2>1, StepCases
    DEF DeleteSegments, DeletesAbandoned
  <2> QED BY <1>3, <2>1 DEF queueVars

\* A worker's step leaves it, and the volume, as they may be.
LEMMA WorkersStep ==
  ASSUME SystemInv, NEW w \in Workers, WorkerStep(w)
  PROVE  wk' \in [Workers -> SaneWorkers] /\ DirsTypeOK'
<1> DEFINE Fine == wk' \in [Workers -> SaneWorkers] /\ DirsTypeOK'
<1>1. wk \in [Workers -> SaneWorkers] /\ wk[w] \in SaneWorkers /\ DirsTypeOK
  BY DEF SystemInv
<1>2. ASSUME NEW st \in SaneWorkers, Set(w, st), DirsTypeOK'
      PROVE  Fine
  BY <1>1, <1>2 DEF Set
<1>3. ASSUME UNCHANGED dirs
      PROVE  DirsTypeOK'
  BY <1>1, <1>3 DEF DirsTypeOK
<1>4. ASSUME NEW j \in Jobs, NEW dir \in Dir, dirs' = [dirs EXCEPT ![j] = dir]
      PROVE  DirsTypeOK'
  BY <1>1, <1>4 DEF DirsTypeOK
<1>5. /\ IdleWorker \in SaneWorkers /\ Stopped \in SaneWorkers
      /\ [IdleWorker EXCEPT !.late = wk[w].late] \in SaneWorkers
  <2>1. 0 \in Restarts /\ 0 \in Positions /\ 0 \in Segs /\ 0 \in Nat
    BY Numbering, ControlAssumption
  <2>2. /\ wk[w].late \in SUBSET (Jobs \X SUBSET Segs)
        /\ \A tick \in wk[w].late : tick[2] # {}
    BY <1>1 DEF SaneWorkers, SaneWorker, WorkerState
  <2>3. IdleWorker \in WorkerState
    BY <2>1 DEF WorkerState, IdleWorker, Steps
  <2>4. Stopped \in WorkerState
    BY <2>1 DEF WorkerState, IdleWorker, Stopped, Steps
  <2>5. [IdleWorker EXCEPT !.late = wk[w].late] \in WorkerState
    BY <2>1, <2>2 DEF WorkerState, IdleWorker, Steps
  <2> QED BY <2>1, <2>2, <2>3, <2>4, <2>5
          DEF SaneWorkers, SaneWorker, IdleWorker, Stopped
<1>6. ASSUME Return(w), DirsTypeOK'
      PROVE  Fine
  BY <1>2, <1>5, <1>6 DEF Return
<1>7. wk[w].pc \notin {"idle", "stopped"} =>
        wk[w].job \in Jobs /\ dirs[wk[w].job] \in Dir
  BY <1>1 DEF SaneWorkers, SaneWorker, DirsTypeOK
<1>8. [wk[w] EXCEPT !.cancelled = TRUE] \in SaneWorkers
  BY <1>1 DEF SaneWorkers, SaneWorker, WorkerState
<1>9. NoDir \in Dir
  BY DEF NoDir, Dir
<1>10. ASSUME NEW j \in Jobs, Claim(w, j)
       PROVE  Fine
  <2>1. Given(w, j) \in SaneWorkers
    <3>1. wk[w] \in WorkerState /\ SaneWorker(wk[w]) /\ wk[w].pc = "idle"
      BY <1>1, <1>10 DEF SaneWorkers, Claim
    <3>2. /\ jobs[j].restarts \in Restarts /\ jobs[j].startSeg \in Positions
          /\ jobs[j].lastSeg \in Segs /\ jobs[j].lastSeg \in Nat
      BY Numbering DEF SystemInv, RowsInRange
    <3>3. Given(w, j) \in WorkerState
      BY <3>1, <3>2 DEF Given, WorkerState, Steps
    <3>4. SaneWorker(Given(w, j))
      BY <3>1, <3>2 DEF Given, SaneWorker, WorkerState
    <3> QED BY <3>3, <3>4 DEF SaneWorkers
  <2> QED BY <1>1, <1>2, <1>3, <1>10, <2>1 DEF Claim
<1>11. CASE JobThread(w)
  <2>1. ASSUME NEW pc \in {"mkdir", "launch", "stream", "cleanup"},
               wk[w].pc \notin {"idle", "stopped"},
               pc \in {"mkdir", "launch", "cleanup"} => wk[w].ff # "run"
        PROVE  [wk[w] EXCEPT !.pc = pc] \in SaneWorkers
    <3>1. wk[w] \in WorkerState /\ SaneWorker(wk[w])
      BY <1>1 DEF SaneWorkers
    <3>2. [wk[w] EXCEPT !.pc = pc] \in WorkerState
      BY <2>1, <3>1 DEF WorkerState, Steps
    <3>3. SaneWorker([wk[w] EXCEPT !.pc = pc])
      BY <1>7, <2>1, <3>1 DEF SaneWorker, WorkerState
    <3> QED BY <3>2, <3>3 DEF SaneWorkers
  <2>2. wk[w].ff = "run" => wk[w].pc \in {"manifest", "stream"}
    BY <1>1 DEF SaneWorkers, SaneWorker
  <2>3. CASE MarkProcessing(w)
    BY <1>2, <1>3, <2>1, <2>2, <2>3 DEF MarkProcessing
  <2>4. CASE MakeDir(w)
    <3>1. Made(dirs[wk[w].job]) \in Dir
      BY <1>7, <2>4 DEF MakeDir, Made, Dir
    <3> QED BY <1>2, <1>4, <1>7, <2>1, <2>2, <2>4, <3>1 DEF MakeDir
  <2>5. CASE MkdirFails(w)
    BY <1>3, <1>6, <2>5 DEF MkdirFails
  <2>6. ASSUME NEW short \in SUBSET MaybeShort(dirs[wk[w].job]), wk[w].pc = "launch"
        PROVE  Prepared(w, short) \in Dir /\ ResumePoint(w, short) \in Positions
    <3>1. Surveyed(w, short) \in Dir
      BY <1>7, <2>6 DEF Surveyed, Repaired, Dir
    <3>2. NextOnDisk(Surveyed(w, short)) \in Positions
      BY <3>1, NextIsPosition
    <3>3. wk[w].startSeg \in Positions
      BY <1>1 DEF SaneWorkers, WorkerState
    <3> QED BY <3>1, <3>2, <3>3 DEF Prepared, ResumePoint, Dir
  <2>7. CASE Launch(w)
    <3>1. PICK short \in SUBSET MaybeShort(dirs[wk[w].job]) :
            LET start == ResumePoint(w, short) IN
              /\ dirs' = [dirs EXCEPT ![wk[w].job] = Prepared(w, short)]
              /\ Set(w, [wk[w] EXCEPT
                      !.pc = "manifest", !.ff = "run",
                      !.from = start, !.cur = start,
                      !.lastSeg = IF ResumesLocally(w) /\ start > 0
                                    THEN start - 1 ELSE @,
                      !.restarts = 0, !.startSeg = 0])
      BY <2>7 DEF Launch
    <3> DEFINE start == ResumePoint(w, short)
               last  == IF ResumesLocally(w) /\ start > 0 THEN start - 1
                                                          ELSE wk[w].lastSeg
    <3>2. Prepared(w, short) \in Dir /\ start \in Positions
      BY <2>6, <2>7 DEF Launch
    <3>3. last \in Segs
      BY <1>1, <3>2, Numbering DEF SaneWorkers, SaneWorker
    <3>4. ~ wk[w].open
      BY <1>1, <2>7 DEF SaneWorkers, SaneWorker, Launch
    <3>5. [wk[w] EXCEPT !.pc = "manifest", !.ff = "run", !.from = start,
                        !.cur = start, !.lastSeg = last,
                        !.restarts = 0, !.startSeg = 0] \in SaneWorkers
      <4> HIDE DEF start, last
      <4> DEFINE st == [wk[w] EXCEPT !.pc = "manifest", !.ff = "run",
                          !.from = start, !.cur = start, !.lastSeg = last,
                          !.restarts = 0, !.startSeg = 0]
      <4>1. wk[w] \in WorkerState /\ SaneWorker(wk[w]) /\ wk[w].pc = "launch"
        BY <1>1, <2>7 DEF SaneWorkers, Launch
      <4>2. 0 \in Restarts /\ 0 \in Positions /\ last \in Nat
        BY <3>3, Numbering, ControlAssumption
      <4>3. st \in WorkerState
        BY <3>2, <4>1, <4>2 DEF WorkerState, Steps
      <4>4. SaneWorker(st)
        BY <3>3, <3>4, <4>1 DEF SaneWorker, WorkerState
      <4> QED BY <4>3, <4>4 DEF SaneWorkers
    <3> QED BY <1>2, <1>4, <1>7, <2>7, <3>1, <3>2, <3>5 DEF Launch
  <2>8. CASE StartFails(w)
    <3>1. PICK short \in SUBSET MaybeShort(dirs[wk[w].job]) :
            dirs' = [dirs EXCEPT ![wk[w].job] = Prepared(w, short)]
      BY <2>8 DEF StartFails
    <3>2. Prepared(w, short) \in Dir
      BY <2>6, <2>8 DEF StartFails
    <3> QED BY <1>2, <1>4, <1>7, <2>1, <2>2, <2>8, <3>1, <3>2 DEF StartFails
  <2>9. CASE MarkReady(w)
    BY <1>2, <1>3, <2>1, <2>9 DEF MarkReady
  <2>10. CASE ManifestTimeout(w)
    <3>1. [wk[w] EXCEPT !.pc = "cleanup", !.ff = "killed", !.open = FALSE]
            \in SaneWorkers
      <4> DEFINE new == [wk[w] EXCEPT !.pc = "cleanup", !.ff = "killed", !.open = FALSE]
      <4>1. wk[w] \in WorkerState /\ SaneWorker(wk[w]) /\ wk[w].pc = "manifest"
        BY <1>1, <2>10 DEF SaneWorkers, ManifestTimeout
      <4>2. new \in WorkerState
        BY <4>1 DEF WorkerState, Steps
      <4>3. SaneWorker(new)
        BY <4>1 DEF SaneWorker, WorkerState
      <4> QED BY <4>2, <4>3 DEF SaneWorkers
    <3> QED BY <1>2, <1>3, <2>10, <3>1 DEF ManifestTimeout
  <2>11. CASE Completes(w) \/ Fails(w)
    BY <1>3, <1>6, <2>11 DEF Completes, Fails
  <2>12. CASE Aborts(w)
    BY <1>2, <1>3, <2>1, <2>12 DEF Aborts
  <2>13. CASE Cleanup(w)
    BY <1>4, <1>6, <1>7, <1>9, <2>13 DEF Cleanup, RemoveDir
  <2> QED BY <1>11, <2>3, <2>4, <2>5, <2>7, <2>8, <2>9, <2>10, <2>11, <2>12, <2>13
          DEF JobThread
<1>12. CASE HeartbeatLoop(w)
  <2>1. CASE Cancel(w)
    BY <1>2, <1>3, <1>8, <1>12, <2>1
    DEF Cancel, HeartbeatLoop, Beat, BeatLost, StatusCheck
  <2>2. CASE UNCHANGED wk
    BY <1>1, <1>3, <1>12, <2>2 DEF HeartbeatLoop, Beat, StatusCheck
  <2> QED BY <1>12, <2>1, <2>2 DEF HeartbeatLoop, Beat, BeatLost, StatusCheck
<1>13. CASE Watcher(w)
  <2>1. ASSUME NEW told \in SUBSET Segs, NEW late \in SUBSET (Jobs \X SUBSET Segs),
               \A tick \in late : tick[2] # {}
        PROVE  /\ [wk[w] EXCEPT !.late = late, !.told = told] \in SaneWorkers
               /\ [wk[w] EXCEPT !.late = late] \in SaneWorkers
               /\ [wk[w] EXCEPT !.told = told] \in SaneWorkers
    <3>1. wk[w] \in WorkerState /\ SaneWorker(wk[w])
      BY <1>1 DEF SaneWorkers
    <3>2. /\ [wk[w] EXCEPT !.late = late, !.told = told] \in WorkerState
          /\ [wk[w] EXCEPT !.late = late] \in WorkerState
          /\ [wk[w] EXCEPT !.told = told] \in WorkerState
      BY <2>1, <3>1 DEF WorkerState
    <3>3. /\ SaneWorker([wk[w] EXCEPT !.late = late, !.told = told])
          /\ SaneWorker([wk[w] EXCEPT !.late = late])
          /\ SaneWorker([wk[w] EXCEPT !.told = told])
      BY <2>1, <3>1 DEF SaneWorker, WorkerState
    <3> QED BY <3>2, <3>3 DEF SaneWorkers
  <2>2. /\ wk[w].told \in SUBSET Segs
        /\ wk[w].late \in SUBSET (Jobs \X SUBSET Segs)
        /\ \A tick \in wk[w].late : tick[2] # {}
    BY <1>1 DEF SaneWorkers, SaneWorker, WorkerState
  <2>3. ASSUME NEW s \in Segs, ReportSegment(w, s)
        PROVE  Fine
    <3>1. wk[w].told \cup {s} \in SUBSET Segs
      BY <2>2
    <3> QED BY <1>1, <1>2, <1>3, <2>1, <2>2, <2>3, <3>1 DEF ReportSegment
  <2>4. CASE ReadAhead(w)
    <3>1. wk[w].pc = "stream"
      BY <2>4 DEF ReadAhead, Unreported
    <3>2. wk[w].job \in Jobs /\ dirs[wk[w].job].manifest \in SUBSET Segs
      BY <1>7, <3>1 DEF Dir
    <3>3. Unreported(w) \in SUBSET Segs /\ Unreported(w) # {}
      BY <2>4, <3>2 DEF ReadAhead, Unreported
    <3>4. /\ wk[w].late \cup {<<wk[w].job, Unreported(w)>>}
               \in SUBSET (Jobs \X SUBSET Segs)
          /\ \A tick \in wk[w].late \cup {<<wk[w].job, Unreported(w)>>} : tick[2] # {}
      BY <2>2, <3>2, <3>3
    <3> QED BY <1>2, <1>3, <2>1, <2>2, <2>4, <3>4 DEF ReadAhead
  <2>5. CASE ReportLate(w)
    <3>1. PICK tick \in wk[w].late :
            LET j    == tick[1]
                s    == Min(tick[2])
                left == (wk[w].late \ {tick}) \cup Shorter(tick, s) IN
              \/ Set(w, [wk[w] EXCEPT
                            !.late = left,
                            !.told = IF j = wk[w].job THEN @ \cup {s} ELSE @])
              \/ Set(w, [wk[w] EXCEPT !.late = left])
      BY <2>5 DEF ReportLate
    <3> DEFINE s    == Min(tick[2])
               left == (wk[w].late \ {tick}) \cup Shorter(tick, s)
               told == IF tick[1] = wk[w].job THEN wk[w].told \cup {s}
                                              ELSE wk[w].told
    <3>2. tick[1] \in Jobs /\ tick[2] \in SUBSET Segs /\ tick[2] # {}
      BY <2>2
    <3>3. s \in Segs
      BY <3>2, MinOf, Numbering
    <3>4. Shorter(tick, s) \in SUBSET (Jobs \X SUBSET Segs)
          /\ \A t \in Shorter(tick, s) : t[2] # {}
      BY <3>2, <3>3 DEF Shorter
    <3>5. /\ left \in SUBSET (Jobs \X SUBSET Segs)
          /\ \A t \in left : t[2] # {}
      <4> HIDE DEF s
      <4> QED BY <2>2, <3>4
    <3>6. told \in SUBSET Segs
      BY <2>2, <3>3
    <3>7. /\ [wk[w] EXCEPT !.late = left, !.told = told] \in SaneWorkers
          /\ [wk[w] EXCEPT !.late = left] \in SaneWorkers
      <4> HIDE DEF s, left, told
      <4> QED BY <2>1, <2>2, <3>5, <3>6
    <3> QED BY <1>2, <1>3, <2>5, <3>1, <3>7 DEF ReportLate
  <2> QED BY <1>13, <2>3, <2>4, <2>5 DEF Watcher
<1>14. CASE Ffmpeg(w)
  <2>1. ASSUME wk[w].ff = "run", NEW ff \in {"ok", "error", "killed"}
        PROVE  /\ ~ wk[w].open => [wk[w] EXCEPT !.ff = ff] \in SaneWorkers
               /\ [wk[w] EXCEPT !.ff = ff, !.open = FALSE] \in SaneWorkers
    <3>1. ASSUME ~ wk[w].open
          PROVE  [wk[w] EXCEPT !.ff = ff] \in SaneWorkers
      <4> DEFINE new == [wk[w] EXCEPT !.ff = ff]
      <4>1. wk[w] \in WorkerState /\ SaneWorker(wk[w])
        BY <1>1 DEF SaneWorkers
      <4>2. new \in WorkerState
        BY <4>1, <2>1 DEF WorkerState
      <4>3. SaneWorker(new)
        BY <2>1, <3>1, <4>1 DEF SaneWorker, WorkerState
      <4> QED BY <4>2, <4>3 DEF SaneWorkers
    <3>2. [wk[w] EXCEPT !.ff = ff, !.open = FALSE] \in SaneWorkers
      <4>1. [wk[w] EXCEPT !.ff = ff, !.open = FALSE] \in WorkerState
        BY <1>1 DEF SaneWorkers, WorkerState
      <4> QED BY <1>1, <2>1, <4>1 DEF SaneWorkers, SaneWorker, WorkerState
    <3> QED BY <3>1, <3>2
  <2>2. wk[w].ff = "run" => wk[w].job \in Jobs /\ dirs[wk[w].job] \in Dir
    BY <1>1, <1>7 DEF SaneWorkers, SaneWorker
  <2>3. CASE OpenSegment(w)
    <3>1. [wk[w] EXCEPT !.open = TRUE] \in SaneWorkers
      BY <1>1, <2>3 DEF OpenSegment, SaneWorkers, SaneWorker, WorkerState
    <3>2. [dirs[wk[w].job] EXCEPT !.file[wk[w].cur] = "partial"] \in Dir
      BY <2>2, <2>3 DEF OpenSegment, Dir
    <3> QED BY <1>2, <1>3, <1>4, <2>1, <2>2, <2>3, <3>1, <3>2
            DEF OpenSegment, WriteDir
  <2>4. CASE CloseSegment(w)
    <3> DEFINE s   == wk[w].cur
               dir == dirs[wk[w].job]
    <3>1. s \in Segs /\ wk[w].from \in Positions /\ wk[w].from .. s \subseteq Segs
      BY <1>1, <2>4, Numbering DEF CloseSegment, SaneWorkers, SaneWorker, WorkerState
    <3>2. [wk[w] EXCEPT !.open = FALSE, !.cur = @ + 1] \in SaneWorkers
      BY <1>1, <3>1, Numbering DEF SaneWorkers, SaneWorker, WorkerState
    <3>3. [dir EXCEPT !.file[s] = IF @ = "absent" \/ OthersWrite(w, s)
                                    THEN @ ELSE "closed",
                      !.manifest = wk[w].from .. s] \in Dir
      BY <2>2, <2>4, <3>1 DEF CloseSegment, Dir
    <3>4. CASE dir.present
      BY <1>2, <1>4, <2>2, <2>4, <3>2, <3>3, <3>4 DEF CloseSegment, WriteDir
    <3>5. CASE ~ dir.present
      <4>1. [wk[w] EXCEPT !.open = FALSE, !.ff = "error"] \in SaneWorkers
        BY <1>1 DEF SaneWorkers, SaneWorker, WorkerState
      <4> QED BY <1>2, <1>3, <2>4, <3>5, <4>1 DEF CloseSegment
    <3> QED BY <3>4, <3>5
  <2>5. CASE EncodeEnds(w) \/ EncodeFails(w) \/ Killed(w)
    BY <1>2, <1>3, <2>1, <2>5 DEF EncodeEnds, EncodeFails, Killed
  <2> QED BY <1>14, <2>3, <2>4, <2>5 DEF Ffmpeg
<1>15. CASE Crash(w) \/ Sigterm(w) \/ FirstSegmentSlow(w)
  <2>1. [wk[w] EXCEPT !.term = TRUE, !.cancelled = TRUE] \in SaneWorkers
    <3>1. [wk[w] EXCEPT !.term = TRUE, !.cancelled = TRUE] \in WorkerState
      BY <1>1 DEF SaneWorkers, WorkerState
    <3> QED BY <1>1, <3>1 DEF SaneWorkers, SaneWorker, WorkerState
  <2>2. [wk[w] EXCEPT !.hb = "stale"] \in SaneWorkers
    BY <1>1 DEF SaneWorkers, SaneWorker, WorkerState
  <2>3. CASE Crash(w)
    BY <1>2, <1>3, <1>5, <2>3 DEF Crash
  <2>4. CASE Sigterm(w)
    BY <1>2, <1>3, <1>5, <2>1, <2>4 DEF Sigterm
  <2>5. CASE FirstSegmentSlow(w)
    BY <1>2, <1>3, <2>2, <2>5 DEF FirstSegmentSlow
  <2> QED BY <1>15, <2>3, <2>4, <2>5
<1> QED BY <1>10, <1>11, <1>12, <1>13, <1>14, <1>15 DEF WorkerStep

\* A goroutine's step leaves it, and the volume, as they may be.
LEMMA ControlsStep ==
  ASSUME SystemInv, ControlStep
  PROVE  ctl' \in [Goroutines -> SaneControl] /\ DirsTypeOK'
<1> DEFINE Fine == ctl' \in [Goroutines -> SaneControl] /\ DirsTypeOK'
<1>1. ctl \in [Goroutines -> SaneControl] /\ DirsTypeOK
  BY DEF SystemInv
<1>2. ASSUME NEW g \in Goroutines, NEW st \in SaneControl, Go(g, st), DirsTypeOK'
      PROVE  Fine
  BY <1>1, <1>2 DEF Go
<1>3. ASSUME UNCHANGED dirs
      PROVE  DirsTypeOK'
  BY <1>1, <1>3 DEF DirsTypeOK
<1>4. ASSUME NEW g \in Goroutines, RemoveDir(Job(g))
      PROVE  DirsTypeOK'
  BY <1>1, <1>4 DEF DirsTypeOK, RemoveDir, NoDir, Dir
<1>5. \A j \in Jobs : Blank(j) \in SaneCopies /\ CopyOf(j) \in SaneCopies
  BY Numbering, ControlAssumption
  DEF SystemInv, RowsInRange, QueueTypeOK, JobRow, SaneCopies, Copies, Blank,
      CopyOf, Statuses
<1>6. NoCopy \in SaneCopies
  BY <1>5, ControlAssumption DEF NoCopy
<1> DEFINE PCs == {"idle", "list", "dead", "deleteRow", "removeDir", "read", "jit",
                   "probed", "enqueue", "seekRow", "seek"}
<1>7. ASSUME NEW pc \in PCs, NEW todo \in SUBSET SaneCopies,
             NEW copy \in SaneCopies, NEW seg \in Positions
      PROVE  [pc |-> pc, todo |-> todo, copy |-> copy, seg |-> seg] \in SaneControl
  BY <1>7 DEF SaneControl, Control, SaneCopies
<1>8. ASSUME NEW g \in Goroutines
      PROVE  /\ ctl[g].pc \in PCs /\ ctl[g].todo \in SUBSET SaneCopies
             /\ ctl[g].copy \in SaneCopies /\ ctl[g].seg \in Positions
             /\ ctl[g] = [pc |-> ctl[g].pc, todo |-> ctl[g].todo,
                           copy |-> ctl[g].copy, seg |-> ctl[g].seg]
             /\ Job(g) \in Jobs
  BY <1>1 DEF SaneControl, Control, SaneCopies, Copies, Job
<1>9. Resting \in SaneControl
  BY <1>6, <1>7, Numbering DEF Resting
\* The states a goroutine is left in.
<1>10a. ASSUME NEW st \in SaneControl, NEW pc \in PCs
        PROVE  [st EXCEPT !.pc = pc] \in SaneControl
  <2> DEFINE new == [st EXCEPT !.pc = pc]
  <2>1. st \in Control /\ st.todo \subseteq SaneCopies /\ st.copy \in SaneCopies
    BY DEF SaneControl
  <2>2. new \in Control
    BY <2>1 DEF Control, SaneCopies
  <2>3. new.todo \subseteq SaneCopies /\ new.copy \in SaneCopies
    BY <2>1 DEF Control
  <2> QED BY <2>2, <2>3 DEF SaneControl
<1>10b. ASSUME NEW st \in SaneControl, NEW pc \in PCs, NEW copy \in SaneCopies
        PROVE  [st EXCEPT !.pc = pc, !.copy = copy] \in SaneControl
  <2> DEFINE new == [st EXCEPT !.pc = pc, !.copy = copy]
  <2>1. st \in Control /\ st.todo \subseteq SaneCopies /\ st.copy \in SaneCopies
    BY DEF SaneControl
  <2>2. new \in Control
    BY <2>1 DEF Control, SaneCopies
  <2>3. new.todo \subseteq SaneCopies /\ new.copy \in SaneCopies
    BY <2>1 DEF Control
  <2> QED BY <2>2, <2>3 DEF SaneControl
<1>10c. ASSUME NEW st \in SaneControl, NEW pc \in PCs, NEW todo \in SUBSET SaneCopies,
               NEW copy \in SaneCopies
        PROVE  [st EXCEPT !.todo = todo, !.copy = copy, !.pc = pc] \in SaneControl
  <2> DEFINE new == [st EXCEPT !.todo = todo, !.copy = copy, !.pc = pc]
  <2>1. st \in Control /\ st.todo \subseteq SaneCopies /\ st.copy \in SaneCopies
    BY DEF SaneControl
  <2>2. new \in Control
    BY <2>1 DEF Control, SaneCopies
  <2>3. new.todo \subseteq SaneCopies /\ new.copy \in SaneCopies
    BY <2>1 DEF Control
  <2> QED BY <2>2, <2>3 DEF SaneControl
<1>10d. ASSUME NEW st \in SaneControl, NEW pc \in PCs, NEW todo \in SUBSET SaneCopies
        PROVE  [st EXCEPT !.pc = pc, !.todo = todo] \in SaneControl
  <2> DEFINE new == [st EXCEPT !.pc = pc, !.todo = todo]
  <2>1. st \in Control /\ st.todo \subseteq SaneCopies /\ st.copy \in SaneCopies
    BY DEF SaneControl
  <2>2. new \in Control
    BY <2>1 DEF Control, SaneCopies
  <2>3. new.todo \subseteq SaneCopies /\ new.copy \in SaneCopies
    BY <2>1 DEF Control
  <2> QED BY <2>2, <2>3 DEF SaneControl
<1>10e. ASSUME NEW st \in SaneControl, NEW pc \in PCs, NEW todo \in SUBSET SaneCopies
        PROVE  [st EXCEPT !.todo = todo, !.pc = pc] \in SaneControl
  <2> DEFINE new == [st EXCEPT !.todo = todo, !.pc = pc]
  <2>1. st \in Control /\ st.todo \subseteq SaneCopies /\ st.copy \in SaneCopies
    BY DEF SaneControl
  <2>2. new \in Control
    BY <2>1 DEF Control, SaneCopies
  <2>3. new.todo \subseteq SaneCopies /\ new.copy \in SaneCopies
    BY <2>1 DEF Control
  <2> QED BY <2>2, <2>3 DEF SaneControl
<1>10f. ASSUME NEW st \in SaneControl, NEW pc \in PCs, NEW copy \in SaneCopies,
               NEW seg \in Positions
        PROVE  [st EXCEPT !.pc = pc, !.copy = copy, !.seg = seg] \in SaneControl
  <2> DEFINE new == [st EXCEPT !.pc = pc, !.copy = copy, !.seg = seg]
  <2>1. st \in Control /\ st.todo \subseteq SaneCopies /\ st.copy \in SaneCopies
    BY DEF SaneControl
  <2>2. new \in Control
    BY <2>1 DEF Control, SaneCopies
  <2>3. new.todo \subseteq SaneCopies /\ new.copy \in SaneCopies
    BY <2>1 DEF Control
  <2> QED BY <2>2, <2>3 DEF SaneControl
<1>11. ASSUME NEW g \in Goroutines
       PROVE  NextRow(g) \in SaneControl
  <2> DEFINE pc == IF ctl[g].todo = {} THEN "idle" ELSE "list"
  <2>1. ctl[g] \in SaneControl /\ pc \in PCs
    BY <1>1
  <2>2. [ctl[g] EXCEPT !.pc = pc, !.copy = NoCopy] \in SaneControl
    <3> HIDE DEF pc
    <3> QED BY <1>6, <1>10b, <2>1
  <2> QED BY <2>2 DEF NextRow
<1>12. ASSUME NEW g \in Goroutines, NEW copy \in ctl[g].todo
       PROVE  /\ \A pc \in PCs : Taken(g, copy, pc) \in SaneControl
              /\ Skip(g, copy) /\ UNCHANGED dirs => Fine
  <2> DEFINE rest == ctl[g].todo \ {copy}
             next == IF ctl[g].todo = {copy} THEN "idle" ELSE "list"
  <2>1. rest \in SUBSET SaneCopies /\ copy \in SaneCopies
    BY <1>8
  <2>2. ctl[g] \in SaneControl /\ next \in PCs
    BY <1>1
  <2>3. ASSUME NEW pc \in PCs PROVE Taken(g, copy, pc) \in SaneControl
    <3>1. [ctl[g] EXCEPT !.todo = rest, !.copy = copy, !.pc = pc] \in SaneControl
      <4> HIDE DEF rest
      <4> QED BY <1>10c, <2>1, <2>2
    <3> QED BY <3>1 DEF Taken
  <2>4. [ctl[g] EXCEPT !.todo = rest, !.pc = next] \in SaneControl
    <3> HIDE DEF rest, next
    <3> QED BY <1>10e, <2>1, <2>2
  <2>5. ASSUME Skip(g, copy), UNCHANGED dirs PROVE Fine
    BY <1>2, <1>3, <2>4, <2>5 DEF Skip
  <2> QED BY <2>3, <2>5
<1>12a. ASSUME NEW g \in Goroutines, NEW j \in Jobs, NEW next \in SaneControl,
               NEW skipped \in SaneControl, BeginDelete(g, j, next, skipped)
        PROVE  Fine
  BY <1>2, <1>3, <1>12a DEF BeginDelete
<1>12b. ASSUME NEW g \in Goroutines, NEW copy \in ctl[g].todo, DeleteTaken(g, copy)
        PROVE  Fine
  <2>1. copy.job \in Jobs
    BY <1>8 DEF SaneCopies, Copies
  <2>2. /\ Taken(g, copy, "deleteRow") \in SaneControl
        /\ Taken(g, copy, "removeDir") \in SaneControl
    BY <1>12
  <2> QED BY <1>12a, <1>12b, <2>1, <2>2 DEF DeleteTaken
<1>13. ASSUME NEW g \in Goroutines, NEW from, NEW to \in PCs, EndDelete(g, from, to)
       PROVE  Fine
  <2>1. [ctl[g] EXCEPT !.pc = to] \in SaneControl
    BY <1>1, <1>10a, <1>13
  <2> QED BY <1>2, <1>3, <1>9, <1>13, <2>1 DEF EndDelete
<1>14. ASSUME NEW g \in Goroutines, RemoveJobDir(g)
       PROVE  Fine
  BY <1>2, <1>4, <1>11, <1>14 DEF RemoveJobDir
<1>15. ASSUME NEW m \in Monitors, MonitorStep(m)
       PROVE  Fine
  <2>1. m \in Goroutines
    BY DEF Goroutines
  <2>2. CASE MonitorList(m)
    <3>1. PICK found \in SUBSET Jobs :
            Go(m, [Resting EXCEPT !.pc = "list", !.todo = {CopyOf(j) : j \in found}])
      BY <2>2 DEF MonitorList, Listed
    <3>2. {CopyOf(j) : j \in found} \in SUBSET SaneCopies
      BY <1>5
    <3> QED BY <1>2, <1>3, <1>9, <1>10d, <2>1, <2>2, <3>1, <3>2
            DEF MonitorList
  <2>3. CASE MonitorRow(m)
    <3>1. ASSUME NEW copy \in ctl[m].todo, MarkDead(m, copy)
          PROVE  Fine
      <4>1. Taken(m, copy, "dead") \in SaneControl
        BY <1>12, <2>1
      <4> QED BY <1>2, <1>3, <2>1, <3>1, <4>1 DEF MarkDead
    <3> QED BY <1>12, <1>12b, <2>1, <2>3, <3>1 DEF MonitorRow, RetryFailed, GiveUp
  <2>4. CASE RecoverDead(m)
    BY <1>2, <1>3, <1>11, <2>1, <2>4 DEF RecoverDead
  <2> QED BY <1>13, <1>14, <1>15, <2>1, <2>2, <2>3, <2>4 DEF MonitorStep
<1>16. ASSUME NEW d \in Watchdogs, WatchdogStep(d)
       PROVE  Fine
  <2>1. d \in Goroutines
    BY DEF Goroutines
  <2>2. CASE WatchdogList(d)
    <3>1. PICK idle \in SUBSET Jobs :
            Go(d, [Resting EXCEPT !.pc = "list", !.todo = {Blank(j) : j \in idle}])
      BY <2>2 DEF WatchdogList, Listed
    <3>2. {Blank(j) : j \in idle} \in SUBSET SaneCopies
      BY <1>5
    <3> QED BY <1>2, <1>3, <1>9, <1>10d, <2>1, <2>2, <3>1, <3>2
            DEF WatchdogList
  <2>3. CASE Reap(d)
    BY <1>12b, <2>1, <2>3 DEF Reap
  <2> QED BY <1>13, <1>14, <1>16, <2>1, <2>2, <2>3 DEF WatchdogStep
<1>17. ASSUME NEW v \in Viewers, ViewerStep(v)
       PROVE  Fine
  <2>1. v \in Goroutines
    BY DEF Goroutines
  <2>2. ASSUME NEW j \in Jobs, RequestPlaylist(v, j)
        PROVE  Fine
    BY <1>1, <1>3, <2>2 DEF RequestPlaylist
  <2>3. ASSUME NEW j \in Jobs, NEW s \in Segs, RequestSegment(v, j, s)
        PROVE  Fine
    <3>1. [Resting EXCEPT !.pc = "read", !.copy = Blank(j), !.seg = s] \in SaneControl
      BY <1>5, <1>9, <1>10f, Numbering
    <3> QED BY <1>1, <1>2, <1>3, <2>1, <2>3, <3>1 DEF RequestSegment
  <2>4. CASE ReadJob(v)
    <3>1. [Blank(Job(v)) EXCEPT !.restarts = jobs[Job(v)].restarts] \in SaneCopies
      BY <1>5, <1>8, <2>1 DEF SystemInv, RowsInRange, SaneCopies, Copies
    <3>2. [ctl[v] EXCEPT !.pc = "jit",
             !.copy = [Blank(Job(v)) EXCEPT !.restarts = jobs[Job(v)].restarts]]
             \in SaneControl
      BY <1>1, <1>10b, <2>1, <3>1
    <3> QED BY <1>2, <1>3, <1>9, <2>1, <2>4, <3>2 DEF ReadJob
  <2>5. CASE RequestJIT(v)
    BY <1>2, <1>3, <1>9, <2>1, <2>5 DEF RequestJIT
  <2> QED BY <1>17, <2>2, <2>3, <2>4, <2>5 DEF ViewerStep, Answering
<1>18. ASSUME NEW p \in Players, PlayerStep(p)
       PROVE  Fine
  <2>1. p \in Goroutines
    BY DEF Goroutines
  <2>2. ASSUME NEW j \in Jobs, NEW pos \in Segs,
               RequestPlayback(p, j) \/ RequestStop(p, j) \/ RequestSeek(p, j, pos)
        PROVE  Fine
    <3>1. /\ [Resting EXCEPT !.pc = "probed", !.copy = Blank(j)] \in SaneControl
          /\ [Resting EXCEPT !.pc = "deleteRow", !.copy = Blank(j)] \in SaneControl
          /\ [Resting EXCEPT !.pc = "seekRow", !.copy = Blank(j), !.seg = pos]
               \in SaneControl
          /\ [Resting EXCEPT !.pc = "seek", !.copy = Blank(j), !.seg = pos]
               \in SaneControl
      BY <1>5, <1>9, <1>10b, <1>10f, Numbering
    <3> QED BY <1>2, <1>3, <1>9, <1>12a, <2>1, <2>2, <3>1
            DEF RequestPlayback, RequestStop, RequestSeek
  <2>3. CASE LookAgain(p)
    <3>1. [ctl[p] EXCEPT !.pc = "enqueue"] \in SaneControl
      BY <1>1, <1>10a, <2>1
    <3> QED BY <1>2, <1>3, <1>9, <2>1, <2>3, <3>1 DEF LookAgain
  <2>4. CASE StartPlayback(p) \/ StartSeek(p)
    BY <1>2, <1>3, <1>9, <2>1, <2>4 DEF StartPlayback, StartSeek
  <2>5. Segs # {}
    BY Numbering
  <2> QED BY <1>13, <1>18, <2>1, <2>2, <2>3, <2>4, <2>5 DEF PlayerStep, Handling
<1>19. CASE ControlPlaneCrash
  BY <1>1, <1>3, <1>9, <1>19 DEF ControlPlaneCrash
<1>20. CASE \E g \in Viewers \cup Players : Disconnect(g)
  BY <1>2, <1>3, <1>9, <1>20 DEF Disconnect, Goroutines
<1> QED BY <1>15, <1>16, <1>17, <1>18, <1>19, <1>20 DEF ControlStep

\* An upset is counted, and only a step that spends one changes the count.
LEMMA FaultsStep ==
  ASSUME Next
  PROVE  NoFault \/ \E kind : Fault(kind)
<1> DEFINE Counted == NoFault \/ \E kind : Fault(kind)
<1>1. ASSUME NEW w \in Workers, WorkerStep(w)
      PROVE  Counted
  <2>1. ASSUME NEW status, Tell(w, status) \/ TellInContext(w, status)
        PROVE  Counted
    BY <2>1 DEF Tell, TellInContext, Lost
  <2>2. CASE JobThread(w)
    BY <2>1, <2>2 DEF JobThread, MarkProcessing, MakeDir, MkdirFails, Launch, StartFails,
       MarkReady, ManifestTimeout, Completes, Fails, Aborts, Cleanup
  <2>3. CASE HeartbeatLoop(w)
    BY <2>3 DEF HeartbeatLoop, Beat, BeatLost, StatusCheck
  <2>4. CASE Watcher(w)
    BY <2>4 DEF Watcher, ReportSegment, ReadAhead, ReportLate
  <2>5. CASE Ffmpeg(w)
    BY <2>5 DEF Ffmpeg, OpenSegment, CloseSegment, EncodeEnds, EncodeFails, Killed
  <2> QED BY <1>1, <2>2, <2>3, <2>4, <2>5
          DEF WorkerStep, Claim, Crash, Sigterm, FirstSegmentSlow
<1>2. CASE ControlStep
  <2>1. ASSUME NEW g,
               \/ \E j, next, skipped : BeginDelete(g, j, next, skipped)
               \/ \E from, to : EndDelete(g, from, to)
               \/ RemoveJobDir(g)
        PROVE  Counted
    BY <2>1 DEF BeginDelete, EndDelete, RemoveJobDir
  <2>2. ASSUME NEW m \in Monitors, MonitorStep(m)
        PROVE  Counted
    BY <2>1, <2>2 DEF MonitorStep, MonitorList, MonitorRow, RetryFailed, GiveUp,
                      DeleteTaken, MarkDead, RecoverDead
  <2>3. ASSUME NEW d \in Watchdogs, WatchdogStep(d)
        PROVE  Counted
    BY <2>1, <2>3 DEF WatchdogStep, WatchdogList, Reap, DeleteTaken
  <2>4. ASSUME NEW v \in Viewers, ViewerStep(v)
        PROVE  Counted
    BY <2>4 DEF ViewerStep, RequestPlaylist, RequestSegment, Answering, ReadJob,
                RequestJIT
  <2>5. ASSUME NEW p \in Players, PlayerStep(p)
        PROVE  Counted
    BY <2>1, <2>5 DEF PlayerStep, RequestPlayback, RequestStop, RequestSeek,
                      Handling, LookAgain, StartPlayback, StartSeek
  <2> QED BY <1>2, <2>2, <2>3, <2>4, <2>5
          DEF ControlStep, Disconnect, ControlPlaneCrash
<1>3. ASSUME NEW j \in Jobs, Time(j)
      PROVE  Counted
  BY <1>3 DEF Time
<1> QED BY <1>1, <1>2, <1>3 DEF Next

\* The system's own step: time changes only rows.
LEMMA SystemStep ==
  ASSUME SystemInv, [Next]_vars
  PROVE  SystemInv'
<1>1. [QueueNext]_queueVars
  BY ContractStep
<1>2. QueueTypeOK' /\ RowsInRange'
  BY <1>1, TypingStep, RowsStep DEF SystemInv
<1>3. CASE UNCHANGED vars
  BY <1>2, <1>3 DEF SystemInv, vars, DirsTypeOK
<1>4. CASE Next
  <2>1. /\ DirsTypeOK'
        /\ wk' \in [Workers -> SaneWorkers]
        /\ ctl' \in [Goroutines -> SaneControl]
    <3>1. ASSUME NEW w \in Workers, WorkerStep(w), UNCHANGED ctl
          PROVE  <2>1!1 /\ <2>1!2 /\ <2>1!3
      BY <3>1, WorkersStep DEF SystemInv
    <3>2. CASE ControlStep /\ UNCHANGED wk
      BY <3>2, ControlsStep DEF SystemInv
    <3>3. ASSUME NEW j \in Jobs, Time(j)
          PROVE  <2>1!1 /\ <2>1!2 /\ <2>1!3
      BY <3>3 DEF Time, SystemInv, DirsTypeOK
    <3> QED BY <1>4, <3>1, <3>2, <3>3 DEF Next
  <2>2. faults' \in 0 .. MaxFaults
    BY <1>4, FaultsStep, FaultsAssumption DEF SystemInv, NoFault, Fault
  <2> QED BY <1>2, <2>1, <2>2 DEF SystemInv
<1> QED BY <1>3, <1>4

\* A job queued before the start has the row of a fresh request.
LEMMA SystemInit ==
  ASSUME Init
  PROVE  SystemInv
<1>1. 0 \in Restarts /\ 0 \in Positions /\ 0 \in Segs /\ 0 \in Nat
  BY Numbering, ControlAssumption
<1>2. FreshRequest(0) \in Requests
  BY <1>1 DEF FreshRequest, Requests
<1>3. InsertedRow(FreshRequest(0)) \in JobRow
  BY <1>2, AbsentRowTyped, RowsTyped
<1>4. QueueTypeOK
  BY <1>3, AbsentRowTyped DEF Init, QueueTypeOK
<1>5. RowsInRange
  <2>1. /\ InsertedRow(FreshRequest(0)).startSeg = 0
        /\ InsertedRow(FreshRequest(0)).lastSeg = 0
        /\ InsertedRow(FreshRequest(0)).restarts = 0
        /\ AbsentRow.startSeg = 0 /\ AbsentRow.lastSeg = 0 /\ AbsentRow.restarts = 0
    BY DEF InsertedRow, FreshRequest, AbsentRow
  <2> QED BY <1>1, <2>1 DEF Init, RowsInRange
<1>6. DirsTypeOK
  BY DEF Init, DirsTypeOK, NoDir, Dir
<1>7. wk \in [Workers -> SaneWorkers]
  <2>1. IdleWorker \in WorkerState
    BY <1>1 DEF WorkerState, IdleWorker, Steps
  <2>2. SaneWorker(IdleWorker)
    BY <1>1 DEF SaneWorker, IdleWorker
  <2> QED BY <2>1, <2>2 DEF Init, WorkersInit, SaneWorkers
<1>8. ctl \in [Goroutines -> SaneControl]
  <2>1. \A j \in Jobs : Blank(j) \in SaneCopies
    BY <1>1 DEF SaneCopies, Copies, Blank, Statuses
  <2>2. NoCopy \in SaneCopies
    BY <2>1, ControlAssumption DEF NoCopy
  <2>3. NoCopy \in Copies
    BY <2>2 DEF SaneCopies
  <2>4. Resting \in SaneControl
    BY <1>1, <2>2, <2>3 DEF SaneControl, Control, Resting
  <2> QED BY <2>4 DEF Init, ControlInit
<1> QED BY <1>4, <1>5, <1>6, <1>7, <1>8, FaultsAssumption DEF Init, SystemInv

\* Whatever its clients and the environment do, the system stays in states where
\* rows, copies, files and manifests hold numbers of segments.
LEMMA SystemSafe == Spec => []SystemInv
<1>1. SystemInv /\ [Next]_vars => SystemInv'
  BY SystemStep
<1> QED BY <1>1, SystemInit, PTL DEF Spec
-----------------------------------------------------------------------------
(* Theorems *)

\* Every part of the system holds a value of its domain: rows, directories,
\* workers, goroutines and the count of upsets.
THEOREM SystemTyped == Spec => []TypeOK
<1>1. SystemInv => TypeOK
  BY DEF SystemInv, TypeOK, SaneWorkers, WorkersTypeOK, SaneControl, ControlTypeOK
<1> QED BY <1>1, SystemSafe, PTL

\* The steps of the system are, on the store, steps of QueueSpec.
LEMMA StoreUsedAsSpecified == Spec => [][QueueNext]_queueVars
<1>1. SystemInv /\ [Next]_vars => [QueueNext]_queueVars
  BY ContractStep
<1> QED BY <1>1, SystemSafe, PTL DEF Spec

\* What holds of the store under any client holds of it in the system: segments
\* belong to rows and are accounted for, and claims can be recovered.
THEOREM StoreSoundInSystem ==
  Spec => [](ReferentialIntegrity /\ SegmentAccounting /\ ClaimIsRecoverable)
<1> DEFINE Sound == AccountedRows /\ ClaimIsRecoverable
<1>1. Init => Sound
  <2>1. ASSUME Init
        PROVE  Sound
    <3>1. QueueTypeOK
      BY <2>1, SystemInit DEF SystemInv
    <3>2. \A j \in Jobs : segments[j] = {} /\ jobs[j].status \in {"Pending", "absent"}
                          /\ (Exists(j) => j \in Queued)
      BY <2>1 DEF Init, InsertedRow, AbsentRow, Exists
    <3>3. AccountedRows
      BY <3>1, <3>2, AccountedEmpty
      DEF AccountedRows, SegmentsOfRows, ReferentialIntegrity, SegmentAccounting,
          Accounted
    <3>4. ClaimIsRecoverable
      BY <3>2 DEF ClaimIsRecoverable, Reported
    <3> QED BY <3>3, <3>4
  <2> QED BY <2>1
<1>2. Sound /\ [QueueNext]_queueVars => Sound'
  <2>1. ASSUME Sound, [QueueNext]_queueVars
        PROVE  Sound'
    <3>1. QueueTypeOK /\ AccountedRows'
      BY <2>1, AccountingStep DEF AccountedRows, SegmentsOfRows
    <3>2. ClaimIsRecoverable'
      BY <2>1, <3>1, RecoverableStep DEF queueVars, ClaimIsRecoverable
    <3> QED BY <3>1, <3>2
  <2> QED BY <2>1
<1>3. Sound => ReferentialIntegrity /\ SegmentAccounting /\ ClaimIsRecoverable
  BY DEF AccountedRows, SegmentsOfRows
<1> HIDE DEF Sound
<1> QED BY <1>1, <1>2, <1>3, StoreUsedAsSpecified, PTL DEF Spec

\* In the whole system, too, concurrent recoveries of a job collapse into the
\* first, whoever asks for the others: monitor, watchdog, viewer or player.
THEOREM RecoveriesCollapsedInSystem == Spec => RecoveryNotRepeated
<1>1. SystemInv /\ [Next]_vars =>
        [\A j \in Jobs :
           /\ Exists(j) /\ jobs[j].recovering /\ jobs[j].recovery = "recent"
           /\ Exists(j)'
           => /\ jobs'[j].startSeg = jobs[j].startSeg
              /\ jobs'[j].restarts = jobs[j].restarts]_queueVars
  BY ContractStep, RequestKept DEF EnqueueAccepted, SystemInv
<1> QED BY <1>1, SystemSafe, PTL DEF Spec, RecoveryNotRepeated

\* In the whole system, too, a worker that lost its job to a recovery neither
\* takes it back nor records a result for it, and no progress is lost.
THEOREM StaleWorkersExcludedInSystem ==
  Spec => StaleWorkerCannotClobber /\ ProgressNeverLost
<1>1. SystemInv /\ [Next]_vars =>
        [\A j \in Jobs : Exists(j) /\ Exists(j)' =>
           /\ jobs'[j].worker # jobs[j].worker =>
                \/ jobs[j].status = "Pending" /\ jobs'[j].status = "Processing"
                \/ jobs'[j].worker = NoWorker /\ jobs'[j].recovering
           /\ jobs'[j].status \in {"Ready", "Completed", "Failed"}
              /\ jobs'[j].status # jobs[j].status =>
                /\ jobs[j].status \in Active
                /\ jobs'[j].worker = jobs[j].worker]_queueVars
  BY ContractStep, HandoverStep DEF Handover, SystemInv
<1>2. SystemInv /\ [Next]_vars =>
        [\A j \in Jobs : Exists(j) /\ Exists(j)' =>
           /\ jobs'[j].lastSeg >= jobs[j].lastSeg
           /\ jobs'[j].duration >= jobs[j].duration
           /\ jobs'[j].disc >= jobs[j].disc]_queueVars
  BY ContractStep, NumbersGrow DEF SystemInv
<1> QED BY <1>1, <1>2, SystemSafe, PTL
        DEF Spec, StaleWorkerCannotClobber, ProgressNeverLost
-----------------------------------------------------------------------------
(* Who works on what *)

\* Whom the store counts as a job's worker was so before, for the same request.
OwnershipKept ==
  \A j \in Jobs, w \in Workers :
    OwnedBy(j, w)' => /\ OwnedBy(j, w)
                      /\ jobs'[j].startSeg = jobs[j].startSeg
                      /\ jobs'[j].restarts = jobs[j].restarts

\* Only a claim makes a worker the owner of a job, or changes what an owner is
\* asked for: an Enqueue that resets a claimed row also takes it from its worker's
\* reach, because the row is Pending until it is claimed again.
LEMMA OwnersStep ==
  ASSUME SystemInv, [Next]_vars
  PROVE  OwnershipKept \/ \E w \in Workers, j \in Jobs : Claim(w, j)
<1> USE DEF OwnedBy, Active, OwnershipKept
<1>1. jobs \in [Jobs -> JobRow]
  BY DEF SystemInv, QueueTypeOK
<1>2. ASSUME UNCHANGED jobs
      PROVE  OwnershipKept
  BY <1>2
<1>3. ASSUME NEW j \in Jobs, NEW req \in Requests, Enqueue(j, req)
      PROVE  OwnershipKept
  <2>1. InsertedRow(req).status = "Pending" /\ UpsertedRow(jobs[j], req).status = "Pending"
    BY <1>1 DEF InsertedRow, AbsentRow, UpsertedRow, JobRow
  <2> QED BY <1>1, <1>3, <2>1 DEF Enqueue, Insert, Upsert
<1>4. ASSUME NEW j \in Jobs, NEW report \in Reports, UpdateJob(j, report)
      PROVE  OwnershipKept
  <2>1. /\ ReportedRow(jobs[j], report).worker = report.worker
        /\ ReportedRow(jobs[j], report).startSeg = jobs[j].startSeg
        /\ ReportedRow(jobs[j], report).restarts = jobs[j].restarts
    BY <1>1 DEF ReportedRow, JobRow
  <2> QED BY <1>1, <1>4, <2>1 DEF UpdateJob
<1>5. ASSUME NEW j \in Jobs, NEW s \in Segs, AddSegment(j, s)
      PROVE  OwnershipKept
  BY <1>1, <1>5 DEF AddSegment, ExtendedRow, JobRow
<1>6. ASSUME NEW j \in Jobs,
             \/ \E w \in Workers : Heartbeat(j, w)
             \/ MarkWorkerAsDead(j) \/ TouchJob(j)
             \/ HeartbeatAges(j) \/ RecoveryAges(j) \/ AccessAges(j)
      PROVE  OwnershipKept
  BY <1>1, <1>6 DEF Heartbeat, MarkWorkerAsDead, TouchJob, HeartbeatAges,
     RecoveryAges, AccessAges, JobRow
<1>7. ASSUME NEW c \in Callers, DeleteRow(c)
      PROVE  OwnershipKept
  BY <1>1, <1>7 DEF DeleteRow, AbsentRow
<1> HIDE DEF OwnedBy, Active, OwnershipKept
<1>8. CASE UNCHANGED vars
  BY <1>2, <1>8 DEF vars
<1>9. ASSUME NEW w \in Workers, WorkerCall(w)
      PROVE  OwnershipKept \/ \E j \in Jobs : Claim(w, j)
  BY <1>2, <1>4, <1>5, <1>6, <1>9 DEF WorkerCall, queueVars
<1>10. CASE ControlCall
  BY <1>2, <1>3, <1>6, <1>7, <1>10
  DEF ControlCall, queueVars, DeleteSegments, DeletesAbandoned
<1>11. CASE Ageing
  BY <1>6, <1>11 DEF Ageing
<1> QED BY <1>8, <1>9, <1>10, <1>11, SystemCalls

\* What OwnerServesRequest says of one worker, and that until it launches ffmpeg
\* its copy has the restarts of the row: they decide whether start segment 0 is
\* left to it.
Serves(w) ==
  LET j == wk[w].job IN
    OwnedBy(j, w) =>
      /\ wk[w].pc \in {"claimed", "mkdir", "launch"} =>
           /\ wk[w].startSeg = jobs[j].startSeg
           /\ wk[w].restarts = jobs[j].restarts
      /\ wk[w].pc \in {"manifest", "stream"} /\ ~ LeftToWorker(j) =>
           wk[w].from = jobs[j].startSeg

OwnersInv == \A w \in Workers : Serves(w)

\* A step of a worker other than Claim and Launch keeps what it works on and from,
\* or leaves the job behind; it never makes a stopped one go on, and only a slow
\* first segment makes its heartbeat old.
Steady(w) ==
  \/ /\ wk'[w].pc \in {"idle", "stopped"}
     /\ wk'[w].hb \in {"fresh", wk[w].hb}
  \/ /\ wk[w].pc \notin {"idle", "stopped"}
     /\ wk'[w].job = wk[w].job
     /\ wk[w].cancelled => wk'[w].cancelled
     /\ wk'[w].hb = wk[w].hb \/ "slowFirst" \in FaultKinds
     /\ \/ wk'[w].pc = "cleanup"
        \/ /\ wk'[w].from = wk[w].from /\ wk'[w].startSeg = wk[w].startSeg
           /\ wk'[w].restarts = wk[w].restarts
           /\ \/ wk[w].pc = wk'[w].pc
              \/ {wk[w].pc, wk'[w].pc} \subseteq {"claimed", "mkdir", "launch"}
              \/ {wk[w].pc, wk'[w].pc} \subseteq {"manifest", "stream"}

\* ffmpeg leaves alone where its worker is and what it is asked.
LEMMA FfmpegLeaves ==
  ASSUME SystemInv, NEW w \in Workers, Ffmpeg(w)
  PROVE  /\ wk'[w].pc = wk[w].pc /\ wk'[w].job = wk[w].job /\ wk'[w].hb = wk[w].hb
         /\ wk'[w].from = wk[w].from /\ wk'[w].startSeg = wk[w].startSeg
         /\ wk'[w].restarts = wk[w].restarts
         /\ wk'[w].cancelled = wk[w].cancelled /\ wk'[w].term = wk[w].term
<1>1. wk \in [Workers -> SaneWorkers] /\ wk[w] \in WorkerState
  BY DEF SystemInv, SaneWorkers
<1>2. ASSUME NEW st, Set(w, st)
      PROVE  wk'[w] = st
  BY <1>1, <1>2 DEF Set
<1>3. CASE OpenSegment(w)
  <2>1. \/ wk'[w] = [wk[w] EXCEPT !.open = TRUE]
        \/ wk'[w] = [wk[w] EXCEPT !.ff = "error"]
    BY <1>2, <1>3 DEF OpenSegment
  <2> QED BY <1>1, <2>1 DEF WorkerState
<1>4. CASE CloseSegment(w)
  <2>1. \/ wk'[w] = [wk[w] EXCEPT !.open = FALSE, !.cur = @ + 1]
        \/ wk'[w] = [wk[w] EXCEPT !.open = FALSE, !.ff = "error"]
    BY <1>2, <1>4 DEF CloseSegment
  <2>2. CASE wk'[w] = [wk[w] EXCEPT !.open = FALSE, !.cur = @ + 1]
    BY <1>1, <2>2 DEF WorkerState
  <2>3. CASE wk'[w] = [wk[w] EXCEPT !.open = FALSE, !.ff = "error"]
    BY <1>1, <2>3 DEF WorkerState
  <2> QED BY <2>1, <2>2, <2>3
<1>5. CASE EncodeEnds(w)
  <2>1. \/ wk'[w] = [wk[w] EXCEPT !.ff = "ok"]
        \/ wk'[w] = [wk[w] EXCEPT !.ff = "error"]
    BY <1>2, <1>5 DEF EncodeEnds
  <2> QED BY <1>1, <2>1 DEF WorkerState
<1>6. CASE EncodeFails(w)
  <2>1. wk'[w] = [wk[w] EXCEPT !.ff = "error", !.open = FALSE]
    BY <1>2, <1>6 DEF EncodeFails
  <2> QED BY <1>1, <2>1 DEF WorkerState
<1>7. CASE Killed(w)
  <2>1. wk'[w] = [wk[w] EXCEPT !.ff = "killed", !.open = FALSE]
    BY <1>2, <1>7 DEF Killed
  <2> QED BY <1>1, <2>1 DEF WorkerState
<1> QED BY <1>3, <1>4, <1>5, <1>6, <1>7 DEF Ffmpeg

\* A worker's own steps are steady but for a claim and a launch.
LEMMA SteadyStep ==
  ASSUME SystemInv, NEW w \in Workers, WorkerStep(w)
  PROVE  Steady(w) \/ Launch(w) \/ \E j \in Jobs : Claim(w, j)
<1>1. wk \in [Workers -> SaneWorkers] /\ wk[w] \in WorkerState
  BY DEF SystemInv, SaneWorkers
<1>2. ASSUME NEW st, Set(w, st)
      PROVE  wk'[w] = st
  BY <1>1, <1>2 DEF Set
<1>3. ASSUME UNCHANGED wk
      PROVE  Steady(w)
  BY <1>1, <1>3 DEF Steady
<1>4. ASSUME Return(w)
      PROVE  Steady(w)
  BY <1>2, <1>4 DEF Return, IdleWorker, Stopped, Steady
<1>5. CASE JobThread(w) /\ ~ Launch(w)
  <2>1. CASE MarkProcessing(w)
    BY <1>1, <1>2, <2>1 DEF MarkProcessing, WorkerState, Steady
  <2>2. CASE MakeDir(w)
    BY <1>1, <1>2, <2>2 DEF MakeDir, WorkerState, Steady
  <2>3. CASE MarkReady(w)
    BY <1>1, <1>2, <2>3 DEF MarkReady, WorkerState, Steady
  <2>4. CASE StartFails(w) \/ ManifestTimeout(w) \/ Aborts(w)
    <3>1. wk[w].pc \in {"launch", "manifest", "stream"}
      BY <2>4 DEF StartFails, ManifestTimeout, Aborts
    <3>2. \/ wk'[w] = [wk[w] EXCEPT !.pc = "cleanup"]
          \/ wk'[w] = [wk[w] EXCEPT !.pc = "cleanup", !.ff = "killed", !.open = FALSE]
      BY <1>2, <2>4 DEF StartFails, ManifestTimeout, Aborts
    <3>3. /\ wk'[w].pc = "cleanup" /\ wk'[w].job = wk[w].job /\ wk'[w].hb = wk[w].hb
          /\ wk'[w].cancelled = wk[w].cancelled
      BY <1>1, <3>2 DEF WorkerState
    <3> QED BY <3>1, <3>3 DEF Steady
  <2>5. CASE MkdirFails(w) \/ Completes(w) \/ Fails(w) \/ Cleanup(w)
    BY <1>4, <2>5 DEF MkdirFails, Completes, Fails, Cleanup
  <2> QED BY <1>5, <2>1, <2>2, <2>3, <2>4, <2>5 DEF JobThread
<1>6. CASE HeartbeatLoop(w)
  <2>1. Cancel(w) \/ UNCHANGED wk
    BY <1>6 DEF HeartbeatLoop, Beat, BeatLost, StatusCheck
  <2> QED BY <1>1, <1>2, <1>3, <1>6, <2>1
          DEF Cancel, WorkerState, Steady, HeartbeatLoop, Beat, StatusCheck, LoopRuns
<1>7. CASE Watcher(w)
  <2>1. ASSUME NEW told, NEW late,
               \/ Set(w, [wk[w] EXCEPT !.told = told])
               \/ Set(w, [wk[w] EXCEPT !.late = late])
               \/ Set(w, [wk[w] EXCEPT !.late = late, !.told = told])
        PROVE  Steady(w)
    <3>1. /\ wk'[w].pc = wk[w].pc /\ wk'[w].job = wk[w].job /\ wk'[w].hb = wk[w].hb
          /\ wk'[w].from = wk[w].from /\ wk'[w].startSeg = wk[w].startSeg
          /\ wk'[w].restarts = wk[w].restarts /\ wk'[w].cancelled = wk[w].cancelled
      BY <1>1, <1>2, <2>1 DEF WorkerState
    <3> QED BY <3>1 DEF Steady
  <2>2. CASE \E s \in Segs : ReportSegment(w, s)
    BY <1>3, <2>1, <2>2 DEF ReportSegment
  <2>3. CASE ReadAhead(w)
    BY <2>1, <2>3 DEF ReadAhead
  <2>4. CASE ReportLate(w)
    BY <2>1, <2>4 DEF ReportLate
  <2> QED BY <1>7, <2>2, <2>3, <2>4 DEF Watcher
<1>8. CASE Ffmpeg(w)
  BY <1>8, FfmpegLeaves DEF Steady
<1>9. CASE Crash(w) \/ Sigterm(w) \/ FirstSegmentSlow(w)
  <2>1. CASE Crash(w)
    BY <1>2, <2>1 DEF Crash, Stopped, IdleWorker, Steady
  <2>2. CASE Sigterm(w)
    <3>1. CASE wk[w].pc = "idle"
      BY <1>2, <2>2, <3>1 DEF Sigterm, Stopped, IdleWorker, Steady
    <3>2. CASE wk[w].pc # "idle"
      <4>1. wk'[w] = [wk[w] EXCEPT !.term = TRUE, !.cancelled = TRUE]
        BY <1>2, <2>2, <3>2 DEF Sigterm
      <4> QED BY <1>1, <2>2, <3>2, <4>1 DEF Sigterm, WorkerState, Steady
    <3> QED BY <3>1, <3>2
  <2>3. CASE FirstSegmentSlow(w)
    BY <1>1, <1>2, <2>3 DEF FirstSegmentSlow, Fault, WorkerState, Steady
  <2> QED BY <1>9, <2>1, <2>2, <2>3
<1> QED BY <1>5, <1>6, <1>7, <1>8, <1>9 DEF WorkerStep

\* A worker's step leaves the other workers alone.
LEMMA OthersUntouched ==
  ASSUME SystemInv, NEW v \in Workers, WorkerStep(v), NEW w \in Workers \ {v}
  PROVE  wk'[w] = wk[w]
<1>1. wk \in [Workers -> SaneWorkers]
  BY DEF SystemInv
<1>2. (\E st : Set(v, st)) \/ UNCHANGED wk
  <2>1. ASSUME Return(v) PROVE \E st : Set(v, st)
    BY <2>1 DEF Return
  <2>2. CASE JobThread(v)
    BY <2>1, <2>2 DEF JobThread, MarkProcessing, MakeDir, MkdirFails, Launch, StartFails,
       MarkReady, ManifestTimeout, Completes, Fails, Aborts, Cleanup
  <2>3. CASE HeartbeatLoop(v)
    BY <2>3 DEF HeartbeatLoop, Beat, BeatLost, StatusCheck, Cancel
  <2>4. CASE Watcher(v)
    BY <2>4 DEF Watcher, ReportSegment, ReadAhead, ReportLate
  <2>5. CASE Ffmpeg(v)
    BY <2>5 DEF Ffmpeg, OpenSegment, CloseSegment, EncodeEnds, EncodeFails, Killed
  <2> QED BY <2>2, <2>3, <2>4, <2>5 DEF WorkerStep, Claim, Crash, Sigterm,
                                       FirstSegmentSlow
<1> QED BY <1>1, <1>2 DEF Set

\* Every step keeps owners at what their rows ask for.
LEMMA ServesStep ==
  ASSUME SystemInv, OwnersInv, [Next]_vars
  PROVE  OwnersInv'
<1>1. wk \in [Workers -> SaneWorkers] /\ jobs \in [Jobs -> JobRow]
  BY DEF SystemInv, QueueTypeOK
<1>2. SUFFICES ASSUME NEW w \in Workers
               PROVE  Serves(w)'
  BY DEF OwnersInv
<1>3. Serves(w)
  BY DEF OwnersInv
<1>4. wk[w].pc \notin {"idle", "stopped"} => wk[w].job \in Jobs
  BY <1>1 DEF SaneWorkers, SaneWorker
<1>5. ASSUME NEW v \in Workers, NEW k \in Jobs, Claim(v, k)
      PROVE  Serves(w)'
  <2>1. /\ jobs' = [jobs EXCEPT ![k] = ClaimedRow(@, v)]
        /\ jobs'[k].worker = v /\ jobs'[k].startSeg = jobs[k].startSeg
        /\ jobs'[k].restarts = jobs[k].restarts
    BY <1>1, <1>5 DEF Claim, Dequeue, ClaimedRow, JobRow
  <2>2. CASE v = w /\ UNCHANGED wk
    BY <1>5, <2>2 DEF Claim, Serves
  <2>3. CASE v = w /\ Set(w, Given(w, k))
    <3>1. wk'[w] = Given(w, k) /\ wk[w] \in WorkerState
      BY <1>1, <2>3 DEF Set, SaneWorkers
    <3>2. wk'[w].pc = "claimed" /\ wk'[w].job = k
          /\ wk'[w].startSeg = jobs[k].startSeg
          /\ wk'[w].restarts = jobs[k].restarts
      BY <3>1 DEF Given, WorkerState
    <3> QED BY <2>1, <3>2 DEF Serves
  <2>4. CASE v # w
    <3>1. wk'[w] = wk[w]
      BY <1>5, <2>4, OthersUntouched DEF WorkerStep
    <3>2. ASSUME NEW j \in Jobs, OwnedBy(j, w)'
          PROVE  /\ OwnedBy(j, w) /\ jobs'[j].startSeg = jobs[j].startSeg
                 /\ jobs'[j].restarts = jobs[j].restarts
      BY <1>1, <2>1, <2>4, <3>2 DEF OwnedBy
    <3>3. CASE wk[w].pc \in {"idle", "stopped"}
      BY <3>1, <3>3 DEF Serves
    <3>4. CASE wk[w].job \in Jobs
      BY <1>3, <3>1, <3>2, <3>4 DEF Serves, LeftToWorker
    <3> QED BY <1>4, <3>3, <3>4
  <2> QED BY <1>5, <2>2, <2>3, <2>4 DEF Claim
<1>6. CASE OwnershipKept /\ (wk'[w] = wk[w] \/ Steady(w))
  <2>1. CASE wk'[w].pc \in {"idle", "stopped", "cleanup"}
    BY <2>1 DEF Serves
  <2>2. CASE wk'[w].pc \notin {"idle", "stopped", "cleanup"}
    <3>1. /\ wk[w].pc \notin {"idle", "stopped"} /\ wk'[w].job = wk[w].job
          /\ wk'[w].from = wk[w].from /\ wk'[w].startSeg = wk[w].startSeg
          /\ wk'[w].restarts = wk[w].restarts
          /\ \/ wk[w].pc = wk'[w].pc
             \/ {wk[w].pc, wk'[w].pc} \subseteq {"claimed", "mkdir", "launch"}
             \/ {wk[w].pc, wk'[w].pc} \subseteq {"manifest", "stream"}
      BY <1>6, <2>2 DEF Steady
    <3>2. PICK j \in Jobs : j = wk[w].job
      BY <1>4, <3>1
    <3>3. OwnedBy(j, w)' => /\ OwnedBy(j, w)
                            /\ jobs'[j].startSeg = jobs[j].startSeg
                            /\ jobs'[j].restarts = jobs[j].restarts
      BY <1>6, <3>2 DEF OwnershipKept
    <3> QED BY <1>3, <3>1, <3>2, <3>3 DEF Serves, LeftToWorker
  <2> QED BY <2>1, <2>2
<1>7. CASE Launch(w)
  <2>1. PICK short :
          /\ wk'[w].pc = "manifest" /\ wk'[w].job = wk[w].job
          /\ wk'[w].from = ResumePoint(w, short)
    <3>1. wk[w] \in WorkerState
      BY <1>1 DEF SaneWorkers
    <3>2. PICK short : LET start == ResumePoint(w, short) IN
            Set(w, [wk[w] EXCEPT
                      !.pc = "manifest", !.ff = "run",
                      !.from = start, !.cur = start,
                      !.lastSeg = IF ResumesLocally(w) /\ start > 0
                                    THEN start - 1 ELSE @,
                      !.restarts = 0, !.startSeg = 0])
      BY <1>7 DEF Launch
    <3>3. wk'[w] = [wk[w] EXCEPT
                      !.pc = "manifest", !.ff = "run",
                      !.from = ResumePoint(w, short), !.cur = ResumePoint(w, short),
                      !.lastSeg = IF ResumesLocally(w) /\ ResumePoint(w, short) > 0
                                    THEN ResumePoint(w, short) - 1 ELSE @,
                      !.restarts = 0, !.startSeg = 0]
      BY <1>1, <3>2 DEF Set
    <3> QED BY <3>1, <3>3 DEF WorkerState
  <2>2. PICK j : j = wk[w].job
    OBVIOUS
  <2>3. /\ UNCHANGED jobs /\ wk[w].pc = "launch"
        /\ OwnedBy(j, w)' = OwnedBy(j, w) /\ LeftToWorker(j)' = LeftToWorker(j)
    BY <1>7 DEF Launch, queueVars, OwnedBy, LeftToWorker
  <2>4. OwnedBy(j, w) => /\ wk[w].startSeg = jobs[j].startSeg
                         /\ wk[w].restarts = jobs[j].restarts
    BY <1>3, <2>2, <2>3 DEF Serves
  <2>5. OwnedBy(j, w) /\ ~ LeftToWorker(j) => ResumePoint(w, short) = jobs[j].startSeg
    BY <2>4 DEF ResumePoint, ResumesLocally, LeftToWorker
  <2> QED BY <2>1, <2>2, <2>3, <2>5 DEF Serves
<1>8. OwnershipKept \/ \E v \in Workers, k \in Jobs : Claim(v, k)
  BY OwnersStep
<1>9. \/ wk'[w] = wk[w] \/ Steady(w) \/ Launch(w)
      \/ \E k \in Jobs : Claim(w, k)
  <2>1. ASSUME NEW v \in Workers, WorkerStep(v)
        PROVE  <1>9
    BY <2>1, OthersUntouched, SteadyStep
  <2> QED BY <2>1 DEF Next, vars, Time
<1> QED BY <1>5, <1>6, <1>7, <1>8, <1>9

\* Neither a seek, nor a playback, nor a recovery, nor an Enqueue that resets a
\* claimed row leaves the worker the store accepts reports from on another start
\* segment, unless the row leaves the start to the worker: a restart at segment 0.
THEOREM OwnersServe == Spec => []OwnerServesRequest
<1>1. Init => OwnersInv
  BY DEF Init, WorkersInit, IdleWorker, OwnersInv, Serves
<1>2. SystemInv /\ OwnersInv /\ [Next]_vars => OwnersInv'
  BY ServesStep
<1>3. OwnersInv => OwnerServesRequest
  BY DEF OwnersInv, Serves, OwnerServesRequest
<1> QED BY <1>1, <1>2, <1>3, SystemSafe, PTL DEF Spec
=============================================================================
