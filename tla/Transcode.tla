----------------------------- MODULE Transcode -----------------------------
(***************************************************************************)
(* The whole transcoding path: the job store, the shared segment volume,   *)
(* the workers and the goroutines of the control plane, all running at     *)
(* their own pace.                                                         *)
(***************************************************************************)
EXTENDS Worker, ControlPlane

CONSTANT Queued    \* jobs a playback request has already enqueued

ASSUME QueuedAssumption == Queued \subseteq Jobs /\ \A j, k \in Queued : j = k

vars == <<jobs, segments, createdBefore, deleting, dirs, wk, ctl, faults>>

Init ==
  /\ jobs = [j \in Jobs |-> IF j \in Queued THEN InsertedRow(FreshRequest(0))
                                            ELSE AbsentRow]
  /\ segments = [j \in Jobs |-> {}]
  /\ createdBefore = {}
  /\ deleting = [c \in Callers |-> NoCall]
  /\ dirs = [j \in Jobs |-> NoDir]
  /\ WorkersInit
  /\ ControlInit
  /\ faults = 0

\* A heartbeat grows stale when nobody renews it, or when its worker's calls
\* come too late.  A column ages only where somebody would notice: the monitor
\* alone reads heartbeats, the watchdog alone the last access, and an
\* acknowledged recovery has no age.
Kept(j) == \E w \in Workers : Beating(w) /\ wk[w].job = j /\ jobs[j].worker = w

Time(j) ==
  /\ \/ /\ Monitors # {} /\ HeartbeatAges(j)
        /\ IF Kept(j) THEN Fault("lateBeat") ELSE NoFault
     \/ jobs[j].recovering /\ RecoveryAges(j) /\ NoFault
     \/ Watchdogs # {} /\ AccessAges(j) /\ NoFault
  /\ UNCHANGED <<dirs, wk, ctl>>

Next ==
  \/ \E w \in Workers : WorkerStep(w) /\ UNCHANGED ctl
  \/ ControlStep /\ UNCHANGED wk
  \/ \E j \in Jobs : Time(j)

Spec == Init /\ [][Next]_vars

\* Every goroutine and clock goes on, a handler with the request it has begun;
\* clients need not make another.  Of ffmpeg only its death is certain.
GoroutinesRun ==
  /\ \A w \in Workers :
       /\ WF_vars((\E j \in Jobs : Claim(w, j)) /\ UNCHANGED ctl)
       /\ WF_vars(JobThread(w) /\ UNCHANGED ctl)
       /\ WF_vars(HeartbeatLoop(w) /\ UNCHANGED ctl)
       /\ WF_vars(Watcher(w) /\ UNCHANGED ctl)
       /\ WF_vars(Killed(w) /\ UNCHANGED ctl)
  /\ \A m \in Monitors : WF_vars(MonitorStep(m) /\ UNCHANGED wk)
  /\ \A d \in Watchdogs : WF_vars(WatchdogStep(d) /\ UNCHANGED wk)
  /\ \A v \in Viewers : WF_vars(Answering(v) /\ UNCHANGED wk)
  /\ \A p \in Players : WF_vars(Handling(p) /\ UNCHANGED wk)
  /\ \A j \in Jobs : WF_vars(Time(j))

StallingSpec == Spec /\ GoroutinesRun

\* An ffmpeg that gets on with its work.
EncodersRun == \A w \in Workers : WF_vars(Ffmpeg(w) /\ UNCHANGED ctl)

FairSpec == StallingSpec /\ EncodersRun
-----------------------------------------------------------------------------
\* Every part of the state holds a value of its domain.
TypeOK == /\ QueueTypeOK /\ DirsTypeOK /\ WorkersTypeOK /\ ControlTypeOK
          /\ faults \in 0 .. MaxFaults

\* A worker removes the shared directory of its job only once the store no
\* longer counts it as the job's worker.
CleanupOnlyAfterLoss ==
  [][\A w \in Workers : Cleanup(w) => ~ OwnedBy(wk[w].job, w)]_vars

\* Where the worker of a row decides by itself: a restart that names segment 0,
\* or names none, which start_segment does not tell apart.
LeftToWorker(j) == jobs[j].startSeg = 0 /\ jobs[j].restarts > 0

\* The worker that the store counts as the job's works on what the row asks for:
\* no seek, playback or recovery leaves a worker in charge of an earlier request.
\* The exception are recoveries at segment 0 (LeftToWorker): there the worker goes
\* on after the files it finds, and a client that wants segment 0 never gets it.
OwnerServesRequest ==
  \A w \in Workers : LET j == wk[w].job IN
    /\ wk[w].pc \in {"claimed", "mkdir", "launch", "manifest", "stream"}
    /\ OwnedBy(j, w) /\ ~ LeftToWorker(j)
    => jobs[j].startSeg = IF wk[w].pc \in {"manifest", "stream"}
                            THEN wk[w].from ELSE wk[w].startSeg

\* A Completed job stays Completed: no tick of the monitor, whose snapshot may
\* have found it in the hands of a worker, starts it again.
CompletedStays ==
  [][\A j \in Jobs : jobs[j].status = "Completed" =>
       jobs'[j].status = "Completed"]_vars

\* A worker is declared dead only if its heartbeats have stopped: "older than 3
\* seconds (3 missed heartbeats)", architecture_walkthrough.md:63.
OnlyDeadWorkersMarked ==
  [][\A j \in Jobs : jobs'[j].disc > jobs[j].disc => ~ Kept(j)]_vars

\* With nobody but the recovery monitor deleting jobs, a job is given up only
\* when it has failed with all of its restarts used.
GivenUpOnlyWhenExhausted ==
  [][\A j \in Jobs : Exists(j) /\ ~ Exists(j)' =>
       jobs[j].status = "Failed" /\ jobs[j].restarts = MaxRestarts]_vars

\* Whatever goes wrong, a job comes to an end as long as a worker is left and
\* encoders get on: it is completed, or given up and deleted.
JobsSettle ==
  EncodersRun =>
    \A j \in Jobs :
      Exists(j) ~> \/ jobs[j].status \in {"Completed", "absent"}
                   \/ \A w \in Workers : wk[w].pc = "stopped"

\* A worker that has lost its job stops working on it, however long ffmpeg is at
\* it: "they self-terminate", architecture.md:161.
LosersStop ==
  \A j \in Jobs, w \in Workers :
    (wk[w].job = j /\ ~ OwnedBy(j, w)) ~> wk[w].job # j

\* A row whose worker is no longer working on it is taken from that worker.
AbsentWorkersReplaced ==
  \A j \in Jobs, w \in Workers :
    (OwnedBy(j, w) /\ wk[w].job # j) ~> ~ OwnedBy(j, w)

ClientSteps == \/ \E v \in Viewers : ViewerStep(v)
               \/ \E p \in Players : PlayerStep(p)

\* Once clients have stopped using it, a job is deleted for good: neither a report
\* that cuts DeleteJob in two, nor a statement of it that fails, nor a recovery
\* that touches the job, or creates it again from an old copy, keeps it.
IdleJobsReaped ==
  <>[][~ ClientSteps]_vars => \A j \in Jobs : <>[]~ Exists(j)
=============================================================================
