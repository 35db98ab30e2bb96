-------------------------- MODULE LifecycleProofs --------------------------
(***************************************************************************)
(* JobQueue implements JobLifecycle, for every set of jobs, workers and    *)
(* segments and every bound: each statement of the store is a step of the  *)
(* abstract lifecycle of its job, or changes nothing there.                *)
(***************************************************************************)
EXTENDS JobQueueProofs

\* A statement on one row changes that job's phase and owner only.
LEMMA MappedRow ==
  ASSUME NEW j \in Jobs, NEW row, jobs \in [Jobs -> JobRow],
         jobs' = [jobs EXCEPT ![j] = row]
  PROVE  /\ PhaseOfJobs' = [PhaseOfJobs EXCEPT ![j] = Phase(row.status)]
         /\ OwnerOfJobs' = [OwnerOfJobs EXCEPT ![j] = Owner(row)]
BY DEF PhaseOfJobs, OwnerOfJobs

\* One that leaves the row's phase and owner alone is not seen at all.
LEMMA UnseenRow ==
  ASSUME NEW j \in Jobs, NEW row, jobs \in [Jobs -> JobRow],
         jobs' = [jobs EXCEPT ![j] = row],
         Phase(row.status) = Phase(jobs[j].status),
         Owner(row) = Owner(jobs[j])
  PROVE  UNCHANGED <<PhaseOfJobs, OwnerOfJobs>>
<1>1. \A k \in Jobs : /\ Phase(jobs'[k].status) = Phase(jobs[k].status)
                       /\ Owner(jobs'[k]) = Owner(jobs[k])
  OBVIOUS
<1>2. QED BY <1>1 DEF PhaseOfJobs, OwnerOfJobs

\* Every status of a row has its phase.
LEMMA PhaseOfStatus ==
  /\ Phase("absent") = "none" /\ Phase("Pending") = "wanted"
  /\ Phase("Processing") = "owned" /\ Phase("Ready") = "owned"
  /\ Phase("Completed") = "done" /\ Phase("Failed") = "failed"
  /\ Phase("Cancelled") = "withdrawn"
BY DEF Phase, Active

USE DEF Lifecycle!lifecycleVars

\* Every statement of the store maps to a step of the lifecycle or to none.
LEMMA LifecycleStep ==
  ASSUME QueueTypeOK, [QueueNext]_queueVars
  PROVE  [Lifecycle!LifecycleNext]_(Lifecycle!lifecycleVars)
<1> DEFINE Goal == [Lifecycle!LifecycleNext]_(Lifecycle!lifecycleVars)
<1>a. jobs \in [Jobs -> JobRow]
  BY DEF QueueTypeOK
<1>1. CASE UNCHANGED queueVars
  BY <1>1 DEF queueVars, PhaseOfJobs, OwnerOfJobs
<1>2. ASSUME NEW j \in Jobs, NEW row, jobs' = [jobs EXCEPT ![j] = row],
             row.status = "Pending", UNCHANGED segments
      PROVE  Lifecycle!Ask(j)
  <2>1. Phase(row.status) = "wanted" /\ Owner(row) = NoWorker
    BY <1>2, PhaseOfStatus DEF Owner, Active
  <2>2. QED BY <1>a, <1>2, <2>1, MappedRow DEF Lifecycle!Ask
<1>3. ASSUME NEW j \in Jobs, NEW req \in Requests, Insert(j, req)
      PROVE  Goal
  <2>1. InsertedRow(req).status = "Pending"
    BY DEF InsertedRow, AbsentRow
  <2>2. Lifecycle!Ask(j)
    BY <1>2, <1>3, <2>1 DEF Insert
  <2>3. QED BY <2>2 DEF Lifecycle!LifecycleNext
<1>4. ASSUME NEW j \in Jobs, NEW req \in Requests, Upsert(j, req)
      PROVE  Goal
  <2>1. UpsertedRow(jobs[j], req).status = "Pending"
    BY <1>a DEF UpsertedRow, JobRow
  <2>2. Lifecycle!Ask(j)
    BY <1>2, <1>4, <2>1 DEF Upsert
  <2>3. QED BY <2>2 DEF Lifecycle!LifecycleNext
<1>5. ASSUME NEW j \in Jobs, NEW w \in Workers, Dequeue(j, w)
      PROVE  Goal
  <2> DEFINE row == ClaimedRow(jobs[j], w)
  <2>1. row.status = "Processing" /\ row.worker = w
    BY <1>a DEF ClaimedRow, JobRow
  <2>2. PhaseOfJobs[j] = "wanted"
    BY <1>5, PhaseOfStatus DEF Dequeue, Claimable, PhaseOfJobs
  <2>3. Phase(row.status) = "owned" /\ Owner(row) = w
    BY <2>1, PhaseOfStatus DEF Owner, Active
  <2>4. jobs' = [jobs EXCEPT ![j] = row] /\ UNCHANGED segments
    BY <1>5 DEF Dequeue
  <2>5. Lifecycle!Take(j, w)
    BY <1>a, <2>2, <2>3, <2>4, MappedRow DEF Lifecycle!Take
  <2>6. QED BY <2>5 DEF Lifecycle!LifecycleNext
<1>6. ASSUME NEW j \in Jobs, NEW report \in Reports, UpdateJob(j, report)
      PROVE  Goal
  <2> DEFINE row == ReportedRow(jobs[j], report)
  <2>1. /\ row.status = report.status /\ row.worker = report.worker
        /\ report.worker \in Workers /\ report.status \in Reported
    BY <1>a DEF ReportedRow, JobRow, Reports
  <2>2. jobs[j].worker = report.worker /\ jobs[j].status \in Active
    BY <1>6 DEF UpdateJob, OwnedBy
  <2>3. /\ Phase(jobs[j].status) = "owned" /\ Owner(jobs[j]) = report.worker
        /\ PhaseOfJobs[j] = "owned" /\ OwnerOfJobs[j] = report.worker
    BY <2>2 DEF Owner, Phase, Active, PhaseOfJobs, OwnerOfJobs
  <2>4. jobs' = [jobs EXCEPT ![j] = row] /\ UNCHANGED segments
    BY <1>6 DEF UpdateJob
  <2>5. CASE report.status \in Active
    <3>1. Phase(row.status) = "owned" /\ Owner(row) = report.worker
      BY <2>1, <2>5 DEF Owner, Phase, Active
    <3>2. QED BY <1>a, <2>3, <2>4, <3>1, UnseenRow
  <2>6. CASE report.status \notin Active
    <3>1. Phase(row.status) \in {"done", "failed"} /\ Owner(row) = NoWorker
      BY <2>1, <2>6, PhaseOfStatus DEF Owner, Active, Reported
    <3>2. Lifecycle!Settle(j, report.worker)
      BY <1>a, <2>3, <2>4, <3>1, MappedRow DEF Lifecycle!Settle
    <3>3. QED BY <2>1, <3>2 DEF Lifecycle!LifecycleNext
  <2>7. QED BY <2>5, <2>6
<1>7. ASSUME NEW j \in Jobs, NEW row, jobs' = [jobs EXCEPT ![j] = row],
             row.status = jobs[j].status, row.worker = jobs[j].worker
      PROVE  UNCHANGED <<PhaseOfJobs, OwnerOfJobs>>
  BY <1>a, <1>7, UnseenRow DEF Owner
<1>8. ASSUME NEW j \in Jobs, NEW s \in Segs, AddSegment(j, s)
      PROVE  Goal
  <2> DEFINE row == ExtendedRow(jobs[j], s, s \in segments[j])
  <2>1. row.status = jobs[j].status /\ row.worker = jobs[j].worker
    BY <1>a DEF ExtendedRow, JobRow
  <2>2. jobs' = [jobs EXCEPT ![j] = row]
    BY <1>8 DEF AddSegment
  <2>3. UNCHANGED <<PhaseOfJobs, OwnerOfJobs>>
    BY <1>7, <2>1, <2>2
  <2>4. PhaseOfJobs[j] # "none"
    <3>1. jobs[j].status \in Statuses
      BY <1>a DEF JobRow
    <3>2. jobs[j].status # "absent"
      BY <1>8 DEF AddSegment, Exists
    <3>3. QED BY <3>1, <3>2, PhaseOfStatus DEF PhaseOfJobs, Statuses
  <2>5. Lifecycle!Store(j, s)
    BY <1>8, <2>3, <2>4 DEF AddSegment, Lifecycle!Store
  <2>6. QED BY <2>5 DEF Lifecycle!LifecycleNext
<1>9. ASSUME NEW j \in Jobs, NEW w \in Workers, Heartbeat(j, w)
      PROVE  Goal
  BY <1>a, <1>7, <1>9 DEF Heartbeat, JobRow
<1>10. ASSUME NEW j \in Jobs,
              \/ MarkWorkerAsDead(j) \/ TouchJob(j)
              \/ HeartbeatAges(j) \/ RecoveryAges(j) \/ AccessAges(j)
       PROVE  Goal
  <2>1. PICK row : /\ jobs' = [jobs EXCEPT ![j] = row]
                   /\ row.status = jobs[j].status
                   /\ row.worker = jobs[j].worker
    BY <1>a, <1>10 DEF MarkWorkerAsDead, TouchJob, HeartbeatAges, RecoveryAges,
                       AccessAges, JobRow
  <2>2. QED BY <1>7, <1>10, <2>1 DEF MarkWorkerAsDead, TouchJob, HeartbeatAges,
                                     RecoveryAges, AccessAges
<1>11. ASSUME NEW j \in Jobs, PurgeJobs(j)
       PROVE  Goal
  <2> DEFINE row == [jobs[j] EXCEPT !.status = "Cancelled"]
  <2>1. /\ row.status = "Cancelled" /\ Owner(row) = NoWorker
        /\ Phase(row.status) = "withdrawn"
    BY <1>a, PhaseOfStatus DEF JobRow, Owner, Active
  <2>2. PhaseOfJobs[j] = "wanted" /\ OwnerOfJobs[j] = NoWorker
    BY <1>11, PhaseOfStatus DEF PurgeJobs, PhaseOfJobs, OwnerOfJobs, Owner, Active
  <2>3. jobs' = [jobs EXCEPT ![j] = row] /\ UNCHANGED segments
    BY <1>11 DEF PurgeJobs
  <2>4. /\ PhaseOfJobs' = [PhaseOfJobs EXCEPT ![j] = "withdrawn"]
        /\ OwnerOfJobs' = [OwnerOfJobs EXCEPT ![j] = NoWorker]
    <3> HIDE DEF row
    <3>1. QED BY <1>a, <2>1, <2>3, MappedRow
  <2>5. OwnerOfJobs' = OwnerOfJobs
    BY <2>2, <2>4 DEF OwnerOfJobs
  <2>6. Lifecycle!Withdraw(j)
    BY <2>2, <2>3, <2>4, <2>5 DEF Lifecycle!Withdraw
  <2>7. QED BY <2>6 DEF Lifecycle!LifecycleNext
<1>12. ASSUME NEW c \in Callers, NEW j \in Jobs, DeleteSegments(c, j)
       PROVE  Goal
  <2>1. Lifecycle!Clear(j)
    BY <1>12 DEF DeleteSegments, Lifecycle!Clear, PhaseOfJobs, OwnerOfJobs
  <2>2. QED BY <2>1 DEF Lifecycle!LifecycleNext
<1>13. ASSUME NEW c \in Callers, DeleteRow(c)
       PROVE  Goal
  <2>1. PICK j \in Jobs : j = deleting[c]
    BY <1>13 DEF DeleteRow, QueueTypeOK
  <2>2. CASE segments[j] # {}
    BY <1>13, <2>1, <2>2 DEF DeleteRow, PhaseOfJobs, OwnerOfJobs
  <2>3. CASE segments[j] = {}
    <3>1. jobs' = [jobs EXCEPT ![j] = AbsentRow] /\ UNCHANGED segments
      BY <1>13, <2>1, <2>3 DEF DeleteRow
    <3>2. Phase(AbsentRow.status) = "none" /\ Owner(AbsentRow) = NoWorker
      BY PhaseOfStatus DEF AbsentRow, Owner, Active
    <3>3. Lifecycle!Drop(j)
      BY <1>a, <2>3, <3>1, <3>2, MappedRow DEF Lifecycle!Drop
    <3>4. QED BY <3>3 DEF Lifecycle!LifecycleNext
  <2>4. QED BY <2>2, <2>3
<1>14. ASSUME NEW lost \in SUBSET Callers, DeletesAbandoned(lost)
       PROVE  Goal
  BY <1>14 DEF DeletesAbandoned, PhaseOfJobs, OwnerOfJobs
<1>15. QED
  <2> HIDE DEF Goal
  <2>1. ASSUME QueueNext PROVE Goal
    BY <1>3, <1>4, <1>5, <1>6, <1>8, <1>9, <1>10, <1>11, <1>12, <1>13, <1>14,
       <2>1, StepCases
  <2>2. QED BY <1>1, <2>1 DEF Goal

\* The store implements the lifecycle: a job has at most one owner, only the
\* owner settles it, and what is stored outlasts every re-enqueue.
THEOREM StoreImplementsLifecycle == QueueSpec => ImplementsLifecycle
<1>1. QueueInit => Lifecycle!LifecycleInit
  BY PhaseOfStatus DEF QueueInit, Lifecycle!LifecycleInit, PhaseOfJobs, OwnerOfJobs,
                       AbsentRow, Owner, Active
<1>2. QueueTypeOK /\ [QueueNext]_queueVars
        => [Lifecycle!LifecycleNext]_(Lifecycle!lifecycleVars)
  BY LifecycleStep
<1>3. QED
  BY <1>1, <1>2, TypeCorrect, PTL
  DEF QueueSpec, ImplementsLifecycle, Lifecycle!LifecycleSpec
=============================================================================
