------------------------------ MODULE JobQueue ------------------------------
(***************************************************************************)
(* The job store of the control plane: the tables transcode_jobs and       *)
(* job_segments and the operations of PostgresJobQueue on them             *)
(* (src/internal/adapters/postgres/job_queue.go).  One action is one SQL   *)
(* statement or transaction; DeleteJob, two statements without a           *)
(* transaction, is two actions with everything else free to run between.   *)
(*                                                                         *)
(* Wall-clock columns are kept as the only answers the program asks of     *)
(* them.  last_heartbeat is "none" (NULL), "fresh" or "stale" (older than  *)
(* the dead-worker threshold), last_recovery_time is "recent" (within the  *)
(* 5 seconds of Enqueue's guard) or "old", last_accessed_at is "recent" or *)
(* "idle".  Time passing is an ageing action.  Durations are counted in    *)
(* segments.  The columns no property tells apart (paths, codecs, URLs,    *)
(* reasons, start_time) are left out.                                      *)
(***************************************************************************)
EXTENDS Naturals, FiniteSets

CONSTANTS
  Jobs,         \* job ids ("job-" + media id)
  Workers,      \* worker ids; a restarted worker process has a new one
  NoWorker,     \* worker_id IS NULL
  Callers,      \* control-plane goroutines that call DeleteJob
  NoCall,       \* a caller with no DeleteJob in progress
  Segs,         \* sequence ids of segments
  Restarts,     \* restart counts a caller of Enqueue passes
  MaxDisc,      \* bound: MarkWorkerAsDead calls counted per row
  MaxDuration   \* bound: transcoded_duration, in segments

ASSUME NamesAssumption == NoWorker \notin Workers /\ NoCall \notin Jobs
ASSUME BoundsAssumption ==
  /\ Segs \subseteq Nat /\ IsFiniteSet(Segs)
  /\ Restarts \subseteq Nat
  /\ MaxDisc \in Nat /\ MaxDuration \in Nat

VARIABLES
  jobs,          \* transcode_jobs: a row per job id, "absent" if there is none
  segments,      \* job_segments: the sequence ids with a row, per job
  createdBefore, \* <<j, k>>: row j has an earlier created_at than row k
  deleting       \* per caller: the job whose segments it deleted, row not yet

queueVars == <<jobs, segments, createdBefore, deleting>>

Statuses == {"absent", "Pending", "Processing", "Ready", "Completed",
             "Failed", "Cancelled"}
Active   == {"Processing", "Ready"}     \* status IN ('Processing', 'Ready')
Reported == {"Processing", "Ready", "Completed", "Failed"}

JobRow == [status     : Statuses,
           worker     : Workers \cup {NoWorker},
           hb         : {"none", "fresh", "stale"},
           restarts   : Nat,
           startSeg   : Nat,
           lastSeg    : Nat,
           duration   : Nat,
           recovering : BOOLEAN,
           recovery   : {"recent", "old"},
           disc       : Nat,
           access     : {"recent", "idle"}]

AbsentRow == [status |-> "absent", worker |-> NoWorker, hb |-> "none",
              restarts |-> 0, startSeg |-> 0, lastSeg |-> 0, duration |-> 0,
              recovering |-> FALSE, recovery |-> "old", disc |-> 0,
              access |-> "recent"]

\* Where a transcode may be asked to start: at a segment or just past one.
Positions == Segs \cup {s + 1 : s \in Segs}

\* What a caller of Enqueue passes; every one of them asks for Pending.
Requests == [restarts : Restarts, startSeg : Positions, recovering : BOOLEAN]

\* What a worker's UpdateJob carries: the whole of its own copy of the job.
Reports == [status : Reported, worker : Workers, hb : {"fresh", "stale"},
            lastSeg : Segs]

Exists(j) == jobs[j].status # "absent"

\* Mutant: the new number is stored as it comes.
Overwritten(a, b) == b

AtLeast(a, b) == IF a >= b THEN a ELSE b      \* GREATEST(a, b)
-----------------------------------------------------------------------------
(* Statements *)

\* Mutant: every Enqueue is let through.
EnqueueAlways(j) == TRUE

\* The ON CONFLICT guard: a recovery less than 5 seconds old is not repeated.
EnqueueAccepted(j) ==
  ~ jobs[j].recovering \/ jobs[j].recovery = "old"

\* The row INSERT writes: the columns it does not name have their defaults.
InsertedRow(req) ==
  [AbsentRow EXCEPT !.status     = "Pending",
                    !.restarts   = req.restarts,
                    !.startSeg   = req.startSeg,
                    !.recovering = req.recovering,
                    !.recovery   = IF req.recovering THEN "recent" ELSE "old"]

\* Mutant: INSERT OR REPLACE.
ReplacedRow(row, req) == InsertedRow(req)

\* The row ON CONFLICT DO UPDATE leaves: only a recovery takes the job from
\* its worker, and progress, discontinuities and created_at are kept.
UpsertedRow(row, req) ==
  [row EXCEPT !.status     = "Pending",
              !.restarts   = req.restarts,
              !.startSeg   = req.startSeg,
              !.recovering = req.recovering,
              !.recovery   = IF req.recovering THEN "recent" ELSE "old",
              !.worker     = IF req.recovering THEN NoWorker ELSE @,
              !.hb         = IF req.recovering THEN "none" ELSE @,
              !.access     = "recent"]

Insert(j, req) ==
  /\ ~ Exists(j)
  /\ jobs' = [jobs EXCEPT ![j] = InsertedRow(req)]
  /\ createdBefore' = createdBefore \cup ({k \in Jobs : Exists(k)} \X {j})
  /\ UNCHANGED <<segments, deleting>>

Upsert(j, req) ==
  /\ Exists(j)
  /\ EnqueueAccepted(j)
  /\ jobs' = [jobs EXCEPT ![j] = UpsertedRow(@, req)]
  /\ UNCHANGED <<segments, createdBefore, deleting>>

\* An Enqueue that meets a recovery in progress changes nothing
\* (ErrRecoveryInProgress).
Enqueue(j, req) == Insert(j, req) \/ Upsert(j, req)

\* The oldest Pending row; SKIP LOCKED passes over the rows that another
\* statement holds at this moment.
Claimable(j, locked) ==
  /\ jobs[j].status = "Pending" /\ j \notin locked
  /\ \A k \in Jobs \ locked :
       jobs[k].status = "Pending" => <<k, j>> \notin createdBefore

\* Mutant: a claim does not count as a heartbeat.
ClaimedSilently(row, w) ==
  [row EXCEPT !.status = "Processing", !.worker = w]

ClaimedRow(row, w) ==
  [row EXCEPT !.status = "Processing", !.worker = w, !.hb = "fresh"]

Dequeue(j, w) ==
  /\ \E locked \in SUBSET Jobs : Claimable(j, locked)
  /\ jobs' = [jobs EXCEPT ![j] = ClaimedRow(@, w)]
  /\ UNCHANGED <<segments, createdBefore, deleting>>

\* Mutants: the WHERE clause without one or the other of its conditions.
OwnedByAnyone(j, w) == jobs[j].status \in Active
OwnedByName(j, w) == jobs[j].worker = w

\* The WHERE clause of UpdateJob and of Heartbeat.
OwnedBy(j, w) == jobs[j].worker = w /\ jobs[j].status \in Active

\* handleUpdate clears recovery_in_progress for each of the reported statuses;
\* last_heartbeat is the worker's own value, whatever the row holds.
ReportedRow(row, report) ==
  [row EXCEPT !.status     = report.status,
              !.worker     = report.worker,
              !.hb         = report.hb,
              !.recovering = FALSE,
              !.lastSeg    = AtLeast(@, report.lastSeg)]

UpdateJob(j, report) ==
  /\ OwnedBy(j, report.worker)
  /\ jobs' = [jobs EXCEPT ![j] = ReportedRow(@, report)]
  /\ UNCHANGED <<segments, createdBefore, deleting>>

Heartbeat(j, w) ==
  /\ OwnedBy(j, w)
  /\ jobs' = [jobs EXCEPT ![j].hb = "fresh"]
  /\ UNCHANGED <<segments, createdBefore, deleting>>

\* Mutant: the duration is the distance from the last segment.
ExtendedBySpan(row, s, known) ==
  [row EXCEPT !.lastSeg  = AtLeast(@, s), !.duration = @ + s - row.lastSeg]

ExtendedRow(row, s, known) ==
  [row EXCEPT !.lastSeg  = AtLeast(@, s),
              !.duration = IF known THEN @ ELSE @ + 1]

\* One transaction; the foreign key refuses a segment of a missing job, and
\* the duration is added only if the row was inserted.  No ownership check.
AddSegment(j, s) ==
  /\ Exists(j)
  /\ s \in segments[j] \/ jobs[j].duration < MaxDuration
  /\ segments' = [segments EXCEPT ![j] = @ \cup {s}]
  /\ jobs' = [jobs EXCEPT ![j] = ExtendedRow(@, s, s \in segments[j])]
  /\ UNCHANGED <<createdBefore, deleting>>

MarkWorkerAsDead(j) ==
  /\ Exists(j)
  /\ jobs[j].disc < MaxDisc
  /\ jobs' = [jobs EXCEPT ![j].disc = @ + 1]
  /\ UNCHANGED <<segments, createdBefore, deleting>>

PurgeJobs(j) ==
  /\ jobs[j].status = "Pending"
  /\ jobs' = [jobs EXCEPT ![j].status = "Cancelled"]
  /\ UNCHANGED <<segments, createdBefore, deleting>>

TouchJob(j) ==
  /\ Exists(j)
  /\ jobs' = [jobs EXCEPT ![j].access = "recent"]
  /\ UNCHANGED <<segments, createdBefore, deleting>>

\* DELETE FROM job_segments: the first statement of DeleteJob.
DeleteSegments(c, j) ==
  /\ deleting[c] = NoCall
  /\ deleting' = [deleting EXCEPT ![c] = j]
  /\ segments' = [segments EXCEPT ![j] = {}]
  /\ UNCHANGED <<jobs, createdBefore>>

\* Mutant: no foreign key.
DeleteRowUnchecked(c) ==
  /\ deleting[c] # NoCall
  /\ deleting' = [deleting EXCEPT ![c] = NoCall]
  /\ jobs' = [jobs EXCEPT ![deleting[c]] = AbsentRow]
  /\ createdBefore' = {p \in createdBefore : deleting[c] \notin {p[1], p[2]}}
  /\ UNCHANGED segments

\* DELETE FROM transcode_jobs: the second one.  The foreign key of a segment
\* added in between makes it fail, and the row stays without its segments.
DeleteRow(c) ==
  /\ deleting[c] # NoCall
  /\ deleting' = [deleting EXCEPT ![c] = NoCall]
  /\ LET j == deleting[c] IN
       IF segments[j] = {}
         THEN /\ jobs' = [jobs EXCEPT ![j] = AbsentRow]
              /\ createdBefore' = {p \in createdBefore : j \notin {p[1], p[2]}}
         ELSE UNCHANGED <<jobs, createdBefore>>
  /\ UNCHANGED segments

\* The process stops, or a request's context is cancelled, in between.
DeletesAbandoned(lost) ==
  /\ deleting' = [c \in Callers |-> IF c \in lost THEN NoCall ELSE deleting[c]]
  /\ UNCHANGED <<jobs, segments, createdBefore>>

\* Time passes.
HeartbeatAges(j) ==
  /\ jobs[j].hb = "fresh"
  /\ jobs' = [jobs EXCEPT ![j].hb = "stale"]
  /\ UNCHANGED <<segments, createdBefore, deleting>>

RecoveryAges(j) ==
  /\ jobs[j].recovery = "recent"
  /\ jobs' = [jobs EXCEPT ![j].recovery = "old"]
  /\ UNCHANGED <<segments, createdBefore, deleting>>

AccessAges(j) ==
  /\ Exists(j)
  /\ jobs[j].access = "recent"
  /\ jobs' = [jobs EXCEPT ![j].access = "idle"]
  /\ UNCHANGED <<segments, createdBefore, deleting>>
-----------------------------------------------------------------------------
(* The store under any client *)

QueueInit ==
  /\ jobs = [j \in Jobs |-> AbsentRow]
  /\ segments = [j \in Jobs |-> {}]
  /\ createdBefore = {}
  /\ deleting = [c \in Callers |-> NoCall]

JobStep(j) ==
  \/ \E req \in Requests : Enqueue(j, req)
  \/ \E w \in Workers : Dequeue(j, w) \/ Heartbeat(j, w)
  \/ \E report \in Reports : UpdateJob(j, report)
  \/ \E s \in Segs : AddSegment(j, s)
  \/ MarkWorkerAsDead(j)
  \/ PurgeJobs(j)
  \/ TouchJob(j)
  \/ HeartbeatAges(j)
  \/ RecoveryAges(j)
  \/ AccessAges(j)

CallerStep(c) ==
  \/ \E j \in Jobs : DeleteSegments(c, j)
  \/ DeleteRow(c)

QueueNext == \/ \E j \in Jobs : JobStep(j)
             \/ \E c \in Callers : CallerStep(c)
             \/ \E lost \in SUBSET Callers : DeletesAbandoned(lost)

QueueSpec == QueueInit /\ [][QueueNext]_queueVars
-----------------------------------------------------------------------------
(* Correctness *)

\* Every column holds a value of its domain.
QueueTypeOK ==
  /\ jobs \in [Jobs -> JobRow]
  /\ segments \in [Jobs -> SUBSET Segs]
  /\ createdBefore \in SUBSET (Jobs \X Jobs)
  /\ deleting \in [Callers -> Jobs \cup {NoCall}]

\* No statement order, and no DeleteJob cut in two by a late AddSegment,
\* leaves segments of a job that has no row.
ReferentialIntegrity ==
  \A j \in Jobs : segments[j] # {} => Exists(j)

\* The resume point is never behind a stored segment, and each stored segment
\* has been counted in transcoded_duration: neither a duplicate report, nor a
\* re-created job, nor a DeleteJob that failed half-way makes last_segment_num
\* name a segment with stored ones after it.
SegmentAccounting ==
  \A j \in Jobs :
    /\ \A s \in segments[j] : s <= jobs[j].lastSeg
    /\ Cardinality(segments[j]) <= jobs[j].duration

\* A row that a worker is, or was, working on names that worker and carries a
\* heartbeat: the recovery monitor skips rows without one, so a claimed row
\* without a heartbeat would never be recovered.
ClaimIsRecoverable ==
  \A j \in Jobs :
    jobs[j].status \in Reported =>
      jobs[j].worker # NoWorker /\ jobs[j].hb # "none"

\* A recovery younger than 5 seconds that no worker has acknowledged keeps the
\* segment it was asked to start from: concurrent recoveries of one job are
\* collapsed into the first.
RecoveryNotRepeated ==
  [][\A j \in Jobs :
       /\ Exists(j) /\ jobs[j].recovering /\ jobs[j].recovery = "recent"
       /\ Exists(j)'
       => /\ jobs'[j].startSeg = jobs[j].startSeg
          /\ jobs'[j].restarts = jobs[j].restarts]_queueVars

\* A row changes hands only when a Pending row is claimed or when a recovery
\* takes it from its worker, and a result is only ever recorded for the worker
\* that holds the row: a worker that lost its job cannot clobber the recovery.
StaleWorkerCannotClobber ==
  [][\A j \in Jobs : Exists(j) /\ Exists(j)' =>
       /\ jobs'[j].worker # jobs[j].worker =>
            \/ jobs[j].status = "Pending" /\ jobs'[j].status = "Processing"
            \/ jobs'[j].worker = NoWorker /\ jobs'[j].recovering
       /\ jobs'[j].status \in {"Ready", "Completed", "Failed"}
          /\ jobs'[j].status # jobs[j].status =>
            /\ jobs[j].status \in Active
            /\ jobs'[j].worker = jobs[j].worker]_queueVars

\* For as long as a row lives, re-enqueues included, its progress and its count
\* of discontinuities only grow.
ProgressNeverLost ==
  [][\A j \in Jobs : Exists(j) /\ Exists(j)' =>
       /\ jobs'[j].lastSeg >= jobs[j].lastSeg
       /\ jobs'[j].duration >= jobs[j].duration
       /\ jobs'[j].disc >= jobs[j].disc]_queueVars

\* The lifecycle of a row: only a Processing or Ready row has an owner, whatever
\* worker_id still says.
Phase(status) ==
  CASE status = "absent"    -> "none"
    [] status = "Pending"   -> "wanted"
    [] status \in Active    -> "owned"
    [] status = "Completed" -> "done"
    [] status = "Failed"    -> "failed"
    [] OTHER                -> "withdrawn"

Owner(row) == IF row.status \in Active THEN row.worker ELSE NoWorker

PhaseOfJobs == [j \in Jobs |-> Phase(jobs[j].status)]

OwnerOfJobs == [j \in Jobs |-> Owner(jobs[j])]

Lifecycle == INSTANCE JobLifecycle WITH
  phase <- PhaseOfJobs, owner <- OwnerOfJobs, stored <- segments

\* The statements of the store, in any order, amount to the abstract lifecycle:
\* one owner at a time, and results only from the owner; what is stored outlasts
\* every re-enqueue, and nothing is dropped that has segments.
ImplementsLifecycle == Lifecycle!LifecycleSpec
=============================================================================
