--------------------------- MODULE JobQueueProofs ---------------------------
(***************************************************************************)
(* Proofs about JobQueue for every set of jobs, workers and callers and    *)
(* for every bound.  Each invariant is inductive on top of the typing      *)
(* invariant; each action property follows from the shape of the           *)
(* statements and, where a value is compared, from typing.                 *)
(***************************************************************************)
EXTENDS JobQueue, FiniteSetTheorems, WellFoundedInduction, TLAPS

USE DEF Exists

\* Numbers have a least one among them: what an induction would be used for.
LEMMA LeastNumber ==
  ASSUME NEW S \in SUBSET Nat, S # {}
  PROVE  \E x \in S : \A y \in S : x <= y
<1> DEFINE R == {p \in Nat \X Nat : p[1] < p[2]}
<1>1. IsWellFoundedOn(R, Nat)
  BY NatLessThanWellFounded DEF OpToRel
<1>2. \A p \in Nat \X Nat : p \in R <=> p[1] < p[2]
  OBVIOUS
<1> HIDE DEF R
<1>3. PICK x \in S : \A y \in S : <<y, x>> \notin R
  BY <1>1, WFMin
<1>4. ASSUME NEW y \in S PROVE x <= y
  <2>1. ~ (y < x)
    BY <1>2, <1>3
  <2> QED BY <2>1
<1> QED BY <1>4

\* Every step of the store is one of its statements.
LEMMA StepCases ==
  ASSUME NEW P, QueueNext,
         \A j \in Jobs, req \in Requests : Insert(j, req) => P,
         \A j \in Jobs, req \in Requests : Upsert(j, req) => P,
         \A j \in Jobs, w \in Workers : Dequeue(j, w) => P,
         \A j \in Jobs, w \in Workers : Heartbeat(j, w) => P,
         \A j \in Jobs, report \in Reports : UpdateJob(j, report) => P,
         \A j \in Jobs, s \in Segs : AddSegment(j, s) => P,
         \A j \in Jobs : MarkWorkerAsDead(j) => P,
         \A j \in Jobs : PurgeJobs(j) => P,
         \A j \in Jobs : TouchJob(j) => P,
         \A j \in Jobs : HeartbeatAges(j) => P,
         \A j \in Jobs : RecoveryAges(j) => P,
         \A j \in Jobs : AccessAges(j) => P,
         \A c \in Callers, j \in Jobs : DeleteSegments(c, j) => P,
         \A c \in Callers : DeleteRow(c) => P,
         \A lost \in SUBSET Callers : DeletesAbandoned(lost) => P
  PROVE  P
<1>1. CASE \E j \in Jobs : JobStep(j)
  BY <1>1 DEF JobStep, Enqueue
<1>2. CASE \E c \in Callers : CallerStep(c)
  BY <1>2 DEF CallerStep
<1>3. CASE \E lost \in SUBSET Callers : DeletesAbandoned(lost)
  BY <1>3
<1>4. QED BY <1>1, <1>2, <1>3 DEF QueueNext
-----------------------------------------------------------------------------
(* Typing *)

\* The row of a job that has none is a row.
LEMMA AbsentRowTyped == AbsentRow \in JobRow
BY DEF AbsentRow, JobRow, Statuses

\* GREATEST returns a number that is not below either of its arguments.
LEMMA AtLeastIsNat ==
  ASSUME NEW a \in Nat, NEW b \in Nat
  PROVE  AtLeast(a, b) \in Nat /\ AtLeast(a, b) >= a /\ AtLeast(a, b) >= b
BY DEF AtLeast

\* Every statement that rewrites a row leaves a well-typed one.
LEMMA RowsTyped ==
  ASSUME NEW row \in JobRow
  PROVE  /\ \A req \in Requests : /\ InsertedRow(req) \in JobRow
                                  /\ UpsertedRow(row, req) \in JobRow
         /\ \A w \in Workers : ClaimedRow(row, w) \in JobRow
         /\ \A report \in Reports : ReportedRow(row, report) \in JobRow
         /\ \A s \in Segs, known \in BOOLEAN :
              ExtendedRow(row, s, known) \in JobRow
<1>1. ASSUME NEW req \in Requests
      PROVE  InsertedRow(req) \in JobRow /\ UpsertedRow(row, req) \in JobRow
  <2>1. /\ req.restarts \in Nat /\ req.startSeg \in Nat
        /\ req.recovering \in BOOLEAN
    <3>1. \A p \in Positions : p \in Nat
      <4>1. Segs \subseteq Nat
        BY BoundsAssumption
      <4>2. ASSUME NEW p \in Positions PROVE p \in Nat
        <5>1. CASE p \in Segs
          BY <4>1, <5>1
        <5>2. CASE p \in {s + 1 : s \in Segs}
          <6>1. PICK s \in Segs : p = s + 1
            BY <5>2
          <6>2. QED BY <4>1, <6>1
        <5>3. QED BY <4>2, <5>1, <5>2 DEF Positions
      <4>3. QED BY <4>2
    <3>2. QED BY <3>1, BoundsAssumption DEF Requests
  <2>2. InsertedRow(req) \in JobRow
    <3>1. "absent" \in Statuses /\ "Pending" \in Statuses
      BY DEF Statuses
    <3>2. AbsentRow \in JobRow
      BY <3>1 DEF AbsentRow, JobRow
    <3> QED BY <2>1, <3>1, <3>2 DEF InsertedRow, JobRow
  <2>3. UpsertedRow(row, req) \in JobRow
    BY <2>1 DEF UpsertedRow, JobRow, Statuses
  <2>4. QED BY <2>2, <2>3
<1>2. ASSUME NEW w \in Workers
      PROVE  ClaimedRow(row, w) \in JobRow
  <2>1. "Processing" \in Statuses /\ w \in Workers \cup {NoWorker}
    BY DEF Statuses
  <2>2. QED BY <2>1 DEF ClaimedRow, JobRow
<1>3. ASSUME NEW report \in Reports
      PROVE  ReportedRow(row, report) \in JobRow
  <2>1. /\ report.lastSeg \in Nat
        /\ report.status \in Statuses
        /\ report.hb \in {"fresh", "stale"}
        /\ report.worker \in Workers
    BY BoundsAssumption DEF Reports, Reported, Statuses
  <2>2. AtLeast(row.lastSeg, report.lastSeg) \in Nat
    BY <2>1, AtLeastIsNat DEF JobRow
  <2>3. QED BY <2>1, <2>2 DEF ReportedRow, JobRow
<1>4. ASSUME NEW s \in Segs, NEW known \in BOOLEAN
      PROVE  ExtendedRow(row, s, known) \in JobRow
  <2>1. AtLeast(row.lastSeg, s) \in Nat
    BY BoundsAssumption, AtLeastIsNat DEF JobRow
  <2>2. (IF known THEN row.duration ELSE row.duration + 1) \in Nat
    BY DEF JobRow
  <2>3. QED BY <2>1, <2>2 DEF ExtendedRow, JobRow
<1>5. QED BY <1>1, <1>2, <1>3, <1>4

\* Typing is preserved by every statement of the store.
LEMMA TypingStep ==
  ASSUME QueueTypeOK, [QueueNext]_queueVars
  PROVE  QueueTypeOK'
<1> USE DEF QueueTypeOK
<1>1. CASE UNCHANGED queueVars
  BY <1>1 DEF queueVars
<1>2. ASSUME NEW j \in Jobs, NEW req \in Requests, Insert(j, req)
      PROVE  QueueTypeOK'
  BY <1>2, RowsTyped DEF Insert
<1>3. ASSUME NEW j \in Jobs, NEW req \in Requests, Upsert(j, req)
      PROVE  QueueTypeOK'
  BY <1>3, RowsTyped DEF Upsert
<1>4. ASSUME NEW j \in Jobs, NEW w \in Workers, Dequeue(j, w)
      PROVE  QueueTypeOK'
  BY <1>4, RowsTyped DEF Dequeue
<1>5. ASSUME NEW j \in Jobs, NEW w \in Workers, Heartbeat(j, w)
      PROVE  QueueTypeOK'
  BY <1>5 DEF Heartbeat, JobRow
<1>6. ASSUME NEW j \in Jobs, NEW report \in Reports, UpdateJob(j, report)
      PROVE  QueueTypeOK'
  BY <1>6, RowsTyped DEF UpdateJob
<1>7. ASSUME NEW j \in Jobs, NEW s \in Segs, AddSegment(j, s)
      PROVE  QueueTypeOK'
  <2>1. ExtendedRow(jobs[j], s, s \in segments[j]) \in JobRow
    BY RowsTyped, (s \in segments[j]) \in BOOLEAN
  <2>2. QED BY <1>7, <2>1 DEF AddSegment
<1>8. ASSUME NEW j \in Jobs, MarkWorkerAsDead(j)
      PROVE  QueueTypeOK'
  BY <1>8 DEF MarkWorkerAsDead, JobRow
<1>9. ASSUME NEW j \in Jobs, PurgeJobs(j)
      PROVE  QueueTypeOK'
  <2>1. [jobs[j] EXCEPT !.status = "Cancelled"] \in JobRow
    BY RowsTyped DEF JobRow, Statuses
  <2>2. QED BY <1>9, <2>1 DEF PurgeJobs
<1>10. ASSUME NEW j \in Jobs, TouchJob(j)
       PROVE  QueueTypeOK'
  <2>1. [jobs[j] EXCEPT !.access = "recent"] \in JobRow
    BY RowsTyped DEF JobRow
  <2>2. QED BY <1>10, <2>1 DEF TouchJob
<1>11. ASSUME NEW j \in Jobs, HeartbeatAges(j)
       PROVE  QueueTypeOK'
  <2>1. [jobs[j] EXCEPT !.hb = "stale"] \in JobRow
    BY RowsTyped DEF JobRow
  <2>2. QED BY <1>11, <2>1 DEF HeartbeatAges
<1>12. ASSUME NEW j \in Jobs, RecoveryAges(j)
       PROVE  QueueTypeOK'
  BY <1>12 DEF RecoveryAges, JobRow
<1>13. ASSUME NEW j \in Jobs, AccessAges(j)
       PROVE  QueueTypeOK'
  BY <1>13 DEF AccessAges, JobRow
<1>14. ASSUME NEW c \in Callers, NEW j \in Jobs, DeleteSegments(c, j)
       PROVE  QueueTypeOK'
  BY <1>14 DEF DeleteSegments
<1>15. ASSUME NEW c \in Callers, DeleteRow(c)
       PROVE  QueueTypeOK'
  BY <1>15, AbsentRowTyped DEF DeleteRow
<1>16. ASSUME NEW lost \in SUBSET Callers, DeletesAbandoned(lost)
       PROVE  QueueTypeOK'
  BY <1>16 DEF DeletesAbandoned, QueueTypeOK
<1>17. CASE QueueNext
  BY <1>2, <1>3, <1>4, <1>5, <1>6, <1>7, <1>8, <1>9, <1>10, <1>11, <1>12,
     <1>13, <1>14, <1>15, <1>16, <1>17, StepCases
<1>18. QED BY <1>1, <1>17

\* Every reachable state of the store is well typed.
THEOREM TypeCorrect == QueueSpec => []QueueTypeOK
<1>1. QueueInit => QueueTypeOK
  BY AbsentRowTyped DEF QueueInit, QueueTypeOK
<1>2. QueueTypeOK /\ [QueueNext]_queueVars => QueueTypeOK'
  BY TypingStep
<1>3. QED BY <1>1, <1>2, PTL DEF QueueSpec
-----------------------------------------------------------------------------
(* Segments and their rows *)

\* The invariant of this section: typing and the foreign key.
SegmentsOfRows == QueueTypeOK /\ ReferentialIntegrity

\* The foreign key is preserved: AddSegment needs the row, and a DeleteRow that
\* finds a segment added since DeleteSegments removes nothing.
LEMMA ReferentialStep ==
  ASSUME SegmentsOfRows, [QueueNext]_queueVars
  PROVE  SegmentsOfRows'
<1> USE DEF SegmentsOfRows, ReferentialIntegrity
<1>1. QueueTypeOK'
  BY TypingStep
<1>2. CASE UNCHANGED queueVars
  BY <1>1, <1>2 DEF queueVars
<1>3. ASSUME /\ segments' = segments
             /\ \A j \in Jobs : Exists(j) => Exists(j)'
      PROVE  SegmentsOfRows'
  BY <1>1, <1>3
<1>4. ASSUME NEW j \in Jobs, NEW row, row.status # "absent",
             jobs' = [jobs EXCEPT ![j] = row]
      PROVE  \A k \in Jobs : Exists(k) => Exists(k)'
  BY <1>4 DEF QueueTypeOK
<1>5. ASSUME NEW j \in Jobs, NEW req \in Requests, Insert(j, req)
      PROVE  SegmentsOfRows'
  <2>1. InsertedRow(req).status = "Pending"
    BY DEF InsertedRow, AbsentRow
  <2>2. QED BY <1>3, <1>4, <1>5, <2>1 DEF Insert
<1>6. ASSUME NEW j \in Jobs, NEW req \in Requests, Upsert(j, req)
      PROVE  SegmentsOfRows'
  <2>1. UpsertedRow(jobs[j], req).status = "Pending"
    BY DEF UpsertedRow, QueueTypeOK, JobRow
  <2>2. QED BY <1>3, <1>4, <1>6, <2>1 DEF Upsert
<1>7. ASSUME NEW j \in Jobs, NEW w \in Workers, Dequeue(j, w)
      PROVE  SegmentsOfRows'
  <2>1. ClaimedRow(jobs[j], w).status = "Processing"
    BY DEF ClaimedRow, QueueTypeOK, JobRow
  <2>2. QED BY <1>3, <1>4, <1>7, <2>1 DEF Dequeue
<1>8. ASSUME NEW j \in Jobs, NEW report \in Reports, UpdateJob(j, report)
      PROVE  SegmentsOfRows'
  <2>1. ReportedRow(jobs[j], report).status # "absent"
    BY DEF ReportedRow, QueueTypeOK, JobRow, Reports, Reported
  <2>2. QED BY <1>3, <1>4, <1>8, <2>1 DEF UpdateJob
<1>9. ASSUME NEW j \in Jobs, NEW s \in Segs, AddSegment(j, s)
      PROVE  SegmentsOfRows'
  <2>1. ExtendedRow(jobs[j], s, s \in segments[j]).status # "absent"
    BY <1>9 DEF AddSegment, ExtendedRow, QueueTypeOK, JobRow
  <2>2. \A k \in Jobs : Exists(k) => Exists(k)'
    BY <1>4, <1>9, <2>1 DEF AddSegment
  <2>3. \A k \in Jobs : segments'[k] # {} => segments[k] # {} \/ k = j
    BY <1>9 DEF AddSegment, QueueTypeOK
  <2>4. Exists(j)
    BY <1>9 DEF AddSegment
  <2>5. QED BY <1>1, <2>2, <2>3, <2>4
<1>10. ASSUME NEW j \in Jobs, NEW w \in Workers, Heartbeat(j, w)
       PROVE  SegmentsOfRows'
  BY <1>3, <1>10 DEF Heartbeat, QueueTypeOK, JobRow
<1>11. ASSUME NEW j \in Jobs, PurgeJobs(j)
       PROVE  SegmentsOfRows'
  BY <1>3, <1>11 DEF PurgeJobs, QueueTypeOK, JobRow
<1>12. ASSUME NEW j \in Jobs,
              \/ MarkWorkerAsDead(j) \/ TouchJob(j) \/ HeartbeatAges(j)
              \/ RecoveryAges(j) \/ AccessAges(j)
       PROVE  SegmentsOfRows'
  BY <1>3, <1>12 DEF MarkWorkerAsDead, TouchJob, HeartbeatAges, RecoveryAges,
                     AccessAges, QueueTypeOK, JobRow
<1>13. ASSUME NEW c \in Callers, NEW j \in Jobs, DeleteSegments(c, j)
       PROVE  SegmentsOfRows'
  BY <1>1, <1>13 DEF DeleteSegments, QueueTypeOK
<1>14. ASSUME NEW c \in Callers, DeleteRow(c)
       PROVE  SegmentsOfRows'
  BY <1>1, <1>14 DEF DeleteRow, QueueTypeOK
<1>15. ASSUME NEW lost \in SUBSET Callers, DeletesAbandoned(lost)
       PROVE  SegmentsOfRows'
  BY <1>1, <1>15 DEF DeletesAbandoned
<1>16. CASE QueueNext
  BY <1>5, <1>6, <1>7, <1>8, <1>9, <1>10, <1>11, <1>12, <1>13, <1>14, <1>15,
     <1>16, StepCases
<1>17. QED BY <1>2, <1>16

\* No segment outlives its job row, in any state the store can reach.
THEOREM SegmentsHaveRows == QueueSpec => []ReferentialIntegrity
<1>1. QueueInit => SegmentsOfRows
  BY AbsentRowTyped DEF QueueInit, QueueTypeOK, SegmentsOfRows,
                        ReferentialIntegrity
<1>2. SegmentsOfRows /\ [QueueNext]_queueVars => SegmentsOfRows'
  BY ReferentialStep
<1>3. SegmentsOfRows => ReferentialIntegrity
  BY DEF SegmentsOfRows
<1>4. QED BY <1>1, <1>2, <1>3, PTL DEF QueueSpec
-----------------------------------------------------------------------------
(* Accounting of segments *)

\* The numbers of one row against the stored segments of its job.
Accounted(j) ==
  /\ \A s \in segments[j] : s <= jobs[j].lastSeg
  /\ Cardinality(segments[j]) <= jobs[j].duration

AccountedRows == SegmentsOfRows /\ SegmentAccounting

\* The stored segments of a job can be counted.
LEMMA SegmentsFinite ==
  ASSUME QueueTypeOK, NEW j \in Jobs
  PROVE  IsFiniteSet(segments[j]) /\ Cardinality(segments[j]) \in Nat
<1>1. segments[j] \in SUBSET Segs
  BY DEF QueueTypeOK
<1>2. QED BY <1>1, BoundsAssumption, FS_Subset, FS_CardinalityType

\* A job whose segments stay, and whose row's numbers do not go down, stays
\* accounted for.
LEMMA AccountedGrows ==
  ASSUME QueueTypeOK, QueueTypeOK', NEW j \in Jobs, Accounted(j),
         segments'[j] = segments[j],
         jobs'[j].lastSeg >= jobs[j].lastSeg,
         jobs'[j].duration >= jobs[j].duration
  PROVE  Accounted(j)'
<1>1. /\ jobs[j].lastSeg \in Nat /\ jobs'[j].lastSeg \in Nat
      /\ jobs[j].duration \in Nat /\ jobs'[j].duration \in Nat
  BY DEF QueueTypeOK, JobRow
<1>2. segments[j] \subseteq Nat /\ Cardinality(segments[j]) \in Nat
  BY SegmentsFinite, BoundsAssumption DEF QueueTypeOK
<1>3. QED BY <1>1, <1>2 DEF Accounted

\* A job without segments is accounted for by any row.
LEMMA AccountedEmpty ==
  ASSUME QueueTypeOK, NEW j \in Jobs, segments[j] = {}
  PROVE  Accounted(j)
<1>1. Cardinality(segments[j]) = 0
  BY FS_EmptySet
<1>2. QED BY <1>1 DEF Accounted, QueueTypeOK, JobRow

\* The row of a live job keeps or raises its numbers in every statement.
LEMMA NumbersGrow ==
  ASSUME QueueTypeOK, QueueNext, NEW k \in Jobs, Exists(k), Exists(k)'
  PROVE  /\ jobs'[k].lastSeg >= jobs[k].lastSeg
         /\ jobs'[k].duration >= jobs[k].duration
         /\ jobs'[k].disc >= jobs[k].disc
<1> DEFINE Grows == /\ jobs'[k].lastSeg >= jobs[k].lastSeg
                    /\ jobs'[k].duration >= jobs[k].duration
                    /\ jobs'[k].disc >= jobs[k].disc
<1>1. /\ jobs[k].lastSeg \in Nat /\ jobs[k].duration \in Nat
      /\ jobs[k].disc \in Nat
  BY DEF QueueTypeOK, JobRow
<1>2. ASSUME NEW j \in Jobs, NEW req \in Requests, Insert(j, req)
      PROVE  Grows
  BY <1>1, <1>2 DEF Insert, QueueTypeOK
<1>3. ASSUME NEW j \in Jobs, NEW req \in Requests, Upsert(j, req)
      PROVE  Grows
  BY <1>1, <1>3 DEF Upsert, UpsertedRow, QueueTypeOK, JobRow
<1>4. ASSUME NEW j \in Jobs, NEW w \in Workers, Dequeue(j, w)
      PROVE  Grows
  BY <1>1, <1>4 DEF Dequeue, ClaimedRow, QueueTypeOK, JobRow
<1>5. ASSUME NEW j \in Jobs, NEW report \in Reports, UpdateJob(j, report)
      PROVE  Grows
  <2>1. jobs[j].lastSeg \in Nat /\ report.lastSeg \in Nat
    BY BoundsAssumption DEF QueueTypeOK, JobRow, Reports
  <2>2. AtLeast(jobs[j].lastSeg, report.lastSeg) >= jobs[j].lastSeg
    BY <2>1, AtLeastIsNat
  <2>3. QED BY <1>1, <1>5, <2>2 DEF UpdateJob, ReportedRow, QueueTypeOK, JobRow
<1>6. ASSUME NEW j \in Jobs, NEW s \in Segs, AddSegment(j, s)
      PROVE  Grows
  <2>1. jobs[j].lastSeg \in Nat /\ s \in Nat
    BY BoundsAssumption DEF QueueTypeOK, JobRow
  <2>2. AtLeast(jobs[j].lastSeg, s) >= jobs[j].lastSeg
    BY <2>1, AtLeastIsNat
  <2>3. QED BY <1>1, <1>6, <2>2 DEF AddSegment, ExtendedRow, QueueTypeOK, JobRow
<1>7. ASSUME NEW j \in Jobs, NEW w \in Workers, Heartbeat(j, w)
      PROVE  Grows
  BY <1>1, <1>7 DEF Heartbeat, QueueTypeOK, JobRow
<1>8. ASSUME NEW j \in Jobs, MarkWorkerAsDead(j)
      PROVE  Grows
  BY <1>1, <1>8 DEF MarkWorkerAsDead, QueueTypeOK, JobRow
<1>9. ASSUME NEW j \in Jobs,
             \/ PurgeJobs(j) \/ TouchJob(j) \/ HeartbeatAges(j)
             \/ RecoveryAges(j) \/ AccessAges(j)
      PROVE  Grows
  BY <1>1, <1>9 DEF PurgeJobs, TouchJob, HeartbeatAges, RecoveryAges,
                    AccessAges, QueueTypeOK, JobRow
<1>10. ASSUME NEW c \in Callers,
              DeleteRow(c) \/ \E j \in Jobs : DeleteSegments(c, j)
       PROVE  Grows
  <2>1. CASE \E j \in Jobs : DeleteSegments(c, j)
    BY <1>1, <2>1 DEF DeleteSegments
  <2>2. CASE DeleteRow(c)
    <3>1. CASE UNCHANGED jobs
      BY <1>1, <3>1
    <3>2. CASE jobs' = [jobs EXCEPT ![deleting[c]] = AbsentRow]
      BY <1>1, <3>2 DEF AbsentRow, QueueTypeOK
    <3>3. QED BY <2>2, <3>1, <3>2 DEF DeleteRow
  <2>3. QED BY <1>10, <2>1, <2>2
<1>11. ASSUME NEW lost \in SUBSET Callers, DeletesAbandoned(lost)
       PROVE  Grows
  BY <1>1, <1>11 DEF DeletesAbandoned, QueueTypeOK, JobRow
<1>12. QED
  <2> HIDE DEF Grows
  <2>1. Grows
    BY <1>2, <1>3, <1>4, <1>5, <1>6, <1>7, <1>8, <1>9, <1>10, <1>11,
       StepCases
  <2>2. QED BY <2>1 DEF Grows

\* AddSegment counts a segment when it inserts it, and raises the last segment.
LEMMA AccountedAdd ==
  ASSUME QueueTypeOK, NEW j \in Jobs, NEW s \in Segs, AddSegment(j, s),
         Accounted(j)
  PROVE  Accounted(j)'
<1>1. /\ jobs[j].lastSeg \in Nat /\ jobs[j].duration \in Nat /\ s \in Nat
      /\ segments[j] \subseteq Nat /\ Cardinality(segments[j]) \in Nat
      /\ IsFiniteSet(segments[j])
  BY SegmentsFinite, BoundsAssumption DEF QueueTypeOK, JobRow
<1>2. segments'[j] = segments[j] \cup {s}
  BY DEF AddSegment, QueueTypeOK
<1>3. /\ jobs'[j].lastSeg = AtLeast(jobs[j].lastSeg, s)
      /\ jobs'[j].duration = IF s \in segments[j] THEN jobs[j].duration
                                                   ELSE jobs[j].duration + 1
  BY DEF AddSegment, ExtendedRow, QueueTypeOK, JobRow
<1>4. \A t \in segments'[j] : t <= jobs'[j].lastSeg
  <2>1. /\ AtLeast(jobs[j].lastSeg, s) \in Nat
        /\ AtLeast(jobs[j].lastSeg, s) >= jobs[j].lastSeg
        /\ AtLeast(jobs[j].lastSeg, s) >= s
    BY <1>1, AtLeastIsNat
  <2>2. QED BY <1>1, <1>2, <1>3, <2>1 DEF Accounted
<1>5. Cardinality(segments'[j]) <= jobs'[j].duration
  <2>1. CASE s \in segments[j]
    <3>1. segments'[j] = segments[j]
      BY <1>2, <2>1
    <3>2. QED BY <1>3, <2>1, <3>1 DEF Accounted
  <2>2. CASE s \notin segments[j]
    <3>1. Cardinality(segments'[j]) = Cardinality(segments[j]) + 1
      BY <1>1, <1>2, <2>2, FS_AddElement
    <3>2. QED BY <1>1, <1>3, <2>2, <3>1 DEF Accounted
  <2>3. QED BY <2>1, <2>2
<1>6. QED BY <1>4, <1>5 DEF Accounted

\* Every step leaves the stored segments of every job accounted for.
LEMMA AccountingStep ==
  ASSUME AccountedRows, [QueueNext]_queueVars
  PROVE  AccountedRows'
<1>1. QueueTypeOK /\ ReferentialIntegrity /\ SegmentsOfRows'
  BY ReferentialStep DEF AccountedRows, SegmentsOfRows
<1>2. QueueTypeOK'
  BY <1>1 DEF SegmentsOfRows
<1>3. CASE UNCHANGED queueVars
  BY <1>1, <1>3 DEF queueVars, AccountedRows, SegmentAccounting
<1>4. CASE QueueNext
  <2>1. SUFFICES ASSUME NEW k \in Jobs PROVE Accounted(k)'
    BY <1>1 DEF AccountedRows, SegmentAccounting, Accounted
  <2>2. Accounted(k)
    BY DEF AccountedRows, SegmentAccounting, Accounted
  <2>3. CASE segments'[k] = {}
    BY <1>2, <2>3, FS_EmptySet DEF Accounted, QueueTypeOK, JobRow
  <2>4. CASE segments'[k] # {} /\ segments'[k] = segments[k]
    <3>1. Exists(k) /\ Exists(k)'
      BY <1>1, <2>4 DEF SegmentsOfRows, ReferentialIntegrity
    <3>2. QED BY <1>1, <1>2, <1>4, <2>2, <2>4, <3>1, NumbersGrow, AccountedGrows
  <2>5. CASE segments'[k] # {} /\ segments'[k] # segments[k]
    <3>1. \E s \in Segs : AddSegment(k, s)
      <4>1. ASSUME NEW j \in Jobs, NEW s \in Segs, AddSegment(j, s)
            PROVE  \E t \in Segs : AddSegment(k, t)
        <5>1. j = k
          BY <1>1, <2>5, <4>1 DEF AddSegment, QueueTypeOK
        <5>2. QED BY <4>1, <5>1
      <4>2. ASSUME NEW c \in Callers, NEW j \in Jobs, DeleteSegments(c, j)
            PROVE  FALSE
        BY <1>1, <2>5, <4>2 DEF DeleteSegments, QueueTypeOK
      <4>3. ASSUME UNCHANGED segments
            PROVE  FALSE
        BY <2>5, <4>3
      <4>4. QED
        BY <1>4, <4>1, <4>2, <4>3, StepCases
        DEF Insert, Upsert, Dequeue, Heartbeat, UpdateJob, MarkWorkerAsDead,
            PurgeJobs, TouchJob, HeartbeatAges, RecoveryAges, AccessAges,
            DeleteRow, DeletesAbandoned
    <3>2. QED BY <1>1, <2>2, <3>1, AccountedAdd
  <2>6. QED BY <2>3, <2>4, <2>5
<1>5. QED BY <1>3, <1>4

\* The resume point and the duration account for every stored segment, in any
\* state the store can reach.
THEOREM SegmentsAccounted == QueueSpec => []SegmentAccounting
<1>1. QueueInit => AccountedRows
  <2>1. QueueInit => QueueTypeOK /\ ReferentialIntegrity
    BY AbsentRowTyped DEF QueueInit, QueueTypeOK, ReferentialIntegrity
  <2>2. QueueInit => \A j \in Jobs : Accounted(j)
    BY <2>1, AccountedEmpty DEF QueueInit
  <2>3. QED BY <2>1, <2>2 DEF AccountedRows, SegmentsOfRows, SegmentAccounting,
                              Accounted
<1>2. AccountedRows /\ [QueueNext]_queueVars => AccountedRows'
  BY AccountingStep
<1>3. AccountedRows => SegmentAccounting
  BY DEF AccountedRows
<1>4. QED BY <1>1, <1>2, <1>3, PTL DEF QueueSpec

\* No statement, a re-enqueue included, takes progress back from a live row.
THEOREM ProgressKept == QueueSpec => ProgressNeverLost
<1>1. QueueTypeOK /\ [QueueNext]_queueVars =>
        [\A j \in Jobs : Exists(j) /\ Exists(j)' =>
           /\ jobs'[j].lastSeg >= jobs[j].lastSeg
           /\ jobs'[j].duration >= jobs[j].duration
           /\ jobs'[j].disc >= jobs[j].disc]_queueVars
  BY NumbersGrow
<1>2. QED BY <1>1, TypeCorrect, PTL DEF QueueSpec, ProgressNeverLost
-----------------------------------------------------------------------------
(* Ownership *)

\* Nothing but a claim or a recovery changes a row's worker, and only the row's
\* own worker turns an active row into a result.
Handover(j) ==
  /\ jobs'[j].worker # jobs[j].worker =>
       \/ jobs[j].status = "Pending" /\ jobs'[j].status = "Processing"
       \/ jobs'[j].worker = NoWorker /\ jobs'[j].recovering
  /\ jobs'[j].status \in {"Ready", "Completed", "Failed"}
     /\ jobs'[j].status # jobs[j].status =>
       /\ jobs[j].status \in Active
       /\ jobs'[j].worker = jobs[j].worker

\* Every step hands a live row over in one of these ways.
LEMMA HandoverStep ==
  ASSUME QueueTypeOK, QueueNext, NEW k \in Jobs, Exists(k), Exists(k)'
  PROVE  Handover(k)
<1> USE DEF Handover
<1>1. ASSUME UNCHANGED <<jobs[k].worker, jobs[k].status>>
      PROVE  Handover(k)
  BY <1>1
<1>2. ASSUME NEW j \in Jobs, NEW req \in Requests, Insert(j, req)
      PROVE  Handover(k)
  BY <1>1, <1>2 DEF Insert, QueueTypeOK
<1>3. ASSUME NEW j \in Jobs, NEW req \in Requests, Upsert(j, req)
      PROVE  Handover(k)
  <2>1. CASE req.recovering
    BY <1>3, <2>1 DEF Upsert, UpsertedRow, QueueTypeOK, JobRow
  <2>2. CASE ~ req.recovering
    BY <1>3, <2>2 DEF Upsert, UpsertedRow, QueueTypeOK, JobRow
  <2>3. QED BY <2>1, <2>2
<1>4. ASSUME NEW j \in Jobs, NEW w \in Workers, Dequeue(j, w)
      PROVE  Handover(k)
  <2>1. jobs[j].status = "Pending"
    BY <1>4 DEF Dequeue, Claimable
  <2>2. QED BY <1>4, <2>1 DEF Dequeue, ClaimedRow, QueueTypeOK, JobRow
<1>5. ASSUME NEW j \in Jobs, NEW report \in Reports, UpdateJob(j, report)
      PROVE  Handover(k)
  BY <1>5 DEF UpdateJob, OwnedBy, ReportedRow, QueueTypeOK, JobRow
<1>6. ASSUME NEW j \in Jobs, NEW s \in Segs, AddSegment(j, s)
      PROVE  Handover(k)
  BY <1>6 DEF AddSegment, ExtendedRow, QueueTypeOK, JobRow
<1>7. ASSUME NEW j \in Jobs, NEW w \in Workers, Heartbeat(j, w)
      PROVE  Handover(k)
  BY <1>7 DEF Heartbeat, QueueTypeOK, JobRow
<1>8. ASSUME NEW j \in Jobs,
             \/ MarkWorkerAsDead(j) \/ PurgeJobs(j) \/ TouchJob(j)
             \/ HeartbeatAges(j) \/ RecoveryAges(j) \/ AccessAges(j)
      PROVE  Handover(k)
  BY <1>8 DEF MarkWorkerAsDead, PurgeJobs, TouchJob, HeartbeatAges,
              RecoveryAges, AccessAges, QueueTypeOK, JobRow
<1>9. ASSUME NEW c \in Callers,
             DeleteRow(c) \/ \E j \in Jobs : DeleteSegments(c, j)
      PROVE  Handover(k)
  BY <1>9 DEF DeleteSegments, DeleteRow, AbsentRow, QueueTypeOK
<1>10. ASSUME NEW lost \in SUBSET Callers, DeletesAbandoned(lost)
       PROVE  Handover(k)
  BY <1>10 DEF DeletesAbandoned
<1>11. QED
  <2> HIDE DEF Handover
  <2>1. QED
    BY <1>2, <1>3, <1>4, <1>5, <1>6, <1>7, <1>8, <1>9, <1>10, StepCases

\* A worker that lost its job to a recovery can neither take it back nor record
\* a result for it.
THEOREM StaleWorkersExcluded == QueueSpec => StaleWorkerCannotClobber
<1>1. QueueTypeOK /\ [QueueNext]_queueVars =>
        [\A j \in Jobs : Exists(j) /\ Exists(j)' =>
           /\ jobs'[j].worker # jobs[j].worker =>
                \/ jobs[j].status = "Pending" /\ jobs'[j].status = "Processing"
                \/ jobs'[j].worker = NoWorker /\ jobs'[j].recovering
           /\ jobs'[j].status \in {"Ready", "Completed", "Failed"}
              /\ jobs'[j].status # jobs[j].status =>
                /\ jobs[j].status \in Active
                /\ jobs'[j].worker = jobs[j].worker]_queueVars
  BY HandoverStep DEF Handover
<1>2. QED BY <1>1, TypeCorrect, PTL DEF QueueSpec, StaleWorkerCannotClobber
\* Every row that has been claimed can be recovered: each statement keeps it so.
LEMMA RecoverableStep ==
  ASSUME QueueTypeOK, QueueNext, ClaimIsRecoverable
  PROVE  ClaimIsRecoverable'
<1> USE DEF ClaimIsRecoverable, Reported
<1>1. ASSUME UNCHANGED jobs
      PROVE  ClaimIsRecoverable'
  BY <1>1
<1>2. ASSUME NEW j \in Jobs, NEW req \in Requests, Insert(j, req)
      PROVE  ClaimIsRecoverable'
  BY <1>2 DEF Insert, InsertedRow, AbsentRow, QueueTypeOK
<1>3. ASSUME NEW j \in Jobs, NEW req \in Requests, Upsert(j, req)
      PROVE  ClaimIsRecoverable'
  BY <1>3 DEF Upsert, UpsertedRow, QueueTypeOK, JobRow
<1>4. ASSUME NEW j \in Jobs, NEW w \in Workers, Dequeue(j, w)
      PROVE  ClaimIsRecoverable'
  BY <1>4, NamesAssumption DEF Dequeue, ClaimedRow, QueueTypeOK, JobRow
<1>5. ASSUME NEW j \in Jobs, NEW report \in Reports, UpdateJob(j, report)
      PROVE  ClaimIsRecoverable'
  <2>1. report.worker # NoWorker /\ report.hb # "none"
    BY <1>5, NamesAssumption DEF UpdateJob, OwnedBy, Reports
  <2>2. QED BY <1>5, <2>1 DEF UpdateJob, ReportedRow, QueueTypeOK, JobRow
<1>6. ASSUME NEW j \in Jobs, NEW w \in Workers, Heartbeat(j, w)
      PROVE  ClaimIsRecoverable'
  BY <1>6 DEF Heartbeat, QueueTypeOK, JobRow
<1>7. ASSUME NEW j \in Jobs, NEW s \in Segs, AddSegment(j, s)
      PROVE  ClaimIsRecoverable'
  BY <1>7 DEF AddSegment, ExtendedRow, QueueTypeOK, JobRow
<1>8. ASSUME NEW j \in Jobs,
             \/ MarkWorkerAsDead(j) \/ PurgeJobs(j) \/ TouchJob(j)
             \/ HeartbeatAges(j) \/ RecoveryAges(j) \/ AccessAges(j)
      PROVE  ClaimIsRecoverable'
  <2>1. CASE MarkWorkerAsDead(j) \/ PurgeJobs(j)
    BY <1>8, <2>1 DEF MarkWorkerAsDead, PurgeJobs, QueueTypeOK, JobRow
  <2>2. CASE TouchJob(j)
    BY <1>8, <2>2 DEF TouchJob, QueueTypeOK, JobRow
  <2>3. CASE HeartbeatAges(j) \/ RecoveryAges(j) \/ AccessAges(j)
    BY <1>8, <2>3 DEF HeartbeatAges, RecoveryAges, AccessAges, QueueTypeOK, JobRow
  <2>4. QED BY <1>8, <2>1, <2>2, <2>3
<1>9. ASSUME NEW c \in Callers, DeleteRow(c)
      PROVE  ClaimIsRecoverable'
  BY <1>9 DEF DeleteRow, AbsentRow, QueueTypeOK
<1>10. QED
  <2> HIDE DEF ClaimIsRecoverable
  <2>1. QED
    BY <1>1, <1>2, <1>3, <1>4, <1>5, <1>6, <1>7, <1>8, <1>9, StepCases
    DEF DeleteSegments, DeletesAbandoned

\* No claimed row is ever without a worker or without a heartbeat, so none is
\* out of the recovery monitor's sight.
THEOREM ClaimsRecoverable == QueueSpec => []ClaimIsRecoverable
<1>1. QueueInit => ClaimIsRecoverable
  BY DEF QueueInit, ClaimIsRecoverable, AbsentRow, Reported
<1>2. QueueTypeOK /\ ClaimIsRecoverable /\ [QueueNext]_queueVars
        => ClaimIsRecoverable'
  BY RecoverableStep DEF queueVars, ClaimIsRecoverable
<1>3. QED BY <1>1, <1>2, TypeCorrect, PTL DEF QueueSpec
-----------------------------------------------------------------------------
(* Recoveries *)

\* The request a live row carries is replaced only through the guard of Enqueue.
LEMMA RequestKept ==
  ASSUME QueueTypeOK, QueueNext, NEW k \in Jobs, Exists(k), Exists(k)',
         ~ EnqueueAccepted(k)
  PROVE  jobs'[k].startSeg = jobs[k].startSeg
         /\ jobs'[k].restarts = jobs[k].restarts
<1> DEFINE Kept == jobs'[k].startSeg = jobs[k].startSeg
                   /\ jobs'[k].restarts = jobs[k].restarts
<1>1. ASSUME UNCHANGED jobs
      PROVE  Kept
  BY <1>1
<1>2. ASSUME NEW j \in Jobs, NEW req \in Requests,
             Insert(j, req) \/ Upsert(j, req)
      PROVE  Kept
  BY <1>2 DEF Insert, Upsert, QueueTypeOK
<1>3. ASSUME NEW j \in Jobs, NEW w \in Workers, Dequeue(j, w)
      PROVE  Kept
  BY <1>3 DEF Dequeue, ClaimedRow, QueueTypeOK, JobRow
<1>4. ASSUME NEW j \in Jobs, NEW report \in Reports, UpdateJob(j, report)
      PROVE  Kept
  BY <1>4 DEF UpdateJob, ReportedRow, QueueTypeOK, JobRow
<1>5. ASSUME NEW j \in Jobs, NEW w \in Workers, Heartbeat(j, w)
      PROVE  Kept
  BY <1>5 DEF Heartbeat, QueueTypeOK, JobRow
<1>6. ASSUME NEW j \in Jobs, NEW s \in Segs, AddSegment(j, s)
      PROVE  Kept
  BY <1>6 DEF AddSegment, ExtendedRow, QueueTypeOK, JobRow
<1>7. ASSUME NEW j \in Jobs,
             \/ MarkWorkerAsDead(j) \/ PurgeJobs(j) \/ TouchJob(j)
             \/ HeartbeatAges(j) \/ RecoveryAges(j) \/ AccessAges(j)
      PROVE  Kept
  BY <1>7 DEF MarkWorkerAsDead, PurgeJobs, TouchJob, HeartbeatAges,
              RecoveryAges, AccessAges, QueueTypeOK, JobRow
<1>8. ASSUME NEW c \in Callers, DeleteRow(c)
      PROVE  Kept
  BY <1>8 DEF DeleteRow, AbsentRow, QueueTypeOK
<1>9. QED
  <2> HIDE DEF Kept
  <2>1. Kept
    BY <1>1, <1>2, <1>3, <1>4, <1>5, <1>6, <1>7, <1>8, StepCases
    DEF DeleteSegments, DeletesAbandoned
  <2>2. QED BY <2>1 DEF Kept

\* While a recovery is recent and not acknowledged, no other request replaces
\* the one it made.
THEOREM RecoveriesCollapsed == QueueSpec => RecoveryNotRepeated
<1>1. QueueTypeOK /\ [QueueNext]_queueVars =>
        [\A j \in Jobs :
           /\ Exists(j) /\ jobs[j].recovering /\ jobs[j].recovery = "recent"
           /\ Exists(j)'
           => /\ jobs'[j].startSeg = jobs[j].startSeg
              /\ jobs'[j].restarts = jobs[j].restarts]_queueVars
  BY RequestKept DEF EnqueueAccepted
<1>2. QED BY <1>1, TypeCorrect, PTL DEF QueueSpec, RecoveryNotRepeated
=============================================================================
