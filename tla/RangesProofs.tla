---------------------------- MODULE RangesProofs ----------------------------
(***************************************************************************)
(* No sub-job without its parent, for any file, any number of workers and  *)
(* of callers that delete.  The property is not inductive: which ids are   *)
(* sub-jobs depends on the cuts.  The invariant adds that before the cuts  *)
(* are made there is no row of a sub-job, that SplitAndEnqueue asks for    *)
(* the ranges there are, and that there are enough ids for them.           *)
(***************************************************************************)
EXTENDS Ranges, SplitterProofs, JobQueueProofs

Runs == [job : Jobs \cup {NoCall}, next : Nat, left : Int]

Typed == /\ jobs \in [Jobs -> JobRow] /\ run \in [Workers -> Runs]
         /\ deleting \in [Callers -> Jobs \cup {NoCall}]

EnoughIds == /\ Len(Splits) - 1 <= Len(SubIds)
             /\ cut.pc = "loop" => Len(Splits) <= cut.i

Busy == \A w \in Workers : run[w].left > 0 => run[w].job \in Jobs

Asking == play.pc = "subs" => cut.pc = "done" /\ play.k \in Ways

Families == \A k \in 1 .. Len(SubIds) :
              Exists(SubIds[k]) => Exists(Parent) /\ cut.pc = "done" /\ k \in Ways

FamilyInv == SplitInv /\ EnoughIds /\ Typed /\ Busy /\ Asking /\ Families

\* Where a statement on row j leaves the table well-typed and the others alone.
LEMMA RowChanged ==
  ASSUME jobs \in [Jobs -> JobRow], NEW j \in Jobs, NEW row \in JobRow,
         jobs' = [jobs EXCEPT ![j] = row]
  PROVE  /\ jobs' \in [Jobs -> JobRow]
         /\ Exists(j)' <=> row.status # "absent"
         /\ \A k \in Jobs \ {j} : Exists(k)' = Exists(k)
BY DEF Exists

\* A request of the splitter brings up the row it is for, and no other.
LEMMA EnqueueBringsUp ==
  ASSUME jobs \in [Jobs -> JobRow], NEW j \in Jobs, NEW s \in Nat,
         Enqueue(j, Asked(s))
  PROVE  /\ jobs' \in [Jobs -> JobRow] /\ UNCHANGED deleting
         /\ \A k \in Jobs : Exists(k)' <=> Exists(k) \/ k = j
<1> DEFINE req == Asked(s)
<1>1. req.restarts \in Nat /\ req.startSeg \in Nat /\ req.recovering = FALSE
  BY DEF Asked
<1>2. CASE Insert(j, req)
  <2>1. InsertedRow(req) \in JobRow /\ InsertedRow(req).status = "Pending"
    BY <1>1, AbsentRowTyped DEF InsertedRow, JobRow, Statuses
  <2>2. jobs' = [jobs EXCEPT ![j] = InsertedRow(req)] /\ UNCHANGED deleting
    BY <1>2 DEF Insert
  <2> QED BY <2>1, <2>2, RowChanged
<1>3. CASE Upsert(j, req)
  <2>1. Exists(j) /\ jobs[j] \in JobRow /\ UNCHANGED deleting
        /\ jobs' = [jobs EXCEPT ![j] = UpsertedRow(jobs[j], req)]
    BY <1>3 DEF Upsert
  <2>2. /\ UpsertedRow(jobs[j], req) \in JobRow
        /\ UpsertedRow(jobs[j], req).status = "Pending"
    BY <1>1, <2>1 DEF UpsertedRow, JobRow, Statuses
  <2> QED BY <2>1, <2>2, RowChanged
<1> QED BY <1>2, <1>3 DEF Enqueue

Done(w) == [status |-> "Completed", worker |-> w, hb |-> "fresh", lastSeg |-> 0]

\* The statements of a worker, a client's touch and the passing of time neither
\* bring up a row nor drop one.
LEMMA RowsStay ==
  ASSUME jobs \in [Jobs -> JobRow], NEW j \in Jobs,
         \/ \E w \in Workers : Dequeue(j, w) \/ UpdateJob(j, Done(w))
         \/ \E s \in Nat : AddSegment(j, s)
         \/ TouchJob(j) \/ AccessAges(j)
  PROVE  /\ jobs' \in [Jobs -> JobRow] /\ UNCHANGED deleting
         /\ \A k \in Jobs : Exists(k)' = Exists(k)
<1>0. jobs[j] \in JobRow
  OBVIOUS
<1>1. ASSUME NEW row \in JobRow, jobs' = [jobs EXCEPT ![j] = row],
             UNCHANGED deleting, Exists(j), row.status # "absent"
      PROVE  /\ jobs' \in [Jobs -> JobRow] /\ UNCHANGED deleting
             /\ \A k \in Jobs : Exists(k)' = Exists(k)
  <2>1. /\ jobs' \in [Jobs -> JobRow] /\ Exists(j)'
        /\ \A k \in Jobs \ {j} : Exists(k)' = Exists(k)
    BY <1>1, RowChanged
  <2>2. Exists(j)' = Exists(j)
    BY <1>1, <2>1 DEF Exists
  <2> QED BY <1>1, <2>1, <2>2
<1>2. ASSUME NEW w \in Workers, Dequeue(j, w)
      PROVE  jobs' \in [Jobs -> JobRow] /\ UNCHANGED deleting
             /\ \A k \in Jobs : Exists(k)' = Exists(k)
  <2>1. jobs[j].status = "Pending"
    BY <1>2 DEF Dequeue, Claimable
  <2>2. /\ ClaimedRow(jobs[j], w) \in JobRow
        /\ ClaimedRow(jobs[j], w).status = "Processing"
    BY <1>0 DEF ClaimedRow, JobRow, Statuses
  <2>3. jobs' = [jobs EXCEPT ![j] = ClaimedRow(jobs[j], w)] /\ UNCHANGED deleting
    BY <1>2 DEF Dequeue
  <2> QED BY <1>1, <2>1, <2>2, <2>3 DEF Exists
<1>3. ASSUME NEW w \in Workers, UpdateJob(j, Done(w))
      PROVE  jobs' \in [Jobs -> JobRow] /\ UNCHANGED deleting
             /\ \A k \in Jobs : Exists(k)' = Exists(k)
  <2> DEFINE report == Done(w)
  <2>1. jobs[j].status \in Active
    BY <1>3 DEF UpdateJob, OwnedBy
  <2>2. AtLeast(jobs[j].lastSeg, 0) \in Nat
    BY <1>0, AtLeastIsNat DEF JobRow
  <2>3. /\ ReportedRow(jobs[j], report) \in JobRow
        /\ ReportedRow(jobs[j], report).status = "Completed"
    BY <1>0, <2>2 DEF ReportedRow, JobRow, Statuses, Done
  <2>4. /\ jobs' = [jobs EXCEPT ![j] = ReportedRow(jobs[j], report)]
        /\ UNCHANGED deleting
    BY <1>3 DEF UpdateJob
  <2> QED BY <1>1, <2>1, <2>3, <2>4 DEF Exists, Active
<1>4. ASSUME NEW s \in Nat, AddSegment(j, s)
      PROVE  jobs' \in [Jobs -> JobRow] /\ UNCHANGED deleting
             /\ \A k \in Jobs : Exists(k)' = Exists(k)
  <2> DEFINE row == ExtendedRow(jobs[j], s, s \in segments[j])
  <2>1. Exists(j) /\ jobs' = [jobs EXCEPT ![j] = row] /\ UNCHANGED deleting
    BY <1>4 DEF AddSegment
  <2>2. AtLeast(jobs[j].lastSeg, s) \in Nat
    BY <1>0, AtLeastIsNat DEF JobRow
  <2>3. row \in JobRow /\ row.status = jobs[j].status
    <3>1. CASE s \in segments[j]
      BY <1>0, <2>2, <3>1 DEF ExtendedRow, JobRow
    <3>2. CASE s \notin segments[j]
      <4>1. jobs[j].duration + 1 \in Nat
        BY <1>0 DEF JobRow
      <4> QED BY <1>0, <2>2, <3>2, <4>1 DEF ExtendedRow, JobRow
    <3> QED BY <3>1, <3>2
  <2> QED BY <1>1, <2>1, <2>3 DEF Exists
<1>5. CASE TouchJob(j)
  BY <1>0, <1>1, <1>5 DEF TouchJob, Exists, JobRow
<1>6. CASE AccessAges(j)
  BY <1>0, <1>1, <1>6 DEF AccessAges, Exists, JobRow
<1> QED BY <1>2, <1>3, <1>4, <1>5, <1>6

\* With the cuts left alone, rows that stay keep the families as they are, and a
\* row that is dropped or is not a sub-job's changes nothing for the others.
LEMMA FamiliesKept ==
  ASSUME Families, UNCHANGED cut, Exists(Parent) => Exists(Parent)',
         \A k \in 1 .. Len(SubIds) : Exists(SubIds[k])' => Exists(SubIds[k])
  PROVE  Families'
BY DEF Families, Ways, Splits

\* The ids of a family, and that there is one for each range asked for.
LEMMA Ids == /\ Parent \in Jobs /\ Len(SubIds) \in Nat
             /\ \A k \in 1 .. Len(SubIds) : SubIds[k] \in Jobs /\ SubIds[k] # Parent
             /\ {Player, Dog} \subseteq Callers
             /\ \A file \in Media : file.n > 1 /\ file.n <= Len(SubIds)
BY RangesAssumption
-----------------------------------------------------------------------------
(* The steps *)

\* A step that leaves file and cuts alone keeps what is known of them.
LEMMA CutsUnmoved ==
  ASSUME SplitInv, EnoughIds, UNCHANGED splitVars
  PROVE  SplitInv' /\ EnoughIds' /\ UNCHANGED cut
<1>1. SplitInv'
  BY SplitStepInv
<1>2. UNCHANGED cut
  BY DEF splitVars
<1> QED BY <1>1, <1>2 DEF EnoughIds, Splits

\* A step that leaves the cuts, the handler and the runs alone.
LEMMA OnlyRows ==
  ASSUME FamilyInv, UNCHANGED <<splitVars, play, run>>,
         jobs' \in [Jobs -> JobRow], deleting' \in [Callers -> Jobs \cup {NoCall}],
         Families'
  PROVE  FamilyInv'
<1>1. SplitInv' /\ EnoughIds' /\ UNCHANGED cut
  BY CutsUnmoved DEF FamilyInv
<1>2. Typed' /\ Busy' /\ Asking'
  BY <1>1 DEF FamilyInv, Typed, Busy, Asking, Ways, Splits
<1> QED BY <1>1, <1>2 DEF FamilyInv

\* A loop that has served i ideal cuts has made at most i.
LEMMA CuttingStep ==
  ASSUME FamilyInv, ComputeSplitPoints
  PROVE  FamilyInv'
<1>1. /\ SplitInv /\ EnoughIds /\ Typed /\ Busy /\ Families /\ play.pc = "split"
      /\ SplitNext /\ UNCHANGED <<queueVars, play, run>>
  BY DEF FamilyInv, ComputeSplitPoints
<1>2. SplitInv'
  BY <1>1, SplitStepInv
<1>3. /\ media \in Media /\ cut.i \in Nat /\ cut.splits \in Seq(Nat)
      /\ Len(cut.splits) \in Nat /\ media.n > 1 /\ media.n <= Len(SubIds)
      /\ media.n \in Nat /\ Len(SubIds) \in Nat
      /\ cut.pc = "loop" => LoopInv /\ Len(cut.splits) <= cut.i
      /\ cut.pc = "ready" => cut = NotCut /\ cut.i = 1
  BY <1>1, Ids, FileOfMedia DEF SplitInv, Cuts, EnoughIds, Splits, NotCut
<1>4. cut' \in Cuts
  BY <1>2 DEF SplitInv
<1>5. cut.pc # "done" /\ EnoughIds'
  <2>1. CASE Whole
    <3>1. cut.pc = "ready" /\ cut'.splits = <<0, media.duration>> /\ cut'.pc = "done"
      BY <1>1, <2>1 DEF Whole, SplitInv, Cuts
    <3>2. Len(cut'.splits) = 2
      BY <3>1
    <3> QED BY <1>3, <3>1, <3>2 DEF EnoughIds, Splits
  <2>2. CASE StartCutting
    <3>1. /\ cut.pc = "ready" /\ cut'.splits = <<0>> /\ cut'.pc = "loop"
          /\ cut'.i = cut.i
      BY <1>1, <2>2 DEF StartCutting, SplitInv, Cuts
    <3>2. Len(cut'.splits) = 1
      BY <3>1
    <3> QED BY <1>3, <3>1, <3>2 DEF EnoughIds, Splits
  <2>3. CASE Cut
    <3>1. /\ cut.pc = "loop" /\ cut.i < media.n /\ cut'.pc = "loop"
          /\ cut'.i = cut.i + 1
          /\ \E best : cut'.splits \in {cut.splits, Append(cut.splits, best)}
      BY <1>1, <2>3 DEF Cut, SplitInv, Cuts
    <3>2. Len(cut'.splits) <= Len(cut.splits) + 1 /\ Len(cut'.splits) \in Nat
      BY <1>3, <1>4, <3>1 DEF Cuts
    <3>3. Len(cut.splits) <= cut.i
      BY <1>3, <3>1
    <3>4. /\ cut.i \in Nat /\ Len(cut.splits) \in Nat /\ Len(SubIds) \in Nat
          /\ media.n \in Nat /\ media.n <= Len(SubIds)
      BY <1>3
    <3>5. Len(cut'.splits) <= cut'.i /\ Len(cut'.splits) - 1 <= Len(SubIds)
      BY <3>1, <3>2, <3>3, <3>4
    <3> QED BY <1>3, <3>1, <3>5 DEF EnoughIds, Splits
  <2>4. CASE LastRange
    <3>1. /\ cut.pc = "loop" /\ cut'.pc = "done"
          /\ cut'.splits = Append(cut.splits, media.duration)
      BY <1>1, <2>4 DEF LastRange, SplitInv, Cuts
    <3>2. Len(cut'.splits) = Len(cut.splits) + 1
      BY <1>3, <3>1
    <3>3. cut.i <= media.n
      BY <1>3, <3>1 DEF LoopInv
    <3> QED BY <1>3, <3>1, <3>2, <3>3 DEF EnoughIds, Splits
  <2> QED BY <1>1, <2>1, <2>2, <2>3, <2>4 DEF SplitNext
<1>6. Families'
  <2>1. \A k \in 1 .. Len(SubIds) : ~ Exists(SubIds[k])
    BY <1>1, <1>5 DEF Families
  <2>2. UNCHANGED jobs
    BY <1>1 DEF queueVars
  <2> QED BY <2>1, <2>2 DEF Families, Exists
<1>7. Typed' /\ Busy' /\ Asking'
  BY <1>1 DEF queueVars, Typed, Busy, Asking
<1> QED BY <1>2, <1>5, <1>6, <1>7 DEF FamilyInv

\* What the handler asks for brings up the parent, or a sub-job beside it.
LEMMA HandlerStep ==
  ASSUME FamilyInv, RequestPlayback \/ ProbeFails \/ EnqueueParent
                    \/ EnqueueWhole \/ EnqueueSub
  PROVE  FamilyInv'
<1>0. /\ SplitInv /\ EnoughIds /\ Typed /\ Busy /\ Asking /\ Families
      /\ jobs \in [Jobs -> JobRow]
  BY DEF FamilyInv, Typed
<1>1. UNCHANGED <<splitVars, run>>
  BY DEF RequestPlayback, ProbeFails, EnqueueParent, EnqueueWhole, EnqueueSub
<1>2. SplitInv' /\ EnoughIds' /\ UNCHANGED cut
  BY <1>0, <1>1, CutsUnmoved
<1>3. SUFFICES /\ jobs' \in [Jobs -> JobRow] /\ UNCHANGED deleting
               /\ Families' /\ Asking'
  <2>1. Typed' /\ Busy'
    BY <1>0, <1>1, <1>3 DEF Typed, Busy
  <2> QED BY <1>2, <1>3, <2>1 DEF FamilyInv
<1>4. ASSUME UNCHANGED queueVars
      PROVE  jobs' \in [Jobs -> JobRow] /\ UNCHANGED deleting /\ Families'
  <2>1. UNCHANGED <<jobs, deleting>>
    BY <1>4 DEF queueVars
  <2> QED BY <1>0, <1>2, <2>1 DEF Families, Exists, Ways, Splits
<1>5. ASSUME Enqueue(Parent, Asked(0))
      PROVE  jobs' \in [Jobs -> JobRow] /\ UNCHANGED deleting /\ Families'
  <2>1. /\ jobs' \in [Jobs -> JobRow] /\ UNCHANGED deleting
        /\ \A k \in Jobs : Exists(k)' <=> Exists(k) \/ k = Parent
    BY <1>0, <1>5, Ids, EnqueueBringsUp
  <2> QED BY <1>0, <1>2, <2>1, Ids, FamiliesKept
<1>6. CASE RequestPlayback
  BY <1>4, <1>6 DEF RequestPlayback, GoOn, Asking
<1>7. CASE ProbeFails
  BY <1>4, <1>7 DEF ProbeFails, GoOn, Asking
<1>8. CASE EnqueueParent
  <2>1. cut.pc = "done" => 1 \in Ways
    <3>1. cut.pc = "done" => Len(Splits) >= 2 /\ Splits \in Seq(Nat)
      BY <1>0 DEF SplitInv, RangesCoverMedia, Cuts, Splits
    <3> QED BY <3>1 DEF Ways
  <2>2. play'.pc = "subs" => cut.pc = "done" /\ play'.k = 1
    BY <1>8 DEF EnqueueParent, GoOn
  <2>3. Asking'
    BY <1>2, <2>1, <2>2 DEF Asking, Ways, Splits
  <2> QED BY <1>4, <1>5, <1>8, <2>3 DEF EnqueueParent, Ask, AskFails
<1>9. CASE EnqueueWhole
  BY <1>4, <1>5, <1>9 DEF EnqueueWhole, Ask, AskFails, GoOn, Asking
<1>10. CASE EnqueueSub
  <2> DEFINE i == play.k
             j == SubIds[play.k]
  <2>1. /\ cut.pc = "done" /\ i \in Ways /\ i \in 1 .. Len(SubIds)
        /\ Len(Splits) \in Nat /\ Splits \in Seq(Nat)
    <3>1. cut.pc = "done" /\ i \in Ways
      BY <1>0, <1>10 DEF EnqueueSub, Asking
    <3>2. Splits \in Seq(Nat) /\ Len(Splits) \in Nat
      BY <1>0 DEF SplitInv, Cuts, Splits
    <3> QED BY <1>0, <3>1, <3>2, Ids DEF Ways, EnoughIds
  <2>2. First(i) \in Nat
    <3>1. Splits[i] \in Nat /\ HlsTime \in Nat /\ HlsTime > 0
      BY <2>1, SplitterAssumption DEF Ways
    <3> QED BY <3>1 DEF First
  <2>3. j \in Jobs
    BY <2>1, Ids
  <2>4. Asking'
    <3>1. CASE i = Len(Splits) - 1
      BY <1>10, <3>1 DEF EnqueueSub, GoOn, Asking
    <3>2. CASE i # Len(Splits) - 1
      <4>1. i + 1 \in Ways
        BY <2>1, <3>2 DEF Ways
      <4> QED BY <1>2, <1>10, <2>1, <3>2, <4>1 DEF EnqueueSub, GoOn, Asking,
                                                 Ways, Splits
    <3> QED BY <3>1, <3>2
  <2>5. CASE UNCHANGED queueVars
    BY <1>4, <2>4, <2>5
  <2>6. CASE ParentThere /\ Enqueue(j, Asked(First(i)))
    <3>1. /\ jobs' \in [Jobs -> JobRow] /\ UNCHANGED deleting
          /\ \A k \in Jobs : Exists(k)' <=> Exists(k) \/ k = j
      BY <1>0, <2>2, <2>3, <2>6, EnqueueBringsUp
    <3>2. Exists(Parent)'
      BY <2>6, <3>1, Ids DEF ParentThere
    <3>3. ASSUME NEW k \in 1 .. Len(SubIds), Exists(SubIds[k])'
          PROVE  cut.pc = "done" /\ k \in Ways
      <4>1. CASE SubIds[k] = j
        <5>1. k = i
          BY <2>1, <4>1, RangesAssumption
        <5> QED BY <2>1, <5>1
      <4>2. CASE SubIds[k] # j
        BY <1>0, <3>1, <3>3, <4>2, Ids DEF Families
      <4> QED BY <4>1, <4>2
    <3>4. Families'
      BY <1>2, <3>2, <3>3 DEF Families, Ways, Splits
    <3> QED BY <2>4, <3>1, <3>4
  <2> QED BY <1>10, <2>5, <2>6 DEF EnqueueSub, Ask, AskFails
<1> QED BY <1>6, <1>7, <1>8, <1>9, <1>10

\* A row that goes takes the sub-jobs that refer to it with it.
LEMMA DeletingStep ==
  ASSUME FamilyInv, NEW c \in {Player, Dog}, DeleteFamily(c)
  PROVE  FamilyInv'
<1>0. /\ EnoughIds /\ Families /\ jobs \in [Jobs -> JobRow] /\ c \in Callers
      /\ deleting \in [Callers -> Jobs \cup {NoCall}]
  BY Ids DEF FamilyInv, Typed
<1>1. /\ deleting[c] \in Jobs /\ deleting' \in [Callers -> Jobs \cup {NoCall}]
      /\ UNCHANGED <<splitVars, play, run>> /\ UNCHANGED cut
  BY <1>0 DEF DeleteFamily, splitVars
<1> DEFINE rows == Family(deleting[c])
<1>2. CASE UNCHANGED jobs
  <2>1. Families'
    BY <1>0, <1>1, <1>2, FamiliesKept DEF Exists
  <2> QED BY <1>0, <1>1, <1>2, <2>1, OnlyRows
<1>3. CASE jobs' = [j \in Jobs |-> IF j \in rows THEN AbsentRow ELSE jobs[j]]
  <2>1. jobs' \in [Jobs -> JobRow]
    BY <1>0, <1>3, AbsentRowTyped
  <2>2. \A j \in Jobs : Exists(j)' <=> Exists(j) /\ j \notin rows
    <3>1. ASSUME NEW j \in Jobs, j \in rows PROVE ~ Exists(j)'
      BY <1>3, <3>1 DEF Exists, AbsentRow
    <3>2. ASSUME NEW j \in Jobs, j \notin rows PROVE Exists(j)' <=> Exists(j)
      BY <1>3, <3>2 DEF Exists
    <3> QED BY <3>1, <3>2
  <2>3. Families'
    <3>1. CASE deleting[c] = Parent
      <4>1. ASSUME NEW k \in 1 .. Len(SubIds) PROVE ~ Exists(SubIds[k])'
        <5>1. CASE k \in Ways
          <6>1. SubIds[k] \in rows
            BY <3>1, <5>1, Ids DEF Family, IsSub
          <6> QED BY <2>2, <6>1, Ids
        <5>2. CASE k \notin Ways
          BY <1>0, <2>2, <5>2, Ids DEF Families
        <5> QED BY <5>1, <5>2
      <4> QED BY <4>1 DEF Families
    <3>2. CASE deleting[c] # Parent
      <4>1. Parent \notin rows
        BY <3>2 DEF Family
      <4> QED BY <1>0, <1>1, <2>2, <4>1, Ids, FamiliesKept
    <3> QED BY <3>1, <3>2
  <2> QED BY <1>1, <2>1, <2>3, OnlyRows
<1> QED BY <1>2, <1>3 DEF DeleteFamily

\* What a claimed row asks for is a number.
LEMMA PendingIsInt ==
  ASSUME SplitInv, NEW j \in Jobs, jobs[j].startSeg \in Nat
  PROVE  Pending(j) \in Int
<1>1. /\ HlsTime \in Nat /\ HlsTime > 0 /\ media.duration \in Nat
      /\ Splits \in Seq(Nat) /\ Len(Splits) \in Nat
  BY SplitterAssumption, FileOfMedia DEF SplitInv, Cuts, Splits
<1>2. ASSUME NEW t \in Int PROVE Pieces(t) \in Int
  BY <1>1 DEF Pieces
<1>3. CASE IsSub(j)
  <2>1. Way(j) \in Ways
    BY <1>3 DEF IsSub, Way
  <2>2. Way(j) \in 1 .. Len(Splits) /\ Way(j) + 1 \in 1 .. Len(Splits)
    BY <1>1, <2>1 DEF Ways
  <2>3. Splits[Way(j)] \in Nat /\ Splits[Way(j) + 1] \in Nat
    BY <1>1, <2>2
  <2> QED BY <1>2, <1>3, <2>3 DEF Pending
<1>4. CASE ~ IsSub(j)
  <2>1. Total \in Int
    <3>1. media.duration \in Int
      BY <1>1
    <3> QED BY <1>2, <3>1 DEF Total
  <2> QED BY <1>4, <2>1 DEF Pending
<1> QED BY <1>3, <1>4

\* Workers claim, report and finish, clients touch and time passes: no row comes
\* up or goes, and who has segments left to write has a job.
LEMMA WorkingStep ==
  ASSUME FamilyInv,
         NEW w \in Workers, NEW j \in Jobs,
         Works(w) \/ Claim(w, j) \/ Watching \/ Ageing(j)
  PROVE  FamilyInv'
<1>0. /\ SplitInv /\ EnoughIds /\ Typed /\ Busy /\ Asking /\ Families
      /\ jobs \in [Jobs -> JobRow] /\ run \in [Workers -> Runs] /\ run[w] \in Runs
  BY DEF FamilyInv, Typed
<1>1. UNCHANGED <<splitVars, play>>
  BY DEF Works, Report, Finish, Lose, Claim, Watching, Ageing
<1>2. SplitInv' /\ EnoughIds' /\ UNCHANGED cut
  BY <1>0, <1>1, CutsUnmoved
<1> DEFINE Stay == /\ jobs' \in [Jobs -> JobRow] /\ UNCHANGED deleting
                   /\ \A k \in Jobs : Exists(k)' = Exists(k)
           RunsOn == \E r \in Runs : /\ run' = [run EXCEPT ![w] = r]
                                     /\ r.left > 0 => r.job \in Jobs
<1>3. ASSUME Stay, RunsOn \/ UNCHANGED run PROVE FamilyInv'
  <2>1. run' \in [Workers -> Runs] /\ Busy'
    <3>1. CASE UNCHANGED run
      BY <1>0, <3>1 DEF Busy
    <3>2. CASE RunsOn
      <4>1. PICK r \in Runs : /\ run' = [run EXCEPT ![w] = r]
                              /\ r.left > 0 => r.job \in Jobs
        BY <3>2
      <4> QED BY <1>0, <4>1 DEF Busy
    <3> QED BY <1>3, <3>1, <3>2
  <2>2. Families'
    BY <1>0, <1>2, <1>3, Ids, FamiliesKept
  <2>3. Typed' /\ Asking'
    BY <1>0, <1>1, <1>2, <1>3, <2>1 DEF Typed, Asking, Ways, Splits
  <2> QED BY <1>2, <2>1, <2>2, <2>3 DEF FamilyInv
<1>4. ASSUME run' = [run EXCEPT ![w] = NoRun] PROVE RunsOn
  <2>1. NoRun \in Runs /\ (NoRun.left > 0 => NoRun.job \in Jobs)
    BY DEF NoRun, Runs
  <2> QED BY <1>4, <2>1
<1>5. ASSUME UNCHANGED queueVars PROVE Stay
  BY <1>0, <1>5 DEF queueVars, Exists
<1>6. CASE Claim(w, j)
  <2>1. Stay
    BY <1>0, <1>6, RowsStay DEF Claim
  <2>2. Pending(j) \in Int /\ jobs[j].startSeg \in Nat
    BY <1>0, PendingIsInt DEF JobRow
  <2>3. RunsOn
    <3> DEFINE r == [job |-> j, next |-> jobs[j].startSeg, left |-> Pending(j)]
    <3>1. r \in Runs /\ r.job \in Jobs /\ run' = [run EXCEPT ![w] = r]
      BY <1>6, <2>2 DEF Claim, Runs
    <3> QED BY <3>1
  <2> QED BY <1>3, <2>1, <2>3
<1>7. CASE Report(w)
  <2>1. run[w].left > 0 /\ run[w].job \in Jobs /\ run[w].next \in Nat
        /\ run[w].left \in Int
    BY <1>0, <1>7 DEF Report, Busy, Runs
  <2>2. ReportedUnder(run[w].job) \in Jobs
    BY <2>1, Ids DEF ReportedUnder
  <2>3. Stay
    BY <1>0, <1>5, <1>7, <2>1, <2>2, RowsStay DEF Report
  <2>4. RunsOn
    <3> DEFINE r == [run[w] EXCEPT !.next = @ + 1, !.left = @ - 1]
    <3>1. r \in Runs /\ r.job \in Jobs
      <4>1. run[w].next + 1 \in Nat /\ run[w].left - 1 \in Int
        BY <2>1
      <4> QED BY <1>0, <2>1, <4>1 DEF Runs
    <3>2. run' = [run EXCEPT ![w] = r]
      BY <1>0, <1>7 DEF Report
    <3> QED BY <3>1, <3>2
  <2> QED BY <1>3, <2>3, <2>4
<1>8. CASE Finish(w)
  <2>1. run[w].job \in Jobs /\ run' = [run EXCEPT ![w] = NoRun]
    BY <1>0, <1>8 DEF Finish, Runs
  <2>2. Stay
    BY <1>0, <1>5, <1>8, <2>1, RowsStay DEF Finish, Done
  <2>3. RunsOn
    BY <1>4, <2>1
  <2> QED BY <1>3, <2>2, <2>3
<1>9. CASE Lose(w)
  <2>1. RunsOn
    BY <1>4, <1>9 DEF Lose
  <2>2. Stay
    BY <1>5, <1>9 DEF Lose
  <2> QED BY <1>3, <2>1, <2>2
<1>10. CASE Watching
  <2>1. Stay
    BY <1>0, <1>10, Ids, RowsStay DEF Watching
  <2> QED BY <1>3, <1>10, <2>1 DEF Watching
<1>11. CASE Ageing(j)
  <2>1. Stay
    BY <1>0, <1>11, RowsStay DEF Ageing
  <2> QED BY <1>3, <1>11, <2>1 DEF Ageing
<1> QED BY <1>6, <1>7, <1>8, <1>9, <1>10, <1>11 DEF Works

\* Every step of the deployment keeps the invariant of the families.
LEMMA FamilyStep ==
  ASSUME FamilyInv, [RangesNext]_rangesVars
  PROVE  FamilyInv'
<1>0. Families /\ jobs \in [Jobs -> JobRow]
      /\ deleting \in [Callers -> Jobs \cup {NoCall}]
  BY DEF FamilyInv, Typed
<1>1. ASSUME NEW c \in {Player, Dog}, NEW j \in Jobs, DeleteSegments(c, j),
             UNCHANGED <<splitVars, play, run>>
      PROVE  FamilyInv'
  <2>1. UNCHANGED jobs /\ deleting' \in [Callers -> Jobs \cup {NoCall}]
    BY <1>0, <1>1, Ids DEF DeleteSegments
  <2>2. Families'
    BY <1>0, <1>1, <2>1, FamiliesKept DEF splitVars, Exists
  <2> QED BY <1>0, <1>1, <2>1, <2>2, OnlyRows
<1>2. CASE RequestStop
  BY <1>1, <1>2, Ids DEF RequestStop
<1>3. CASE Reap
  BY <1>1, <1>3 DEF Reap
<1>4. CASE RequestPlayback \/ Handling
  BY <1>4, CuttingStep, HandlerStep DEF Handling
<1>5. CASE \E c \in {Player, Dog} : DeleteFamily(c)
  BY <1>5, DeletingStep
<1>6. CASE \E w \in Workers : Works(w) \/ \E j \in Jobs : Claim(w, j)
  BY <1>6, Ids, WorkingStep
<1>7. CASE Watching \/ \E j \in Jobs : Ageing(j)
  <2>1. UNCHANGED <<splitVars, play, run>>
    BY <1>7 DEF Watching, Ageing
  <2>2. /\ jobs' \in [Jobs -> JobRow] /\ UNCHANGED deleting
        /\ \A k \in Jobs : Exists(k)' = Exists(k)
    BY <1>0, <1>7, Ids, RowsStay DEF Watching, Ageing
  <2>3. Families'
    BY <1>0, <2>1, <2>2, Ids, FamiliesKept DEF splitVars
  <2> QED BY <1>0, <2>1, <2>2, <2>3, OnlyRows
<1>8. CASE UNCHANGED rangesVars
  <2>1. UNCHANGED <<splitVars, play, run>> /\ UNCHANGED <<jobs, deleting>>
    BY <1>8 DEF rangesVars, splitVars
  <2>2. Families'
    BY <1>0, <2>1, FamiliesKept DEF splitVars, Exists
  <2> QED BY <1>0, <2>1, <2>2, OnlyRows
<1> QED BY <1>2, <1>3, <1>4, <1>5, <1>6, <1>7, <1>8 DEF RangesNext

\* It holds of the empty tables.
LEMMA FamilyInit == RangesInit => FamilyInv
<1> SUFFICES ASSUME RangesInit PROVE FamilyInv
  OBVIOUS
<1>1. SplitInv /\ cut = NotCut
  BY SplitInitInv DEF RangesInit, SplitInit
<1>2. EnoughIds
  BY <1>1, Ids DEF EnoughIds, Splits, NotCut
<1>3. Typed /\ Busy
  BY AbsentRowTyped DEF RangesInit, QueueInit, Typed, Busy, NoRun, Runs
<1>4. Asking
  BY DEF RangesInit, Asking
<1>5. Families
  BY Ids DEF RangesInit, QueueInit, Families, Exists, AbsentRow
<1> QED BY <1>1, <1>2, <1>3, <1>4, <1>5 DEF FamilyInv

\* Whatever is deleted or refused while SplitAndEnqueue goes from row to row, no
\* sub-job is left, or comes up, without its parent (splitter.go:170-203 and the
\* cascade of job_queue.go:73).
THEOREM NoOrphans == RangesSpec => []SubJobsHaveParent
<1>1. FamilyInv => SubJobsHaveParent
  <2> SUFFICES ASSUME FamilyInv, NEW j \in Jobs, IsSub(j), Exists(j)
               PROVE  Exists(Parent)
    BY DEF SubJobsHaveParent
  <2>1. PICK k \in Ways : SubIds[k] = j
    BY DEF IsSub
  <2>2. k \in 1 .. Len(SubIds)
    <3>1. Splits \in Seq(Nat) /\ Len(Splits) \in Nat
      BY DEF FamilyInv, SplitInv, Cuts, Splits
    <3> QED BY <2>1, <3>1, Ids DEF FamilyInv, EnoughIds, Ways
  <2> QED BY <2>1, <2>2 DEF FamilyInv, Families
<1> QED BY <1>1, FamilyInit, FamilyStep, PTL DEF RangesSpec

\* The ranges that a running deployment cuts cover the media, too.
THEOREM DeployedRangesCover == RangesSpec => []RangesCoverMedia
<1>1. FamilyInv => RangesCoverMedia
  BY DEF FamilyInv, SplitInv
<1> QED BY <1>1, FamilyInit, FamilyStep, PTL DEF RangesSpec
-----------------------------------------------------------------------------
(* The numbers of the segments *)

\* A factor common to both sides of a strict comparison can be dropped.
LEMMA CancelLess ==
  ASSUME NEW h \in Nat, NEW x \in Int, NEW y \in Int, h * x < h * y
  PROVE  x < y
<1>1. ASSUME x >= y PROVE FALSE
  <2>1. PICK d \in Nat : x = y + d
    <3>1. x - y \in Nat /\ x = y + (x - y)
      BY <1>1
    <3> QED BY <3>1
  <2>2. h * x = h * y + h * d /\ h * d \in Nat /\ h * y \in Int
    BY <2>1
  <2> QED BY <2>2
<1> QED BY <1>1

\* Rounding up and rounding down, by the segment time.
LEMMA Rounding ==
  ASSUME NEW t \in Nat
  PROVE  /\ Pieces(t) \in Nat /\ t <= HlsTime * Pieces(t)
         /\ HlsTime * Pieces(t) < t + HlsTime
         /\ t \div HlsTime \in Nat /\ HlsTime * (t \div HlsTime) <= t
         /\ t < HlsTime * (t \div HlsTime) + HlsTime
<1>1. HlsTime \in Nat /\ HlsTime > 0
  BY SplitterAssumption
<1>2. ASSUME NEW a \in Nat
      PROVE  /\ a \div HlsTime \in Nat /\ HlsTime * (a \div HlsTime) <= a
             /\ a < HlsTime * (a \div HlsTime) + HlsTime
  BY <1>1
<1> DEFINE u == t + HlsTime - 1
<1>3. u \in Nat
  BY <1>1
<1>4. /\ u \div HlsTime \in Nat /\ HlsTime * (u \div HlsTime) <= u
      /\ u < HlsTime * (u \div HlsTime) + HlsTime
  BY <1>2, <1>3
<1>5. Pieces(t) = u \div HlsTime
  BY DEF Pieces
<1>6. HlsTime * (u \div HlsTime) \in Nat
  BY <1>1, <1>4
<1>7. t <= HlsTime * Pieces(t) /\ HlsTime * Pieces(t) < t + HlsTime
  BY <1>1, <1>4, <1>5, <1>6
<1> QED BY <1>2, <1>4, <1>5, <1>7

\* A range that is numbered from where its start falls ends where its end falls,
\* or one later, and not after the last segment of the file up to there.
LEMMA RangeEnds ==
  ASSUME NEW s \in Nat, NEW t \in Nat, s <= t
  PROVE  LET end == s \div HlsTime + Pieces(t - s) IN
           /\ end \in Nat
           /\ t \div HlsTime <= end /\ end <= t \div HlsTime + 1
           /\ end <= Pieces(t) /\ Pieces(t) <= end + 1
<1> DEFINE h == HlsTime
           a == s \div h
           b == t \div h
           p == Pieces(t - s)
           q == Pieces(t)
<1>1. h \in Nat /\ h > 0 /\ t - s \in Nat
  BY SplitterAssumption
<1>2. a \in Nat /\ h * a <= s /\ s < h * a + h
  BY Rounding
<1>3. b \in Nat /\ h * b <= t /\ t < h * b + h
  BY Rounding
<1>4. p \in Nat /\ t - s <= h * p /\ h * p < t - s + h
  BY <1>1, Rounding
<1>5. q \in Nat /\ t <= h * q /\ h * q < t + h
  BY Rounding
<1> HIDE DEF h, a, b, p, q
<1>6. /\ h * (a + p) = h * a + h * p
      /\ h * (b - 1) = h * b - h /\ h * (b + 2) = h * b + h + h
      /\ h * (q + 1) = h * q + h /\ h * (a + p + 2) = h * a + h * p + h + h
  BY <1>1, <1>2, <1>3, <1>4, <1>5
<1>7. h * a \in Nat /\ h * b \in Nat /\ h * p \in Nat /\ h * q \in Nat
  BY <1>1, <1>2, <1>3, <1>4, <1>5
<1>8. /\ h * (b - 1) < h * (a + p) /\ h * (a + p) < h * (b + 2)
      /\ h * (a + p) < h * (q + 1) /\ h * q < h * (a + p + 2)
  BY <1>1, <1>2, <1>3, <1>4, <1>5, <1>6, <1>7
<1>9. b - 1 < a + p /\ a + p < b + 2 /\ a + p < q + 1 /\ q < a + p + 2
  <2>1. /\ b - 1 \in Int /\ a + p \in Int /\ b + 2 \in Int /\ q + 1 \in Int
        /\ q \in Int /\ a + p + 2 \in Int
    BY <1>2, <1>3, <1>4, <1>5
  <2> QED BY <1>1, <1>8, <2>1, CancelLess
<1>10. a + p \in Nat /\ b <= a + p /\ a + p <= b + 1 /\ a + p <= q /\ q <= a + p + 1
  BY <1>2, <1>3, <1>4, <1>5, <1>9
<1> QED BY <1>10 DEF h, a, b, p, q

\* The range that ends with the file ends with the file's last number, or, if it
\* begins as far or further into its segment than the file ends, one before it.
LEMMA LastRangeEnds ==
  ASSUME NEW s \in Nat, NEW t \in Nat, s <= t
  PROVE  s \div HlsTime + Pieces(t - s) =
           IF 0 < t % HlsTime /\ t % HlsTime <= s % HlsTime
             THEN Pieces(t) - 1 ELSE Pieces(t)
<1> DEFINE h == HlsTime
           a == s \div h
           r == s % h
           b == t \div h
           e == t % h
           p == Pieces(t - s)
           q == Pieces(t)
<1>1. h \in Nat /\ h > 0 /\ t - s \in Nat
  BY SplitterAssumption
<1>2. ASSUME NEW x \in Nat
      PROVE  /\ x \div h \in Nat /\ x % h \in Nat
             /\ x = h * (x \div h) + (x % h) /\ x % h < h
  BY <1>1
<1>3. a \in Nat /\ r \in Nat /\ s = h * a + r /\ r < h
  BY <1>2
<1>4. b \in Nat /\ e \in Nat /\ t = h * b + e /\ e < h
  BY <1>2
<1>5. p \in Nat /\ t - s <= h * p /\ h * p < t - s + h
  BY <1>1, Rounding
<1>6. q \in Nat /\ t <= h * q /\ h * q < t + h
  BY Rounding
<1> HIDE DEF h, a, r, b, e, p, q
<1>7. /\ h * (a + p) = h * a + h * p
      /\ h * (b - 1) = h * b - h /\ h * (b + 1) = h * b + h
      /\ h * (b + 2) = h * b + h + h
      /\ h * a \in Nat /\ h * b \in Nat /\ h * p \in Nat /\ h * q \in Nat
  BY <1>1, <1>3, <1>4, <1>5, <1>6
<1>8. /\ a + p \in Int /\ b \in Int /\ b - 1 \in Int /\ b + 1 \in Int
      /\ b + 2 \in Int /\ q \in Int
  BY <1>3, <1>4, <1>5, <1>6
<1>9. h * (b - 1) < h * (a + p) /\ h * (a + p) < h * (b + 2)
  BY <1>1, <1>3, <1>4, <1>5, <1>7
<1>10. b - 1 < a + p /\ a + p < b + 2
  BY <1>1, <1>8, <1>9, CancelLess
<1>11. ASSUME e > r PROVE a + p = b + 1
  <2>1. h * b < h * (a + p)
    BY <1>1, <1>3, <1>4, <1>5, <1>7, <1>11
  <2>2. b < a + p
    BY <1>1, <1>8, <2>1, CancelLess
  <2> QED BY <1>8, <1>10, <2>2
<1>12. ASSUME e <= r PROVE a + p = b
  <2>1. h * (a + p) < h * (b + 1)
    BY <1>1, <1>3, <1>4, <1>5, <1>7, <1>12
  <2>2. a + p < b + 1
    BY <1>1, <1>8, <2>1, CancelLess
  <2> QED BY <1>8, <1>10, <2>2
<1>13. h * (b - 1) < h * q /\ h * q < h * (b + 2)
  BY <1>1, <1>4, <1>6, <1>7
<1>14. b - 1 < q /\ q < b + 2
  BY <1>1, <1>8, <1>13, CancelLess
<1>15. ASSUME e > 0 PROVE q = b + 1
  <2>1. h * b < h * q
    BY <1>1, <1>4, <1>6, <1>7, <1>15
  <2>2. b < q
    BY <1>1, <1>8, <2>1, CancelLess
  <2> QED BY <1>8, <1>14, <2>2
<1>16. ASSUME e = 0 PROVE q = b
  <2>1. h * q < h * (b + 1)
    BY <1>1, <1>4, <1>6, <1>7, <1>16
  <2>2. q < b + 1
    BY <1>1, <1>8, <2>1, CancelLess
  <2> QED BY <1>8, <1>14, <2>2
<1>17. a + p = IF 0 < e /\ e <= r THEN q - 1 ELSE q
  <2>1. e > r \/ e <= r
    BY <1>3, <1>4
  <2>2. e > 0 \/ e = 0
    BY <1>4
  <2>3. e > r => e > 0
    BY <1>3, <1>4
  <2> QED BY <1>3, <1>4, <1>8, <1>11, <1>12, <1>15, <1>16, <2>1, <2>2, <2>3
<1> QED BY <1>17 DEF h, a, r, b, e, p, q

\* Media that is two segments shorter makes at least two segments less.
LEMMA FewerPieces ==
  ASSUME NEW s \in Nat, NEW t \in Nat
  PROVE  /\ s <= t => Pieces(s) <= Pieces(t)
         /\ s + 2 * HlsTime <= t => Pieces(s) + 1 <= Pieces(t) - 1
<1> DEFINE h == HlsTime
           p == Pieces(s)
           q == Pieces(t)
<1>1. /\ h \in Nat /\ h > 0
      /\ p \in Nat /\ s <= h * p /\ h * p < s + h
      /\ q \in Nat /\ t <= h * q /\ h * q < t + h
  BY SplitterAssumption, Rounding
<1> HIDE DEF h, p, q
<1>2. /\ h * (q + 1) = h * q + h /\ h * (q - 1) = h * q - h
      /\ h * p \in Nat /\ h * q \in Nat
  BY <1>1
<1>3. ASSUME s <= t PROVE p <= q
  <2>1. h * p < h * (q + 1)
    BY <1>1, <1>2, <1>3
  <2>2. p < q + 1
    BY <1>1, <2>1, CancelLess
  <2> QED BY <1>1, <2>2
<1>4. ASSUME s + 2 * h <= t PROVE p + 1 <= q - 1
  <2>1. h * p < h * (q - 1)
    BY <1>1, <1>2, <1>4
  <2>2. p < q - 1
    BY <1>1, <2>1, CancelLess
  <2> QED BY <1>1, <2>2
<1> QED BY <1>3, <1>4 DEF h, p, q

\* Spaced cuts increase.
LEMMA Increasing ==
  ASSUME NEW s \in Seq(Nat), Spaced(s), NEW a \in 1 .. Len(s),
         NEW b \in 1 .. Len(s), a <= b
  PROVE  s[a] <= s[b]
<1> DEFINE Below == {x \in Nat : x \in a .. Len(s) /\ s[x] < s[a]}
<1>0. Len(s) \in Nat /\ a \in Nat /\ b \in Nat /\ \A x \in 1 .. Len(s) : s[x] \in Nat
  OBVIOUS
<1>1. CASE Below = {}
  <2>1. b \in a .. Len(s) /\ b \in Nat /\ s[b] \in Nat /\ s[a] \in Nat
    BY <1>0
  <2>2. ~ s[b] < s[a]
    BY <1>1, <2>1
  <2> QED BY <2>1, <2>2
<1>2. CASE Below # {}
  <2>1. PICK x \in Below : \A y \in Below : x <= y
    BY <1>2, LeastNumber
  <2>2. x \in Nat /\ x \in a .. Len(s) /\ s[x] < s[a] /\ x # a
    BY <1>0, <2>1
  <2>3. x - 1 \in 1 .. Len(s) - 1 /\ x - 1 \in a .. Len(s) /\ (x - 1) + 1 = x
    BY <1>0, <2>2
  <2>4. s[x - 1] + 2 * HlsTime <= s[x]
    BY <2>3 DEF Spaced
  <2>5. s[x - 1] \in Nat /\ s[x] \in Nat /\ s[a] \in Nat /\ HlsTime \in Nat
    BY <1>0, <2>2, <2>3, SplitterAssumption
  <2>6. s[x - 1] < s[a]
    <3>1. ASSUME NEW u \in Nat, NEW v \in Nat, NEW t \in Nat, u + 2 * HlsTime <= v, v < t
          PROVE  u < t
      BY <2>5, <3>1
    <3> QED BY <2>2, <2>4, <2>5, <3>1
  <2>7. x - 1 \in Below
    BY <2>2, <2>3, <2>6
  <2> QED BY <2>1, <2>2, <2>7
<1> QED BY <1>1, <1>2

LastWay == Len(Splits) - 1

\* One past the number of a range's last segment.
PastLast(k) == First(k) + Pieces(Splits[k + 1] - Splits[k])

\* The ranges of a file that has been cut.
LEMMA WaysCut ==
  ASSUME SplitInv, cut.pc = "done"
  PROVE  /\ Splits \in Seq(Nat) /\ LastWay \in Nat /\ LastWay >= 1
         /\ Ways = 1 .. LastWay /\ Splits[1] = 0
         /\ media.duration \in Nat /\ Splits[LastWay + 1] = media.duration
         /\ \A k \in Ways : /\ Splits[k] \in Nat /\ Splits[k + 1] \in Nat
                             /\ Splits[k] <= Splits[k + 1]
         /\ \A a, b \in Ways : a < b => /\ Splits[a] + 2 * HlsTime <= Splits[a + 1]
                                       /\ Splits[a + 1] <= Splits[b]
                                       /\ Splits[b] + 2 * HlsTime <= Splits[b + 1]
                                       /\ Splits[b + 1] <= media.duration
<1>1. /\ Splits \in Seq(Nat) /\ Len(Splits) \in Nat /\ media.duration \in Nat
      /\ HlsTime \in Nat /\ RangesCoverMedia
  BY FileOfMedia, SplitterAssumption DEF SplitInv, Cuts, Splits
<1>2. /\ Len(Splits) >= 2 /\ Splits[1] = 0 /\ Splits[Len(Splits)] = media.duration
      /\ Len(Splits) > 2 => Spaced(Splits)
  BY <1>1 DEF RangesCoverMedia, Last, Spaced
<1>3. /\ LastWay \in Nat /\ LastWay >= 1 /\ Ways = 1 .. LastWay
      /\ LastWay + 1 = Len(Splits)
  BY <1>1, <1>2 DEF LastWay, Ways
<1>4. \A k \in 1 .. Len(Splits) : Splits[k] \in Nat
  BY <1>1
<1>5. \A k \in Ways : k \in 1 .. Len(Splits) /\ k + 1 \in 1 .. Len(Splits)
  BY <1>3
<1>6. ASSUME NEW k \in Ways PROVE Splits[k] <= Splits[k + 1]
  <2>1. CASE Len(Splits) = 2
    <3>1. k = 1 /\ k + 1 = 2
      BY <1>3, <2>1
    <3> QED BY <1>1, <1>2, <2>1, <3>1
  <2>2. CASE Len(Splits) > 2
    <3>1. k <= k + 1
      BY <1>3
    <3> QED BY <1>1, <1>2, <1>5, <2>2, <3>1, Increasing
  <2>3. Len(Splits) = 2 \/ Len(Splits) > 2
    <3>1. Len(Splits) \in Nat /\ Len(Splits) >= 2
      BY <1>1, <1>2
    <3>2. \A n \in Nat : n >= 2 => n = 2 \/ n > 2
      OBVIOUS
    <3> QED BY <3>1, <3>2
  <2> QED BY <2>1, <2>2, <2>3
<1>7. ASSUME NEW a \in Ways, NEW b \in Ways, a < b
      PROVE  /\ Splits[a] + 2 * HlsTime <= Splits[a + 1]
             /\ Splits[a + 1] <= Splits[b]
             /\ Splits[b] + 2 * HlsTime <= Splits[b + 1]
             /\ Splits[b + 1] <= media.duration
  <2>1. Spaced(Splits)
    BY <1>1, <1>2, <1>3, <1>7
  <2>2. a + 1 \in 1 .. Len(Splits) /\ b \in 1 .. Len(Splits) /\ a + 1 <= b
        /\ b + 1 \in 1 .. Len(Splits) /\ Len(Splits) \in 1 .. Len(Splits)
        /\ b + 1 <= Len(Splits)
    BY <1>1, <1>2, <1>3, <1>7
  <2>3. Splits[a + 1] <= Splits[b] /\ Splits[b + 1] <= Splits[Len(Splits)]
    BY <1>1, <2>1, <2>2, Increasing
  <2>4. a \in 1 .. Len(Splits) - 1 /\ b \in 1 .. Len(Splits) - 1
    BY <1>3
  <2> QED BY <1>2, <2>1, <2>3, <2>4 DEF Spaced
<1> QED BY <1>1, <1>2, <1>3, <1>4, <1>5, <1>6, <1>7

\* Where the ranges begin and end, in numbers of segments.
LEMMA WaysNumbered ==
  ASSUME SplitInv, cut.pc = "done"
  PROVE  /\ Total \in Nat /\ First(1) = 0
         /\ \A k \in Ways :
              /\ First(k) \in Nat /\ PastLast(k) \in Nat /\ First(k + 1) \in Nat
              /\ First(k + 1) <= PastLast(k) /\ PastLast(k) <= First(k + 1) + 1
              /\ Pieces(Splits[k + 1] - Splits[k]) \in Nat
              /\ PastLast(k) <= Total
              /\ k < LastWay => PastLast(k) <= Total - 1
         /\ Total <= PastLast(LastWay) + 1
         /\ \A a, b \in Ways : a < b => /\ First(a + 1) <= First(b)
                                       /\ (a + 1 < b => First(a + 1) + 1 <= First(b))
<1>1. /\ LastWay \in Nat /\ LastWay >= 1 /\ Ways = 1 .. LastWay
      /\ media.duration \in Nat /\ HlsTime \in Nat /\ HlsTime > 0
  BY WaysCut, SplitterAssumption
<1>2. Total \in Nat
  BY <1>1, Rounding DEF Total
<1>3. First(1) = 0
  <2>1. 0 \div HlsTime \in Nat /\ HlsTime * (0 \div HlsTime) <= 0
    BY Rounding
  <2>2. HlsTime * (0 \div HlsTime) < HlsTime * 1
    BY <1>1, <2>1
  <2>3. 0 \div HlsTime < 1
    BY <1>1, <2>1, <2>2, CancelLess
  <2> QED BY <2>1, <2>3, WaysCut DEF First
<1>4. ASSUME NEW k \in Ways
      PROVE  /\ First(k) \in Nat /\ PastLast(k) \in Nat /\ First(k + 1) \in Nat
             /\ First(k + 1) <= PastLast(k) /\ PastLast(k) <= First(k + 1) + 1
             /\ Pieces(Splits[k + 1] - Splits[k]) \in Nat
             /\ PastLast(k) <= Pieces(Splits[k + 1])
             /\ Pieces(Splits[k + 1]) <= PastLast(k) + 1
             /\ Pieces(Splits[k + 1]) \in Nat
  <2>1. Splits[k] \in Nat /\ Splits[k + 1] \in Nat /\ Splits[k] <= Splits[k + 1]
    BY WaysCut
  <2>2. ASSUME NEW a \in Nat, NEW b \in Nat, a <= b PROVE b - a \in Nat
    BY <2>2
  <2>3. Splits[k + 1] - Splits[k] \in Nat
    BY <2>1, <2>2
  <2> QED BY <2>1, <2>3, Rounding, RangeEnds DEF First, PastLast
<1>5. ASSUME NEW k \in Ways, k < LastWay PROVE PastLast(k) <= Total - 1
  <2>1. LastWay \in Ways /\ k + 1 <= LastWay
    BY <1>1, <1>5
  <2>2. /\ Splits[k + 1] <= Splits[LastWay] /\ Splits[k + 1] \in Nat
        /\ Splits[LastWay] + 2 * HlsTime <= media.duration
        /\ Splits[LastWay] \in Nat
    BY <1>5, <2>1, WaysCut
  <2>3. Splits[k + 1] + 2 * HlsTime <= media.duration
    BY <1>1, <2>2
  <2>4. Pieces(Splits[k + 1]) + 1 <= Total - 1
    BY <1>1, <2>2, <2>3, FewerPieces DEF Total
  <2> QED BY <1>2, <1>4, <2>4
<1>6. LastWay \in Ways /\ Pieces(Splits[LastWay + 1]) = Total
  BY <1>1, WaysCut DEF Total
<1>7. ASSUME NEW a \in Ways, NEW b \in Ways, a < b
      PROVE  First(a + 1) <= First(b) /\ (a + 1 < b => First(a + 1) + 1 <= First(b))
  <2>1. /\ Splits[a + 1] \in Nat /\ Splits[b] \in Nat /\ Splits[a + 1] <= Splits[b]
    BY <1>7, WaysCut
  <2>2. ASSUME NEW s \in Nat, NEW t \in Nat, NEW d \in {0, HlsTime}, s + d <= t
        PROVE  /\ s \div HlsTime <= t \div HlsTime
               /\ d = HlsTime => s \div HlsTime + 1 <= t \div HlsTime
    <3> DEFINE h == HlsTime
               x == s \div h
               y == t \div h
    <3>0. x \in Nat /\ h * x <= s /\ y \in Nat /\ t < h * y + h
      BY Rounding
    <3>1. /\ x \in Nat /\ h * x <= s /\ y \in Nat /\ t < h * y + h
          /\ h \in Nat /\ h > 0 /\ d \in Nat /\ s + d <= t
      BY <1>1, <2>2, <3>0
    <3> HIDE DEF h, x, y
    <3>2. h * (y + 1) = h * y + h /\ h * x \in Nat /\ h * y \in Nat
      BY <3>1
    <3>3. h * x < h * (y + 1)
      BY <3>1, <3>2
    <3>4. x < y + 1
      BY <3>1, <3>3, CancelLess
    <3>5. ASSUME d = h PROVE x < y
      <4>1. h * x < h * y
        BY <3>1, <3>2, <3>5
      <4> QED BY <3>1, <4>1, CancelLess
    <3> QED BY <3>1, <3>4, <3>5 DEF h, x, y
  <2>3. First(a + 1) <= First(b)
    <3>1. 0 \in {0, HlsTime} /\ Splits[a + 1] + 0 <= Splits[b]
      BY <2>1
    <3> QED BY <2>1, <2>2, <3>1 DEF First
  <2>4. ASSUME a + 1 < b PROVE First(a + 1) + 1 <= First(b)
    <3>1. a + 1 \in Ways /\ (a + 1) + 1 <= b
      BY <1>1, <2>4
    <3>2. /\ Splits[a + 1] + 2 * HlsTime <= Splits[(a + 1) + 1]
          /\ Splits[(a + 1) + 1] <= Splits[b] /\ Splits[(a + 1) + 1] \in Nat
      BY <2>4, <3>1, WaysCut
    <3>3. Splits[a + 1] + HlsTime <= Splits[b]
      BY <1>1, <2>1, <3>2
    <3> QED BY <2>1, <2>2, <3>3 DEF First
  <2> QED BY <2>3, <2>4
<1>8. \A k \in Ways : PastLast(k) <= Total
  <2>1. \A k \in Ways : k < LastWay \/ k = LastWay
    BY <1>1
  <2> QED BY <1>2, <1>4, <1>5, <1>6, <2>1
<1> QED BY <1>2, <1>3, <1>4, <1>5, <1>6, <1>7, <1>8

\* The property of the numbers follows from the cuts alone: the last range to
\* begin at or before a number ends after it, as the next begins where it ends.
LEMMA RangesLeaveNoneOut == ASSUME SplitInv PROVE NumbersCovered
<1> SUFFICES ASSUME cut.pc = "done"
             PROVE  /\ UNION {Numbers(k) : k \in Ways}
                          = 0 .. Total - (IF LastUncounted THEN 2 ELSE 1)
                    /\ \A a, b \in Ways : a < b =>
                         Numbers(a) \cap Numbers(b)
                           \subseteq IF b = a + 1 THEN {First(b)} ELSE {}
  BY DEF NumbersCovered
<1> DEFINE past == PastLast(LastWay)
           all == UNION {Numbers(k) : k \in Ways}
<1>0. /\ LastWay \in Nat /\ LastWay >= 1 /\ Ways = 1 .. LastWay /\ LastWay \in Ways
  BY WaysCut
<1>1. /\ Total \in Nat /\ past \in Nat /\ past <= Total /\ Total <= past + 1
  BY <1>0, WaysNumbered
<1>2. ASSUME NEW k \in Ways PROVE Numbers(k) = First(k) .. PastLast(k) - 1
  <2>1. First(k) \in Nat /\ Pieces(Splits[k + 1] - Splits[k]) \in Nat
    BY WaysNumbered
  <2> QED BY <2>1 DEF Numbers, PastLast
<1>3. ASSUME NEW k \in Ways PROVE Numbers(k) \subseteq 0 .. past - 1
  <2>1. First(k) \in Nat /\ PastLast(k) \in Nat
    BY WaysNumbered
  <2>2. k = LastWay \/ k < LastWay
    BY <1>0
  <2>3. PastLast(k) <= past
    BY <1>1, <2>1, <2>2, WaysNumbered
  <2> QED BY <1>1, <1>2, <2>1, <2>3
<1>4. ASSUME NEW x \in 0 .. past - 1 PROVE \E k \in Ways : x \in Numbers(k)
  <2> DEFINE Until == {k \in Nat : k \in Ways /\ x < PastLast(k)}
  <2>1. LastWay \in Until
    BY <1>0, <1>1
  <2>2. PICK k \in Until : \A l \in Until : k <= l
    BY <2>1, LeastNumber
  <2>3. k \in Ways /\ x < PastLast(k) /\ k \in Nat /\ First(k) \in Nat
        /\ PastLast(k) \in Nat
    BY <2>2, WaysNumbered
  <2>4. First(k) <= x
    <3>1. CASE k = 1
      BY <1>1, <3>1, WaysNumbered
    <3>2. CASE k # 1
      <4>1. k - 1 \in Ways /\ k - 1 \in Nat /\ (k - 1) + 1 = k /\ ~ k <= k - 1
        BY <1>0, <2>3, <3>2
      <4>2. ~ x < PastLast(k - 1)
        BY <2>2, <4>1
      <4>3. First(k) <= PastLast(k - 1) /\ PastLast(k - 1) \in Nat
        BY <4>1, WaysNumbered
      <4> QED BY <1>1, <2>3, <4>2, <4>3
    <3> QED BY <3>1, <3>2
  <2> QED BY <1>1, <1>2, <2>3, <2>4
<1>5. all = 0 .. past - 1
  BY <1>3, <1>4
<1>6. past = IF LastUncounted THEN Total - 1 ELSE Total
  <2>1. /\ Splits[LastWay] \in Nat /\ media.duration \in Nat
        /\ Splits[LastWay] <= media.duration
        /\ Splits[LastWay + 1] = media.duration
    BY <1>0, WaysCut
  <2>2. past = Splits[LastWay] \div HlsTime
                 + Pieces(media.duration - Splits[LastWay])
    BY <2>1 DEF PastLast, First
  <2> QED BY <2>1, <2>2, LastRangeEnds DEF LastUncounted, LastWay, Total
<1>7. all = 0 .. Total - (IF LastUncounted THEN 2 ELSE 1)
  <2>1. CASE LastUncounted
    <3>1. past - 1 = Total - 2
      BY <1>1, <1>6, <2>1
    <3> QED BY <1>5, <2>1, <3>1
  <2>2. CASE ~ LastUncounted
    BY <1>5, <1>6, <2>2
  <2> QED BY <2>1, <2>2
<1>8. ASSUME NEW a \in Ways, NEW b \in Ways, a < b,
             NEW x \in Numbers(a), x \in Numbers(b)
      PROVE  b = a + 1 /\ x = First(b)
  <2>1. /\ First(a) \in Nat /\ PastLast(a) \in Nat /\ First(b) \in Nat
        /\ PastLast(b) \in Nat /\ First(a + 1) \in Nat
        /\ PastLast(a) <= First(a + 1) + 1
        /\ First(a + 1) <= First(b)
        /\ (a + 1 < b => First(a + 1) + 1 <= First(b))
    BY <1>8, WaysNumbered
  <2>2. x \in Int /\ First(b) <= x /\ x <= PastLast(a) - 1
    BY <1>2, <1>8, <2>1
  <2>3. ~ a + 1 < b
    BY <2>1, <2>2
  <2>4. b = a + 1
    BY <1>0, <1>8, <2>3
  <2> QED BY <2>1, <2>2, <2>4
<1> HIDE DEF all
<1> QED BY <1>7, <1>8 DEF all
-----------------------------------------------------------------------------
(* Types, and what is asked for *)

\* A row of the family asks for where its range, or the file, begins.
RowsAsked ==
  \A j \in Jobs : Exists(j) =>
    \/ j = Parent /\ jobs[j].startSeg = 0
    \/ /\ cut.pc = "done"
       /\ \E k \in Ways : SubIds[k] = j /\ jobs[j].startSeg = First(k)

\* No worker goes past the file's last segment.
RunsWithin == /\ run \in [Workers -> Run]
              /\ \A w \in Workers : run[w].next + run[w].left <= Total

NumberedInv == /\ FamilyInv /\ QueueTypeOK /\ RowsAsked /\ RunsWithin
               /\ play \in Play /\ faults \in 0 .. MaxFaults

\* A file has segments, and the store takes all of them.
LEMMA FileNumbered ==
  ASSUME SplitInv
  PROVE  /\ Total \in Nat /\ Total >= 1 /\ 0 .. Total - 1 \subseteq Segs
         /\ 0 \in Segs /\ Segs \subseteq Nat
<1>1. media \in Media /\ media.duration \in Nat /\ media.duration > 0
  BY FileOfMedia, RangesAssumption DEF SplitInv
<1>2. /\ Total \in Nat /\ media.duration <= HlsTime * Total /\ HlsTime \in Nat
      /\ 0 .. Total - 1 \subseteq Segs
  BY <1>1, Rounding, RequestsAssumption, SplitterAssumption DEF Total
<1>3. Total # 0
  BY <1>1, <1>2
<1>4. 0 \in 0 .. Total - 1
  BY <1>2, <1>3
<1> QED BY <1>2, <1>3, <1>4, BoundsAssumption

\* What the handler asks for is a request of the store.
LEMMA AskedIsRequest ==
  ASSUME SplitInv, NEW s,
         s = 0 \/ (cut.pc = "done" /\ \E k \in Ways : s = First(k))
  PROVE  Asked(s) \in Requests /\ s \in Nat
<1>1. /\ Total \in Nat /\ 0 .. Total - 1 \subseteq Segs /\ 0 \in Segs
  BY FileNumbered
<1>2. s \in Nat /\ s <= Total
  <2>1. CASE s = 0
    BY <1>1, <2>1
  <2>2. CASE cut.pc = "done" /\ \E k \in Ways : s = First(k)
    <3>1. PICK k \in Ways : s = First(k)
      BY <2>2
    <3>2. /\ First(k) \in Nat /\ Pieces(Splits[k + 1] - Splits[k]) \in Nat
          /\ First(k) + Pieces(Splits[k + 1] - Splits[k]) <= Total
      BY <2>2, WaysNumbered DEF PastLast
    <3> QED BY <1>1, <3>1, <3>2
  <2> QED BY <2>1, <2>2
<1>3. s \in Positions
  <2>1. CASE s = 0
    BY <1>1, <2>1 DEF Positions
  <2>2. CASE s # 0
    <3>1. s - 1 \in 0 .. Total - 1 /\ s = (s - 1) + 1
      BY <1>1, <1>2, <2>2
    <3> QED BY <1>1, <3>1 DEF Positions
  <2> QED BY <2>1, <2>2
<1> QED BY <1>2, <1>3, RequestsAssumption DEF Asked, Requests

\* What a worker claims ends with the file at the latest.
LEMMA ClaimFits ==
  ASSUME NumberedInv, NEW j \in Jobs, Exists(j)
  PROVE  /\ jobs[j].startSeg \in Nat /\ Pending(j) \in Nat
         /\ jobs[j].startSeg + Pending(j) <= Total
<1>0. /\ SplitInv /\ EnoughIds /\ jobs[j].startSeg \in Nat /\ Total \in Nat
      /\ Splits \in Seq(Nat) /\ Len(Splits) \in Nat
  BY FileNumbered DEF NumberedInv, FamilyInv, QueueTypeOK, JobRow, SplitInv,
                      Cuts, Splits
<1>1. \A k \in Ways : k \in 1 .. Len(SubIds)
  BY <1>0, Ids DEF Ways, EnoughIds
<1>2. CASE j = Parent /\ jobs[j].startSeg = 0
  <2>1. ~ IsSub(j)
    BY <1>1, <1>2, Ids DEF IsSub
  <2> QED BY <1>0, <1>2, <2>1 DEF Pending
<1>3. CASE /\ cut.pc = "done"
           /\ \E k \in Ways : SubIds[k] = j /\ jobs[j].startSeg = First(k)
  <2>1. PICK k \in Ways : SubIds[k] = j /\ jobs[j].startSeg = First(k)
    BY <1>3
  <2>2. IsSub(j) /\ Way(j) = k
    <3>1. \A l \in Ways : SubIds[l] = j => l = k
      BY <1>1, <2>1, RangesAssumption
    <3> QED BY <2>1, <3>1 DEF IsSub, Way
  <2>3. Pending(j) = Pieces(Splits[k + 1] - Splits[k])
    BY <2>2 DEF Pending
  <2> QED BY <1>0, <1>3, <2>1, <2>3, WaysNumbered DEF PastLast
<1> QED BY <1>2, <1>3 DEF NumberedInv, RowsAsked

\* A worker that has segments left to write is at one of the file's.
LEMMA NextIsSegment ==
  ASSUME NumberedInv, NEW w \in Workers, run[w].left > 0
  PROVE  run[w].job \in Jobs /\ run[w].next \in Segs
<1>1. /\ run[w].job \in Jobs /\ run[w].next \in Nat /\ run[w].left \in Nat
      /\ run[w].next + run[w].left <= Total
      /\ Total \in Nat /\ 0 .. Total - 1 \subseteq Segs
  BY FileNumbered DEF NumberedInv, FamilyInv, Busy, RunsWithin, Run
<1>2. run[w].next \in 0 .. Total - 1
  BY <1>1
<1> QED BY <1>1, <1>2

\* On the store, the deployment runs statements of the store, and the one with
\* the cascade.
LEMMA StatementOrCascade ==
  ASSUME NumberedInv, RangesNext
  PROVE  \/ QueueNext \/ UNCHANGED queueVars
         \/ \E c \in Callers : DeleteFamily(c)
<1>0. SplitInv /\ Asking /\ EnoughIds
  BY DEF NumberedInv, FamilyInv
<1>1. ASSUME NEW j \in Jobs, NEW s,
             s = 0 \/ (cut.pc = "done" /\ \E k \in Ways : s = First(k)),
             Ask(j, s)
      PROVE  QueueNext
  <2>1. Asked(s) \in Requests /\ Enqueue(j, Asked(s))
    BY <1>0, <1>1, AskedIsRequest DEF Ask
  <2> QED BY <2>1 DEF QueueNext, JobStep
<1>2. CASE RequestPlayback
  BY <1>2 DEF RequestPlayback
<1>3. CASE Handling
  <2>1. CASE ComputeSplitPoints
    BY <2>1 DEF ComputeSplitPoints
  <2>2. CASE ProbeFails
    BY <2>2 DEF ProbeFails
  <2>3. CASE EnqueueParent \/ EnqueueWhole
    BY <1>1, <2>3, Ids DEF EnqueueParent, EnqueueWhole, AskFails
  <2>4. CASE EnqueueSub
    <3>1. cut.pc = "done" /\ play.k \in Ways
      BY <1>0, <2>4 DEF EnqueueSub, Asking
    <3>2. play.k \in 1 .. Len(SubIds)
      <4>1. Splits \in Seq(Nat) /\ Len(Splits) \in Nat
        BY <1>0 DEF SplitInv, Cuts, Splits
      <4> QED BY <1>0, <3>1, <4>1, Ids DEF Ways, EnoughIds
    <3> QED BY <1>1, <2>4, <3>1, <3>2, Ids DEF EnqueueSub, AskFails
  <2> QED BY <1>3, <2>1, <2>2, <2>3, <2>4 DEF Handling
<1>4. CASE RequestStop \/ Reap
  BY <1>4, Ids DEF RequestStop, Reap, QueueNext, CallerStep
<1>5. CASE Watching \/ \E j \in Jobs : Ageing(j)
  BY <1>5, Ids DEF Watching, Ageing, QueueNext, JobStep
<1>6. CASE \E c \in {Player, Dog} : DeleteFamily(c)
  BY <1>6, Ids
<1>7. ASSUME NEW w \in Workers, Works(w) \/ \E j \in Jobs : Claim(w, j)
      PROVE  QueueNext \/ UNCHANGED queueVars
  <2>1. CASE Report(w)
    <3>1. run[w].job \in Jobs /\ run[w].next \in Segs
      BY <2>1, NextIsSegment DEF Report
    <3>2. ReportedUnder(run[w].job) \in Jobs
      BY <3>1, Ids DEF ReportedUnder
    <3> QED BY <2>1, <3>1, <3>2 DEF Report, QueueNext, JobStep
  <2>2. CASE Finish(w)
    <3>1. run[w].job \in Jobs
      BY <2>2 DEF Finish, NumberedInv, RunsWithin, Run
    <3>2. Done(w) \in Reports
      BY <1>0, FileNumbered DEF Done, Reports, Reported
    <3> QED BY <2>2, <3>1, <3>2 DEF Finish, Done, QueueNext, JobStep
  <2>3. CASE Lose(w)
    BY <2>3 DEF Lose
  <2>4. CASE \E j \in Jobs : Claim(w, j)
    BY <2>4 DEF Claim, QueueNext, JobStep
  <2> QED BY <1>7, <2>1, <2>2, <2>3, <2>4 DEF Works
<1> QED BY <1>2, <1>3, <1>4, <1>5, <1>6, <1>7 DEF RangesNext

\* A delete that takes the sub-jobs with it keeps the types.
LEMMA CascadeStep ==
  ASSUME QueueTypeOK, NEW c \in Callers, DeleteFamily(c)
  PROVE  QueueTypeOK'
<1>0. /\ jobs \in [Jobs -> JobRow] /\ createdBefore \in SUBSET (Jobs \X Jobs)
      /\ segments \in [Jobs -> SUBSET Segs]
      /\ deleting \in [Callers -> Jobs \cup {NoCall}]
  BY DEF QueueTypeOK
<1>1. UNCHANGED segments /\ deleting' \in [Callers -> Jobs \cup {NoCall}]
  BY <1>0 DEF DeleteFamily
<1> DEFINE rows == Family(deleting[c])
<1>2. CASE UNCHANGED <<jobs, createdBefore>>
  BY <1>0, <1>1, <1>2 DEF QueueTypeOK
<1>3. CASE /\ jobs' = [j \in Jobs |-> IF j \in rows THEN AbsentRow ELSE jobs[j]]
           /\ createdBefore' = {p \in createdBefore : {p[1], p[2]} \cap rows = {}}
  <2>1. jobs' \in [Jobs -> JobRow]
    BY <1>0, <1>3, AbsentRowTyped
  <2>2. createdBefore' \in SUBSET (Jobs \X Jobs)
    BY <1>0, <1>3
  <2> QED BY <1>1, <2>1, <2>2 DEF QueueTypeOK
<1> QED BY <1>2, <1>3 DEF DeleteFamily

\* A step that asks for nothing new leaves what the rows ask for as it is.
LEMMA AskedKept ==
  ASSUME RowsAsked, UNCHANGED splitVars,
         \A k \in Jobs : Exists(k)' =>
           Exists(k) /\ jobs'[k].startSeg = jobs[k].startSeg
  PROVE  RowsAsked'
<1>1. /\ UNCHANGED cut /\ Ways' = Ways
      /\ \A k : First(k)' = First(k)
  BY DEF splitVars, Ways, First, Splits
<1> QED BY <1>1 DEF RowsAsked

\* A request asks for its start, and every other row for what it did.
LEMMA EnqueueAsks ==
  ASSUME jobs \in [Jobs -> JobRow], NEW j \in Jobs, NEW s \in Nat,
         Enqueue(j, Asked(s))
  PROVE  /\ jobs'[j].startSeg = s
         /\ \A k \in Jobs \ {j} : jobs'[k] = jobs[k]
<1> DEFINE req == Asked(s)
<1>1. req.restarts = 0 /\ req.startSeg = s /\ req.recovering = FALSE
  BY DEF Asked
<1>2. CASE Insert(j, req)
  <2>1. InsertedRow(req).startSeg = s
    BY <1>1 DEF InsertedRow, AbsentRow
  <2>2. jobs' = [jobs EXCEPT ![j] = InsertedRow(req)]
    BY <1>2 DEF Insert
  <2> QED BY <2>1, <2>2
<1>3. CASE Upsert(j, req)
  <2>1. jobs[j] \in JobRow /\ jobs' = [jobs EXCEPT ![j] = UpsertedRow(jobs[j], req)]
    BY <1>3 DEF Upsert
  <2>2. UpsertedRow(jobs[j], req).startSeg = s
    BY <1>1, <2>1 DEF UpsertedRow, JobRow
  <2> QED BY <2>1, <2>2
<1> QED BY <1>2, <1>3 DEF Enqueue

\* The other statements leave the start that a row asks for alone.
LEMMA StartsKept ==
  ASSUME jobs \in [Jobs -> JobRow], NEW j \in Jobs,
         \/ \E w \in Workers : Dequeue(j, w) \/ UpdateJob(j, Done(w))
         \/ \E s \in Nat : AddSegment(j, s)
         \/ TouchJob(j) \/ AccessAges(j)
  PROVE  \A k \in Jobs : jobs'[k].startSeg = jobs[k].startSeg
<1>0. jobs[j] \in JobRow
  OBVIOUS
<1>1. ASSUME NEW row, row.startSeg = jobs[j].startSeg,
             jobs' = [jobs EXCEPT ![j] = row]
      PROVE  \A k \in Jobs : jobs'[k].startSeg = jobs[k].startSeg
  BY <1>1
<1>2. ASSUME NEW w \in Workers, Dequeue(j, w)
      PROVE  \A k \in Jobs : jobs'[k].startSeg = jobs[k].startSeg
  <2>1. ClaimedRow(jobs[j], w).startSeg = jobs[j].startSeg
    BY <1>0 DEF ClaimedRow, JobRow
  <2> QED BY <1>1, <1>2, <2>1 DEF Dequeue
<1>3. ASSUME NEW w \in Workers, UpdateJob(j, Done(w))
      PROVE  \A k \in Jobs : jobs'[k].startSeg = jobs[k].startSeg
  <2>1. ReportedRow(jobs[j], Done(w)).startSeg = jobs[j].startSeg
    BY <1>0 DEF ReportedRow, JobRow
  <2> QED BY <1>1, <1>3, <2>1 DEF UpdateJob
<1>4. ASSUME NEW s \in Nat, AddSegment(j, s)
      PROVE  \A k \in Jobs : jobs'[k].startSeg = jobs[k].startSeg
  <2>1. ExtendedRow(jobs[j], s, s \in segments[j]).startSeg = jobs[j].startSeg
    BY <1>0 DEF ExtendedRow, JobRow
  <2> QED BY <1>1, <1>4, <2>1 DEF AddSegment
<1>5. CASE TouchJob(j) \/ AccessAges(j)
  BY <1>0, <1>5 DEF TouchJob, AccessAges, JobRow
<1> QED BY <1>2, <1>3, <1>4, <1>5

\* Only the handler changes what a row asks for, and it asks for a range's start.
LEMMA RowsAskedStep ==
  ASSUME NumberedInv, RangesNext
  PROVE  RowsAsked'
<1>0. /\ SplitInv /\ EnoughIds /\ Asking /\ Families /\ RowsAsked
      /\ jobs \in [Jobs -> JobRow] /\ cut \in Cuts
  BY DEF NumberedInv, FamilyInv, QueueTypeOK, SplitInv
<1>1. ASSUME UNCHANGED jobs, UNCHANGED splitVars PROVE RowsAsked'
  BY <1>0, <1>1, AskedKept DEF Exists
<1>2. ASSUME NEW j \in Jobs, NEW s, UNCHANGED splitVars,
             \/ j = Parent /\ s = 0
             \/ cut.pc = "done" /\ \E k \in Ways : SubIds[k] = j /\ s = First(k),
             Enqueue(j, Asked(s))
      PROVE  RowsAsked'
  <2>1. s \in Nat
    BY <1>0, <1>2, AskedIsRequest
  <2>2. /\ jobs'[j].startSeg = s /\ \A k \in Jobs \ {j} : jobs'[k] = jobs[k]
    BY <1>0, <1>2, <2>1, EnqueueAsks
  <2>3. /\ UNCHANGED cut /\ Ways' = Ways /\ \A k : First(k)' = First(k)
    BY <1>2 DEF splitVars, Ways, First, Splits
  <2>4. ASSUME NEW k \in Jobs, Exists(k)'
        PROVE  \/ k = Parent /\ jobs'[k].startSeg = 0
               \/ /\ cut.pc = "done"
                  /\ \E l \in Ways : SubIds[l] = k /\ jobs'[k].startSeg = First(l)
    <3>1. CASE k = j
      BY <1>2, <2>2, <3>1
    <3>2. CASE k # j
      <4>1. Exists(k) /\ jobs'[k] = jobs[k]
        BY <2>2, <2>4, <3>2 DEF Exists
      <4> QED BY <1>0, <4>1 DEF RowsAsked
    <3> QED BY <3>1, <3>2
  <2> QED BY <2>3, <2>4 DEF RowsAsked
<1>3. ASSUME NEW j \in Jobs, UNCHANGED splitVars,
             \/ \E w \in Workers : Dequeue(j, w) \/ UpdateJob(j, Done(w))
             \/ \E s \in Nat : AddSegment(j, s)
             \/ TouchJob(j) \/ AccessAges(j)
      PROVE  RowsAsked'
  <2>1. \A k \in Jobs : jobs'[k].startSeg = jobs[k].startSeg
    BY <1>0, <1>3, StartsKept
  <2>2. \A k \in Jobs : Exists(k)' = Exists(k)
    BY <1>0, <1>3, RowsStay
  <2> QED BY <1>0, <1>3, <2>1, <2>2, AskedKept
<1>4. CASE RequestPlayback
  BY <1>1, <1>4 DEF RequestPlayback, queueVars
<1>5. CASE ComputeSplitPoints
  <2>1. cut.pc # "done" /\ UNCHANGED jobs
    BY <1>0, <1>5 DEF ComputeSplitPoints, queueVars, SplitNext, Whole,
                      StartCutting, Cut, LastRange
  <2>2. \A j \in Jobs : Exists(j) => j = Parent /\ jobs[j].startSeg = 0
    BY <1>0, <2>1 DEF RowsAsked
  <2> QED BY <2>1, <2>2 DEF RowsAsked, Exists
<1>6. CASE ProbeFails
  BY <1>1, <1>6 DEF ProbeFails, queueVars
<1>7. CASE EnqueueParent \/ EnqueueWhole
  <2>1. UNCHANGED splitVars
    BY <1>7 DEF EnqueueParent, EnqueueWhole
  <2>2. Enqueue(Parent, Asked(0)) \/ UNCHANGED queueVars
    BY <1>7 DEF EnqueueParent, EnqueueWhole, Ask, AskFails
  <2> QED BY <1>1, <1>2, <2>1, <2>2, Ids DEF queueVars
<1>8. CASE EnqueueSub
  <2> DEFINE k == play.k
  <2>1. cut.pc = "done" /\ k \in Ways /\ UNCHANGED splitVars
    BY <1>0, <1>8 DEF EnqueueSub, Asking
  <2>2. k \in 1 .. Len(SubIds)
    <3>1. Splits \in Seq(Nat) /\ Len(Splits) \in Nat
      BY <1>0 DEF Cuts, Splits
    <3> QED BY <1>0, <2>1, <3>1, Ids DEF Ways, EnoughIds
  <2>3. Enqueue(SubIds[k], Asked(First(k))) \/ UNCHANGED queueVars
    BY <1>8 DEF EnqueueSub, Ask, AskFails
  <2> HIDE DEF k
  <2> QED BY <1>1, <1>2, <2>1, <2>2, <2>3, Ids DEF queueVars
<1>9. CASE RequestStop \/ Reap
  <2>1. UNCHANGED jobs /\ UNCHANGED splitVars
    BY <1>9 DEF RequestStop, Reap, DeleteSegments
  <2> QED BY <1>1, <2>1
<1>10. ASSUME NEW c \in {Player, Dog}, DeleteFamily(c) PROVE RowsAsked'
  <2>1. UNCHANGED splitVars
    BY <1>10 DEF DeleteFamily
  <2>2. \A k \in Jobs : jobs'[k] \in {jobs[k], AbsentRow}
    BY <1>0, <1>10 DEF DeleteFamily
  <2>3. \A k \in Jobs : Exists(k)' => jobs'[k] = jobs[k] /\ Exists(k)
    BY <2>2 DEF Exists, AbsentRow
  <2> QED BY <1>0, <2>1, <2>3, AskedKept
<1>11. CASE Watching \/ \E j \in Jobs : Ageing(j)
  BY <1>3, <1>11, Ids DEF Watching, Ageing
<1>12. ASSUME NEW w \in Workers, Works(w) \/ \E j \in Jobs : Claim(w, j)
       PROVE  RowsAsked'
  <2>0. UNCHANGED splitVars
    BY <1>12 DEF Works, Report, Finish, Lose, Claim
  <2>1. CASE Report(w)
    <3>1. run[w].job \in Jobs /\ run[w].next \in Nat
      BY <2>1, NextIsSegment, <1>0, FileNumbered DEF Report
    <3>2. ReportedUnder(run[w].job) \in Jobs
      BY <3>1, Ids DEF ReportedUnder
    <3> QED BY <1>1, <1>3, <2>0, <2>1, <3>1, <3>2 DEF Report, queueVars
  <2>2. CASE Finish(w)
    <3>1. run[w].job \in Jobs
      BY <2>2 DEF Finish, NumberedInv, RunsWithin, Run
    <3> QED BY <1>1, <1>3, <2>0, <2>2, <3>1 DEF Finish, Done, queueVars
  <2>3. CASE Lose(w)
    BY <1>1, <2>0, <2>3 DEF Lose, queueVars
  <2>4. CASE \E j \in Jobs : Claim(w, j)
    BY <1>3, <2>0, <2>4 DEF Claim
  <2> QED BY <1>12, <2>1, <2>2, <2>3, <2>4 DEF Works
<1> QED BY <1>4, <1>5, <1>6, <1>7, <1>8, <1>9, <1>10, <1>11, <1>12
        DEF RangesNext, Handling

\* The file is the same all along, and a run only ever goes from its start to
\* its end.
LEMMA RunsWithinStep ==
  ASSUME NumberedInv, RangesNext
  PROVE  RunsWithin'
<1>0. /\ run \in [Workers -> Run] /\ SplitInv /\ Total \in Nat
      /\ \A w \in Workers : run[w].next + run[w].left <= Total
  BY FileNumbered DEF NumberedInv, FamilyInv, RunsWithin
<1>1. Total' = Total
  <2>1. UNCHANGED media
    BY DEF RangesNext, Handling, RequestPlayback, ComputeSplitPoints, ProbeFails,
           EnqueueParent, EnqueueWhole, EnqueueSub, RequestStop, Reap, Watching,
           DeleteFamily, Works, Report, Finish, Lose, Claim, Ageing, splitVars,
           SplitNext, Whole, StartCutting, Cut, LastRange
  <2> QED BY <2>1 DEF Total, Pieces
<1>2. ASSUME NEW w \in Workers, NEW r \in Run, r.next + r.left <= Total,
             run' = [run EXCEPT ![w] = r]
      PROVE  RunsWithin'
  <2>1. run' \in [Workers -> Run]
    BY <1>0, <1>2
  <2>2. \A v \in Workers : run'[v].next + run'[v].left <= Total
    BY <1>0, <1>2
  <2> QED BY <1>1, <2>1, <2>2 DEF RunsWithin
<1>3. ASSUME UNCHANGED run PROVE RunsWithin'
  BY <1>0, <1>1, <1>3 DEF RunsWithin
<1>4. NoRun \in Run /\ NoRun.next + NoRun.left <= Total
  BY <1>0 DEF NoRun, Run
<1>5. ASSUME NEW w \in Workers, NEW j \in Jobs, Claim(w, j) PROVE RunsWithin'
  <2> DEFINE r == [job |-> j, next |-> jobs[j].startSeg, left |-> Pending(j)]
  <2>1. Exists(j)
    BY <1>5 DEF Claim, Dequeue, Claimable, Exists
  <2>2. r \in Run /\ r.next + r.left <= Total
    BY <2>1, ClaimFits DEF Run
  <2>3. run' = [run EXCEPT ![w] = r]
    BY <1>5 DEF Claim
  <2> HIDE DEF r
  <2> QED BY <1>2, <2>2, <2>3
<1>6. ASSUME NEW w \in Workers, Report(w) PROVE RunsWithin'
  <2> DEFINE r == [run[w] EXCEPT !.next = @ + 1, !.left = @ - 1]
  <2>1. /\ run[w] \in Run /\ run[w].left > 0 /\ run[w].next \in Nat
        /\ run[w].left \in Nat /\ run[w].next + run[w].left <= Total
    BY <1>0, <1>6 DEF Report, Run
  <2>2. run[w].next + 1 \in Nat /\ run[w].left - 1 \in Nat
    BY <2>1
  <2>3. r \in Run /\ r.next = run[w].next + 1 /\ r.left = run[w].left - 1
    BY <2>1, <2>2 DEF Run
  <2>4. r.next + r.left <= Total
    BY <1>0, <2>1, <2>3
  <2>5. run' = [run EXCEPT ![w] = r]
    BY <1>0, <1>6 DEF Report
  <2> HIDE DEF r
  <2> QED BY <1>2, <2>3, <2>4, <2>5
<1>7. ASSUME NEW w \in Workers, Finish(w) \/ Lose(w) PROVE RunsWithin'
  BY <1>2, <1>4, <1>7 DEF Finish, Lose
<1>8. CASE \/ RequestPlayback \/ Handling \/ RequestStop \/ Reap \/ Watching
           \/ \E c \in {Player, Dog} : DeleteFamily(c)
           \/ \E j \in Jobs : Ageing(j)
  <2>1. UNCHANGED run
    BY <1>8 DEF Handling, RequestPlayback, ComputeSplitPoints, ProbeFails,
                EnqueueParent, EnqueueWhole, EnqueueSub, RequestStop, Reap,
                Watching, DeleteFamily, Ageing
  <2> QED BY <1>3, <2>1
<1> QED BY <1>5, <1>6, <1>7, <1>8 DEF RangesNext, Works

\* The handler goes from one of its places to another, and upsets are counted.
LEMMA HandlerTyped ==
  ASSUME NumberedInv, RangesNext
  PROVE  play' \in Play /\ faults' \in 0 .. MaxFaults
<1>0. /\ play \in Play /\ play.k \in Nat /\ faults \in 0 .. MaxFaults
      /\ MaxFaults \in Nat
  BY FaultsAssumption DEF NumberedInv, Play
<1>1. ASSUME NEW pc \in {"idle", "split", "single", "subs", "fallback"},
             NEW k \in Nat, GoOn(pc, k)
      PROVE  play' \in Play
  BY <1>1 DEF GoOn, Play
<1>2. play' \in Play
  <2>1. CASE RequestPlayback \/ ProbeFails \/ EnqueueParent \/ EnqueueWhole
    BY <1>1, <2>1 DEF RequestPlayback, ProbeFails, EnqueueParent, EnqueueWhole
  <2>2. CASE EnqueueSub
    <3>1. play.k + 1 \in Nat
      BY <1>0
    <3> QED BY <1>1, <2>2, <3>1 DEF EnqueueSub
  <2>3. CASE UNCHANGED play
    BY <1>0, <2>3
  <2> QED BY <2>1, <2>2, <2>3 DEF RangesNext, Handling, ComputeSplitPoints,
             RequestStop, Reap, Watching, DeleteFamily, Works, Report, Finish,
             Lose, Claim, Ageing
<1>3. NoFault \/ \E kind : Fault(kind)
  BY DEF RangesNext, Handling, RequestPlayback, ComputeSplitPoints, ProbeFails,
         EnqueueParent, EnqueueWhole, EnqueueSub, Ask, AskFails, RequestStop,
         Reap, Watching, DeleteFamily, Works, Report, Finish, Lose, Claim, Ageing
<1>4. faults' \in 0 .. MaxFaults
  <2>1. faults' = faults \/ (faults < MaxFaults /\ faults' = faults + 1)
    BY <1>3 DEF NoFault, Fault
  <2> QED BY <1>0, <2>1
<1> QED BY <1>2, <1>4

\* Every step of the deployment keeps the invariant of this section.
LEMMA NumberedStep ==
  ASSUME NumberedInv, [RangesNext]_rangesVars
  PROVE  NumberedInv'
<1>1. FamilyInv'
  BY FamilyStep DEF NumberedInv
<1>2. CASE RangesNext
  <2>1. QueueTypeOK'
    <3>1. CASE QueueNext
      BY <3>1, TypingStep DEF NumberedInv
    <3>2. CASE UNCHANGED queueVars
      BY <3>2, TypingStep DEF NumberedInv
    <3>3. CASE \E c \in Callers : DeleteFamily(c)
      BY <3>3, CascadeStep DEF NumberedInv
    <3> QED BY <1>2, <3>1, <3>2, <3>3, StatementOrCascade
  <2> QED BY <1>1, <1>2, <2>1, RowsAskedStep, RunsWithinStep, HandlerTyped
          DEF NumberedInv
<1>3. CASE UNCHANGED rangesVars
  <2>1. UNCHANGED <<jobs, segments, createdBefore, deleting, media, cut, play, run,
                    faults>>
    BY <1>3 DEF rangesVars
  <2>2. QueueTypeOK'
    BY <2>1 DEF NumberedInv, QueueTypeOK
  <2>3. RowsAsked'
    BY <2>1, AskedKept DEF NumberedInv, splitVars, Exists
  <2>4. RunsWithin'
    BY <2>1 DEF NumberedInv, RunsWithin, Total, Pieces
  <2> QED BY <1>1, <2>1, <2>2, <2>3, <2>4 DEF NumberedInv
<1> QED BY <1>2, <1>3

\* It holds of the empty tables.
LEMMA NumberedInit == RangesInit => NumberedInv
<1> SUFFICES ASSUME RangesInit PROVE NumberedInv
  OBVIOUS
<1>1. FamilyInv
  BY FamilyInit
<1>2. /\ jobs = [j \in Jobs |-> AbsentRow] /\ createdBefore = {}
      /\ segments = [j \in Jobs |-> {}] /\ deleting = [c \in Callers |-> NoCall]
      /\ \A j \in Jobs : ~ Exists(j)
  BY DEF RangesInit, QueueInit, Exists, AbsentRow
<1>3. QueueTypeOK /\ RowsAsked
  BY <1>2, AbsentRowTyped DEF QueueTypeOK, RowsAsked
<1>4. Total \in Nat
  BY <1>1, FileNumbered DEF FamilyInv
<1>5. NoRun \in Run /\ NoRun.next + NoRun.left <= Total
  BY <1>4 DEF NoRun, Run
<1>6. RunsWithin
  BY <1>5 DEF RangesInit, RunsWithin
<1>7. play \in Play /\ faults \in 0 .. MaxFaults
  BY FaultsAssumption DEF RangesInit, Play
<1> QED BY <1>1, <1>3, <1>6, <1>7 DEF NumberedInv

\* So it always holds.
LEMMA NumberedAlways == RangesSpec => []NumberedInv
BY NumberedInit, NumberedStep, PTL DEF RangesSpec

\* The whole deployment keeps to its types: above all no worker reports a
\* segment that the file does not have (worker.go:184-203), and no sub-job asks
\* for one (splitter.go:189).
THEOREM RangesTyped == RangesSpec => []RangesTypeOK
<1>1. NumberedInv => RangesTypeOK
  BY DEF NumberedInv, FamilyInv, SplitInv, RunsWithin, RangesTypeOK, SplitTypeOK
<1> QED BY <1>1, NumberedAlways, PTL

\* For every file, segment time and number of ranges: rounding the starts down
\* leaves no segment out, except the file's last one exactly when the last cut is
\* as far or further into its segment than the end is, and none is written by two
\* ranges but the one that a cut falls in.
THEOREM NumbersAlwaysCovered == RangesSpec => []NumbersCovered
<1>1. NumberedInv => NumbersCovered
  BY RangesLeaveNoneOut DEF NumberedInv, FamilyInv
<1> QED BY <1>1, NumberedAlways, PTL

\* The cuts of a running deployment serve every ideal cut that they can.
THEOREM DeployedCutsServed == RangesSpec => []IdealCutsServed
<1>1. RangesInit => Served
  BY DEF RangesInit, SplitInit, Served, NotCut
<1>2. NumberedInv /\ Served /\ [RangesNext]_rangesVars => Served'
  <2>1. ASSUME [RangesNext]_rangesVars PROVE [SplitNext]_splitVars
    BY <2>1 DEF RangesNext, rangesVars, splitVars, Handling, RequestPlayback,
           ComputeSplitPoints, ProbeFails, EnqueueParent, EnqueueWhole,
           EnqueueSub, RequestStop, Reap, Watching, DeleteFamily, Works, Report,
           Finish, Lose, Claim, Ageing
  <2> QED BY <2>1, ServedStep DEF NumberedInv, FamilyInv
<1>3. Served => IdealCutsServed
  BY DEF Served, ServedBy, IdealCutsServed
<1> QED BY <1>1, <1>2, <1>3, NumberedAlways, PTL DEF RangesSpec
=============================================================================
