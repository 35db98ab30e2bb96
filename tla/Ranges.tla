------------------------------- MODULE Ranges -------------------------------
(***************************************************************************)
(* Range-parallel transcoding (transcode.parallel_ranges > 1): a playback  *)
(* request cuts its file (Splitter), enqueues a parent row and a sub-job   *)
(* per range with statements of their own (SplitAndEnqueue), and the       *)
(* workers report the segments of a sub-job under the parent.  Clients     *)
(* stop and touch the parent only; the watchdog reaps any idle row; the    *)
(* store drops a parent's sub-jobs with it (parent_job_id REFERENCES       *)
(* transcode_jobs ON DELETE CASCADE).                                      *)
(*                                                                         *)
(* Every worker speaks HTTP, and checkParentCompletion does nothing there: *)
(* the parent, itself a Pending row, is transcoded whole by whoever claims *)
(* it.  Crashes, recovery and the copies that a watchdog keeps are the     *)
(* subject of Worker and ControlPlane and left out, as are the             *)
(* directories.                                                            *)
(***************************************************************************)
EXTENDS Splitter, JobQueue, Faults

CONSTANTS
  Parent,     \* the parent's job id
  SubIds,     \* <parent>-r0, <parent>-r1, ...
  Player,     \* the caller that handles playback and stop
  Dog         \* the session watchdog

ASSUME RangesAssumption ==
  /\ Parent \in Jobs /\ SubIds \in Seq(Jobs \ {Parent})
  /\ \A a, b \in 1 .. Len(SubIds) : SubIds[a] = SubIds[b] => a = b
  /\ \A file \in Media : /\ file.n > 1 /\ file.n <= Len(SubIds)
                          /\ file.duration > 0    \* else the probe has failed
  /\ {Player, Dog} \subseteq Callers

VARIABLES
  play,       \* SplitAndEnqueue: what comes next, and of which range
  run         \* per worker: its job, its next segment, and how many are left

rangesVars == <<jobs, segments, createdBefore, deleting, media, cut, play, run,
                faults>>

Play == [pc : {"idle", "split", "single", "subs", "fallback"}, k : Nat]

Run == [job : Jobs \cup {NoCall}, next : Nat, left : Nat]

NoRun == [job |-> NoCall, next |-> 0, left |-> 0]

Ways == 1 .. Len(Splits) - 1      \* the ranges

IsSub(j) == \E k \in Ways : SubIds[k] = j

Way(j) == CHOOSE k \in Ways : SubIds[k] = j

\* Segments of HlsTime that so much media makes.
Pieces(time) == (time + HlsTime - 1) \div HlsTime

ASSUME RequestsAssumption ==
  /\ \A file \in Media : 0 .. Pieces(file.duration) - 1 \subseteq Segs
  /\ 0 \in Restarts

Total == Pieces(media.duration)

\* Mutant: every range counts from 0.
FirstOfOwn(k) == 0

\* The number of a range's first segment.
First(k) == Splits[k] \div HlsTime

\* The numbers of its segments, if it runs from its start to its end.
Numbers(k) == First(k) .. First(k) + Pieces(Splits[k + 1] - Splits[k]) - 1
-----------------------------------------------------------------------------
(* The playback handler *)

Asked(start) == [restarts |-> 0, startSeg |-> start, recovering |-> FALSE]

Ask(j, start) == Enqueue(j, Asked(start)) /\ NoFault

\* An Enqueue that the store refuses, or that fails.
AskFails(j) == /\ UNCHANGED queueVars
               /\ IF Exists(j) /\ ~ EnqueueAccepted(j) THEN NoFault
                                                       ELSE Fault("query")

GoOn(pc, k) == play' = [pc |-> pc, k |-> k]

RequestPlayback ==
  /\ play.pc = "idle" /\ ~ Exists(Parent)
  /\ GoOn("split", 1)
  /\ NoFault /\ UNCHANGED <<queueVars, splitVars, run>>

\* A file that is played again is cut at the same points.
ComputeSplitPoints ==
  /\ play.pc = "split" /\ SplitNext
  /\ NoFault /\ UNCHANGED <<queueVars, play, run>>

\* ffprobe fails on the keyframes or the duration: a single job.
ProbeFails ==
  /\ play.pc = "split" /\ cut = NotCut
  /\ GoOn("single", 1)
  /\ Fault("probe") /\ UNCHANGED <<queueVars, splitVars, run>>

EnqueueParent ==
  /\ play.pc = "single" \/ (play.pc = "split" /\ cut.pc = "done")
  /\ \/ Ask(Parent, 0) /\ GoOn(IF play.pc = "single" THEN "idle" ELSE "subs", 1)
     \/ AskFails(Parent) /\ GoOn("fallback", 1)
  /\ UNCHANGED <<splitVars, run>>

\* The caller enqueues the job itself, whatever comes of it.
EnqueueWhole ==
  /\ play.pc = "fallback"
  /\ Ask(Parent, 0) \/ AskFails(Parent)
  /\ GoOn("idle", 1)
  /\ UNCHANGED <<splitVars, run>>

\* The foreign key: a row may refer to the parent's.
ParentThere == Exists(Parent)

\* One sub-job; the loop goes on whatever comes of it.
EnqueueSub ==
  /\ play.pc = "subs"
  /\ LET j == SubIds[play.k] IN
       \/ ParentThere /\ Ask(j, First(play.k))
       \/ ~ ParentThere /\ UNCHANGED queueVars /\ NoFault
       \/ AskFails(j)
  /\ IF play.k = Len(Splits) - 1 THEN GoOn("idle", 1)
                                 ELSE GoOn("subs", play.k + 1)
  /\ UNCHANGED <<splitVars, run>>
-----------------------------------------------------------------------------
(* Deleting *)

RequestStop ==
  /\ DeleteSegments(Player, Parent)
  /\ NoFault /\ UNCHANGED <<splitVars, play, run>>

\* Mutant: only rows that a worker is on.
ReapRunning ==
  /\ \E j \in Jobs : /\ jobs[j].status \in Active
                     /\ jobs[j].access = "idle"
                     /\ DeleteSegments(Dog, j)
  /\ NoFault /\ UNCHANGED <<splitVars, play, run>>

Reap ==
  /\ \E j \in Jobs : /\ Exists(j) /\ jobs[j].status # "Cancelled"
                     /\ jobs[j].access = "idle"
                     /\ DeleteSegments(Dog, j)
  /\ NoFault /\ UNCHANGED <<splitVars, play, run>>

\* Mutant: ON DELETE SET NULL.
JustOne(j) == {j}

\* ON DELETE CASCADE.
Family(j) == IF j = Parent THEN {Parent} \cup {k \in Jobs : IsSub(k)} ELSE {j}

\* The second statement of DeleteJob, for the row and what refers to it.  A
\* segment reported since the first keeps all of them.
DeleteFamily(c) ==
  /\ deleting[c] # NoCall
  /\ deleting' = [deleting EXCEPT ![c] = NoCall]
  /\ LET rows == Family(deleting[c]) IN
       IF \A j \in rows : segments[j] = {}
         THEN /\ jobs' = [j \in Jobs |-> IF j \in rows THEN AbsentRow ELSE jobs[j]]
              /\ createdBefore' = {p \in createdBefore :
                                     {p[1], p[2]} \cap rows = {}}
         ELSE UNCHANGED <<jobs, createdBefore>>
  /\ NoFault /\ UNCHANGED <<segments, splitVars, play, run>>
-----------------------------------------------------------------------------
(* Workers *)

\* Mutant: the end of the range is taken for its length.
PendingToEnd(j) == IF IsSub(j) THEN Pieces(Splits[Way(j) + 1])
                               ELSE Total - jobs[j].startSeg

\* What a claimed row asks for: a range, or the rest of the file.
Pending(j) == IF IsSub(j) THEN Pieces(Splits[Way(j) + 1] - Splits[Way(j)])
              ELSE Total - jobs[j].startSeg

Claim(w, j) ==
  /\ run[w].job = NoCall
  /\ Dequeue(j, w)
  /\ run' = [run EXCEPT ![w] = [job |-> j, next |-> jobs[j].startSeg,
                                left |-> Pending(j)]]
  /\ NoFault /\ UNCHANGED <<splitVars, play>>

ReportedUnder(j) == IF IsSub(j) THEN Parent ELSE j

\* ffmpeg closes a segment and watchSegments reports it, to the store, which
\* refuses a segment of a missing row.
Report(w) ==
  /\ run[w].left > 0
  /\ LET j == ReportedUnder(run[w].job) IN
       IF Exists(j) THEN AddSegment(j, run[w].next) ELSE UNCHANGED queueVars
  /\ run' = [run EXCEPT ![w].next = @ + 1, ![w].left = @ - 1]
  /\ NoFault /\ UNCHANGED <<splitVars, play>>

Finish(w) ==
  /\ run[w].job # NoCall /\ run[w].left = 0
  /\ LET j == run[w].job IN
       IF OwnedBy(j, w)
         THEN UpdateJob(j, [status |-> "Completed", worker |-> w, hb |-> "fresh",
                            lastSeg |-> 0])
         ELSE UNCHANGED queueVars
  /\ run' = [run EXCEPT ![w] = NoRun]
  /\ NoFault /\ UNCHANGED <<splitVars, play>>

\* The heartbeat goroutine finds that the row is gone, or somebody else's.
Lose(w) ==
  /\ run[w].job # NoCall /\ ~ OwnedBy(run[w].job, w)
  /\ run' = [run EXCEPT ![w] = NoRun]
  /\ NoFault /\ UNCHANGED <<queueVars, splitVars, play>>
-----------------------------------------------------------------------------
Watching ==
  /\ Exists(Parent) /\ TouchJob(Parent)
  /\ NoFault /\ UNCHANGED <<splitVars, play, run>>

Ageing(j) ==
  /\ AccessAges(j)
  /\ NoFault /\ UNCHANGED <<splitVars, play, run>>

RangesInit ==
  /\ QueueInit /\ SplitInit
  /\ play = [pc |-> "idle", k |-> 1]
  /\ run = [w \in Workers |-> NoRun]
  /\ faults = 0

Handling == \/ ComputeSplitPoints \/ ProbeFails \/ EnqueueParent
            \/ EnqueueWhole \/ EnqueueSub

Works(w) == Report(w) \/ Finish(w) \/ Lose(w)

RangesNext ==
  \/ RequestPlayback \/ Handling \/ RequestStop \/ Reap \/ Watching
  \/ \E c \in {Player, Dog} : DeleteFamily(c)
  \/ \E w \in Workers : Works(w) \/ \E j \in Jobs : Claim(w, j)
  \/ \E j \in Jobs : Ageing(j)

\* Handlers finish what they began, workers go on, and time passes; clients
\* need not do anything.
RangesFair ==
  /\ WF_rangesVars(Handling) /\ WF_rangesVars(Reap)
  /\ \A c \in {Player, Dog} : WF_rangesVars(DeleteFamily(c))
  /\ \A w \in Workers : WF_rangesVars(Works(w)) /\ WF_rangesVars(Lose(w))
  /\ \A j \in Jobs : WF_rangesVars(Ageing(j))

RangesSpec == RangesInit /\ [][RangesNext]_rangesVars /\ RangesFair
-----------------------------------------------------------------------------
RangesTypeOK ==
  /\ QueueTypeOK /\ SplitTypeOK /\ play \in Play /\ run \in [Workers -> Run]
  /\ faults \in 0 .. MaxFaults

\* Whatever is deleted while SplitAndEnqueue goes from row to row, no sub-job is
\* left, or comes up, without its parent: nobody would ever ask for it.
SubJobsHaveParent ==
  \A j \in Jobs : IsSub(j) /\ Exists(j) => Exists(Parent)

\* The last cut is as far into its segment as the end of the file, or further.
LastUncounted ==
  LET end == media.duration % HlsTime IN
    0 < end /\ end <= Splits[Len(Splits) - 1] % HlsTime

\* Although the cuts need not fall on whole segments, the numbers of the ranges'
\* segments leave none out, except that the file's last one has no number just
\* if the last cut is as far or further into its segment than the end is; and
\* only neighbours meet, in one number.
NumbersCovered ==
  cut.pc = "done" =>
    /\ UNION {Numbers(k) : k \in Ways}
         = 0 .. Total - (IF LastUncounted THEN 2 ELSE 1)
    /\ \A a, b \in Ways : a < b =>
         Numbers(a) \cap Numbers(b) \subseteq IF b = a + 1 THEN {First(b)} ELSE {}

\* Once nobody plays or watches the file, every row of the family goes, with its
\* parent or by itself: late reports that keep a family, and rows enqueued while
\* others are deleted, do not stay for good.
FamiliesReaped ==
  <>[][~ (RequestPlayback \/ Watching)]_rangesVars
    => <>[](\A j \in Jobs : ~ Exists(j))
=============================================================================
