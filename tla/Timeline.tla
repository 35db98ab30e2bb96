------------------------------ MODULE Timeline ------------------------------
(***************************************************************************)
(* Which place of the media a segment number stands for.  A worker starts  *)
(* ffmpeg with a number and a time; recoveries compute both, from          *)
(* different sources: the number from the files or from last_segment_num,  *)
(* the time from the sum of the reported durations, or from timestamps     *)
(* that ffmpeg's manifest counts from the start of its own run.            *)
(*                                                                         *)
(* One job, one worker at a time: who may take a job from whom is the      *)
(* subject of Transcode, and so are restart limits and stale manifests.    *)
(* Times are integers, and an open file holds one unit of media.           *)
(***************************************************************************)
EXTENDS Faults, FiniteSetsExt

CONSTANTS
  HlsTime,     \* hls_segment_time, above 0
  End,         \* the length of the media
  Seeks,       \* positions a client seeks to
  MaxNumber    \* bound: segment numbers

VARIABLES
  row,         \* transcode_jobs: the start asked for, the progress reported
  stored,      \* job_segments: timestamp and duration per number
  file,        \* segment files: the media from .from to .to
  run,         \* the worker's ffmpeg: the number and the time it started at
  origin       \* the start that the job was created with

timelineVars == <<row, stored, file, run, origin, faults>>

Numbers == 0 .. MaxNumber
Missing == [known |-> FALSE, timestamp |-> 0, duration |-> 0]
NoFile  == [on |-> FALSE, from |-> 0, to |-> 0]
NoRun   == [on |-> FALSE, seg |-> 0, time |-> 0, next |-> 0, told |-> 0, kept |-> 0]

Start(seg, time) == [seg |-> seg, time |-> time]

NewRow(start) == [phase |-> "wanted", start |-> start, restarted |-> FALSE,
                  last |-> 0, total |-> 0]

Known == {n \in Numbers : stored[n].known}
OnDisk == {n \in Numbers : file[n].on}
Gone == [n \in Numbers |-> NoFile]

\* Where the run is when its segment n begins, from the start of the media.
At(n) == run.time + (n - run.seg) * HlsTime

EndOf(time) == IF time + HlsTime < End THEN time + HlsTime ELSE End
-----------------------------------------------------------------------------
(* The worker *)

\* analyzeExistingSegments: the last file long enough to be kept, and its end.
Survivors(kept) ==
  IF kept = {} THEN Start(0, 0) ELSE Start(Max(kept) + 1, file[Max(kept)].to)

\* A restart with no segment asked for looks at the disk.
Recovered == row.start.seg = 0 /\ row.restarted

\* What processJob starts at: as told, from what is on disk, or from the start.
Resume(start, kept) ==
  IF Recovered
    THEN start = Survivors(kept)
    ELSE /\ kept = OnDisk
         /\ start = IF row.start.seg > 0 THEN row.start ELSE Start(0, 0)

\* A truncated file at the end may be found too short and removed.
Truncated(n) == n = Max(OnDisk) /\ file[n].to < EndOf(file[n].from)

Verified == {OnDisk} \cup {OnDisk \ {n} : n \in {m \in OnDisk : Truncated(m)}}

\* -ss is passed only with a number and a time that are both above 0.
Sought(start) == IF start.seg > 0 /\ start.time > 0 THEN start.time ELSE 0

\* ffmpeg opens segment n, unless there is no media left.
Opened(files, n, time) ==
  IF time >= End THEN files
  ELSE [files EXCEPT ![n] = [on |-> TRUE, from |-> time, to |-> time + 1]]

Claim ==
  /\ row.phase = "wanted" /\ ~ run.on
  /\ \E kept \in Verified :
     \E start \in {row.start, Start(0, 0), Survivors(kept)} :
       /\ Resume(start, kept) /\ start.seg <= MaxNumber
       /\ run' = [on |-> TRUE, seg |-> start.seg, time |-> Sought(start),
                  next |-> start.seg, told |-> start.seg,
                  kept |-> IF Recovered /\ start.seg > 0 THEN start.seg - 1 ELSE 0]
       /\ file' = Opened([n \in Numbers |-> IF n \in kept THEN file[n]
                                                         ELSE NoFile],
                         start.seg, Sought(start))
  /\ row' = [row EXCEPT !.phase = "running"]
  /\ NoFault /\ UNCHANGED <<stored, origin>>

\* ffmpeg closes a segment, lists it and opens the next one.
Close ==
  /\ run.on /\ At(run.next) < End /\ run.next < MaxNumber
  /\ LET n == run.next IN
       file' = Opened([file EXCEPT ![n].to = EndOf(At(n))], n + 1, At(n + 1))
  /\ run' = [run EXCEPT !.next = @ + 1]
  /\ NoFault /\ UNCHANGED <<row, stored, origin>>

\* watchSegments to AddSegment: the timestamp is that of the manifest; a number
\* that has a row keeps it, and is not counted again.
Report ==
  /\ run.on /\ run.told < run.next
  /\ LET n == run.told
         new == [known |-> TRUE, timestamp |-> (n - run.seg) * HlsTime,
                 duration |-> EndOf(At(n)) - At(n)]
     IN /\ stored' = [stored EXCEPT ![n] = IF @.known THEN @ ELSE new]
        /\ row' = [row EXCEPT !.last = IF @ >= n THEN @ ELSE n,
                              !.total = @ + IF stored[n].known THEN 0
                                                               ELSE new.duration]
  /\ run' = [run EXCEPT !.told = @ + 1]
  /\ NoFault /\ UNCHANGED <<file, origin>>

\* A result comes with the last segment that was found on disk.
Settled(result) == [row EXCEPT !.phase = result, !.last = Max({@, run.kept})]

Finish ==
  /\ run.on /\ At(run.next) >= End
  /\ run' = NoRun /\ row' = Settled("done")
  /\ NoFault /\ UNCHANGED <<stored, file, origin>>

Die ==
  /\ run.on /\ Fault("crash")
  /\ run' = NoRun /\ row' = [row EXCEPT !.phase = "dead"]
  /\ UNCHANGED <<stored, file, origin>>

\* ffmpeg fails: with no segment listed yet the worker waits for the manifest in
\* vain and removes the directory; later the files stay.
Fail ==
  /\ run.on /\ Fault("ffmpeg")
  /\ run' = NoRun /\ row' = Settled("failed")
  /\ file' = IF run.next = run.seg THEN Gone ELSE file
  /\ UNCHANGED <<stored, origin>>
-----------------------------------------------------------------------------
(* The control plane *)

\* The end of segment n - 1 or of the last one known before it, as if it had
\* been reported by a run from the start of the media.
CalculateStartTime(n) ==
  LET before == {m \in Known : m < n} IN
    IF before = {} THEN n * HlsTime
    ELSE LET m == Max(before) IN
           stored[m].timestamp + stored[m].duration + (n - m - 1) * HlsTime

ElapsedOr(time) == IF row.total > 0 THEN row.total ELSE time

\* triggerJITRecovery
Recover(start) ==
  row' = [row EXCEPT !.phase = "wanted", !.start = start, !.restarted = TRUE]

RecoverDead ==
  /\ row.phase = "dead"
  /\ LET seg == CASE OnDisk # {} -> Max(OnDisk) + 1
                  [] OnDisk = {} /\ row.last > 0 -> row.last + 1
                  [] OTHER -> 0
     IN Recover(Start(seg, ElapsedOr(CalculateStartTime(seg))))
  /\ NoFault /\ UNCHANGED <<stored, file, run, origin>>

RetryFailed ==
  /\ row.phase = "failed"
  /\ LET seg == row.last + 1
     IN Recover(Start(seg, ElapsedOr(CalculateStartTime(seg))))
  /\ NoFault /\ UNCHANGED <<stored, file, run, origin>>

\* A worker that the job is taken from stops, and may remove the directory.
Dropped == /\ run' = NoRun
           /\ IF run.on THEN file' \in {file, Gone} ELSE UNCHANGED file

\* A client asks for a segment that has no row or no file; it gets an error for a
\* Failed job.
RequestJIT ==
  /\ row.phase # "failed"
  /\ \E n \in Numbers \ (Known \cap OnDisk) :
       n * HlsTime < End /\ Recover(Start(n, CalculateStartTime(n)))
  /\ Dropped /\ NoFault /\ UNCHANGED <<stored, origin>>

\* DeleteJob and a new row; seeks to the first segment start at 0.
Seek ==
  /\ \E pos \in Seeks : LET start == Start(pos \div HlsTime, pos) IN
       row' = NewRow(start) /\ origin' = Start(start.seg, Sought(start))
  /\ stored' = [n \in Numbers |-> Missing]
  /\ Fault("seek") /\ Dropped
-----------------------------------------------------------------------------
TimelineInit ==
  /\ row = NewRow(Start(0, 0)) /\ origin = Start(0, 0)
  /\ stored = [n \in Numbers |-> Missing]
  /\ file = Gone /\ run = NoRun /\ faults = 0

TimelineNext ==
  \/ Claim \/ Close \/ Report \/ Finish \/ Die \/ Fail
  \/ RecoverDead \/ RetryFailed \/ RequestJIT \/ Seek

TimelineSpec == TimelineInit /\ [][TimelineNext]_timelineVars
-----------------------------------------------------------------------------
\* The place of a number, counted from the start the job was created with.
Place(n) == origin.time + (n - origin.seg) * HlsTime

\* architecture_walkthrough.md:67, the monitor computes number and time "to
\* resume exactly where the worker left off": after a crash, the segment that a
\* job is resumed at begins at its own place of the media.
ResumesAtItsPlace ==
  [][RecoverDead => row'.start.seg <= origin.seg
                    \/ row'.start.time = Place(row'.start.seg)]_timelineVars
=============================================================================
