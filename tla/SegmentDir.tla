----------------------------- MODULE SegmentDir -----------------------------
(***************************************************************************)
(* The shared segment volume: one directory SEGMENT_DIR/<job id> per job,  *)
(* written by the ffmpeg processes of the workers and read by the control  *)
(* plane.  ffmpeg is external: what is kept of it is what src/ relies on,  *)
(* that it opens segment_NNN.ts, closes it, and then rewrites stream.m3u8  *)
(* to list the segments this process has closed.  Jobs and Segs are those  *)
(* of the store.                                                           *)
(***************************************************************************)
EXTENDS JobQueue, FiniteSetsExt

\* ffmpeg numbers the segments of a file one after the other, from 0.
ASSUME NumberingAssumption == \E last \in Segs : Segs = 0 .. last

VARIABLE dirs      \* the directory of each job

Dir == [present  : BOOLEAN,                            \* made, not removed
        file     : [Segs -> {"absent", "partial", "closed"}],
        manifest : SUBSET Segs]       \* entries of stream.m3u8; none: no file

NoDir == [present |-> FALSE, file |-> [s \in Segs |-> "absent"],
          manifest |-> {}]

DirsTypeOK == dirs \in [Jobs -> Dir]

Made(dir) == [dir EXCEPT !.present = TRUE]

\* os.RemoveAll: a file still open elsewhere is unlinked, its data is lost.
RemoveDir(j) == dirs' = [dirs EXCEPT ![j] = NoDir]

\* segment_*.ts: a file counts whether or not it was closed.
Files(dir) == {s \in Segs : dir.file[s] # "absent"}

\* highestSegmentOnDisk + 1, or 0 for a directory without segments.
NextOnDisk(dir) == IF Files(dir) = {} THEN 0 ELSE Max(Files(dir)) + 1

\* What probeSegment may fail to read or find shorter than 2 seconds: a file
\* that was not closed, and the last one of the media, which may be that short.
MaybeShort(dir) ==
  {s \in Files(dir) : dir.file[s] = "partial" \/ s = Max(Segs)}

\* analyzeExistingSegments removes the short files at the end; it stops at the
\* first good one.
ShortTail(dir, short) ==
  {s \in Files(dir) : \A t \in Files(dir) : t >= s => t \in short}

Repaired(dir, short) ==
  [dir EXCEPT !.file = [s \in Segs |-> IF s \in ShortTail(dir, short)
                                         THEN "absent" ELSE @[s]]]
=============================================================================
