------------------------------- MODULE Claims -------------------------------
(***************************************************************************)
(* What the documentation and the comments of the repository say of the    *)
(* transcoding path and the code does not do.  Each is refuted by a run of *)
(* its own; README.md tells what happens in each counterexample.           *)
(***************************************************************************)
EXTENDS Transcode

\* architecture.md:157, the row of a segment is "written by the worker after
\* FFmpeg closes the file": what the segment handler serves is a closed file.
ServedFilesAreClosed ==
  \A j \in Jobs, s \in Segs : Served(j, s) => dirs[j].file[s] = "closed"

\* architecture_walkthrough.md:84, of a request for a segment that is not there: "The
\* client retries after 2 seconds and gets the new segment".  Clients that ask for one
\* segment only are not told to come back for ever, while ffmpeg gets on and nothing
\* goes wrong.
RetriesAnswered ==
  \A s \in Segs :
    <>[](\A v \in Viewers : ctl[v].pc # "idle" => ctl[v].seg = s) =>
      <>[](\A v \in Viewers : ~ At(v, "jit"))
=============================================================================
