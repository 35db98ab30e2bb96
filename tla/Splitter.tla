------------------------------ MODULE Splitter ------------------------------
(***************************************************************************)
(* ComputeSplitPoints (src/internal/services/splitter.go): where a file is *)
(* cut into ranges that are transcoded in parallel.  One step is one       *)
(* iteration of its loop.  Times are integers in a unit as fine as the     *)
(* probes report; an ideal cut i * duration / n is compared as a fraction. *)
(***************************************************************************)
EXTENDS Naturals, Sequences

CONSTANTS
  Media,      \* files: duration, keyframe times, and the ranges asked for
  HlsTime     \* hls_segment_time

ASSUME SplitterAssumption ==
  /\ Media \subseteq [duration : Nat, keyframes : SUBSET Nat, n : Nat]
  /\ HlsTime \in Nat \ {0}

VARIABLES
  media,      \* the file at hand
  cut         \* ComputeSplitPoints: where it is, its i and its splits

splitVars == <<media, cut>>

Cuts == [pc : {"ready", "loop", "done"}, i : Nat, splits : Seq(Nat)]

NotCut == [pc |-> "ready", i |-> 1, splits |-> <<>>]

Last(s) == s[Len(s)]

\* Nothing to cut at, or too short for n ranges.
OneRange == \/ media.n <= 1 \/ media.keyframes = {}
            \/ media.duration < media.n * (2 * HlsTime)

Whole ==
  /\ cut.pc = "ready" /\ OneRange
  /\ cut' = [cut EXCEPT !.pc = "done", !.splits = <<0, media.duration>>]
  /\ UNCHANGED media

StartCutting ==
  /\ cut.pc = "ready" /\ ~ OneRange
  /\ cut' = [cut EXCEPT !.pc = "loop", !.splits = <<0>>]
  /\ UNCHANGED media

\* The keyframes up to the ideal cut i.
Before(i) == {k \in media.keyframes : k * media.n <= i * media.duration}

\* Mutant: the first keyframe after the ideal cut.
NearestAfter(best, i) ==
  /\ best \in media.keyframes \ Before(i)
  /\ \A k \in media.keyframes \ Before(i) : best <= k

\* The last of them, or 0.
Nearest(best, i) == /\ best \in Before(i) \cup {0}
                    /\ \A k \in Before(i) : k <= best

\* Mutant: a range may be one segment long.
LongerThanOne(best) == best >= Last(cut.splits) + HlsTime

\* A cut that would leave less than two segments before it is left out.
LongEnough(best) == best >= Last(cut.splits) + 2 * HlsTime

Cut ==
  /\ cut.pc = "loop" /\ cut.i < media.n
  /\ \E best \in media.keyframes \cup {0} :
       /\ Nearest(best, cut.i)
       /\ cut' = [cut EXCEPT !.i = @ + 1,
                             !.splits = IF LongEnough(best) THEN Append(@, best)
                                                            ELSE @]
  /\ UNCHANGED media

LastRange ==
  /\ cut.pc = "loop" /\ cut.i >= media.n
  /\ cut' = [cut EXCEPT !.pc = "done", !.splits = Append(@, media.duration)]
  /\ UNCHANGED media

SplitInit == media \in Media /\ cut = NotCut

SplitNext == Whole \/ StartCutting \/ Cut \/ LastRange

SplitSpec == SplitInit /\ [][SplitNext]_splitVars
-----------------------------------------------------------------------------
\* The media and the loop's locals hold values of their domains.
SplitTypeOK == media \in Media /\ cut \in Cuts

Splits == cut.splits

\* The ranges cover the file from its start to its end, and each is at least two
\* segments long unless there is only one.
RangesCoverMedia ==
  cut.pc = "done" =>
    /\ Len(Splits) >= 2 /\ Splits[1] = 0 /\ Last(Splits) = media.duration
    /\ Len(Splits) > 2 => \A k \in 1 .. Len(Splits) - 1 :
                            Splits[k] + 2 * HlsTime <= Splits[k + 1]

\* No cut is left out without reason: the keyframes before an ideal cut are less
\* than two segments after a cut that is not later than the ideal one.
IdealCutsServed ==
  cut.pc = "done" /\ ~ OneRange =>
    \A i \in 1 .. media.n - 1 : \A k \in Before(i) :
      \E p \in 1 .. Len(Splits) : /\ Splits[p] * media.n <= i * media.duration
                                  /\ k < Splits[p] + 2 * HlsTime
=============================================================================
