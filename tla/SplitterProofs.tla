--------------------------- MODULE SplitterProofs ---------------------------
(***************************************************************************)
(* The ranges of ComputeSplitPoints cover the media, each two segments     *)
(* long, for every file and every segment time.  The loop's invariant:     *)
(* the cuts so far are two segments apart, and the last of them is no      *)
(* later than the last ideal cut that was served.                          *)
(***************************************************************************)
EXTENDS Splitter, Integers, TLAPS

Spaced(s) == \A k \in 1 .. Len(s) - 1 : s[k] + 2 * HlsTime <= s[k + 1]

LoopInv ==
  /\ ~ OneRange /\ cut.i <= media.n
  /\ Len(cut.splits) >= 1 /\ cut.splits[1] = 0 /\ Spaced(cut.splits)
  /\ Last(cut.splits) * media.n <= (cut.i - 1) * media.duration

SplitInv ==
  /\ media \in Media /\ cut \in Cuts /\ cut.i >= 1
  /\ cut.pc = "ready" => cut = NotCut
  /\ cut.pc = "loop" => LoopInv
  /\ RangesCoverMedia

\* A file's duration and number of ranges are numbers.
LEMMA FileOfMedia ==
  ASSUME NEW m \in Media
  PROVE  m.duration \in Nat /\ m.n \in Nat /\ m.keyframes \in SUBSET Nat
BY SplitterAssumption

\* A factor common to both sides of a comparison can be dropped.
LEMMA Cancel ==
  ASSUME NEW a \in Nat, NEW b \in Nat, NEW n \in Nat, n >= 1, a * n <= b * n
  PROVE  a <= b
<1>1. ASSUME b + 1 <= a PROVE FALSE
  <2>1. PICK d \in Nat : a = b + 1 + d
    <3>1. a - b - 1 \in Nat /\ a = b + 1 + (a - b - 1)
      BY <1>1
    <3> QED BY <3>1
  <2>2. a * n = b * n + n + d * n
    BY <2>1
  <2>3. d * n \in Nat
    OBVIOUS
  <2> QED BY <2>2, <2>3
<1> QED BY <1>1

\* The distance between two ideal cuts, times the number of ranges.
LEMMA StepDown ==
  ASSUME NEW i \in Nat, NEW d \in Nat
  PROVE  (i - 1) * d + d = i * d
OBVIOUS

\* The end of a file that is long enough is two segments after a cut that is not
\* later than its last ideal cut.
LEMMA RoomForLast ==
  ASSUME NEW l \in Nat, NEW n \in Nat, NEW d \in Nat, NEW h \in Nat, n >= 1,
         l * n <= (n - 1) * d, n * h <= d
  PROVE  l + h <= d
<1>1. (l + h) * n = l * n + n * h
  OBVIOUS
<1>2. (n - 1) * d + d = d * n
  OBVIOUS
<1>3. (l + h) * n <= d * n
  <2>1. l * n \in Int /\ n * h \in Int /\ (n - 1) * d \in Int /\ d * n \in Int
    OBVIOUS
  <2> QED BY <1>1, <1>2, <2>1
<1> QED BY <1>3, Cancel

\* Appending a cut two segments after the last one keeps the cuts apart.
LEMMA AppendSpaced ==
  ASSUME NEW s \in Seq(Nat), Len(s) >= 1, s[1] = 0, Spaced(s),
         NEW t \in Nat, Last(s) + 2 * HlsTime <= t
  PROVE  /\ Append(s, t) \in Seq(Nat) /\ Len(Append(s, t)) = Len(s) + 1
         /\ Append(s, t)[1] = 0 /\ Last(Append(s, t)) = t
         /\ Spaced(Append(s, t))
<1>1. /\ Append(s, t) \in Seq(Nat) /\ Len(Append(s, t)) = Len(s) + 1
      /\ \A k \in 1 .. Len(s) : Append(s, t)[k] = s[k]
      /\ Append(s, t)[Len(s) + 1] = t
  OBVIOUS
<1>2. Len(s) \in Nat
  OBVIOUS
<1>3. Append(s, t)[1] = 0 /\ Last(Append(s, t)) = t
  BY <1>1, <1>2 DEF Last
<1>4. ASSUME NEW k \in 1 .. Len(s)
      PROVE  Append(s, t)[k] + 2 * HlsTime <= Append(s, t)[k + 1]
  <2>1. CASE k = Len(s)
    BY <1>1, <2>1 DEF Last
  <2>2. CASE k # Len(s)
    <3>1. k \in 1 .. Len(s) - 1 /\ k + 1 \in 1 .. Len(s)
      BY <1>2, <2>2
    <3> QED BY <1>1, <3>1 DEF Spaced
  <2> QED BY <2>1, <2>2
<1> QED BY <1>1, <1>2, <1>3, <1>4 DEF Spaced

\* A file that is not cut yet satisfies the invariant.
LEMMA SplitInitInv == SplitInit => SplitInv
BY DEF SplitInit, SplitInv, NotCut, Cuts, RangesCoverMedia

\* Every iteration of the loop keeps the invariant.
LEMMA SplitStepInv == SplitInv /\ [SplitNext]_splitVars => SplitInv'
<1> SUFFICES ASSUME SplitInv, [SplitNext]_splitVars PROVE SplitInv'
  OBVIOUS
<1>a. /\ media \in Media /\ cut \in Cuts /\ cut.i >= 1 /\ RangesCoverMedia
      /\ cut.pc = "ready" => cut = NotCut
      /\ cut.pc = "loop" => LoopInv
  BY DEF SplitInv
<1>b. cut \in Cuts
  BY <1>a
<1>0. /\ media.duration \in Nat /\ media.n \in Nat /\ media.keyframes \in SUBSET Nat
      /\ HlsTime \in Nat /\ cut.i \in Nat /\ cut.splits \in Seq(Nat)
  BY <1>a, FileOfMedia, SplitterAssumption DEF Cuts
<1>1. CASE Whole
  <2>1. /\ media' = media /\ cut'.pc = "done" /\ cut' \in Cuts /\ cut'.i = cut.i
        /\ cut'.splits = <<0, media.duration>>
    <3> DEFINE s == <<0, media.duration>>
    <3>1. s \in Seq(Nat)
      BY <1>0
    <3>2. media' = media /\ cut' = [cut EXCEPT !.pc = "done", !.splits = s]
      BY <1>1 DEF Whole
    <3> HIDE DEF s
    <3>3. cut'.pc = "done" /\ cut'.i = cut.i /\ cut'.splits = s /\ cut' \in Cuts
      BY <1>b, <3>1, <3>2 DEF Cuts
    <3> QED BY <3>2, <3>3 DEF s
  <2>2. RangesCoverMedia'
    BY <1>0, <2>1 DEF RangesCoverMedia, Splits, Last
  <2> QED BY <1>a, <2>1, <2>2 DEF SplitInv
<1>2. CASE StartCutting
  <2>1. /\ media' = media /\ cut'.pc = "loop" /\ cut' \in Cuts /\ cut'.i = 1
        /\ cut'.splits = <<0>> /\ ~ OneRange
    <3> DEFINE s == <<0>>
    <3>1. s \in Seq(Nat)
      OBVIOUS
    <3>2. /\ media' = media /\ cut' = [cut EXCEPT !.pc = "loop", !.splits = s]
          /\ ~ OneRange
      BY <1>2 DEF StartCutting
    <3>3. cut.i = 1
      BY <1>a, <1>2 DEF StartCutting, NotCut
    <3> HIDE DEF s
    <3>4. cut'.pc = "loop" /\ cut'.i = cut.i /\ cut'.splits = s /\ cut' \in Cuts
      BY <1>b, <3>1, <3>2 DEF Cuts
    <3> QED BY <3>2, <3>3, <3>4 DEF s
  <2>2. media.n > 1
    BY <1>0, <2>1 DEF OneRange
  <2>3. Last(<<0>>) = 0 /\ Spaced(<<0>>)
    BY DEF Last, Spaced
  <2>4. 0 * media.n <= (1 - 1) * media.duration
    BY <1>0
  <2>5. LoopInv'
    BY <1>0, <2>1, <2>2, <2>3, <2>4 DEF LoopInv, OneRange
  <2>6. RangesCoverMedia'
    BY <2>1 DEF RangesCoverMedia
  <2> QED BY <1>a, <2>1, <2>5, <2>6 DEF SplitInv
<1>3. CASE Cut
  <2>1. PICK best \in media.keyframes \cup {0} :
          /\ Nearest(best, cut.i)
          /\ cut' = [cut EXCEPT !.i = @ + 1,
                                !.splits = IF LongEnough(best) THEN Append(@, best)
                                                               ELSE @]
    BY <1>3 DEF Cut
  <2>2. media' = media /\ cut.pc = "loop" /\ cut.i < media.n /\ LoopInv
    BY <1>a, <1>3 DEF Cut
  <2>3. best \in Nat /\ best * media.n <= cut.i * media.duration
    <3>1. CASE best = 0
      BY <1>0, <3>1
    <3>2. CASE best \in Before(cut.i)
      BY <1>0, <3>2 DEF Before
    <3> QED BY <2>1, <3>1, <3>2 DEF Nearest
  <2>4. /\ cut'.pc = "loop" /\ cut'.i = cut.i + 1 /\ cut'.i - 1 = cut.i
        /\ cut'.splits = IF LongEnough(best) THEN Append(cut.splits, best)
                                             ELSE cut.splits
        /\ cut' \in Cuts
    <3> DEFINE s == IF LongEnough(best) THEN Append(cut.splits, best)
                                        ELSE cut.splits
    <3>2. s \in Seq(Nat) /\ cut.i + 1 \in Nat /\ cut.i + 1 - 1 = cut.i
      BY <1>0, <2>3
    <3>3. cut' = [cut EXCEPT !.i = cut.i + 1, !.splits = s]
      BY <2>1
    <3> HIDE DEF s
    <3>4. /\ cut'.pc = cut.pc /\ cut'.i = cut.i + 1 /\ cut'.splits = s
          /\ cut' \in Cuts
      BY <1>b, <3>2, <3>3 DEF Cuts
    <3>5. cut'.i - 1 = cut.i
      <4>1. cut'.i = cut.i + 1 /\ cut.i \in Nat
        BY <1>0, <3>4
      <4> QED BY <4>1
    <3>6. cut'.splits = IF LongEnough(best) THEN Append(cut.splits, best)
                                            ELSE cut.splits
      BY <3>4 DEF s
    <3> QED BY <2>2, <3>4, <3>5, <3>6
  <2>5. CASE LongEnough(best)
    <3>1. Last(cut.splits) \in Nat /\ Last(cut.splits) + 2 * HlsTime <= best
      <4>1. Last(cut.splits) \in Nat
        <5>1. Len(cut.splits) >= 1
          BY <2>2 DEF LoopInv
        <5> QED BY <1>0, <5>1 DEF Last
      <4>2. best >= Last(cut.splits) + 2 * HlsTime
        BY <2>5 DEF LongEnough
      <4> QED BY <1>0, <2>3, <4>1, <4>2
    <3>2. /\ cut'.splits[1] = 0 /\ Last(cut'.splits) = best
          /\ Len(cut'.splits) >= 1 /\ Spaced(cut'.splits)
      <4>1. /\ Len(cut.splits) >= 1 /\ cut.splits[1] = 0 /\ Spaced(cut.splits)
            /\ cut'.splits = Append(cut.splits, best) /\ Len(cut.splits) \in Nat
        BY <1>0, <2>2, <2>4, <2>5 DEF LoopInv
      <4> QED BY <1>0, <2>3, <3>1, <4>1, AppendSpaced
    <3>3. LoopInv'
      <4>1. (~ OneRange)'
        BY <2>2 DEF LoopInv, OneRange
      <4>2. cut'.i <= media'.n
        BY <1>0, <2>2, <2>4
      <4>3. Last(cut'.splits) * media'.n <= (cut'.i - 1) * media'.duration
        BY <2>2, <2>3, <2>4, <3>2
      <4>4. Spaced(cut.splits)'
        BY <3>2 DEF Spaced
      <4> QED BY <3>2, <4>1, <4>2, <4>3, <4>4 DEF LoopInv
    <3> QED BY <1>a, <1>0, <2>2, <2>4, <3>3 DEF SplitInv, RangesCoverMedia
  <2>6. CASE ~ LongEnough(best)
    <3>1. Last(cut.splits) \in Nat
      <4>1. Len(cut.splits) >= 1
        BY <2>2 DEF LoopInv
      <4> QED BY <1>0, <4>1 DEF Last
    <3>2. (cut.i - 1) * media.duration <= cut.i * media.duration
      <4>1. (cut.i - 1) * media.duration + media.duration = cut.i * media.duration
        BY <1>0, StepDown
      <4>2. (cut.i - 1) * media.duration \in Int
        BY <1>0
      <4> QED BY <1>0, <4>1, <4>2
    <3>3. Last(cut.splits) * media.n <= cut.i * media.duration
      <4>1. /\ Last(cut.splits) * media.n \in Int
            /\ (cut.i - 1) * media.duration \in Int
            /\ cut.i * media.duration \in Int
        BY <1>0, <3>1
      <4> QED BY <2>2, <3>2, <4>1 DEF LoopInv
    <3>4. LoopInv'
      <4>0. cut'.splits = cut.splits
        BY <2>4, <2>6
      <4>1. (~ OneRange)'
        BY <2>2 DEF LoopInv, OneRange
      <4>2. cut'.i <= media'.n
        BY <1>0, <2>2, <2>4
      <4>3. Last(cut'.splits) * media'.n <= (cut'.i - 1) * media'.duration
        BY <2>2, <2>4, <3>3, <4>0
      <4>4. Spaced(cut.splits)'
        BY <2>2, <4>0 DEF Spaced, LoopInv
      <4> QED BY <2>2, <4>0, <4>1, <4>2, <4>3, <4>4 DEF LoopInv
    <3> QED BY <1>a, <1>0, <2>2, <2>4, <3>4 DEF SplitInv, RangesCoverMedia
  <2> QED BY <2>5, <2>6
<1>4. CASE LastRange
  <2>1. /\ media' = media /\ cut.pc = "loop" /\ LoopInv /\ cut.i = media.n
        /\ cut'.pc = "done" /\ cut'.i = cut.i
        /\ cut'.splits = Append(cut.splits, media.duration) /\ cut' \in Cuts
    <3>1. cut.pc = "loop" /\ LoopInv /\ cut.i = media.n
      BY <1>a, <1>0, <1>4 DEF LastRange, LoopInv
    <3> DEFINE s == Append(cut.splits, media.duration)
    <3>2. s \in Seq(Nat)
      BY <1>0
    <3>3. media' = media /\ cut' = [cut EXCEPT !.pc = "done", !.splits = s]
      BY <1>4 DEF LastRange
    <3> HIDE DEF s
    <3>4. cut'.pc = "done" /\ cut'.i = cut.i /\ cut'.splits = s /\ cut' \in Cuts
      BY <1>b, <3>2, <3>3 DEF Cuts
    <3> QED BY <3>1, <3>3, <3>4 DEF s
  <2>2. media.n * (2 * HlsTime) <= media.duration
    BY <1>0, <2>1 DEF LoopInv, OneRange
  <2>3. Last(cut.splits) \in Nat
    BY <1>0, <2>1 DEF Last, LoopInv
  <2>4. Last(cut.splits) + 2 * HlsTime <= media.duration
    <3>1. media.n >= 1 /\ 2 * HlsTime \in Nat
      BY <1>a, <1>0, <2>1
    <3>2. Last(cut.splits) * media.n <= (media.n - 1) * media.duration
      BY <2>1 DEF LoopInv
    <3> QED BY <1>0, <2>2, <2>3, <3>1, <3>2, RoomForLast
  <2>5. /\ Len(cut'.splits) >= 2 /\ cut'.splits[1] = 0
        /\ Last(cut'.splits) = media.duration /\ Spaced(cut'.splits)
    BY <1>0, <2>1, <2>4, AppendSpaced DEF LoopInv
  <2>6. RangesCoverMedia'
    BY <2>1, <2>5 DEF RangesCoverMedia, Splits, Spaced
  <2> QED BY <1>a, <2>1, <2>6 DEF SplitInv
<1>5. CASE UNCHANGED splitVars
  BY <1>5 DEF SplitInv, splitVars, LoopInv, OneRange, Spaced, RangesCoverMedia, Splits
<1> QED BY <1>1, <1>2, <1>3, <1>4, <1>5 DEF SplitNext

\* The ranges cover the file from its start to its end, two segments each unless
\* there is only one (splitter.go:100-133).
THEOREM RangesCover == SplitSpec => []RangesCoverMedia
<1>1. SplitInv => RangesCoverMedia
  BY DEF SplitInv
<1> QED BY <1>1, SplitInitInv, SplitStepInv, PTL DEF SplitSpec
-----------------------------------------------------------------------------
(* Which cuts are left out *)

\* Ideal cut i is served by a cut not later than it: the keyframes before the
\* one are less than two segments after the other.
ServedBy(s, i) ==
  \A k \in Before(i) :
    \E p \in 1 .. Len(s) : /\ s[p] * media.n <= i * media.duration
                            /\ k < s[p] + 2 * HlsTime

\* The loop has served the ideal cuts up to its i.
Served ==
  cut.pc # "ready" /\ ~ OneRange =>
    \A i \in 1 .. media.n - 1 : i < cut.i \/ cut.pc = "done" => ServedBy(Splits, i)

\* A cut that serves goes on serving when others are appended.
LEMMA ServedLonger ==
  ASSUME NEW s \in Seq(Nat), NEW t \in Nat, NEW i, ServedBy(s, i)
  PROVE  ServedBy(Append(s, t), i)
<1>1. /\ Len(Append(s, t)) = Len(s) + 1 /\ Len(s) \in Nat
      /\ \A q \in 1 .. Len(s) : Append(s, t)[q] = s[q]
  OBVIOUS
<1>2. \A q \in 1 .. Len(s) : q \in 1 .. Len(Append(s, t))
  BY <1>1
<1> QED BY <1>1, <1>2 DEF ServedBy

\* An iteration serves its ideal cut: by the keyframe it cuts at, or, if that is
\* left out, by the cut before it.
LEMMA ServedStep == SplitInv /\ Served /\ [SplitNext]_splitVars => Served'
<1> SUFFICES ASSUME SplitInv, Served, [SplitNext]_splitVars PROVE Served'
  OBVIOUS
<1>0. /\ media \in Media /\ cut \in Cuts /\ (cut.pc = "loop" => LoopInv)
      /\ media.duration \in Nat /\ media.n \in Nat
      /\ media.keyframes \in SUBSET Nat /\ HlsTime \in Nat /\ HlsTime > 0
      /\ cut.i \in Nat /\ cut.splits \in Seq(Nat)
      /\ (cut.pc = "ready" => cut.i = 1)
  BY FileOfMedia, SplitterAssumption DEF SplitInv, Cuts, NotCut
<1>1. CASE Whole
  BY <1>1 DEF Whole, Served, OneRange
<1>2. CASE StartCutting
  <2>1. cut'.pc = "loop" /\ cut'.i = 1
    BY <1>0, <1>2 DEF StartCutting, Cuts
  <2> QED BY <1>0, <2>1, <1>2 DEF StartCutting, Served
<1>3. CASE Cut
  <2> DEFINE i == cut.i
             l == Last(cut.splits)
  <2>1. PICK best \in media.keyframes \cup {0} :
          /\ Nearest(best, i)
          /\ cut' = [cut EXCEPT !.i = @ + 1,
                                !.splits = IF LongEnough(best) THEN Append(@, best)
                                                               ELSE @]
    BY <1>3 DEF Cut
  <2>2. /\ media' = media /\ cut.pc = "loop" /\ i < media.n /\ LoopInv
        /\ cut'.pc = "loop" /\ cut'.i = i + 1 /\ best \in Nat
        /\ cut'.splits = IF LongEnough(best) THEN Append(cut.splits, best)
                                             ELSE cut.splits
    <3> DEFINE s == IF LongEnough(best) THEN Append(cut.splits, best)
                                        ELSE cut.splits
    <3>1. media' = media /\ cut.pc = "loop" /\ i < media.n /\ LoopInv
      BY <1>0, <1>3 DEF Cut
    <3>2. cut' = [cut EXCEPT !.i = i + 1, !.splits = s] /\ best \in Nat
      BY <1>0, <2>1
    <3> HIDE DEF s
    <3>3. cut'.pc = cut.pc /\ cut'.i = i + 1 /\ cut'.splits = s
      BY <1>0, <3>2 DEF Cuts
    <3> QED BY <3>1, <3>2, <3>3 DEF s
  <2>3. \A k \in Before(i) : k \in Nat /\ k <= best
    BY <1>0, <2>1 DEF Nearest, Before
  <2>4. ServedBy(cut'.splits, i)
    <3>1. CASE LongEnough(best)
      <4> DEFINE s == Append(cut.splits, best)
      <4>1. /\ Len(s) = Len(cut.splits) + 1 /\ Len(cut.splits) \in Nat
            /\ s[Len(cut.splits) + 1] = best
        BY <1>0, <2>2
      <4>2. Len(s) \in 1 .. Len(s) /\ s[Len(s)] = best
        BY <4>1
      <4>3. best * media.n <= i * media.duration
        <5>1. CASE best = 0
          BY <1>0, <5>1
        <5>2. CASE best \in Before(i)
          BY <5>2 DEF Before
        <5> QED BY <2>1, <5>1, <5>2 DEF Nearest
      <4>4. \A k \in Before(i) : k < best + 2 * HlsTime
        BY <1>0, <2>2, <2>3
      <4>5. cut'.splits = s
        BY <2>2, <3>1
      <4> HIDE DEF s
      <4> QED BY <4>2, <4>3, <4>4, <4>5 DEF ServedBy
    <3>2. CASE ~ LongEnough(best)
      <4>1. /\ Len(cut.splits) \in 1 .. Len(cut.splits)
            /\ l \in Nat /\ l * media.n <= (i - 1) * media.duration
        BY <1>0, <2>2 DEF LoopInv, Last
      <4>2. l * media.n <= i * media.duration
        <5>1. (i - 1) * media.duration + media.duration = i * media.duration
          BY <1>0, StepDown
        <5>2. l * media.n \in Int /\ (i - 1) * media.duration \in Int
              /\ i * media.duration \in Int
          BY <1>0, <4>1
        <5>3. ASSUME NEW x \in Int, NEW y \in Int, NEW z \in Int,
                     x <= y, y + media.duration = z
              PROVE  x <= z
          BY <1>0, <5>3
        <5> QED BY <4>1, <5>1, <5>2, <5>3
      <4>3. \A k \in Before(i) : k < l + 2 * HlsTime
        BY <1>0, <2>2, <2>3, <3>2, <4>1 DEF LongEnough
      <4>4. cut'.splits = cut.splits
        BY <2>2, <3>2
      <4> QED BY <4>1, <4>2, <4>3, <4>4 DEF ServedBy, Last
    <3> QED BY <3>1, <3>2
  <2>5. ASSUME NEW q \in 1 .. media.n - 1, q < i
        PROVE  ServedBy(cut'.splits, q)
    <3>1. ServedBy(cut.splits, q)
      BY <2>2, <2>5 DEF Served, Splits, LoopInv
    <3> QED BY <1>0, <2>2, <3>1, ServedLonger
  <2>6. \A q \in 1 .. media.n - 1 : q < cut'.i => ServedBy(cut'.splits, q)
    <3>1. \A q \in 1 .. media.n - 1 : q < cut'.i => q < i \/ q = i
      BY <1>0, <2>2
    <3> QED BY <2>4, <2>5, <3>1
  <2> QED BY <2>2, <2>6 DEF Served, ServedBy, Before, Splits
<1>4. CASE LastRange
  <2>1. /\ media' = media /\ cut.pc = "loop" /\ LoopInv
        /\ cut'.splits = Append(cut.splits, media.duration)
        /\ cut.i >= media.n
    BY <1>0, <1>4 DEF LastRange, Cuts
  <2>2. ASSUME NEW q \in 1 .. media.n - 1
        PROVE  ServedBy(cut'.splits, q)
    <3>1. ServedBy(cut.splits, q)
      BY <1>0, <2>1 DEF Served, Splits, LoopInv
    <3> QED BY <1>0, <2>1, <3>1, ServedLonger
  <2> QED BY <2>1, <2>2 DEF Served, ServedBy, Before, Splits
<1>5. CASE UNCHANGED splitVars
  BY <1>5 DEF Served, ServedBy, Before, Splits, OneRange, splitVars
<1> QED BY <1>1, <1>2, <1>3, <1>4, <1>5 DEF SplitNext

\* For every file, no cut is left out without reason: only what would make a
\* range of less than two segments is (splitter.go:111-129).
THEOREM CutsServed == SplitSpec => []IdealCutsServed
<1>1. SplitInit => Served
  BY DEF SplitInit, Served, NotCut
<1>2. Served => IdealCutsServed
  BY DEF Served, ServedBy, IdealCutsServed
<1> QED BY <1>1, <1>2, SplitInitInv, SplitStepInv, ServedStep, PTL DEF SplitSpec
=============================================================================
