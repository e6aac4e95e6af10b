---------------------------- MODULE TunnelLemmas ----------------------------
(***************************************************************************)
(* What the proofs about several components share, for every value of the  *)
(* constants: the operators of SizerOps keep a sizer well formed and its   *)
(* size inside the bracket of known-good and known-bad sizes, those of     *)
(* LaneOps give lanes, and the buffers between two offsets of a stream are *)
(* cut and joined without losing their place.                              *)
(***************************************************************************)
EXTENDS SizerOps, LaneOps, Sequences, SequenceTheorems, TLAPS

-----------------------------------------------------------------------------
(* Sizers                                                                  *)

\* The bracket of AdaptiveSizer!Bracketed, for any sizer.
InBracket(s) ==
    /\ s.good <= s.current
    /\ s.bad > 0 => /\ s.current <= s.bad
                    /\ s.current = s.bad => s.current = MinSize

\* The counters stay below the thresholds that consume them.
CountersLow(s) ==
    /\ s.successes < SlowFactor * AdaptSuccesses
    /\ s.failures < ShrinkAfter

\* The slow threshold is a natural number no smaller than the normal one.
LEMMA SlowThreshold ==
    /\ SlowFactor * AdaptSuccesses \in Nat
    /\ AdaptSuccesses <= SlowFactor * AdaptSuccesses
    /\ 0 < SlowFactor * AdaptSuccesses
<1> DEFINE a == AdaptSuccesses
           f == SlowFactor
<1>1. a \in Nat /\ f \in Nat /\ a >= 1 /\ f >= 1
  BY SizerAssumption
<1>2. f * a \in Nat
  BY <1>1
<1>3. (f - 1) * a >= 0
  BY <1>1
<1>4. f * a = (f - 1) * a + a
  BY <1>1
<1> QED
  BY <1>1, <1>2, <1>3, <1>4

\* newAdaptiveSizer starts inside the range with nothing learned.
LEMMA NewSizerFits ==
    ASSUME NEW start \in Int
    PROVE  /\ NewSizer(start) \in Sizers
           /\ InBracket(NewSizer(start))
           /\ CountersLow(NewSizer(start))
BY SizerAssumption, SlowThreshold
   DEF NewSizer, Sizers, Sizes, InBracket, CountersLow, Smaller, Larger

\* Grow keeps the size in the range, in the bracket, and below a known-bad
\* size while the gap to it is open.
LEMMA GrowFits ==
    ASSUME NEW s \in Sizers, InBracket(s), s.failures < ShrinkAfter
    PROVE  /\ Grow(s) \in Sizers
           /\ InBracket(Grow(s))
           /\ CountersLow(Grow(s))
           /\ GapOpen(s) => Grow(s).current < s.bad
<1> DEFINE cur == s.current
           half == (s.bad - s.current) \div 2
           quarter == s.current \div 4
<1>1. /\ cur \in Int /\ MinSize <= cur /\ cur <= MaxSize
      /\ s.bad \in Int /\ s.good \in Int /\ s.bad >= 0 /\ s.bad <= MaxSize
      /\ MinSize \in Nat /\ MaxSize \in Nat /\ MinSize > 0
      /\ GrowFloor \in Nat /\ GrowFloor > 0
  BY SizerAssumption DEF Sizers, Sizes
<1>2. quarter \in Int /\ quarter >= 0
  BY <1>1
<1>3. GapOpen(s) => half \in Int /\ half >= 1 /\ cur + half < s.bad
  BY <1>1 DEF GapOpen
<1>4. GrowTarget(s) \in Int /\ GrowTarget(s) > cur
      /\ (GapOpen(s) => GrowTarget(s) < s.bad)
  BY <1>1, <1>2, <1>3 DEF GrowTarget, Larger
<1> DEFINE next == Larger(cur, Smaller(GrowTarget(s), MaxSize))
           bad == IF GapOpen(s) THEN s.bad ELSE 0
<1>5. /\ next \in Sizes /\ next >= cur
      /\ GapOpen(s) => next < s.bad
  BY <1>1, <1>4 DEF Larger, Smaller, Sizes, GapOpen
<1>6. Grow(s) = [s EXCEPT !.current = next, !.successes = 0, !.bad = bad]
  BY DEF Grow, Sizers
<1>7. bad \in {0} \cup Sizes
  BY DEF Sizers
<1>8. /\ Grow(s).current = next /\ Grow(s).bad = bad
      /\ Grow(s).good = s.good /\ Grow(s).successes = 0
      /\ Grow(s).failures = s.failures
  BY <1>6 DEF Sizers
<1> HIDE DEF next, bad
<1>9. Grow(s) \in Sizers
  <2>1. [s EXCEPT !.current = next, !.successes = 0, !.bad = bad] \in Sizers
    BY <1>5, <1>7 DEF Sizers
  <2> QED
    BY <1>6, <2>1
<1>10. InBracket(Grow(s))
  <2>1. CASE GapOpen(s)
    BY <1>1, <1>5, <1>8, <2>1 DEF InBracket, Sizes, bad
  <2>2. CASE ~GapOpen(s)
    <3>1. bad = 0
      BY <2>2 DEF bad
    <3> QED
      BY <1>1, <1>5, <1>8, <3>1 DEF InBracket, Sizes
  <2> QED
    BY <2>1, <2>2
<1>11. CountersLow(Grow(s))
  BY <1>8, SlowThreshold DEF CountersLow
<1> QED
  BY <1>5, <1>8, <1>9, <1>10, <1>11

\* Success preserves the shape, the bracket and the counters of a sizer, and
\* never reaches a known-bad size across an open gap.
LEMMA SuccessFits ==
    ASSUME NEW s \in Sizers, NEW attempted,
           InBracket(s), CountersLow(s)
    PROVE  /\ Success(s, attempted) \in Sizers
           /\ InBracket(Success(s, attempted))
           /\ CountersLow(Success(s, attempted))
           /\ GapOpen(s) => Success(s, attempted).current < s.bad
<1> USE SizerAssumption
<1>1. CASE ~Adaptive \/ attempted # s.current
  BY <1>1 DEF Success, GapOpen, InBracket, Sizers, Sizes
<1>2. CASE Adaptive /\ attempted = s.current /\ s.current >= MaxSize
  BY <1>2 DEF Success, GapOpen, InBracket, CountersLow, Sizers, Sizes
<1>3. CASE Adaptive /\ attempted = s.current /\ ~(s.current >= MaxSize)
  <2> DEFINE t == CountSuccess(s)
  <2>1. /\ t \in Sizers /\ InBracket(t) /\ t.failures < ShrinkAfter
        /\ t.current = s.current /\ t.bad = s.bad
    <3>1. t = [s EXCEPT !.failures = 0, !.good = Larger(s.good, s.current),
                        !.successes = s.successes + 1]
      BY DEF CountSuccess, Sizers
    <3>2. Larger(s.good, s.current) = s.current
      BY DEF InBracket, Larger, Sizers, Sizes
    <3>3. /\ t.failures = 0 /\ t.good = s.current /\ t.bad = s.bad
          /\ t.current = s.current
      BY <3>1, <3>2 DEF Sizers
    <3>4. t \in Sizers
      <4> HIDE DEF t
      <4>1. t = [s EXCEPT !.failures = 0, !.good = s.current,
                          !.successes = s.successes + 1]
        BY <3>1, <3>2
      <4>2. s.current \in {0} \cup Sizes /\ s.successes + 1 \in Nat
        BY DEF Sizers
      <4> QED
        BY <4>1, <4>2 DEF Sizers
    <3> QED
      BY <3>3, <3>4 DEF InBracket, Sizers, Sizes
  <2>2. CASE t.successes < GrowAfter(t)
    <3>1. Success(s, attempted) = t
      BY <1>3, <2>2 DEF Success
    <3>2. GrowAfter(t) \in {AdaptSuccesses, SlowFactor * AdaptSuccesses}
      BY DEF GrowAfter
    <3>3. t.successes < SlowFactor * AdaptSuccesses
      BY <2>1, <2>2, <3>2, SlowThreshold DEF Sizers
    <3> QED
      BY <2>1, <3>1, <3>3 DEF CountersLow, GapOpen, InBracket, Sizers, Sizes
  <2>3. CASE ~(t.successes < GrowAfter(t))
    <3>1. Success(s, attempted) = Grow(t)
      BY <1>3, <2>3 DEF Success
    <3> QED
      BY <2>1, <3>1, GrowFits DEF GapOpen
  <2> QED
    BY <2>2, <2>3
<1> QED
  BY <1>1, <1>2, <1>3 DEF Sizers, Sizes

\* Shrink moves strictly down unless the size is the floor, which it keeps.
LEMMA ShrinkFits ==
    ASSUME NEW s \in Sizers, InBracket(s)
    PROVE  /\ Shrink(s) \in Sizers
           /\ InBracket(Shrink(s))
           /\ CountersLow(Shrink(s))
           /\ Shrink(s).current <= s.current
           /\ s.current > MinSize => Shrink(s).current < s.current
<1> DEFINE cur == s.current
           half == cur \div 2
<1>1. /\ cur \in Int /\ MinSize <= cur /\ cur <= MaxSize
      /\ s.bad \in Int /\ s.good \in Int /\ s.bad >= 0 /\ s.good >= 0
      /\ s.good <= cur /\ (s.bad > 0 => cur <= s.bad)
      /\ MinSize \in Nat /\ MaxSize \in Nat /\ MinSize > 0
      /\ ShrinkStep \in Nat /\ ShrinkAfter \in Nat /\ ShrinkAfter > 0
  BY SizerAssumption DEF Sizers, Sizes, InBracket
<1>2. half \in Int /\ half < cur
  BY <1>1
<1>3. /\ ShrinkTarget(s) \in Int /\ ShrinkTarget(s) < cur
      /\ (ShrinkStep = 0 /\ 0 < s.good /\ s.good < cur)
            => ShrinkTarget(s) = s.good
  BY <1>1, <1>2 DEF ShrinkTarget
<1>4. /\ ShrinkTo(s) \in Sizes /\ ShrinkTo(s) <= cur
      /\ cur > MinSize => ShrinkTo(s) < cur
      /\ (ShrinkStep = 0 /\ 0 < s.good /\ s.good < cur)
            => s.good <= ShrinkTo(s)
  BY <1>1, <1>3 DEF ShrinkTo, Larger, Sizes
<1> DEFINE good == IF ShrinkStep = 0 /\ s.good < cur THEN s.good ELSE 0
           bad == IF s.bad = 0 \/ cur < s.bad THEN cur ELSE s.bad
<1>5. Shrink(s) = [s EXCEPT !.current = ShrinkTo(s), !.failures = 0,
                            !.successes = 0, !.good = good, !.bad = bad]
  BY DEF Shrink, Sizers
<1>6. good \in {0} \cup Sizes /\ bad = cur /\ good <= ShrinkTo(s)
  BY <1>1, <1>4 DEF Sizers, Sizes
<1>7. /\ Shrink(s).current = ShrinkTo(s) /\ Shrink(s).bad = cur
      /\ Shrink(s).good = good
      /\ Shrink(s).failures = 0 /\ Shrink(s).successes = 0
  BY <1>5, <1>6 DEF Sizers
<1> HIDE DEF good, bad
<1>8. Shrink(s) \in Sizers
  <2>1. bad \in {0} \cup Sizes
    BY <1>1, <1>6 DEF Sizes
  <2> QED
    <3>1. [s EXCEPT !.current = ShrinkTo(s), !.failures = 0,
                    !.successes = 0, !.good = good, !.bad = bad] \in Sizers
      BY <1>4, <1>6, <2>1 DEF Sizers
    <3> QED
      BY <1>5, <3>1
<1>9. InBracket(Shrink(s))
  BY <1>1, <1>4, <1>6, <1>7 DEF InBracket, Sizes
<1>10. CountersLow(Shrink(s))
  BY <1>1, <1>7, SlowThreshold DEF CountersLow
<1> QED
  BY <1>4, <1>7, <1>8, <1>9, <1>10

\* FailureReason preserves the shape, the bracket and the counters of a
\* sizer and never raises the size.
LEMMA FailureReasonFits ==
    ASSUME NEW s \in Sizers, NEW attempted,
           InBracket(s), CountersLow(s)
    PROVE  /\ FailureReason(s, attempted) \in Sizers
           /\ InBracket(FailureReason(s, attempted))
           /\ CountersLow(FailureReason(s, attempted))
           /\ FailureReason(s, attempted).current <= s.current
<1> USE SizerAssumption
<1>1. CASE ~Adaptive \/ attempted # s.current
  BY <1>1 DEF FailureReason, Sizers, Sizes
<1>2. CASE Adaptive /\ attempted = s.current /\ s.failures + 1 < ShrinkAfter
  <2>1. FailureReason(s, attempted) =
            [s EXCEPT !.successes = 0, !.failures = s.failures + 1]
    BY <1>2 DEF FailureReason, Sizers
  <2> DEFINE t == FailureReason(s, attempted)
  <2>2. /\ t.current = s.current /\ t.good = s.good /\ t.bad = s.bad
        /\ t.successes = 0 /\ t.failures = s.failures + 1
    BY <2>1 DEF Sizers
  <2>3. s.failures + 1 \in Nat
    BY DEF Sizers
  <2>4. t \in Sizers
    <3>1. 0 \in Nat
      OBVIOUS
    <3>2. [s EXCEPT !.successes = 0, !.failures = s.failures + 1] \in Sizers
      BY <3>1, <2>3 DEF Sizers
    <3> QED
      BY <2>1, <3>2
  <2>5. InBracket(t) /\ CountersLow(t)
    BY <1>2, <2>2, SlowThreshold DEF InBracket, CountersLow
  <2> QED
    BY <2>2, <2>4, <2>5 DEF Sizers, Sizes
<1>3. CASE Adaptive /\ attempted = s.current /\ ~(s.failures + 1 < ShrinkAfter)
  BY <1>3, ShrinkFits DEF FailureReason
<1> QED
  BY <1>1, <1>2, <1>3

-----------------------------------------------------------------------------
(* Lanes                                                                   *)

\* The operators on lanes give lanes.
LEMMA LaneTypes ==
    /\ NewLane \in Lanes
    /\ \A l \in Lanes : /\ Discarded(l) \in Lanes
                        /\ Failed(l) \in Lanes
                        /\ Dialled(l) \in Lanes
                        /\ Answered(l) \in Lanes
                        /\ Shut(l) \in Lanes
<1>1. NewLane \in Lanes
  <2> DEFINE first == IF ReconnectEvery = 1 THEN 0 ELSE ReconnectEvery
  <2>1. first \in {0, 1, ReconnectEvery} /\ 0 \in 0 .. RequestCap
    BY LaneAssumption
  <2> HIDE DEF first
  <2>2. [every |-> first, open |-> FALSE, requests |-> 0, closed |-> FALSE]
          \in Lanes
    BY <2>1 DEF Lanes
  <2> QED
    BY <2>2 DEF NewLane, first
<1>2. ASSUME NEW l \in Lanes
      PROVE  Discarded(l) \in Lanes /\ Dialled(l) \in Lanes
  <2>1. 0 \in 0 .. RequestCap
    BY LaneAssumption
  <2>2. [l EXCEPT !.open = FALSE, !.requests = 0] \in Lanes
    BY <1>2, <2>1 DEF Lanes
  <2>3. [l EXCEPT !.open = TRUE, !.requests = 0] \in Lanes
    BY <1>2, <2>1 DEF Lanes
  <2> QED
    BY <2>2, <2>3 DEF Discarded, Dialled
<1>3. ASSUME NEW l \in Lanes
      PROVE  Failed(l) \in Lanes
  <2>1. [l EXCEPT !.every = 1] \in Lanes
    BY <1>3 DEF Lanes
  <2> QED
    BY <1>2, <1>3, <2>1 DEF Failed
<1>4. ASSUME NEW l \in Lanes
      PROVE  Answered(l) \in Lanes
  <2> DEFINE used == IF l.requests < RequestCap THEN l.requests + 1
                     ELSE RequestCap
  <2>1. used \in 0 .. RequestCap
    BY <1>4, LaneAssumption DEF Lanes
  <2> HIDE DEF used
  <2>2. [l EXCEPT !.requests = used] \in Lanes
    BY <1>4, <2>1 DEF Lanes
  <2> QED
    BY <1>2, <1>4, <2>2 DEF Answered, used
<1>5. ASSUME NEW l \in Lanes
      PROVE  Shut(l) \in Lanes
  <2>1. Discarded(l) \in Lanes
    BY <1>2, <1>5
  <2> QED
    BY <2>1 DEF Shut, Lanes
<1> QED
  BY <1>1, <1>2, <1>3, <1>4, <1>5

-----------------------------------------------------------------------------
(* Segments of a stream whose n-th byte is named n                         *)

\* s holds the bytes of the stream that follow the first a.
Segment(s, a) == s \in Seq(Nat) /\ \A i \in 1 .. Len(s) : s[i] = a + i

\* The empty sequence is a segment wherever it starts.
LEMMA EmptySegment ==
    ASSUME NEW a \in Nat
    PROVE  Segment(<<>>, a) /\ Len(<<>>) = 0
BY DEF Segment

\* A segment is determined by where it starts and how long it is.
LEMMA SegmentShape ==
    ASSUME NEW a \in Nat, NEW s, Segment(s, a)
    PROVE  Len(s) \in Nat /\ s = [i \in 1 .. Len(s) |-> a + i]
<1>1. s \in Seq(Nat)
  BY DEF Segment
<1>2. Len(s) \in Nat /\ s = [i \in 1 .. Len(s) |-> s[i]]
  BY <1>1, LenProperties
<1> QED
  BY <1>2 DEF Segment

\* Fresh bytes form a segment.
LEMMA SegmentFresh ==
    ASSUME NEW a \in Nat, NEW n \in Nat
    PROVE  /\ Segment([i \in 1 .. n |-> a + i], a)
           /\ Len([i \in 1 .. n |-> a + i]) = n
<1> DEFINE s == [i \in 1 .. n |-> a + i]
<1>1. \A i \in 1 .. n : a + i \in Nat
  OBVIOUS
<1>2. s \in [1 .. n -> Nat]
  BY <1>1
<1>3. s \in Seq(Nat) /\ Len(s) = n
  BY <1>2, SeqDef, LenProperties
<1> QED
  BY <1>3 DEF Segment

\* Cutting a segment gives two segments, the second of which starts later.
LEMMA SegmentCut ==
    ASSUME NEW a \in Nat, NEW s, Segment(s, a), NEW n \in 0 .. Len(s)
    PROVE  /\ Segment(SubSeq(s, 1, n), a)
           /\ Len(SubSeq(s, 1, n)) = n
           /\ Segment(SubSeq(s, n + 1, Len(s)), a + n)
           /\ Len(SubSeq(s, n + 1, Len(s))) = Len(s) - n
<1>1. s \in Seq(Nat) /\ Len(s) \in Nat /\ n \in Nat /\ n <= Len(s)
  BY SegmentShape DEF Segment
<1>2. \A i \in 1 .. Len(s) : s[i] \in Nat /\ s[i] = a + i
  BY <1>1 DEF Segment
<1>3. /\ SubSeq(s, 1, n) \in Seq(Nat)
      /\ Len(SubSeq(s, 1, n)) = n
      /\ \A i \in 1 .. n : SubSeq(s, 1, n)[i] = s[i]
  <2>1. \A i \in 1 .. n : s[i] \in Nat
    BY <1>1, <1>2
  <2>2. /\ SubSeq(s, 1, n) \in Seq(Nat)
        /\ Len(SubSeq(s, 1, n)) = IF 1 <= n THEN n - 1 + 1 ELSE 0
        /\ \A i \in 1 .. n - 1 + 1 : SubSeq(s, 1, n)[i] = s[1 + i - 1]
    BY <1>1, <2>1, SubSeqProperties
  <2> QED
    BY <1>1, <2>2
<1>4. /\ SubSeq(s, n + 1, Len(s)) \in Seq(Nat)
      /\ Len(SubSeq(s, n + 1, Len(s))) = Len(s) - n
      /\ \A i \in 1 .. Len(s) - n : SubSeq(s, n + 1, Len(s))[i] = s[n + i]
  <2>1. \A i \in n + 1 .. Len(s) : s[i] \in Nat
    BY <1>1, <1>2
  <2>2. /\ SubSeq(s, n + 1, Len(s)) \in Seq(Nat)
        /\ Len(SubSeq(s, n + 1, Len(s)))
             = IF n + 1 <= Len(s) THEN Len(s) - (n + 1) + 1 ELSE 0
        /\ \A i \in 1 .. Len(s) - (n + 1) + 1 :
               SubSeq(s, n + 1, Len(s))[i] = s[n + 1 + i - 1]
    BY <1>1, <2>1, SubSeqProperties
  <2>3. /\ Len(s) - (n + 1) + 1 = Len(s) - n
        /\ n + 1 <= Len(s) \/ Len(s) - n = 0
        /\ \A i \in 1 .. Len(s) - n : n + 1 + i - 1 = n + i
    BY <1>1
  <2>4. Len(SubSeq(s, n + 1, Len(s))) = Len(s) - n
    BY <2>2, <2>3
  <2>5. \A i \in 1 .. Len(s) - n : SubSeq(s, n + 1, Len(s))[i] = s[n + i]
    BY <2>2, <2>3
  <2> QED
    BY <2>2, <2>4, <2>5
<1>5. Segment(SubSeq(s, 1, n), a)
  BY <1>1, <1>2, <1>3 DEF Segment
<1>6. Segment(SubSeq(s, n + 1, Len(s)), a + n)
  <2>1. \A i \in 1 .. Len(s) - n :
            n + i \in 1 .. Len(s) /\ a + (n + i) = (a + n) + i
    BY <1>1
  <2>2. \A i \in 1 .. Len(s) - n : s[n + i] = (a + n) + i
    BY <1>2, <2>1
  <2> QED
    BY <1>4, <2>2 DEF Segment
<1> QED
  BY <1>3, <1>4, <1>5, <1>6

\* Adjacent segments join.
LEMMA SegmentJoin ==
    ASSUME NEW a \in Nat, NEW s, NEW t,
           Segment(s, a), Segment(t, a + Len(s))
    PROVE  Segment(s \o t, a) /\ Len(s \o t) = Len(s) + Len(t)
<1>1. /\ s \in Seq(Nat) /\ t \in Seq(Nat)
      /\ Len(s) \in Nat /\ Len(t) \in Nat
  BY LenProperties DEF Segment
<1>2. /\ s \o t \in Seq(Nat)
      /\ Len(s \o t) = Len(s) + Len(t)
      /\ \A i \in 1 .. Len(s) + Len(t) :
             (s \o t)[i] = IF i <= Len(s) THEN s[i] ELSE t[i - Len(s)]
  BY <1>1, ConcatProperties
<1>3. \A i \in 1 .. Len(s) + Len(t) : (s \o t)[i] = a + i
  <2> SUFFICES ASSUME NEW i \in 1 .. Len(s) + Len(t)
               PROVE  (s \o t)[i] = a + i
    OBVIOUS
  <2>1. CASE i <= Len(s)
    <3>1. i \in 1 .. Len(s)
      BY <1>1, <2>1
    <3> QED
      BY <1>2, <2>1, <3>1 DEF Segment
  <2>2. CASE ~(i <= Len(s))
    <3>1. i - Len(s) \in 1 .. Len(t) /\ (a + Len(s)) + (i - Len(s)) = a + i
      BY <1>1, <2>2
    <3>2. t[i - Len(s)] = (a + Len(s)) + (i - Len(s))
      BY <3>1 DEF Segment
    <3> QED
      BY <1>2, <2>2, <3>1, <3>2
  <2> QED
    BY <2>1, <2>2
<1> QED
  BY <1>2, <1>3 DEF Segment
=============================================================================
