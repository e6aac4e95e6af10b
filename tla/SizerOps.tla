------------------------------ MODULE SizerOps ------------------------------
(***************************************************************************)
(* The adaptive record-size controller (adaptiveSizer, chunk.go) as pure   *)
(* operators on a record: what one reported outcome does to the size.      *)
(*                                                                         *)
(* A sizer holds the size in use, the two counters of consecutive          *)
(* outcomes, and the bracket it has learned: good, the largest size known  *)
(* to pass, and bad, the smallest size known to fail (0 when unknown).     *)
(***************************************************************************)
EXTENDS Integers

CONSTANTS
    MinSize,          \* opts.minSize, the floor of the size
    MaxSize,          \* opts.maxSize, or the calibrated ceiling
    Adaptive,         \* opts.adaptive
    AdaptSuccesses,   \* successes required before growing
    ShrinkAfter,      \* consecutive failures required before shrinking
    ShrinkStep,       \* linear decrement; 0 selects good / halving
    GrowFloor,        \* smallest growth step: 32 in the code
    NearGap,          \* bad - good at which growth slows down: 64 in the code
    SlowFactor        \* the slow-down: 8 in the code

ASSUME SizerAssumption ==
    /\ MinSize \in Nat \ {0}
    /\ MaxSize \in Nat
    /\ MinSize <= MaxSize
    /\ Adaptive \in BOOLEAN
    /\ AdaptSuccesses \in Nat \ {0}
    /\ ShrinkAfter \in Nat \ {0}
    /\ ShrinkStep \in Nat
    /\ GrowFloor \in Nat \ {0}
    /\ NearGap \in Nat
    /\ SlowFactor \in Nat \ {0}

Smaller(a, b) == IF a < b THEN a ELSE b
Larger(a, b) == IF a > b THEN a ELSE b

Sizes == MinSize .. MaxSize

Sizers == [current : Sizes,
           failures : Nat,
           successes : Nat,
           good : {0} \cup Sizes,
           bad : {0} \cup Sizes]

\* newAdaptiveSizer: the start is clamped into the range.
NewSizer(start) ==
    [current |-> Smaller(Larger(start, MinSize), MaxSize),
     failures |-> 0, successes |-> 0, good |-> 0, bad |-> 0]

-----------------------------------------------------------------------------
(* Success(attempted)                                                      *)

\* Near a known failure boundary the sizer stays put for longer.
GrowAfter(s) ==
    IF s.bad > 0 /\ s.bad - s.good <= NearGap
    THEN SlowFactor * AdaptSuccesses
    ELSE AdaptSuccesses

\* An open bracket is bisected; a closed or unknown one is probed beyond.
GapOpen(s) == s.bad > s.current + 1

\* Mutants of GrowTarget: a known-bad size is ignored, or taken as the target.
GrowTargetIgnoringBad(s) == s.current + Larger(s.current \div 4, GrowFloor)
GrowTargetAtBad(s) == IF GapOpen(s) THEN s.bad ELSE GrowTargetIgnoringBad(s)

GrowTarget(s) ==
    IF GapOpen(s)
    THEN s.current + (s.bad - s.current) \div 2
    ELSE s.current + Larger(s.current \div 4, GrowFloor)

\* Mutant of Grow: a size next to a known-bad one is never probed beyond.
GrowInsideBracket(s) ==
    [s EXCEPT !.current =
                  IF s.bad = s.current + 1 THEN @
                  ELSE Larger(@, Smaller(GrowTarget(s), MaxSize)),
              !.successes = 0]

Grow(s) ==
    [s EXCEPT !.current = Larger(@, Smaller(GrowTarget(s), MaxSize)),
              !.successes = 0,
              !.bad = IF GapOpen(s) THEN @ ELSE 0]

CountSuccess(s) ==
    [s EXCEPT !.failures = 0,
              !.good = Larger(@, s.current),
              !.successes = @ + 1]

Success(s, attempted) ==
    IF ~Adaptive \/ attempted # s.current THEN s
    ELSE IF s.current >= MaxSize THEN [s EXCEPT !.failures = 0]
    ELSE LET t == CountSuccess(s)
         IN  IF t.successes < GrowAfter(t) THEN t ELSE Grow(t)

-----------------------------------------------------------------------------
(* FailureReason(attempted, cause)                                         *)

\* Linear in max-first mode, else back to the last good size, else half.
ShrinkTarget(s) ==
    IF ShrinkStep > 0 THEN s.current - ShrinkStep
    ELSE IF 0 < s.good /\ s.good < s.current THEN s.good
    ELSE s.current \div 2

\* Mutant of ShrinkTo: no clamps.
ShrinkToUnclamped(s) == ShrinkTarget(s)

\* The clamps at the end of FailureReason: never below the floor, and always
\* strictly down unless the floor itself failed.
ShrinkTo(s) ==
    LET next == Larger(ShrinkTarget(s), MinSize)
    IN  IF next >= s.current /\ s.current > MinSize
        THEN Larger(s.current - 1, MinSize)
        ELSE next

Shrink(s) ==
    [s EXCEPT !.current = ShrinkTo(s),
              !.failures = 0,
              !.successes = 0,
              !.good = IF ShrinkStep = 0 /\ @ < s.current THEN @ ELSE 0,
              !.bad = IF @ = 0 \/ s.current < @ THEN s.current ELSE @]

\* Mutant of FailureReason: a stale failure counts against the present size.
FailureReasonOfAny(s, attempted) ==
    IF ~Adaptive THEN s
    ELSE IF s.failures + 1 < ShrinkAfter
         THEN [s EXCEPT !.successes = 0, !.failures = @ + 1]
         ELSE Shrink(s)

FailureReason(s, attempted) ==
    IF ~Adaptive \/ attempted # s.current THEN s
    ELSE IF s.failures + 1 < ShrinkAfter
         THEN [s EXCEPT !.successes = 0, !.failures = @ + 1]
         ELSE Shrink(s)
=============================================================================
