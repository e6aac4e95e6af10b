---------------------------- MODULE AdaptiveSizer ----------------------------
(***************************************************************************)
(* One adaptiveSizer shared by several workers: a worker reads Current()   *)
(* under the sizer's mutex, runs a record of that size with no lock held,  *)
(* and reports the outcome later, when another worker may have moved the   *)
(* size.  The pollers of an X tunnel share one like this; a direction of a *)
(* B or BP tunnel has its own, the case of one worker.                     *)
(***************************************************************************)
EXTENDS SizerOps

CONSTANT Workers

VARIABLES
    tuner,     \* the shared controller
    attempt    \* attempt[w]: the size worker w is trying, 0 when it has none

sizerVars == <<tuner, attempt>>

SizerTypeOK ==
    /\ tuner \in Sizers
    /\ attempt \in [Workers -> {0} \cup Sizes]

SizerInit ==
    /\ \E start \in Sizes : tuner = NewSizer(start)
    /\ attempt = [w \in Workers |-> 0]

\* size := s.Current()
Begin(w) ==
    /\ attempt[w] = 0
    /\ attempt' = [attempt EXCEPT ![w] = tuner.current]
    /\ UNCHANGED tuner

\* The record was answered: s.Success(size).
ReportSuccess(w) ==
    /\ attempt[w] # 0
    /\ tuner' = Success(tuner, attempt[w])
    /\ attempt' = [attempt EXCEPT ![w] = 0]

\* The record failed with an error that is not a timeout.
ReportFailure(w) ==
    /\ attempt[w] # 0
    /\ tuner' = FailureReason(tuner, attempt[w])
    /\ attempt' = [attempt EXCEPT ![w] = 0]

\* The record timed out: a hard tunnel boundary, never fed to the sizer.
ReportTimeout(w) ==
    /\ attempt[w] # 0
    /\ attempt' = [attempt EXCEPT ![w] = 0]
    /\ UNCHANGED tuner

SizerNext == \E w \in Workers :
            \/ Begin(w)
            \/ ReportSuccess(w)
            \/ ReportFailure(w)
            \/ ReportTimeout(w)

SizerSpec == SizerInit /\ [][SizerNext]_sizerVars

-----------------------------------------------------------------------------
(* Safety                                                                  *)

\* What the sizer has learned is consistent with what it uses: the size lies
\* between the largest size known to pass and the smallest known to fail, and
\* it equals the failing one only at the floor, which cannot be left downwards.
Bracketed ==
    /\ tuner.good <= tuner.current
    /\ tuner.bad > 0 => /\ tuner.current <= tuner.bad
                        /\ tuner.current = tuner.bad => tuner.current = MinSize

\* The success counter is always below the threshold that would consume it,
\* also when the threshold jumps between its normal and its slow value; the
\* failure counter never reaches the shrink budget.
CountersBounded ==
    /\ tuner.successes < SlowFactor * AdaptSuccesses
    /\ tuner.failures < ShrinkAfter

\* While the gap between the size in use and a known-bad size is open, no
\* outcome, current or stale, moves the size to or past the known-bad one.
NeverJumpsPastKnownBad ==
    [][GapOpen(tuner) => tuner'.current < tuner.bad]_sizerVars

\* The size only moves for an outcome of the size in use: of several workers
\* that fail on one oversized value, the first shrinks it and the others,
\* whose attempts are stale by then, change nothing.
MovesOnlyOnCurrentAttempt ==
    [][tuner' # tuner =>
        \E w \in Workers : /\ attempt[w] = tuner.current
                           /\ attempt'[w] = 0]_sizerVars

-----------------------------------------------------------------------------
\* What docs/adaptive-chunk.md says of growth: the size moves towards a known
\* failing size only when that size lies within 64 bytes, and otherwise by
\* max(current/4, 32) bytes, never above the ceiling.
DocumentedGrowth ==
    [][(tuner'.current > tuner.current /\ tuner.bad - tuner.current > NearGap)
        => tuner'.current =
             Smaller(tuner.current + Larger(tuner.current \div 4, GrowFloor),
                     MaxSize)]_sizerVars
=============================================================================
