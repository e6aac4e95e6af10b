---------------------------- MODULE Calibration ----------------------------
(***************************************************************************)
(* The search for the largest record that a path passes in one direction,  *)
(* as pure operators: probeMaximum and probeMaximumMaxFirst (chunk.go) and *)
(* their twin in internal/xorchunk/chunk.go, calibrateMaximum.             *)
(*                                                                         *)
(* A search k holds its stage, the size it is probing, the bracket found   *)
(* so far (good passed, bad failed, 0 for none) and the outcomes of the    *)
(* probes of this size.  When it is done, k.cand is its result.  The       *)
(* options o hold the range of sizes and whether the search begins at its  *)
(* top.                                                                    *)
(***************************************************************************)
EXTENDS Integers

CONSTANTS
    Growth,        \* factor of the ascent: 4
    Jump,          \* least size after the minimum: 512
    Fine,          \* width at which the bracket is narrow enough: 32
    CoarseStep,    \* step of the descent from the top: 128 KiB
    Attempts       \* probes that decide about a size: 3

ASSUME CalibrationAssumption ==
    /\ Growth \in Nat \ {0, 1}
    /\ Jump \in Nat
    /\ Fine \in Nat \ {0}
    /\ CoarseStep \in Nat \ {0}
    /\ Attempts \in Nat \ {0, 1, 2}

Min2(a, b) == IF a < b THEN a ELSE b
Max2(a, b) == IF a > b THEN a ELSE b

Outcomes == {"ok", "fail", "timeout"}
Unseen == [r \in Outcomes |-> 0]
Stages == {"ascend", "refine", "coarse", "fine", "done"}

Searches(o) ==
    [stage : Stages, cand : o.min .. o.max, good : 0 .. o.max, bad : 0 .. o.max,
     seen : [Outcomes -> 0 .. Attempts]]

Begin(o) ==
    [stage |-> IF o.maxFirst THEN "coarse" ELSE "ascend",
     cand |-> IF o.maxFirst THEN o.max ELSE o.min,
     good |-> 0, bad |-> 0, seen |-> Unseen]

Done(k, size) == [k EXCEPT !.stage = "done", !.cand = size, !.seen = Unseen]

Try(k, stage, size) ==
    [k EXCEPT !.stage = stage, !.cand = size, !.seen = Unseen]

-----------------------------------------------------------------------------
(* One size: two of three probes decide                                    *)

Probes(k) == k.seen["ok"] + k.seen["fail"] + k.seen["timeout"]

\* Mutant of Observe: a timeout counts as a failure.
ObserveTimeoutAsFailure(k, r) ==
    [k EXCEPT !.seen[IF r = "timeout" THEN "fail" ELSE r] = @ + 1]

Observe(k, r) == [k EXCEPT !.seen[r] = @ + 1]

\* The max-first search takes every first answer, the ascent a first success.
FirstDecides(k) ==
    \/ k.stage \in {"coarse", "fine"}
    \/ k.stage = "ascend" /\ k.seen["ok"] = 1

Settled(k) ==
    \/ Probes(k) = 1 /\ FirstDecides(k)
    \/ k.seen["ok"] = 2 \/ k.seen["fail"] = 2
    \/ Probes(k) = Attempts

\* Without a majority a timeout leaves the size undecided.
Verdict(k) ==
    IF k.seen["ok"] >= 2 THEN "ok"
    ELSE IF k.seen["fail"] >= 2 THEN "fail"
    ELSE IF k.seen["timeout"] > 0 THEN "timeout"
    ELSE IF k.seen["ok"] > k.seen["fail"] THEN "ok" ELSE "fail"

-----------------------------------------------------------------------------
(* The search                                                              *)

\* Mutant of NextUp: the step past the maximum is not cut.
NextUpUncut(k, o) == Growth * k.cand

NextUp(k, o) ==
    LET next == IF k.cand = o.min /\ o.max >= Jump
                THEN Max2(Growth * k.cand, Jump)
                ELSE Growth * k.cand
    IN  Min2(next, o.max)

\* The middle of the bracket, until it is narrow.
Bisect(k, stage) ==
    IF k.bad - k.good > Fine
    THEN Try(k, stage, k.good + (k.bad - k.good) \div 2)
    ELSE Done(k, k.good)

AfterAscend(k, o, verdict) ==
    CASE verdict = "ok" ->
           IF k.cand = o.max
           THEN Done(k, o.max)
           ELSE Try([k EXCEPT !.good = k.cand], "ascend", NextUp(k, o))
      [] verdict = "timeout" -> Done(k, IF k.good = 0 THEN o.min ELSE k.good)
      [] verdict = "fail" ->
           IF k.good = 0
           THEN Done(k, o.min)
           ELSE Bisect([k EXCEPT !.bad = k.cand], "refine")

AfterCoarse(k, o, verdict) ==
    CASE verdict = "ok" ->
           IF k.bad = 0
           THEN Done(k, k.cand)
           ELSE Bisect([k EXCEPT !.good = k.cand], "fine")
      [] verdict = "timeout" -> Done(k, k.cand)
      [] verdict = "fail" ->
           IF k.cand = o.min
           THEN Done(k, o.min)
           ELSE Try([k EXCEPT !.bad = k.cand], "coarse",
                    Max2(k.cand - CoarseStep, o.min))

AfterBisect(k, verdict) ==
    CASE verdict = "ok" -> Bisect([k EXCEPT !.good = k.cand], k.stage)
      [] verdict = "timeout" -> Done(k, k.good)
      [] verdict = "fail" -> Bisect([k EXCEPT !.bad = k.cand], k.stage)

Conclude(k, o) ==
    CASE k.stage = "ascend" -> AfterAscend(k, o, Verdict(k))
      [] k.stage = "coarse" -> AfterCoarse(k, o, Verdict(k))
      [] k.stage \in {"refine", "fine"} -> AfterBisect(k, Verdict(k))

\* What the outcome of one probe does to the search.
Answered(k, o, r) ==
    LET seen == Observe(k, r)
    IN  IF Settled(seen) THEN Conclude(seen, o) ELSE seen
=============================================================================
