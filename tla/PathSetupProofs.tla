-------------------------- MODULE PathSetupProofs --------------------------
(***************************************************************************)
(* For every network, number of callers and of probe threads: the wire     *)
(* that the selector keeps was validated by a probe, and stays; and for    *)
(* every range of sizes, every limit of a path on a wire and number of     *)
(* faults: what a search has found is true of the wire whose records it    *)
(* sends, and every caller uses sizes that fit this wire: its own on B and *)
(* X, but the B wire of its mask on BP.  The first part rests on IInv      *)
(* alone, the second on IInv and SInv.                                     *)
(***************************************************************************)
EXTENDS PathSetup, SequenceTheorems, FiniteSetTheorems, TLAPS

Answers == [wire : WireChoices, ok : BOOLEAN]

Shape ==
    /\ case \in DOMAIN Worlds
    /\ selector \in [has : BOOLEAN, wire : WireChoices \cup {NoWire}]
    /\ pc \in [Callers -> Places]
    /\ wire \in [Callers -> WireChoices \cup {NoWire}]
    /\ next \in Nat \ {0}
    /\ probing \subseteq WireChoices
    /\ results \in Seq(Answers)

\* The mutex is held by the one caller that detects, which nobody does once
\* the wire is known, and no dial before main has done.
Alone ==
    /\ \A c \in Callers : pc[c] = "detect" =>
           /\ smu = c /\ ~selector.has
           /\ c # Main => pc[Main] \in {"off", "open"}
    /\ smu # NoWire => smu \in Callers /\ pc[smu] = "detect"
    /\ pc[Main] = "scan" => ~selector.has

\* The successes under way to a detection are answers of its endpoint.
Heard ==
    smu # NoWire =>
        \A i \in DOMAIN results :
            results[i].ok => <<endpoint, results[i].wire>> \in validated

Kept ==
    /\ selector.has => <<endpoint, selector.wire>> \in validated
    /\ ~selector.has => selector.wire = NoWire

Used == \A c \in Callers : wire[c] \in {NoWire, selector.wire, world.fallback}

IInv == Shape /\ Alone /\ Heard /\ Kept /\ Used

\* One step of ChoiceValidated.
Fixed ==
    /\ selector.has => selector' = selector /\ endpoint' = endpoint
    /\ selector'.has => <<endpoint', selector'.wire>> \in validated'
    /\ \A c \in Callers :
           wire'[c] \in {NoWire, selector'.wire, world.fallback}

-----------------------------------------------------------------------------
LEMMA InitIInv == Init => IInv
<1> SUFFICES ASSUME Init PROVE IInv
  OBVIOUS
<1>1. Shape
  BY DEF Init, Shape, Places
<1>2. Alone /\ Heard /\ Kept /\ Used
  BY PathAssumption DEF Init, Alone, Heard, Kept, Used, Callers
<1> QED
  BY <1>1, <1>2 DEF IInv

\* The part of the invariant that a step keeps if it leaves the selector, the
\* mutex and the channel alone, and moves callers between places where nothing
\* is detected.
LEMMA Quiet ==
    ASSUME IInv, pc' \in [Callers -> Places],
           \A c \in Callers : pc'[c] # pc[c] =>
               /\ pc[c] # "detect" /\ pc'[c] \notin {"detect", "scan"}
               /\ c = Main => pc[c] \notin {"off", "open"},
           wire' \in [Callers -> WireChoices \cup {NoWire}],
           \A c \in Callers : wire'[c] \in {NoWire, selector.wire, wire[c]},
           UNCHANGED <<env, selector, smu, det>>
    PROVE  IInv' /\ Fixed
<1> USE DEF IInv, env, det
<1>1. Shape'
  BY DEF Shape
<1>2. Alone'
  BY DEF Alone, Callers
<1>3. Heard' /\ Kept'
  BY DEF Heard, Kept
<1>4. world' = world
  BY DEF world
<1>5. Used'
  BY <1>4 DEF Used
<1>6. Fixed
  BY <1>3, <1>4, <1>5 DEF Fixed, Used, Kept
<1> QED
  BY <1>1, <1>2, <1>3, <1>5, <1>6

\* Main is a caller, and every fallback is a wire.
LEMMA Instance ==
    ASSUME Shape
    PROVE  /\ Main \in Callers /\ NoWire \notin Callers
           /\ world.fallback \in WireChoices
           /\ world.candidates \in Seq(WireChoices)
BY PathAssumption DEF Shape, world, Callers

-----------------------------------------------------------------------------
\* A detection begins with an empty channel.
LEMMA BeginStep ==
    ASSUME IInv, NEW c \in Callers, pc[c] \in {"scan", "choose"},
           smu = NoWire, ~selector.has,
           c # Main => pc[Main] \in {"off", "open"},
           BeginDetect(c), UNCHANGED <<env, selector, probing, calib>>
    PROVE  IInv' /\ Fixed
<1> USE DEF IInv, env, det, calib
<1>0. Main \in Callers /\ NoWire \notin Callers
  BY Instance
<1>1. pc' = [pc EXCEPT ![c] = "detect"] /\ smu' = c /\ results' = <<>> /\ next' = 1
  BY DEF BeginDetect, Goes
<1>2. Shape'
  BY <1>1 DEF Shape, Places
<1>3. \A d \in Callers : pc[d] # "detect"
  BY <1>0 DEF Alone
<1>4. Alone'
  BY <1>0, <1>1, <1>3 DEF Alone, Shape
<1>5. Heard' /\ Kept'
  BY <1>1 DEF Heard, Kept
<1>6. world' = world
  BY DEF world
<1>7. Used'
  BY <1>6 DEF Used
<1>8. Fixed
  BY <1>5, <1>6, <1>7 DEF Fixed, Used, Kept
<1> QED
  BY <1>2, <1>4, <1>5, <1>7, <1>8

\* While main scans, nobody else detects.
LEMMA ScanAlone ==
    ASSUME IInv, pc[Main] = "scan"
    PROVE  smu = NoWire /\ ~selector.has
BY DEF IInv, Alone

LEMMA ScanStep ==
    ASSUME IInv, Scan
    PROVE  IInv' /\ Fixed
<1> USE DEF IInv
<1>1. CASE endpoint \in world.reachable
  BY <1>1, ScanAlone, Instance, BeginStep DEF Scan, env
<1>2. CASE endpoint \notin world.reachable
  <2>1. UNCHANGED <<case, selector, pc, smu, next, results, probing, wire>>
    BY <1>2 DEF Scan, calib
  <2>2. smu = NoWire /\ ~selector.has
    BY ScanAlone DEF Scan
  <2>3. world' = world
    BY <2>1 DEF world
  <2> QED
    BY <2>1, <2>2, <2>3 DEF Shape, Alone, Heard, Kept, Used, Fixed
<1> QED
  BY <1>1, <1>2

LEMMA ScanFailsStep ==
    ASSUME IInv, ScanFails
    PROVE  IInv' /\ Fixed
<1>1. smu = NoWire /\ ~selector.has
  BY ScanAlone DEF ScanFails
<1>2. \A c \in Callers : pc'[c] = "failed"
  BY DEF ScanFails
<1>3. pc' \in [Callers -> Places]
  BY DEF ScanFails, Places
<1>4. Main \in Callers /\ NoWire \notin Callers
  BY Instance DEF IInv
<1>5. UNCHANGED <<case, endpoint, validated, selector, smu, next, probing, results, wire>>
  BY DEF ScanFails, env, det, calib
<1>6. world' = world
  BY <1>5 DEF world
<1>7. Shape' /\ Heard' /\ Kept' /\ Used'
  BY <1>1, <1>3, <1>5, <1>6 DEF IInv, Shape, Heard, Kept, Used
<1>8. Alone'
  BY <1>1, <1>2, <1>4, <1>5 DEF Alone
<1>9. Fixed
  BY <1>5, <1>6, <1>7 DEF IInv, Fixed, Used, Kept
<1> QED
  BY <1>7, <1>8, <1>9 DEF IInv

LEMMA ChooseStep ==
    ASSUME IInv, NEW c \in Callers, Choose(c)
    PROVE  IInv' /\ Fixed
<1> USE DEF IInv
<1>1. CASE selector.has
  <2>1. /\ wire' = [wire EXCEPT ![c] = selector.wire]
        /\ pc' = [pc EXCEPT ![c] = "lookup"]
        /\ pc[c] = "choose"
        /\ UNCHANGED <<env, selector, smu, det>>
    BY <1>1 DEF Choose, Goes, det
  <2>2. pc' \in [Callers -> Places]
    BY <2>1 DEF Shape, Places
  <2>3. wire' \in [Callers -> WireChoices \cup {NoWire}]
    BY <2>1 DEF Shape
  <2> QED
    BY <2>1, <2>2, <2>3, Quiet DEF Shape
<1>2. CASE ~selector.has
  BY <1>2, BeginStep DEF Choose, calib
<1> QED
  BY <1>1, <1>2

LEMMA LaunchStep ==
    ASSUME IInv, NEW c \in Callers, Launch(c)
    PROVE  IInv' /\ Fixed
<1> USE DEF IInv
<1>1. UNCHANGED <<case, endpoint, validated, selector, smu, results, pc, wire>>
  BY DEF Launch, env, calib
<1>2. world.candidates[next] \in WireChoices
  BY Instance, LenProperties DEF Launch, Shape
<1>3. Shape'
  BY <1>1, <1>2 DEF Shape, Launch
<1>4. world' = world
  BY <1>1 DEF world
<1>5. Alone' /\ Heard' /\ Kept' /\ Used'
  BY <1>1, <1>4 DEF Alone, Heard, Kept, Used
<1> QED
  BY <1>1, <1>3, <1>4, <1>5 DEF Fixed, Used, Kept

LEMMA ReceiveStep ==
    ASSUME IInv, NEW c \in Callers, Receive(c)
    PROVE  IInv' /\ Fixed
<1> USE DEF IInv
<1> DEFINE got == Head(results)
<1>1. pc[c] = "detect" /\ results # <<>> /\ results' = Tail(results)
  BY DEF Receive
<1>2. /\ UNCHANGED <<case, validated, next, probing>>
      /\ world' = world
  BY DEF Receive, world
<1>3. /\ smu = c /\ ~selector.has /\ selector.wire = NoWire
      /\ c # Main => pc[Main] \in {"off", "open"}
      /\ \A d \in Callers \ {c} : pc[d] # "detect"
  BY <1>1 DEF Alone, Kept
<1>4. /\ got \in Answers /\ results' \in Seq(Answers)
      /\ \A i \in DOMAIN results' :
             /\ i + 1 \in DOMAIN results
             /\ results'[i] = results[i + 1]
  BY <1>1, HeadTailProperties, LenProperties DEF Shape
<1>5. got = results[1] /\ 1 \in DOMAIN results
  BY <1>1, LenProperties DEF Shape
<1>6. Main \in Callers /\ NoWire \notin Callers /\ world.fallback \in WireChoices
  BY Instance
<1>7. got.ok => <<endpoint, got.wire>> \in validated
  BY <1>3, <1>5, <1>6 DEF Heard
<1>8. got.wire \in WireChoices /\ got.ok \in BOOLEAN
  BY <1>4 DEF Answers
<1> HIDE DEF got
<1>10. CASE ~(got.ok \/ Exhausted)
  <2>1. UNCHANGED <<selector, pc, wire, endpoint, smu>>
    BY <1>10 DEF Receive, got
  <2>2. Shape' /\ Alone' /\ Kept' /\ Used'
    BY <1>2, <1>4, <2>1 DEF Shape, Alone, Kept, Used
  <2>3. Heard'
    BY <1>2, <1>3, <1>4, <1>6, <2>1 DEF Heard
  <2> QED
    BY <1>2, <1>3, <2>1, <2>2, <2>3 DEF Fixed, Used
<1>11. CASE got.ok
  <2>1. selector' = [has |-> TRUE, wire |-> got.wire] /\ endpoint' = endpoint
        /\ smu' = NoWire
    BY <1>11 DEF Receive, got, Decides
  <2>2. /\ pc' \in [Callers -> Places] /\ pc'[c] \in {"choose", "lookup"}
        /\ \A d \in Callers \ {c} : pc'[d] = pc[d]
    BY <1>11 DEF Receive, got, Goes, Shape, Places
  <2>3. \/ wire' = wire
        \/ wire' = [wire EXCEPT ![c] = got.wire]
    BY <1>11 DEF Receive, got
  <2>4. wire' \in [Callers -> WireChoices \cup {NoWire}]
    BY <1>8, <2>3 DEF Shape
  <2>5. Shape'
    BY <1>2, <1>4, <1>8, <2>1, <2>2, <2>4 DEF Shape
  <2>6. Alone'
    BY <1>1, <1>3, <1>6, <2>1, <2>2 DEF Alone
  <2>7. Heard' /\ Kept'
    BY <1>2, <1>7, <1>11, <2>1 DEF Heard, Kept
  <2>8. Used'
    BY <1>2, <1>3, <2>1, <2>3 DEF Used, Shape
  <2> QED
    BY <1>2, <1>3, <2>1, <2>5, <2>6, <2>7, <2>8 DEF Fixed, Used, Kept
<1>12. CASE ~got.ok /\ Exhausted
  <2>1. UNCHANGED selector /\ smu' = NoWire
    BY <1>12 DEF Receive, got, Undecided
  <2>2. /\ pc' \in [Callers -> Places] /\ pc'[c] \in {"scan", "lookup"}
        /\ c # Main => pc'[c] # "scan"
        /\ \A d \in Callers \ {c} : pc'[d] = pc[d]
    BY <1>12 DEF Receive, got, Goes, Shape, Places
  <2>3. \/ wire' = wire
        \/ wire' = [wire EXCEPT ![c] = world.fallback]
    BY <1>12 DEF Receive, got
  <2>4. wire' \in [Callers -> WireChoices \cup {NoWire}]
    BY <1>6, <2>3 DEF Shape
  <2>5. Shape'
    BY <1>2, <1>4, <2>1, <2>2, <2>4 DEF Shape
  <2>6. Alone'
    BY <1>3, <1>6, <2>1, <2>2 DEF Alone
  <2>7. Heard' /\ Kept'
    BY <1>3, <2>1 DEF Heard, Kept
  <2>8. Used'
    BY <1>2, <1>3, <2>1, <2>3 DEF Used, Shape
  <2> QED
    BY <1>2, <1>3, <2>1, <2>5, <2>6, <2>7, <2>8 DEF Fixed, Used
<1> QED
  BY <1>8, <1>10, <1>11, <1>12

LEMMA ProbeEndsStep ==
    ASSUME IInv, NEW w \in probing, ProbeEnds(w)
    PROVE  IInv' /\ Fixed
<1> USE DEF IInv
<1>1. UNCHANGED <<case, endpoint, selector, smu, next, pc, wire>>
  BY DEF ProbeEnds, calib
<1>2. PICK ok \in BOOLEAN :
          /\ results' = Append(results, [wire |-> w, ok |-> ok])
          /\ validated' = IF ok THEN validated \cup {<<endpoint, w>>} ELSE validated
  BY DEF ProbeEnds
<1>3. w \in WireChoices /\ probing' \subseteq WireChoices
  BY DEF Shape, ProbeEnds
<1>4. [wire |-> w, ok |-> ok] \in Answers
  BY <1>3 DEF Answers
<1>5. /\ results' \in Seq(Answers)
      /\ \A i \in DOMAIN results' :
             \/ i \in DOMAIN results /\ results'[i] = results[i]
             \/ results'[i] = [wire |-> w, ok |-> ok]
  <2>1. /\ results' \in Seq(Answers) /\ Len(results') = Len(results) + 1
        /\ \A i \in 1 .. Len(results) : results'[i] = results[i]
        /\ results'[Len(results) + 1] = [wire |-> w, ok |-> ok]
    BY <1>2, <1>4, AppendProperties DEF Shape
  <2>2. DOMAIN results = 1 .. Len(results) /\ DOMAIN results' = 1 .. Len(results')
        /\ Len(results) \in Nat
    BY <2>1, LenProperties DEF Shape
  <2> QED
    BY <2>1, <2>2
<1>6. world' = world
  BY <1>1 DEF world
<1>7. Shape'
  BY <1>1, <1>3, <1>5 DEF Shape
<1>8. Alone' /\ Used'
  BY <1>1, <1>6 DEF Alone, Used
<1>9. Heard'
  BY <1>1, <1>2, <1>5 DEF Heard
<1>10. Kept'
  BY <1>1, <1>2 DEF Kept
<1> QED
  BY <1>1, <1>6, <1>7, <1>8, <1>9, <1>10 DEF Fixed, Used, Kept

LEMMA SizeSteps ==
    ASSUME IInv, NEW c \in Callers,
           Lookup(c) \/ Probe(c) \/ Store(c) \/ DialAgain(c) \/ Expire
    PROVE  IInv' /\ Fixed
<1> USE DEF IInv
<1>1. UNCHANGED <<env, selector, smu, det>>
  BY DEF Lookup, Probe, Store, DialAgain, Expire
<1>2. \/ UNCHANGED pc
      \/ /\ pc[c] \in {"lookup", "up", "down", "store"}
         /\ \E p \in {"up", "down", "store", "open"} : pc' = [pc EXCEPT ![c] = p]
      \/ c # Main /\ pc[c] = "open" /\ pc' = [pc EXCEPT ![c] = "choose"]
  <2>1. CASE Lookup(c)
    BY <2>1 DEF Lookup, Takes, Calibrates, Goes
  <2>2. CASE Probe(c)
    BY <2>2 DEF Probe, Calibrates, Goes, Dirs
  <2>3. CASE Store(c)
    BY <2>3 DEF Store, Goes
  <2>4. CASE DialAgain(c) \/ Expire
    BY <2>4 DEF DialAgain, Expire, Goes
  <2> QED
    BY <2>1, <2>2, <2>3, <2>4
<1>3. wire' = wire \/ wire' = [wire EXCEPT ![c] = NoWire]
  BY DEF Lookup, Probe, Store, DialAgain, Expire
<1>4. pc' \in [Callers -> Places]
  BY <1>2 DEF Shape, Places
<1>5. wire' \in [Callers -> WireChoices \cup {NoWire}]
      /\ \A d \in Callers : wire'[d] \in {NoWire, selector.wire, wire[d]}
  BY <1>3 DEF Shape
<1>6. \A d \in Callers : pc'[d] # pc[d] =>
          /\ pc[d] # "detect" /\ pc'[d] \notin {"detect", "scan"}
          /\ d = Main => pc[d] \notin {"off", "open"}
  BY <1>2 DEF Shape
<1> QED
  BY <1>1, <1>4, <1>5, <1>6, Quiet

LEMMA StepIInv ==
    ASSUME IInv, [Next]_vars
    PROVE  IInv' /\ (Fixed \/ UNCHANGED vars)
<1>1. CASE Expire
  BY <1>1, SizeSteps, Instance DEF IInv
<1>2. CASE \E c \in Callers : Step(c) \/ DialAgain(c)
  BY <1>2, ScanStep, ScanFailsStep, ChooseStep, LaunchStep, ReceiveStep, SizeSteps
     DEF Step
<1>3. CASE \E w \in probing : ProbeEnds(w)
  BY <1>3, ProbeEndsStep
<1>4. CASE UNCHANGED vars
  <2>1. UNCHANGED <<env, selector, smu, det, pc, wire>>
    BY <1>4 DEF vars, env, det, calib
  <2> QED
    BY <1>4, <2>1, Quiet DEF IInv, Shape
<1> QED
  BY <1>1, <1>2, <1>3, <1>4 DEF Next

\* The selector keeps only a wire that has answered a probe of the endpoint in
\* use, keeps it for good, and a caller uses it or a fallback that is not kept:
\* detectLocked, mode and selectServerEndpoint.
THEOREM ChoiceIsValidated == Spec => ChoiceValidated
<1>1. IInv /\ [Next]_vars => IInv'
  BY StepIInv
<1>2. IInv /\ [Next]_vars => [Fixed]_vars
  BY StepIInv
<1> QED
  BY InitIInv, <1>1, <1>2, PTL DEF Spec, ChoiceValidated, Fixed

-----------------------------------------------------------------------------
(* The inductive invariant of the sizes                                    *)

\* The stages of a search under way, and where its bracket lies.
Staged(k, o) ==
    /\ k \in Searches(o)
    /\ k.stage \in IF o.maxFirst THEN {"coarse", "fine"} ELSE {"ascend", "refine"}
    /\ k.stage = "ascend" =>
           /\ k.bad = 0
           /\ \/ k.good = 0 /\ k.cand = o.min
              \/ o.min <= k.good /\ k.good < k.cand
    /\ k.stage = "coarse" =>
           /\ k.good = 0
           /\ (k.bad = 0 /\ k.cand = o.max) \/ k.cand < k.bad
    /\ k.stage \in {"refine", "fine"} =>
           o.min <= k.good /\ k.good < k.cand /\ k.cand < k.bad

\* What it has found is true of the path, but for the faults that hit it, and
\* so is what the probes of this size have said.
Sound(k, limit, h) ==
    /\ BracketIsTrue(k, limit, h)
    /\ k.seen["ok"] > 0 => k.cand <= limit
    /\ k.cand <= limit => k.seen["fail"] <= h.fail
    /\ k.seen["timeout"] <= h.timeout

\* Between two probes the size is not decided yet.
Unsettled(k) ==
    /\ k.seen["ok"] <= 1 /\ k.seen["fail"] <= 1 /\ Probes(k) < Attempts
    /\ k.stage \in {"coarse", "fine"} => Probes(k) = 0

SearchInv(k, o, limit, h) == Staged(k, o) /\ Sound(k, limit, h) /\ Unsettled(k)

\* The wires and probes that are at hand are the world's.
SelectTypes ==
    /\ endpoint \in 1 .. world.endpoints + 1
    /\ selector.wire \in Wires \cup {NoWire}
    /\ next <= Len(world.candidates) + 1
    /\ probing \subseteq Wires
    /\ \A i \in DOMAIN results : results[i].wire \in Wires
    /\ lost \in 0 .. world.lost
    /\ wire \in [Callers -> Wires \cup {NoWire}]

SizeTypes ==
    /\ search \in [Callers -> Searches(world.options)]
    /\ hit \in [Callers -> Faults]
    /\ sizes \in [Callers -> Founds] /\ xsizes \in Founds
    /\ stored.sizes \in Founds /\ stored.fresh \in BOOLEAN
    /\ stored.workers \in 1 .. MaxWorkers

\* The probes of a detection are the launched ones; between detections none
\* runs until the wire is known.
Counted ==
    /\ IsFiniteSet(probing) /\ inflight \in 0 .. Threads
    /\ Len(results) + Cardinality(probing) <= inflight
    /\ smu = NoWire /\ ~selector.has => inflight = 0

Sized == {"lookup", "up", "down", "store", "open"}

\* A caller that looks for its sizes has a wire, the selector's if main has
\* prepared it, and main was first.
Prepared ==
    /\ (pc[Main] = "off") <=> (Main \notin world.callers)
    /\ pc[Main] \in {"choose"} \cup Sized => selector.has
    /\ pc[Main] = "detect" => endpoint <= world.endpoints
    /\ selector.has => selector.wire \in Wires
    /\ \A c \in Callers : pc[c] \in Sized =>
           /\ wire[c] \in Wires
           /\ pc[Main] # "off" => selector.has /\ wire[c] = selector.wire
           /\ c # Main => pc[Main] \in {"off", "open"}

\* A size that fits what a search for the wire w finds out about.
FitSizes(found, w, d) ==
    Fits(found, world.limit[Probed(w)][d],
         IF w.mode = "x" THEN [world.options EXCEPT !.maxFirst = FALSE]
         ELSE world.options)

\* What a caller has found so far is true of the wire that its probes test ...
CallerFits(c) ==
    /\ pc[c] \in Dirs =>
           SearchInv(search[c], Options(c), ProbeLimit(c, pc[c]), hit[c])
    /\ pc[c] \in {"down", "store", "open"} => FitSizes(sizes[c]["up"], wire[c], "up")
    /\ pc[c] \in {"store", "open"} => FitSizes(sizes[c]["down"], wire[c], "down")

\* ... and so is what it may take: the cached profile, of the B wire with the
\* mask that its key names, whichever of B and BP has stored it, and the sizes
\* of the X wire once main has prepared it.
StoredFits ==
    stored.fresh =>
        LET measured == [mode |-> "b", mask |-> stored.key[2]]
        IN  \A d \in Dirs :
                Fits(stored.sizes[d], world.limit[measured][d], world.options)

XFits ==
    pc[Main] = "open" /\ wire[Main].mode = "x" =>
        \A d \in Dirs : FitSizes(xsizes[d], wire[Main], d)

Sizing == (\A c \in Callers : CallerFits(c)) /\ StoredFits /\ XFits

SInv == SelectTypes /\ SizeTypes /\ Counted /\ Prepared /\ Sizing

-----------------------------------------------------------------------------
(* The search                                                              *)

OptionsSet == [min : Nat \ {0}, max : Nat, maxFirst : BOOLEAN]

\* What a probe that is seen adds to a search: the answers about one size, of
\* which enough may now be in.
Seen(k, o, limit, h) ==
    /\ Staged(k, o) /\ Sound(k, limit, h)
    /\ k.seen["ok"] <= 2 /\ k.seen["fail"] <= 2
    /\ 0 < Probes(k) /\ Probes(k) <= Attempts
    /\ k.stage \in {"coarse", "fine"} => Probes(k) = 1

\* What a search has come to: a result that fits, or a search under way.
Resolved(k, o, limit, h) ==
    IF k.stage = "done"
    THEN k.cand \in o.min .. o.max /\ Fits([size |-> k.cand, hit |-> h], limit, o)
    ELSE SearchInv(k, o, limit, h)

\* The fields of a search.
LEMMA SearchFields ==
    ASSUME NEW o \in OptionsSet, o.min <= o.max, NEW k \in Searches(o)
    PROVE  /\ o.min \in Nat /\ o.max \in Nat /\ o.min > 0
           /\ k.stage \in Stages
           /\ k.cand \in Nat /\ o.min <= k.cand /\ k.cand <= o.max
           /\ k.good \in Nat /\ k.good <= o.max
           /\ k.bad \in Nat /\ k.bad <= o.max
           /\ k.seen \in [Outcomes -> 0 .. Attempts] /\ Attempts \in Nat
           /\ \A r \in Outcomes : k.seen[r] \in Nat
           /\ k.seen["ok"] \in Nat /\ k.seen["fail"] \in Nat
           /\ k.seen["timeout"] \in Nat
<1>1. Attempts \in Nat
  BY CalibrationAssumption
<1>2. o.min \in Nat /\ o.max \in Nat /\ o.min > 0
  BY DEF OptionsSet
<1> QED
  BY <1>1, <1>2 DEF Searches, Outcomes

\* A search begins with nothing found.
LEMMA BeginSearches ==
    ASSUME NEW o \in OptionsSet, o.min <= o.max, NEW limit \in Nat
    PROVE  SearchInv(Begin(o), o, limit, NoFault)
<1>1. o.min \in Nat /\ o.max \in Nat /\ o.maxFirst \in BOOLEAN
  BY DEF OptionsSet
<1>2. Unseen \in [Outcomes -> 0 .. Attempts]
      /\ \A r \in Outcomes : Unseen[r] = 0
  BY CalibrationAssumption DEF Unseen
<1>3. Unseen["ok"] = 0 /\ Unseen["fail"] = 0 /\ Unseen["timeout"] = 0
  BY <1>2 DEF Outcomes
<1>4. Staged(Begin(o), o)
  BY <1>1, <1>2 DEF Begin, Staged, Searches, Stages
<1>5. Sound(Begin(o), limit, NoFault)
  BY <1>1, <1>3 DEF Begin, Sound, BracketIsTrue, NoFault
<1>6. Unsettled(Begin(o))
  BY <1>3, CalibrationAssumption DEF Begin, Unsettled, Probes
<1> QED
  BY <1>4, <1>5, <1>6 DEF SearchInv

\* A probe tells whether its size passes, or a fault of the kind it reports is
\* added to those that hit the search.
LEMMA ObserveSees ==
    ASSUME NEW o \in OptionsSet, o.min <= o.max, NEW limit \in Nat,
           NEW h \in Faults, NEW k, SearchInv(k, o, limit, h),
           NEW r \in Outcomes, NEW g,
           \/ r = (IF k.cand <= limit THEN "ok" ELSE "fail") /\ g = h
           \/ r # "ok" /\ g = [h EXCEPT ![r] = @ + 1]
    PROVE  Seen(Observe(k, r), o, limit, g) /\ g \in Faults
<1> DEFINE s == Observe(k, r)
<1>1. k \in Searches(o)
  BY DEF SearchInv, Staged
<1>2. /\ k.seen \in [Outcomes -> 0 .. Attempts] /\ Attempts \in Nat
      /\ k.seen["ok"] \in Nat /\ k.seen["fail"] \in Nat
      /\ k.seen["timeout"] \in Nat /\ k.cand \in Nat
  BY <1>1, SearchFields
<1>3. /\ h.fail \in Nat /\ h.timeout \in Nat
      /\ g.fail \in Nat /\ g.timeout \in Nat /\ g \in Faults
      /\ h.fail <= g.fail /\ h.timeout <= g.timeout
      /\ r = "fail" => k.cand > limit \/ g.fail = h.fail + 1
      /\ r = "timeout" => g.timeout = h.timeout + 1
      /\ r = "ok" => k.cand <= limit
  BY <1>2 DEF Faults, Outcomes
<1>4. /\ k.seen["ok"] <= 1 /\ k.seen["fail"] <= 1 /\ Probes(k) < Attempts
      /\ k.stage \in {"coarse", "fine"} => Probes(k) = 0
      /\ k.seen["ok"] > 0 => k.cand <= limit
      /\ k.cand <= limit => k.seen["fail"] <= h.fail
      /\ k.seen["timeout"] <= h.timeout
      /\ BracketIsTrue(k, limit, h)
  BY DEF SearchInv, Unsettled, Sound
<1>5. s = [k EXCEPT !.seen = [k.seen EXCEPT ![r] = @ + 1]]
  BY <1>1 DEF Observe, Searches
<1>6. /\ s.stage = k.stage /\ s.cand = k.cand /\ s.good = k.good
      /\ s.bad = k.bad /\ s.seen = [k.seen EXCEPT ![r] = @ + 1]
  BY <1>1, <1>5 DEF Searches
<1>7. /\ s.seen["ok"] = k.seen["ok"] + IF r = "ok" THEN 1 ELSE 0
      /\ s.seen["fail"] = k.seen["fail"] + IF r = "fail" THEN 1 ELSE 0
      /\ s.seen["timeout"] = k.seen["timeout"] + IF r = "timeout" THEN 1 ELSE 0
  BY <1>2, <1>6 DEF Outcomes
<1>8. Probes(s) = Probes(k) + 1
  BY <1>2, <1>7 DEF Probes, Outcomes
<1>9. Probes(k) \in Nat /\ k.seen[r] <= Probes(k)
  BY <1>2 DEF Probes, Outcomes
<1>10. s \in Searches(o)
  <2>1. k.seen[r] + 1 \in 0 .. Attempts
    BY <1>2, <1>4, <1>9 DEF Outcomes
  <2>2. [k.seen EXCEPT ![r] = @ + 1] \in [Outcomes -> 0 .. Attempts]
    BY <1>2, <2>1
  <2> HIDE DEF s
  <2> QED
    BY <1>1, <1>5, <2>2 DEF Searches
<1> HIDE DEF s
<1>11. Staged(s, o)
  BY <1>6, <1>10 DEF SearchInv, Staged
<1>12. BracketIsTrue(s, limit, g)
  BY <1>3, <1>4, <1>6 DEF BracketIsTrue
<1>13. Sound(s, limit, g)
  BY <1>2, <1>3, <1>4, <1>6, <1>7, <1>12 DEF Sound
<1>14. Seen(s, o, limit, g)
  BY <1>2, <1>4, <1>6, <1>7, <1>8, <1>9, <1>11, <1>13 DEF Seen
<1> QED
  BY <1>3, <1>14 DEF s


\* The fields of a search whose answers are in.
LEMMA SeenFields ==
    ASSUME NEW o \in OptionsSet, o.min <= o.max, NEW limit \in Nat,
           NEW h \in Faults, NEW k, Seen(k, o, limit, h)
    PROVE  /\ k \in Searches(o)
           /\ h.fail \in Nat /\ h.timeout \in Nat
           /\ k.seen["ok"] \in Nat /\ k.seen["fail"] \in Nat
           /\ k.seen["timeout"] \in Nat
           /\ Attempts \in Nat /\ Attempts >= 3
           /\ k.cand \in Nat /\ k.good \in Nat /\ k.bad \in Nat
<1>1. k \in Searches(o)
  BY DEF Seen, Staged
<1>2. h.fail \in Nat /\ h.timeout \in Nat
  BY DEF Faults
<1>3. Attempts \in Nat /\ Attempts >= 3
  BY CalibrationAssumption
<1> QED
  BY <1>1, <1>2, <1>3, SearchFields

\* What a verdict says of the size: it passes, or it does not but for faults;
\* a timeout is a fault, and where it takes three probes not the only one.
LEMMA Verdicts ==
    ASSUME NEW o \in OptionsSet, o.min <= o.max, NEW limit \in Nat,
           NEW h \in Faults, NEW k, Seen(k, o, limit, h), Settled(k)
    PROVE  /\ Verdict(k) \in Outcomes
           /\ Verdict(k) = "ok" => k.cand <= limit
           /\ Verdict(k) = "fail" =>
                  \/ k.cand > limit
                  \/ h.fail >= IF k.stage \in {"coarse", "fine"} THEN 1 ELSE 2
           /\ Verdict(k) = "timeout" =>
                  /\ h.timeout >= 1
                  /\ k.stage \notin {"coarse", "fine"} => h.fail + h.timeout >= 2
<1> DEFINE ok == k.seen["ok"]
           fail == k.seen["fail"]
           late == k.seen["timeout"]
           first == k.stage \in {"coarse", "fine"}
<1>1. /\ h.fail \in Nat /\ h.timeout \in Nat
      /\ ok \in Nat /\ fail \in Nat /\ late \in Nat
      /\ Attempts \in Nat /\ Attempts >= 3 /\ k.cand \in Nat
  BY SeenFields
<1>2. /\ ok > 0 => k.cand <= limit
      /\ k.cand <= limit => fail <= h.fail
      /\ late <= h.timeout
  BY DEF Seen, Sound
<1>3. /\ ok <= 2 /\ fail <= 2 /\ 0 < ok + fail + late
      /\ first => ok + fail + late = 1
  BY DEF Seen, Probes
<1>4. \/ ok + fail + late = 1 /\ (first \/ ok = 1)
      \/ ok = 2 \/ fail = 2
      \/ ok + fail + late = Attempts
  BY DEF Settled, Probes, FirstDecides
<1>5. Verdict(k) = IF ok >= 2 THEN "ok"
                   ELSE IF fail >= 2 THEN "fail"
                   ELSE IF late > 0 THEN "timeout"
                   ELSE IF ok > fail THEN "ok" ELSE "fail"
  BY DEF Verdict
<1> HIDE DEF ok, fail, late
<1>6. CASE first
  BY <1>1, <1>2, <1>3, <1>5, <1>6 DEF Outcomes
<1>7. CASE ~first
  BY <1>1, <1>2, <1>3, <1>4, <1>5, <1>7 DEF Outcomes
<1> QED
  BY <1>6, <1>7

\* Nothing is seen of a size that is tried for the first time.
LEMMA Untried ==
    /\ Unseen \in [Outcomes -> 0 .. Attempts]
    /\ Unseen["ok"] = 0 /\ Unseen["fail"] = 0 /\ Unseen["timeout"] = 0
<1>1. Unseen \in [Outcomes -> 0 .. Attempts] /\ \A r \in Outcomes : Unseen[r] = 0
  BY CalibrationAssumption DEF Unseen
<1> QED
  BY <1>1 DEF Outcomes

\* A size that is tried next, in a bracket that is true.
LEMMA TryFits ==
    ASSUME NEW o \in OptionsSet, o.min <= o.max, NEW limit \in Nat,
           NEW h \in Faults, NEW k \in Searches(o), NEW stage \in Stages,
           NEW size \in o.min .. o.max,
           BracketIsTrue([k EXCEPT !.stage = stage], limit, h),
           Staged(Try(k, stage, size), o)
    PROVE  SearchInv(Try(k, stage, size), o, limit, h)
<1> DEFINE t == Try(k, stage, size)
<1>1. /\ t.stage = stage /\ t.cand = size /\ t.good = k.good /\ t.bad = k.bad
      /\ t.seen = Unseen
  BY DEF Try, Searches
<1>2. BracketIsTrue(t, limit, h)
  BY <1>1 DEF BracketIsTrue, Searches
<1>3. h.fail \in Nat /\ h.timeout \in Nat /\ Attempts \in Nat \ {0, 1, 2}
  BY CalibrationAssumption DEF Faults
<1> HIDE DEF t
<1>4. Sound(t, limit, h)
  BY <1>1, <1>2, <1>3, Untried DEF Sound
<1>5. Unsettled(t)
  BY <1>1, <1>3, Untried DEF Unsettled, Probes
<1> QED
  BY <1>4, <1>5 DEF SearchInv, t

\* The middle of a true bracket is tried, or its lower end is a result.
LEMMA BisectFits ==
    ASSUME NEW o \in OptionsSet, o.min <= o.max, NEW limit \in Nat,
           NEW h \in Faults, NEW k \in Searches(o), NEW stage \in {"refine", "fine"},
           o.maxFirst <=> stage = "fine",
           o.min <= k.good, k.good < k.bad,
           BracketIsTrue([k EXCEPT !.stage = stage], limit, h)
    PROVE  Resolved(Bisect(k, stage), o, limit, h)
<1> DEFINE t == Try(k, stage, k.good + (k.bad - k.good) \div 2)
<1>1. /\ o.min \in Nat /\ o.max \in Nat /\ o.min > 0
      /\ k.good \in Nat /\ k.good <= o.max /\ k.bad \in Nat /\ k.bad <= o.max
  BY SearchFields
<1>2. h.fail \in Nat /\ h.timeout \in Nat /\ Fine \in Nat \ {0}
  BY CalibrationAssumption DEF Faults
<1>3. /\ k.good <= limit
      /\ k.bad > limit \/ h.fail >= IF stage = "fine" THEN 1 ELSE 2
  BY <1>1 DEF BracketIsTrue, Searches
<1>4. CASE k.bad - k.good > Fine
  <2> DEFINE mid == k.good + (k.bad - k.good) \div 2
  <2>1. mid \in Nat /\ k.good < mid /\ mid < k.bad
    BY <1>1, <1>2, <1>4
  <2>2. mid \in o.min .. o.max /\ stage \in Stages
    BY <1>1, <2>1 DEF Stages
  <2>3. /\ t.stage = stage /\ t.cand = mid /\ t.good = k.good /\ t.bad = k.bad
        /\ t.seen = Unseen
    BY DEF Try, Searches
  <2>4. t = [k EXCEPT !.stage = stage, !.cand = mid, !.seen = Unseen]
    BY DEF Try
  <2> HIDE DEF mid
  <2>5. t \in Searches(o)
    BY <1>1, <2>2, <2>4, Untried DEF Searches
  <2> HIDE DEF t
  <2>6. Staged(t, o)
    BY <2>1, <2>3, <2>5 DEF Staged
  <2>7. SearchInv(t, o, limit, h)
    BY <2>2, <2>6, TryFits DEF t, mid
  <2>8. Bisect(k, stage) = t
    BY <1>4 DEF Bisect, t
  <2> QED
    BY <2>3, <2>7, <2>8 DEF Resolved
<1>5. CASE ~(k.bad - k.good > Fine)
  <2> DEFINE d == Done(k, k.good)
  <2>1. d.stage = "done" /\ d.cand = k.good
    BY DEF Done, Searches
  <2>2. Bisect(k, stage) = d
    BY <1>5 DEF Bisect
  <2> HIDE DEF d
  <2>3. k.good \in o.min .. o.max
    BY <1>1
  <2>4. Fits([size |-> k.good, hit |-> h], limit, o)
    BY <1>1, <1>2, <1>3, <1>5 DEF Fits, Safe, OptionsSet
  <2> QED
    BY <2>1, <2>2, <2>3, <2>4 DEF Resolved
<1> QED
  BY <1>4, <1>5

\* The ascent: sizes that pass, up to the first that does not.
LEMMA NextUpAbove ==
    ASSUME NEW o \in OptionsSet, o.min <= o.max, NEW k \in Searches(o), k.cand # o.max
    PROVE  NextUp(k, o) \in o.min .. o.max /\ k.cand < NextUp(k, o)
<1> DEFINE grown == Growth * k.cand
<1>1. /\ o.min \in Nat /\ o.max \in Nat /\ o.min > 0
      /\ k.cand \in Nat /\ o.min <= k.cand /\ k.cand <= o.max
  BY SearchFields
<1>2. Growth \in Nat /\ Growth >= 2 /\ Jump \in Nat
  BY CalibrationAssumption
<1>3. grown \in Nat /\ grown > k.cand
  <2>1. grown = k.cand + (Growth - 1) * k.cand
    BY <1>1, <1>2
  <2>2. (Growth - 1) * k.cand > 0 /\ (Growth - 1) * k.cand \in Nat
    BY <1>1, <1>2
  <2> QED
    BY <1>1, <2>1, <2>2
<1>4. NextUp(k, o) = Min2(IF k.cand = o.min /\ o.max >= Jump
                          THEN Max2(grown, Jump) ELSE grown, o.max)
  BY DEF NextUp
<1> HIDE DEF grown
<1> QED
  BY <1>1, <1>2, <1>3, <1>4 DEF Min2, Max2

\* A result.
LEMMA DoneFits ==
    ASSUME NEW o \in OptionsSet, NEW limit \in Nat, NEW h \in Faults,
           NEW k \in Searches(o), NEW size \in o.min .. o.max,
           Fits([size |-> size, hit |-> h], limit, o)
    PROVE  Resolved(Done(k, size), o, limit, h)
<1>1. Done(k, size).stage = "done" /\ Done(k, size).cand = size
  BY DEF Done, Searches
<1> QED
  BY <1>1 DEF Resolved

LEMMA AscendFits ==
    ASSUME NEW o \in OptionsSet, o.min <= o.max, NEW limit \in Nat,
           NEW h \in Faults, NEW k, Seen(k, o, limit, h), Settled(k),
           k.stage = "ascend"
    PROVE  Resolved(AfterAscend(k, o, Verdict(k)), o, limit, h)
<1>1. /\ k \in Searches(o) /\ h.fail \in Nat /\ h.timeout \in Nat
      /\ o.min \in Nat /\ o.max \in Nat /\ o.min > 0 /\ o.maxFirst \in BOOLEAN
      /\ k.cand \in Nat /\ o.min <= k.cand /\ k.cand <= o.max
      /\ k.good \in Nat /\ k.bad \in Nat /\ Fine \in Nat \ {0}
  BY SeenFields, SearchFields, CalibrationAssumption DEF OptionsSet
<1>2. /\ ~o.maxFirst /\ k.bad = 0 /\ k.good <= limit
      /\ \/ k.good = 0 /\ k.cand = o.min
         \/ o.min <= k.good /\ k.good < k.cand
  BY DEF Seen, Staged, Sound, BracketIsTrue
<1>3. CASE Verdict(k) = "ok"
  <2>1. k.cand <= limit
    BY <1>3, Verdicts
  <2>2. CASE k.cand = o.max
    <3>1. Fits([size |-> o.max, hit |-> h], limit, o)
      BY <2>1, <2>2 DEF Fits, Safe
    <3>2. AfterAscend(k, o, Verdict(k)) = Done(k, o.max)
      BY <1>3, <2>2 DEF AfterAscend
    <3> QED
      BY <1>1, <3>1, <3>2, DoneFits
  <2>3. CASE k.cand # o.max
    <3> DEFINE g == [k EXCEPT !.good = k.cand]
               t == Try(g, "ascend", NextUp(k, o))
    <3>1. g \in Searches(o) /\ g.good = k.cand /\ g.bad = k.bad
      BY <1>1 DEF Searches
    <3>2. NextUp(k, o) \in o.min .. o.max /\ k.cand < NextUp(k, o)
      BY <1>1, <2>3, NextUpAbove
    <3>3. /\ t.stage = "ascend" /\ t.cand = NextUp(k, o) /\ t.good = k.cand
          /\ t.bad = k.bad
      BY <3>1 DEF Try, Searches
    <3>4. t = [g EXCEPT !.stage = "ascend", !.cand = NextUp(k, o), !.seen = Unseen]
      BY DEF Try
    <3>5. BracketIsTrue([g EXCEPT !.stage = "ascend"], limit, h)
      BY <1>2, <2>1, <3>1 DEF BracketIsTrue, Searches
    <3>6. AfterAscend(k, o, Verdict(k)) = t
      BY <1>3, <2>3 DEF AfterAscend
    <3> HIDE DEF g
    <3>7. t \in Searches(o)
      BY <3>1, <3>2, <3>4, Untried DEF Searches, Stages
    <3> HIDE DEF t
    <3>8. Staged(t, o)
      BY <1>1, <1>2, <3>2, <3>3, <3>7 DEF Staged
    <3>9. SearchInv(t, o, limit, h)
      BY <3>1, <3>2, <3>5, <3>8, TryFits DEF t, Stages
    <3> QED
      BY <3>3, <3>6, <3>9 DEF Resolved
  <2> QED
    BY <2>2, <2>3
<1>4. CASE Verdict(k) = "timeout"
  <2> DEFINE size == IF k.good = 0 THEN o.min ELSE k.good
  <2>1. h.fail + h.timeout >= 2
    BY <1>4, Verdicts
  <2>2. size \in o.min .. o.max /\ (size <= limit \/ size = o.min)
    BY <1>1, <1>2
  <2>3. AfterAscend(k, o, Verdict(k)) = Done(k, size)
    BY <1>4 DEF AfterAscend
  <2> HIDE DEF size
  <2>4. Fits([size |-> size, hit |-> h], limit, o)
    BY <1>1, <1>2, <2>1, <2>2 DEF Fits, Safe
  <2> QED
    BY <1>1, <2>2, <2>3, <2>4, DoneFits
<1>5. CASE Verdict(k) = "fail"
  <2>1. k.cand > limit \/ h.fail >= 2
    BY <1>5, Verdicts
  <2>2. CASE k.good = 0
    <3>1. Fits([size |-> o.min, hit |-> h], limit, o)
      BY <1>1, <1>2, <2>1, <2>2 DEF Fits, Safe
    <3>2. AfterAscend(k, o, Verdict(k)) = Done(k, o.min)
      BY <1>5, <2>2 DEF AfterAscend
    <3> QED
      BY <1>1, <3>1, <3>2, DoneFits
  <2>3. CASE k.good # 0
    <3> DEFINE b == [k EXCEPT !.bad = k.cand]
    <3>1. b \in Searches(o) /\ b.good = k.good /\ b.bad = k.cand
      BY <1>1 DEF Searches
    <3>2. BracketIsTrue([b EXCEPT !.stage = "refine"], limit, h)
      BY <1>1, <1>2, <2>1, <3>1 DEF BracketIsTrue, Searches
    <3>3. AfterAscend(k, o, Verdict(k)) = Bisect(b, "refine")
      BY <1>5, <2>3 DEF AfterAscend
    <3> HIDE DEF b
    <3> QED
      BY <1>1, <1>2, <2>3, <3>1, <3>2, <3>3, BisectFits
  <2> QED
    BY <2>2, <2>3
<1> QED
  BY <1>3, <1>4, <1>5, Verdicts DEF Outcomes

\* The descent from the top: a first answer decides.
LEMMA CoarseFits ==
    ASSUME NEW o \in OptionsSet, o.min <= o.max, NEW limit \in Nat,
           NEW h \in Faults, NEW k, Seen(k, o, limit, h), Settled(k),
           k.stage = "coarse"
    PROVE  Resolved(AfterCoarse(k, o, Verdict(k)), o, limit, h)
<1>1. /\ k \in Searches(o) /\ h.fail \in Nat /\ h.timeout \in Nat
      /\ o.min \in Nat /\ o.max \in Nat /\ o.min > 0 /\ o.maxFirst \in BOOLEAN
      /\ k.cand \in Nat /\ o.min <= k.cand /\ k.cand <= o.max
      /\ k.good \in Nat /\ k.bad \in Nat /\ k.bad <= o.max
      /\ Fine \in Nat \ {0} /\ CoarseStep \in Nat \ {0}
  BY SeenFields, SearchFields, CalibrationAssumption DEF OptionsSet
<1>2. /\ o.maxFirst /\ k.good = 0
      /\ (k.bad = 0 /\ k.cand = o.max) \/ k.cand < k.bad
      /\ k.bad = 0 \/ k.bad > limit \/ h.fail >= 1
  BY DEF Seen, Staged, Sound, BracketIsTrue
<1>3. CASE Verdict(k) = "ok"
  <2>1. k.cand <= limit
    BY <1>3, Verdicts
  <2>2. CASE k.bad = 0
    <3>1. Fits([size |-> k.cand, hit |-> h], limit, o)
      BY <1>1, <1>2, <2>1, <2>2 DEF Fits, Safe
    <3>2. AfterCoarse(k, o, Verdict(k)) = Done(k, k.cand)
      BY <1>3, <2>2 DEF AfterCoarse
    <3> QED
      BY <1>1, <3>1, <3>2, DoneFits
  <2>3. CASE k.bad # 0
    <3> DEFINE g == [k EXCEPT !.good = k.cand]
    <3>1. g \in Searches(o) /\ g.good = k.cand /\ g.bad = k.bad
      BY <1>1 DEF Searches
    <3>2. BracketIsTrue([g EXCEPT !.stage = "fine"], limit, h)
      BY <1>1, <1>2, <2>1, <3>1 DEF BracketIsTrue, Searches
    <3>3. AfterCoarse(k, o, Verdict(k)) = Bisect(g, "fine")
      BY <1>3, <2>3 DEF AfterCoarse
    <3> HIDE DEF g
    <3> QED
      BY <1>1, <1>2, <2>3, <3>1, <3>2, <3>3, BisectFits
  <2> QED
    BY <2>2, <2>3
<1>4. CASE Verdict(k) = "timeout"
  <2>1. h.timeout >= 1
    BY <1>4, Verdicts
  <2>2. Fits([size |-> k.cand, hit |-> h], limit, o)
    BY <1>1, <1>2, <2>1 DEF Fits, Safe
  <2>3. AfterCoarse(k, o, Verdict(k)) = Done(k, k.cand)
    BY <1>4 DEF AfterCoarse
  <2> QED
    BY <1>1, <2>2, <2>3, DoneFits
<1>5. CASE Verdict(k) = "fail"
  <2>1. k.cand > limit \/ h.fail >= 1
    BY <1>5, Verdicts
  <2>2. CASE k.cand = o.min
    <3>1. Fits([size |-> o.min, hit |-> h], limit, o)
      BY <1>1, <1>2, <2>1, <2>2 DEF Fits, Safe
    <3>2. AfterCoarse(k, o, Verdict(k)) = Done(k, o.min)
      BY <1>5, <2>2 DEF AfterCoarse
    <3> QED
      BY <1>1, <3>1, <3>2, DoneFits
  <2>3. CASE k.cand # o.min
    <3> DEFINE b == [k EXCEPT !.bad = k.cand]
               size == Max2(k.cand - CoarseStep, o.min)
               t == Try(b, "coarse", size)
    <3>1. b \in Searches(o) /\ b.good = k.good /\ b.bad = k.cand
      BY <1>1 DEF Searches
    <3>2. size \in o.min .. o.max /\ size < k.cand
      BY <1>1, <2>3 DEF Max2
    <3>3. /\ t.stage = "coarse" /\ t.cand = size /\ t.good = k.good
          /\ t.bad = k.cand
      BY <3>1 DEF Try, Searches
    <3>4. t = [b EXCEPT !.stage = "coarse", !.cand = size, !.seen = Unseen]
      BY DEF Try
    <3>5. BracketIsTrue([b EXCEPT !.stage = "coarse"], limit, h)
      BY <1>1, <1>2, <2>1, <3>1 DEF BracketIsTrue, Searches
    <3>6. AfterCoarse(k, o, Verdict(k)) = t
      BY <1>5, <2>3 DEF AfterCoarse
    <3> HIDE DEF b, size
    <3>7. t \in Searches(o)
      BY <3>1, <3>2, <3>4, Untried DEF Searches, Stages
    <3> HIDE DEF t
    <3>8. Staged(t, o)
      BY <1>1, <1>2, <3>2, <3>3, <3>7 DEF Staged
    <3>9. SearchInv(t, o, limit, h)
      BY <3>1, <3>2, <3>5, <3>8, TryFits DEF t, Stages
    <3> QED
      BY <3>3, <3>6, <3>9 DEF Resolved
  <2> QED
    BY <2>2, <2>3
<1> QED
  BY <1>3, <1>4, <1>5, Verdicts DEF Outcomes

\* A bracket is halved from above or below; a timeout ends it.
LEMMA HalvingFits ==
    ASSUME NEW o \in OptionsSet, o.min <= o.max, NEW limit \in Nat,
           NEW h \in Faults, NEW k, Seen(k, o, limit, h), Settled(k),
           k.stage \in {"refine", "fine"}
    PROVE  Resolved(AfterBisect(k, Verdict(k)), o, limit, h)
<1>1. /\ k \in Searches(o) /\ h.fail \in Nat /\ h.timeout \in Nat
      /\ o.min \in Nat /\ o.max \in Nat /\ o.min > 0 /\ o.maxFirst \in BOOLEAN
      /\ k.cand \in Nat /\ o.min <= k.cand /\ k.cand <= o.max
      /\ k.good \in Nat /\ k.bad \in Nat /\ k.bad <= o.max
  BY SeenFields, SearchFields DEF OptionsSet
<1>2. /\ o.maxFirst <=> k.stage = "fine"
      /\ o.min <= k.good /\ k.good < k.cand /\ k.cand < k.bad
      /\ k.good <= limit
      /\ k.bad = 0 \/ k.bad > limit \/ h.fail >= IF k.stage = "fine" THEN 1 ELSE 2
  BY DEF Seen, Staged, Sound, BracketIsTrue
<1>3. CASE Verdict(k) = "ok"
  <2> DEFINE g == [k EXCEPT !.good = k.cand]
  <2>1. k.cand <= limit
    BY <1>3, Verdicts
  <2>2. g \in Searches(o) /\ g.good = k.cand /\ g.bad = k.bad
    BY <1>1 DEF Searches
  <2>3. BracketIsTrue([g EXCEPT !.stage = k.stage], limit, h)
    BY <1>1, <1>2, <2>1, <2>2 DEF BracketIsTrue, Searches
  <2>4. AfterBisect(k, Verdict(k)) = Bisect(g, k.stage)
    BY <1>3 DEF AfterBisect
  <2> HIDE DEF g
  <2> QED
    BY <1>1, <1>2, <2>2, <2>3, <2>4, BisectFits
<1>4. CASE Verdict(k) = "timeout"
  <2>1. h.timeout >= 1 /\ (k.stage = "refine" => h.fail + h.timeout >= 2)
    BY <1>4, Verdicts
  <2>2. Fits([size |-> k.good, hit |-> h], limit, o)
    BY <1>1, <1>2, <2>1 DEF Fits, Safe
  <2>3. AfterBisect(k, Verdict(k)) = Done(k, k.good)
    BY <1>4 DEF AfterBisect
  <2> QED
    BY <1>1, <1>2, <2>2, <2>3, DoneFits
<1>5. CASE Verdict(k) = "fail"
  <2> DEFINE b == [k EXCEPT !.bad = k.cand]
  <2>1. k.cand > limit \/ h.fail >= IF k.stage = "fine" THEN 1 ELSE 2
    BY <1>5, Verdicts
  <2>2. b \in Searches(o) /\ b.good = k.good /\ b.bad = k.cand
    BY <1>1 DEF Searches
  <2>3. BracketIsTrue([b EXCEPT !.stage = k.stage], limit, h)
    BY <1>1, <1>2, <2>1, <2>2 DEF BracketIsTrue, Searches
  <2>4. AfterBisect(k, Verdict(k)) = Bisect(b, k.stage)
    BY <1>5 DEF AfterBisect
  <2> HIDE DEF b
  <2> QED
    BY <1>1, <1>2, <2>2, <2>3, <2>4, BisectFits
<1> QED
  BY <1>3, <1>4, <1>5, Verdicts DEF Outcomes

\* One probe: the search ends with a size that fits, or goes on.
LEMMA AnsweredFits ==
    ASSUME NEW o \in OptionsSet, o.min <= o.max, NEW limit \in Nat,
           NEW h \in Faults, NEW k, SearchInv(k, o, limit, h),
           NEW r \in Outcomes, NEW g,
           \/ r = (IF k.cand <= limit THEN "ok" ELSE "fail") /\ g = h
           \/ r # "ok" /\ g = [h EXCEPT ![r] = @ + 1]
    PROVE  Resolved(Answered(k, o, r), o, limit, g) /\ g \in Faults
<1> DEFINE s == Observe(k, r)
<1>1. Seen(s, o, limit, g) /\ g \in Faults
  BY ObserveSees
<1>2. Answered(k, o, r) = IF Settled(s) THEN Conclude(s, o) ELSE s
  BY DEF Answered
<1> HIDE DEF s
<1>3. /\ s \in Searches(o)
      /\ s.stage \in {"ascend", "refine", "coarse", "fine"}
  BY <1>1 DEF Seen, Staged
<1>4. CASE Settled(s)
  <2>1. Conclude(s, o) = CASE s.stage = "ascend" -> AfterAscend(s, o, Verdict(s))
                           [] s.stage = "coarse" -> AfterCoarse(s, o, Verdict(s))
                           [] s.stage \in {"refine", "fine"} -> AfterBisect(s, Verdict(s))
    BY DEF Conclude
  <2>2. CASE s.stage = "ascend"
    BY <1>1, <1>2, <1>4, <2>1, <2>2, AscendFits
  <2>3. CASE s.stage = "coarse"
    BY <1>1, <1>2, <1>4, <2>1, <2>3, CoarseFits
  <2>4. CASE s.stage \in {"refine", "fine"}
    BY <1>1, <1>2, <1>4, <2>1, <2>4, HalvingFits
  <2> QED
    BY <1>3, <2>2, <2>3, <2>4
<1>5. CASE ~Settled(s)
  <2>1. /\ s.seen["ok"] \in Nat /\ s.seen["fail"] \in Nat
        /\ s.seen["timeout"] \in Nat /\ Attempts \in Nat
    BY <1>1, SeenFields
  <2>2. Probes(s) \in Nat
    BY <2>1 DEF Probes
  <2>3. Unsettled(s)
    BY <1>1, <1>5, <2>1, <2>2 DEF Seen, Settled, FirstDecides, Unsettled
  <2> QED
    BY <1>1, <1>2, <1>3, <1>5, <2>3 DEF Seen, SearchInv, Resolved
<1> QED
  BY <1>1, <1>4, <1>5

-----------------------------------------------------------------------------
(* The steps                                                               *)

\* What the constants say of the world at hand.
LEMMA WorldFacts ==
    ASSUME Shape
    PROVE  /\ Main \in Callers /\ NoWire \notin Callers /\ Threads \in 1 .. 16
           /\ world.endpoints \in Nat \ {0}
           /\ world.lost \in Nat
           /\ world.options \in OptionsSet /\ world.options.min <= world.options.max
           /\ world.candidates \in Seq(WireChoices)
           /\ Len(world.candidates) \in Nat \ {0}
           /\ DOMAIN world.candidates = 1 .. Len(world.candidates)
           /\ \A i \in 1 .. Len(world.candidates) : world.candidates[i] \in Wires
           /\ world.fallback \in Wires /\ Wires \subseteq WireChoices
           /\ \A w \in Wires : /\ world.limit[w] \in [Dirs -> Nat]
                              /\ world.limit[Probed(w)] \in [Dirs -> Nat]
           /\ Main \notin world.callers => \A w \in Wires : w.mode # "x"
<1> DEFINE w == Worlds[case]
           wires == {w.fallback} \cup {w.candidates[j] : j \in DOMAIN w.candidates}
<1>1. case \in DOMAIN Worlds
  BY DEF Shape
<1>2. /\ w.endpoints \in Nat \ {0} /\ w.lost \in Nat
      /\ w.options \in OptionsSet /\ w.options.min <= w.options.max
      /\ w.candidates \in Seq(WireChoices) /\ w.candidates # <<>>
      /\ w.fallback \in WireChoices
      /\ \A c \in wires : /\ w.limit[c] \in [Dirs -> Nat]
                         /\ w.limit[Probed(c)] \in [Dirs -> Nat]
      /\ Main \notin w.callers => \A c \in wires : c.mode # "x"
  BY <1>1, PathAssumption DEF OptionsSet
<1>3. w = world /\ Wires = wires
  BY DEF world, Wires
<1>4. Main \in Callers /\ NoWire \notin Callers /\ Threads \in 1 .. 16
  BY PathAssumption DEF Callers
<1> HIDE DEF w
<1>5. /\ Len(w.candidates) \in Nat \ {0}
      /\ DOMAIN w.candidates = 1 .. Len(w.candidates)
      /\ \A i \in 1 .. Len(w.candidates) : w.candidates[i] \in WireChoices
  BY <1>2, LenProperties, EmptySeq
<1>6. wires \subseteq WireChoices
  BY <1>2, <1>5
<1> QED
  BY <1>2, <1>3, <1>4, <1>5, <1>6

\* The range of sizes is the same for every wire.
LEMMA WireOptions ==
    ASSUME Shape, NEW c \in Callers
    PROVE  /\ Options(c) \in OptionsSet /\ Options(c).min <= Options(c).max
           /\ Options(c).min = world.options.min
           /\ Options(c).max = world.options.max
           /\ Searches(Options(c)) = Searches(world.options)
<1>1. world.options \in OptionsSet /\ world.options.min <= world.options.max
  BY WorldFacts
<1>2. /\ Options(c) \in OptionsSet /\ Options(c).min = world.options.min
      /\ Options(c).max = world.options.max
  BY <1>1 DEF Options, OptionsSet
<1> QED
  BY <1>1, <1>2 DEF Searches

\* calculateParallelWorkers: at least one, at most MaxWorkers.
LEMMA WorkersFit ==
    ASSUME NEW size \in Nat
    PROVE  Workers(size) \in 1 .. MaxWorkers
<1>1. Target \in Nat /\ MaxWorkers \in Nat /\ MaxWorkers > 0
  BY PathAssumption
<1>2. CASE size = 0
  BY <1>1, <1>2 DEF Workers
<1>3. CASE size # 0
  <2> DEFINE n == (Target + size - 1) \div size
  <2>1. n \in Int
    BY <1>1, <1>3
  <2>2. Workers(size) = Max2(1, Min2(MaxWorkers, n))
    BY <1>3 DEF Workers
  <2> HIDE DEF n
  <2> QED
    BY <1>1, <2>1, <2>2 DEF Max2, Min2
<1> QED
  BY <1>2, <1>3

\* The type invariant from its parts.
LEMMA TypeParts ==
    ASSUME IInv, SInv
    PROVE  TypeOK
<1>1. /\ Threads \in 1 .. 16 /\ NoWire \notin Callers
      /\ Len(world.candidates) \in Nat
  BY WorldFacts DEF IInv
<1>2. Cardinality(probing) \in Nat /\ Len(results) \in Nat
  BY FS_CardinalityType, LenProperties DEF SInv, Counted, IInv, Shape
<1>3. Len(results) + Cardinality(probing) <= Threads /\ inflight \in 0 .. Threads
  BY <1>1, <1>2 DEF SInv, Counted
<1>4. selector \in [has : BOOLEAN, wire : Wires \cup {NoWire}]
  BY DEF IInv, Shape, SInv, SelectTypes
<1>5. smu \in Callers \cup {NoWire}
  BY DEF IInv, Alone
<1>6. next \in 1 .. Len(world.candidates) + 1
  BY <1>1 DEF IInv, Shape, SInv, SelectTypes
<1> QED
  BY <1>3, <1>4, <1>5, <1>6 DEF IInv, Shape, SInv, SelectTypes, SizeTypes, TypeOK

\* The searches under way and the sizes found fit the wires they promise to.
LEMMA SizesInUse ==
    ASSUME IInv, SInv
    PROVE  ProfileFits
<1> SUFFICES ASSUME NEW c \in Callers, NEW d \in Dirs, pc[c] \in {d, "open"}
    PROVE  LET measured == Limit(Measured(wire[c]), d) IN
           /\ pc[c] = d => BracketIsTrue(search[c], measured, hit[c])
           /\ pc[c] = "open" =>
                  /\ Fits(sizes[c][d], measured, Options(c))
                  /\ measured <= Limit(wire[c], d) =>
                         Safe(sizes[c][d], Limit(wire[c], d), Options(c))
  BY DEF ProfileFits
<1>1. CallerFits(c) /\ wire[c] \in Wires
  BY DEF SInv, Sizing, Prepared, Sized, Dirs
<1>2. wire[c] \in WireChoices /\ Limit(wire[c], d) \in Nat
      /\ ProbeLimit(c, d) \in Nat
  BY <1>1, WorldFacts DEF IInv, Limit, ProbeLimit
<1>3. Measured(wire[c]) = Probed(wire[c])
  BY <1>2 DEF Measured, Probed, WireChoices
<1>4. Limit(Measured(wire[c]), d) = ProbeLimit(c, d)
  BY <1>3 DEF ProbeLimit
<1>5. pc[c] = d => BracketIsTrue(search[c], ProbeLimit(c, d), hit[c])
  BY <1>1 DEF CallerFits, SearchInv, Sound
<1>6. pc[c] = "open" => Fits(sizes[c][d], ProbeLimit(c, d), Options(c))
  BY <1>1 DEF CallerFits, Dirs, FitSizes, Limit, ProbeLimit, Options
<1>7. sizes[c][d].size \in Nat
  <2>1. world.options.max \in Nat
    BY WorldFacts DEF IInv, OptionsSet
  <2> QED
    BY <2>1 DEF SInv, SizeTypes, Founds
<1>8. pc[c] = "open" /\ ProbeLimit(c, d) <= Limit(wire[c], d) =>
          Safe(sizes[c][d], Limit(wire[c], d), Options(c))
  BY <1>2, <1>6, <1>7 DEF Fits, Safe
<1> QED
  BY <1>4, <1>5, <1>6, <1>8

LEMMA InitSInv ==
    ASSUME Init
    PROVE  SInv
<1> USE DEF Init
<1>0. Shape /\ Alone
  BY InitIInv DEF IInv
<1>1. /\ Main \in Callers /\ NoWire \notin Callers /\ Threads \in 1 .. 16
      /\ world.endpoints \in Nat \ {0} /\ world.lost \in Nat
      /\ Len(world.candidates) \in Nat \ {0}
      /\ world.options \in OptionsSet /\ world.options.min <= world.options.max
  BY <1>0, WorldFacts
<1>2. SelectTypes
  BY <1>1 DEF SelectTypes
<1>3. NoSizes \in Founds
  BY <1>1 DEF NoSizes, NoSize, NoFault, Founds, Faults, OptionsSet
<1>4. NoSearch \in Searches(world.options)
  <2>1. SearchInv(NoSearch, world.options, 0, NoFault)
    BY <1>1, BeginSearches DEF NoSearch
  <2> QED
    BY <2>1 DEF SearchInv, Staged
<1>5. SizeTypes
  <2>1. MaxWorkers \in Nat \ {0}
    BY PathAssumption
  <2> QED
    BY <1>3, <1>4, <2>1 DEF SizeTypes, NoProfile, NoFault, Faults
<1>6. Counted
  BY <1>1, FS_EmptySet DEF Counted
<1>7. \A c \in Callers : pc[c] \in {"off", "scan", "choose"}
      /\ (pc[c] = "choose" => c # Main)
  OBVIOUS
<1>8. Prepared
  BY <1>1, <1>7 DEF Prepared, Sized
<1>9. Sizing
  BY <1>1, <1>7 DEF Sizing, CallerFits, StoredFits, XFits, Dirs, NoProfile
<1> QED
  BY <1>2, <1>5, <1>6, <1>8, <1>9 DEF SInv

\* A step that leaves what the callers have found alone, and moves none of them
\* to where it uses it.
LEMMA FoundsStay ==
    ASSUME SInv, UNCHANGED <<case, search, hit, sizes, stored, xsizes>>,
           Main \in Callers,
           \A c \in Callers :
               \/ pc'[c] = pc[c] /\ wire'[c] = wire[c]
               \/ pc'[c] \notin {"up", "down", "store", "open"}
    PROVE  SizeTypes' /\ Sizing'
<1>1. world' = world
  BY DEF world
<1>2. SizeTypes'
  BY <1>1 DEF SInv, SizeTypes, Founds
<1>3. \A c \in Callers : CallerFits(c)'
  <2> SUFFICES ASSUME NEW c \in Callers PROVE CallerFits(c)'
    OBVIOUS
  <2>1. CallerFits(c)
    BY DEF SInv, Sizing
  <2>2. CASE pc'[c] \notin {"up", "down", "store", "open"}
    BY <2>2 DEF CallerFits, Dirs
  <2>3. CASE pc'[c] = pc[c] /\ wire'[c] = wire[c]
    <3>1. Options(c)' = Options(c) /\ \A d \in Dirs : ProbeLimit(c, d)' = ProbeLimit(c, d)
      BY <1>1, <2>3 DEF Options, Limit, ProbeLimit, Probed
    <3> QED
      BY <1>1, <2>1, <2>3, <3>1 DEF CallerFits, FitSizes
  <2> QED
    BY <2>2, <2>3
<1>4. StoredFits'
  BY <1>1 DEF SInv, Sizing, StoredFits
<1>5. XFits'
  BY <1>1 DEF SInv, Sizing, XFits, FitSizes
<1> QED
  BY <1>2, <1>3, <1>4, <1>5 DEF Sizing

\* No probe of an earlier detection is left when one begins.
LEMMA BeginCounted ==
    ASSUME IInv, SInv, smu = NoWire, ~selector.has, NEW c \in Callers,
           BeginDetect(c), UNCHANGED <<selector, probing>>
    PROVE  Counted' /\ results' = <<>> /\ next' = 1
<1>1. inflight = 0 /\ IsFiniteSet(probing)
      /\ Len(results) + Cardinality(probing) <= inflight
  BY DEF SInv, Counted
<1>2. Cardinality(probing) \in Nat /\ Len(results) \in Nat
  BY <1>1, FS_CardinalityType, LenProperties DEF IInv, Shape
<1>3. inflight' = 0 /\ results' = <<>> /\ Len(results') = 0 /\ next' = 1
  BY DEF BeginDetect
<1>4. Cardinality(probing') = 0 /\ Threads \in 1 .. 16
  BY <1>1, <1>2, WorldFacts DEF IInv
<1> QED
  BY <1>1, <1>3, <1>4 DEF Counted

LEMMA BeginSizes ==
    ASSUME IInv, SInv, NEW c \in Callers, pc[c] \in {"scan", "choose"},
           smu = NoWire, ~selector.has,
           c = Main => pc[c] = "scan" /\ endpoint <= world.endpoints,
           BeginDetect(c), UNCHANGED <<env, selector, probing, calib>>
    PROVE  SInv'
<1> USE DEF env, calib
<1>1. pc' = [pc EXCEPT ![c] = "detect"] /\ world' = world /\ pc \in [Callers -> Places]
  BY DEF BeginDetect, Goes, world, IInv, Shape
<1>2. Main \in Callers /\ Len(world.candidates) \in Nat \ {0}
  BY WorldFacts DEF IInv
<1>3. Counted' /\ results' = <<>> /\ next' = 1
  BY BeginCounted
<1>4. Wires' = Wires
  BY <1>1 DEF Wires
<1>5. SelectTypes'
  BY <1>1, <1>2, <1>3, <1>4 DEF SInv, SelectTypes
<1>6. SizeTypes' /\ Sizing'
  BY <1>1, <1>2, FoundsStay
<1>7. Prepared'
  BY <1>1, <1>2, <1>4 DEF SInv, Prepared, Sized
<1> QED
  BY <1>3, <1>5, <1>6, <1>7 DEF SInv

LEMMA ScanSizes ==
    ASSUME IInv, SInv, Scan
    PROVE  SInv'
<1>1. Main \in Callers /\ world.endpoints \in Nat \ {0}
  BY WorldFacts DEF IInv
<1>2. CASE endpoint \in world.reachable
  BY <1>1, <1>2, ScanAlone, BeginSizes DEF Scan, env
<1>3. CASE endpoint \notin world.reachable
  <2>1. /\ UNCHANGED <<case, lost, selector, smu, det, pc, calib>>
        /\ endpoint' = endpoint + 1 /\ endpoint <= world.endpoints
        /\ pc[Main] = "scan"
    BY <1>3 DEF Scan, det
  <2>2. world' = world /\ Wires' = Wires
    BY <2>1 DEF world, Wires
  <2>3. SelectTypes'
    BY <1>1, <2>1, <2>2 DEF SInv, SelectTypes, det, calib
  <2>4. SizeTypes' /\ Sizing'
    BY <1>1, <2>1, FoundsStay DEF calib
  <2>5. Counted' /\ Prepared'
    BY <2>1, <2>2 DEF SInv, Counted, Prepared, det, calib
  <2> QED
    BY <2>3, <2>4, <2>5 DEF SInv
<1> QED
  BY <1>2, <1>3

LEMMA ScanFailsSizes ==
    ASSUME IInv, SInv, ScanFails
    PROVE  SInv'
<1>1. /\ UNCHANGED <<env, selector, smu, det, calib>>
      /\ pc[Main] = "scan" /\ pc' = [c \in Callers |-> "failed"]
  BY DEF ScanFails
<1>2. Main \in Callers
  BY WorldFacts DEF IInv
<1>3. world' = world /\ Wires' = Wires
  BY <1>1 DEF world, Wires, env
<1>4. SelectTypes'
  BY <1>1, <1>3 DEF SInv, SelectTypes, env, det, calib
<1>5. SizeTypes' /\ Sizing'
  BY <1>1, <1>2, FoundsStay DEF calib, env
<1>6. Counted'
  BY <1>1 DEF SInv, Counted, det
<1>7. Prepared'
  BY <1>1, <1>2, <1>3 DEF SInv, Prepared, Sized
<1> QED
  BY <1>4, <1>5, <1>6, <1>7 DEF SInv

LEMMA ChooseSizes ==
    ASSUME IInv, SInv, NEW c \in Callers, Choose(c)
    PROVE  SInv'
<1>1. Main \in Callers
  BY WorldFacts DEF IInv
<1>2. pc[c] = "choose" /\ smu = NoWire /\ (c # Main => pc[Main] \in {"off", "open"})
  BY DEF Choose
<1>3. CASE selector.has
  <2>1. /\ wire' = [wire EXCEPT ![c] = selector.wire]
        /\ pc' = [pc EXCEPT ![c] = "lookup"]
        /\ UNCHANGED <<env, selector, smu, det, search, hit, sizes, stored, xsizes>>
    BY <1>3 DEF Choose, Goes, det
  <2>2. world' = world /\ Wires' = Wires
    BY <2>1 DEF world, Wires, env
  <2>3. selector.wire \in Wires
    BY <1>3 DEF SInv, Prepared
  <2>4. SelectTypes'
    BY <2>1, <2>2, <2>3 DEF SInv, SelectTypes, env, det
  <2>5. SizeTypes' /\ Sizing'
    BY <1>1, <2>1, FoundsStay DEF env, IInv, Shape
  <2>6. Counted'
    BY <2>1 DEF SInv, Counted, det
  <2>7. Prepared'
    BY <1>1, <1>2, <1>3, <2>1, <2>2, <2>3 DEF SInv, Prepared, Sized, env, IInv, Shape
  <2> QED
    BY <2>4, <2>5, <2>6, <2>7 DEF SInv
<1>4. CASE ~selector.has
  <2>1. c # Main
    BY <1>2, <1>4 DEF SInv, Prepared
  <2> QED
    BY <1>2, <1>4, <2>1, BeginSizes DEF Choose, calib
<1> QED
  BY <1>3, <1>4

LEMMA LaunchSizes ==
    ASSUME IInv, SInv, NEW c \in Callers, Launch(c)
    PROVE  SInv'
<1> DEFINE w == world.candidates[next]
<1>1. /\ UNCHANGED <<env, selector, smu, results, pc, calib>>
      /\ probing' = probing \cup {w} /\ next' = next + 1
      /\ inflight' = inflight + 1 /\ inflight < Threads
      /\ next <= Len(world.candidates) /\ pc[c] = "detect"
  BY DEF Launch
<1>2. world' = world /\ Wires' = Wires
  BY <1>1 DEF world, Wires, env
<1>3. /\ Main \in Callers /\ Len(world.candidates) \in Nat
      /\ next \in Nat /\ w \in Wires /\ NoWire \notin Callers /\ Threads \in 1 .. 16
  BY <1>1, WorldFacts DEF IInv, Shape
<1> HIDE DEF w
<1>4. SelectTypes'
  BY <1>1, <1>2, <1>3 DEF SInv, SelectTypes, env, calib
<1>5. SizeTypes' /\ Sizing'
  BY <1>1, <1>3, FoundsStay DEF env, calib
<1>6. Counted'
  <2>1. IsFiniteSet(probing) /\ inflight \in 0 .. Threads
        /\ Len(results) + Cardinality(probing) <= inflight
    BY DEF SInv, Counted
  <2>2. /\ IsFiniteSet(probing') /\ Cardinality(probing) \in Nat
        /\ Cardinality(probing') \in Nat
        /\ Cardinality(probing') <= Cardinality(probing) + 1
    <3>1. /\ IsFiniteSet(probing \cup {w}) /\ Cardinality(probing) \in Nat
          /\ Cardinality(probing \cup {w}) =
                 IF w \in probing THEN Cardinality(probing) ELSE Cardinality(probing) + 1
      BY <2>1, FS_AddElement, FS_CardinalityType
    <3> QED
      BY <1>1, <3>1
  <2>3. Len(results) \in Nat /\ Len(results') = Len(results)
    BY <1>1, LenProperties DEF IInv, Shape
  <2>4. smu' # NoWire
    BY <1>1, <1>3 DEF IInv, Alone
  <2>5. Len(results') + Cardinality(probing') <= inflight'
    BY <1>1, <1>3, <2>1, <2>2, <2>3
  <2>6. inflight' \in 0 .. Threads
    BY <1>1, <1>3, <2>1
  <2> QED
    BY <2>2, <2>4, <2>5, <2>6 DEF Counted
<1>7. Prepared'
  BY <1>1, <1>2 DEF SInv, Prepared, env, calib
<1> QED
  BY <1>4, <1>5, <1>6, <1>7 DEF SInv

LEMMA ReceiveSizes ==
    ASSUME IInv, SInv, NEW c \in Callers, Receive(c)
    PROVE  SInv'
<1> DEFINE got == Head(results)
<1>1. /\ UNCHANGED <<case, lost, next, probing, search, hit, sizes, stored, xsizes>>
      /\ results' = Tail(results) /\ inflight' = inflight - 1
      /\ pc[c] = "detect" /\ results # <<>>
  BY DEF Receive
<1>2. world' = world /\ Wires' = Wires
  BY <1>1 DEF world, Wires
<1>3. /\ Main \in Callers /\ NoWire \notin Callers /\ Threads \in 1 .. 16
      /\ world.endpoints \in Nat \ {0} /\ world.fallback \in Wires
  BY WorldFacts DEF IInv
<1>4. /\ smu = c /\ ~selector.has /\ selector.wire = NoWire
      /\ c # Main => pc[Main] \in {"off", "open"}
      /\ pc \in [Callers -> Places] /\ selector.has \in BOOLEAN
  BY <1>1 DEF IInv, Alone, Kept, Shape
<1>5. /\ Len(results) \in Nat \ {0} /\ Len(results') = Len(results) - 1
      /\ \A i \in DOMAIN results' :
             i + 1 \in DOMAIN results /\ results'[i] = results[i + 1]
      /\ 1 \in DOMAIN results /\ got = results[1] /\ got \in Answers
  BY <1>1, HeadTailProperties, LenProperties, EmptySeq DEF IInv, Shape
<1>6. got.wire \in Wires /\ got.ok \in BOOLEAN
  BY <1>5 DEF SInv, SelectTypes, Answers
<1> HIDE DEF got
<1>7. /\ pc'[c] \in {"detect", "choose", "scan", "lookup"}
      /\ \A d \in Callers \ {c} : pc'[d] = pc[d] /\ wire'[d] = wire[d]
  <2>1. \/ UNCHANGED <<pc, wire>>
        \/ \E p \in {"choose", "scan"} :
               pc' = [pc EXCEPT ![c] = p] /\ UNCHANGED wire
        \/ \E w \in Wires \cup {got.wire} :
               pc' = [pc EXCEPT ![c] = "lookup"] /\ wire' = [wire EXCEPT ![c] = w]
    BY <1>3 DEF Receive, Goes, got
  <2> QED
    BY <1>1, <1>4, <2>1 DEF SInv, SelectTypes
<1>8. SizeTypes' /\ Sizing'
  BY <1>1, <1>3, <1>7, FoundsStay
<1>9. \A i \in DOMAIN results' : results'[i].wire \in Wires
  BY <1>5 DEF SInv, SelectTypes
<1>10. /\ IsFiniteSet(probing') /\ inflight' \in 0 .. Threads
       /\ Len(results') + Cardinality(probing') <= inflight'
  <2>1. IsFiniteSet(probing) /\ inflight \in 0 .. Threads
        /\ Len(results) + Cardinality(probing) <= inflight
    BY DEF SInv, Counted
  <2>2. Cardinality(probing) \in Nat
    BY <2>1, FS_CardinalityType
  <2> QED
    BY <1>1, <1>3, <1>5, <2>1, <2>2
<1>11. CASE ~(got.ok \/ Exhausted)
  <2>1. UNCHANGED <<selector, pc, wire, endpoint, smu>>
    BY <1>11 DEF Receive, got
  <2>2. SelectTypes'
    BY <1>1, <1>2, <1>9, <2>1 DEF SInv, SelectTypes
  <2>3. Counted'
    BY <1>3, <1>4, <1>10, <2>1 DEF Counted
  <2>4. Prepared'
    BY <1>1, <1>2, <2>1 DEF SInv, Prepared
  <2> QED
    BY <1>8, <2>2, <2>3, <2>4 DEF SInv
<1>12. CASE got.ok
  <2>1. selector' = [has |-> TRUE, wire |-> got.wire] /\ endpoint' = endpoint
    BY <1>12 DEF Receive, got, Decides
  <2>2. IF c = Main
        THEN pc' = [pc EXCEPT ![c] = "choose"] /\ UNCHANGED wire
        ELSE pc' = [pc EXCEPT ![c] = "lookup"] /\ wire' = [wire EXCEPT ![c] = got.wire]
    BY <1>12 DEF Receive, got, Goes
  <2>3. wire' \in [Callers -> Wires \cup {NoWire}]
    BY <1>6, <2>2 DEF SInv, SelectTypes
  <2>4. SelectTypes'
    BY <1>1, <1>2, <1>6, <1>9, <2>1, <2>3 DEF SInv, SelectTypes
  <2>5. Counted'
    BY <1>10, <2>1 DEF Counted
  <2>6. pc[Main] = "off" \/ c = Main
    <3>1. pc[Main] # "open"
      BY <1>4 DEF SInv, Prepared, Sized
    <3> QED
      BY <1>4, <3>1
  <2>7. Prepared'
    <3>1. \A d \in Callers \ {c} : pc'[d] \in Sized => pc[Main] = "off"
      BY <1>4, <1>7 DEF SInv, Prepared
    <3>2. CASE c = Main
      <4>1. pc'[Main] = "choose" /\ pc[Main] = "detect"
        BY <1>1, <1>4, <2>2, <3>2
      <4>2. \A d \in Callers : pc'[d] \notin Sized
        BY <3>1, <3>2, <4>1 DEF Sized
      <4> QED
        BY <1>1, <1>2, <1>6, <2>1, <4>1, <4>2 DEF SInv, Prepared
    <3>3. CASE c # Main
      <4>1. pc'[Main] = "off" /\ pc[Main] = "off"
        BY <1>3, <1>7, <2>6, <3>3
      <4>2. wire'[c] \in Wires
        BY <1>6, <2>2, <3>3 DEF SInv, SelectTypes
      <4>3. \A d \in Callers : pc'[d] \in Sized => wire'[d] \in Wires
        BY <1>7, <4>2 DEF SInv, Prepared
      <4> QED
        BY <1>1, <1>2, <1>6, <2>1, <4>1, <4>3 DEF SInv, Prepared, Sized
    <3> QED
      BY <3>2, <3>3
  <2> QED
    BY <1>8, <2>4, <2>5, <2>7 DEF SInv
<1>13. CASE ~got.ok /\ Exhausted
  <2>1. UNCHANGED selector /\ inflight = 1
    BY <1>13 DEF Receive, got, Undecided, Exhausted
  <2>2. IF c = Main
        THEN /\ pc' = [pc EXCEPT ![c] = "scan"] /\ UNCHANGED wire
             /\ endpoint' = endpoint + 1
        ELSE /\ pc' = [pc EXCEPT ![c] = "lookup"] /\ UNCHANGED endpoint
             /\ wire' = [wire EXCEPT ![c] = world.fallback]
    BY <1>13 DEF Receive, got, Goes
  <2>3. wire' \in [Callers -> Wires \cup {NoWire}]
    BY <1>3, <2>2 DEF SInv, SelectTypes
  <2>4. endpoint' \in 1 .. world.endpoints + 1
    BY <1>1, <1>3, <2>2 DEF SInv, SelectTypes, Prepared
  <2>5. SelectTypes'
    BY <1>1, <1>2, <1>9, <2>1, <2>3, <2>4 DEF SInv, SelectTypes
  <2>6. Counted'
    BY <1>1, <1>10, <2>1 DEF Counted
  <2>7. pc[Main] = "off" \/ c = Main
    <3>1. pc[Main] # "open"
      BY <1>4 DEF SInv, Prepared, Sized
    <3> QED
      BY <1>4, <3>1
  <2>8. Prepared'
    <3>1. \A d \in Callers \ {c} : pc'[d] \in Sized => pc[Main] = "off"
      BY <1>4, <1>7 DEF SInv, Prepared
    <3>2. CASE c = Main
      <4>1. pc'[Main] = "scan" /\ pc[Main] = "detect"
        BY <1>1, <1>4, <2>2, <3>2
      <4>2. \A d \in Callers : pc'[d] \notin Sized
        BY <3>1, <3>2, <4>1 DEF Sized
      <4> QED
        BY <1>1, <1>2, <2>1, <4>1, <4>2 DEF SInv, Prepared, Sized
    <3>3. CASE c # Main
      <4>1. pc'[Main] = "off" /\ pc[Main] = "off"
        BY <1>3, <1>7, <2>7, <3>3
      <4>2. wire'[c] \in Wires
        BY <1>3, <2>2, <3>3 DEF SInv, SelectTypes
      <4>3. \A d \in Callers : pc'[d] \in Sized => wire'[d] \in Wires
        BY <1>7, <4>2 DEF SInv, Prepared
      <4> QED
        BY <1>1, <1>2, <2>1, <4>1, <4>3 DEF SInv, Prepared, Sized
    <3> QED
      BY <3>2, <3>3
  <2> QED
    BY <1>8, <2>5, <2>6, <2>8 DEF SInv
<1> QED
  BY <1>6, <1>11, <1>12, <1>13

LEMMA ProbeEndsSizes ==
    ASSUME IInv, SInv, NEW w \in probing, ProbeEnds(w)
    PROVE  SInv'
<1>1. /\ UNCHANGED <<case, endpoint, selector, smu, next, inflight, pc, calib>>
      /\ probing' = probing \ {w}
      /\ lost' = lost \/ (lost < world.lost /\ lost' = lost + 1)
      /\ \E ok \in BOOLEAN : results' = Append(results, [wire |-> w, ok |-> ok])
  BY DEF ProbeEnds
<1>2. world' = world /\ Wires' = Wires
  BY <1>1 DEF world, Wires
<1>3. Main \in Callers /\ world.lost \in Nat /\ w \in Wires
  BY WorldFacts DEF IInv, SInv, SelectTypes
<1>4. PICK ok \in BOOLEAN : results' = Append(results, [wire |-> w, ok |-> ok])
  BY <1>1
<1>5. [wire |-> w, ok |-> ok] \in Answers
  BY DEF Answers, IInv, Shape
<1>6. /\ Len(results') = Len(results) + 1 /\ Len(results) \in Nat
      /\ \A i \in DOMAIN results' : results'[i].wire \in Wires
  <2>1. /\ results' \in Seq(Answers) /\ Len(results') = Len(results) + 1
        /\ \A i \in 1 .. Len(results) : results'[i] = results[i]
        /\ results'[Len(results) + 1] = [wire |-> w, ok |-> ok]
    BY <1>4, <1>5, AppendProperties DEF IInv, Shape
  <2>2. DOMAIN results = 1 .. Len(results) /\ DOMAIN results' = 1 .. Len(results')
        /\ Len(results) \in Nat
    BY <2>1, LenProperties DEF IInv, Shape
  <2> QED
    BY <1>3, <2>1, <2>2 DEF SInv, SelectTypes
<1>7. SelectTypes'
  BY <1>1, <1>2, <1>3, <1>6 DEF SInv, SelectTypes, calib
<1>8. SizeTypes' /\ Sizing'
  BY <1>1, <1>3, FoundsStay DEF calib
<1>9. Counted'
  <2>1. IsFiniteSet(probing) /\ Len(results) + Cardinality(probing) <= inflight
        /\ inflight \in 0 .. Threads
    BY DEF SInv, Counted
  <2>2. /\ IsFiniteSet(probing') /\ Cardinality(probing) \in Nat
        /\ Cardinality(probing') = Cardinality(probing) - 1
    BY <1>1, <2>1, FS_RemoveElement, FS_CardinalityType
  <2>3. Len(results') + Cardinality(probing') <= inflight'
    BY <1>1, <1>6, <2>1, <2>2, WorldFacts DEF IInv
  <2> QED
    BY <1>1, <2>1, <2>2, <2>3 DEF SInv, Counted
<1>10. Prepared'
  BY <1>1, <1>2 DEF SInv, Prepared, calib
<1> QED
  BY <1>7, <1>8, <1>9, <1>10 DEF SInv

\* A step that leaves the wire alone, and moves callers on among the places
\* where sizes are found, or back to dial again.
LEMMA WireStays ==
    ASSUME IInv, SInv, UNCHANGED <<env, selector, smu, det>>,
           wire' \in [Callers -> Wires \cup {NoWire}],
           \A c \in Callers :
               \/ pc'[c] = pc[c] /\ wire'[c] = wire[c]
               \/ /\ pc[c] \in Sized \ {"open"} /\ pc'[c] \in Sized
                  /\ wire'[c] = wire[c]
               \/ c # Main /\ pc[c] = "open" /\ pc'[c] = "choose"
    PROVE  SelectTypes' /\ Counted' /\ Prepared' /\ world' = world /\ Wires' = Wires
<1>1. world' = world /\ Wires' = Wires
  BY DEF world, Wires, env
<1>2. Main \in Callers
  BY WorldFacts DEF IInv
<1>3. SelectTypes'
  BY <1>1 DEF SInv, SelectTypes, env, det
<1>4. Counted'
  BY DEF SInv, Counted, det
<1>5. Prepared'
  <2>1. pc'[Main] = pc[Main]
        \/ (pc[Main] \in Sized \ {"open"} /\ pc'[Main] \in Sized)
    BY <1>2
  <2>2. /\ (pc'[Main] = "off") <=> (Main \notin world.callers)
        /\ pc'[Main] \in {"choose"} \cup Sized => selector.has
        /\ pc'[Main] = "detect" => endpoint <= world.endpoints
        /\ pc'[Main] # "off" <=> pc[Main] # "off"
    BY <2>1 DEF SInv, Prepared, Sized
  <2>3. ASSUME NEW c \in Callers, pc'[c] \in Sized
        PROVE  /\ wire'[c] \in Wires
               /\ pc'[Main] # "off" => selector.has /\ wire'[c] = selector.wire
               /\ c # Main => pc'[Main] \in {"off", "open"}
    <3>1. pc[c] \in Sized /\ wire'[c] = wire[c]
      BY <2>3 DEF Sized
    <3>2. c # Main => pc[Main] \in {"off", "open"}
      BY <3>1 DEF SInv, Prepared
    <3> QED
      BY <2>1, <2>2, <3>1, <3>2 DEF SInv, Prepared, Sized
  <2> QED
    BY <1>1, <2>2, <2>3 DEF SInv, Prepared, env
<1> QED
  BY <1>1, <1>3, <1>4, <1>5

\* A caller whose wire, place and findings stay keeps what it has found.
LEMMA OthersFit ==
    ASSUME SInv, NEW c \in Callers, world' = world,
           pc'[c] = pc[c], wire'[c] = wire[c], search'[c] = search[c],
           hit'[c] = hit[c], sizes'[c] = sizes[c]
    PROVE  CallerFits(c)'
<1>1. CallerFits(c)
  BY DEF SInv, Sizing
<1>2. Options(c)' = Options(c) /\ \A d \in Dirs : ProbeLimit(c, d)' = ProbeLimit(c, d)
  BY DEF Options, Limit, ProbeLimit, Probed
<1> QED
  BY <1>1, <1>2 DEF CallerFits, FitSizes

\* A search begins in either direction.
LEMMA CalibratesFits ==
    ASSUME IInv, SInv, NEW c \in Callers, wire[c] \in Wires,
           NEW where \in {"up", "down", "store"}, Calibrates(c, where),
           UNCHANGED <<case, wire>>
    PROVE  /\ search' \in [Callers -> Searches(world.options)]
           /\ hit' \in [Callers -> Faults]
           /\ pc' = [pc EXCEPT ![c] = where]
           /\ where \in Dirs =>
                  SearchInv(search'[c], Options(c)', ProbeLimit(c, where)', hit'[c])
           /\ \A d \in Callers \ {c} : search'[d] = search[d] /\ hit'[d] = hit[d]
<1>1. /\ pc' = [pc EXCEPT ![c] = where]
      /\ search' = [search EXCEPT ![c] = Begin(Options(c))]
      /\ hit' = [hit EXCEPT ![c] = NoFault]
  BY DEF Calibrates, Goes
<1>2. /\ Options(c) \in OptionsSet /\ Options(c).min <= Options(c).max
      /\ Searches(Options(c)) = Searches(world.options)
  BY WireOptions DEF IInv
<1>3. \A d \in Dirs : ProbeLimit(c, d) \in Nat
  BY WorldFacts DEF IInv, Limit, ProbeLimit, Probed
<1>4. Options(c)' = Options(c) /\ \A d \in Dirs : ProbeLimit(c, d)' = ProbeLimit(c, d)
  BY DEF Options, Limit, ProbeLimit, Probed, world
<1>5. \A d \in Dirs : SearchInv(Begin(Options(c)), Options(c), ProbeLimit(c, d), NoFault)
  BY <1>2, <1>3, BeginSearches
<1>6. Begin(Options(c)) \in Searches(world.options)
  BY <1>2, <1>5 DEF SearchInv, Staged, Dirs
<1>7. search \in [Callers -> Searches(world.options)] /\ hit \in [Callers -> Faults]
  BY DEF SInv, SizeTypes
<1>8. NoFault \in Faults
  BY DEF NoFault, Faults
<1>9. search'[c] = Begin(Options(c)) /\ hit'[c] = NoFault
  BY <1>1, <1>7
<1>10. search' \in [Callers -> Searches(world.options)] /\ hit' \in [Callers -> Faults]
  BY <1>1, <1>6, <1>7, <1>8
<1>11. where \in Dirs =>
           SearchInv(search'[c], Options(c)', ProbeLimit(c, where)', hit'[c])
  BY <1>4, <1>5, <1>9
<1> QED
  BY <1>1, <1>7, <1>10, <1>11

LEMMA LookupSizes ==
    ASSUME IInv, SInv, NEW c \in Callers, Lookup(c)
    PROVE  SInv'
<1>1. /\ pc[c] = "lookup"
      /\ UNCHANGED <<env, selector, smu, det, wire, stored, xsizes>>
  BY DEF Lookup
<1>2. /\ wire[c] \in Wires /\ Main \in Callers /\ pc \in [Callers -> Places]
      /\ pc[Main] # "off" => wire[c] = selector.wire
      /\ c # Main => pc[Main] \in {"off", "open"}
  BY <1>1, WorldFacts DEF SInv, Prepared, Sized, IInv, Shape
<1>3. /\ wire' \in [Callers -> Wires \cup {NoWire}]
      /\ sizes \in [Callers -> Founds] /\ xsizes \in Founds
      /\ stored.sizes \in Founds
  BY <1>1 DEF SInv, SelectTypes, SizeTypes
<1>4. PICK p \in {"up", "open"} : pc' = [pc EXCEPT ![c] = p]
  BY DEF Lookup, Takes, Calibrates, Goes
<1>5. pc'[c] = p /\ \A d \in Callers \ {c} : pc'[d] = pc[d]
  BY <1>2, <1>4
<1>6. SelectTypes' /\ Counted' /\ Prepared' /\ world' = world /\ Wires' = Wires
  BY <1>1, <1>3, <1>5, WireStays DEF Sized
<1>7. StoredFits'
  BY <1>1, <1>6 DEF SInv, Sizing, StoredFits
<1>8. ASSUME NEW found \in Founds, Takes(c, found),
             \A d \in Dirs : FitSizes(found[d], wire[c], d),
             c = Main => wire[c].mode # "x"
      PROVE  SInv'
  <2>1. /\ pc' = [pc EXCEPT ![c] = "open"]
        /\ sizes' = [sizes EXCEPT ![c] = found] /\ UNCHANGED <<search, hit>>
    BY <1>8 DEF Takes, Goes
  <2>2. SizeTypes'
    BY <1>1, <1>3, <1>6, <2>1 DEF SInv, SizeTypes, Founds
  <2>3. pc'[c] = "open" /\ sizes'[c] = found
    BY <1>2, <1>3, <2>1
  <2>4. CallerFits(c)'
    BY <1>1, <1>6, <1>8, <2>3 DEF CallerFits, FitSizes, Dirs
  <2>5. \A d \in Callers \ {c} : CallerFits(d)'
    BY <1>1, <1>3, <1>5, <1>6, <2>1, OthersFit
  <2>6. XFits'
    BY <1>1, <1>2, <1>5, <1>6, <1>8 DEF SInv, Sizing, XFits, FitSizes
  <2> QED
    BY <1>6, <1>7, <2>2, <2>4, <2>5, <2>6 DEF SInv, Sizing
<1>9. CASE wire[c].mode = "x" /\ c # Main
  <2>1. Takes(c, xsizes)
    BY <1>9 DEF Lookup
  <2>2. pc[Main] # "off"
    BY <1>2, <1>9, WorldFacts DEF SInv, Prepared, IInv
  <2>3. pc[Main] = "open" /\ wire[Main] = wire[c]
    BY <1>2, <1>9, <2>2 DEF SInv, Prepared, Sized
  <2>4. \A d \in Dirs : FitSizes(xsizes[d], wire[c], d)
    BY <1>9, <2>3 DEF SInv, Sizing, XFits
  <2> QED
    BY <1>3, <1>8, <1>9, <2>1, <2>4
<1>10. CASE wire[c].mode # "x" /\ Cached(wire[c])
  <2>1. Takes(c, stored.sizes)
    BY <1>10 DEF Lookup
  <2>2. stored.fresh /\ stored.key[2] = wire[c].mask
    BY <1>10 DEF Cached, Key
  <2>3. [mode |-> "b", mask |-> stored.key[2]] = Probed(wire[c])
    BY <1>10, <2>2 DEF Probed
  <2>4. \A d \in Dirs : FitSizes(stored.sizes[d], wire[c], d)
    BY <1>10, <2>2, <2>3 DEF SInv, Sizing, StoredFits, FitSizes
  <2> QED
    BY <1>3, <1>8, <1>10, <2>1, <2>4
<1>11. CASE ~(wire[c].mode = "x" /\ c # Main) /\ ~(wire[c].mode # "x" /\ Cached(wire[c]))
  <2>1. Calibrates(c, "up") /\ UNCHANGED sizes
    BY <1>11 DEF Lookup
  <2>2. /\ search' \in [Callers -> Searches(world.options)]
        /\ hit' \in [Callers -> Faults]
        /\ pc' = [pc EXCEPT ![c] = "up"]
        /\ SearchInv(search'[c], Options(c)', ProbeLimit(c, "up")', hit'[c])
        /\ \A d \in Callers \ {c} : search'[d] = search[d] /\ hit'[d] = hit[d]
    BY <1>1, <1>2, <2>1, CalibratesFits DEF env, Dirs
  <2>3. pc'[c] = "up"
    BY <1>2, <2>2
  <2>4. SizeTypes'
    BY <1>1, <1>6, <2>1, <2>2 DEF SInv, SizeTypes, Founds
  <2>5. CallerFits(c)'
    BY <2>2, <2>3 DEF CallerFits
  <2>6. \A d \in Callers \ {c} : CallerFits(d)'
    BY <1>1, <1>5, <1>6, <2>1, <2>2, OthersFit
  <2>7. XFits'
    BY <1>1, <1>2, <1>5, <1>6, <2>3 DEF SInv, Sizing, XFits, FitSizes
  <2> QED
    BY <1>6, <1>7, <2>4, <2>5, <2>6, <2>7 DEF SInv, Sizing
<1> QED
  BY <1>9, <1>10, <1>11

LEMMA ProbeSizes ==
    ASSUME IInv, SInv, NEW c \in Callers, Probe(c)
    PROVE  SInv'
<1> DEFINE o == Options(c)
<1>0. PICK d \in Dirs : d = pc[c]
  BY DEF Probe
<1>1. /\ d \in Dirs /\ pc[c] = d
      /\ UNCHANGED <<env, selector, smu, det, wire, stored, xsizes>>
  BY <1>0 DEF Probe
<1>2. PICK r \in Outcomes :
          LET honest == r = IF search[c].cand <= ProbeLimit(c, d) THEN "ok" ELSE "fail"
              k == Answered(search[c], o, r)
              h == IF honest THEN hit[c] ELSE [hit[c] EXCEPT ![r] = @ + 1]
          IN  /\ honest \/ r # "ok"
              /\ IF k.stage # "done"
                 THEN /\ search' = [search EXCEPT ![c] = k]
                      /\ hit' = [hit EXCEPT ![c] = h]
                      /\ UNCHANGED <<pc, sizes>>
                 ELSE /\ Calibrates(c, IF d = "up" THEN "down" ELSE "store")
                      /\ sizes' = [sizes EXCEPT ![c][d] = [size |-> k.cand, hit |-> h]]
  BY <1>0 DEF Probe
<1> DEFINE honest == r = IF search[c].cand <= ProbeLimit(c, d) THEN "ok" ELSE "fail"
           k == Answered(search[c], o, r)
           g == IF honest THEN hit[c] ELSE [hit[c] EXCEPT ![r] = @ + 1]
<1>3. /\ pc[c] \in Sized \ {"open"} /\ d # "lookup" /\ d # "store"
      /\ wire[c] \in Wires /\ Main \in Callers /\ pc \in [Callers -> Places]
      /\ c # Main => pc[Main] \in {"off", "open"}
  BY <1>1, WorldFacts DEF SInv, Prepared, Sized, IInv, Shape, Dirs
<1>4. /\ o \in OptionsSet /\ o.min <= o.max /\ o.max = world.options.max
      /\ o.max \in Nat /\ o.min \in Nat
      /\ Searches(o) = Searches(world.options) /\ ProbeLimit(c, d) \in Nat
  BY <1>1, <1>3, WireOptions, WorldFacts DEF IInv, Limit, ProbeLimit, Probed, OptionsSet
<1>5. /\ search \in [Callers -> Searches(world.options)]
      /\ hit \in [Callers -> Faults] /\ sizes \in [Callers -> Founds]
      /\ hit[c] \in Faults /\ sizes[c] \in Founds
  BY DEF SInv, SizeTypes
<1>6. SearchInv(search[c], o, ProbeLimit(c, d), hit[c]) /\ CallerFits(c)
  BY <1>1 DEF SInv, Sizing, CallerFits
<1>7. Resolved(k, o, ProbeLimit(c, d), g) /\ g \in Faults
  <2>1. \/ r = (IF search[c].cand <= ProbeLimit(c, d) THEN "ok" ELSE "fail") /\ g = hit[c]
        \/ r # "ok" /\ g = [hit[c] EXCEPT ![r] = @ + 1]
    BY <1>2
  <2> HIDE DEF g, o
  <2> QED
    BY <1>4, <1>5, <1>6, <2>1, AnsweredFits
<1>8. IF k.stage # "done"
      THEN /\ search' = [search EXCEPT ![c] = k]
           /\ hit' = [hit EXCEPT ![c] = g]
           /\ UNCHANGED <<pc, sizes>>
      ELSE /\ Calibrates(c, IF d = "up" THEN "down" ELSE "store")
           /\ sizes' = [sizes EXCEPT ![c][d] = [size |-> k.cand, hit |-> g]]
  BY <1>2
<1>9. Options(c)' = o /\ \A e \in Dirs : ProbeLimit(c, e)' = ProbeLimit(c, e)
  BY <1>1 DEF Options, Limit, ProbeLimit, Probed, world, env
<1>10. wire' \in [Callers -> Wires \cup {NoWire}]
  BY <1>1 DEF SInv, SelectTypes
<1> HIDE DEF k, g, o, honest
<1>11. CASE k.stage # "done"
  <2>1. /\ search' = [search EXCEPT ![c] = k] /\ hit' = [hit EXCEPT ![c] = g]
        /\ UNCHANGED <<pc, sizes>>
    BY <1>8, <1>11
  <2>2. SearchInv(k, o, ProbeLimit(c, d), g)
    BY <1>7, <1>11 DEF Resolved
  <2>3. k \in Searches(world.options)
    BY <1>4, <2>2 DEF SearchInv, Staged
  <2>4. SelectTypes' /\ Counted' /\ Prepared' /\ world' = world /\ Wires' = Wires
    BY <1>1, <1>10, <2>1, WireStays
  <2>5. SizeTypes'
    BY <1>1, <1>5, <1>7, <2>1, <2>3, <2>4 DEF SInv, SizeTypes, Founds
  <2>6. search'[c] = k /\ hit'[c] = g
    BY <1>5, <2>1
  <2>7. CallerFits(c)'
    BY <1>1, <1>6, <1>9, <2>1, <2>2, <2>4, <2>6 DEF CallerFits, FitSizes
  <2>8. \A e \in Callers \ {c} : CallerFits(e)'
    BY <1>1, <1>5, <2>1, <2>4, OthersFit
  <2>9. StoredFits' /\ XFits'
    BY <1>1, <2>1, <2>4 DEF SInv, Sizing, StoredFits, XFits, FitSizes
  <2> QED
    BY <2>4, <2>5, <2>7, <2>8, <2>9 DEF SInv, Sizing
<1>12. CASE k.stage = "done"
  <2>0. PICK where \in {"down", "store"} :
            where = IF d = "up" THEN "down" ELSE "store"
    OBVIOUS
  <2> DEFINE found == [size |-> k.cand, hit |-> g]
  <2>1. Calibrates(c, where) /\ sizes' = [sizes EXCEPT ![c][d] = found]
    BY <1>8, <1>12, <2>0
  <2>2. /\ search' \in [Callers -> Searches(world.options)]
        /\ hit' \in [Callers -> Faults]
        /\ pc' = [pc EXCEPT ![c] = where]
        /\ where \in Dirs =>
               SearchInv(search'[c], Options(c)', ProbeLimit(c, where)', hit'[c])
        /\ \A e \in Callers \ {c} : search'[e] = search[e] /\ hit'[e] = hit[e]
    BY <1>1, <1>3, <2>1, CalibratesFits DEF env, Dirs
  <2>3. pc'[c] = where /\ \A e \in Callers \ {c} : pc'[e] = pc[e]
    BY <1>3, <2>2
  <2>4. where \in Sized
    BY <1>1 DEF Sized, Dirs
  <2>5. SelectTypes' /\ Counted' /\ Prepared' /\ world' = world /\ Wires' = Wires
    BY <1>1, <1>3, <1>10, <2>3, <2>4, WireStays
  <2>6. k.cand \in o.min .. o.max /\ Fits(found, ProbeLimit(c, d), o)
    BY <1>7, <1>12 DEF Resolved
  <2>7. found \in [size : 0 .. world.options.max, hit : Faults]
    BY <1>4, <1>7, <2>6
  <2>8. /\ sizes' = [sizes EXCEPT ![c] = [sizes[c] EXCEPT ![d] = found]]
        /\ sizes' \in [Callers -> Founds]
    BY <1>1, <1>5, <2>1, <2>7 DEF Founds
  <2>9. /\ sizes'[c] = [sizes[c] EXCEPT ![d] = found]
        /\ \A e \in Callers \ {c} : sizes'[e] = sizes[e]
    BY <1>5, <2>8
  <2>10. sizes'[c][d] = found /\ \A e \in Dirs \ {d} : sizes'[c][e] = sizes[c][e]
    BY <1>1, <1>5, <2>9 DEF Founds
  <2>11. SizeTypes'
    BY <1>1, <2>2, <2>5, <2>8 DEF SInv, SizeTypes, Founds
  <2>12. FitSizes(found, wire[c], d)
    BY <2>6 DEF FitSizes, Limit, ProbeLimit, Probed, Options, o
  <2> HIDE DEF found
  <2>13. CallerFits(c)'
    <3>1. CASE d = "up"
      <4>1. /\ pc'[c] = "down"
            /\ SearchInv(search'[c], Options(c)', ProbeLimit(c, "down")', hit'[c])
        BY <2>0, <2>2, <2>3, <3>1 DEF Dirs
      <4>2. FitSizes(sizes[c]["up"], wire[c], "up")'
        BY <1>1, <2>5, <2>10, <2>12, <3>1 DEF FitSizes
      <4> QED
        BY <4>1, <4>2 DEF CallerFits
    <3>2. CASE d = "down"
      <4>1. pc'[c] = "store"
        BY <2>0, <2>3, <3>2
      <4>2. FitSizes(sizes[c]["up"], wire[c], "up") /\ sizes'[c]["up"] = sizes[c]["up"]
        BY <1>1, <1>6, <2>10, <3>2 DEF CallerFits, Dirs
      <4>3. sizes'[c]["down"] = found
        BY <2>10, <3>2
      <4> QED
        BY <1>1, <2>5, <2>12, <3>2, <4>1, <4>2, <4>3 DEF CallerFits, FitSizes, Dirs
    <3> QED
      BY <3>1, <3>2 DEF Dirs
  <2>14. \A e \in Callers \ {c} : CallerFits(e)'
    BY <1>1, <2>2, <2>3, <2>5, <2>9, OthersFit
  <2>15. StoredFits'
    BY <1>1, <2>5 DEF SInv, Sizing, StoredFits
  <2>16. XFits'
    <3>1. pc'[c] # "open"
      BY <2>0, <2>3
    <3> QED
      BY <1>1, <1>3, <2>3, <2>5, <3>1 DEF SInv, Sizing, XFits, FitSizes
  <2> QED
    BY <2>5, <2>11, <2>13, <2>14, <2>15, <2>16 DEF SInv, Sizing
<1> QED
  BY <1>11, <1>12

LEMMA StoreSizes ==
    ASSUME IInv, SInv, NEW c \in Callers, Store(c)
    PROVE  SInv'
<1>1. /\ pc[c] = "store" /\ pc' = [pc EXCEPT ![c] = "open"]
      /\ UNCHANGED <<env, selector, smu, det, wire, search, hit, sizes>>
  BY DEF Store, Goes
<1>2. /\ wire[c] \in Wires /\ Main \in Callers /\ pc \in [Callers -> Places]
      /\ pc[Main] # "off" => selector.has /\ wire[c] = selector.wire
      /\ c # Main => pc[Main] \in {"off", "open"}
  BY <1>1, WorldFacts DEF SInv, Prepared, Sized, IInv, Shape
<1>3. wire' \in [Callers -> Wires \cup {NoWire}] /\ sizes[c] \in Founds
  BY <1>1 DEF SInv, SelectTypes, SizeTypes
<1>4. pc'[c] = "open" /\ \A d \in Callers \ {c} : pc'[d] = pc[d]
  BY <1>1, <1>2
<1>5. SelectTypes' /\ Counted' /\ Prepared' /\ world' = world /\ Wires' = Wires
  BY <1>1, <1>3, <1>4, WireStays DEF Sized
<1>6. \A d \in Dirs : FitSizes(sizes[c][d], wire[c], d)
  BY <1>1 DEF SInv, Sizing, CallerFits, Dirs
<1>7. CallerFits(c)'
  BY <1>1, <1>4, <1>5, <1>6 DEF CallerFits, FitSizes, Dirs
<1>8. \A d \in Callers \ {c} : CallerFits(d)'
  BY <1>1, <1>4, <1>5, OthersFit
<1>9. CASE wire[c].mode = "x"
  <2>1. xsizes' = sizes[c] /\ UNCHANGED stored
    BY <1>9 DEF Store
  <2>2. SizeTypes'
    BY <1>1, <1>3, <1>5, <2>1 DEF SInv, SizeTypes, Founds
  <2>3. StoredFits'
    BY <1>5, <2>1 DEF SInv, Sizing, StoredFits
  <2>4. c = Main \/ (pc[Main] = "open" /\ wire[Main] = wire[c])
    <3>1. pc[Main] # "off"
      BY <1>2, <1>9, WorldFacts DEF SInv, Prepared, IInv
    <3> QED
      BY <1>2, <3>1 DEF SInv, Prepared, Sized
  <2>5. XFits'
    BY <1>1, <1>5, <1>6, <2>1, <2>4 DEF XFits, FitSizes
  <2> QED
    BY <1>5, <1>7, <1>8, <2>2, <2>3, <2>5 DEF SInv, Sizing
<1>10. CASE wire[c].mode # "x"
  <2> DEFINE size == Min2(sizes[c]["up"].size, sizes[c]["down"].size)
  <2>1. /\ stored' = [key |-> Key(wire[c]), fresh |-> TRUE, sizes |-> sizes[c],
                      workers |-> Workers(size)]
        /\ UNCHANGED xsizes
    BY <1>10 DEF Store
  <2>2. size \in Nat
    <3>1. \A d \in Dirs : sizes[c][d].size \in 0 .. world.options.max
      BY <1>3 DEF Founds
    <3>2. sizes[c]["up"].size \in Nat /\ sizes[c]["down"].size \in Nat
      BY <3>1, WorldFacts DEF IInv, OptionsSet, Dirs
    <3> QED
      BY <3>2 DEF Min2
  <2> HIDE DEF size
  <2>3. Workers(size) \in 1 .. MaxWorkers
    BY <2>2, WorkersFit
  <2>4. SizeTypes'
    BY <1>1, <1>3, <1>5, <2>1, <2>3 DEF SInv, SizeTypes, Founds
  <2>5. /\ stored'.sizes = sizes[c] /\ stored'.key[2] = wire[c].mask
    BY <2>1 DEF Key
  <2>6. StoredFits'
    <3>1. [mode |-> "b", mask |-> stored'.key[2]] = Probed(wire[c])
      BY <1>10, <2>5 DEF Probed
    <3> QED
      BY <1>5, <1>6, <1>10, <2>5, <3>1 DEF StoredFits, FitSizes
  <2>7. XFits'
    <3>1. CASE c = Main
      BY <1>1, <1>10, <3>1 DEF XFits
    <3>2. CASE c # Main
      BY <1>1, <1>2, <1>4, <1>5, <2>1, <3>2 DEF SInv, Sizing, XFits, FitSizes
    <3> QED
      BY <3>1, <3>2
  <2> QED
    BY <1>5, <1>7, <1>8, <2>4, <2>6, <2>7 DEF SInv, Sizing
<1> QED
  BY <1>9, <1>10

LEMMA DialAgainSizes ==
    ASSUME IInv, SInv, NEW c \in Callers, DialAgain(c)
    PROVE  SInv'
<1>1. /\ c # Main /\ pc[c] = "open" /\ pc' = [pc EXCEPT ![c] = "choose"]
      /\ wire' = [wire EXCEPT ![c] = NoWire]
      /\ sizes' = [sizes EXCEPT ![c] = NoSizes]
      /\ UNCHANGED <<env, selector, smu, det, search, hit, stored, xsizes>>
  BY DEF DialAgain, Goes
<1>2. /\ Main \in Callers /\ pc \in [Callers -> Places]
      /\ wire \in [Callers -> Wires \cup {NoWire}]
      /\ sizes \in [Callers -> Founds] /\ world.options \in OptionsSet
  BY WorldFacts DEF SInv, SelectTypes, SizeTypes, IInv, Shape
<1>3. /\ pc'[c] = "choose"
      /\ \A d \in Callers \ {c} :
             pc'[d] = pc[d] /\ wire'[d] = wire[d] /\ sizes'[d] = sizes[d]
  BY <1>1, <1>2
<1>4. SelectTypes' /\ Counted' /\ Prepared' /\ world' = world /\ Wires' = Wires
  BY <1>1, <1>2, <1>3, WireStays
<1>5. NoSizes \in Founds
  BY <1>2 DEF NoSizes, NoSize, NoFault, Founds, Faults, OptionsSet
<1>6. SizeTypes'
  BY <1>1, <1>2, <1>4, <1>5 DEF SInv, SizeTypes, Founds
<1>7. CallerFits(c)'
  BY <1>3 DEF CallerFits, Dirs
<1>8. \A d \in Callers \ {c} : CallerFits(d)'
  BY <1>1, <1>3, <1>4, OthersFit
<1>9. StoredFits' /\ XFits'
  BY <1>1, <1>2, <1>3, <1>4 DEF SInv, Sizing, StoredFits, XFits, FitSizes
<1> QED
  BY <1>4, <1>6, <1>7, <1>8, <1>9 DEF SInv, Sizing

LEMMA ExpireSizes ==
    ASSUME IInv, SInv, Expire
    PROVE  SInv'
<1>1. /\ stored' = NoProfile
      /\ UNCHANGED <<env, selector, smu, det, pc, wire, search, hit, sizes, xsizes>>
  BY DEF Expire
<1>2. wire' \in [Callers -> Wires \cup {NoWire}] /\ world.options \in OptionsSet
  BY <1>1, WorldFacts DEF SInv, SelectTypes, IInv
<1>3. SelectTypes' /\ Counted' /\ Prepared' /\ world' = world /\ Wires' = Wires
  BY <1>1, <1>2, WireStays
<1>4. NoSizes \in Founds /\ 1 \in 1 .. MaxWorkers
  BY <1>2, PathAssumption DEF NoSizes, NoSize, NoFault, Founds, Faults, OptionsSet
<1>5. SizeTypes'
  BY <1>1, <1>3, <1>4 DEF SInv, SizeTypes, NoProfile, Founds
<1>6. \A c \in Callers : CallerFits(c)'
  BY <1>1, <1>3, OthersFit
<1>7. StoredFits' /\ XFits'
  BY <1>1, <1>3 DEF SInv, Sizing, StoredFits, XFits, FitSizes, NoProfile
<1> QED
  BY <1>3, <1>5, <1>6, <1>7 DEF SInv, Sizing

LEMMA StepSInv ==
    ASSUME IInv, SInv, [Next]_vars
    PROVE  SInv'
<1>1. CASE Expire
  BY <1>1, ExpireSizes
<1>2. CASE \E c \in Callers : Step(c) \/ DialAgain(c)
  BY <1>2, ScanSizes, ScanFailsSizes, ChooseSizes, LaunchSizes, ReceiveSizes,
     LookupSizes, ProbeSizes, StoreSizes, DialAgainSizes DEF Step
<1>3. CASE \E w \in probing : ProbeEnds(w)
  BY <1>3, ProbeEndsSizes
<1>4. CASE UNCHANGED vars
  <2>1. /\ UNCHANGED <<env, selector, smu, det, pc, wire, search, hit, sizes,
                       stored, xsizes>>
        /\ wire' \in [Callers -> Wires \cup {NoWire}] /\ Main \in Callers
    BY <1>4, WorldFacts DEF vars, env, det, calib, SInv, SelectTypes, IInv
  <2>2. SelectTypes' /\ Counted' /\ Prepared'
    BY <2>1, WireStays
  <2>3. SizeTypes' /\ Sizing'
    BY <2>1, FoundsStay DEF env
  <2> QED
    BY <2>2, <2>3 DEF SInv
<1> QED
  BY <1>1, <1>2, <1>3, <1>4 DEF Next

-----------------------------------------------------------------------------
LEMMA SetupInvariance == Spec => [](IInv /\ SInv)
<1>1. Init => IInv /\ SInv
  BY InitIInv, InitSInv
<1>2. IInv /\ SInv /\ [Next]_vars => (IInv /\ SInv)'
  BY StepIInv, StepSInv
<1> QED
  BY <1>1, <1>2, PTL DEF Spec

\* The selector, the channel of the probes, the searches and the sizes stay in
\* their ranges: no more results and running probes than threads, no size above
\* the maximum, between 1 and MaxWorkers workers.
THEOREM SetupTypeCorrect == Spec => []TypeOK
<1>1. IInv /\ SInv => TypeOK
  BY TypeParts
<1> QED
  BY <1>1, SetupInvariance, PTL

\* Every bracket of a search is true, but for the faults that hit the search,
\* and every caller goes on with sizes that fit, its own, the cached ones or
\* those of the X wire: for B and X they fit the caller's own wire, and for BP
\* the B wire of its mask, so that they pass on BP wherever the path passes as
\* much of BP as of B: Calibrate, getPathProfile.
THEOREM SizesFit == Spec => []ProfileFits
<1>1. IInv /\ SInv => ProfileFits
  BY SizesInUse
<1> QED
  BY <1>1, SetupInvariance, PTL
=============================================================================
