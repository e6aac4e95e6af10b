----------------------------- MODULE PathSetup -----------------------------
(***************************************************************************)
(* How the program settles on a path: main looks for an endpoint whose     *)
(* wire a probe validates (selectServerEndpoint, main.go), the wire        *)
(* selector keeps the first wire that answers (wireselect.go), and the     *)
(* sizes that this wire passes are calibrated and cached (getPathProfile,  *)
(* chunk.go; Calibrate, internal/xorchunk/chunk.go).  Dials from several   *)
(* goroutines share the selector and the cache.  Without main, as in the   *)
(* tests of the selector, dials find the selector undecided.               *)
(*                                                                         *)
(* A wire is a record of its mode and its mask.                            *)
(***************************************************************************)
EXTENDS Calibration, Sequences, FiniteSets

CONSTANTS
    Main,          \* the main goroutine
    Dialers,       \* goroutines that dial
    Threads,       \* wireProbeThreads, 1 to 16
    Target,        \* throughput, in bytes of a record times workers: 1 MiB
    MaxWorkers,    \* most workers: 64
    NoWire,
    Worlds         \* a sequence of settings and networks, each a record of
                   \*   callers, endpoints, candidates, fallback, reachable,
                   \*   passes[endpoint], limit[wire][direction], options,
                   \*   lost (probes of wires) and faults (per search)

Callers == {Main} \cup Dialers
Dirs == {"up", "down"}

WireChoices == [mode : {"b", "bp", "x"}, mask : 0 .. 255]

\* The wire whose records measure the path for w: a search for BP sends the
\* ModeProbe records of B, with the mask of w.
Probed(w) == [mode |-> IF w.mode = "x" THEN "x" ELSE "b", mask |-> w.mask]

ASSUME PathAssumption ==
    /\ Main \notin Dialers /\ NoWire \notin Callers
    /\ Threads \in 1 .. 16
    /\ Target \in Nat /\ MaxWorkers \in Nat \ {0}
    /\ \A i \in DOMAIN Worlds : LET w == Worlds[i] IN
           /\ w.callers \subseteq Callers
           /\ w.endpoints \in Nat \ {0}
           /\ w.candidates \in Seq(WireChoices) /\ w.candidates # <<>>
           /\ w.fallback \in WireChoices
           /\ w.options \in [min : Nat \ {0}, max : Nat, maxFirst : BOOLEAN]
           /\ w.options.min <= w.options.max
           /\ w.lost \in Nat /\ w.faults \in Nat
           /\ LET wires == {w.fallback} \cup
                               {w.candidates[j] : j \in DOMAIN w.candidates}
              IN  \* every size passes a path on a wire or does not, and it may
                  \* pass on B and not on BP ...
                  /\ \A c \in wires :
                         /\ w.limit[c] \in [Dirs -> Nat]
                         /\ w.limit[Probed(c)] \in [Dirs -> Nat]
                  \* ... and without main, whose prepare is the one place that
                  \* finds sizes for it, nobody dials the X wire
                  /\ Main \notin w.callers => \A c \in wires : c.mode # "x"

VARIABLES
    case,          \* which of Worlds it is
    endpoint,      \* the endpoint the selector is for
    selector,      \* hasChoice and resolved
    smu,           \* the holder of the selector's mutex, or NoWire
    next,          \* detectLocked: the next candidate
    inflight,      \*     launched probes whose result it has not received
    probing,       \*     wires whose probe goroutine is running
    results,       \*     the channel
    lost,          \* bound: probes lost so far
    pc, wire,      \* where each caller is, and the wire it uses
    search, hit,   \* its search, and the faults that hit it
    sizes,         \* the sizes it has found or taken
    stored,        \* profileState
    xsizes,        \* xorOpts, once calibrated
    validated      \* history: wires that answered a probe, by endpoint

det == <<next, inflight, probing, results>>
env == <<case, endpoint, lost, validated>>
calib == <<wire, search, hit, sizes, stored, xsizes>>
vars == <<case, endpoint, selector, smu, det, lost, pc, calib, validated>>

-----------------------------------------------------------------------------
world == Worlds[case]
Wires == {world.candidates[i] : i \in DOMAIN world.candidates}
             \cup {world.fallback}
NoFault == [fail |-> 0, timeout |-> 0]
Faults == [fail : Nat, timeout : Nat]
NoSize == [size |-> 0, hit |-> NoFault]
NoSizes == [d \in Dirs |-> NoSize]
NoSearch == Begin(world.options)
NoProfile == [key |-> NoWire, fresh |-> FALSE, sizes |-> NoSizes, workers |-> 1]
Founds == [Dirs -> [size : 0 .. world.options.max, hit : Faults]]

Places == {"off", "scan", "choose", "detect", "lookup", "up", "down", "store",
           "open", "failed"}

\* calculateParallelWorkers
Workers(size) ==
    IF size = 0 THEN MaxWorkers
    ELSE Max2(1, Min2(MaxWorkers, (Target + size - 1) \div size))

TypeOK ==
    /\ case \in DOMAIN Worlds
    /\ endpoint \in 1 .. world.endpoints + 1
    /\ selector \in [has : BOOLEAN, wire : Wires \cup {NoWire}]
    /\ smu \in Callers \cup {NoWire}
    /\ next \in 1 .. Len(world.candidates) + 1
    /\ inflight \in 0 .. Threads
    /\ probing \subseteq Wires
    /\ Len(results) + Cardinality(probing) <= Threads
    /\ \A i \in DOMAIN results : results[i].wire \in Wires
    /\ lost \in 0 .. world.lost
    /\ pc \in [Callers -> Places]
    /\ wire \in [Callers -> Wires \cup {NoWire}]
    /\ search \in [Callers -> Searches(world.options)]
    /\ hit \in [Callers -> Faults]
    /\ sizes \in [Callers -> Founds] /\ xsizes \in Founds
    /\ stored.sizes \in Founds /\ stored.fresh \in BOOLEAN
    /\ stored.workers \in 1 .. MaxWorkers

Init ==
    /\ case \in DOMAIN Worlds
    /\ endpoint = 1
    /\ selector = [has |-> FALSE, wire |-> NoWire]
    /\ smu = NoWire
    /\ next = 1 /\ inflight = 0 /\ probing = {} /\ results = <<>>
    /\ lost = 0
    /\ pc = [c \in Callers |-> IF c \notin world.callers THEN "off"
                               ELSE IF c = Main THEN "scan" ELSE "choose"]
    /\ wire = [c \in Callers |-> NoWire]
    /\ search = [c \in Callers |-> NoSearch]
    /\ hit = [c \in Callers |-> NoFault]
    /\ sizes = [c \in Callers |-> NoSizes]
    /\ stored = NoProfile
    /\ xsizes = NoSizes
    /\ validated = {}

Goes(c, where) == pc' = [pc EXCEPT ![c] = where]

-----------------------------------------------------------------------------
(* The wire                                                                *)

\* detectLocked begins; the mutex is held until it returns.
BeginDetect(c) ==
    /\ Goes(c, "detect")
    /\ smu' = c
    /\ next' = 1 /\ inflight' = 0 /\ results' = <<>>

\* main tries the endpoints in turn, each with a selector of its own.
Scan ==
    /\ pc[Main] = "scan" /\ endpoint <= world.endpoints
    /\ IF endpoint \in world.reachable
       THEN BeginDetect(Main) /\ UNCHANGED endpoint
       ELSE endpoint' = endpoint + 1 /\ UNCHANGED <<pc, smu, next, inflight, results>>
    /\ UNCHANGED <<case, lost, validated, selector, probing, calib>>

\* No endpoint answers: the program exits.
ScanFails ==
    /\ pc[Main] = "scan" /\ endpoint > world.endpoints
    /\ pc' = [c \in Callers |-> "failed"]
    /\ UNCHANGED <<env, selector, smu, det, calib>>

\* prepare after the scan, and mode for a dial: they detect if nothing is
\* decided.  Dials begin when main has prepared the path.
Choose(c) ==
    /\ pc[c] = "choose" /\ smu = NoWire
    /\ c # Main => pc[Main] \in {"off", "open"}
    /\ IF selector.has
       THEN /\ wire' = [wire EXCEPT ![c] = selector.wire]
            /\ Goes(c, "lookup")
            /\ UNCHANGED <<smu, next, inflight, results>>
       ELSE BeginDetect(c) /\ UNCHANGED wire
    /\ UNCHANGED <<env, selector, probing, search, hit, sizes, stored, xsizes>>

\* Launches are spaced by a timer, so that either of the next two may be first.
Launch(c) ==
    /\ pc[c] = "detect"
    /\ next <= Len(world.candidates) /\ inflight < Threads
    /\ probing' = probing \cup {world.candidates[next]}
    /\ next' = next + 1
    /\ inflight' = inflight + 1
    /\ UNCHANGED <<env, selector, smu, results, pc, calib>>

\* What detectLocked's caller remembers.
Decides(c, w) == selector' = [has |-> TRUE, wire |-> w]

\* Mutant of Undecided: the fallback of mode is cached.
FallbackCached(c) == Decides(c, world.fallback)

\* mode's fallback is for this dial only.
Undecided(c) == UNCHANGED selector

Exhausted == next > Len(world.candidates) /\ inflight = 1

\* The first success ends detectLocked, whatever is still running; main then
\* prepares the path.
Receive(c) ==
    /\ pc[c] = "detect" /\ results # <<>>
    /\ LET got == Head(results)
           over == got.ok \/ Exhausted
           usable == IF got.ok THEN got.wire ELSE world.fallback
       IN  /\ smu' = IF over THEN NoWire ELSE smu
           /\ IF ~over THEN UNCHANGED <<selector, pc, wire, endpoint>>
              ELSE IF c = Main
              THEN /\ IF got.ok THEN Decides(c, got.wire) ELSE UNCHANGED selector
                   /\ Goes(c, IF got.ok THEN "choose" ELSE "scan")
                   /\ endpoint' = IF got.ok THEN endpoint ELSE endpoint + 1
                   /\ UNCHANGED wire
              ELSE /\ IF got.ok THEN Decides(c, got.wire) ELSE Undecided(c)
                   /\ Goes(c, "lookup")
                   /\ wire' = [wire EXCEPT ![c] = usable]
                   /\ UNCHANGED endpoint
    /\ results' = Tail(results)
    /\ inflight' = inflight - 1
    /\ UNCHANGED <<case, lost, validated, next, probing, search, hit, sizes,
                   stored, xsizes>>

\* Mutant of ChannelSize: the channel does not hold the results of all probes.
ChannelSizeOne == 1

ChannelSize == Threads

\* A probe answers if its wire passes the path; even then it may be lost.
ProbeEnds(w) ==
    /\ w \in probing /\ Len(results) < ChannelSize
    /\ \E ok \in BOOLEAN :
           /\ ok => w \in world.passes[endpoint]
           /\ IF ~ok /\ w \in world.passes[endpoint]
              THEN lost < world.lost /\ lost' = lost + 1
              ELSE UNCHANGED lost
           /\ results' = Append(results, [wire |-> w, ok |-> ok])
           /\ validated' = IF ok THEN validated \cup {<<endpoint, w>>} ELSE validated
    /\ probing' = probing \ {w}
    /\ UNCHANGED <<case, endpoint, selector, smu, next, inflight, pc, calib>>

-----------------------------------------------------------------------------
(* The sizes                                                               *)

\* The largest record of the wire w that passes.
Limit(w, d) == world.limit[w][d]

\* What a search of caller c finds out about.
ProbeLimit(c, d) == Limit(Probed(wire[c]), d)

\* X ignores forceMaxStart.
Options(c) ==
    IF wire[c].mode = "x" THEN [world.options EXCEPT !.maxFirst = FALSE]
    ELSE world.options

Key(w) == <<endpoint, w.mask>>

\* Mutant of Cached: the profile of another mask is taken.
CachedForAny(w) == stored.fresh

\* The profile of this mask, if it is not older than 30 minutes.  The key names
\* no mode: B and BP share a profile.
Cached(w) == stored.fresh /\ stored.key = Key(w)

Calibrates(c, where) ==
    /\ Goes(c, where)
    /\ search' = [search EXCEPT ![c] = Begin(Options(c))]
    /\ hit' = [hit EXCEPT ![c] = NoFault]

Takes(c, found) ==
    /\ Goes(c, "open")
    /\ sizes' = [sizes EXCEPT ![c] = found]
    /\ UNCHANGED <<search, hit>>

\* getPathProfile, whose lock is not held while the path is calibrated.  The X
\* wire is calibrated by prepare alone, and a dial uses what it has found.
Lookup(c) ==
    /\ pc[c] = "lookup"
    /\ IF wire[c].mode = "x" /\ c # Main THEN Takes(c, xsizes)
       ELSE IF wire[c].mode # "x" /\ Cached(wire[c]) THEN Takes(c, stored.sizes)
       ELSE Calibrates(c, "up") /\ UNCHANGED sizes
    /\ UNCHANGED <<env, selector, smu, det, wire, stored, xsizes>>

\* One probe of the search: it tells whether the path passes this size, except
\* when it fails or times out for another reason.
Probe(c) ==
    /\ pc[c] \in Dirs
    /\ \E r \in Outcomes :
           LET d == pc[c]
               honest == r = IF search[c].cand <= ProbeLimit(c, d) THEN "ok" ELSE "fail"
               k == Answered(search[c], Options(c), r)
               h == IF honest THEN hit[c] ELSE [hit[c] EXCEPT ![r] = @ + 1]
           IN  /\ honest \/ (r # "ok" /\ hit[c].fail + hit[c].timeout < world.faults)
               /\ IF k.stage # "done"
                  THEN /\ search' = [search EXCEPT ![c] = k]
                       /\ hit' = [hit EXCEPT ![c] = h]
                       /\ UNCHANGED <<pc, sizes>>
                  ELSE /\ Calibrates(c, IF d = "up" THEN "down" ELSE "store")
                       /\ sizes' = [sizes EXCEPT ![c][d] = [size |-> k.cand, hit |-> h]]
    /\ UNCHANGED <<env, selector, smu, det, wire, stored, xsizes>>

\* The profile replaces whatever another caller has stored meanwhile.
Store(c) ==
    /\ pc[c] = "store"
    /\ IF wire[c].mode = "x"
       THEN xsizes' = sizes[c] /\ UNCHANGED stored
       ELSE /\ stored' = [key |-> Key(wire[c]), fresh |-> TRUE, sizes |-> sizes[c],
                          workers |-> Workers(Min2(sizes[c]["up"].size,
                                                   sizes[c]["down"].size))]
            /\ UNCHANGED xsizes
    /\ Goes(c, "open")
    /\ UNCHANGED <<env, selector, smu, det, wire, search, hit, sizes>>

\* A dial has its wire and its sizes; its goroutine may dial again.
DialAgain(c) ==
    /\ c # Main /\ pc[c] = "open"
    /\ Goes(c, "choose")
    /\ wire' = [wire EXCEPT ![c] = NoWire]
    /\ sizes' = [sizes EXCEPT ![c] = NoSizes]
    /\ UNCHANGED <<env, selector, smu, det, search, hit, stored, xsizes>>

\* Thirty minutes pass.
Expire ==
    /\ stored.fresh
    /\ stored' = NoProfile
    /\ UNCHANGED <<env, selector, smu, det, pc, wire, search, hit, sizes, xsizes>>

-----------------------------------------------------------------------------
Step(c) ==
    \/ c = Main /\ (Scan \/ ScanFails)
    \/ Choose(c)
    \/ Launch(c) \/ Receive(c)
    \/ Lookup(c) \/ Probe(c) \/ Store(c)

Next ==
    \/ Expire
    \/ \E c \in Callers : Step(c) \/ DialAgain(c)
    \/ \E w \in probing : ProbeEnds(w)

Spec == Init /\ [][Next]_vars

\* Every probe has a deadline, and Go's mutex starves nobody.
Fairness ==
    /\ \A c \in Callers : SF_vars(Step(c))
    /\ WF_vars(\E w \in probing : ProbeEnds(w))

FairSpec == Spec /\ Fairness

-----------------------------------------------------------------------------
(* Safety                                                                  *)

\* The wire that the selector keeps has answered a probe of the endpoint in
\* use, and stays; a caller uses it, or the fallback of a detection that
\* failed, which is never kept.  It does not matter which probes were running
\* when the first one answered, nor that the next dial detects again.
ChoiceValidated ==
    [][/\ selector.has => selector' = selector /\ endpoint' = endpoint
       /\ selector'.has => <<endpoint', selector'.wire>> \in validated'
       /\ \A c \in Callers :
              wire'[c] \in {NoWire, selector'.wire, world.fallback}]_vars

\* What a search may rest on: good passed and bad failed for its size, since
\* timeouts count for nothing and a failure alone is outvoted where the search
\* asks more than once.
BracketIsTrue(k, limit, h) ==
    /\ k.good <= limit
    /\ k.bad = 0 \/ k.bad > limit
       \/ h.fail >= IF k.stage \in {"coarse", "fine"} THEN 1 ELSE 2

\* A result is a size that passed, or the minimum, or with max-first the size
\* of a probe that timed out ...
Safe(found, limit, o) ==
    \/ found.size <= limit
    \/ found.size = o.min
    \/ o.maxFirst /\ found.hit.timeout > 0

\* ... and unless faults have misled the search, no size larger by Fine passes.
Fits(found, limit, o) ==
    /\ Safe(found, limit, o)
    /\ found.hit.fail + found.hit.timeout <= (IF o.maxFirst THEN 0 ELSE 1) =>
           found.size = o.max \/ found.size + Fine > limit

\* The wire that the sizes for w are promised to fit: w itself on B and X, but
\* for BP the B wire of its mask.
Measured(w) == IF w.mode = "bp" THEN [w EXCEPT !.mode = "b"] ELSE w

\* Every search under way has a true bracket, and every caller goes on with
\* sizes that fit, its own or cached, although the cache holds one profile and
\* its callers use wires with several limits.  A B or X caller has the sizes of
\* its own wire.  A BP caller has those of the B wire with the same mask, which
\* its own records pass if the path passes as much of BP as of B, and not
\* otherwise: openBPTunnel takes that for granted.
ProfileFits ==
    \A c \in Callers, d \in Dirs :
        LET measured == Limit(Measured(wire[c]), d) IN
        /\ pc[c] = d => BracketIsTrue(search[c], measured, hit[c])
        /\ pc[c] = "open" =>
               /\ Fits(sizes[c][d], measured, Options(c))
               /\ measured <= Limit(wire[c], d) =>
                      Safe(sizes[c][d], Limit(wire[c], d), Options(c))

-----------------------------------------------------------------------------
(* Liveness                                                                *)

\* The scan, every calibration and every dial's setup come to an end, and no
\* probe goroutine is left behind when its result is not wanted any more.
SetupEnds ==
    /\ \A c \in Callers : (pc[c] # "off") ~> (pc[c] \in {"open", "failed"})
    /\ (probing # {}) ~> (probing = {})
=============================================================================
