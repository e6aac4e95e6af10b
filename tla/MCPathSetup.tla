---------------------------- MODULE MCPathSetup ----------------------------
(* Instance of PathSetup for TLC.  The sizes are real ones.                *)
EXTENDS PathSetup, TLC

CONSTANTS main, d1, d2

b0 == [mode |-> "b", mask |-> 0]
bp0 == [mode |-> "bp", mask |-> 0]
b8 == [mode |-> "b", mask |-> 8]
bp8 == [mode |-> "bp", mask |-> 8]
x0 == [mode |-> "x", mask |-> 0]

\* What the path passes of a wire, upwards; downwards it passes 20 bytes.
Passing(up) == [w \in DOMAIN up |-> [d \in Dirs |-> IF d = "up" THEN up[w] ELSE 20]]

Small == [min |-> 32, max |-> 64, maxFirst |-> FALSE]

\* No main: two goroutines dial and may use the fallback or the wire that
\* passes.  The limits of the two masks differ, and those of B and BP on each.
Racing(passing, faults) ==
    [callers |-> {d1, d2}, endpoints |-> 1, reachable |-> {1},
     candidates |-> <<b0, passing>>, fallback |-> b0,
     passes |-> <<{passing}>>,
     limit |-> Passing(b0 :> 64 @@ bp0 :> 32 @@ b8 :> 48 @@ bp8 :> 64),
     options |-> Small, lost |-> 1, faults |-> faults]

\* main scans two endpoints, and one goroutine dials.
Scanning(reachable, passes, maxFirst) ==
    [callers |-> {main, d1}, endpoints |-> 2, reachable |-> reachable,
     candidates |-> <<b0, bp8, x0>>, fallback |-> b0, passes |-> passes,
     limit |-> Passing(b0 :> 64 @@ b8 :> 64 @@ bp8 :> 64 @@ x0 :> 32),
     options |-> [Small EXCEPT !.maxFirst = maxFirst], lost |-> 1, faults |-> 0]

\* One wire and one caller, for a whole calibration.
Calibrating(options, limit) ==
    [callers |-> {d1}, endpoints |-> 1, reachable |-> {1},
     candidates |-> <<b0>>, fallback |-> b0, passes |-> <<{b0}>>,
     limit |-> Passing(b0 :> limit),
     options |-> options, lost |-> 0, faults |-> 2]

Ascending == [min |-> 32, max |-> 2048, maxFirst |-> FALSE]
Descending == [min |-> 32, max |-> 524288, maxFirst |-> TRUE]

MCWorlds ==
    <<Racing(bp8, 1), Racing(bp0, 0),
      Scanning({2}, <<{}, {b0, bp8, x0}>>, FALSE),
      Scanning({1, 2}, <<{x0}, {}>>, TRUE),
      Scanning({1, 2}, <<{}, {}>>, FALSE),
      Calibrating(Ascending, 20), Calibrating(Ascending, 1400),
      Calibrating(Ascending, 5000),
      Calibrating(Descending, 20), Calibrating(Descending, 200000),
      Calibrating(Descending, 600000)>>
=============================================================================
