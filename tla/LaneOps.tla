------------------------------- MODULE LaneOps -------------------------------
(***************************************************************************)
(* A requestLane (chunk.go) as pure operators: the reusable physical       *)
(* connection a direction of a tunnel sends its requests on, and the       *)
(* policy that decides when it is replaced.  ReconnectEvery 0 keeps a      *)
(* connection for good, N >= 2 rotates it after N requests, and 1 starts   *)
(* persistent and learns one request per connection when a reused          *)
(* connection fails.                                                       *)
(***************************************************************************)
EXTENDS Integers

CONSTANTS
    ReconnectEvery,   \* opts.reconnectEvery
    RequestCap        \* bound: pc.requests saturates here

ASSUME LaneAssumption ==
    /\ ReconnectEvery \in Nat
    /\ RequestCap \in Nat \ {0}
    /\ RequestCap >= ReconnectEvery

\* every is the rotation in force; open says that pc is not nil, requests is
\* pc.requests (0 without a connection).
Lanes == [every : {0, 1, ReconnectEvery},
          open : BOOLEAN,
          requests : 0 .. RequestCap,
          closed : BOOLEAN]

\* newRequestLane
NewLane == [every |-> IF ReconnectEvery = 1 THEN 0 ELSE ReconnectEvery,
            open |-> FALSE, requests |-> 0, closed |-> FALSE]

\* discardLocked
Discarded(l) == [l EXCEPT !.open = FALSE, !.requests = 0]

\* transportFailureLocked: in auto mode a failed reuse is remembered.
Failed(l) ==
    Discarded(IF ReconnectEvery = 1 /\ l.requests > 0
              THEN [l EXCEPT !.every = 1] ELSE l)

\* ensureLocked: may the open connection carry one more request?
Reusable(l) == l.open /\ (l.every = 0 \/ l.requests < l.every)

\* ensureLocked: a successful dial and preface.
Dialled(l) == [l EXCEPT !.open = TRUE, !.requests = 0]

\* The end of an answered request: requests++ and closeAfterLocked.
Answered(l) ==
    LET used == IF l.requests < RequestCap THEN l.requests + 1 ELSE RequestCap
    IN  IF l.every > 0 /\ used >= l.every
        THEN Discarded(l)
        ELSE [l EXCEPT !.requests = used]

\* Close
Shut(l) == [Discarded(l) EXCEPT !.closed = TRUE]
=============================================================================
