-------------------------- MODULE AdaptiveSizerPath --------------------------
(***************************************************************************)
(* The adaptiveSizer on a path with a size limit: a record passes when it  *)
(* is no larger than the limit and fails otherwise, which is the carrier   *)
(* the controller is designed for (docs/adaptive-chunk.md).  The limit may *)
(* move, up or down, at most MaxChanges times: "recovering automatically   *)
(* if conditions change".                                                  *)
(***************************************************************************)
EXTENDS AdaptiveSizer

CONSTANT MaxChanges    \* bound on how often the path changes

VARIABLES
    limit,     \* the largest size the path carries
    changes    \* how often it has changed

pathVars == <<tuner, attempt, limit, changes>>

PathInit ==
    /\ SizerInit
    /\ limit \in Sizes
    /\ changes = 0

Try(w) == Begin(w) /\ UNCHANGED <<limit, changes>>

Pass(w) ==
    /\ attempt[w] <= limit
    /\ ReportSuccess(w)
    /\ UNCHANGED <<limit, changes>>

Reject(w) ==
    /\ attempt[w] > limit
    /\ ReportFailure(w)
    /\ UNCHANGED <<limit, changes>>

PathChanges ==
    /\ changes < MaxChanges
    /\ \E l \in Sizes \ {limit} : limit' = l
    /\ changes' = changes + 1
    /\ UNCHANGED <<tuner, attempt>>

PathNext == PathChanges \/ \E w \in Workers : Try(w) \/ Pass(w) \/ Reject(w)

\* The goroutine of a worker keeps running records: each of its steps is a
\* statement of the code between two bounded waits.
PathSpec ==
    /\ PathInit
    /\ [][PathNext]_pathVars
    /\ \A w \in Workers : WF_pathVars(Try(w) \/ Pass(w) \/ Reject(w))

-----------------------------------------------------------------------------
\* Until the path changes, the bracket is right about the path: what the sizer
\* takes for good passes and what it takes for bad fails.
BracketIsTrue ==
    changes = 0 => /\ tuner.good <= limit
                   /\ tuner.bad > 0 => tuner.bad > limit

\* The sizer finds the limit of the path, again and again, from every start
\* size and after every change: it neither settles below a size that would
\* pass nor keeps retrying sizes that cannot.
FindsTheLimit == []<>(tuner.current = limit)
=============================================================================
