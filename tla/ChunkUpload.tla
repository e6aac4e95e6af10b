----------------------------- MODULE ChunkUpload -----------------------------
(***************************************************************************)
(* The sending half of a chunkConn (chunk.go): Write cuts the caller's     *)
(* bytes into records sized by the adaptive sizer, requestLane.single runs *)
(* each record as one request on a reusable connection with one silent     *)
(* retry, and Close may come from another goroutine at any time.           *)
(*                                                                         *)
(* Byte n of the stream the caller writes is named n.  A record carries    *)
(* the offset the client claims for it (seq) and, separately, where its    *)
(* bytes really come from (from), so that a wrong offset is visible as     *)
(* wrong bytes on the server.                                              *)
(*                                                                         *)
(* The network may fail any step of a request with a timeout or another    *)
(* error.  A request whose connection the client gave up may still reach   *)
(* the server later: it becomes an orphan.                                 *)
(***************************************************************************)
EXTENDS SizerOps, LaneOps, Sequences, FiniteSets

CONSTANTS
    MinFailureLimit,   \* failures at the minimum size that end a Write: 8
    StreamLen,         \* bound: bytes the caller ever writes
    MaxOrphans         \* bound: abandoned requests still under way

ASSUME UploadAssumption ==
    /\ MinFailureLimit \in Nat \ {0}
    /\ StreamLen \in Nat
    /\ MaxOrphans \in Nat

VARIABLES
    \* Write: the goroutine that copies into the tunnel
    wpc,           \* where it is
    pos,           \* bytes its Writes have reported or will report as written
    todo,          \* len(p): bytes of the current Write not yet acknowledged
    size,          \* the local size of the record under way
    result,        \* what single returned to Write
    minFailures,   \* the local counter of failures at the minimum
    \* chunkConn
    upOffset, sizer, dead,
    \* Close
    cpc,
    \* the upload lane, and the request under way while its mutex is held
    lane, call,
    \* the server: bytes its session took in, and requests still on the way
    applied, session, orphans,
    timedOut       \* history: an upload request of this tunnel timed out

writer == <<wpc, pos, todo, size, result, minFailures, upOffset, sizer>>
server == <<applied, session, orphans>>
vars == <<writer, dead, cpc, lane, call, server, timedOut>>

-----------------------------------------------------------------------------
UploadRequests == [op : {"upload"}, seq : Nat, from : Nat, n : Nat \ {0}]
CloseRequest == [op |-> "close", seq |-> 0, from |-> 0, n |-> 0]
Requests == UploadRequests \cup {CloseRequest}

Calls == [by : {"nobody", "writer", "closer"},
          step : {"free", "ensure", "send", "recv"},
          attempt : 0 .. 2,
          req : Requests,
          answer : {"none", "ok", "refused"}]

\* The mutex of the lane is free exactly when no single() is in progress.
Free == [by |-> "nobody", step |-> "free", attempt |-> 0,
         req |-> CloseRequest, answer |-> "none"]

\* The entry of single: its caller has the mutex and starts attempt 1 of 2.
Entered(who, request) ==
    [by |-> who, step |-> "ensure", attempt |-> 1,
     req |-> request, answer |-> "none"]

FaultKinds == {"timeout", "error"}
Outcomes == {"none", "ok", "refused"} \cup FaultKinds

\* n := minInt(size, len(p))
RecordLen == Smaller(size, todo)

TypeOK ==
    /\ wpc \in {"idle", "next", "single", "result", "stopped"}
    /\ pos \in Nat /\ todo \in Nat /\ upOffset \in Nat
    /\ size \in Sizes
    /\ result \in Outcomes
    /\ minFailures \in 0 .. MinFailureLimit
    /\ sizer \in Sizers
    /\ dead \in BOOLEAN
    /\ cpc \in {"open", "graceful", "single", "lanes", "done"}
    /\ lane \in Lanes
    /\ call \in Calls
    /\ applied \in Seq(Nat)
    /\ session \in {"open", "closed"}
    /\ orphans \subseteq Requests
    /\ timedOut \in BOOLEAN

Init ==
    /\ wpc = "idle" /\ pos = 0 /\ todo = 0 /\ size = MinSize
    /\ result = "none" /\ minFailures = 0 /\ upOffset = 0
    /\ \E start \in Sizes : sizer = NewSizer(start)
    /\ dead = FALSE
    /\ cpc = "open"
    /\ lane = Answered(Dialled(NewLane))   \* the lane has carried OPEN
    /\ call = Free
    /\ applied = <<>> /\ session = "open" /\ orphans = {}
    /\ timedOut = FALSE

-----------------------------------------------------------------------------
(* Write                                                                   *)

\* A caller hands over a slice of any length.
BeginWrite ==
    /\ wpc = "idle"
    /\ \E len \in 1 .. StreamLen - pos : todo' = len
    /\ minFailures' = 0
    /\ wpc' = "next"
    /\ UNCHANGED <<pos, size, result, upOffset, sizer,
                   dead, cpc, lane, call, server, timedOut>>

\* size := upSizer.Current(), and single() gets the lane's mutex.
StartUpload ==
    /\ wpc = "next"
    /\ call = Free
    /\ size' = sizer.current
    /\ call' = Entered("writer",
                       [op |-> "upload", seq |-> upOffset, from |-> pos,
                        n |-> Smaller(sizer.current, todo)])
    /\ wpc' = "single"
    /\ UNCHANGED <<pos, todo, result, minFailures, upOffset, sizer,
                   dead, cpc, lane, server, timedOut>>

\* A timeout is a hard tunnel boundary: nothing is retried.
WriteTimedOut ==
    /\ wpc = "result" /\ result = "timeout"
    /\ dead' = TRUE
    /\ wpc' = "stopped"
    /\ UNCHANGED <<pos, todo, size, result, minFailures, upOffset, sizer,
                   cpc, lane, call, server, timedOut>>

\* Mutant of FailuresNow: every retry starts counting anew.
FailuresForgotten ==
    LET next == FailureReason(sizer, size).current
    IN  IF sizer.current = next /\ next = MinSize THEN 1 ELSE 0

\* Failures in a row at the minimum size; a shrink starts the count anew.
FailuresNow ==
    LET next == FailureReason(sizer, size).current
    IN  IF sizer.current = next /\ next = MinSize THEN minFailures + 1 ELSE 0

\* Mutant of WriteFailed: the offset advances although no answer came.
WriteFailedAdvances ==
    /\ wpc = "result" /\ result = "error"
    /\ upOffset' = upOffset + RecordLen
    /\ sizer' = FailureReason(sizer, size)
    /\ minFailures' = FailuresNow
    /\ wpc' = IF FailuresNow >= MinFailureLimit THEN "stopped" ELSE "next"
    /\ UNCHANGED <<pos, todo, size, result,
                   dead, cpc, lane, call, server, timedOut>>

\* Any other error: shrink the record and try again from the same offset, or
\* give up after too many failures at the minimum size.
WriteFailed ==
    /\ wpc = "result" /\ result = "error"
    /\ sizer' = FailureReason(sizer, size)
    /\ minFailures' = FailuresNow
    /\ wpc' = IF FailuresNow >= MinFailureLimit THEN "stopped" ELSE "next"
    /\ UNCHANGED <<pos, todo, size, result, upOffset,
                   dead, cpc, lane, call, server, timedOut>>

\* An ERROR (or unexpected) status ends the Write without marking it dead.
WriteRefused ==
    /\ wpc = "result" /\ result = "refused"
    /\ wpc' = "stopped"
    /\ UNCHANGED <<pos, todo, size, result, minFailures, upOffset, sizer,
                   dead, cpc, lane, call, server, timedOut>>

WriteAcked ==
    /\ wpc = "result" /\ result = "ok"
    /\ upOffset' = upOffset + RecordLen
    /\ pos' = pos + RecordLen
    /\ todo' = todo - RecordLen
    /\ sizer' = Success(sizer, size)
    /\ minFailures' = 0
    /\ wpc' = IF todo = RecordLen THEN "idle" ELSE "next"
    /\ UNCHANGED <<size, result, dead, cpc, lane, call, server, timedOut>>

-----------------------------------------------------------------------------
(* requestLane.single, run by whoever entered it                           *)

\* The deferred unlock, with the value single returns to its caller.
Return(outcome) ==
    /\ call' = Free
    /\ IF call.by = "writer"
       THEN wpc' = "result" /\ result' = outcome /\ UNCHANGED cpc
       ELSE cpc' = "lanes" /\ UNCHANGED <<wpc, result>>

\* Mutant of AfterFault: a timeout is retried like any other error.
AfterFaultRetriesAll(kind) ==
    IF call.attempt = 2
    THEN Return(kind)
    ELSE /\ call' = [call EXCEPT !.step = "ensure", !.attempt = 2,
                                 !.answer = "none"]
         /\ UNCHANGED <<wpc, result, cpc>>

\* A timeout returns at once; another error is retried once.
AfterFault(kind) ==
    IF kind = "timeout" \/ call.attempt = 2
    THEN Return(kind)
    ELSE /\ call' = [call EXCEPT !.step = "ensure", !.attempt = 2,
                                 !.answer = "none"]
         /\ UNCHANGED <<wpc, result, cpc>>

notSingle == <<pos, todo, size, minFailures, upOffset, sizer, dead>>

NoteTimeout(kind) ==
    timedOut' = (timedOut \/ (kind = "timeout" /\ call.req.op = "upload"))

EnsureClosed ==
    /\ call.step = "ensure" /\ lane.closed
    /\ AfterFault("error")
    /\ UNCHANGED <<notSingle, lane, server, timedOut>>

EnsureReuses ==
    /\ call.step = "ensure" /\ ~lane.closed
    /\ Reusable(lane)
    /\ call' = [call EXCEPT !.step = "send"]
    /\ UNCHANGED <<notSingle, wpc, result, cpc, lane, server, timedOut>>

\* Mutant of Dial: a closed lane may be dialled again.
DialEvenIfClosed ==
    /\ call.step = "ensure"
    /\ ~Reusable(lane)
    /\ lane' = Dialled(lane)
    /\ call' = [call EXCEPT !.step = "send"]
    /\ UNCHANGED <<notSingle, wpc, result, cpc, server, timedOut>>

Dial ==
    /\ call.step = "ensure" /\ ~lane.closed
    /\ ~Reusable(lane)
    /\ lane' = Dialled(lane)
    /\ call' = [call EXCEPT !.step = "send"]
    /\ UNCHANGED <<notSingle, wpc, result, cpc, server, timedOut>>

DialFails(kind) ==
    /\ call.step = "ensure" /\ ~lane.closed
    /\ ~Reusable(lane)
    /\ lane' = Discarded(lane)
    /\ AfterFault(kind)
    /\ NoteTimeout(kind)
    /\ UNCHANGED <<notSingle, server>>

Send ==
    /\ call.step = "send"
    /\ call' = [call EXCEPT !.step = "recv"]
    /\ UNCHANGED <<notSingle, wpc, result, cpc, lane, server, timedOut>>

\* The write of the request fails: an incomplete record is never processed.
SendFails(kind) ==
    /\ call.step = "send"
    /\ lane' = Failed(lane)
    /\ AfterFault(kind)
    /\ NoteTimeout(kind)
    /\ UNCHANGED <<notSingle, server>>

Receive ==
    /\ call.step = "recv" /\ call.answer # "none"
    /\ lane' = Answered(lane)
    /\ Return(call.answer)
    /\ UNCHANGED <<notSingle, server, timedOut>>

\* No response in time, or the connection broke: the server may have taken the
\* request already, may take it later, or may never see it.
ReceiveFails(kind) ==
    /\ call.step = "recv"
    /\ lane' = Failed(lane)
    /\ \/ UNCHANGED orphans
       \/ /\ call.answer = "none"
          /\ Cardinality(orphans \cup {call.req}) <= MaxOrphans
          /\ orphans' = orphans \cup {call.req}
    /\ AfterFault(kind)
    /\ NoteTimeout(kind)
    /\ UNCHANGED <<notSingle, applied, session>>

-----------------------------------------------------------------------------
(* Close                                                                   *)

\* closeOnce, and dead.Load()
BeginClose ==
    /\ cpc = "open"
    /\ cpc' = IF dead THEN "lanes" ELSE "graceful"
    /\ UNCHANGED <<writer, dead, lane, call, server, timedOut>>

\* single(ModeClose) gets the mutex of the upload lane.
StartClose ==
    /\ cpc = "graceful"
    /\ call = Free
    /\ call' = Entered("closer", CloseRequest)
    /\ cpc' = "single"
    /\ UNCHANGED <<writer, dead, lane, server, timedOut>>

CloseLanes ==
    /\ cpc = "lanes"
    /\ call = Free
    /\ lane' = Shut(lane)
    /\ cpc' = "done"
    /\ UNCHANGED <<writer, dead, call, server, timedOut>>

\* Read, in its own goroutine, timed out (fillReadBuffer).
ReadTimedOut ==
    /\ ~dead
    /\ dead' = TRUE
    /\ UNCHANGED <<writer, cpc, lane, call, server, timedOut>>

-----------------------------------------------------------------------------
(* The server, as far as the client relies on it: bytes it already has are *)
(* not taken twice, a record that leaves a gap is refused.                 *)

Accepts(r) == session = "open" /\ r.seq <= Len(applied)

NewBytes(r) ==
    LET have == Len(applied) - r.seq
    IN  [i \in 1 .. Larger(r.n - have, 0) |-> r.from + have + i]

Process(r) ==
    IF r.op = "close"
    THEN session' = "closed" /\ UNCHANGED applied
    ELSE /\ applied' = IF Accepts(r) THEN applied \o NewBytes(r) ELSE applied
         /\ UNCHANGED session

Serve ==
    /\ call.step = "recv" /\ call.answer = "none"
    /\ Process(call.req)
    /\ call' = [call EXCEPT !.answer =
                    IF call.req.op = "close" \/ Accepts(call.req)
                    THEN "ok" ELSE "refused"]
    /\ UNCHANGED <<writer, dead, cpc, lane, orphans, timedOut>>

ServeOrphan ==
    /\ \E r \in orphans : Process(r) /\ orphans' = orphans \ {r}
    /\ UNCHANGED <<writer, dead, cpc, lane, call, timedOut>>

\* The target closed, or the session expired.
ServerEnds ==
    /\ session = "open"
    /\ session' = "closed"
    /\ UNCHANGED <<writer, dead, cpc, lane, call, applied, orphans, timedOut>>

-----------------------------------------------------------------------------
WriteStep ==
    BeginWrite \/ StartUpload \/ WriteTimedOut \/ WriteFailed
        \/ WriteRefused \/ WriteAcked

SingleStep ==
    \/ EnsureClosed \/ EnsureReuses \/ Dial \/ Send \/ Receive
    \/ \E kind \in FaultKinds :
           DialFails(kind) \/ SendFails(kind) \/ ReceiveFails(kind)

CloseStep == BeginClose \/ StartClose \/ CloseLanes

Next ==
    \/ WriteStep \/ SingleStep \/ CloseStep
    \/ ReadTimedOut
    \/ Serve \/ ServeOrphan \/ ServerEnds

Spec == Init /\ [][Next]_vars

\* Write and Close run once called; every wait inside single is bounded by the
\* connection's deadline or the dial timeout; Go's mutex hands over to a waiter
\* that starves, so whoever keeps asking for a free lane gets it.
Fairness ==
    /\ WF_vars(WriteTimedOut \/ WriteFailed \/ WriteRefused \/ WriteAcked)
    /\ SF_vars(StartUpload)
    /\ WF_vars(SingleStep)
    /\ SF_vars(StartClose)
    /\ SF_vars(CloseLanes)

FairSpec == Spec /\ Fairness

-----------------------------------------------------------------------------
(* Safety                                                                  *)

\* Whatever is retried, resized, replayed on a new connection or delivered
\* late, the server's stream is the caller's bytes, each once, in order.
ExactlyOnceInOrder == \A i \in DOMAIN applied : applied[i] = i

\* The count Write reports covers only bytes the server has taken, and the
\* server never has bytes beyond those the caller handed over.
AckedWereApplied == pos <= Len(applied) /\ Len(applied) <= pos + todo

\* After Close returns the lane has no connection and never gets one again,
\* even when a Write is still retrying.
NothingOpenAfterClose == cpc = "done" => lane.closed /\ ~lane.open

\* Once an upload request has timed out, no upload request is put on a
\* connection any more: a replay could duplicate what the server received.
SendsUpload ==
    call.step = "send" /\ call'.step = "recv" /\ call.req.op = "upload"

NoReplayAfterTimeout == [][timedOut => ~SendsUpload]_vars

\* The comment in Close: a tunnel that timed out is dead, and Close does not
\* redial merely to send a graceful CLOSE.
NoRedialWhenDead ==
    [][dead /\ call.by = "closer" => ~(lane'.open /\ ~lane.open)]_vars

\* The upload direction is a reliable byte pipe.
Pipe == INSTANCE BytePipe WITH offered <- pos + todo,
                               delivered <- applied,
                               released <- pos
PipeSpec == Pipe!Spec

-----------------------------------------------------------------------------
(* Liveness, when the sizer is adaptive                                    *)

\* A Write always returns, however many requests fail and whatever the server
\* answers: repeated failures shrink the record to the minimum and end there.
\* A Close always returns: it waits for the Write that has the lane.
CallsReturn ==
    /\ (wpc = "next") ~> (wpc \in {"idle", "stopped"})
    /\ (cpc # "open") ~> (cpc = "done")
=============================================================================
