------------------------------ MODULE BPTunnel ------------------------------
(***************************************************************************)
(* A tunnel of the BP wire (bp.go), from its opening to its Close.  Unlike *)
(* the B wire it acknowledges with a request of its own, sent on the       *)
(* download lane before the next batch; a batch answers with exactly as    *)
(* many responses as were asked for, WAIT and EOF among them; data beside  *)
(* an error is dropped; and one failure at the minimum size ends a call.   *)
(*                                                                         *)
(* Byte n that the caller writes is named n, and so is byte n that the     *)
(* target sends.  A lane's mutex is held here until its caller has taken   *)
(* the result of the request: what the caller does with the result in      *)
(* between is seen by nobody who waits for the mutex.                      *)
(***************************************************************************)
EXTENDS SizerOps, LaneOps, Sequences

CONSTANTS
    MinPipeline, MaxPipeline,   \* responses per batch: opts.minPipeline, max
    Loads                       \* bound: pairs <<bytes the caller writes,
                                \* bytes the target sends>> of a behaviour;
                                \* nobody reads where the target never sends

ASSUME BPAssumption ==
    /\ MinPipeline \in Nat \ {0}
    /\ MaxPipeline \in Nat
    /\ MinPipeline <= MaxPipeline
    /\ Loads \subseteq Nat \X Nat

VARIABLES
    load,           \* the load of this behaviour
    opc,            \* openBPTunnel: where it is
    \* Write
    wpc, offered, p, size, upOffset, upSizer,
    \* Read
    rpc, consumed, readBuf, downloadOffset, consumedOffset, lastAck, eof,
    pipeline, downSizer,
    \* Close; closeAck is the offset its last request carries
    cpc, closeAck, dead,
    \* the two lanes, and the request each carries while its mutex is held
    lane, call,
    \* the server: the bytes it took in, upload records of abandoned
    \* connections, what the target sent, whether the target has finished,
    \* and which of its bytes the server has forgotten
    session, received, orphans, produced, ended, released

writer == <<wpc, offered, p, size, upOffset, upSizer>>
reader == <<rpc, consumed, readBuf, downloadOffset, consumedOffset, lastAck,
            eof, pipeline, downSizer>>
closer == <<cpc, closeAck>>
target == <<produced, ended>>
vars == <<load, opc, writer, reader, closer, dead, lane, call, session,
          received, orphans, target, released>>

-----------------------------------------------------------------------------
Dirs == {"up", "down"}
FaultKinds == {"timeout", "error"}

\* seq is the sequence number of an upload, and an offset otherwise.
Requests == [mode : {"register", "open", "upload", "ack", "batch", "close"},
             seq : Nat, payload : Seq(Nat), max : {0} \cup Sizes,
             count : 0 .. MaxPipeline]

NoRequest == [mode |-> "register", seq |-> 0, payload |-> <<>>, max |-> 0,
              count |-> 0]

\* out and last are download's out and lastStatus; refused is a StatusError,
\* or a status the caller does not expect.
Calls == [step : {"free", "ensure", "recv", "ok", "refused"} \cup FaultKinds,
          attempt : 0 .. 2, req : Requests, got : 0 .. MaxPipeline,
          out : Seq(Nat), last : {"ok", "data", "wait", "eof"}]

Free == [step |-> "free", attempt |-> 0, req |-> NoRequest, got |-> 0,
         out |-> <<>>, last |-> "ok"]

TypeOK ==
    /\ load \in Loads
    /\ opc \in {"register", "open", "ready", "failed"}
    /\ wpc \in {"idle", "next", "single", "stopped"}
    /\ offered \in Nat /\ p \in Seq(Nat) /\ size \in Sizes
    /\ upOffset \in Nat /\ upSizer \in Sizers
    /\ rpc \in {"idle", "ack", "acking", "fetch", "batch", "copy", "eof",
                "stopped"}
    /\ consumed \in Seq(Nat) /\ readBuf \in Seq(Nat)
    /\ downloadOffset \in Nat /\ consumedOffset \in Nat /\ lastAck \in Nat
    /\ eof \in BOOLEAN /\ pipeline \in MinPipeline .. MaxPipeline
    /\ downSizer \in Sizers
    /\ cpc \in {"open", "graceful", "single", "up", "down", "done"}
    /\ closeAck \in Nat /\ dead \in BOOLEAN
    /\ lane \in [Dirs -> Lanes] /\ call \in [Dirs -> Calls]
    /\ session \in {"none", "registered", "open", "closed"}
    /\ received \in Seq(Nat)
    /\ orphans \subseteq [seq : Nat, payload : Seq(Nat)]
    /\ produced \in Nat /\ ended \in BOOLEAN /\ released \in Nat

\* single: the caller has the mutex of lane l, and starts attempt 1 of 2.
Enters(l, request) ==
    /\ call[l] = Free
    /\ call' = [call EXCEPT ![l] = [Free EXCEPT !.step = "ensure",
                                                !.attempt = 1,
                                                !.req = request]]

\* openBPTunnel up to the registration: the lanes, and the sizers that the
\* calibration sets to start anywhere in range.
Init ==
    /\ load \in Loads
    /\ opc = "register"
    /\ wpc = "idle" /\ offered = 0 /\ p = <<>> /\ size = MinSize
    /\ upOffset = 0
    /\ \E start \in Sizes : upSizer = NewSizer(start) /\ downSizer = NewSizer(start)
    /\ rpc = "idle" /\ consumed = <<>> /\ readBuf = <<>>
    /\ downloadOffset = 0 /\ consumedOffset = 0 /\ lastAck = 0
    /\ eof = FALSE /\ pipeline = MaxPipeline
    /\ cpc = "open" /\ closeAck = 0 /\ dead = FALSE
    /\ lane = [l \in Dirs |-> NewLane]
    /\ call = [l \in Dirs |-> IF l = "down" THEN Free
                              ELSE [Free EXCEPT !.step = "ensure",
                                                !.attempt = 1,
                                                !.req = NoRequest]]
    /\ session = "none" /\ received = <<>> /\ orphans = {}
    /\ produced = 0 /\ ended = FALSE /\ released = 0

\* The caller takes the result of the request on lane l.
Takes(l, mode, steps) ==
    /\ call[l].step \in steps /\ call[l].req.mode = mode

Leaves(l) == call' = [call EXCEPT ![l] = Free]

-----------------------------------------------------------------------------
(* openBPTunnel: registration, then OPEN, on the upload lane               *)

others == <<load, session, received, orphans, target, released>>

Registered ==
    /\ opc = "register" /\ Takes("up", "register", {"ok"})
    /\ opc' = "open"
    /\ call' = [call EXCEPT !["up"] = [Free EXCEPT
           !.step = "ensure", !.attempt = 1,
           !.req = [NoRequest EXCEPT !.mode = "open", !.seq = 1]]]
    /\ UNCHANGED <<writer, reader, closer, dead, lane, others>>

Opened ==
    /\ opc = "open" /\ Takes("up", "open", {"ok"})
    /\ opc' = "ready"
    /\ Leaves("up")
    /\ UNCHANGED <<writer, reader, closer, dead, lane, others>>

\* Any other outcome closes the upload lane; the tunnel does not exist.
OpenFails ==
    /\ opc \in {"register", "open"}
    /\ call["up"].step \in {"refused"} \cup FaultKinds
    /\ opc' = "failed"
    /\ Leaves("up")
    /\ lane' = [lane EXCEPT !["up"] = Shut(@)]
    /\ UNCHANGED <<writer, reader, closer, dead, others>>

-----------------------------------------------------------------------------
(* Write                                                                   *)

writeKeeps == <<opc, reader, closer, lane, others>>

BeginWrite ==
    /\ opc = "ready" /\ wpc = "idle"
    /\ \E n \in 1 .. load[1] - offered :
           /\ p' = [i \in 1 .. n |-> offered + i]
           /\ offered' = offered + n
    /\ wpc' = "next"
    /\ UNCHANGED <<size, upOffset, upSizer, dead, call, writeKeeps>>

\* The sequence numbers 0 and 1 were the registration and OPEN.
StartUpload ==
    /\ wpc = "next"
    /\ size' = upSizer.current
    /\ Enters("up", [NoRequest EXCEPT
           !.mode = "upload", !.seq = upOffset + 2,
           !.payload = SubSeq(p, 1, Smaller(upSizer.current, Len(p)))])
    /\ wpc' = "single"
    /\ UNCHANGED <<offered, p, upOffset, upSizer, dead, writeKeeps>>

RecordLen == Len(call["up"].req.payload)

WriteAcked ==
    /\ Takes("up", "upload", {"ok"})
    /\ upOffset' = upOffset + RecordLen
    /\ p' = SubSeq(p, RecordLen + 1, Len(p))
    /\ upSizer' = Success(upSizer, size)
    /\ size' = MinSize
    /\ wpc' = IF p' = <<>> THEN "idle" ELSE "next"
    /\ Leaves("up")
    /\ UNCHANGED <<offered, dead, writeKeeps>>

\* The one failure that is not retried: at a size that does not move and is
\* the minimum.
AtMinimum(before, after) ==
    after.current = before.current /\ after.current = MinSize

\* Mutant of GivesUp: a failure at the minimum is retried too.
NeverGivesUp(before, after) == FALSE

GivesUp(before, after) == AtMinimum(before, after)

WriteFailed ==
    /\ Takes("up", "upload", {"error"})
    /\ upSizer' = FailureReason(upSizer, size)
    /\ size' = MinSize
    /\ wpc' = IF GivesUp(upSizer, upSizer') THEN "stopped" ELSE "next"
    /\ Leaves("up")
    /\ UNCHANGED <<offered, p, upOffset, dead, writeKeeps>>

\* A refusal ends the Write, and so does a timeout, which ends the tunnel.
WriteEnds ==
    /\ Takes("up", "upload", {"refused", "timeout"})
    /\ dead' = (dead \/ call["up"].step = "timeout")
    /\ wpc' = "stopped"
    /\ size' = MinSize
    /\ Leaves("up")
    /\ UNCHANGED <<offered, p, upOffset, upSizer, writeKeeps>>

-----------------------------------------------------------------------------
(* Read and fillReadBuffer                                                 *)

\* Mutant of AckOffset: what was received is acknowledged, not what was read.
AckReceived == downloadOffset

\* What a Read and a Close acknowledge.
AckOffset == consumedOffset

readKeeps == <<opc, writer, closer, lane, others>>

BeginRead ==
    /\ opc = "ready" /\ rpc = "idle" /\ load[2] > 0
    /\ rpc' = IF readBuf # <<>> THEN "copy" ELSE IF eof THEN "eof" ELSE "ack"
    /\ UNCHANGED <<consumed, readBuf, downloadOffset, consumedOffset, lastAck,
                   eof, pipeline, downSizer, dead, call, readKeeps>>

\* The top of the loop: what was consumed since the last acknowledgement is
\* acknowledged first.
StartAck ==
    /\ rpc = "ack" /\ consumedOffset > lastAck
    /\ Enters("down", [NoRequest EXCEPT !.mode = "ack", !.seq = AckOffset])
    /\ rpc' = "acking"
    /\ UNCHANGED <<consumed, readBuf, downloadOffset, consumedOffset, lastAck,
                   eof, pipeline, downSizer, dead, readKeeps>>

Acked ==
    /\ Takes("down", "ack", {"ok"})
    /\ lastAck' = consumedOffset
    /\ rpc' = "fetch"
    /\ Leaves("down")
    /\ UNCHANGED <<consumed, readBuf, downloadOffset, consumedOffset, eof,
                   pipeline, downSizer, dead, readKeeps>>

\* A Read ends with the error of its acknowledgement, without a retry.
AckEnds ==
    /\ Takes("down", "ack", {"refused"} \cup FaultKinds)
    /\ dead' = (dead \/ call["down"].step = "timeout")
    /\ rpc' = "stopped"
    /\ Leaves("down")
    /\ UNCHANGED <<consumed, readBuf, downloadOffset, consumedOffset, lastAck,
                   eof, pipeline, downSizer, readKeeps>>

StartBatch ==
    /\ \/ rpc = "fetch"
       \/ rpc = "ack" /\ consumedOffset <= lastAck
    /\ Enters("down", [NoRequest EXCEPT
           !.mode = "batch", !.seq = downloadOffset,
           !.max = downSizer.current, !.count = pipeline])
    /\ rpc' = "batch"
    /\ UNCHANGED <<consumed, readBuf, downloadOffset, consumedOffset, lastAck,
                   eof, pipeline, downSizer, dead, readKeeps>>

\* Mutant of EndSeen: a batch without data is taken for the end.
EndSeenOnEmpty == call["down"].out = <<>>

EndSeen == call["down"].last = "eof"

\* Mutant of PipelineAfter: growth is not capped.
PipelineUncapped(data) == IF data # <<>> THEN pipeline + 1 ELSE pipeline

PipelineAfter(data) ==
    IF data # <<>> /\ pipeline < MaxPipeline THEN pipeline + 1 ELSE pipeline

BatchDone ==
    /\ Takes("down", "batch", {"ok"})
    /\ LET data == call["down"].out
       IN  /\ readBuf' = readBuf \o data
           /\ downloadOffset' = downloadOffset + Len(data)
           /\ downSizer' = IF data # <<>>
                           THEN Success(downSizer, call["down"].req.max)
                           ELSE downSizer
           /\ pipeline' = PipelineAfter(data)
    /\ eof' = EndSeen
    /\ rpc' = IF readBuf' # <<>> THEN "copy" ELSE IF eof' THEN "eof" ELSE "ack"
    /\ Leaves("down")
    /\ UNCHANGED <<consumed, consumedOffset, lastAck, dead, readKeeps>>

\* An error, or an ERROR response in the batch: the data is dropped and the
\* offset stays.
BatchFailed ==
    /\ Takes("down", "batch", {"refused", "error"})
    /\ downSizer' = FailureReason(downSizer, call["down"].req.max)
    /\ rpc' = IF GivesUp(downSizer, downSizer') THEN "stopped" ELSE "ack"
    /\ Leaves("down")
    /\ UNCHANGED <<consumed, readBuf, downloadOffset, consumedOffset, lastAck,
                   eof, pipeline, dead, readKeeps>>

BatchTimedOut ==
    /\ Takes("down", "batch", {"timeout"})
    /\ dead' = TRUE
    /\ rpc' = "stopped"
    /\ Leaves("down")
    /\ UNCHANGED <<consumed, readBuf, downloadOffset, consumedOffset, lastAck,
                   eof, pipeline, downSizer, readKeeps>>

\* The rest of Read: copy into the caller's slice, of any length.
Copy ==
    /\ rpc = "copy"
    /\ \E n \in 1 .. Len(readBuf) :
           /\ consumed' = consumed \o SubSeq(readBuf, 1, n)
           /\ readBuf' = SubSeq(readBuf, n + 1, Len(readBuf))
           /\ consumedOffset' = consumedOffset + n
    /\ rpc' = "idle"
    /\ UNCHANGED <<downloadOffset, lastAck, eof, pipeline, downSizer, dead,
                   call, readKeeps>>

-----------------------------------------------------------------------------
(* Close                                                                   *)

closeKeeps == <<opc, writer, reader, dead, others>>

\* consumedOffset is read without readMu, so a Read may move it before the
\* request is sent.  (It is aligned and below 2^32, so no read of it is torn.)
BeginClose ==
    /\ opc = "ready" /\ cpc = "open"
    /\ cpc' = IF dead THEN "up" ELSE "graceful"
    /\ closeAck' = IF dead THEN 0 ELSE AckOffset
    /\ UNCHANGED <<lane, call, closeKeeps>>

StartClose ==
    /\ cpc = "graceful"
    /\ Enters("down", [NoRequest EXCEPT !.mode = "close", !.seq = closeAck])
    /\ closeAck' = 0
    /\ cpc' = "single"
    /\ UNCHANGED <<lane, closeKeeps>>

\* Whatever became of the request.
CloseSent ==
    /\ Takes("down", "close", {"ok", "refused"} \cup FaultKinds)
    /\ cpc' = "up"
    /\ Leaves("down")
    /\ UNCHANGED <<closeAck, lane, closeKeeps>>

CloseLane(l) ==
    /\ cpc = l
    /\ call[l] = Free
    /\ lane' = [lane EXCEPT ![l] = Shut(@)]
    /\ cpc' = IF l = "up" THEN "down" ELSE "done"
    /\ UNCHANGED <<closeAck, call, closeKeeps>>

-----------------------------------------------------------------------------
(* bpLane.single and bpLane.download                                       *)

clientKeeps == <<load, opc, writer, reader, closer, dead, target>>

\* A timeout returns at once, as does the second error.
AfterFault(l, kind) ==
    IF kind = "timeout" \/ call[l].attempt = 2
    THEN call' = [call EXCEPT ![l].step = kind, ![l].out = <<>>,
                              ![l].got = 0, ![l].last = "ok"]
    ELSE call' = [call EXCEPT ![l].step = "ensure", ![l].attempt = 2,
                              ![l].out = <<>>, ![l].got = 0, ![l].last = "ok"]

EnsureClosed(l) ==
    /\ call[l].step = "ensure" /\ lane[l].closed
    /\ AfterFault(l, "error")
    /\ UNCHANGED <<clientKeeps, lane, session, received, orphans, released>>

\* The lane's connection, dialled unless it can be reused.
Ensured(l) == IF Reusable(lane[l]) THEN lane[l] ELSE Dialled(Discarded(lane[l]))

Send(l) ==
    /\ call[l].step = "ensure" /\ ~lane[l].closed
    /\ lane' = [lane EXCEPT ![l] = Ensured(l)]
    /\ call' = [call EXCEPT ![l].step = "recv"]
    /\ UNCHANGED <<clientKeeps, session, received, orphans, released>>

\* The dial fails, or the write: of a reused or of a new connection.
SendFails(l, kind) ==
    /\ call[l].step = "ensure" /\ ~lane[l].closed
    /\ lane' = [lane EXCEPT ![l] = Failed(Ensured(l))]
    /\ AfterFault(l, kind)
    /\ UNCHANGED <<clientKeeps, session, received, orphans, released>>

\* The new bytes of an upload record, for a session that has them up to its
\* sequence number: what it has already is skipped.
NewBytes(record) ==
    SubSeq(record.payload, Len(received) - (record.seq - 2) + 1,
           Len(record.payload))

\* The effect of a request of one answer on the server.
Serve(request) ==
    LET is(modes) == request.mode \in modes
    IN  /\ session' = CASE is({"register"}) /\ session = "none" -> "registered"
                        [] is({"open"}) /\ session = "registered" -> "open"
                        [] is({"close"}) -> "closed"
                        [] OTHER -> session
        /\ received' = IF is({"upload"}) /\ session = "open"
                       THEN received \o NewBytes(request) ELSE received
        /\ released' = IF is({"ack", "close"}) /\ session = "open"
                       THEN Larger(released, request.seq) ELSE released

\* A single request is served and answered.
Answer(l) ==
    /\ call[l].step = "recv" /\ call[l].req.mode # "batch"
    /\ Serve(call[l].req)
    /\ lane' = [lane EXCEPT ![l] = Answered(@)]
    /\ call' = [call EXCEPT ![l].step =
                   IF session = "closed" THEN "refused" ELSE "ok"]
    /\ UNCHANGED <<clientKeeps, orphans>>

\* The connection breaks or times out before the answer.  The server may have
\* served the request, or serve it later, which matters for an upload only.
AnswerLost(l, kind) ==
    /\ call[l].step = "recv"
    /\ lane' = [lane EXCEPT ![l] = Failed(@)]
    /\ AfterFault(l, kind)
    /\ \/ UNCHANGED <<session, received, orphans, released>>
       \/ /\ call[l].req.mode \notin {"batch", "upload"}
          /\ Serve(call[l].req)
          /\ UNCHANGED orphans
       \/ /\ call[l].req.mode = "upload" /\ session = "open"
          /\ orphans' = orphans \cup {[seq |-> call[l].req.seq,
                                       payload |-> call[l].req.payload]}
          /\ UNCHANGED <<session, received, released>>
    /\ UNCHANGED clientKeeps

\* The server holds the bytes from here on.
Servable(cursor) == session = "open" /\ cursor >= released

\* The answer to one place of a batch; the last one ends it.
Responds(status, bytes) ==
    LET c == call["down"]
        over == c.got + 1 = c.req.count
    IN  /\ call' = [call EXCEPT !["down"] =
               [c EXCEPT !.step = IF over THEN "ok" ELSE @,
                         !.got = IF over THEN 0 ELSE @ + 1,
                         !.out = @ \o bytes, !.last = status]]
        /\ lane' = [lane EXCEPT !["down"] = IF over THEN Answered(@) ELSE @]
        /\ UNCHANGED <<clientKeeps, session, received, orphans, released>>

Awaited == call["down"].step = "recv" /\ call["down"].req.mode = "batch"

Cursor == call["down"].req.seq + Len(call["down"].out)

DataResponse ==
    /\ Awaited /\ Servable(Cursor)
    /\ \E n \in 1 .. Smaller(call["down"].req.max, produced - Cursor) :
           Responds("data", [i \in 1 .. n |-> Cursor + i])

\* The batch reads on after either.
EndResponse ==
    /\ Awaited /\ Servable(Cursor)
    /\ Cursor >= produced
    /\ Responds(IF ended THEN "eof" ELSE "wait", <<>>)

\* An ERROR, an unknown status or a DATA body that makes no sense ends the
\* batch: the connection goes, the data so far is returned beside the error.
ErrorResponse ==
    /\ Awaited
    /\ lane' = [lane EXCEPT !["down"] = Discarded(@)]
    /\ call' = [call EXCEPT !["down"].step = "refused", !["down"].got = 0,
                            !["down"].last = "ok"]
    /\ UNCHANGED <<clientKeeps, session, received, orphans, released>>

-----------------------------------------------------------------------------
(* The server and the target                                               *)

\* A record of an abandoned connection arrives after all.
ServeOrphan ==
    /\ session = "open"
    /\ \E record \in orphans :
           /\ received' = received \o NewBytes(record)
           /\ orphans' = orphans \ {record}
    /\ UNCHANGED <<clientKeeps, lane, call, session, released>>

TargetSends ==
    /\ session = "open" /\ ~ended
    /\ produced < load[2]
    /\ produced' = produced + 1
    /\ UNCHANGED <<load, opc, writer, reader, closer, dead, lane, call,
                   session, received, orphans, ended, released>>

TargetEnds ==
    /\ session = "open" /\ ~ended
    /\ ended' = TRUE
    /\ UNCHANGED <<load, opc, writer, reader, closer, dead, lane, call,
                   session, received, orphans, produced, released>>

SessionEnds ==
    /\ session # "closed"
    /\ session' = "closed"
    /\ UNCHANGED <<clientKeeps, lane, call, received, orphans, released>>

-----------------------------------------------------------------------------
LaneStep(l) ==
    \/ EnsureClosed(l) \/ Send(l) \/ Answer(l)
    \/ \E kind \in FaultKinds : SendFails(l, kind) \/ AnswerLost(l, kind)

\* The goroutine that opens the tunnel and then writes to it.
UpStep ==
    \/ Registered \/ Opened \/ OpenFails
    \/ StartUpload \/ WriteAcked \/ WriteFailed \/ WriteEnds
    \/ LaneStep("up")

\* The goroutine that reads, and whoever uses the download lane.
DownStep ==
    \/ StartAck \/ Acked \/ AckEnds
    \/ StartBatch \/ BatchDone \/ BatchFailed \/ BatchTimedOut \/ Copy
    \/ LaneStep("down")
    \/ DataResponse \/ EndResponse \/ ErrorResponse

CloseStep == StartClose \/ CloseSent \/ \E l \in Dirs : CloseLane(l)

Next ==
    \/ UpStep \/ DownStep \/ CloseStep
    \/ BeginWrite \/ BeginRead \/ BeginClose
    \/ ServeOrphan \/ TargetSends \/ TargetEnds \/ SessionEnds

Spec == Init /\ [][Next]_vars

\* Every wait of a request is bounded by its deadline, and a call that has
\* begun runs on; Go hands a mutex over to a waiter that starves, so Close
\* gets the lane that a polling Read keeps taking.
Fairness ==
    /\ WF_vars(UpStep)
    /\ WF_vars(DownStep)
    /\ SF_vars(CloseStep)

FairSpec == Spec /\ Fairness

-----------------------------------------------------------------------------
(* Safety                                                                  *)

\* Read reports end of stream only when the target has finished and every
\* byte of it was returned: neither an EOF among other responses of a batch
\* nor a batch cut short by an error ends the stream early.
EOFOnlyAtEnd == rpc = "eof" => ended /\ Len(consumed) = produced

\* Each direction is a reliable byte pipe: whatever is retried at another
\* size, dropped beside an error or acknowledged late, the bytes arrive in
\* order and once, and neither side forgets a byte the other does not have.
UpPipe == INSTANCE BytePipe WITH delivered <- received, released <- upOffset
DownPipe == INSTANCE BytePipe WITH offered <- produced, delivered <- consumed
PipeSpec == UpPipe!Spec /\ DownPipe!Spec

-----------------------------------------------------------------------------
(* Liveness, when the sizers are adaptive                                  *)

\* An opening, a Write and a Close that have begun return, and so does a Read
\* that has something to return or whose tunnel is gone.
CallsReturn ==
    /\ (opc \in {"register", "open"}) ~> (opc \in {"ready", "failed"})
    /\ (wpc = "next") ~> (wpc \in {"idle", "stopped"})
    /\ (/\ rpc = "ack"
        /\ \/ produced > downloadOffset \/ ended
           \/ session = "closed" \/ lane["down"].closed)
           ~> (rpc \in {"copy", "eof", "stopped"})
    /\ (cpc # "open") ~> (cpc = "done")
=============================================================================
