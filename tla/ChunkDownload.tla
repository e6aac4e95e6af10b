---------------------------- MODULE ChunkDownload ----------------------------
(***************************************************************************)
(* The receiving half of a chunkConn (chunk.go): Read refills its buffer   *)
(* through requestLane.download, which asks for a batch of DATA records    *)
(* from an offset, acknowledges what the caller consumed, and silently     *)
(* repeats the whole batch once when the connection breaks in the middle.  *)
(*                                                                         *)
(* Byte n the target sends is named n; a byte decoded with the wrong       *)
(* keystream offset is Garbage.                                            *)
(***************************************************************************)
EXTENDS SizerOps, LaneOps, Sequences

CONSTANTS
    MinPipeline, MaxPipeline,   \* records per batch: opts.minPipeline, max
    BatchBytes,                 \* bytes per batch to aim at: 1 MiB
    MinFailureLimit,            \* failures at the minimum that end a Read: 8
    StreamLen                   \* bound: bytes the target ever sends

ASSUME DownloadAssumption ==
    /\ MinPipeline \in Nat \ {0}
    /\ MaxPipeline \in Nat
    /\ MinPipeline <= MaxPipeline
    /\ BatchBytes \in Nat
    /\ MinFailureLimit \in Nat \ {0}
    /\ StreamLen \in Nat

VARIABLES
    \* Read: the goroutine that copies out of the tunnel
    rpc,            \* where it is
    consumed,       \* the bytes Read has returned, in order
    readBuf,        \* bytes received and not yet returned
    downloadOffset, consumedOffset,
    eof, pipeline, sizer, dead,
    chunk,          \* the local record size of the batch under way
    minFailures,    \* the local counter of failures at the minimum
    result,         \* what download returned: [data, status, err]
    \* Close
    cpc,
    \* the download lane, and the batch under way while its mutex is held
    lane, call,
    \* the server: what the target sent, whether it finished, which bytes the
    \* server has forgotten, and an acknowledgement still on its way
    produced, ended, released, session, lateAck

reader == <<rpc, consumed, readBuf, downloadOffset, consumedOffset, eof,
            pipeline, sizer, chunk, minFailures, result>>
server == <<produced, ended, released, session, lateAck>>
vars == <<reader, dead, cpc, lane, call, server>>

-----------------------------------------------------------------------------
Garbage == 0
Bytes == Nat

FaultKinds == {"timeout", "error"}

NoAnswer == [status |-> "none", from |-> 0, n |-> 0]
Answers == [status : {"none", "data", "wait", "eof", "error"},
            from : Nat, n : Nat]

\* The mutex of the lane is free exactly when no download() is in progress.
Free == [step |-> "free", attempt |-> 0, start |-> 0, ack |-> 0, max |-> 0,
         count |-> 0, got |-> 0, out |-> <<>>, cursor |-> 0,
         answer |-> NoAnswer]

Calls == [step : {"free", "ensure", "send", "recv"},
          attempt : 0 .. 2, start : Nat, ack : Nat,
          max : {0} \cup Sizes, count : 0 .. MaxPipeline,
          got : 0 .. MaxPipeline, out : Seq(Bytes), cursor : Nat,
          answer : Answers]

Results == [data : Seq(Bytes),
            status : {"none", "data", "wait", "eof", "error"},
            err : {"none", "timeout", "error"}]

NoResult == [data |-> <<>>, status |-> "none", err |-> "none"]

\* A batch never has fewer records than the configured floor, also when
\* large records would exceed the byte budget; above the floor it fits it.
BatchWithinBudget ==
    call # Free =>
        /\ MinPipeline <= call.count
        /\ call.count = MinPipeline \/ call.count * call.max <= BatchBytes

TypeOK ==
    /\ rpc \in {"idle", "loop", "batch", "result", "copy", "eof", "stopped"}
    /\ consumed \in Seq(Bytes) /\ readBuf \in Seq(Bytes)
    /\ downloadOffset \in Nat /\ consumedOffset \in Nat
    /\ eof \in BOOLEAN /\ dead \in BOOLEAN
    /\ pipeline \in MinPipeline .. MaxPipeline
    /\ sizer \in Sizers /\ chunk \in Sizes
    /\ minFailures \in 0 .. MinFailureLimit
    /\ result \in Results
    /\ cpc \in {"open", "graceful", "lanes", "done"}
    /\ lane \in Lanes
    /\ call \in Calls
    /\ produced \in 0 .. StreamLen /\ ended \in BOOLEAN
    /\ released \in Nat /\ lateAck \in Nat
    /\ session \in {"open", "closed"}
    /\ BatchWithinBudget

Init ==
    /\ rpc = "idle"
    /\ consumed = <<>> /\ readBuf = <<>>
    /\ downloadOffset = 0 /\ consumedOffset = 0
    /\ eof = FALSE /\ dead = FALSE
    /\ pipeline = MaxPipeline
    /\ \E start \in Sizes : sizer = NewSizer(start)
    /\ chunk = MinSize /\ minFailures = 0 /\ result = NoResult
    /\ cpc = "open"
    /\ lane = NewLane /\ call = Free
    /\ produced = 0 /\ ended = FALSE
    /\ released = 0 /\ lateAck = 0 /\ session = "open"

-----------------------------------------------------------------------------
(* Read and fillReadBuffer                                                 *)

BeginRead ==
    /\ rpc = "idle"
    /\ rpc' = IF readBuf # <<>> THEN "copy" ELSE IF eof THEN "eof" ELSE "loop"
    /\ minFailures' = 0
    /\ UNCHANGED <<consumed, readBuf, downloadOffset, consumedOffset, eof,
                   pipeline, sizer, chunk, result, dead, cpc, lane, call,
                   server>>

\* Mutant of BatchCount: the byte budget overrides the floor.
BatchCountWithoutFloor(size) ==
    LET fits == BatchBytes \div size
    IN  IF fits < pipeline THEN Larger(fits, 1) ELSE pipeline

\* As many records as the pipeline allows and BatchBytes holds, but never
\* fewer than the configured floor.
BatchCount(size) ==
    LET fits == BatchBytes \div size
    IN  IF fits < pipeline THEN Larger(fits, MinPipeline) ELSE pipeline

\* chunk := downSizer.Current(), and download() gets the lane's mutex.
StartBatch ==
    /\ rpc = "loop"
    /\ call = Free
    /\ chunk' = sizer.current
    /\ call' = [Free EXCEPT !.step = "ensure", !.attempt = 1,
                            !.start = downloadOffset, !.ack = consumedOffset,
                            !.max = sizer.current,
                            !.count = BatchCount(sizer.current),
                            !.cursor = downloadOffset]
    /\ rpc' = "batch"
    /\ UNCHANGED <<consumed, readBuf, downloadOffset, consumedOffset, eof,
                   pipeline, sizer, minFailures, result, dead, cpc, lane,
                   server>>

\* Whatever data came back is kept, also beside an error.
KeepData ==
    /\ readBuf' = readBuf \o result.data
    /\ downloadOffset' = downloadOffset + Len(result.data)

GotData == result.data # <<>>

SizerAfterData == IF GotData THEN Success(sizer, chunk) ELSE sizer

PipelineAfterData ==
    IF GotData /\ pipeline < MaxPipeline THEN pipeline + 1 ELSE pipeline

\* Mutant of FailuresAfterData: every batch starts counting anew.
FailuresForgotten == 0

FailuresAfterData == IF GotData THEN 0 ELSE minFailures

\* Mutant of BatchDone: an empty batch is taken for the end of the stream.
BatchDoneTakesWaitForEOF ==
    /\ rpc = "result" /\ result.err = "none"
    /\ KeepData
    /\ sizer' = SizerAfterData
    /\ pipeline' = PipelineAfterData
    /\ minFailures' = FailuresAfterData
    /\ eof' = (result.status # "data")
    /\ rpc' = IF readBuf' # <<>> THEN "copy" ELSE IF eof' THEN "eof" ELSE "loop"
    /\ UNCHANGED <<consumed, consumedOffset, chunk, result, dead, cpc, lane,
                   call, server>>

BatchDone ==
    /\ rpc = "result" /\ result.err = "none"
    /\ KeepData
    /\ sizer' = SizerAfterData
    /\ pipeline' = PipelineAfterData
    /\ minFailures' = FailuresAfterData
    /\ eof' = (result.status = "eof")
    /\ rpc' = IF readBuf' # <<>> THEN "copy" ELSE IF eof' THEN "eof" ELSE "loop"
    /\ UNCHANGED <<consumed, consumedOffset, chunk, result, dead, cpc, lane,
                   call, server>>

\* A timeout is a hard tunnel boundary: nothing is retried.
BatchTimedOut ==
    /\ rpc = "result" /\ result.err = "timeout"
    /\ dead' = TRUE
    /\ rpc' = "stopped"
    /\ UNCHANGED <<consumed, readBuf, downloadOffset, consumedOffset, eof,
                   pipeline, sizer, chunk, minFailures, result, cpc, lane,
                   call, server>>

AfterError == IF readBuf' # <<>> THEN "copy" ELSE "loop"

\* Any other error first halves the batch ...
BatchHalved ==
    /\ rpc = "result" /\ result.err = "error"
    /\ KeepData
    /\ PipelineAfterData > MinPipeline
    /\ pipeline' = Larger(PipelineAfterData \div 2, MinPipeline)
    /\ sizer' = SizerAfterData
    /\ minFailures' = FailuresAfterData
    /\ rpc' = AfterError
    /\ UNCHANGED <<consumed, consumedOffset, eof, chunk, result, dead, cpc,
                   lane, call, server>>

\* ... and at the smallest batch it shrinks the record, until too many
\* failures at the minimum size end the Read.
AtMinimum ==
    /\ sizer'.current = SizerAfterData.current
    /\ sizer'.current = MinSize

BatchFailed ==
    /\ rpc = "result" /\ result.err = "error"
    /\ KeepData
    /\ PipelineAfterData = MinPipeline
    /\ pipeline' = PipelineAfterData
    /\ sizer' = FailureReason(SizerAfterData, chunk)
    /\ minFailures' = FailuresAfterData + IF AtMinimum THEN 1 ELSE 0
    /\ rpc' = IF minFailures' >= MinFailureLimit /\ AtMinimum
              THEN "stopped" ELSE AfterError
    /\ UNCHANGED <<consumed, consumedOffset, eof, chunk, result, dead, cpc,
                   lane, call, server>>

\* The rest of Read: copy into the caller's slice, of any length.
Copy ==
    /\ rpc = "copy"
    /\ \E n \in 1 .. Len(readBuf) :
           /\ consumed' = consumed \o SubSeq(readBuf, 1, n)
           /\ readBuf' = SubSeq(readBuf, n + 1, Len(readBuf))
           /\ consumedOffset' = consumedOffset + n
    /\ rpc' = "idle"
    /\ UNCHANGED <<downloadOffset, eof, pipeline, sizer, chunk, minFailures,
                   result, dead, cpc, lane, call, server>>

-----------------------------------------------------------------------------
(* requestLane.download                                                    *)

\* The deferred unlock, with the values download returns.
Return(data, status, err) ==
    /\ call' = Free
    /\ result' = [data |-> data, status |-> status, err |-> err]
    /\ rpc' = "result"

\* Mutant of AfterFault: the repeated batch acknowledges what was dropped.
AfterFaultAcksDropped(kind) ==
    IF kind = "timeout" \/ call.attempt = 2
    THEN Return(<<>>, "none", kind)
    ELSE /\ call' = [call EXCEPT !.step = "ensure", !.attempt = 2,
                                 !.got = 0, !.out = <<>>,
                                 !.ack = call.start + Len(call.out),
                                 !.cursor = call.start, !.answer = NoAnswer]
         /\ UNCHANGED <<rpc, result>>

\* A timeout returns at once and a second error gives up, both without data;
\* a first error repeats the batch from its start and drops what it got.
AfterFault(kind) ==
    IF kind = "timeout" \/ call.attempt = 2
    THEN Return(<<>>, "none", kind)
    ELSE /\ call' = [call EXCEPT !.step = "ensure", !.attempt = 2,
                                 !.got = 0, !.out = <<>>,
                                 !.cursor = call.start, !.answer = NoAnswer]
         /\ UNCHANGED <<rpc, result>>

notDownload == <<consumed, readBuf, downloadOffset, consumedOffset, eof,
                 pipeline, sizer, chunk, minFailures, dead, cpc>>

EnsureClosed ==
    /\ call.step = "ensure" /\ lane.closed
    /\ AfterFault("error")
    /\ UNCHANGED <<notDownload, lane, server>>

EnsureReuses ==
    /\ call.step = "ensure" /\ ~lane.closed
    /\ Reusable(lane)
    /\ call' = [call EXCEPT !.step = "send"]
    /\ UNCHANGED <<notDownload, rpc, result, lane, server>>

Dial ==
    /\ call.step = "ensure" /\ ~lane.closed
    /\ ~Reusable(lane)
    /\ lane' = Dialled(lane)
    /\ call' = [call EXCEPT !.step = "send"]
    /\ UNCHANGED <<notDownload, rpc, result, server>>

DialFails(kind) ==
    /\ call.step = "ensure" /\ ~lane.closed
    /\ ~Reusable(lane)
    /\ lane' = Discarded(lane)
    /\ AfterFault(kind)
    /\ UNCHANGED <<notDownload, server>>

Send ==
    /\ call.step = "send"
    /\ call' = [call EXCEPT !.step = "recv"]
    /\ UNCHANGED <<notDownload, rpc, result, lane, server>>

SendFails(kind) ==
    /\ call.step = "send"
    /\ lane' = Failed(lane)
    /\ AfterFault(kind)
    /\ UNCHANGED <<notDownload, server>>

\* DecodeMaskedResponse: the keystream of a DATA record starts at the offset
\* the server sent it for; the client uses the offset it has reached.
Decoded(answer, offset) ==
    [i \in 1 .. answer.n |->
        IF answer.from = offset THEN answer.from + i ELSE Garbage]

DecodeOffset == call.start + Len(call.out)

ReceiveData ==
    /\ call.step = "recv" /\ call.answer.status = "data"
    /\ LET out == call.out \o Decoded(call.answer, DecodeOffset)
       IN  IF call.got + 1 = call.count
           THEN /\ lane' = Answered(lane)
                /\ Return(out, "data", "none")
           ELSE /\ call' = [call EXCEPT !.out = out, !.got = @ + 1,
                                        !.answer = NoAnswer]
                /\ UNCHANGED <<lane, rpc, result>>
    /\ UNCHANGED <<notDownload, server>>

\* WAIT and EOF end the batch early.
ReceiveEnd ==
    /\ call.step = "recv" /\ call.answer.status \in {"wait", "eof"}
    /\ lane' = Answered(lane)
    /\ Return(call.out, call.answer.status, "none")
    /\ UNCHANGED <<notDownload, server>>

\* An ERROR (unknown, or empty) response: the connection goes, the data stays.
ReceiveError ==
    /\ call.step = "recv" /\ call.answer.status = "error"
    /\ lane' = Discarded(lane)
    /\ Return(call.out, "error", "error")
    /\ UNCHANGED <<notDownload, server>>

\* The connection breaks or times out; a request not served yet may still
\* reach the server, which then learns its acknowledgement late.
ReceiveFails(kind) ==
    /\ call.step = "recv"
    /\ lane' = Failed(lane)
    /\ lateAck' = Larger(lateAck, call.ack)
    /\ AfterFault(kind)
    /\ UNCHANGED <<notDownload, produced, ended, released, session>>

-----------------------------------------------------------------------------
(* Close: dead.Load(), the CLOSE request on the upload lane (ChunkUpload), *)
(* then the lanes, each under its mutex.                                   *)

BeginClose ==
    /\ cpc = "open"
    /\ cpc' = IF dead THEN "lanes" ELSE "graceful"
    /\ UNCHANGED <<reader, dead, lane, call, server>>

SendClose ==
    /\ cpc = "graceful"
    /\ session' \in {session, "closed"}
    /\ cpc' = "lanes"
    /\ UNCHANGED <<reader, dead, lane, call, produced, ended, released,
                   lateAck>>

CloseLane ==
    /\ cpc = "lanes"
    /\ call = Free
    /\ lane' = Shut(lane)
    /\ cpc' = "done"
    /\ UNCHANGED <<reader, dead, call, server>>

\* Write, in its own goroutine, timed out (ChunkUpload).
WriteTimedOut ==
    /\ ~dead
    /\ dead' = TRUE
    /\ UNCHANGED <<reader, cpc, lane, call, server>>

-----------------------------------------------------------------------------
(* The server, as far as the client relies on it: bytes up to an           *)
(* acknowledged offset are forgotten, and a batch is a run of DATA records *)
(* that ends with WAIT or EOF when the session has no more bytes.          *)

Respond(answer) ==
    /\ call' = [call EXCEPT !.answer = answer, !.cursor = @ + answer.n]
    /\ released' = Larger(released, call.ack)
    /\ UNCHANGED <<reader, dead, cpc, lane, produced, ended, session, lateAck>>

Awaited == call.step = "recv" /\ call.answer = NoAnswer

Servable == session = "open" /\ call.cursor >= released

ServeData ==
    /\ Awaited /\ Servable
    /\ \E n \in 1 .. Smaller(call.max, produced - call.cursor) :
           Respond([status |-> "data", from |-> call.cursor, n |-> n])

ServeEnd ==
    /\ Awaited /\ Servable
    /\ call.cursor >= produced
    /\ Respond([NoAnswer EXCEPT !.status = IF ended THEN "eof" ELSE "wait"])

ServeError ==
    /\ Awaited /\ ~Servable
    /\ Respond([NoAnswer EXCEPT !.status = "error"])

LateRelease ==
    /\ released < lateAck
    /\ released' = lateAck
    /\ UNCHANGED <<reader, dead, cpc, lane, call, produced, ended, session,
                   lateAck>>

TargetSends ==
    /\ ~ended
    /\ produced < StreamLen
    /\ produced' = produced + 1
    /\ UNCHANGED <<reader, dead, cpc, lane, call, ended, released, session,
                   lateAck>>

TargetEnds ==
    /\ ~ended
    /\ ended' = TRUE
    /\ UNCHANGED <<reader, dead, cpc, lane, call, produced, released, session,
                   lateAck>>

SessionEnds ==
    /\ session = "open"
    /\ session' = "closed"
    /\ UNCHANGED <<reader, dead, cpc, lane, call, produced, ended, released,
                   lateAck>>

-----------------------------------------------------------------------------
ReadStep == BatchDone \/ BatchTimedOut \/ BatchHalved \/ BatchFailed

DownloadStep ==
    \/ EnsureClosed \/ EnsureReuses \/ Dial \/ Send
    \/ ReceiveData \/ ReceiveEnd \/ ReceiveError
    \/ \E kind \in FaultKinds :
           DialFails(kind) \/ SendFails(kind) \/ ReceiveFails(kind)

CloseStep == BeginClose \/ SendClose \/ CloseLane

ServerStep ==
    \/ ServeData \/ ServeEnd \/ ServeError \/ LateRelease
    \/ TargetSends \/ TargetEnds \/ SessionEnds

Next ==
    \/ BeginRead \/ StartBatch \/ ReadStep \/ Copy
    \/ DownloadStep \/ CloseStep \/ WriteTimedOut \/ ServerStep

Spec == Init /\ [][Next]_vars

\* Read and Close run once called; every wait inside download is bounded by
\* the deadline of the batch or the dial timeout; Go's mutex hands over to a
\* waiter that starves, so Close gets a lane that a polling Read keeps taking.
Fairness ==
    /\ WF_vars(ReadStep)
    /\ WF_vars(Copy)
    /\ SF_vars(StartBatch)
    /\ WF_vars(DownloadStep)
    /\ WF_vars(SendClose)
    /\ SF_vars(CloseLane)

FairSpec == Spec /\ Fairness

-----------------------------------------------------------------------------
(* Safety                                                                  *)

\* Read reports end of stream only after every byte the target sent before it
\* closed: not on a short batch, an ERROR response or a dead session.
EOFOnlyAtEnd == rpc = "eof" => ended /\ Len(consumed) = produced

\* The download direction is a reliable byte pipe: in particular the server
\* forgets only bytes Read has returned.
Pipe == INSTANCE BytePipe WITH offered <- produced,
                               delivered <- consumed,
                               released <- released
PipeSpec == Pipe!Spec

-----------------------------------------------------------------------------
(* Liveness, when the sizer is adaptive                                    *)

\* A Read that has something to return does return, however many requests
\* fail: data, the end of the stream, or an error once the session is gone or
\* Close has shut the lane.  A Close returns although a Read keeps taking the
\* lane to poll.
CallsReturn ==
    /\ (/\ rpc = "loop"
        /\ \/ produced > downloadOffset \/ ended
           \/ session = "closed" \/ lane.closed)
           ~> (rpc \in {"copy", "eof", "stopped"})
    /\ (cpc # "open") ~> (cpc = "done")
=============================================================================
