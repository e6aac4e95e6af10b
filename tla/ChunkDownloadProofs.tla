------------------------- MODULE ChunkDownloadProofs -------------------------
(***************************************************************************)
(* For every range of sizes, rotation policy, batch, failure limit and     *)
(* stream: what Read returns is the target's stream, in order and complete *)
(* when it says so, and the server forgets only what Read has returned.    *)
(***************************************************************************)
EXTENDS ChunkDownload, TunnelLemmas

-----------------------------------------------------------------------------
(* The inductive invariant                                                 *)

\* The buffer is the gap between what Read returned and what was received.
Offsets ==
    /\ Segment(consumed, 0)
    /\ Segment(readBuf, consumedOffset)
    /\ consumedOffset = Len(consumed)
    /\ downloadOffset = consumedOffset + Len(readBuf)
    /\ downloadOffset <= produced

\* The batch c continues the stream at the offset it asked for, and its answer
\* under way continues the batch.
Continues(c) ==
    /\ c.start = downloadOffset
    /\ c.ack = consumedOffset
    /\ c.got < c.count
    /\ Segment(c.out, c.start)
    /\ c.cursor = c.start + Len(c.out) + c.answer.n
    /\ c.cursor <= produced
    /\ c.answer.status = "data" => c.answer.from = c.start + Len(c.out)
    /\ c.answer.status # "data" => c.answer.n = 0
    /\ c.answer.status = "eof" => ended /\ c.cursor = produced

Batch ==
    /\ call.step = "free" => call = Free
    /\ rpc = "batch" <=> call.step # "free"
    /\ call.step # "free" => Continues(call)

\* What download returned continues the stream, to its end if it says so.
Returned ==
    rpc = "result" =>
        /\ Segment(result.data, downloadOffset)
        /\ downloadOffset + Len(result.data) <= produced
        /\ result.status = "eof" =>
               ended /\ downloadOffset + Len(result.data) = produced

Ends ==
    /\ eof => ended /\ downloadOffset = produced
    /\ rpc = "eof" => eof /\ readBuf = <<>>

\* No acknowledgement, sent or late, is ahead of what Read returned.
Acks == released <= consumedOffset /\ lateAck <= consumedOffset

Adapts ==
    /\ InBracket(sizer) /\ CountersLow(sizer)
    /\ rpc # "stopped" => minFailures < MinFailureLimit

IInv == TypeOK /\ Offsets /\ Batch /\ Returned /\ Ends /\ Acks /\ Adapts

-----------------------------------------------------------------------------
(* Lemmas about the operators                                              *)

LEMMA FreeIsCall == Free \in Calls /\ Free.step = "free"
BY DownloadAssumption DEF Free, Calls, Answers, NoAnswer, Bytes

\* A batch never has more records than the pipeline's ceiling nor fewer than
\* its floor, and above the floor they fit the byte budget.
LEMMA BatchCountFits ==
    ASSUME pipeline \in MinPipeline .. MaxPipeline, NEW size \in Sizes
    PROVE  /\ BatchCount(size) \in MinPipeline .. MaxPipeline
           /\ \/ BatchCount(size) = MinPipeline
              \/ BatchCount(size) * size <= BatchBytes
<1> DEFINE fits == BatchBytes \div size
<1>1. /\ size \in Nat \ {0} /\ BatchBytes \in Nat
      /\ pipeline \in Nat /\ MinPipeline \in Nat /\ MaxPipeline \in Nat
      /\ MinPipeline <= pipeline /\ pipeline <= MaxPipeline
  BY SizerAssumption, DownloadAssumption DEF Sizes
<1>2. fits \in Nat /\ fits * size <= BatchBytes
  <2>1. ASSUME NEW a \in Nat, NEW b \in Nat \ {0}
        PROVE  a \div b \in Nat /\ (a \div b) * b <= a
    OBVIOUS
  <2> QED
    BY <1>1, <2>1
<1> HIDE DEF fits
<1>3. CASE fits < pipeline
  <2>1. BatchCount(size) = Larger(fits, MinPipeline)
    BY <1>3 DEF BatchCount, fits
  <2> QED
    BY <1>1, <1>2, <1>3, <2>1 DEF Larger
<1>4. CASE ~(fits < pipeline)
  <2>1. BatchCount(size) = pipeline
    BY <1>4 DEF BatchCount, fits
  <2>2. ASSUME NEW a \in Nat, NEW b \in Nat, NEW c \in Nat, a <= b
        PROVE  a * c <= b * c
    BY <2>2
  <2>3. pipeline * size <= fits * size
    BY <1>1, <1>2, <1>4, <2>2
  <2>4. pipeline * size \in Nat /\ fits * size \in Nat
    BY <1>1, <1>2
  <2> QED
    BY <1>1, <1>2, <2>1, <2>3, <2>4
<1> QED
  BY <1>3, <1>4

\* Data decoded where the server cut it continues the batch.
LEMMA DecodedContinues ==
    ASSUME NEW n \in Nat, NEW offset \in Nat, NEW answer,
           answer.n = n, answer.from = offset
    PROVE  /\ Segment(Decoded(answer, offset), offset)
           /\ Len(Decoded(answer, offset)) = n
<1>1. Decoded(answer, offset) = [i \in 1 .. n |-> offset + i]
  BY DEF Decoded
<1> QED
  BY <1>1, SegmentFresh

\* The facts about lengths and offsets that several steps need.
LEMMA Numbers ==
    ASSUME TypeOK, Offsets
    PROVE  /\ consumedOffset \in Nat /\ downloadOffset \in Nat
           /\ produced \in Nat /\ StreamLen \in Nat
           /\ Len(consumed) \in Nat /\ Len(readBuf) \in Nat
           /\ consumedOffset <= downloadOffset
           /\ released \in Nat /\ lateAck \in Nat
<1>1. Len(consumed) \in Nat /\ Len(readBuf) \in Nat
  BY LenProperties DEF TypeOK
<1>2. produced \in Nat /\ StreamLen \in Nat
  BY DownloadAssumption DEF TypeOK
<1> QED
  BY <1>1, <1>2 DEF TypeOK, Offsets

-----------------------------------------------------------------------------
(* The batch                                                               *)

\* Only the batch and the connection move; the server may learn what the
\* batch acknowledges.
DuringBatch ==
    /\ call.step # "free"
    /\ UNCHANGED <<notDownload, produced, ended>>
    /\ released' \in {released, Larger(released, call.ack)}
    /\ lateAck' \in {lateAck, Larger(lateAck, call.ack)}
    /\ session' \in {"open", "closed"}
    /\ lane' \in Lanes

\* What a batch leaves alone keeps its part of the invariant.
LEMMA BatchFrame ==
    ASSUME IInv, DuringBatch
    PROVE  /\ Offsets' /\ Acks'
           /\ InBracket(sizer') /\ CountersLow(sizer')
           /\ minFailures' < MinFailureLimit
           /\ (eof => ended /\ downloadOffset = produced)'
           /\ (/\ consumed \in Seq(Bytes) /\ readBuf \in Seq(Bytes)
               /\ downloadOffset \in Nat /\ consumedOffset \in Nat
               /\ eof \in BOOLEAN /\ dead \in BOOLEAN
               /\ pipeline \in MinPipeline .. MaxPipeline
               /\ sizer \in Sizers /\ chunk \in Sizes
               /\ minFailures \in 0 .. MinFailureLimit
               /\ cpc \in {"open", "graceful", "lanes", "done"}
               /\ lane \in Lanes
               /\ produced \in 0 .. StreamLen /\ ended \in BOOLEAN
               /\ released \in Nat /\ lateAck \in Nat
               /\ session \in {"open", "closed"})'
<1> USE DEF DuringBatch, notDownload
<1>1. TypeOK /\ Offsets /\ Acks /\ Adapts /\ Ends /\ Continues(call)
      /\ rpc = "batch"
  BY DEF IInv, Batch
<1>2. /\ released \in Nat /\ lateAck \in Nat /\ consumedOffset \in Nat
      /\ call.ack = consumedOffset
  BY <1>1, Numbers DEF Continues
<1>3. /\ released' \in Nat /\ released' <= consumedOffset
      /\ lateAck' \in Nat /\ lateAck' <= consumedOffset
  BY <1>1, <1>2 DEF Larger, Acks
<1>4. Offsets'
  BY <1>1 DEF Offsets
<1>5. Acks'
  BY <1>3 DEF Acks
<1>6. /\ InBracket(sizer') /\ CountersLow(sizer')
      /\ minFailures' < MinFailureLimit
      /\ (eof => ended /\ downloadOffset = produced)'
  BY <1>1 DEF Adapts, Ends
<1> QED
  BY <1>1, <1>3, <1>4, <1>5, <1>6 DEF TypeOK

\* A batch that goes on, in either attempt, continues the stream.
LEMMA GoesOn ==
    ASSUME IInv, DuringBatch, UNCHANGED <<rpc, result>>,
           call' \in Calls, call'.step # "free",
           call'.count = call.count, call'.max = call.max,
           Continues(call')
    PROVE  IInv'
<1>1. TypeOK /\ rpc = "batch"
  BY DEF IInv, Batch, DuringBatch
<1>2. BatchWithinBudget'
  <2>1. call # Free
    BY FreeIsCall DEF DuringBatch
  <2> QED
    BY <1>1, <2>1 DEF TypeOK, BatchWithinBudget
<1>3. TypeOK'
  BY <1>1, <1>2, BatchFrame DEF TypeOK
<1>4. Continues(call)'
  BY DEF Continues, DuringBatch, notDownload
<1>5. Batch'
  BY <1>1, <1>4 DEF Batch
<1>6. Returned' /\ Ends' /\ Adapts'
  BY <1>1, BatchFrame DEF Returned, Ends, Adapts
<1> QED
  BY <1>3, <1>5, <1>6, BatchFrame DEF IInv

\* A batch that returns hands over data that continues the stream.
LEMMA ReturnPreserves ==
    ASSUME IInv, DuringBatch,
           NEW data, NEW status \in {"none", "data", "wait", "eof", "error"},
           NEW err \in {"none", "timeout", "error"},
           Return(data, status, err),
           Segment(data, downloadOffset),
           downloadOffset + Len(data) <= produced,
           status = "eof" => ended /\ downloadOffset + Len(data) = produced
    PROVE  IInv'
<1>1. /\ call' = Free /\ rpc' = "result"
      /\ result' = [data |-> data, status |-> status, err |-> err]
  BY DEF Return
<1>2. TypeOK'
  <2>1. result' \in Results
    BY <1>1 DEF Results, Segment, Bytes
  <2>2. call' \in Calls /\ BatchWithinBudget'
    BY <1>1, FreeIsCall DEF BatchWithinBudget, Free
  <2> QED
    BY <1>1, <2>1, <2>2, BatchFrame DEF TypeOK
<1>3. Batch'
  BY <1>1, FreeIsCall DEF Batch, Free
<1>4. Returned'
  BY <1>1 DEF Returned, DuringBatch, notDownload
<1>5. Ends' /\ Adapts'
  BY <1>1, BatchFrame DEF Ends, Adapts
<1> QED
  BY <1>2, <1>3, <1>4, <1>5, BatchFrame DEF IInv

\* A failure either repeats the batch from its start or returns nothing.
LEMMA FaultPreserves ==
    ASSUME IInv, DuringBatch, NEW kind \in FaultKinds, AfterFault(kind)
    PROVE  IInv'
<1>1. /\ TypeOK /\ Offsets /\ Continues(call) /\ call \in Calls
  BY DEF IInv, Batch, DuringBatch, TypeOK
<1>2. /\ call.start = downloadOffset /\ downloadOffset \in Nat
      /\ downloadOffset <= produced /\ call.count \in 0 .. MaxPipeline
      /\ call.got \in Nat /\ call.got < call.count
  BY <1>1, Numbers DEF Continues, Offsets, Calls
<1>3. CASE Return(<<>>, "none", kind)
  <2>1. Segment(<<>>, downloadOffset) /\ Len(<<>>) = 0
    BY <1>2, EmptySegment
  <2>2. downloadOffset + Len(<<>>) <= produced
    BY <1>2, <2>1
  <2>3. kind \in {"none", "timeout", "error"}
    BY DEF FaultKinds
  <2> QED
    BY <1>3, <2>1, <2>2, <2>3, ReturnPreserves
<1>4. CASE /\ call' = [call EXCEPT !.step = "ensure", !.attempt = 2,
                                   !.got = 0, !.out = <<>>,
                                   !.cursor = call.start, !.answer = NoAnswer]
           /\ UNCHANGED <<rpc, result>>
  <2>1. /\ 2 \in 0 .. 2 /\ 0 \in 0 .. MaxPipeline /\ 0 < call.count
        /\ <<>> \in Seq(Bytes) /\ NoAnswer \in Answers
        /\ NoAnswer.status = "none" /\ NoAnswer.n = 0
    BY <1>2, DownloadAssumption DEF NoAnswer, Answers, Bytes
  <2>2. /\ call' \in Calls /\ call'.step = "ensure"
        /\ call'.count = call.count /\ call'.max = call.max
        /\ call'.start = call.start /\ call'.ack = call.ack
        /\ call'.got = 0 /\ call'.out = <<>> /\ call'.cursor = call.start
        /\ call'.answer = NoAnswer
    BY <1>1, <1>4, <2>1 DEF Calls
  <2>3. Segment(<<>>, call.start) /\ Len(<<>>) = 0
    BY <1>2, EmptySegment
  <2>4. Continues(call')
    BY <1>1, <1>2, <2>1, <2>2, <2>3 DEF Continues
  <2> QED
    BY <1>4, <2>2, <2>4, GoesOn
<1> QED
  BY <1>3, <1>4 DEF AfterFault

\* The batch moves on to its next step.
LEMMA StepPreserves ==
    ASSUME IInv, DuringBatch, UNCHANGED <<rpc, result>>,
           NEW s \in {"send", "recv"}, call' = [call EXCEPT !.step = s]
    PROVE  IInv'
<1>1. call \in Calls /\ Continues(call)
  BY DEF IInv, TypeOK, Batch, DuringBatch
<1>2. /\ call' \in Calls /\ call'.step = s
      /\ call'.count = call.count /\ call'.max = call.max
      /\ call'.start = call.start /\ call'.ack = call.ack
      /\ call'.got = call.got /\ call'.out = call.out
      /\ call'.cursor = call.cursor /\ call'.answer = call.answer
  BY <1>1 DEF Calls
<1>3. Continues(call')
  BY <1>1, <1>2 DEF Continues
<1> QED
  BY <1>2, <1>3, GoesOn

\* A DATA record is decoded at the offset the server cut it at.
LEMMA ReceiveDataPreserves == IInv /\ ReceiveData => IInv'
<1> SUFFICES ASSUME IInv, ReceiveData PROVE IInv'
  OBVIOUS
<1> DEFINE more == Decoded(call.answer, DecodeOffset)
           out == call.out \o more
<1>1. /\ TypeOK /\ Offsets /\ lane \in Lanes /\ call.step # "free"
      /\ call.answer.status = "data"
  BY DEF IInv, TypeOK, ReceiveData
<1>2. call \in Calls /\ Continues(call)
  BY <1>1 DEF IInv, TypeOK, Batch
<1>3. /\ call.answer \in Answers /\ call.answer.n \in Nat
      /\ call.start \in Nat /\ Len(call.out) \in Nat
      /\ call.got \in Nat /\ call.count \in 0 .. MaxPipeline
      /\ Segment(call.out, call.start)
      /\ call.answer.from = call.start + Len(call.out)
      /\ DecodeOffset = call.start + Len(call.out) /\ DecodeOffset \in Nat
  BY <1>1, <1>2, LenProperties
     DEF Calls, Answers, Continues, Segment, DecodeOffset
<1>4. Segment(more, call.start + Len(call.out)) /\ Len(more) = call.answer.n
  BY <1>3, DecodedContinues
<1> HIDE DEF more
<1>5. Segment(out, call.start) /\ Len(out) = Len(call.out) + call.answer.n
  <2>1. /\ call.start \in Nat /\ Segment(call.out, call.start)
        /\ Segment(more, call.start + Len(call.out))
    BY <1>3, <1>4
  <2>2. Segment(out, call.start) /\ Len(out) = Len(call.out) + Len(more)
    BY <2>1, SegmentJoin
  <2> QED
    BY <1>4, <2>2
<1>6. /\ call.start + Len(out) = call.cursor /\ call.cursor <= produced
      /\ call.start = downloadOffset
  BY <1>2, <1>3, <1>5 DEF Continues
<1>7. CASE call.got + 1 = call.count
  <2>1. lane' = Answered(lane) /\ Return(out, "data", "none")
    BY <1>7 DEF ReceiveData, more
  <2>2. DuringBatch
    BY <1>1, <2>1, LaneTypes DEF DuringBatch, ReceiveData, server, TypeOK
  <2> HIDE DEF out
  <2> QED
    BY <1>5, <1>6, <2>1, <2>2, ReturnPreserves
<1>8. CASE call.got + 1 # call.count
  <2>1. /\ call' = [call EXCEPT !.out = out, !.got = call.got + 1,
                                !.answer = NoAnswer]
        /\ UNCHANGED <<lane, rpc, result>>
    BY <1>8 DEF ReceiveData, more
  <2>2. DuringBatch
    BY <1>1, <2>1 DEF DuringBatch, ReceiveData, server, TypeOK
  <2>3. /\ out \in Seq(Bytes) /\ NoAnswer \in Answers
        /\ call.got + 1 \in 0 .. MaxPipeline /\ call.got + 1 < call.count
        /\ NoAnswer.status = "none" /\ NoAnswer.n = 0
    <3>1. out \in Seq(Bytes)
      BY <1>5 DEF Segment, Bytes
    <3>2. NoAnswer \in Answers /\ NoAnswer.status = "none" /\ NoAnswer.n = 0
      BY DEF NoAnswer, Answers
    <3>3. /\ call.got \in 0 .. MaxPipeline /\ call.count \in 0 .. MaxPipeline
          /\ call.got < call.count /\ MaxPipeline \in Nat
      BY <1>2, DownloadAssumption DEF Continues, Calls
    <3>4. call.got + 1 \in 0 .. MaxPipeline /\ call.got + 1 < call.count
      BY <1>8, <3>3
    <3> QED
      BY <3>1, <3>2, <3>4
  <2> HIDE DEF out
  <2>4. /\ call' \in Calls /\ call'.step = call.step
        /\ call'.count = call.count /\ call'.max = call.max
        /\ call'.start = call.start /\ call'.ack = call.ack
        /\ call'.got = call.got + 1 /\ call'.out = out
        /\ call'.cursor = call.cursor /\ call'.answer = NoAnswer
    BY <1>2, <2>1, <2>3 DEF Calls
  <2>5. Continues(call')
    BY <1>2, <1>3, <1>5, <1>6, <2>3, <2>4 DEF Continues
  <2> QED
    BY <1>1, <2>1, <2>2, <2>4, <2>5, GoesOn
<1> QED
  BY <1>7, <1>8

\* WAIT, EOF and ERROR return the data before them; EOF is the stream's end.
LEMMA ReceiveLastPreserves == IInv /\ (ReceiveEnd \/ ReceiveError) => IInv'
<1> SUFFICES ASSUME IInv, ReceiveEnd \/ ReceiveError PROVE IInv'
  OBVIOUS
<1>1. /\ TypeOK /\ lane \in Lanes /\ call.step # "free"
      /\ call.answer.status \in {"wait", "eof", "error"}
  BY DEF IInv, TypeOK, ReceiveEnd, ReceiveError
<1>2. call \in Calls /\ Continues(call)
  BY <1>1 DEF IInv, TypeOK, Batch
<1>3. /\ call.start \in Nat /\ Len(call.out) \in Nat
      /\ call.start = downloadOffset /\ call.answer.n = 0
      /\ call.cursor = call.start + Len(call.out)
      /\ call.cursor <= produced
      /\ call.answer.status = "eof" => ended /\ call.cursor = produced
  BY <1>1, <1>2, LenProperties DEF Calls, Continues, Segment
<1>4. DuringBatch
  BY <1>1, LaneTypes DEF DuringBatch, ReceiveEnd, ReceiveError, server, TypeOK
<1>5. PICK status \in {"wait", "eof", "error"}, err \in {"none", "error"} :
          status = call.answer.status /\ Return(call.out, status, err)
  BY <1>1 DEF ReceiveEnd, ReceiveError
<1> QED
  BY <1>2, <1>3, <1>4, <1>5, ReturnPreserves DEF Continues

\* Every step of download on the client's side.
LEMMA DownloadPreserves == IInv /\ DownloadStep => IInv'
<1> SUFFICES ASSUME IInv, DownloadStep PROVE IInv'
  OBVIOUS
<1>1. TypeOK /\ lane \in Lanes /\ session \in {"open", "closed"}
  BY DEF IInv, TypeOK
<1>2. /\ Dialled(lane) \in Lanes /\ Failed(lane) \in Lanes
      /\ Discarded(lane) \in Lanes
  BY <1>1, LaneTypes
<1>3. CASE EnsureClosed
  <2>1. DuringBatch /\ AfterFault("error")
    BY <1>1, <1>3 DEF EnsureClosed, DuringBatch, server
  <2> QED
    BY <2>1, FaultPreserves DEF FaultKinds
<1>4. CASE EnsureReuses \/ Dial \/ Send
  <2>1. DuringBatch /\ UNCHANGED <<rpc, result>>
    BY <1>1, <1>2, <1>4 DEF EnsureReuses, Dial, Send, DuringBatch, server
  <2>2. PICK s \in {"send", "recv"} : call' = [call EXCEPT !.step = s]
    BY <1>4 DEF EnsureReuses, Dial, Send
  <2> QED
    BY <2>1, <2>2, StepPreserves
<1>5. CASE \E kind \in FaultKinds :
               DialFails(kind) \/ SendFails(kind) \/ ReceiveFails(kind)
  <2>1. PICK kind \in FaultKinds :
            DialFails(kind) \/ SendFails(kind) \/ ReceiveFails(kind)
    BY <1>5
  <2>2. DuringBatch /\ AfterFault(kind)
    BY <1>1, <1>2, <2>1
       DEF DialFails, SendFails, ReceiveFails, DuringBatch, server
  <2> QED
    BY <2>2, FaultPreserves
<1> QED
  BY <1>3, <1>4, <1>5, ReceiveDataPreserves, ReceiveLastPreserves
     DEF DownloadStep

\* The server's answer continues what it has answered before.
LEMMA RespondPreserves ==
    ASSUME IInv, Awaited, NEW answer \in Answers, Respond(answer),
           call.cursor + answer.n <= produced,
           answer.status = "data" => answer.from = call.cursor,
           answer.status # "data" => answer.n = 0,
           answer.status = "eof" => ended /\ call.cursor = produced
    PROVE  IInv'
<1>1. /\ TypeOK /\ call.step = "recv" /\ lane \in Lanes
      /\ session \in {"open", "closed"}
      /\ call.answer = NoAnswer /\ NoAnswer.n = 0
  BY DEF IInv, TypeOK, Awaited, NoAnswer
<1>2. call \in Calls /\ Continues(call)
  BY <1>1 DEF IInv, TypeOK, Batch
<1>3. /\ answer.n \in Nat /\ call.cursor \in Nat
      /\ call.start \in Nat /\ Len(call.out) \in Nat
      /\ call.cursor = call.start + Len(call.out)
  BY <1>1, <1>2, LenProperties DEF Answers, Calls, Continues, Segment
<1>4. call' = [call EXCEPT !.answer = answer,
                           !.cursor = call.cursor + answer.n]
  BY DEF Respond
<1>5. /\ call' \in Calls /\ call'.step = "recv"
      /\ call'.count = call.count /\ call'.max = call.max
      /\ call'.start = call.start /\ call'.ack = call.ack
      /\ call'.got = call.got /\ call'.out = call.out
      /\ call'.cursor = call.cursor + answer.n /\ call'.answer = answer
  <2>1. call.cursor + answer.n \in Nat
    BY <1>3
  <2> QED
    BY <1>1, <1>2, <1>4, <2>1 DEF Calls
<1>6. Continues(call')
  BY <1>2, <1>3, <1>5 DEF Continues
<1>7. DuringBatch /\ UNCHANGED <<rpc, result>>
  BY <1>1 DEF Respond, DuringBatch, notDownload, reader
<1> QED
  BY <1>5, <1>6, <1>7, GoesOn

LEMMA ServerPreserves == IInv /\ ServerStep => IInv'
<1> SUFFICES ASSUME IInv, ServerStep PROVE IInv'
  OBVIOUS
<1>1. TypeOK /\ Offsets /\ Acks /\ Ends /\ Returned
  BY DEF IInv
<1>2. /\ produced \in Nat /\ downloadOffset \in Nat /\ consumedOffset \in Nat
      /\ released \in Nat /\ lateAck \in Nat
  BY <1>1, Numbers
<1>3. CASE ServeData
  <2>1. PICK n \in 1 .. Smaller(call.max, produced - call.cursor) :
            Respond([status |-> "data", from |-> call.cursor, n |-> n])
    BY <1>3 DEF ServeData
  <2>2. call \in Calls /\ call.cursor \in Nat /\ call.max \in Nat /\ Awaited
    <3>1. call \in Calls
      BY <1>1 DEF TypeOK
    <3>2. call.cursor \in Nat /\ call.max \in {0} \cup Sizes
      BY <3>1 DEF Calls
    <3>3. call.max \in Nat
      BY <3>2, SizerAssumption DEF Sizes
    <3>4. Awaited
      BY <1>3 DEF ServeData
    <3> QED
      BY <3>1, <3>2, <3>3, <3>4
  <2>3. n \in Nat /\ call.cursor + n <= produced
    BY <1>2, <2>1, <2>2 DEF Smaller
  <2> DEFINE answer == [status |-> "data", from |-> call.cursor, n |-> n]
  <2>4. /\ answer \in Answers /\ answer.status = "data"
        /\ answer.from = call.cursor /\ answer.n = n
    BY <2>2, <2>3 DEF Answers
  <2> HIDE DEF answer
  <2>5. Respond(answer)
    BY <2>1 DEF answer
  <2> QED
    BY <2>2, <2>3, <2>4, <2>5, RespondPreserves
<1>4. CASE ServeEnd \/ ServeError
  <2>1. PICK status \in {"wait", "eof", "error"} :
            /\ Respond([NoAnswer EXCEPT !.status = status])
            /\ status = "eof" => ended /\ call.cursor >= produced
    BY <1>4 DEF ServeEnd, ServeError
  <2>2. Awaited /\ call \in Calls /\ Continues(call)
    BY <1>1, <1>4, <1>4 DEF TypeOK, IInv, Batch, ServeEnd, ServeError, Awaited
  <2>3. call.cursor \in Nat /\ call.cursor <= produced
    BY <2>2 DEF Continues, Calls
  <2> DEFINE answer == [NoAnswer EXCEPT !.status = status]
  <2>4. answer \in Answers /\ answer.status = status /\ answer.n = 0
    BY DEF Answers, NoAnswer
  <2> HIDE DEF answer
  <2>5. Respond(answer) /\ call.cursor + answer.n <= produced
    BY <2>1, <2>3, <2>4 DEF answer
  <2>6. answer.status = "eof" => ended /\ call.cursor = produced
    BY <1>2, <2>1, <2>3, <2>4
  <2> QED
    BY <2>2, <2>4, <2>5, <2>6, RespondPreserves
<1>5. CASE \/ LateRelease \/ TargetSends \/ TargetEnds \/ SessionEnds
  <2>1. /\ UNCHANGED <<reader, dead, cpc, lane, call>>
        /\ released' \in {released, lateAck} /\ lateAck' = lateAck
        /\ session' \in {"open", "closed"}
        /\ produced' \in 0 .. StreamLen /\ ended' \in BOOLEAN
        /\ produced <= produced' /\ (ended => ended' /\ produced' = produced)
    <3>1. CASE LateRelease \/ SessionEnds
      BY <1>1, <1>2, <3>1 DEF LateRelease, SessionEnds, TypeOK
    <3>2. CASE TargetSends
      <4>1. /\ UNCHANGED <<reader, dead, cpc, lane, call, released, lateAck,
                           session>>
            /\ ~ended /\ ended' = ended
            /\ produced < StreamLen /\ produced' = produced + 1
        BY <3>2 DEF TargetSends
      <4>2. produced' \in 0 .. StreamLen /\ produced <= produced'
        BY <1>2, <4>1, DownloadAssumption
      <4> QED
        BY <1>1, <4>1, <4>2 DEF TypeOK
    <3>3. CASE TargetEnds
      BY <1>1, <1>2, <3>3 DEF TargetEnds, TypeOK
    <3> QED
      BY <1>5, <3>1, <3>2, <3>3
  <2>2. produced' \in Nat
    BY <2>1, DownloadAssumption
  <2>3. TypeOK'
    BY <1>1, <1>2, <2>1 DEF TypeOK, BatchWithinBudget, reader
  <2>4. Offsets' /\ Acks' /\ Ends'
    BY <1>1, <1>2, <2>1, <2>2 DEF Offsets, Acks, Ends, reader
  <2>5. Returned'
    <3>1. CASE rpc = "result"
      <4>1. Len(result.data) \in Nat
        BY <1>1, <3>1, LenProperties DEF TypeOK, Results
      <4> QED
        BY <1>1, <1>2, <2>1, <2>2, <3>1, <4>1 DEF Returned, reader
    <3>2. CASE rpc # "result"
      BY <2>1, <3>2 DEF Returned, reader
    <3> QED
      BY <3>1, <3>2
  <2>6. Batch'
    <3>1. CASE call.step # "free"
      <4>1. Continues(call) /\ call.cursor \in Nat
        BY <1>1, <3>1 DEF IInv, Batch, TypeOK, Calls
      <4>2. Continues(call)'
        BY <1>2, <2>1, <2>2, <4>1 DEF Continues, reader
      <4> QED
        BY <2>1, <3>1, <4>2 DEF IInv, Batch, reader
    <3>2. CASE call.step = "free"
      BY <2>1, <3>2 DEF IInv, Batch, reader
    <3> QED
      BY <3>1, <3>2
  <2>7. Adapts'
    BY <2>1 DEF IInv, Adapts, reader
  <2> QED
    BY <2>3, <2>4, <2>5, <2>6, <2>7 DEF IInv
<1> QED
  BY <1>3, <1>4, <1>5 DEF ServerStep

-----------------------------------------------------------------------------
(* Read and Close                                                          *)

LEMMA ClosePreserves == IInv /\ (CloseStep \/ WriteTimedOut) => IInv'
<1> SUFFICES ASSUME IInv, CloseStep \/ WriteTimedOut PROVE IInv'
  OBVIOUS
<1>1. TypeOK /\ lane \in Lanes
  BY DEF IInv, TypeOK
<1>2. /\ UNCHANGED <<reader, call, produced, ended, released, lateAck>>
      /\ session' \in {"open", "closed"} /\ lane' \in Lanes
      /\ dead' \in BOOLEAN /\ cpc' \in {"open", "graceful", "lanes", "done"}
  BY <1>1, LaneTypes DEF CloseStep, BeginClose, SendClose, CloseLane,
     WriteTimedOut, server, TypeOK
<1>3. TypeOK'
  BY <1>1, <1>2 DEF TypeOK, BatchWithinBudget, reader
<1>4. Offsets' /\ Acks' /\ Ends' /\ Returned' /\ Adapts'
  BY <1>2 DEF IInv, Offsets, Acks, Ends, Returned, Adapts, reader
<1>5. Batch'
  BY <1>2 DEF IInv, Batch, Continues, reader
<1> QED
  BY <1>3, <1>4, <1>5 DEF IInv

\* StartBatch asks for the bytes that follow the buffer.
LEMMA StartBatchPreserves == IInv /\ StartBatch => IInv'
<1> SUFFICES ASSUME IInv, StartBatch PROVE IInv'
  OBVIOUS
<1> DEFINE count == BatchCount(sizer.current)
<1>1. TypeOK /\ Offsets /\ rpc = "loop" /\ call = Free /\ rpc' = "batch"
  BY DEF IInv, StartBatch
<1>2. sizer.current \in Sizes /\ sizer.current \in Nat
  BY <1>1, SizerAssumption DEF TypeOK, Sizers, Sizes
<1>3. /\ count \in MinPipeline .. MaxPipeline
      /\ count = MinPipeline \/ count * sizer.current <= BatchBytes
  BY <1>1, <1>2, BatchCountFits DEF TypeOK
<1> HIDE DEF count
<1>4. call' = [step |-> "ensure", attempt |-> 1, start |-> downloadOffset,
               ack |-> consumedOffset, max |-> sizer.current,
               count |-> count, got |-> 0, out |-> <<>>,
               cursor |-> downloadOffset, answer |-> NoAnswer]
  BY DEF StartBatch, Free, count
<1>5. /\ NoAnswer \in Answers /\ NoAnswer.status = "none" /\ NoAnswer.n = 0
      /\ <<>> \in Seq(Bytes) /\ count \in 0 .. MaxPipeline
      /\ 0 \in 0 .. MaxPipeline /\ 0 < count /\ MinPipeline <= count
      /\ downloadOffset \in Nat /\ consumedOffset \in Nat
      /\ downloadOffset <= produced
  BY <1>1, <1>3, DownloadAssumption
     DEF NoAnswer, Answers, Bytes, TypeOK, Offsets
<1>6. call' \in Calls
  BY <1>2, <1>4, <1>5 DEF Calls
<1>7. BatchWithinBudget'
  BY <1>3, <1>4, <1>5 DEF BatchWithinBudget
<1>8. TypeOK'
  BY <1>1, <1>2, <1>6, <1>7 DEF TypeOK, StartBatch, server
<1>9. Segment(<<>>, downloadOffset) /\ Len(<<>>) = 0
  BY <1>5, EmptySegment
<1>10. Continues(call')
  BY <1>4, <1>5, <1>9 DEF Continues
<1>11. Continues(call)'
  BY <1>10 DEF Continues, StartBatch, server
<1>12. Batch'
  BY <1>1, <1>4, <1>11 DEF Batch
<1>13. Offsets' /\ Acks' /\ Ends' /\ Returned' /\ Adapts'
  BY <1>1 DEF IInv, Offsets, Acks, Ends, Returned, Adapts, StartBatch, server
<1> QED
  BY <1>8, <1>12, <1>13 DEF IInv

\* BeginRead and Copy move bytes from the buffer to the caller, in order.
LEMMA CopyPreserves == IInv /\ (BeginRead \/ Copy) => IInv'
<1> SUFFICES ASSUME IInv, BeginRead \/ Copy PROVE IInv'
  OBVIOUS
<1>1. /\ TypeOK /\ Offsets /\ Acks /\ Ends /\ Adapts
      /\ rpc \in {"idle", "copy"} /\ call = Free
  BY DEF IInv, Batch, BeginRead, Copy
<1>2. /\ consumedOffset \in Nat /\ Len(consumed) \in Nat /\ Len(readBuf) \in Nat
      /\ released \in Nat /\ lateAck \in Nat
      /\ 0 \in 0 .. MinFailureLimit /\ 0 < MinFailureLimit
  BY <1>1, Numbers, DownloadAssumption
<1>3. CASE BeginRead
  <2>1. /\ UNCHANGED <<consumed, readBuf, downloadOffset, consumedOffset, eof,
                       pipeline, sizer, chunk, result, dead, cpc, lane, call,
                       server>>
        /\ minFailures' = 0
        /\ rpc' \in {"copy", "eof", "loop"}
        /\ rpc' = "eof" => eof /\ readBuf = <<>>
    BY <1>3 DEF BeginRead
  <2>2. TypeOK'
    BY <1>1, <1>2, <2>1 DEF TypeOK, BatchWithinBudget, server
  <2>3. Offsets' /\ Acks' /\ Ends' /\ Returned' /\ Adapts'
    BY <1>1, <1>2, <2>1 DEF Offsets, Acks, Ends, Returned, Adapts, server
  <2>4. Batch'
    BY <1>1, <2>1, FreeIsCall DEF Batch
  <2> QED
    BY <2>2, <2>3, <2>4 DEF IInv
<1>4. CASE Copy
  <2>1. PICK n \in 1 .. Len(readBuf) :
            /\ consumed' = consumed \o SubSeq(readBuf, 1, n)
            /\ readBuf' = SubSeq(readBuf, n + 1, Len(readBuf))
            /\ consumedOffset' = consumedOffset + n
    BY <1>4 DEF Copy
  <2>2. n \in 0 .. Len(readBuf) /\ n \in Nat
    BY <1>2, <2>1
  <2>3. /\ Segment(SubSeq(readBuf, 1, n), consumedOffset)
        /\ Len(SubSeq(readBuf, 1, n)) = n
        /\ Segment(readBuf', consumedOffset + n)
        /\ Len(readBuf') = Len(readBuf) - n
    BY <1>1, <1>2, <2>1, <2>2, SegmentCut DEF Offsets
  <2>4. consumedOffset = 0 + Len(consumed) /\ Segment(consumed, 0)
    BY <1>1, <1>2 DEF Offsets
  <2>5. /\ Segment(consumed', 0)
        /\ Len(consumed') = Len(consumed) + n
    BY <2>1, <2>3, <2>4, SegmentJoin
  <2>6. /\ rpc' = "idle"
        /\ UNCHANGED <<downloadOffset, eof, pipeline, sizer, chunk,
                       minFailures, result, dead, cpc, lane, call, server>>
    BY <1>4 DEF Copy
  <2>7. Offsets'
    <3>1. consumedOffset' = Len(consumed')
      BY <1>1, <2>1, <2>5 DEF Offsets
    <3>2. /\ downloadOffset = consumedOffset + Len(readBuf)
          /\ downloadOffset' = downloadOffset
          /\ consumedOffset' = consumedOffset + n
          /\ Len(readBuf') = Len(readBuf) - n
      BY <1>1, <2>1, <2>3, <2>6 DEF Offsets
    <3>3. downloadOffset' = consumedOffset' + Len(readBuf')
      BY <1>2, <2>2, <3>2
    <3> QED
      BY <1>1, <2>1, <2>3, <2>5, <2>6, <3>1, <3>3 DEF Offsets, server
  <2>8. Acks'
    BY <1>1, <1>2, <2>1, <2>2, <2>6 DEF Acks, server
  <2>9. TypeOK'
    <3>1. consumedOffset' \in Nat
      BY <1>2, <2>1, <2>2
    <3>2. consumed' \in Seq(Bytes) /\ readBuf' \in Seq(Bytes)
      BY <2>3, <2>5 DEF Segment, Bytes
    <3> QED
      BY <1>1, <2>6, <3>1, <3>2 DEF TypeOK, BatchWithinBudget, server
  <2>10. Ends' /\ Returned' /\ Adapts' /\ Batch'
    BY <1>1, <2>6, FreeIsCall DEF Ends, Returned, Adapts, Batch, server
  <2> QED
    BY <2>7, <2>8, <2>9, <2>10 DEF IInv
<1> QED
  BY <1>3, <1>4

\* The data a batch returned joins the buffer.
LEMMA DataJoins ==
    ASSUME IInv, rpc = "result", KeepData,
           UNCHANGED <<consumed, consumedOffset, produced, ended>>
    PROVE  /\ Offsets'
           /\ readBuf' \in Seq(Bytes) /\ downloadOffset' \in Nat
           /\ eof => ended /\ downloadOffset' = produced
           /\ result.status = "eof" => ended /\ downloadOffset' = produced
<1>1. TypeOK /\ Offsets /\ Ends /\ Returned
  BY DEF IInv
<1>2. /\ consumedOffset \in Nat /\ downloadOffset \in Nat /\ produced \in Nat
      /\ Len(readBuf) \in Nat /\ Len(result.data) \in Nat
  BY <1>1, Numbers, LenProperties DEF TypeOK, Results
<1>3. /\ Segment(readBuf, consumedOffset)
      /\ downloadOffset = consumedOffset + Len(readBuf)
      /\ Segment(result.data, downloadOffset)
      /\ downloadOffset + Len(result.data) <= produced
  BY <1>1 DEF Offsets, Returned
<1>4. /\ readBuf' = readBuf \o result.data
      /\ downloadOffset' = downloadOffset + Len(result.data)
  BY DEF KeepData
<1>5. /\ Segment(readBuf', consumedOffset)
      /\ Len(readBuf') = Len(readBuf) + Len(result.data)
  BY <1>2, <1>3, <1>4, SegmentJoin
<1>6. /\ downloadOffset' \in Nat /\ downloadOffset' <= produced
      /\ downloadOffset' = consumedOffset + Len(readBuf')
      /\ downloadOffset = produced => downloadOffset' = produced
  <2> DEFINE b == Len(readBuf)
             d == Len(result.data)
             e == Len(readBuf')
  <2>1. /\ downloadOffset = consumedOffset + b
        /\ downloadOffset + d <= produced
        /\ b \in Nat /\ d \in Nat
    BY <1>2, <1>3
  <2>2. downloadOffset' = downloadOffset + d
    BY <1>4
  <2>3. e = b + d
    BY <1>5
  <2> HIDE DEF b, d, e
  <2>4. downloadOffset' \in Nat /\ downloadOffset' <= produced
    BY <1>2, <2>1, <2>2
  <2>5. downloadOffset = produced => downloadOffset' = produced
    BY <1>2, <2>1, <2>2
  <2>6. downloadOffset' = consumedOffset + Len(readBuf')
    <3>1. downloadOffset' = consumedOffset + e
      BY <1>2, <2>1, <2>2, <2>3
    <3> QED
      BY <3>1 DEF e
  <2> QED
    BY <2>4, <2>5, <2>6
<1>7. Offsets'
  BY <1>1, <1>5, <1>6 DEF Offsets
<1>8. readBuf' \in Seq(Bytes)
  BY <1>5 DEF Segment, Bytes
<1>9. eof => ended /\ downloadOffset' = produced
  BY <1>1, <1>6 DEF Ends
<1>10. result.status = "eof" => ended /\ downloadOffset' = produced
  BY <1>1, <1>4 DEF Returned
<1> QED
  BY <1>6, <1>7, <1>8, <1>9, <1>10

\* What the outcome of a batch does to the sizer, the pipeline and the counter.
LEMMA AfterDataFits ==
    ASSUME IInv, rpc = "result"
    PROVE  /\ SizerAfterData \in Sizers
           /\ InBracket(SizerAfterData) /\ CountersLow(SizerAfterData)
           /\ PipelineAfterData \in MinPipeline .. MaxPipeline
           /\ FailuresAfterData \in Nat /\ FailuresAfterData < MinFailureLimit
<1>1. TypeOK /\ Adapts
  BY DEF IInv
<1>2. /\ SizerAfterData \in Sizers
      /\ InBracket(SizerAfterData) /\ CountersLow(SizerAfterData)
  BY <1>1, SuccessFits DEF SizerAfterData, TypeOK, Adapts
<1>3. PipelineAfterData \in MinPipeline .. MaxPipeline
  BY <1>1, DownloadAssumption DEF PipelineAfterData, TypeOK
<1>4. FailuresAfterData \in Nat /\ FailuresAfterData < MinFailureLimit
  BY <1>1, DownloadAssumption DEF FailuresAfterData, TypeOK, Adapts
<1> QED
  BY <1>2, <1>3, <1>4

LEMMA ReadPreserves == IInv /\ ReadStep => IInv'
<1> SUFFICES ASSUME IInv, ReadStep PROVE IInv'
  OBVIOUS
<1>1. /\ TypeOK /\ Offsets /\ Acks /\ Ends /\ Adapts
      /\ rpc = "result" /\ call = Free
  BY DEF IInv, Batch, ReadStep, BatchDone, BatchTimedOut, BatchHalved,
         BatchFailed
<1>2. CASE BatchTimedOut
  <2>1. /\ UNCHANGED <<consumed, readBuf, downloadOffset, consumedOffset, eof,
                       pipeline, sizer, chunk, minFailures, result, cpc, lane,
                       call, server>>
        /\ dead' = TRUE /\ rpc' = "stopped"
    BY <1>2 DEF BatchTimedOut
  <2>2. TypeOK'
    BY <1>1, <2>1 DEF TypeOK, BatchWithinBudget, server
  <2>3. Offsets' /\ Acks' /\ Ends' /\ Adapts'
    BY <1>1, <2>1 DEF Offsets, Acks, Ends, Adapts, server
  <2>4. Returned' /\ Batch'
    BY <1>1, <2>1, FreeIsCall DEF Returned, Batch
  <2> QED
    BY <2>2, <2>3, <2>4 DEF IInv
<1>3. CASE BatchDone \/ BatchHalved \/ BatchFailed
  <2>1. /\ KeepData
        /\ UNCHANGED <<consumed, consumedOffset, chunk, result, dead, cpc,
                       lane, call, server>>
    BY <1>3 DEF BatchDone, BatchHalved, BatchFailed
  <2>2. Offsets' /\ readBuf' \in Seq(Bytes) /\ downloadOffset' \in Nat
        /\ (eof => ended /\ downloadOffset' = produced)
        /\ (result.status = "eof" => ended /\ downloadOffset' = produced)
    BY <1>1, <2>1, DataJoins DEF server
  <2>3. /\ SizerAfterData \in Sizers
        /\ InBracket(SizerAfterData) /\ CountersLow(SizerAfterData)
        /\ PipelineAfterData \in MinPipeline .. MaxPipeline
        /\ FailuresAfterData \in Nat /\ FailuresAfterData < MinFailureLimit
        /\ MinFailureLimit \in Nat
    BY <1>1, AfterDataFits, DownloadAssumption
  <2>4. sizer' \in Sizers /\ InBracket(sizer') /\ CountersLow(sizer')
    <3>1. \/ sizer' = SizerAfterData
          \/ sizer' = FailureReason(SizerAfterData, chunk)
      BY <1>3 DEF BatchDone, BatchHalved, BatchFailed
    <3> QED
      BY <2>3, <3>1, FailureReasonFits
  <2>5. pipeline' \in MinPipeline .. MaxPipeline
    <3>1. \/ pipeline' = PipelineAfterData
          \/ pipeline' = Larger(PipelineAfterData \div 2, MinPipeline)
      BY <1>3 DEF BatchDone, BatchHalved, BatchFailed
    <3>2. ASSUME NEW a \in Nat, NEW b \in Nat, NEW c \in Nat,
                 a <= b, a >= c, NEW d, d = Larger(a \div 2, c)
          PROVE  d \in c .. b
      <4>1. a \div 2 \in Nat /\ a \div 2 <= a
        BY <3>2
      <4> QED
        BY <3>2, <4>1 DEF Larger
    <3> QED
      BY <2>3, <3>1, <3>2, DownloadAssumption
  <2>6. /\ minFailures' \in 0 .. MinFailureLimit
        /\ rpc' # "stopped" => minFailures' < MinFailureLimit
        /\ rpc' \in {"loop", "copy", "eof", "stopped"}
        /\ rpc' = "eof" => eof' /\ readBuf' = <<>>
    <3>1. CASE BatchDone \/ BatchHalved
      <4>1. /\ minFailures' = FailuresAfterData
            /\ rpc' \in {"loop", "copy", "eof"}
            /\ rpc' = "eof" => eof' /\ readBuf' = <<>>
        BY <3>1 DEF BatchDone, BatchHalved, AfterError
      <4> QED
        BY <2>3, <4>1
    <3>2. CASE BatchFailed
      <4>1. /\ minFailures' = FailuresAfterData + IF AtMinimum THEN 1 ELSE 0
            /\ rpc' = IF minFailures' >= MinFailureLimit /\ AtMinimum
                      THEN "stopped" ELSE AfterError
            /\ AfterError \in {"loop", "copy"}
        BY <3>2 DEF BatchFailed, AfterError
      <4>2. CASE AtMinimum
        BY <2>3, <4>1, <4>2
      <4>3. CASE ~AtMinimum
        BY <2>3, <4>1, <4>3
      <4> QED
        BY <4>2, <4>3
    <3> QED
      BY <1>3, <3>1, <3>2
  <2>7. eof' \in BOOLEAN /\ (eof' => ended /\ downloadOffset' = produced)
    <3>1. eof' = eof \/ eof' = (result.status = "eof")
      BY <1>3 DEF BatchDone, BatchHalved, BatchFailed
    <3>2. eof \in BOOLEAN
      BY <1>1 DEF TypeOK
    <3>3. CASE eof' = eof
      BY <2>2, <3>2, <3>3, Zenon
    <3>4. CASE eof' = (result.status = "eof")
      BY <2>2, <3>4, Zenon
    <3> QED
      BY <3>1, <3>3, <3>4
  <2>8. TypeOK'
    BY <1>1, <2>1, <2>2, <2>4, <2>5, <2>6, <2>7
       DEF TypeOK, BatchWithinBudget, server
  <2>9. Acks' /\ Ends' /\ Adapts'
    BY <1>1, <2>1, <2>4, <2>6, <2>7 DEF Acks, Ends, Adapts, server
  <2>10. Returned' /\ Batch'
    BY <1>1, <2>1, <2>6, FreeIsCall DEF Returned, Batch
  <2> QED
    BY <2>2, <2>8, <2>9, <2>10 DEF IInv
<1> QED
  BY <1>2, <1>3 DEF ReadStep

-----------------------------------------------------------------------------
(* The invariant is inductive                                              *)

LEMMA InitIInv == Init => IInv
<1> SUFFICES ASSUME Init PROVE IInv
  OBVIOUS
<1>1. PICK start \in Sizes : sizer = NewSizer(start)
  BY DEF Init
<1>2. sizer \in Sizers /\ InBracket(sizer) /\ CountersLow(sizer)
  <2>1. start \in Int
    BY SizerAssumption DEF Sizes
  <2> QED
    BY <1>1, <2>1, NewSizerFits
<1>3. lane \in Lanes
  BY LaneTypes DEF Init
<1>4. Segment(<<>>, 0) /\ Len(<<>>) = 0
  BY EmptySegment
<1>5. /\ MinSize \in Sizes /\ 0 \in 0 .. MinFailureLimit /\ 0 < MinFailureLimit
      /\ MaxPipeline \in MinPipeline .. MaxPipeline /\ 0 \in 0 .. StreamLen
      /\ NoResult \in Results /\ <<>> \in Seq(Bytes)
  BY SizerAssumption, DownloadAssumption DEF Sizes, NoResult, Results, Bytes
<1>6. TypeOK
  BY <1>2, <1>3, <1>5, FreeIsCall DEF Init, TypeOK, BatchWithinBudget
<1>7. Offsets /\ Acks
  BY <1>4 DEF Init, Offsets, Acks
<1>8. Batch /\ Returned /\ Ends /\ Adapts
  BY <1>2, <1>5, FreeIsCall DEF Init, Batch, Returned, Ends, Adapts
<1> QED
  BY <1>6, <1>7, <1>8 DEF IInv

LEMMA NextIInv == IInv /\ [Next]_vars => IInv'
<1>1. IInv /\ UNCHANGED vars => IInv'
  <2> SUFFICES ASSUME IInv, UNCHANGED vars PROVE IInv'
    OBVIOUS
  <2>1. TypeOK'
    BY DEF IInv, TypeOK, BatchWithinBudget, vars, reader, server
  <2>2. Offsets' /\ Acks' /\ Ends' /\ Returned' /\ Adapts'
    BY DEF IInv, Offsets, Acks, Ends, Returned, Adapts, vars, reader, server
  <2>3. Batch'
    BY DEF IInv, Batch, Continues, vars, reader, server
  <2> QED
    BY <2>1, <2>2, <2>3 DEF IInv
<1> QED
  BY <1>1, CopyPreserves, StartBatchPreserves, ReadPreserves,
     DownloadPreserves, ClosePreserves, ServerPreserves DEF Next

-----------------------------------------------------------------------------
(* The theorems                                                            *)

\* The inductive invariant holds in every reachable state.
THEOREM DownloadInvariance == Spec => []IInv
<1>1. Init => IInv
  BY InitIInv
<1>2. IInv /\ [Next]_vars => IInv'
  BY NextIInv
<1> QED
  BY <1>1, <1>2, PTL DEF Spec

\* Every variable keeps its type; in particular no batch exceeds the byte
\* budget unless the configured floor of its records does, and the failures
\* at the minimum size never pass the limit.
THEOREM DownloadTypeCorrect == Spec => []TypeOK
<1>1. IInv => TypeOK
  BY DEF IInv
<1> QED
  BY <1>1, DownloadInvariance, PTL

\* Whatever batches are cut short, repeated or answered with an error, Read
\* reports the end of the stream only when it has returned all of it.
THEOREM EndIsTheEnd == Spec => []EOFOnlyAtEnd
<1>1. IInv => EOFOnlyAtEnd
  <2> SUFFICES ASSUME IInv, rpc = "eof" PROVE ended /\ Len(consumed) = produced
    BY DEF EOFOnlyAtEnd
  <2>1. ended /\ downloadOffset = produced /\ readBuf = <<>>
    BY DEF IInv, Ends
  <2>2. Len(readBuf) = 0
    BY <2>1, EmptySegment
  <2>3. Len(consumed) \in Nat
    BY Numbers DEF IInv
  <2> QED
    BY <2>1, <2>2, <2>3 DEF IInv, Offsets
<1> QED
  BY <1>1, DownloadInvariance, PTL

-----------------------------------------------------------------------------
(* Refinement                                                              *)

\* A segment from the start of the stream is a prefix of it.
LEMMA SegmentIsPrefix ==
    ASSUME NEW s, Segment(s, 0)
    PROVE  s = Pipe!Prefix(Len(s)) /\ Len(s) \in Nat
<1>1. Len(s) \in Nat /\ s = [i \in 1 .. Len(s) |-> 0 + i]
  BY SegmentShape
<1>2. [i \in 1 .. Len(s) |-> 0 + i] = [i \in 1 .. Len(s) |-> i]
  BY <1>1
<1> QED
  BY <1>1, <1>2 DEF Pipe!Prefix

\* The target's bytes are offered, Copy delivers bytes, what the server
\* forgets is released, and nothing else is visible.
LEMMA DownloadRefines ==
    IInv /\ IInv' /\ [Next]_vars => [Pipe!Next]_(Pipe!pipe)
<1> SUFFICES ASSUME IInv, IInv', [Next]_vars
             PROVE  [Pipe!Next]_(Pipe!pipe)
  OBVIOUS
<1>1. /\ produced \in Nat /\ released \in Nat /\ Len(consumed) \in Nat
      /\ consumedOffset = Len(consumed) /\ consumedOffset <= produced
      /\ consumed = Pipe!Prefix(Len(consumed))
  <2>1. consumedOffset <= downloadOffset /\ downloadOffset <= produced
    BY Numbers DEF IInv, Offsets
  <2> QED
    BY <2>1, Numbers, SegmentIsPrefix DEF IInv, Offsets
<1>2. /\ produced' \in Nat /\ released' \in Nat /\ Len(consumed') \in Nat
      /\ consumedOffset' = Len(consumed') /\ consumedOffset' <= produced'
      /\ consumed' = Pipe!Prefix(Len(consumed'))
      /\ released' <= consumedOffset'
  <2>1. (TypeOK /\ Offsets /\ Acks)'
    BY DEF IInv
  <2>2. produced' \in Nat /\ released' \in Nat /\ consumedOffset' \in Nat
    BY <2>1, DownloadAssumption DEF TypeOK
  <2>3. Segment(consumed', 0)
    BY <2>1 DEF Offsets
  <2>4. consumed' = Pipe!Prefix(Len(consumed')) /\ Len(consumed') \in Nat
    BY <2>3, SegmentIsPrefix
  <2>5. /\ consumedOffset' = Len(consumed') /\ released' <= consumedOffset'
        /\ downloadOffset' = consumedOffset' + Len(readBuf')
        /\ downloadOffset' <= produced' /\ Len(readBuf') \in Nat
    BY <2>1, LenProperties DEF Offsets, Acks, TypeOK
  <2> QED
    BY <2>2, <2>4, <2>5
<1>3. CASE TargetSends
  BY <1>1, <1>3 DEF TargetSends, reader, Pipe!Next, Pipe!Offer
<1>4. CASE Copy
  <2>1. PICK n \in 1 .. Len(readBuf) : consumedOffset' = consumedOffset + n
    BY <1>4 DEF Copy
  <2>2. n \in Nat /\ n > 0 /\ produced' = produced /\ released' = released
    BY <1>4, <2>1, Numbers DEF Copy, server, IInv
  <2>3. Len(consumed') \in Len(consumed) + 1 .. produced
    BY <1>1, <1>2, <2>1, <2>2
  <2> QED
    BY <1>2, <2>2, <2>3 DEF Pipe!Next, Pipe!Deliver
<1>5. CASE /\ UNCHANGED <<produced, consumed>>
           /\ \/ released' = released
              \/ released' = Larger(released, call.ack)
  <2>1. CASE released' = released
    BY <1>5, <2>1 DEF Pipe!pipe
  <2>2. CASE released' # released /\ released' > released
    <3>1. released' \in released + 1 .. Len(consumed)
      BY <1>1, <1>2, <1>5, <2>2
    <3> QED
      BY <1>5, <3>1 DEF Pipe!Next, Pipe!Release
  <2>3. released' >= released
    <3>1. call.ack \in Nat
      BY DEF IInv, TypeOK, Calls
    <3> QED
      BY <1>1, <1>2, <1>5, <3>1 DEF Larger
  <2> QED
    BY <1>1, <1>2, <2>1, <2>2, <2>3
<1>6. CASE DownloadStep \/ ServeData \/ ServeEnd \/ ServeError
  <2>1. /\ UNCHANGED <<produced, consumed>>
        /\ released' \in {released, Larger(released, call.ack)}
    BY <1>6 DEF DownloadStep, EnsureClosed, EnsureReuses, Dial, Send,
       DialFails, SendFails, ReceiveFails, ReceiveData, ReceiveEnd,
       ReceiveError, notDownload, server, ServeData, ServeEnd, ServeError,
       Respond, reader
  <2> QED
    BY <1>5, <2>1
<1>7. CASE \/ BeginRead \/ StartBatch \/ ReadStep \/ CloseStep
           \/ WriteTimedOut \/ TargetEnds \/ SessionEnds \/ UNCHANGED vars
  <2>1. UNCHANGED <<produced, consumed, released>>
    BY <1>7 DEF BeginRead, StartBatch, ReadStep, BatchDone, BatchTimedOut,
       BatchHalved, BatchFailed, CloseStep, BeginClose, SendClose, CloseLane,
       WriteTimedOut, TargetEnds, SessionEnds, vars, reader, server
  <2> QED
    BY <1>5, <2>1
<1>8. CASE LateRelease
  <2>1. UNCHANGED <<produced, consumed>> /\ released' = lateAck
        /\ released < lateAck
    BY <1>8 DEF LateRelease, reader
  <2>2. released' \in released + 1 .. Len(consumed)
    BY <1>1, <1>2, <2>1
  <2> QED
    BY <2>1, <2>2 DEF Pipe!Next, Pipe!Release
<1> QED
  BY <1>3, <1>4, <1>6, <1>7, <1>8 DEF Next, ServerStep

\* The download direction, with its batches, retries and late
\* acknowledgements, implements the reliable byte pipe.
THEOREM DownloadImplementsPipe == Spec => PipeSpec
<1>1. Init => Pipe!Init
  <2> SUFFICES ASSUME Init PROVE Pipe!Init
    OBVIOUS
  <2>1. Segment(<<>>, 0) /\ Len(<<>>) = 0
    BY EmptySegment
  <2>2. <<>> = Pipe!Prefix(0)
    BY <2>1, SegmentIsPrefix
  <2> QED
    BY <2>2 DEF Init, Pipe!Init
<1>2. IInv /\ IInv' /\ [Next]_vars => [Pipe!Next]_(Pipe!pipe)
  BY DownloadRefines
<1> QED
  BY <1>1, <1>2, DownloadInvariance, PTL DEF Spec, PipeSpec, Pipe!Spec
=============================================================================
