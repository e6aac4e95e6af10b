------------------------------ MODULE XorPull ------------------------------
(***************************************************************************)
(* The receiving half of the X tunnel (internal/xorchunk/chunk.go).        *)
(* Several pollers, each with a lane of its own, claim the records of the  *)
(* stream one after the other, fetch each in fragments, and post it to a   *)
(* bounded channel; Read puts the records back in order, whoever was first *)
(* to fetch which; Close stops the pollers and waits for them.             *)
(*                                                                         *)
(* Byte n the target sends is named n.  Records are numbered from 0, and   *)
(* record s exists once the server has more than s of them.                *)
(***************************************************************************)
EXTENDS SizerOps, Sequences

CONSTANTS
    PollerCount,       \* opts.pollers
    ChannelCap,        \* capacity of results: four per poller
    KeepsOpen,         \* may a lane keep its connection after an answer?
    MinFailureLimit,   \* consecutive failures that end a poller: 8
    RecordLens,        \* bound: the lengths of the records, if all are sent
    MaxClaim           \* bound: no poller claims a record from here on

ASSUME PullAssumption ==
    /\ PollerCount \in Nat \ {0}
    /\ ChannelCap \in Nat \ {0}
    /\ KeepsOpen \subseteq BOOLEAN /\ KeepsOpen # {}
    /\ MinFailureLimit \in Nat \ {0}
    /\ RecordLens \in Seq(Nat \ {0})
    /\ MaxClaim \in Nat

VARIABLES
    \* the pollers
    claim,        \* the next record nobody has claimed
    sizer,        \* downSizer, which they share
    wpc,          \* wpc[w]: where poller w is
    job,          \* job[w]: the record it fetches, and its request
    post,         \* post[w]: the result it is about to send
    lane,         \* lane[w]: its connection
    \* the channel
    results, resultsClosed,
    \* Read
    rpc, current, pending, nextRead, ack, finalKnown, finalSeq,
    consumed,     \* history: the bytes Read has returned
    \* Close
    cpc, cancelled,
    \* the server: where each record ends in the stream, whether the target
    \* has finished, and how many records the server has forgotten
    ends, ended, forgotten

pulling == <<claim, sizer, wpc, job, post, lane>>
channel == <<results, resultsClosed>>
reader == <<rpc, current, pending, nextRead, ack, finalKnown, finalSeq,
            consumed>>
closer == <<cpc, cancelled>>
server == <<ends, ended, forgotten>>
vars == <<pulling, channel, reader, closer, server>>

-----------------------------------------------------------------------------
Pollers == 1 .. PollerCount

\* offset is Len(assembled); ack counts records, so that it is one more than
\* the sequence number the code acknowledges.
Jobs == [seq : Nat, assembled : Seq(Nat), limit : Sizes, ack : Nat,
         failures : 0 .. MinFailureLimit]

NoJob == [seq |-> 0, assembled |-> <<>>, limit |-> MinSize, ack |-> 0,
          failures |-> 0]

\* A chunkResult.  Read looks at the sequence number of data only.
Results == [kind : {"data", "eof", "err"}, seq : Nat, data : Seq(Nat),
            final : Nat]

Data(s, bytes) == [kind |-> "data", seq |-> s, data |-> bytes, final |-> 0]
EOF(n) == [kind |-> "eof", seq |-> 0, data |-> <<>>, final |-> n]
Err == [kind |-> "err", seq |-> 0, data |-> <<>>, final |-> 0]

TypeOK ==
    /\ claim \in Nat /\ sizer \in Sizers
    /\ wpc \in [Pollers -> {"claim", "ask", "do", "sent", "post", "done"}]
    /\ job \in [Pollers -> Jobs]
    /\ post \in [Pollers -> Results]
    /\ lane \in [Pollers -> [open : BOOLEAN, closed : BOOLEAN]]
    /\ results \in Seq(Results) /\ Len(results) <= ChannelCap
    /\ resultsClosed \in BOOLEAN
    /\ rpc \in {"idle", "reading", "eof", "failed"}
    /\ current \in Seq(Nat)
    /\ DOMAIN pending \subseteq Nat
    /\ \A s \in DOMAIN pending : pending[s] \in Seq(Nat)
    /\ nextRead \in Nat /\ ack \in Nat
    /\ finalKnown \in BOOLEAN /\ finalSeq \in Nat
    /\ consumed \in Seq(Nat)
    /\ cpc \in {"open", "session", "lanes", "join", "done"}
    /\ cancelled \in BOOLEAN
    /\ ends \in Seq(Nat) /\ ended \in BOOLEAN
    /\ forgotten \in Nat

\* Open: one lane and one poller each, nothing claimed.
Init ==
    /\ claim = 0
    /\ \E start \in Sizes : sizer = NewSizer(start)
    /\ wpc = [w \in Pollers |-> "claim"]
    /\ job = [w \in Pollers |-> NoJob]
    /\ post = [w \in Pollers |-> Err]
    /\ lane = [w \in Pollers |-> [open |-> FALSE, closed |-> FALSE]]
    /\ results = <<>> /\ resultsClosed = FALSE
    /\ rpc = "idle" /\ current = <<>> /\ pending = <<>>
    /\ nextRead = 0 /\ ack = 0
    /\ finalKnown = FALSE /\ finalSeq = 0
    /\ consumed = <<>>
    /\ cpc = "open" /\ cancelled = FALSE
    /\ ends = <<>> /\ ended = FALSE /\ forgotten = 0

-----------------------------------------------------------------------------
(* pullWorker                                                              *)

ClaimAfter == claim + 1

Claim(w) ==
    /\ wpc[w] = "claim" /\ ~cancelled
    /\ claim < MaxClaim
    /\ claim' = ClaimAfter
    /\ job' = [job EXCEPT ![w] = [NoJob EXCEPT !.seq = claim]]
    /\ wpc' = [wpc EXCEPT ![w] = "ask"]
    /\ UNCHANGED <<sizer, post, lane, channel, reader, closer, server>>

\* ctx.Done() at the top of either loop, or while it waits to poll again.
StopsOnCancel(w) ==
    /\ wpc[w] \in {"claim", "ask"} /\ cancelled
    /\ wpc' = [wpc EXCEPT ![w] = "done"]
    /\ UNCHANGED <<claim, sizer, job, post, lane, channel, reader, closer,
                   server>>

\* The size and the acknowledgement are read here; the request that carries
\* them reaches the server later, when both may have moved.
Ask(w) ==
    /\ wpc[w] = "ask" /\ ~cancelled
    /\ job' = [job EXCEPT ![w].limit = sizer.current, ![w].ack = ack]
    /\ wpc' = [wpc EXCEPT ![w] = "do"]
    /\ UNCHANGED <<claim, sizer, post, lane, channel, reader, closer, server>>

\* Do takes the lane's mutex, dials unless the connection is kept, and sends.
\* It holds the mutex until the answer has come or failed.
Send(w) ==
    /\ wpc[w] = "do" /\ ~lane[w].closed
    /\ lane' = [lane EXCEPT ![w].open = TRUE]
    /\ wpc' = [wpc EXCEPT ![w] = "sent"]
    /\ UNCHANGED <<claim, sizer, job, post, channel, reader, closer, server>>

\* The failures in a row at the minimum, or at a size that cannot move.  A
\* failure of a size that another poller has moved meanwhile counts as one at
\* the size in use.
FailuresNow(w, before, after) ==
    IF ~Adaptive \/ (after.current = before.current /\ after.current = MinSize)
    THEN job[w].failures + 1 ELSE 0

\* The inner loop goes on with the record as far as it is assembled.
AsksAgain(w, record) ==
    /\ job' = [job EXCEPT ![w] = [record EXCEPT !.limit = MinSize, !.ack = 0]]
    /\ wpc' = [wpc EXCEPT ![w] = "ask"]
    /\ UNCHANGED post

\* The fetch ends with a result for the channel.
Posts(w, result) ==
    /\ job' = [job EXCEPT ![w] = NoJob]
    /\ post' = [post EXCEPT ![w] = result]
    /\ wpc' = [wpc EXCEPT ![w] = "post"]

\* The branch for an error of Do.
Fault(w) ==
    LET after == FailureReason(sizer, job[w].limit)
        failures == FailuresNow(w, sizer, after)
    IN  /\ sizer' = after
        /\ IF failures >= MinFailureLimit
           THEN Posts(w, Err)
           ELSE AsksAgain(w, [job[w] EXCEPT !.failures = failures])

\* The lane is closed, or its dial fails; a kept connection breaks later.
SendFails(w) ==
    /\ wpc[w] = "do"
    /\ ~lane[w].open
    /\ Fault(w)
    /\ UNCHANGED <<claim, lane, channel, reader, closer, server>>

\* What the server keeps once it has seen the request of w.
ForgottenAfter(w) == Larger(forgotten, job[w].ack)

\* The request or its answer is lost.  The server may have seen it; seeing it
\* later would tell the server nothing new.
AnswerLost(w) ==
    /\ wpc[w] = "sent"
    /\ forgotten' \in {forgotten, ForgottenAfter(w)}
    /\ lane' = [lane EXCEPT ![w].open = FALSE]
    /\ Fault(w)
    /\ UNCHANGED <<claim, channel, reader, closer, ends, ended>>

\* The answer arrives.  Lanes that are kept (reconnectEvery 0), used once (1)
\* or rotated are KeepsOpen = {TRUE}, {FALSE} and {TRUE, FALSE}.
AnswerComes(w) ==
    /\ wpc[w] = "sent"
    /\ \E keep \in KeepsOpen : lane' = [lane EXCEPT ![w].open = keep]
    /\ UNCHANGED <<claim, channel, reader, closer, ends, ended>>

\* The server still has the record.
Has(s) == forgotten <= s /\ s < Len(ends)

Start(s) == IF s = 0 THEN 0 ELSE ends[s]

WaitAnswered(w) ==
    /\ AnswerComes(w)
    /\ job[w].seq >= Len(ends) /\ ~ended
    /\ forgotten' = ForgottenAfter(w)
    /\ AsksAgain(w, job[w])
    /\ UNCHANGED sizer

EndAnswered(w) ==
    /\ AnswerComes(w)
    /\ job[w].seq >= Len(ends) /\ ended
    /\ forgotten' = ForgottenAfter(w)
    /\ Posts(w, EOF(Len(ends)))
    /\ UNCHANGED sizer

\* An ERR, for instance because the session has expired or Close has ended
\* it, or an answer that makes no sense.
ErrorAnswered(w) ==
    /\ AnswerComes(w)
    /\ Posts(w, Err)
    /\ UNCHANGED <<sizer, forgotten>>

Assembled(w, fragment) == job[w].assembled \o fragment

\* A fragment from the offset asked for, no larger than the limit.
DataAnswered(w) ==
    /\ AnswerComes(w)
    /\ Has(job[w].seq)
    /\ forgotten' = ForgottenAfter(w)
    /\ LET s == job[w].seq
           offset == Len(job[w].assembled)
           total == ends[s + 1] - Start(s)
           n == Smaller(job[w].limit, total - offset)
           bytes == Assembled(w, [i \in 1 .. n |-> Start(s) + offset + i])
       IN  IF offset + n = total
           THEN Posts(w, Data(s, bytes))
           ELSE AsksAgain(w, [job[w] EXCEPT !.assembled = bytes,
                                            !.failures = 0])
    /\ sizer' = Success(sizer, job[w].limit)

\* An error is a poller's last result.
PostDone(w) ==
    /\ wpc' = [wpc EXCEPT ![w] = IF post[w].kind = "err" THEN "done" ELSE "claim"]
    /\ post' = [post EXCEPT ![w] = Err]

\* Mutant of HasRoom: the channel has no bound.
HasRoomAlways == TRUE

HasRoom == Len(results) < ChannelCap

Post(w) ==
    /\ wpc[w] = "post" /\ HasRoom
    /\ results' = Append(results, post[w])
    /\ PostDone(w)
    /\ UNCHANGED <<claim, sizer, job, lane, resultsClosed, reader,
                   closer, server>>

\* Mutant of PostCancelled: the end of the stream is sent unconditionally.
PostCancelledButEnd(w) ==
    /\ wpc[w] = "post" /\ cancelled
    /\ post[w].kind # "eof"
    /\ PostDone(w)
    /\ UNCHANGED <<claim, sizer, job, lane, channel, reader, closer, server>>

\* ctx.Done() in the select of the send.
PostCancelled(w) ==
    /\ wpc[w] = "post" /\ cancelled
    /\ PostDone(w)
    /\ UNCHANGED <<claim, sizer, job, lane, channel, reader, closer, server>>

-----------------------------------------------------------------------------
(* Read                                                                    *)

BeginRead ==
    /\ rpc = "idle"
    /\ rpc' = "reading"
    /\ UNCHANGED <<pulling, channel, current, pending, nextRead, ack,
                   finalKnown, finalSeq, consumed, closer, server>>

\* Mutant of AtEnd: the end is known, so it is here.
AtEndOnceKnown == current = <<>> /\ finalKnown

AtEnd == current = <<>> /\ finalKnown /\ nextRead >= finalSeq

\* Mutant of AckAfter: a record is acknowledged as soon as it is opened.
AckAfterOpening(rest) == nextRead + 1

\* A record is acknowledged when its last byte has been returned.
AckAfter(rest) == IF rest = <<>> THEN nextRead + 1 ELSE ack

\* The record in hand, or else the next one in order.
ReadData ==
    /\ rpc = "reading" /\ ~AtEnd
    /\ current # <<>> \/ nextRead \in DOMAIN pending
    /\ LET bytes == IF current # <<>> THEN current ELSE pending[nextRead]
       IN  \E n \in 1 .. Len(bytes) :
               LET rest == SubSeq(bytes, n + 1, Len(bytes))
               IN  /\ consumed' = consumed \o SubSeq(bytes, 1, n)
                   /\ current' = rest
                   /\ nextRead' = nextRead + IF rest = <<>> THEN 1 ELSE 0
                   /\ ack' = AckAfter(rest)
    /\ pending' = IF current # <<>> THEN pending
                  ELSE [s \in DOMAIN pending \ {nextRead} |-> pending[s]]
    /\ rpc' = "idle"
    /\ UNCHANGED <<pulling, channel, finalKnown, finalSeq, closer, server>>

\* Nothing in hand: the next result is needed.
Starved ==
    /\ rpc = "reading" /\ current = <<>> /\ ~AtEnd
    /\ nextRead \notin DOMAIN pending

ReadReceives ==
    /\ Starved
    /\ results # <<>>
    /\ results' = Tail(results)
    /\ LET r == Head(results)
       IN  /\ rpc' = IF r.kind = "err" THEN "failed" ELSE rpc
           /\ finalKnown' = (finalKnown \/ r.kind = "eof")
           /\ finalSeq' = IF r.kind = "eof" /\ (~finalKnown \/ r.final < finalSeq)
                          THEN r.final ELSE finalSeq
           /\ pending' = IF r.kind = "data" /\ r.seq >= nextRead
                         THEN [s \in DOMAIN pending \cup {r.seq} |->
                                  IF s = r.seq THEN r.data ELSE pending[s]]
                         ELSE pending
    /\ UNCHANGED <<pulling, resultsClosed, current, nextRead, ack, consumed,
                   closer, server>>

\* The end of the stream; a closed channel reads as one too.
ReadEnds ==
    /\ rpc = "reading"
    /\ AtEnd \/ (Starved /\ results = <<>> /\ resultsClosed)
    /\ rpc' = "eof"
    /\ UNCHANGED <<pulling, channel, current, pending, nextRead, ack,
                   finalKnown, finalSeq, consumed, closer, server>>

-----------------------------------------------------------------------------
(* Close                                                                   *)

BeginClose ==
    /\ cpc = "open"
    /\ cancelled' = TRUE
    /\ cpc' = "session"
    /\ UNCHANGED <<pulling, channel, reader, server>>

\* CCLOSE on a lane of its own, tried five times; it may fail all the same, so
\* that a poller cannot count on an ERR from here on.
CloseSession ==
    /\ cpc = "session"
    /\ cpc' = "lanes"
    /\ UNCHANGED <<pulling, channel, reader, cancelled, server>>

\* The lanes are closed in turn; each Close waits for that lane's mutex.
CloseLane(w) ==
    /\ cpc = "lanes"
    /\ \A v \in Pollers : lane[v].closed <=> v < w
    /\ wpc[w] # "sent"
    /\ lane' = [lane EXCEPT ![w] = [open |-> FALSE, closed |-> TRUE]]
    /\ cpc' = IF w = PollerCount THEN "join" ELSE cpc
    /\ UNCHANGED <<claim, sizer, wpc, job, post, channel, reader, cancelled,
                   server>>

\* Mutant of AllStopped: the channel is closed without waiting.
AllStoppedAlways == TRUE

\* workers.Wait()
AllStopped == \A w \in Pollers : wpc[w] = "done"

EndClose ==
    /\ cpc = "join"
    /\ AllStopped
    /\ resultsClosed' = TRUE
    /\ cpc' = "done"
    /\ UNCHANGED <<pulling, results, reader, cancelled, server>>

-----------------------------------------------------------------------------
(* The server and the target                                               *)

Produced == IF ends = <<>> THEN 0 ELSE ends[Len(ends)]

TargetSends ==
    /\ ~ended
    /\ Len(ends) < Len(RecordLens)
    /\ ends' = Append(ends, Produced + RecordLens[Len(ends) + 1])
    /\ UNCHANGED <<pulling, channel, reader, closer, ended, forgotten>>

TargetEnds ==
    /\ ~ended
    /\ ended' = TRUE
    /\ UNCHANGED <<pulling, channel, reader, closer, ends, forgotten>>

-----------------------------------------------------------------------------
WorkerStep(w) ==
    \/ Claim(w) \/ StopsOnCancel(w) \/ Ask(w) \/ Send(w) \/ SendFails(w)
    \/ AnswerLost(w) \/ WaitAnswered(w) \/ EndAnswered(w) \/ ErrorAnswered(w)
    \/ DataAnswered(w)

PostStep(w) == Post(w) \/ PostCancelled(w)

ReadStep == ReadData \/ ReadReceives \/ ReadEnds

CloseStep == CloseSession \/ (\E w \in Pollers : CloseLane(w)) \/ EndClose

Next ==
    \/ \E w \in Pollers : WorkerStep(w) \/ PostStep(w)
    \/ BeginRead \/ ReadStep
    \/ BeginClose \/ CloseStep
    \/ TargetSends \/ TargetEnds

Spec == Init /\ [][Next]_vars

\* A poller runs on, since every wait inside Do is bounded by a deadline; one
\* blocked on the channel is served in turn while Read receives, as Go queues
\* the senders; a Read and a Close that have begun run on.
Fairness ==
    /\ \A w \in Pollers : WF_vars(WorkerStep(w)) /\ SF_vars(PostStep(w))
    /\ WF_vars(ReadStep)
    /\ WF_vars(CloseStep)

FairSpec == Spec /\ Fairness

-----------------------------------------------------------------------------
(* Safety                                                                  *)

\* Read reports the end of an open tunnel only when the target has finished
\* and every byte of it was returned, whichever poller saw the end first and
\* whatever records are still being fetched.
EOFOnlyAtEnd ==
    rpc = "eof" /\ cpc = "open" => ended /\ Len(consumed) = Produced

\* When Close has returned no poller is left that could send on the closed
\* channel or dial again, and no connection is open.
NothingLeftAfterClose ==
    resultsClosed => \A w \in Pollers : wpc[w] = "done" /\ ~lane[w].open

\* The pollers together are a byte pipe: Read returns the target's bytes in
\* order, once each, and the server forgets only what Read has returned.
Pipe == INSTANCE BytePipe WITH offered <- Produced,
                               delivered <- consumed,
                               released <- Start(forgotten)
PipeSpec == Pipe!Spec

-----------------------------------------------------------------------------
(* Liveness                                                                *)

\* A Read returns once the target has finished or the tunnel is being closed,
\* also when a poller has died or the channel is full; and a Close returns,
\* also with pollers blocked on the channel that nobody reads any more.
CallsReturn ==
    /\ (rpc = "reading" /\ (ended \/ cpc # "open")) ~> (rpc # "reading")
    /\ (cpc # "open") ~> (cpc = "done")
=============================================================================
