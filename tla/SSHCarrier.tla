----------------------------- MODULE SSHCarrier -----------------------------
(***************************************************************************)
(* sshCarrierConn (ssh_carrier.go): the send buffer between the SSH packet *)
(* layer and a tunnel.  Write copies into a bounded queue and returns; one *)
(* loop drains the queue into the tunnel in combined batches; Close lets   *)
(* the loop drain what is left.  They share one mutex and one condition    *)
(* variable, on which the loop waits for bytes and the writers for room.   *)
(*                                                                         *)
(* Byte n that enters the queue is named n.                                *)
(***************************************************************************)
EXTENDS Integers, Sequences

CONSTANTS
    Writers,       \* goroutines that write into the carrier
    FlushBytes,    \* flushBytes: the largest batch
    MaxBuffered,   \* maxBuffered: the queue's capacity
    StreamLen      \* bound: no Write starts that would go beyond it

ASSUME CarrierAssumption ==
    /\ "loop" \notin Writers
    /\ FlushBytes \in Nat \ {0}
    /\ MaxBuffered \in Nat
    /\ MaxBuffered >= 2 * FlushBytes
    /\ StreamLen \in Nat

VARIABLES
    \* under the mutex
    buf, closing, writeErr,
    asleep,      \* who waits on the condition variable
    \* writeLoop
    lpc,         \* where it is
    batch,       \* the part of its batch the tunnel has not taken
    \* Write
    wpc,         \* wpc[w]: where writer w is
    left,        \* left[w]: bytes of its Write that are not in the queue yet
    \* Close
    cpc,
    \* the tunnel
    sent,        \* the bytes it took
    rawClosed,
    accepted     \* history: how many bytes entered the queue

carrierVars == <<buf, closing, writeErr, asleep, lpc, batch, wpc, left, cpc,
                 sent, rawClosed, accepted>>

-----------------------------------------------------------------------------
Least(a, b) == IF a < b THEN a ELSE b

Threads == Writers \cup {"loop"}

CarrierTypeOK ==
    /\ buf \in Seq(Nat) /\ Len(buf) <= MaxBuffered
    /\ closing \in BOOLEAN /\ writeErr \in BOOLEAN
    /\ asleep \subseteq Threads
    /\ lpc \in {"check", "take", "raw", "failed", "exit", "closed", "done"}
    /\ batch \in Seq(Nat) /\ Len(batch) <= FlushBytes
    /\ wpc \in [Writers -> {"idle", "check", "failed"}]
    /\ left \in [Writers -> Nat]
    /\ cpc \in {"open", "waiting", "done"}
    /\ sent \in Seq(Nat)
    /\ rawClosed \in BOOLEAN
    /\ accepted \in Nat

CarrierInit ==
    /\ buf = <<>> /\ closing = FALSE /\ writeErr = FALSE
    /\ asleep = {}
    /\ lpc = "check" /\ batch = <<>>
    /\ wpc = [w \in Writers |-> "idle"]
    /\ left = [w \in Writers |-> 0]
    /\ cpc = "open"
    /\ sent = <<>> /\ rawClosed = FALSE /\ accepted = 0

Broadcast == asleep' = {}

\* One waiter, whichever, wakes up.
Signal ==
    IF asleep = {} THEN UNCHANGED asleep
    ELSE \E t \in asleep : asleep' = asleep \ {t}

-----------------------------------------------------------------------------
(* writeLoop                                                               *)

LoopAt(where) == lpc = where /\ "loop" \notin asleep

LoopWaits ==
    /\ LoopAt("check")
    /\ buf = <<>> /\ ~closing /\ ~writeErr
    /\ asleep' = asleep \cup {"loop"}
    /\ UNCHANGED <<buf, closing, writeErr, lpc, batch, wpc, left, cpc, sent,
                   rawClosed, accepted>>

\* Mutant of LoopLeaves: a closing carrier is left without draining it.
LoopLeavesUndrained ==
    /\ LoopAt("check")
    /\ writeErr \/ closing
    /\ lpc' = "exit"
    /\ UNCHANGED <<buf, closing, writeErr, asleep, batch, wpc, left, cpc,
                   sent, rawClosed, accepted>>

LoopLeaves ==
    /\ LoopAt("check")
    /\ writeErr \/ (buf = <<>> /\ closing)
    /\ lpc' = "exit"
    /\ UNCHANGED <<buf, closing, writeErr, asleep, batch, wpc, left, cpc,
                   sent, rawClosed, accepted>>

\* There is something to send; the mutex is free while more may accumulate.
\* (The loop looks at writeErr again when it takes a batch, but only the loop
\* itself sets it, on its way out.)
LoopDelays ==
    /\ LoopAt("check")
    /\ buf # <<>> /\ ~writeErr
    /\ lpc' = "take"
    /\ UNCHANGED <<buf, closing, writeErr, asleep, batch, wpc, left, cpc,
                   sent, rawClosed, accepted>>

\* Mutant of BatchLen: a batch is the whole queue.
BatchOfAll == Len(buf)

BatchLen == Least(Len(buf), FlushBytes)

\* Mutant of LoopTakes: only one waiter is woken.
LoopTakesAndSignals ==
    /\ lpc = "take" /\ ~writeErr
    /\ batch' = SubSeq(buf, 1, BatchLen)
    /\ buf' = SubSeq(buf, BatchLen + 1, Len(buf))
    /\ Signal
    /\ lpc' = "raw"
    /\ UNCHANGED <<closing, writeErr, wpc, left, cpc, sent, rawClosed,
                   accepted>>

LoopTakes ==
    /\ lpc = "take" /\ ~writeErr
    /\ batch' = SubSeq(buf, 1, BatchLen)
    /\ buf' = SubSeq(buf, BatchLen + 1, Len(buf))
    /\ Broadcast
    /\ lpc' = "raw"
    /\ UNCHANGED <<closing, writeErr, wpc, left, cpc, sent, rawClosed,
                   accepted>>

\* Mutant of RawTakes: after a short write the whole batch is written again.
RawTakesFromStart(n) ==
    /\ sent' = sent \o SubSeq(batch, 1, n)
    /\ UNCHANGED batch

\* writeCarrierFull: the tunnel takes some of the batch, perhaps not all.
RawTakes(n) ==
    /\ sent' = sent \o SubSeq(batch, 1, n)
    /\ batch' = SubSeq(batch, n + 1, Len(batch))

RawWrites ==
    /\ lpc = "raw"
    /\ \E n \in 1 .. Len(batch) :
           /\ RawTakes(n)
           /\ lpc' = IF n = Len(batch) THEN "check" ELSE "raw"
    /\ UNCHANGED <<buf, closing, writeErr, asleep, wpc, left, cpc, rawClosed,
                   accepted>>

\* The tunnel fails, after it took any part of the batch.
RawFails ==
    /\ lpc = "raw"
    /\ \E n \in 0 .. Len(batch) : RawTakes(n)
    /\ lpc' = "failed"
    /\ UNCHANGED <<buf, closing, writeErr, asleep, wpc, left, cpc, rawClosed,
                   accepted>>

\* Mutant of LoopFails: the waiters are not told.
LoopFailsSilently ==
    /\ lpc = "failed"
    /\ writeErr' = TRUE
    /\ closing' = TRUE
    /\ lpc' = "exit"
    /\ UNCHANGED <<buf, asleep, batch, wpc, left, cpc, sent, rawClosed,
                   accepted>>

LoopFails ==
    /\ lpc = "failed"
    /\ writeErr' = TRUE
    /\ closing' = TRUE
    /\ Broadcast
    /\ lpc' = "exit"
    /\ UNCHANGED <<buf, batch, wpc, left, cpc, sent, rawClosed, accepted>>

\* The deferred calls: raw.Close(), then close(done).
LoopClosesRaw ==
    /\ lpc = "exit"
    /\ rawClosed' = TRUE
    /\ lpc' = "closed"
    /\ UNCHANGED <<buf, closing, writeErr, asleep, batch, wpc, left, cpc,
                   sent, accepted>>

LoopEnds ==
    /\ lpc = "closed"
    /\ lpc' = "done"
    /\ UNCHANGED <<buf, closing, writeErr, asleep, batch, wpc, left, cpc,
                   sent, rawClosed, accepted>>

-----------------------------------------------------------------------------
(* Write                                                                   *)

BeginWrite(w) ==
    /\ wpc[w] = "idle"
    /\ \E len \in 1 .. StreamLen - accepted : left' = [left EXCEPT ![w] = len]
    /\ wpc' = [wpc EXCEPT ![w] = "check"]
    /\ UNCHANGED <<buf, closing, writeErr, asleep, lpc, batch, cpc, sent,
                   rawClosed, accepted>>

WriterAtCheck(w) == wpc[w] = "check" /\ w \notin asleep

WriteWaits(w) ==
    /\ WriterAtCheck(w)
    /\ Len(buf) >= MaxBuffered /\ ~closing /\ ~writeErr
    /\ asleep' = asleep \cup {w}
    /\ UNCHANGED <<buf, closing, writeErr, lpc, batch, wpc, left, cpc, sent,
                   rawClosed, accepted>>

WriteFails(w) ==
    /\ WriterAtCheck(w)
    /\ writeErr \/ closing
    /\ wpc' = [wpc EXCEPT ![w] = "failed"]
    /\ UNCHANGED <<buf, closing, writeErr, asleep, lpc, batch, left, cpc, sent,
                   rawClosed, accepted>>

\* What fits is copied; a Write that is larger takes the mutex again.
WriteAppends(w) ==
    /\ WriterAtCheck(w)
    /\ Len(buf) < MaxBuffered /\ ~closing /\ ~writeErr
    /\ LET take == Least(left[w], MaxBuffered - Len(buf))
       IN  /\ buf' = buf \o [i \in 1 .. take |-> accepted + i]
           /\ accepted' = accepted + take
           /\ left' = [left EXCEPT ![w] = @ - take]
           /\ wpc' = [wpc EXCEPT ![w] =
                          IF take = left[w] THEN "idle" ELSE "check"]
    /\ Signal
    /\ UNCHANGED <<closing, writeErr, lpc, batch, cpc, sent, rawClosed>>

-----------------------------------------------------------------------------
(* Close                                                                   *)

CloseBegins ==
    /\ cpc = "open"
    /\ closing' = TRUE
    /\ Broadcast
    /\ cpc' = "waiting"
    /\ UNCHANGED <<buf, writeErr, lpc, batch, wpc, left, sent, rawClosed,
                   accepted>>

\* <-c.done
CloseEnds ==
    /\ cpc = "waiting"
    /\ lpc = "done"
    /\ cpc' = "done"
    /\ UNCHANGED <<buf, closing, writeErr, asleep, lpc, batch, wpc, left, sent,
                   rawClosed, accepted>>

-----------------------------------------------------------------------------
LoopStep ==
    \/ LoopWaits \/ LoopLeaves \/ LoopDelays \/ LoopTakes
    \/ RawWrites \/ RawFails \/ LoopFails \/ LoopClosesRaw \/ LoopEnds

WriteStep(w) == WriteWaits(w) \/ WriteFails(w) \/ WriteAppends(w)

CarrierNext ==
    \/ LoopStep
    \/ \E w \in Writers : BeginWrite(w) \/ WriteStep(w)
    \/ CloseBegins \/ CloseEnds

CarrierSpec == CarrierInit /\ [][CarrierNext]_carrierVars

\* Every call that has begun runs on: the mutex is only held for moments, and
\* a Write or Close of the tunnel underneath returns (ChunkUpload).
CarrierFairness ==
    /\ WF_carrierVars(LoopStep)
    /\ \A w \in Writers : WF_carrierVars(WriteStep(w))
    /\ WF_carrierVars(CloseEnds)

CarrierFairSpec == CarrierSpec /\ CarrierFairness

-----------------------------------------------------------------------------
(* Safety                                                                  *)

\* Nobody sleeps on a condition that has come true: the loop sleeps only on an
\* empty queue, a writer only on a full one, and nobody once the carrier is
\* closing or the tunnel has failed.  So the loop and a writer never sleep at
\* the same time, which is why the Signal after an append, on the condition
\* variable they share, cannot wake the wrong one.
NoMissedWakeup ==
    /\ asleep # {} => ~closing /\ ~writeErr
    /\ "loop" \in asleep => buf = <<>>
    /\ asleep \cap Writers # {} => Len(buf) = MaxBuffered

\* A Close that reports no error has delivered every byte a Write put in the
\* queue, and has closed the tunnel after the last of them.
DrainedOnClose ==
    cpc = "done" => /\ rawClosed
                    /\ writeErr \/ Len(sent) = accepted

\* The carrier is a byte pipe: what the tunnel gets is what was written, in
\* order, whatever batches it was combined into and wherever the tunnel fails.
\* Nothing is ever acknowledged to the writer.
Pipe == INSTANCE BytePipe WITH offered <- accepted,
                               delivered <- sent,
                               released <- 0
PipeSpec == Pipe!Spec

-----------------------------------------------------------------------------
(* Liveness                                                                *)

\* A Write returns, also when the tunnel fails or the carrier is closed while
\* it waits for room; and a Close returns once the queue is drained or lost.
CarrierCallsReturn ==
    /\ \A w \in Writers : (wpc[w] = "check") ~> (wpc[w] # "check")
    /\ (cpc = "waiting") ~> (cpc = "done")
=============================================================================
