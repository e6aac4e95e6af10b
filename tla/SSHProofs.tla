----------------------------- MODULE SSHProofs -----------------------------
(***************************************************************************)
(* The two concurrent parts of the SSH route.  The carrier, for every set  *)
(* of writers, batch size and queue capacity: no wake-up is lost, a clean  *)
(* Close has drained the queue, and the tunnel gets the written bytes in   *)
(* order. The manager and the fronts that share its client, for any number *)
(* of sessions, clients and host keys and every limit: no SSH client is    *)
(* lost or outlives Close, none that works is closed by anyone else, and   *)
(* the slots taken are those of the sessions under way.                    *)
(***************************************************************************)
EXTENDS ProxyFronts, SSHCarrier, TunnelLemmas, FiniteSetTheorems

-----------------------------------------------------------------------------
(* The carrier: its inductive invariant                                    *)

\* What the tunnel took, the rest of the batch and the queue are adjacent
\* segments of the stream.
Data ==
    /\ Segment(sent, 0)
    /\ Segment(batch, Len(sent))
    /\ Segment(buf, Len(sent) + Len(batch))
    /\ accepted = Len(sent) + Len(batch) + Len(buf)

\* Where the threads can be: the loop sleeps only at its check and holds a
\* batch only while it writes; it leaves after a failure, or closing and
\* drained.
Control ==
    /\ "loop" \in asleep => lpc = "check"
    /\ lpc \in {"check", "take"} => batch = <<>>
    /\ writeErr => lpc \in {"exit", "closed", "done"}
    /\ lpc \in {"exit", "closed", "done"} =>
           /\ closing
           /\ writeErr \/ (buf = <<>> /\ batch = <<>>)
    /\ lpc \in {"closed", "done"} => rawClosed
    /\ cpc = "done" => lpc = "done"
    /\ \A w \in Writers : wpc[w] = "check" => left[w] > 0

CarrierIInv == CarrierTypeOK /\ Data /\ Control /\ NoMissedWakeup

-----------------------------------------------------------------------------
\* Sequence lengths of a state that satisfies the invariant.
LEMMA Lengths ==
    ASSUME CarrierTypeOK
    PROVE  /\ Len(buf) \in Nat /\ Len(batch) \in Nat /\ Len(sent) \in Nat
           /\ accepted \in Nat
BY LenProperties DEF CarrierTypeOK

LEMMA InitCarrierIInv == CarrierInit => CarrierIInv
<1> SUFFICES ASSUME CarrierInit PROVE CarrierIInv
  OBVIOUS
<1>1. CarrierTypeOK
  <2>1. <<>> \in Seq(Nat) /\ Len(<<>>) = 0
    OBVIOUS
  <2>2. 0 <= MaxBuffered /\ 0 <= FlushBytes
    BY CarrierAssumption
  <2>3. /\ [w \in Writers |-> "idle"] \in [Writers -> {"idle", "check", "failed"}]
        /\ [w \in Writers |-> 0] \in [Writers -> Nat]
    OBVIOUS
  <2> QED
    BY <2>1, <2>2, <2>3 DEF CarrierInit, CarrierTypeOK
<1>2. Data
  <2>1. Segment(<<>>, 0) /\ Len(<<>>) = 0
    BY EmptySegment
  <2> QED
    BY <2>1 DEF CarrierInit, Data
<1>3. Control
  BY DEF CarrierInit, Control
<1>4. NoMissedWakeup
  BY DEF CarrierInit, NoMissedWakeup
<1> QED
  BY <1>1, <1>2, <1>3, <1>4 DEF CarrierIInv

-----------------------------------------------------------------------------
(* The loop                                                                *)

\* The loop takes a batch off the front of the queue and wakes every writer.
LEMMA TakePreserves == CarrierIInv /\ LoopTakes => CarrierIInv'
<1> SUFFICES ASSUME CarrierIInv, LoopTakes PROVE CarrierIInv'
  OBVIOUS
<1>1. /\ Len(buf) \in Nat /\ Len(sent) \in Nat /\ accepted \in Nat
      /\ batch = <<>> /\ Len(batch) = 0
      /\ FlushBytes \in Nat /\ MaxBuffered \in Nat
  BY Lengths, EmptySegment, CarrierAssumption
     DEF CarrierIInv, LoopTakes, Control
<1>2. /\ BatchLen \in 0 .. Len(buf) /\ BatchLen <= FlushBytes
      /\ Len(buf) <= MaxBuffered
  BY <1>1 DEF BatchLen, Least, CarrierIInv, CarrierTypeOK
<1>3. Segment(buf, Len(sent)) /\ accepted = Len(sent) + Len(buf)
  BY <1>1 DEF CarrierIInv, Data
<1>4. /\ Segment(batch', Len(sent)) /\ Len(batch') = BatchLen
      /\ Segment(buf', Len(sent) + BatchLen) /\ Len(buf') = Len(buf) - BatchLen
  BY <1>1, <1>2, <1>3, SegmentCut DEF LoopTakes
<1>5. sent' = sent /\ accepted' = accepted /\ asleep' = {} /\ lpc' = "raw"
  BY DEF LoopTakes, Broadcast
<1>6. CarrierTypeOK'
  <2>1. Len(buf') <= MaxBuffered /\ Len(batch') <= FlushBytes
    BY <1>1, <1>2, <1>4
  <2> QED
    BY <1>4, <1>5, <2>1 DEF CarrierIInv, CarrierTypeOK, LoopTakes, Segment
<1>7. Data'
  <2>1. Len(sent) + BatchLen + (Len(buf) - BatchLen) = Len(sent) + Len(buf)
    BY <1>1, <1>2
  <2>2. accepted' = Len(sent') + Len(batch') + Len(buf')
    BY <1>3, <1>4, <1>5, <2>1
  <2> QED
    BY <1>4, <1>5, <2>2 DEF CarrierIInv, Data
<1>8. Control'
  BY <1>5 DEF CarrierIInv, Control, LoopTakes
<1>9. NoMissedWakeup'
  BY <1>5 DEF NoMissedWakeup
<1> QED
  BY <1>6, <1>7, <1>8, <1>9 DEF CarrierIInv

\* What the tunnel takes moves from the batch to the stream.
LEMMA RawTakesMoves ==
    ASSUME CarrierIInv, NEW n \in 0 .. Len(batch), RawTakes(n)
    PROVE  /\ Segment(sent', 0) /\ Len(sent') = Len(sent) + n
           /\ Segment(batch', Len(sent')) /\ Len(batch') = Len(batch) - n
           /\ Len(sent') + Len(batch') = Len(sent) + Len(batch)
<1>1. Len(batch) \in Nat /\ Len(sent) \in Nat /\ n \in Nat
  BY Lengths DEF CarrierIInv
<1>2. Segment(sent, 0) /\ Segment(batch, Len(sent)) /\ 0 + Len(sent) = Len(sent)
  BY <1>1 DEF CarrierIInv, Data
<1>3. /\ Segment(SubSeq(batch, 1, n), Len(sent))
      /\ Len(SubSeq(batch, 1, n)) = n
      /\ Segment(batch', Len(sent) + n)
      /\ Len(batch') = Len(batch) - n
  BY <1>1, <1>2, SegmentCut DEF RawTakes
<1>4. Segment(sent', 0) /\ Len(sent') = Len(sent) + n
  BY <1>1, <1>2, <1>3, SegmentJoin DEF RawTakes
<1>5. Len(sent) + n + (Len(batch) - n) = Len(sent) + Len(batch)
  BY <1>1
<1> QED
  BY <1>3, <1>4, <1>5

\* A write of the tunnel, whole, short or failing, preserves the invariant.
LEMMA RawPreserves == CarrierIInv /\ (RawWrites \/ RawFails) => CarrierIInv'
<1> SUFFICES ASSUME CarrierIInv, RawWrites \/ RawFails PROVE CarrierIInv'
  OBVIOUS
<1>1. PICK n \in 0 .. Len(batch) :
          /\ RawTakes(n)
          /\ lpc' \in {"check", "raw", "failed"}
          /\ lpc' = "check" => n = Len(batch)
  <2>1. \A n \in 1 .. Len(batch) : n \in 0 .. Len(batch)
    BY Lengths DEF CarrierIInv
  <2> QED
    BY <2>1 DEF RawWrites, RawFails
<1>2. /\ lpc = "raw"
      /\ UNCHANGED <<buf, closing, writeErr, asleep, wpc, left, cpc, rawClosed,
                     accepted>>
  BY DEF RawWrites, RawFails
<1>3. /\ Segment(sent', 0) /\ Segment(batch', Len(sent'))
      /\ Len(batch') = Len(batch) - n
      /\ Len(sent') + Len(batch') = Len(sent) + Len(batch)
  BY <1>1, RawTakesMoves
<1>4. Len(batch) \in Nat /\ n \in Nat /\ Len(batch) <= FlushBytes
  BY Lengths DEF CarrierIInv, CarrierTypeOK
<1>5. CarrierTypeOK'
  <2>1. Len(batch') <= FlushBytes
    BY <1>3, <1>4, CarrierAssumption
  <2> QED
    BY <1>1, <1>2, <1>3, <2>1 DEF CarrierIInv, CarrierTypeOK, Segment
<1>6. Data'
  BY <1>2, <1>3 DEF CarrierIInv, Data
<1>7. Control'
  <2>1. lpc' = "check" => batch' = <<>>
    <3> SUFFICES ASSUME lpc' = "check" PROVE batch' = <<>>
      OBVIOUS
    <3>1. Len(batch') = 0 /\ batch' \in Seq(Nat)
      BY <1>1, <1>3, <1>4 DEF Segment
    <3> QED
      BY <3>1, EmptySeq
  <2> QED
    BY <1>1, <1>2, <2>1 DEF CarrierIInv, Control
<1>8. NoMissedWakeup'
  BY <1>2 DEF CarrierIInv, NoMissedWakeup
<1> QED
  BY <1>5, <1>6, <1>7, <1>8 DEF CarrierIInv

\* The steps of the loop that leave the bytes alone.
LEMMA LoopControlPreserves ==
    CarrierIInv /\ (LoopWaits \/ LoopLeaves \/ LoopDelays \/ LoopFails
                    \/ LoopClosesRaw \/ LoopEnds) => CarrierIInv'
<1> SUFFICES ASSUME CarrierIInv,
                    \/ LoopWaits \/ LoopLeaves \/ LoopDelays
                    \/ LoopFails \/ LoopClosesRaw \/ LoopEnds
             PROVE  CarrierIInv'
  OBVIOUS
<1>1. UNCHANGED <<buf, batch, sent, accepted, wpc, left, cpc>>
  BY DEF LoopWaits, LoopLeaves, LoopDelays, LoopFails, LoopClosesRaw, LoopEnds
<1>2. CarrierTypeOK'
  BY <1>1 DEF CarrierIInv, CarrierTypeOK, Threads, LoopWaits, LoopLeaves,
              LoopDelays,
     LoopFails, LoopClosesRaw, LoopEnds, Broadcast
<1>3. Data'
  BY <1>1 DEF CarrierIInv, Data
<1>4. Control' /\ NoMissedWakeup'
  <2>1. CASE LoopWaits
    BY <1>1, <2>1, CarrierAssumption
       DEF CarrierIInv, Control, NoMissedWakeup, LoopWaits, LoopAt
  <2>2. CASE LoopLeaves
    BY <1>1, <2>2 DEF CarrierIInv, Control, NoMissedWakeup, LoopLeaves, LoopAt
  <2>3. CASE LoopDelays
    BY <1>1, <2>3 DEF CarrierIInv, Control, NoMissedWakeup, LoopDelays, LoopAt
  <2>4. CASE LoopFails
    BY <1>1, <2>4
       DEF CarrierIInv, Control, NoMissedWakeup, LoopFails, Broadcast
  <2>5. CASE LoopClosesRaw
    BY <1>1, <2>5 DEF CarrierIInv, Control, NoMissedWakeup, LoopClosesRaw
  <2>6. CASE LoopEnds
    BY <1>1, <2>6 DEF CarrierIInv, Control, NoMissedWakeup, LoopEnds
  <2> QED
    BY <2>1, <2>2, <2>3, <2>4, <2>5, <2>6
<1> QED
  BY <1>2, <1>3, <1>4 DEF CarrierIInv

-----------------------------------------------------------------------------
(* The writers and Close                                                   *)

\* An append extends the queue; a waiter can only be the loop, which wakes.
LEMMA AppendPreserves ==
    ASSUME CarrierIInv, NEW w \in Writers, WriteAppends(w)
    PROVE  CarrierIInv' /\ accepted' > accepted /\ sent' = sent
<1> DEFINE take == Least(left[w], MaxBuffered - Len(buf))
<1> DEFINE fresh == [i \in 1 .. take |-> accepted + i]
<1>1. /\ Len(buf) \in Nat /\ Len(sent) \in Nat /\ Len(batch) \in Nat
      /\ accepted \in Nat /\ MaxBuffered \in Nat
      /\ left[w] \in Nat /\ left[w] > 0 /\ Len(buf) < MaxBuffered
  BY Lengths, CarrierAssumption
     DEF CarrierIInv, CarrierTypeOK, Control, WriteAppends, WriterAtCheck
<1>2. take \in Nat /\ take > 0 /\ take <= left[w]
      /\ take <= MaxBuffered - Len(buf)
  BY <1>1 DEF Least
<1>3. /\ buf' = buf \o fresh /\ accepted' = accepted + take
      /\ left' = [left EXCEPT ![w] = left[w] - take]
      /\ wpc' = [wpc EXCEPT ![w] = IF take = left[w] THEN "idle" ELSE "check"]
      /\ ~closing /\ ~writeErr
      /\ UNCHANGED <<closing, writeErr, lpc, batch, cpc, sent, rawClosed>>
  BY DEF WriteAppends
<1> HIDE DEF take
<1>4. Segment(fresh, accepted) /\ Len(fresh) = take
  BY <1>1, <1>2, SegmentFresh
<1> HIDE DEF fresh
<1>5. /\ Segment(buf', Len(sent) + Len(batch))
      /\ Len(buf') = Len(buf) + take
  <2>1. /\ Segment(buf, Len(sent) + Len(batch))
        /\ accepted = (Len(sent) + Len(batch)) + Len(buf)
        /\ Len(sent) + Len(batch) \in Nat
    BY <1>1 DEF CarrierIInv, Data
  <2> QED
    BY <1>3, <1>4, <2>1, SegmentJoin
<1>6. asleep' \subseteq asleep /\ asleep' = {}
  <2>1. asleep \subseteq {"loop"}
    BY <1>1 DEF CarrierIInv, CarrierTypeOK, NoMissedWakeup, Threads
  <2> QED
    BY <2>1 DEF WriteAppends, Signal
<1>7. CarrierTypeOK'
  <2>1. Len(buf') <= MaxBuffered /\ accepted' \in Nat
    BY <1>1, <1>2, <1>3, <1>5
  <2>2. left' \in [Writers -> Nat]
    <3>1. left[w] - take \in Nat
      BY <1>1, <1>2
    <3> QED
      BY <1>3, <3>1 DEF CarrierIInv, CarrierTypeOK
  <2>3. wpc' \in [Writers -> {"idle", "check", "failed"}]
    BY <1>3 DEF CarrierIInv, CarrierTypeOK
  <2> QED
    BY <1>3, <1>5, <1>6, <2>1, <2>2, <2>3
       DEF CarrierIInv, CarrierTypeOK, Segment
<1>8. Data'
  <2>1. accepted + take = Len(sent) + Len(batch) + (Len(buf) + take)
    BY <1>1, <1>2 DEF CarrierIInv, Data
  <2> QED
    BY <1>3, <1>5, <2>1 DEF CarrierIInv, Data
<1>9. Control'
  <2>1. \A v \in Writers : wpc'[v] = "check" => left'[v] > 0
    <3> SUFFICES ASSUME NEW v \in Writers, wpc'[v] = "check"
                 PROVE  left'[v] > 0
      OBVIOUS
    <3>1. CASE v = w
      <4>1. take # left[w] /\ left'[w] = left[w] - take
        BY <1>3, <3>1 DEF CarrierIInv, CarrierTypeOK
      <4> QED
        BY <1>1, <1>2, <3>1, <4>1
    <3>2. CASE v # w
      BY <1>3, <3>2 DEF CarrierIInv, CarrierTypeOK, Control
    <3> QED
      BY <3>1, <3>2
  <2>2. lpc \notin {"exit", "closed", "done"}
    BY <1>3 DEF CarrierIInv, Control
  <2> QED
    BY <1>3, <1>6, <2>1, <2>2 DEF CarrierIInv, Control
<1>10. NoMissedWakeup'
  BY <1>6 DEF NoMissedWakeup
<1> QED
  BY <1>1, <1>2, <1>3, <1>7, <1>8, <1>9, <1>10 DEF CarrierIInv

\* The other steps of a writer, and Close.
LEMMA CallPreserves ==
    ASSUME CarrierIInv,
           \/ CloseBegins \/ CloseEnds
           \/ \E w \in Writers : BeginWrite(w) \/ WriteWaits(w) \/ WriteFails(w)
    PROVE  CarrierIInv'
<1>1. UNCHANGED <<buf, batch, sent, accepted, writeErr, lpc, rawClosed>>
  BY DEF CloseBegins, CloseEnds, BeginWrite, WriteWaits, WriteFails
<1>2. Data'
  BY <1>1 DEF CarrierIInv, Data
<1>3. CASE CloseBegins \/ CloseEnds
  <2>1. CarrierTypeOK'
    BY <1>1, <1>3
       DEF CarrierIInv, CarrierTypeOK, CloseBegins, CloseEnds, Broadcast
  <2>2. Control' /\ NoMissedWakeup'
    BY <1>1, <1>3
       DEF CarrierIInv, Control, NoMissedWakeup, CloseBegins, CloseEnds,
           Broadcast
  <2> QED
    BY <1>2, <2>1, <2>2 DEF CarrierIInv
<1>4. ASSUME NEW w \in Writers, BeginWrite(w)
      PROVE  CarrierIInv'
  <2>1. PICK len \in 1 .. StreamLen - accepted :
            left' = [left EXCEPT ![w] = len]
    BY <1>4 DEF BeginWrite
  <2>2. len \in Nat /\ len > 0
    BY CarrierAssumption DEF CarrierIInv, CarrierTypeOK
  <2>3. CarrierTypeOK'
    BY <1>1, <1>4, <2>1, <2>2 DEF CarrierIInv, CarrierTypeOK, BeginWrite
  <2>4. \A v \in Writers : wpc'[v] = "check" => left'[v] > 0
    BY <1>4, <2>1, <2>2 DEF CarrierIInv, CarrierTypeOK, Control, BeginWrite
  <2>5. Control' /\ NoMissedWakeup'
    BY <1>1, <1>4, <2>4 DEF CarrierIInv, Control, NoMissedWakeup, BeginWrite
  <2> QED
    BY <1>2, <2>3, <2>5 DEF CarrierIInv
<1>5. ASSUME NEW w \in Writers, WriteWaits(w)
      PROVE  CarrierIInv'
  <2>1. Len(buf) = MaxBuffered
    BY <1>5, Lengths, CarrierAssumption
       DEF CarrierIInv, CarrierTypeOK, WriteWaits
  <2>2. w # "loop"
    BY CarrierAssumption
  <2>3. CarrierTypeOK'
    BY <1>1, <1>5 DEF CarrierIInv, CarrierTypeOK, Threads, WriteWaits
  <2>4. Control' /\ NoMissedWakeup'
    BY <1>1, <1>5, <2>1, <2>2
       DEF CarrierIInv, Control, NoMissedWakeup, WriteWaits
  <2> QED
    BY <1>2, <2>3, <2>4 DEF CarrierIInv
<1>6. ASSUME NEW w \in Writers, WriteFails(w)
      PROVE  CarrierIInv'
  <2>1. CarrierTypeOK'
    BY <1>1, <1>6 DEF CarrierIInv, CarrierTypeOK, WriteFails
  <2>2. \A v \in Writers : wpc'[v] = "check" => left'[v] > 0
    BY <1>6 DEF CarrierIInv, CarrierTypeOK, Control, WriteFails
  <2>3. Control' /\ NoMissedWakeup'
    BY <1>1, <1>6, <2>2 DEF CarrierIInv, Control, NoMissedWakeup, WriteFails
  <2> QED
    BY <1>2, <2>1, <2>3 DEF CarrierIInv
<1> QED
  BY <1>3, <1>4, <1>5, <1>6

-----------------------------------------------------------------------------
LEMMA NextCarrierIInv ==
    CarrierIInv /\ [CarrierNext]_carrierVars => CarrierIInv'
<1> SUFFICES ASSUME CarrierIInv, [CarrierNext]_carrierVars PROVE CarrierIInv'
  OBVIOUS
<1>1. CASE LoopTakes
  BY <1>1, TakePreserves
<1>2. CASE RawWrites \/ RawFails
  BY <1>2, RawPreserves
<1>3. CASE LoopWaits \/ LoopLeaves \/ LoopDelays \/ LoopFails
           \/ LoopClosesRaw \/ LoopEnds
  BY <1>3, LoopControlPreserves
<1>4. CASE \E w \in Writers : WriteAppends(w)
  BY <1>4, AppendPreserves
<1>5. CASE \/ CloseBegins \/ CloseEnds
           \/ \E w \in Writers : BeginWrite(w) \/ WriteWaits(w) \/ WriteFails(w)
  BY <1>5, CallPreserves
<1>6. CASE UNCHANGED carrierVars
  BY <1>6 DEF carrierVars, CarrierIInv, CarrierTypeOK, Data, Control,
              NoMissedWakeup
<1> QED
  BY <1>1, <1>2, <1>3, <1>4, <1>5, <1>6 DEF CarrierNext, LoopStep, WriteStep

\* The invariant holds in every reachable state.
THEOREM CarrierInvariance == CarrierSpec => []CarrierIInv
<1>1. CarrierInit => CarrierIInv
  BY InitCarrierIInv
<1>2. CarrierIInv /\ [CarrierNext]_carrierVars => CarrierIInv'
  BY NextCarrierIInv
<1> QED
  BY <1>1, <1>2, PTL DEF CarrierSpec

\* Type correctness: in particular the queue never exceeds its capacity nor a
\* batch the flush size.
THEOREM CarrierTypeCorrect == CarrierSpec => []CarrierTypeOK
<1>1. CarrierIInv => CarrierTypeOK
  BY DEF CarrierIInv
<1> QED
  BY <1>1, CarrierInvariance, PTL

\* No wake-up is lost on the shared condition variable, for any number of
\* writers.
THEOREM WakeupsAreSafe == CarrierSpec => []NoMissedWakeup
<1>1. CarrierIInv => NoMissedWakeup
  BY DEF CarrierIInv
<1> QED
  BY <1>1, CarrierInvariance, PTL

\* A Close without an error has delivered everything that was written.
THEOREM CloseDrains == CarrierSpec => []DrainedOnClose
<1>1. CarrierIInv => DrainedOnClose
  <2> SUFFICES ASSUME CarrierIInv, cpc = "done", ~writeErr
               PROVE  rawClosed /\ Len(sent) = accepted
    BY DEF DrainedOnClose, CarrierIInv, Control
  <2>1. lpc = "done" /\ rawClosed /\ buf = <<>> /\ batch = <<>>
    BY DEF CarrierIInv, Control
  <2>2. Len(buf) = 0 /\ Len(batch) = 0
    BY <2>1, EmptySegment
  <2> QED
    BY <2>1, <2>2, Lengths DEF CarrierIInv, Data
<1> QED
  BY <1>1, CarrierInvariance, PTL

-----------------------------------------------------------------------------
(* Refinement                                                              *)

\* A segment from the start of the stream is a prefix of it.
LEMMA SegmentIsPrefix ==
    ASSUME NEW s, Segment(s, 0)
    PROVE  s = Pipe!Prefix(Len(s)) /\ Len(s) \in Nat
<1>1. Len(s) \in Nat /\ s = [i \in 1 .. Len(s) |-> 0 + i]
  BY SegmentShape
<1>2. \A i \in 1 .. Len(s) : 0 + i = i
  BY <1>1
<1>3. [i \in 1 .. Len(s) |-> 0 + i] = [i \in 1 .. Len(s) |-> i]
  BY <1>2
<1> QED
  BY <1>1, <1>3 DEF Pipe!Prefix

\* An append offers bytes, a write of the tunnel delivers them, and nothing
\* else is visible.
LEMMA CarrierStepRefines ==
    CarrierIInv /\ CarrierIInv' /\ [CarrierNext]_carrierVars =>
        [Pipe!Next]_(Pipe!pipe)
<1> SUFFICES ASSUME CarrierIInv, CarrierIInv', [CarrierNext]_carrierVars
             PROVE  [Pipe!Next]_(Pipe!pipe)
  OBVIOUS
<1>1. CASE \E w \in Writers : WriteAppends(w)
  <2>1. accepted' > accepted /\ sent' = sent /\ accepted' \in Nat
    BY <1>1, AppendPreserves DEF CarrierIInv, CarrierTypeOK
  <2> QED
    BY <2>1 DEF Pipe!Next, Pipe!Offer
<1>2. CASE RawWrites \/ RawFails
  <2>1. PICK n \in 0 .. Len(batch) : RawTakes(n)
    <3>1. \A n \in 1 .. Len(batch) : n \in 0 .. Len(batch)
      BY Lengths DEF CarrierIInv
    <3> QED
      BY <1>2, <3>1 DEF RawWrites, RawFails
  <2>2. accepted' = accepted
    BY <1>2 DEF RawWrites, RawFails
  <2>3. Len(sent') = Len(sent) + n
    BY <2>1, RawTakesMoves
  <2>4. /\ sent = Pipe!Prefix(Len(sent)) /\ sent' = Pipe!Prefix(Len(sent'))
        /\ Len(sent) \in Nat /\ Len(sent') \in Nat /\ n \in Nat
    BY <2>1, SegmentIsPrefix, Lengths DEF CarrierIInv, Data
  <2>5. Len(sent') <= accepted
    <3>1. /\ accepted' = Len(sent') + Len(batch') + Len(buf')
          /\ Len(batch') \in Nat /\ Len(buf') \in Nat
      BY LenProperties DEF CarrierIInv, Data, CarrierTypeOK
    <3>2. ASSUME NEW a \in Nat, NEW b \in Nat, NEW c \in Nat
          PROVE  a <= a + b + c
      OBVIOUS
    <3>3. Len(sent') <= Len(sent') + Len(batch') + Len(buf')
      BY <2>4, <3>1, <3>2
    <3> QED
      BY <2>2, <3>1, <3>3
  <2>6. CASE n = 0
    <3>1. sent' = sent
      BY <2>3, <2>4, <2>6
    <3> QED
      BY <2>2, <3>1 DEF Pipe!pipe
  <2>7. CASE n # 0
    <3>1. accepted \in Nat
      BY Lengths DEF CarrierIInv
    <3>2. Len(sent') \in Len(sent) + 1 .. accepted
      BY <2>3, <2>4, <2>5, <2>7, <3>1
    <3> QED
      BY <2>2, <2>4, <3>2 DEF Pipe!Next, Pipe!Deliver
  <2> QED
    BY <2>6, <2>7
<1>3. CASE accepted' = accepted /\ sent' = sent
  BY <1>3 DEF Pipe!pipe
<1>4. CASE LoopWaits \/ LoopLeaves \/ LoopDelays \/ LoopTakes \/ LoopFails
           \/ LoopClosesRaw \/ LoopEnds \/ CloseBegins \/ CloseEnds
           \/ UNCHANGED carrierVars
  <2>1. accepted' = accepted /\ sent' = sent
    BY <1>4 DEF LoopWaits, LoopLeaves, LoopDelays, LoopTakes, LoopFails,
       LoopClosesRaw, LoopEnds, CloseBegins, CloseEnds, carrierVars
  <2> QED
    BY <1>3, <2>1
<1>5. CASE \E w \in Writers : BeginWrite(w) \/ WriteWaits(w) \/ WriteFails(w)
  <2>1. accepted' = accepted /\ sent' = sent
    BY <1>5 DEF BeginWrite, WriteWaits, WriteFails
  <2> QED
    BY <1>3, <2>1
<1> QED
  BY <1>1, <1>2, <1>4, <1>5 DEF CarrierNext, LoopStep, WriteStep

\* The carrier implements the byte pipe.
THEOREM CarrierImplementsPipe == CarrierSpec => PipeSpec
<1>1. CarrierInit => Pipe!Init
  <2> SUFFICES ASSUME CarrierInit PROVE Pipe!Init
    OBVIOUS
  <2>1. Segment(<<>>, 0) /\ Len(<<>>) = 0
    BY EmptySegment
  <2>2. <<>> = Pipe!Prefix(0)
    BY <2>1, SegmentIsPrefix
  <2> QED
    BY <2>2 DEF CarrierInit, Pipe!Init
<1>2. CarrierIInv /\ CarrierIInv' /\ [CarrierNext]_carrierVars =>
          [Pipe!Next]_(Pipe!pipe)
  BY CarrierStepRefines
<1> QED
  BY <1>1, <1>2, CarrierInvariance, PTL DEF CarrierSpec, PipeSpec, Pipe!Spec

-----------------------------------------------------------------------------
(* The manager and the fronts: the inductive invariant                     *)

\* Whoever connects has found no client, before Close, and is the only one.
OneConnects ==
    \A c \in Callers : Connecting(c) =>
        /\ client = 0 /\ ~closed
        /\ \A d \in Callers : Connecting(d) => d = c

\* A caller dials on, and invalidates, a client that it got.
Used ==
    \A c \in Callers : pc[c] \in {"dialing", "invalidate"} => using[c] \in Clients

\* A keepalive has seen its client broken when it invalidates it.
KeepSeen ==
    \A n \in Clients : keep[n] = "invalidate" => conn[n] \in {"dead", "closed"}

\* Close has a client in its hands only while it closes it, and there is none
\* for the callers from then on.
Taken ==
    /\ mpc # "closing" => leaving = 0
    /\ closed => client = 0

ManagerInv ==
    ManagerTypeOK /\ Owned /\ OneConnects /\ Used /\ KeepSeen /\ Taken

\* A session is with the manager only while it dials.
Dialling ==
    \A s \in Sessions : pc[s] # "idle" => at[s] = "dial" /\ kind[s] # "page"

\* Where a session holds no slot.
Outside == {"away", "gone", "refused"}

\* The sessions that hold a slot of front f.
Holders(f) == {s \in Sessions : Front(s) = f /\ at[s] \notin Outside}

\* They are finitely many, however many sessions there may be.
Accounted ==
    /\ kind \in [Sessions -> Kinds] /\ limit \in Nat
    /\ slots \in [Fronts -> Nat]
    /\ \A f \in Fronts : /\ slots[f] <= Capacity(f)
                         /\ IsFiniteSet(Holders(f))
                         /\ slots[f] = Cardinality(Holders(f))

FrontsIInv == ManagerInv /\ TypeOK /\ Accounted /\ Dialling

-----------------------------------------------------------------------------
(* The steps of the manager                                                *)

\* No client has the name of nil.
LEMMA ClientsAreNumbers == Clients \subseteq Nat /\ 0 \notin Clients
BY ManagerAssumption DEF Clients

\* DialTCP and Warmup, from the lock to the outcome.
LEMMA CallerPreserves ==
    ASSUME ManagerInv, NEW c \in Callers,
           CallerStep(c) \/ ConnectFails(c) \/ HandshakeHangs(c)
    PROVE  ManagerInv'
<1>1. CASE GetClosed(c)
  <2>1. ManagerTypeOK'
    BY <1>1 DEF ManagerInv, ManagerTypeOK, Attempts, GetClosed, Goes
  <2>2. Owned' /\ KeepSeen' /\ Taken'
    BY <1>1 DEF ManagerInv, ManagerTypeOK, Owned, KeepSeen, Taken,
                closed, GetClosed, Goes
  <2>3. OneConnects' /\ Used'
    BY <1>1 DEF ManagerInv, ManagerTypeOK, OneConnects, Connecting, closed,
                Used, GetClosed, Goes
  <2> QED
    BY <2>1, <2>2, <2>3 DEF ManagerInv
<1>2. CASE GetClient(c)
  <2>1. ManagerTypeOK'
    BY <1>2 DEF ManagerInv, ManagerTypeOK, GetClient, Has, Goes, connectKeeps
  <2>2. Owned' /\ KeepSeen' /\ Taken'
    BY <1>2 DEF ManagerInv, ManagerTypeOK, Owned, KeepSeen, Taken,
                closed, GetClient, Has, Goes, connectKeeps
  <2>3. OneConnects'
    BY <1>2 DEF ManagerInv, ManagerTypeOK, OneConnects, Connecting, closed,
                GetClient, Has, Goes, connectKeeps
  <2>4. Used'
    BY <1>2, ClientsAreNumbers DEF ManagerInv, ManagerTypeOK, Used, GetClient,
                                   Has, Goes, connectKeeps
  <2> QED
    BY <2>1, <2>2, <2>3, <2>4 DEF ManagerInv
<1>3. CASE BeginConnect(c)
  <2>1. ManagerTypeOK'
    BY <1>3 DEF ManagerInv, ManagerTypeOK, BeginConnect, Unconnected, Goes,
                connectKeeps
  <2>2. Owned' /\ KeepSeen' /\ Taken'
    BY <1>3 DEF ManagerInv, ManagerTypeOK, Owned, KeepSeen, Taken,
                closed, BeginConnect, Unconnected, Goes, connectKeeps
  <2>3. OneConnects'
    BY <1>3 DEF ManagerInv, ManagerTypeOK, OneConnects, Connecting, closed,
                Free, BeginConnect, Unconnected, Goes, connectKeeps
  <2>4. Used'
    BY <1>3 DEF ManagerInv, ManagerTypeOK, Used, BeginConnect, Unconnected,
                Goes, connectKeeps
  <2> QED
    BY <2>1, <2>2, <2>3, <2>4 DEF ManagerInv
<1>4. ASSUME NEW key \in Keys, Connected(c, key) PROVE ManagerInv'
  <2>1. ManagerTypeOK'
    BY <1>4, ClientsAreNumbers DEF ManagerInv, ManagerTypeOK, Connected, Has,
                                   Goes, connectKeeps
  <2>2. Owned'
    <3>1. client = 0
      BY <1>4 DEF Connected, ManagerInv, OneConnects, Connecting
    <3>2. PICK m \in Clients : client' = m /\ conn' = [conn EXCEPT ![m] = "up"]
      BY <1>4 DEF Connected
    <3>3. ASSUME NEW i \in Clients, conn'[i] \in {"up", "dead"}
          PROVE  i \in {client', leaving'}
      <4>1. CASE i = m
        BY <3>2, <4>1
      <4>2. CASE i # m
        <5>1. conn[i] \in {"up", "dead"}
          BY <3>2, <3>3, <4>2 DEF ManagerInv, ManagerTypeOK
        <5>2. i = leaving
          BY <3>1, <5>1, ClientsAreNumbers DEF ManagerInv, Owned
        <5> QED
          BY <1>4, <5>2 DEF Connected, connectKeeps
      <4> QED
        BY <4>1, <4>2
    <3> QED
      BY <3>3 DEF Owned
  <2>3. OneConnects'
    BY <1>4, ClientsAreNumbers DEF ManagerInv, ManagerTypeOK, OneConnects,
                                   Connecting, closed, Connected, Has, Goes,
                                   connectKeeps
  <2>4. Used'
    BY <1>4, ClientsAreNumbers DEF ManagerInv, ManagerTypeOK, Used, Connected,
                                   Has, Goes, connectKeeps
  <2>5. KeepSeen'
    <3>1. PICK n \in Clients : /\ conn' = [conn EXCEPT ![n] = "up"]
                              /\ keep' = [keep EXCEPT ![n] = "wait"]
      BY <1>4 DEF Connected
    <3> QED
      BY <3>1 DEF ManagerInv, ManagerTypeOK, KeepSeen
  <2>6. Taken'
    BY <1>4, ClientsAreNumbers DEF ManagerInv, ManagerTypeOK, Taken, closed,
                                   OneConnects, Connecting, Connected, Has,
                                   Goes, connectKeeps
  <2> QED
    BY <2>1, <2>2, <2>3, <2>4, <2>5, <2>6 DEF ManagerInv
<1>5. CASE ConnectFails(c)
  <2>1. ManagerTypeOK'
    BY <1>5 DEF ManagerInv, ManagerTypeOK, NoPin, BadPin, Attempts,
                ConnectFails, Goes
  <2>2. Owned' /\ KeepSeen' /\ Taken'
    BY <1>5 DEF ManagerInv, ManagerTypeOK, Owned, KeepSeen, Taken,
                closed, ConnectFails, Goes
  <2>3. OneConnects' /\ Used'
    BY <1>5 DEF ManagerInv, ManagerTypeOK, OneConnects, Connecting, closed,
                Used, ConnectFails, Goes
  <2> QED
    BY <2>1, <2>2, <2>3 DEF ManagerInv
<1>6. CASE HandshakeHangs(c)
  <2>1. ManagerTypeOK'
    BY <1>6 DEF ManagerInv, ManagerTypeOK, HandshakeHangs, Goes, connectKeeps
  <2>2. Owned' /\ KeepSeen' /\ Taken'
    BY <1>6 DEF ManagerInv, ManagerTypeOK, Owned, KeepSeen, Taken,
                closed, HandshakeHangs, Goes, connectKeeps
  <2>3. OneConnects' /\ Used'
    BY <1>6 DEF ManagerInv, ManagerTypeOK, OneConnects, Connecting, closed,
                Used, HandshakeHangs, Goes, connectKeeps
  <2> QED
    BY <2>1, <2>2, <2>3 DEF ManagerInv
<1>7. CASE ChannelOpens(c)
  <2>1. ManagerTypeOK'
    BY <1>7
       DEF ManagerInv, ManagerTypeOK, Attempts, ChannelOpens, Goes, dialKeeps
  <2>2. Owned' /\ KeepSeen' /\ Taken'
    BY <1>7 DEF ManagerInv, ManagerTypeOK, Owned, KeepSeen, Taken,
                closed, ChannelOpens, Goes, dialKeeps
  <2>3. OneConnects' /\ Used'
    BY <1>7 DEF ManagerInv, ManagerTypeOK, OneConnects, Connecting, closed,
                Used, ChannelOpens, Goes, dialKeeps
  <2> QED
    BY <2>1, <2>2, <2>3 DEF ManagerInv
<1>8. CASE Rejected(c)
  <2>1. ManagerTypeOK'
    BY <1>8 DEF ManagerInv, ManagerTypeOK, Attempts, Rejected, Goes, dialKeeps
  <2>2. Owned' /\ KeepSeen' /\ Taken'
    BY <1>8 DEF ManagerInv, ManagerTypeOK, Owned, KeepSeen, Taken,
                closed, Rejected, Goes, dialKeeps
  <2>3. OneConnects' /\ Used'
    BY <1>8 DEF ManagerInv, ManagerTypeOK, OneConnects, Connecting, closed,
                Used, Rejected, Goes, dialKeeps
  <2> QED
    BY <2>1, <2>2, <2>3 DEF ManagerInv
<1>9. CASE OtherError(c)
  <2>1. ManagerTypeOK'
    BY <1>9 DEF ManagerInv, ManagerTypeOK, OtherError, Goes, dialKeeps
  <2>2. Owned' /\ KeepSeen' /\ Taken'
    BY <1>9 DEF ManagerInv, ManagerTypeOK, Owned, KeepSeen, Taken,
                closed, OtherError, Goes, dialKeeps
  <2>3. OneConnects'
    BY <1>9 DEF ManagerInv, ManagerTypeOK, OneConnects, Connecting, closed,
                OtherError, Goes, dialKeeps
  <2>4. Used'
    BY <1>9 DEF ManagerInv, ManagerTypeOK, Used, OtherError, Goes, dialKeeps
  <2> QED
    BY <2>1, <2>2, <2>3, <2>4 DEF ManagerInv
<1>10. CASE DialInvalidates(c)
  <2>1. ManagerTypeOK'
    BY <1>10, ClientsAreNumbers DEF ManagerInv, ManagerTypeOK, Attempts, Used,
                                    DialInvalidates, Invalidated, Goes,
                                    dialKeeps
  <2>2. Owned' /\ Taken'
    BY <1>10, ClientsAreNumbers DEF ManagerInv, ManagerTypeOK, Owned,
                                    Taken, closed, Used, DialInvalidates,
                                    Invalidated, Goes, dialKeeps
  <2>3. OneConnects'
    BY <1>10, ClientsAreNumbers DEF ManagerInv, ManagerTypeOK, OneConnects,
                                    Connecting, closed, Free, DialInvalidates,
                                    Invalidated, Goes, dialKeeps
  <2>4. Used'
    BY <1>10, ClientsAreNumbers DEF ManagerInv, ManagerTypeOK, Used,
                                    OneConnects, Connecting, closed,
                                    DialInvalidates, Invalidated, Goes,
                                    dialKeeps
  <2>5. KeepSeen'
    BY <1>10, ClientsAreNumbers DEF ManagerInv, ManagerTypeOK, KeepSeen, Used,
                                    DialInvalidates, Invalidated, Goes,
                                    dialKeeps
  <2> QED
    BY <2>1, <2>2, <2>3, <2>4, <2>5 DEF ManagerInv
<1> QED
  BY <1>1, <1>2, <1>3, <1>4, <1>5, <1>6, <1>7, <1>8, <1>9, <1>10 DEF CallerStep

\* The keepalives, and the death of a client.
LEMMA KeepalivePreserves ==
    ASSUME ManagerInv, NEW n \in Clients, KeepStep(n) \/ ClientDies(n)
    PROVE  ManagerInv'
<1>1. CASE KeepaliveAnswered(n)
  <2>1. ManagerTypeOK'
    BY <1>1 DEF ManagerInv, ManagerTypeOK, KeepaliveAnswered, keepKeeps
  <2>2. Owned' /\ Used' /\ Taken'
    BY <1>1 DEF ManagerInv, ManagerTypeOK, Owned, Used, Taken, closed,
                KeepaliveAnswered, keepKeeps
  <2>3. OneConnects' /\ KeepSeen'
    BY <1>1 DEF ManagerInv, ManagerTypeOK, OneConnects, Connecting, closed,
                KeepSeen, KeepaliveAnswered, keepKeeps
  <2> QED
    BY <2>1, <2>2, <2>3 DEF ManagerInv
<1>2. CASE KeepaliveFails(n)
  <2>1. ManagerTypeOK'
    BY <1>2 DEF ManagerInv, ManagerTypeOK, KeepaliveFails, keepKeeps
  <2>2. Owned' /\ Used' /\ Taken'
    BY <1>2 DEF ManagerInv, ManagerTypeOK, Owned, Used, Taken, closed,
                KeepaliveFails, keepKeeps
  <2>3. OneConnects' /\ KeepSeen'
    BY <1>2 DEF ManagerInv, ManagerTypeOK, OneConnects, Connecting, closed,
                KeepSeen, KeepaliveFails, keepKeeps
  <2> QED
    BY <2>1, <2>2, <2>3 DEF ManagerInv
<1>3. CASE KeepaliveInvalidates(n)
  <2>1. ManagerTypeOK'
    BY <1>3, ClientsAreNumbers DEF ManagerInv, ManagerTypeOK,
                                   KeepaliveInvalidates, Invalidated,
                                   keepKeeps
  <2>2. Owned' /\ Taken'
    BY <1>3, ClientsAreNumbers DEF ManagerInv, ManagerTypeOK, Owned,
                                   Taken, closed, KeepaliveInvalidates,
                                   Invalidated, keepKeeps
  <2>3. OneConnects'
    BY <1>3, ClientsAreNumbers DEF ManagerInv, ManagerTypeOK, OneConnects,
                                   Connecting, closed, Free,
                                   KeepaliveInvalidates, Invalidated,
                                   keepKeeps
  <2>4. Used' /\ KeepSeen'
    BY <1>3, ClientsAreNumbers DEF ManagerInv, ManagerTypeOK, Used, KeepSeen,
                                   KeepaliveInvalidates, Invalidated,
                                   keepKeeps
  <2> QED
    BY <2>1, <2>2, <2>3, <2>4 DEF ManagerInv
<1>4. CASE ClientDies(n)
  <2>1. ManagerTypeOK'
    BY <1>4 DEF ManagerInv, ManagerTypeOK, ClientDies
  <2>2. Owned'
    BY <1>4 DEF ManagerInv, ManagerTypeOK, Owned, ClientDies
  <2>3. OneConnects' /\ Taken'
    BY <1>4 DEF ManagerInv, ManagerTypeOK, OneConnects, Connecting, closed,
                Taken, ClientDies
  <2>4. Used' /\ KeepSeen'
    BY <1>4 DEF ManagerInv, ManagerTypeOK, Used, KeepSeen, ClientDies
  <2> QED
    BY <2>1, <2>2, <2>3, <2>4 DEF ManagerInv
<1> QED
  BY <1>1, <1>2, <1>3, <1>4 DEF KeepStep

\* Close.
LEMMA ClosePreserves ==
    ASSUME ManagerInv, BeginClose \/ CloseStep
    PROVE  ManagerInv'
<1>1. CASE BeginClose
  <2>1. ManagerTypeOK'
    BY <1>1 DEF ManagerInv, ManagerTypeOK, BeginClose, closeKeeps
  <2>2. Owned' /\ Used' /\ KeepSeen'
    BY <1>1 DEF ManagerInv, ManagerTypeOK, Owned, Used, KeepSeen,
                BeginClose, closeKeeps
  <2>3. OneConnects' /\ Taken'
    BY <1>1 DEF ManagerInv, ManagerTypeOK, OneConnects, Connecting, closed,
                Taken, BeginClose, closeKeeps
  <2> QED
    BY <2>1, <2>2, <2>3 DEF ManagerInv
<1>2. CASE CloseTakes
  <2>1. ManagerTypeOK'
    BY <1>2, ClientsAreNumbers DEF ManagerInv, ManagerTypeOK, CloseTakes,
                                   closeKeeps
  <2>2. Owned'
    BY <1>2, ClientsAreNumbers DEF ManagerInv, ManagerTypeOK, Owned,
                                   Taken, closed, CloseTakes, closeKeeps
  <2>3. Used' /\ KeepSeen'
    BY <1>2, ClientsAreNumbers DEF ManagerInv, ManagerTypeOK, Used, KeepSeen,
                                   CloseTakes, closeKeeps
  <2>4. OneConnects'
    BY <1>2, ClientsAreNumbers DEF ManagerInv, ManagerTypeOK, OneConnects,
                                   Connecting, closed, Free, CloseTakes,
                                   closeKeeps
  <2>5. Taken'
    BY <1>2, ClientsAreNumbers DEF ManagerInv, ManagerTypeOK, Taken, closed,
                                   CloseTakes, closeKeeps
  <2> QED
    BY <2>1, <2>2, <2>3, <2>4, <2>5 DEF ManagerInv
<1>3. CASE EndClose
  <2>1. ManagerTypeOK'
    BY <1>3, ClientsAreNumbers DEF ManagerInv, ManagerTypeOK, EndClose,
                                   closeKeeps
  <2>2. Owned'
    BY <1>3, ClientsAreNumbers DEF ManagerInv, ManagerTypeOK, Owned,
                                   EndClose, closeKeeps
  <2>3. Used' /\ KeepSeen'
    BY <1>3, ClientsAreNumbers DEF ManagerInv, ManagerTypeOK, Used, KeepSeen,
                                   EndClose, closeKeeps
  <2>4. OneConnects'
    BY <1>3, ClientsAreNumbers DEF ManagerInv, ManagerTypeOK, OneConnects,
                                   Connecting, closed, EndClose, closeKeeps
  <2>5. Taken'
    BY <1>3, ClientsAreNumbers DEF ManagerInv, ManagerTypeOK, Taken, closed,
                                   EndClose, closeKeeps
  <2> QED
    BY <2>1, <2>2, <2>3, <2>4, <2>5 DEF ManagerInv
<1> QED
  BY <1>1, <1>2, <1>3 DEF CloseStep

\* Every step of the manager.
LEMMA ManagerPreserves == ManagerInv /\ ManagerNext => ManagerInv'
BY CallerPreserves, KeepalivePreserves, ClosePreserves DEF ManagerNext

\* The manager calls nobody: whoever is not with it stays away.
LEMMA ManagerLeavesIdle ==
    ASSUME ManagerTypeOK, ManagerNext, NEW d \in Callers, pc[d] = "idle"
    PROVE  pc'[d] = "idle"
<1>1. ASSUME NEW c \in Callers,
             CallerStep(c) \/ ConnectFails(c) \/ HandshakeHangs(c)
      PROVE  pc'[d] = "idle"
  <2>1. pc[c] # "idle" /\ \E where : pc' = [pc EXCEPT ![c] = where]
    BY <1>1 DEF CallerStep, GetClosed, GetClient, BeginConnect, Connected,
       ConnectFails, HandshakeHangs, Connecting, ChannelOpens, Rejected,
       OtherError, DialInvalidates, Has, Goes
  <2> QED
    BY <2>1 DEF ManagerTypeOK
<1>2. ASSUME NEW n \in Clients, KeepStep(n) \/ ClientDies(n)
      PROVE  pc'[d] = "idle"
  BY <1>2 DEF KeepStep, KeepaliveAnswered, KeepaliveFails,
     KeepaliveInvalidates, ClientDies, keepKeeps
<1>3. CASE BeginClose \/ CloseStep
  BY <1>3 DEF BeginClose, CloseStep, CloseTakes, EndClose, closeKeeps
<1> QED
  BY <1>1, <1>2, <1>3 DEF ManagerNext

\* What the fronts do to a caller: they send it to the manager, take its
\* outcome, or forget its client when it dials no more.
LEMMA FrontsLeaveManager ==
    ASSUME ManagerInv, NEW c \in Callers,
           UNCHANGED <<client, attempt, conn, keep, mpc, leaving, pin>>,
           pc' \in {pc, [pc EXCEPT ![c] = "lock"], [pc EXCEPT ![c] = "idle"]},
           using' \in {using, [using EXCEPT ![c] = 0]},
           using' # using => pc'[c] = "idle"
    PROVE  ManagerInv'
<1>1. ManagerTypeOK'
  BY DEF ManagerInv, ManagerTypeOK
<1>2. Owned' /\ KeepSeen' /\ Taken'
  BY DEF ManagerInv, Owned, KeepSeen, Taken, closed
<1>3. OneConnects'
  BY DEF ManagerInv, ManagerTypeOK, OneConnects, Connecting, closed
<1>4. Used'
  BY DEF ManagerInv, ManagerTypeOK, Used
<1> QED
  BY <1>1, <1>2, <1>3, <1>4 DEF ManagerInv

-----------------------------------------------------------------------------
(* The slots                                                               *)

\* Nobody takes or gives back a slot while a session moves inside.
LEMMA SlotsKept ==
    ASSUME TypeOK, Accounted, NEW s \in Sessions,
           UNCHANGED <<kind, limit, slots>>,
           \/ at' = at
           \/ \E w : /\ at' = [at EXCEPT ![s] = w]
                     /\ at[s] \in Outside <=> w \in Outside
    PROVE  Accounted'
<1>1. ASSUME NEW f \in Fronts
      PROVE  Holders(f)' = Holders(f)
  <2>1. \A t \in Sessions : Front(t)' = Front(t)
    BY DEF Front
  <2>2. \A t \in Sessions : at'[t] \in Outside <=> at[t] \in Outside
    BY DEF Accounted, TypeOK
  <2> QED
    BY <2>1, <2>2 DEF Holders
<1>2. \A f \in Fronts : Capacity(f)' = Capacity(f)
  BY DEF Capacity
<1> QED
  BY <1>1, <1>2 DEF Accounted

\* A session that is accepted takes a slot of its front.
LEMMA SlotTaken ==
    ASSUME TypeOK, Accounted, NEW s \in Sessions, Accept(s)
    PROVE  Accounted'
<1>1. /\ at[s] = "away" /\ at' = [at EXCEPT ![s] = "negotiate"]
      /\ slots' = [slots EXCEPT ![Front(s)] = @ + 1]
      /\ slots[Front(s)] < Capacity(Front(s))
      /\ UNCHANGED <<kind, limit>>
  BY DEF Accept, HasSlot, Moves, acceptKeeps
<1>2. Front(s) \in Fronts /\ \A t \in Sessions : Front(t)' = Front(t)
  BY <1>1 DEF Front, Fronts
<1>3. \A f \in Fronts : Capacity(f)' = Capacity(f) /\ Capacity(f) \in Nat
  BY <1>1 DEF Accounted, Capacity
<1>4. slots' \in [Fronts -> Nat]
  BY <1>1, <1>2 DEF Accounted
<1>5. ASSUME NEW f \in Fronts
      PROVE  /\ IsFiniteSet(Holders(f)') /\ slots'[f] = Cardinality(Holders(f)')
             /\ slots'[f] <= Capacity(f)'
  <2>1. /\ IsFiniteSet(Holders(f)) /\ slots[f] = Cardinality(Holders(f))
        /\ slots[f] \in Nat /\ slots[f] <= Capacity(f)
    BY DEF Accounted, TypeOK
  <2>2. CASE f = Front(s)
    <3>1. s \notin Holders(f) /\ Holders(f)' = Holders(f) \cup {s}
      BY <1>1, <1>2, <2>2 DEF Holders, Outside, Accounted, TypeOK
    <3>2. /\ IsFiniteSet(Holders(f)')
          /\ Cardinality(Holders(f)') = Cardinality(Holders(f)) + 1
      BY <2>1, <3>1, FS_AddElement
    <3>3. slots'[f] = slots[f] + 1 /\ slots[f] < Capacity(f)
      BY <1>1, <1>2, <2>2 DEF Accounted
    <3> QED
      BY <1>3, <2>1, <3>2, <3>3
  <2>3. CASE f # Front(s)
    <3>1. Holders(f)' = Holders(f)
      BY <1>1, <1>2, <2>3 DEF Holders, Outside, Accounted, TypeOK
    <3>2. slots'[f] = slots[f]
      BY <1>1, <1>2, <2>3 DEF Accounted
    <3> QED
      BY <1>3, <2>1, <3>1, <3>2
  <2> QED
    BY <2>2, <2>3
<1> QED
  BY <1>1, <1>4, <1>5 DEF Accounted

\* A session that ends gives its slot back.
LEMMA SlotReleased ==
    ASSUME TypeOK, Accounted, NEW s \in Sessions, EndSession(s)
    PROVE  Accounted'
<1>1. /\ at[s] = "end" /\ at' = [at EXCEPT ![s] = "gone"]
      /\ slots' = [slots EXCEPT ![Front(s)] = @ - 1]
      /\ UNCHANGED <<kind, limit>>
  BY DEF EndSession, Releases, Moves
<1>2. Front(s) \in Fronts /\ \A t \in Sessions : Front(t)' = Front(t)
  BY <1>1 DEF Front, Fronts
<1>3. \A f \in Fronts : Capacity(f)' = Capacity(f) /\ Capacity(f) \in Nat
  BY <1>1 DEF Accounted, Capacity
<1>4. ASSUME NEW f \in Fronts
      PROVE  /\ IsFiniteSet(Holders(f)') /\ slots'[f] = Cardinality(Holders(f)')
             /\ slots'[f] <= Capacity(f)'
  <2>1. /\ IsFiniteSet(Holders(f)) /\ slots[f] = Cardinality(Holders(f))
        /\ slots[f] \in Nat /\ slots[f] <= Capacity(f)
    BY DEF Accounted, TypeOK
  <2>2. CASE f = Front(s)
    <3>1. s \in Holders(f) /\ Holders(f)' = Holders(f) \ {s}
      BY <1>1, <1>2, <2>2 DEF Holders, Outside, Accounted, TypeOK
    <3>2. /\ IsFiniteSet(Holders(f)')
          /\ Cardinality(Holders(f)') = Cardinality(Holders(f)) - 1
      BY <2>1, <3>1, FS_RemoveElement
    <3>3. Cardinality(Holders(f)') \in Nat
      BY <3>2, FS_CardinalityType
    <3>4. slots'[f] = slots[f] - 1
      BY <1>1, <1>2, <2>2 DEF Accounted
    <3> QED
      BY <1>3, <2>1, <3>2, <3>3, <3>4
  <2>3. CASE f # Front(s)
    <3>1. Holders(f)' = Holders(f)
      BY <1>1, <1>2, <2>3 DEF Holders, Outside, Accounted, TypeOK
    <3>2. slots'[f] = slots[f]
      BY <1>1, <1>2, <2>3 DEF Accounted
    <3> QED
      BY <1>3, <2>1, <3>1, <3>2
  <2> QED
    BY <2>2, <2>3
<1>5. slots' \in [Fronts -> Nat]
  <2>1. slots' \in [Fronts -> Int]
    BY <1>1, <1>2 DEF Accounted
  <2>2. \A f \in Fronts : slots'[f] \in Nat
    BY <1>4, FS_CardinalityType
  <2> QED
    BY <2>1, <2>2
<1> QED
  BY <1>1, <1>4, <1>5 DEF Accounted

-----------------------------------------------------------------------------
(* The steps of the sessions                                               *)

\* What a step of a session does inside the fronts ...
Moving(s) ==
    /\ UNCHANGED <<kind, limit, listening, slots>>
    /\ \/ at' = at
       \/ \E w \in {"negotiate", "dial", "relay", "udp", "end"} :
              at[s] \notin Outside /\ at' = [at EXCEPT ![s] = w]
       \/ at[s] = "away" /\ at' = [at EXCEPT ![s] = "refused"]
    /\ \E l \in BOOLEAN : local' \in {local, [local EXCEPT ![s] = l]}
    /\ \E r \in BOOLEAN : remote' \in {remote, [remote EXCEPT ![s] = r]}
    /\ \E e \in SUBSET {"up", "down"} : over' \in {over, [over EXCEPT ![s] = e]}

\* ... and to the manager: it sends it a caller, takes the outcome, or forgets
\* the client of a session that dials no more.
Calling(s) ==
    /\ UNCHANGED <<client, attempt, conn, keep, mpc, leaving, pin>>
    /\ pc' \in {pc, [pc EXCEPT ![s] = "lock"], [pc EXCEPT ![s] = "idle"]}
    /\ using' \in {using, [using EXCEPT ![s] = 0]}
    /\ using' # using => pc'[s] = "idle"

LEMMA SessionMoves ==
    ASSUME FrontsIInv, NEW s \in Sessions, Calling(s), Moving(s),
           pc'[s] # "idle" => at'[s] = "dial" /\ kind[s] # "page"
    PROVE  FrontsIInv'
<1>1. s \in Callers
  BY FrontsAssumption
<1>2. ManagerInv'
  BY <1>1, FrontsLeaveManager DEF FrontsIInv, Calling
<1>3. Accounted'
  BY SlotsKept DEF FrontsIInv, Moving, Outside
<1>4. TypeOK'
  <2>1. ManagerTypeOK'
    BY <1>2 DEF ManagerInv
  <2>2. \A f \in Fronts : slots'[f] \in 0 .. Capacity(f)'
    BY <1>3 DEF Accounted
  <2>3. at' \in [Sessions -> {"away", "negotiate", "dial", "relay", "udp",
                             "end", "gone", "refused"}]
    BY DEF FrontsIInv, TypeOK, Moving
  <2>4. local' \in [Sessions -> BOOLEAN] /\ remote' \in [Sessions -> BOOLEAN]
    BY DEF FrontsIInv, TypeOK, Moving
  <2>5. over' \in [Sessions -> SUBSET {"up", "down"}]
    BY DEF FrontsIInv, TypeOK, Moving
  <2> QED
    BY <2>1, <2>2, <2>3, <2>4, <2>5 DEF FrontsIInv, TypeOK, Moving
<1>5. Dialling'
  <2> SUFFICES ASSUME NEW t \in Sessions, pc'[t] # "idle"
               PROVE  at'[t] = "dial" /\ kind'[t] # "page"
    BY DEF Dialling
  <2>1. CASE t = s
    BY <2>1 DEF Moving
  <2>2. CASE t # s
    <3>1. at'[t] = at[t]
      BY <2>2 DEF FrontsIInv, TypeOK, Moving
    <3>2. pc'[t] = pc[t]
      BY <2>2, FrontsAssumption DEF FrontsIInv, TypeOK, ManagerTypeOK, Calling
    <3> QED
      BY <3>1, <3>2 DEF FrontsIInv, Dialling, Moving
  <2> QED
    BY <2>1, <2>2
<1> QED
  BY <1>2, <1>3, <1>4, <1>5 DEF FrontsIInv

\* Every step of a session, except that it is accepted or ends.
LEMMA SessionPreserves ==
    ASSUME FrontsIInv, NEW s \in Sessions,
           Refuse(s) \/ LocalLeaves(s) \/ (SessionStep(s) /\ ~EndSession(s))
    PROVE  FrontsIInv'
<1>1. /\ pc[s] # "idle" => at[s] = "dial" /\ kind[s] # "page"
      /\ TypeOK /\ ManagerTypeOK /\ s \in Callers
  BY FrontsAssumption DEF FrontsIInv, Dialling, ManagerInv
<1>2. CASE Refuse(s)
  <2>1. Calling(s)
    BY <1>1, <1>2 DEF Calling, Refuse, Moves, acceptKeeps, manager,
                               ManagerTypeOK
  <2>2. Moving(s)
    BY <1>1, <1>2 DEF Moving, Refuse, Moves, acceptKeeps, manager, Outside,
                              TypeOK
  <2>3. pc'[s] # "idle" => at'[s] = "dial" /\ kind[s] # "page"
    BY <1>1, <1>2 DEF Refuse, Moves, acceptKeeps, manager, TypeOK,
                      ManagerTypeOK
  <2> QED
    BY <2>1, <2>2, <2>3, SessionMoves
<1>3. CASE LocalLeaves(s)
  <2>1. Calling(s)
    BY <1>1, <1>3 DEF Calling, LocalLeaves, acceptKeeps, manager,
                               ManagerTypeOK
  <2>2. Moving(s)
    BY <1>1, <1>3 DEF Moving, LocalLeaves, acceptKeeps, manager, Outside,
                              TypeOK
  <2>3. pc'[s] # "idle" => at'[s] = "dial" /\ kind[s] # "page"
    BY <1>1, <1>3 DEF LocalLeaves, acceptKeeps, manager, TypeOK, ManagerTypeOK
  <2> QED
    BY <2>1, <2>2, <2>3, SessionMoves
<1>4. CASE Negotiated(s)
  <2>1. Calling(s)
    BY <1>1, <1>4 DEF Calling, Negotiated, Moves, sessionKeeps, pcKeeps,
                               ManagerTypeOK
  <2>2. Moving(s)
    BY <1>1, <1>4 DEF Moving, Negotiated, Moves, sessionKeeps, pcKeeps,
                              Outside, TypeOK
  <2>3. pc'[s] # "idle" => at'[s] = "dial" /\ kind[s] # "page"
    BY <1>1, <1>4 DEF Negotiated, Moves, sessionKeeps, pcKeeps, TypeOK,
                      ManagerTypeOK
  <2> QED
    BY <2>1, <2>2, <2>3, SessionMoves
<1>5. CASE NegotiationFails(s)
  <2>1. Calling(s)
    BY <1>1, <1>5 DEF Calling, NegotiationFails, Moves, sessionKeeps, manager,
                               ManagerTypeOK
  <2>2. Moving(s)
    BY <1>1, <1>5 DEF Moving, NegotiationFails, Moves, sessionKeeps, manager,
                              Outside, TypeOK
  <2>3. pc'[s] # "idle" => at'[s] = "dial" /\ kind[s] # "page"
    BY <1>1, <1>5 DEF NegotiationFails, Moves, sessionKeeps, manager, TypeOK,
                      ManagerTypeOK
  <2> QED
    BY <2>1, <2>2, <2>3, SessionMoves
<1>6. CASE DialOK(s)
  <2>1. Calling(s)
    BY <1>1, <1>6 DEF Calling, DialOK, Moves, Goes, sessionKeeps, pcKeeps,
                               ManagerTypeOK
  <2>2. Moving(s)
    BY <1>1, <1>6 DEF Moving, DialOK, Moves, Goes, sessionKeeps, pcKeeps,
                              Outside, TypeOK
  <2>3. pc'[s] # "idle" => at'[s] = "dial" /\ kind[s] # "page"
    BY <1>1, <1>6 DEF DialOK, Moves, Goes, sessionKeeps, pcKeeps, TypeOK,
                      ManagerTypeOK
  <2> QED
    BY <2>1, <2>2, <2>3, SessionMoves
<1>7. CASE DialFailed(s)
  <2>1. Calling(s)
    BY <1>1, <1>7 DEF Calling, DialFailed, Moves, Goes, sessionKeeps, pcKeeps,
                               ManagerTypeOK
  <2>2. Moving(s)
    BY <1>1, <1>7 DEF Moving, DialFailed, Moves, Goes, sessionKeeps, pcKeeps,
                              Outside, TypeOK
  <2>3. pc'[s] # "idle" => at'[s] = "dial" /\ kind[s] # "page"
    BY <1>1, <1>7 DEF DialFailed, Moves, Goes, sessionKeeps, pcKeeps, TypeOK,
                      ManagerTypeOK
  <2> QED
    BY <2>1, <2>2, <2>3, SessionMoves
<1>8. CASE PageDialled(s)
  <2>1. Calling(s)
    BY <1>1, <1>8 DEF Calling, PageDialled, Moves, sessionKeeps, manager,
                               ManagerTypeOK
  <2>2. Moving(s)
    BY <1>1, <1>8 DEF Moving, PageDialled, Moves, sessionKeeps, manager,
                              Outside, TypeOK
  <2>3. pc'[s] # "idle" => at'[s] = "dial" /\ kind[s] # "page"
    BY <1>1, <1>8 DEF PageDialled, Moves, sessionKeeps, manager, TypeOK,
                      ManagerTypeOK
  <2> QED
    BY <2>1, <2>2, <2>3, SessionMoves
<1>9. CASE UpEnds(s)
  <2>1. Calling(s)
    BY <1>1, <1>9 DEF Calling, UpEnds, Ends, relayKeeps, manager,
                               ManagerTypeOK
  <2>2. Moving(s)
    BY <1>1, <1>9 DEF Moving, UpEnds, Ends, relayKeeps, manager, Outside,
                              TypeOK
  <2>3. pc'[s] # "idle" => at'[s] = "dial" /\ kind[s] # "page"
    BY <1>1, <1>9 DEF UpEnds, Ends, relayKeeps, manager, TypeOK, ManagerTypeOK
  <2> QED
    BY <2>1, <2>2, <2>3, SessionMoves
<1>10. CASE DownEnds(s)
  <2>1. Calling(s)
    BY <1>1, <1>10 DEF Calling, DownEnds, Ends, relayKeeps, manager,
                                ManagerTypeOK
  <2>2. Moving(s)
    BY <1>1, <1>10 DEF Moving, DownEnds, Ends, relayKeeps, manager, Outside,
                               TypeOK
  <2>3. pc'[s] # "idle" => at'[s] = "dial" /\ kind[s] # "page"
    BY <1>1, <1>10 DEF DownEnds, Ends, relayKeeps, manager, TypeOK,
                       ManagerTypeOK
  <2> QED
    BY <2>1, <2>2, <2>3, SessionMoves
<1>11. CASE RelayEnds(s)
  <2>1. Calling(s)
    BY <1>1, <1>11 DEF Calling, RelayEnds, Moves, relayKeeps, manager,
                                ManagerTypeOK
  <2>2. Moving(s)
    BY <1>1, <1>11 DEF Moving, RelayEnds, Moves, relayKeeps, manager, Outside,
                               TypeOK
  <2>3. pc'[s] # "idle" => at'[s] = "dial" /\ kind[s] # "page"
    BY <1>1, <1>11 DEF RelayEnds, Moves, relayKeeps, manager, TypeOK,
                       ManagerTypeOK
  <2> QED
    BY <2>1, <2>2, <2>3, SessionMoves
<1>12. CASE GatewayEnds(s)
  <2>1. Calling(s)
    BY <1>1, <1>12 DEF Calling, GatewayEnds, Ends, ClosesAll, relayKeeps,
                                manager, ManagerTypeOK
  <2>2. Moving(s)
    BY <1>1, <1>12 DEF Moving, GatewayEnds, Ends, ClosesAll, relayKeeps,
                               manager, Outside, TypeOK
  <2>3. pc'[s] # "idle" => at'[s] = "dial" /\ kind[s] # "page"
    BY <1>1, <1>12 DEF GatewayEnds, Ends, ClosesAll, relayKeeps, manager,
                       TypeOK, ManagerTypeOK
  <2> QED
    BY <2>1, <2>2, <2>3, SessionMoves
<1>13. CASE ControlEnds(s)
  <2>1. Calling(s)
    BY <1>1, <1>13 DEF Calling, ControlEnds, Ends, ClosesAll, relayKeeps,
                                manager, ManagerTypeOK
  <2>2. Moving(s)
    BY <1>1, <1>13 DEF Moving, ControlEnds, Ends, ClosesAll, relayKeeps,
                               manager, Outside, TypeOK
  <2>3. pc'[s] # "idle" => at'[s] = "dial" /\ kind[s] # "page"
    BY <1>1, <1>13 DEF ControlEnds, Ends, ClosesAll, relayKeeps, manager,
                       TypeOK, ManagerTypeOK
  <2> QED
    BY <2>1, <2>2, <2>3, SessionMoves
<1>14. CASE AssociationEnds(s)
  <2>1. Calling(s)
    BY <1>1, <1>14 DEF Calling, AssociationEnds, Moves, ClosesAll, relayKeeps,
                                manager, ManagerTypeOK
  <2>2. Moving(s)
    BY <1>1, <1>14 DEF Moving, AssociationEnds, Moves, ClosesAll, relayKeeps,
                               manager, Outside, TypeOK
  <2>3. pc'[s] # "idle" => at'[s] = "dial" /\ kind[s] # "page"
    BY <1>1, <1>14 DEF AssociationEnds, Moves, ClosesAll, relayKeeps, manager,
                       TypeOK, ManagerTypeOK
  <2> QED
    BY <2>1, <2>2, <2>3, SessionMoves
<1> QED
  BY <1>2, <1>3, <1>4, <1>5, <1>6, <1>7, <1>8, <1>9, <1>10, <1>11, <1>12,
     <1>13, <1>14 DEF SessionStep

\* A session begins.
LEMMA AcceptPreserves ==
    ASSUME FrontsIInv, NEW s \in Sessions, Accept(s)
    PROVE  FrontsIInv'
<1>1. /\ UNCHANGED <<manager, kind, limit, listening, remote, over>>
      /\ at[s] = "away" /\ at' = [at EXCEPT ![s] = "negotiate"]
      /\ local' = [local EXCEPT ![s] = TRUE]
      /\ TypeOK /\ s \in Callers
  BY FrontsAssumption DEF FrontsIInv, Accept, Moves, acceptKeeps
<1>2. ManagerInv'
  BY <1>1, FrontsLeaveManager DEF FrontsIInv, manager
<1>3. Accounted'
  BY SlotTaken DEF FrontsIInv
<1>4. TypeOK'
  <2>1. ManagerTypeOK' /\ \A f \in Fronts : slots'[f] \in 0 .. Capacity(f)'
    BY <1>2, <1>3 DEF ManagerInv, Accounted
  <2> QED
    BY <1>1, <2>1 DEF TypeOK
<1>5. Dialling'
  BY <1>1 DEF FrontsIInv, Dialling, TypeOK, manager
<1> QED
  BY <1>2, <1>3, <1>4, <1>5 DEF FrontsIInv

\* A session ends.
LEMMA EndPreserves ==
    ASSUME FrontsIInv, NEW s \in Sessions, EndSession(s)
    PROVE  FrontsIInv'
<1>1. /\ UNCHANGED <<pc, client, attempt, conn, keep, mpc, leaving, pin,
                     kind, limit, listening, over>>
      /\ at[s] = "end" /\ at' = [at EXCEPT ![s] = "gone"]
      /\ local' = [local EXCEPT ![s] = FALSE]
      /\ remote' = [remote EXCEPT ![s] = FALSE]
      /\ using' \in {using, [using EXCEPT ![s] = 0]}
      /\ TypeOK /\ ManagerTypeOK /\ s \in Callers
  BY FrontsAssumption DEF FrontsIInv, ManagerInv, ManagerTypeOK, EndSession, Moves,
     pcKeeps
<1>2. ManagerInv'
  <2>1. pc[s] = "idle"
    BY <1>1 DEF FrontsIInv, Dialling
  <2> QED
    BY <1>1, <2>1, FrontsLeaveManager DEF FrontsIInv
<1>3. Accounted'
  BY SlotReleased DEF FrontsIInv
<1>4. TypeOK'
  <2>1. ManagerTypeOK' /\ \A f \in Fronts : slots'[f] \in 0 .. Capacity(f)'
    BY <1>2, <1>3 DEF ManagerInv, Accounted
  <2> QED
    BY <1>1, <2>1 DEF TypeOK
<1>5. Dialling'
  BY <1>1 DEF FrontsIInv, Dialling, TypeOK
<1> QED
  BY <1>2, <1>3, <1>4, <1>5 DEF FrontsIInv

\* The warmup returns.
LEMMA WarmedUpPreserves == FrontsIInv /\ WarmedUp => FrontsIInv'
<1> SUFFICES ASSUME FrontsIInv, WarmedUp PROVE FrontsIInv'
  OBVIOUS
<1>1. /\ UNCHANGED <<client, attempt, conn, keep, mpc, leaving, pin,
                     kind, limit, slots, at, local, remote, over>>
      /\ pc' = [pc EXCEPT ![Warmer] = "idle"]
      /\ using' = [using EXCEPT ![Warmer] = 0]
      /\ listening' \in {"yes", "exited"}
      /\ TypeOK /\ ManagerTypeOK /\ Warmer \in Callers /\ Warmer \notin Sessions
  BY FrontsAssumption DEF FrontsIInv, ManagerInv, WarmedUp, Goes
<1>2. ManagerInv'
  <2>1. pc'[Warmer] = "idle"
    BY <1>1 DEF ManagerTypeOK
  <2> QED
    BY <1>1, <2>1, FrontsLeaveManager DEF FrontsIInv
<1>3. Accounted'
  BY <1>1, <1>1 DEF FrontsIInv, Accounted, Holders, Front, Capacity
<1>4. TypeOK'
  <2>1. ManagerTypeOK' /\ \A f \in Fronts : slots'[f] \in 0 .. Capacity(f)'
    BY <1>2, <1>3 DEF ManagerInv, Accounted
  <2> QED
    BY <1>1, <2>1 DEF TypeOK
<1>5. Dialling'
  BY <1>1, FrontsAssumption DEF FrontsIInv, Dialling, ManagerTypeOK
<1> QED
  BY <1>2, <1>3, <1>4, <1>5 DEF FrontsIInv

\* A step of the manager leaves the fronts alone.
LEMMA ManagerStepPreserves ==
    FrontsIInv /\ ManagerNext /\ UNCHANGED fronts => FrontsIInv'
<1> SUFFICES ASSUME FrontsIInv, ManagerNext, UNCHANGED fronts PROVE FrontsIInv'
  OBVIOUS
<1>1. ManagerInv'
  BY ManagerPreserves DEF FrontsIInv
<1>2. Accounted'
  BY DEF FrontsIInv, Accounted, Holders, Front, Capacity, fronts
<1>3. TypeOK'
  <2>1. ManagerTypeOK' /\ \A f \in Fronts : slots'[f] \in 0 .. Capacity(f)'
    BY <1>1, <1>2 DEF ManagerInv, Accounted
  <2> QED
    BY <2>1 DEF FrontsIInv, TypeOK, fronts
<1>4. Dialling'
  <2>1. \A s \in Sessions : pc[s] = "idle" => pc'[s] = "idle"
    BY ManagerLeavesIdle, FrontsAssumption DEF FrontsIInv, ManagerInv
  <2> QED
    BY <2>1 DEF FrontsIInv, Dialling, fronts
<1> QED
  BY <1>1, <1>2, <1>3, <1>4 DEF FrontsIInv

-----------------------------------------------------------------------------
(* The invariant is inductive                                              *)

LEMMA InitFrontsIInv == Init => FrontsIInv
<1> SUFFICES ASSUME Init PROVE FrontsIInv
  OBVIOUS
<1>1. ManagerInv
  <2>1. ManagerTypeOK
    BY ManagerAssumption DEF Init, ManagerInit, ManagerTypeOK, Attempts
  <2>2. Owned /\ KeepSeen /\ Taken
    BY DEF Init, ManagerInit, Owned, KeepSeen, Taken, closed
  <2>3. OneConnects /\ Used
    BY DEF Init, ManagerInit, OneConnects, Used, Connecting
  <2> QED
    BY <2>1, <2>2, <2>3 DEF ManagerInv
<1>2. Accounted
  <2>1. kind \in [Sessions -> Kinds] /\ limit \in Nat
    BY FrontsAssumption DEF Init
  <2>2. \A f \in Fronts : Holders(f) = {}
    BY DEF Init, Holders, Outside
  <2>3. IsFiniteSet({}) /\ Cardinality({}) = 0
    BY FS_EmptySet
  <2>4. slots = [f \in Fronts |-> 0] /\ \A f \in Fronts : 0 <= Capacity(f)
    BY <2>1 DEF Init, Capacity
  <2> QED
    BY <2>1, <2>2, <2>3, <2>4 DEF Accounted
<1>3. TypeOK
  <2>1. ManagerTypeOK /\ \A f \in Fronts : slots[f] \in 0 .. Capacity(f)
    BY <1>1, <1>2 DEF ManagerInv, Accounted
  <2> QED
    BY <2>1 DEF Init, TypeOK
<1>4. Dialling
  BY FrontsAssumption DEF Init, ManagerInit, Dialling
<1> QED
  BY <1>1, <1>2, <1>3, <1>4 DEF FrontsIInv

LEMMA NextFrontsIInv == FrontsIInv /\ [Next]_vars => FrontsIInv'
<1> SUFFICES ASSUME FrontsIInv, [Next]_vars PROVE FrontsIInv'
  OBVIOUS
<1>1. ASSUME NEW s \in Sessions,
             Accept(s) \/ Refuse(s) \/ LocalLeaves(s) \/ SessionStep(s)
      PROVE  FrontsIInv'
  BY <1>1, AcceptPreserves, EndPreserves, SessionPreserves
<1>2. CASE UNCHANGED vars
  <2>1. UNCHANGED fronts /\ UNCHANGED manager
    BY <1>2 DEF vars
  <2>2. ManagerInv'
    BY <2>1 DEF FrontsIInv, ManagerInv, ManagerTypeOK, Owned, OneConnects,
       Connecting, closed, Used, KeepSeen, Taken, manager
  <2>3. TypeOK' /\ Accounted' /\ Dialling'
    BY <2>1, <2>2 DEF FrontsIInv, ManagerInv, TypeOK, Accounted, Holders, Front,
       Capacity, Dialling, fronts, manager
  <2> QED
    BY <2>2, <2>3 DEF FrontsIInv
<1> QED
  BY <1>1, <1>2, ManagerStepPreserves, WarmedUpPreserves DEF Next

LEMMA Invariance == Spec => []FrontsIInv
BY InitFrontsIInv, NextFrontsIInv, PTL DEF Spec

-----------------------------------------------------------------------------
(* The theorems                                                            *)

\* Type correctness, of the manager and of the fronts: in particular the slots
\* taken never exceed the capacity of their front.
THEOREM FrontsTypeCorrect == Spec => []TypeOK
<1>1. FrontsIInv => TypeOK
  BY DEF FrontsIInv
<1> QED
  BY <1>1, Invariance, PTL

\* Whoever connects, invalidates and closes at the same time, no SSH client is
\* open that nobody would close, and none once Close has returned.
THEOREM NoneIsLost == Spec => []NoClientLost
<1>1. FrontsIInv => NoClientLost
  <2> SUFFICES ASSUME FrontsIInv PROVE NoClientLost
    OBVIOUS
  <2>1. Owned /\ Taken
    BY DEF FrontsIInv, ManagerInv
  <2>2. ASSUME mpc = "done" PROVE client = 0 /\ leaving = 0
    BY <2>1, <2>2 DEF Taken, closed
  <2> QED
    BY <2>1, <2>2, ClientsAreNumbers DEF NoClientLost, Owned
<1> QED
  BY <1>1, Invariance, PTL

\* The slots taken are those of the sessions under way, however they end.
THEOREM EverySlotAccounted == Spec => []SlotsAccounted
<1>1. FrontsIInv => SlotsAccounted
  BY DEF FrontsIInv, Accounted, Holders, Outside, SlotsAccounted
<1> QED
  BY <1>1, Invariance, PTL

\* A client that works is closed by Close, which has taken it, or by a dial that
\* has itself failed on it, and by nobody for what has happened to another
\* client: Close, invalidate and dial of the manager.
THEOREM SuccessorStaysOpen == Spec => SuccessorKept
<1>1. FrontsIInv /\ [Next]_vars =>
          [\A n \in Clients : conn[n] = "up" /\ conn'[n] = "closed" =>
              \/ mpc = "closing" /\ mpc' = "done" /\ leaving = n
              \/ \E c \in Callers :
                     pc[c] = "invalidate" /\ pc'[c] # "invalidate" /\ using[c] = n]_vars
  <2> SUFFICES ASSUME FrontsIInv, Next, NEW n \in Clients,
                      conn[n] = "up", conn'[n] = "closed"
               PROVE  \/ mpc = "closing" /\ mpc' = "done" /\ leaving = n
                      \/ \E c \in Callers :
                             pc[c] = "invalidate" /\ pc'[c] # "invalidate" /\ using[c] = n
    BY DEF vars
  <2>1. /\ conn \in [Clients -> {"none", "up", "dead", "closed"}]
        /\ DOMAIN pc = Callers
    BY DEF FrontsIInv, ManagerInv, ManagerTypeOK
  <2>2. ManagerNext
    BY DEF Next, WarmedUp, Accept, Refuse, LocalLeaves, SessionStep, Negotiated,
       NegotiationFails, DialOK, DialFailed, PageDialled, UpEnds, DownEnds,
       RelayEnds, GatewayEnds, ControlEnds, AssociationEnds, EndSession,
       acceptKeeps, sessionKeeps, pcKeeps, relayKeeps, manager
  <2>3. ASSUME NEW c \in Callers,
               CallerStep(c) \/ ConnectFails(c) \/ HandshakeHangs(c)
        PROVE  pc[c] = "invalidate" /\ pc'[c] # "invalidate" /\ using[c] = n
    <3>1. CASE DialInvalidates(c)
      <4>1. pc[c] = "invalidate" /\ Invalidated(using[c])
        BY <3>1 DEF DialInvalidates
      <4>2. using[c] = n
        BY <2>1, <4>1 DEF Invalidated
      <4>3. pc'[c] \in {"lock", "failed"}
        BY <2>1, <3>1 DEF DialInvalidates, Goes
      <4> QED
        BY <4>1, <4>2, <4>3
    <3>2. CASE \E key \in Keys : Connected(c, key)
      BY <2>1, <3>2 DEF Connected
    <3> QED
      BY <2>3, <3>1, <3>2 DEF CallerStep, GetClosed, GetClient, BeginConnect,
         ConnectFails, HandshakeHangs, ChannelOpens, Rejected, OtherError
  <2>4. ASSUME NEW m \in Clients, KeepStep(m) \/ ClientDies(m)
        PROVE  FALSE
    <3>1. CASE KeepaliveInvalidates(m)
      <4>1. conn[m] \in {"dead", "closed"} /\ Invalidated(m)
        BY <3>1 DEF FrontsIInv, ManagerInv, KeepSeen, KeepaliveInvalidates
      <4> QED
        BY <2>1, <4>1 DEF Invalidated
    <3> QED
      BY <2>1, <2>4, <3>1 DEF KeepStep, KeepaliveAnswered, KeepaliveFails,
         ClientDies
  <2>5. CASE BeginClose \/ CloseTakes
    BY <2>5 DEF BeginClose, CloseTakes
  <2>6. CASE EndClose
    BY <2>1, <2>6 DEF EndClose
  <2> QED
    BY <2>2, <2>3, <2>4, <2>5, <2>6 DEF ManagerNext, CloseStep
<1> QED
  BY <1>1, Invariance, PTL DEF Spec, SuccessorKept
=============================================================================
