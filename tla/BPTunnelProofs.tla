---------------------------- MODULE BPTunnelProofs ----------------------------
(***************************************************************************)
(* For every range of sizes, rotation policy, pipeline and load: each      *)
(* direction of a BP tunnel is a reliable byte pipe, and Read reports the  *)
(* end only when it has returned every byte.                               *)
(***************************************************************************)
EXTENDS BPTunnel, TunnelLemmas

-----------------------------------------------------------------------------
(* The inductive invariant                                                 *)

\* Before the tunnel is open nothing but its opening is under way, and the
\* session is as far as the opening has got.
Opening ==
    /\ opc # "ready" => wpc = "idle" /\ rpc = "idle" /\ cpc = "open"
    /\ opc = "open" => session # "none"
    /\ opc = "ready" => session \in {"open", "closed"}

\* What was accepted as written, the rest of p, and what the server has.
UpOffsets ==
    /\ Segment(received, 0)
    /\ Segment(p, upOffset)
    /\ offered = upOffset + Len(p)
    /\ upOffset <= Len(received) /\ Len(received) <= offered
    /\ wpc = "idle" => p = <<>>

\* A record claims the offset its bytes come from; the server has what comes
\* before, and the caller has handed over what is in it.
Honest(r) ==
    /\ r.seq >= 2
    /\ Segment(r.payload, r.seq - 2)
    /\ r.seq - 2 <= upOffset
    /\ r.seq - 2 + Len(r.payload) <= offered

Orphans == \A r \in orphans : Honest(r)

\* The upload lane carries the opening, then records from upOffset on; what
\* is answered "ok" has been done.
UpCall(c) ==
    /\ c.step = "free" => c = Free
    /\ c.step # "free" <=> opc \in {"register", "open"} \/ wpc = "single"
    /\ c.step # "free" =>
           c.req.mode = IF opc = "ready" THEN "upload" ELSE opc
    /\ wpc = "single" => Honest(c.req) /\ c.req.seq = upOffset + 2
    /\ c.step = "ok" =>
           /\ c.req.mode = "register" => session # "none"
           /\ c.req.mode = "open" => session \in {"open", "closed"}
           /\ c.req.mode = "upload" =>
                  upOffset + Len(c.req.payload) <= Len(received)

\* The buffer is the gap between what Read returned and what was received.
DownOffsets ==
    /\ Segment(consumed, 0)
    /\ Segment(readBuf, consumedOffset)
    /\ consumedOffset = Len(consumed)
    /\ downloadOffset = consumedOffset + Len(readBuf)
    /\ downloadOffset <= produced

\* A batch continues the stream where the buffer ends, to the end of the
\* stream if the last response says so.
Continues(c) ==
    /\ c.req.seq = downloadOffset
    /\ Segment(c.out, downloadOffset)
    /\ downloadOffset + Len(c.out) <= produced
    /\ c.last = "eof" => ended /\ downloadOffset + Len(c.out) = produced
    /\ c.step \in {"ensure", "recv"} => c.got < c.req.count

\* The download lane carries an acknowledgement or a batch of Read, or the
\* request of Close.
DownCall(c) ==
    /\ c.step = "free" => c = Free
    /\ c.step # "free" => c.req.mode \in {"ack", "batch", "close"}
    /\ rpc = "acking" <=> c.step # "free" /\ c.req.mode = "ack"
    /\ rpc = "batch" <=> c.step # "free" /\ c.req.mode = "batch"
    /\ cpc = "single" <=> c.step # "free" /\ c.req.mode = "close"
    /\ rpc = "batch" => Continues(c)
    /\ c.req.mode \in {"ack", "close"} => c.req.seq <= consumedOffset

Ends ==
    /\ eof => ended /\ downloadOffset = produced
    /\ rpc = "eof" => eof /\ readBuf = <<>>

\* Nothing is acknowledged that Read has not returned.
Acks ==
    /\ released <= consumedOffset
    /\ lastAck <= consumedOffset
    /\ closeAck <= consumedOffset

Sizing ==
    /\ InBracket(upSizer) /\ CountersLow(upSizer)
    /\ InBracket(downSizer) /\ CountersLow(downSizer)

UpInv == UpOffsets /\ Orphans /\ UpCall(call["up"])

DownInv == DownOffsets /\ Ends /\ Acks /\ DownCall(call["down"])

IInv ==
    /\ TypeOK
    /\ Opening
    /\ UpInv
    /\ DownInv
    /\ Sizing

-----------------------------------------------------------------------------
(* Lemmas about the operators                                              *)

LEMMA FreeIsCall ==
    Free \in Calls /\ Free.step = "free" /\ Free.req.mode = "register"
BY BPAssumption DEF Free, Calls, NoRequest, Requests

\* One lane gets a call, the other keeps its own.
LEMMA CallMoves ==
    ASSUME call \in [Dirs -> Calls], NEW l \in Dirs, NEW c \in Calls,
           call' = [call EXCEPT ![l] = c]
    PROVE  /\ call' \in [Dirs -> Calls] /\ call'[l] = c
           /\ l = "up" => call'["down"] = call["down"]
           /\ l = "down" => call'["up"] = call["up"]
BY DEF Dirs

\* So for a lane itself.
LEMMA LaneMoves ==
    ASSUME lane \in [Dirs -> Lanes], NEW l \in Dirs, NEW c \in Lanes,
           lane' = [lane EXCEPT ![l] = c]
    PROVE  lane' \in [Dirs -> Lanes]
OBVIOUS

\* The facts about lengths, offsets and calls that most steps need.
LEMMA Numbers ==
    ASSUME IInv
    PROVE  /\ upOffset \in Nat /\ offered \in Nat
           /\ Len(p) \in Nat /\ Len(received) \in Nat
           /\ consumedOffset \in Nat /\ downloadOffset \in Nat
           /\ produced \in Nat /\ released \in Nat /\ lastAck \in Nat
           /\ Len(consumed) \in Nat /\ Len(readBuf) \in Nat
           /\ "up" \in Dirs /\ "down" \in Dirs
           /\ call["up"] \in Calls /\ call["down"] \in Calls
           /\ lane["up"] \in Lanes /\ lane["down"] \in Lanes
<1>1. TypeOK
  BY DEF IInv
<1>2. /\ Len(p) \in Nat /\ Len(received) \in Nat
      /\ Len(consumed) \in Nat /\ Len(readBuf) \in Nat
  BY <1>1, LenProperties DEF TypeOK
<1> QED
  BY <1>1, <1>2 DEF TypeOK, Dirs

LEMMA RequestTypes ==
    ASSUME NEW c \in Calls
    PROVE  /\ c.req \in Requests /\ c.req.seq \in Nat
           /\ c.req.payload \in Seq(Nat) /\ Len(c.req.payload) \in Nat
           /\ c.req.max \in {0} \cup Sizes /\ c.req.max \in Nat
           /\ c.req.count \in 0 .. MaxPipeline
           /\ c.out \in Seq(Nat) /\ Len(c.out) \in Nat
           /\ c.got \in 0 .. MaxPipeline /\ c.got \in Nat
<1>1. /\ c.req \in Requests /\ c.out \in Seq(Nat)
      /\ c.got \in 0 .. MaxPipeline
  BY DEF Calls
<1>2. /\ c.req.seq \in Nat /\ c.req.payload \in Seq(Nat)
      /\ c.req.max \in {0} \cup Sizes /\ c.req.count \in 0 .. MaxPipeline
  BY <1>1 DEF Requests
<1>3. c.req.max \in Nat
  BY <1>2, SizerAssumption DEF Sizes
<1>4. c.got \in Nat
  BY <1>1
<1> QED
  BY <1>1, <1>2, <1>3, <1>4, LenProperties

LEMMA MinSizeFits == MinSize \in Sizes
BY SizerAssumption DEF Sizes

\* An upload is a request of a Write, once the tunnel is open.
LEMMA UploadIsWrites ==
    ASSUME IInv, call["up"].step # "free", call["up"].req.mode = "upload"
    PROVE  opc = "ready" /\ wpc = "single"
<1>1. /\ opc \in {"register", "open", "ready", "failed"}
      /\ UpCall(call["up"])
  BY DEF IInv, TypeOK, UpInv
<1>2. opc = "ready"
  BY <1>1 DEF UpCall
<1> QED
  BY <1>1, <1>2 DEF UpCall

\* A request enters a free lane.
LEMMA EntersFits ==
    ASSUME IInv, NEW l \in Dirs, NEW request \in Requests, Enters(l, request)
    PROVE  /\ call[l] = Free /\ call' \in [Dirs -> Calls]
           /\ call'[l] = [Free EXCEPT !.step = "ensure", !.attempt = 1,
                                      !.req = request]
           /\ call'[l].step = "ensure" /\ call'[l].req = request
           /\ call'[l].out = <<>> /\ call'[l].got = 0 /\ call'[l].last = "ok"
           /\ l = "up" => call'["down"] = call["down"]
           /\ l = "down" => call'["up"] = call["up"]
<1> DEFINE c == [Free EXCEPT !.step = "ensure", !.attempt = 1, !.req = request]
<1>1. 1 \in 0 .. 2
  OBVIOUS
<1>2. /\ c \in Calls /\ c.step = "ensure" /\ c.req = request
      /\ c.out = <<>> /\ c.got = 0 /\ c.last = "ok"
  BY <1>1, FreeIsCall DEF Free, Calls
<1>3. call[l] = Free /\ call' = [call EXCEPT ![l] = c]
  BY DEF Enters
<1>4. call \in [Dirs -> Calls]
  BY DEF IInv, TypeOK
<1> HIDE DEF c
<1> QED
  BY <1>2, <1>3, <1>4, CallMoves DEF c

\* The caller leaves a lane.
LEMMA LeavesFits ==
    ASSUME IInv, NEW l \in Dirs, Leaves(l)
    PROVE  /\ call' \in [Dirs -> Calls] /\ call'[l] = Free
           /\ l = "up" => call'["down"] = call["down"]
           /\ l = "down" => call'["up"] = call["up"]
BY FreeIsCall, CallMoves DEF Leaves, IInv, TypeOK

-----------------------------------------------------------------------------
(* What leaves one direction alone keeps its part of the invariant         *)

SessionMoves ==
    /\ session' \in {"none", "registered", "open", "closed"}
    /\ session # "none" => session' # "none"
    /\ session \in {"open", "closed"} => session' \in {"open", "closed"}

UpKept ==
    /\ UNCHANGED <<opc, wpc, offered, p, upOffset, received, orphans>>
    /\ call'["up"] = call["up"]
    /\ SessionMoves

DownKept ==
    /\ UNCHANGED <<rpc, cpc, consumed, readBuf, downloadOffset, consumedOffset,
                   lastAck, closeAck, eof, produced, ended, released>>
    /\ call'["down"] = call["down"]

LEMMA UpFrame ==
    ASSUME IInv, UpKept
    PROVE  UpInv'
<1>1. UpOffsets'
  BY DEF IInv, UpInv, UpKept, UpOffsets
<1>2. Orphans'
  BY DEF IInv, UpInv, UpKept, Orphans, Honest
<1>3. UpCall(call["up"])'
  BY DEF IInv, UpInv, UpKept, UpCall, Honest, SessionMoves
<1> QED
  BY <1>1, <1>2, <1>3 DEF UpInv

LEMMA DownFrame ==
    ASSUME IInv, DownKept
    PROVE  DownInv'
<1>1. DownOffsets' /\ Ends' /\ Acks'
  BY DEF IInv, DownInv, DownKept, DownOffsets, Ends, Acks
<1>2. DownCall(call["down"])'
  BY DEF IInv, DownInv, DownKept, DownCall, Continues
<1> QED
  BY <1>1, <1>2 DEF DownInv

-----------------------------------------------------------------------------
(* The opening                                                             *)

LEMMA OpeningPreserves ==
    IInv /\ (Registered \/ Opened \/ OpenFails) => IInv'
<1> SUFFICES ASSUME IInv, Registered \/ Opened \/ OpenFails PROVE IInv'
  OBVIOUS
<1>1. /\ TypeOK /\ Opening /\ UpInv /\ Sizing
      /\ UpOffsets /\ Orphans /\ UpCall(call["up"])
  BY DEF IInv, UpInv
<1>2. /\ UNCHANGED <<writer, reader, closer, dead, others>>
      /\ opc \in {"register", "open"}
      /\ wpc = "idle" /\ rpc = "idle" /\ cpc = "open"
  BY <1>1 DEF Registered, Opened, OpenFails, Opening
<1> DEFINE c == [Free EXCEPT !.step = "ensure", !.attempt = 1,
                             !.req = [NoRequest EXCEPT !.mode = "open",
                                                       !.seq = 1]]
<1>3. c \in Calls /\ c.step = "ensure" /\ c.req.mode = "open"
  <2>1. [NoRequest EXCEPT !.mode = "open", !.seq = 1] \in Requests
    <3>1. NoRequest \in Requests /\ 1 \in Nat
      BY BPAssumption DEF NoRequest, Requests
    <3> QED
      BY <3>1 DEF Requests
  <2>2. 1 \in 0 .. 2
    OBVIOUS
  <2> QED
    BY <2>1, <2>2, FreeIsCall DEF Free, Calls, NoRequest
<1>4. \/ call' = [call EXCEPT !["up"] = c] /\ opc' = "open"
         /\ call["up"].step = "ok" /\ call["up"].req.mode = "register"
         /\ lane' = lane
      \/ call' = [call EXCEPT !["up"] = Free] /\ opc' \in {"ready", "failed"}
         /\ \/ opc' = "ready" /\ call["up"].step = "ok"
               /\ call["up"].req.mode = "open" /\ lane' = lane
            \/ opc' = "failed" /\ lane' = [lane EXCEPT !["up"] = Shut(@)]
  BY DEF Registered, Opened, OpenFails, Takes, Leaves
<1>5. lane' \in [Dirs -> Lanes]
  BY <1>1, <1>4, LaneTypes, LaneMoves, Numbers DEF TypeOK
<1> HIDE DEF c
<1>6. /\ call' \in [Dirs -> Calls] /\ call'["down"] = call["down"]
      /\ call'["up"] \in {c, Free}
      /\ call'["up"] = c <=> opc' = "open"
      /\ opc' \in {"open", "ready", "failed"}
  <2>1. c # Free
    BY <1>3, FreeIsCall
  <2> QED
    BY <1>1, <1>3, <1>4, <2>1, FreeIsCall, CallMoves, Numbers DEF TypeOK
<1>7. TypeOK'
  BY <1>1, <1>2, <1>5, <1>6
     DEF TypeOK, writer, reader, closer, others, target
<1>8. Opening'
  <2>1. opc' = "open" => session # "none"
    BY <1>1, <1>2, <1>4 DEF UpCall, Opening
  <2>2. opc' = "ready" => session \in {"open", "closed"}
    BY <1>1, <1>2, <1>4 DEF UpCall
  <2> QED
    BY <1>2, <2>1, <2>2 DEF Opening, writer, reader, closer, others
<1>9. UpOffsets' /\ Orphans'
  BY <1>1, <1>2 DEF UpOffsets, Orphans, Honest, writer, others
<1>10. UpCall(call["up"])'
  <2>1. wpc' = "idle"
    BY <1>2 DEF writer
  <2> QED
    BY <1>3, <1>6, <2>1, FreeIsCall DEF UpCall
<1>11. DownInv'
  BY <1>2, <1>6, DownFrame DEF DownKept, reader, closer, others, target
<1>12. Sizing'
  BY <1>1, <1>2 DEF Sizing, writer, reader
<1> QED
  BY <1>7, <1>8, <1>9, <1>10, <1>11, <1>12 DEF IInv, UpInv

-----------------------------------------------------------------------------
(* Write                                                                   *)

\* What Write's steps leave alone.
LEMMA WriteKeepsRest ==
    ASSUME IInv, UNCHANGED writeKeeps, UNCHANGED dead \/ dead' \in BOOLEAN,
           call' \in [Dirs -> Calls], call'["down"] = call["down"],
           opc = "ready",
           offered' \in Nat, p' \in Seq(Nat), size' \in Sizes,
           upOffset' \in Nat, upSizer' \in Sizers,
           wpc' \in {"idle", "next", "single", "stopped"},
           InBracket(upSizer'), CountersLow(upSizer')
    PROVE  TypeOK' /\ Opening' /\ DownInv' /\ Sizing'
<1> USE DEF writeKeeps, reader, closer, others, target
<1>1. TypeOK'
  BY DEF IInv, TypeOK
<1>2. Opening'
  BY DEF IInv, Opening
<1>3. DownInv'
  BY DownFrame DEF DownKept
<1>4. Sizing'
  BY DEF IInv, Sizing
<1> QED
  BY <1>1, <1>2, <1>3, <1>4

\* The server and its late records stay honest while the caller goes on.
LEMMA OrphansStay ==
    ASSUME IInv, orphans' = orphans, upOffset' \in Nat, offered' \in Nat,
           upOffset <= upOffset', offered <= offered'
    PROVE  Orphans'
<1> SUFFICES ASSUME NEW r \in orphans PROVE Honest(r)'
  BY DEF Orphans
<1>1. Honest(r) /\ r.seq \in Nat /\ Len(r.payload) \in Nat
  BY LenProperties DEF IInv, UpInv, Orphans, TypeOK
<1>2. upOffset \in Nat /\ offered \in Nat
  BY Numbers
<1> QED
  BY <1>1, <1>2 DEF Honest

LEMMA BeginWritePreserves == IInv /\ BeginWrite => IInv'
<1> SUFFICES ASSUME IInv, BeginWrite PROVE IInv'
  OBVIOUS
<1>1. /\ TypeOK /\ UpOffsets /\ UpCall(call["up"]) /\ Sizing
      /\ opc = "ready" /\ wpc = "idle" /\ wpc' = "next"
      /\ UNCHANGED <<size, upOffset, upSizer, dead, call, writeKeeps>>
  BY DEF IInv, UpInv, BeginWrite
<1>2. /\ p = <<>> /\ Len(p) = 0 /\ offered = upOffset
  BY <1>1, Numbers DEF UpOffsets
<1>3. PICK n \in 1 .. load[1] - offered :
          p' = [i \in 1 .. n |-> offered + i] /\ offered' = offered + n
  BY DEF BeginWrite
<1>4. /\ n \in Nat /\ offered \in Nat /\ offered' \in Nat
      /\ offered <= offered' /\ Len(received) \in Nat
  BY <1>3, Numbers
<1>5. Segment(p', upOffset') /\ Len(p') = n
  BY <1>1, <1>2, <1>3, <1>4, SegmentFresh
<1>6. p' \in Seq(Nat)
  BY <1>5 DEF Segment
<1>7. TypeOK' /\ Opening' /\ DownInv' /\ Sizing'
  BY <1>1, <1>4, <1>6, WriteKeepsRest DEF TypeOK, Sizing
<1>8. UpOffsets'
  BY <1>1, <1>2, <1>3, <1>4, <1>5 DEF UpOffsets, writeKeeps, others
<1>9. Orphans'
  BY <1>1, <1>4, Numbers, OrphansStay DEF writeKeeps, others
<1>10. UpCall(call["up"])'
  BY <1>1, FreeIsCall DEF UpCall, writeKeeps, others
<1> QED
  BY <1>7, <1>8, <1>9, <1>10 DEF IInv, UpInv

LEMMA StartUploadPreserves == IInv /\ StartUpload => IInv'
<1> SUFFICES ASSUME IInv, StartUpload PROVE IInv'
  OBVIOUS
<1> DEFINE n == Smaller(upSizer.current, Len(p))
           request == [NoRequest EXCEPT !.mode = "upload",
                           !.seq = upOffset + 2, !.payload = SubSeq(p, 1, n)]
<1>1. /\ TypeOK /\ Opening /\ UpOffsets /\ UpCall(call["up"]) /\ Sizing
      /\ Orphans
      /\ wpc = "next" /\ wpc' = "single" /\ size' = upSizer.current
      /\ UNCHANGED <<offered, p, upOffset, upSizer, dead, writeKeeps>>
      /\ Enters("up", request)
  BY DEF IInv, UpInv, StartUpload
<1>2. opc = "ready" /\ opc' = "ready"
  BY <1>1 DEF Opening, writeKeeps
<1>3. upSizer.current \in Sizes /\ n \in 0 .. Len(p)
  <2>1. upSizer.current \in Sizes
    BY <1>1 DEF TypeOK, Sizers
  <2>2. upSizer.current \in Nat
    BY <2>1, SizerAssumption DEF Sizes
  <2> QED
    BY <2>1, <2>2, Numbers DEF Smaller
<1> HIDE DEF n
<1>4. Segment(SubSeq(p, 1, n), upOffset) /\ Len(SubSeq(p, 1, n)) = n
  BY <1>1, <1>3, Numbers, SegmentCut DEF UpOffsets
<1>5. /\ request \in Requests /\ request.mode = "upload"
      /\ request.seq = upOffset + 2 /\ request.payload = SubSeq(p, 1, n)
  <2>1. SubSeq(p, 1, n) \in Seq(Nat) /\ upOffset + 2 \in Nat
    BY <1>4, Numbers DEF Segment
  <2>2. NoRequest \in Requests
    BY BPAssumption DEF NoRequest, Requests
  <2> QED
    BY <2>1, <2>2 DEF Requests
<1> HIDE DEF request
<1>6. /\ call' \in [Dirs -> Calls] /\ call'["down"] = call["down"]
      /\ call'["up"].step = "ensure" /\ call'["up"].req = request
  BY <1>1, <1>5, Numbers, EntersFits
<1>7. TypeOK' /\ Opening' /\ DownInv' /\ Sizing'
  BY <1>1, <1>2, <1>3, <1>6, WriteKeepsRest DEF TypeOK, Sizing
<1>8. UpOffsets'
  BY <1>1 DEF UpOffsets, writeKeeps, others
<1>9. Orphans'
  BY <1>1, Numbers, OrphansStay DEF writeKeeps, others
<1>10. Honest(request)
  <2>1. upOffset + 2 >= 2 /\ (upOffset + 2) - 2 = upOffset
    BY Numbers
  <2>2. upOffset + n <= offered
    BY <1>1, <1>3, Numbers DEF UpOffsets
  <2>3. request.seq >= 2 /\ request.seq - 2 = upOffset
    BY <1>5, <2>1
  <2>4. Segment(request.payload, upOffset) /\ Len(request.payload) = n
    BY <1>4, <1>5
  <2>5. upOffset <= upOffset
    BY Numbers
  <2> QED
    BY <2>2, <2>3, <2>4, <2>5 DEF Honest
<1>11. UpCall(call["up"])'
  BY <1>1, <1>2, <1>5, <1>6, <1>10 DEF UpCall, Honest
<1> QED
  BY <1>7, <1>8, <1>9, <1>11 DEF IInv, UpInv

\* An answered record is taken off p, for the server has it.
LEMMA WriteAckedPreserves == IInv /\ WriteAcked => IInv'
<1> SUFFICES ASSUME IInv, WriteAcked PROVE IInv'
  OBVIOUS
<1> DEFINE n == Len(call["up"].req.payload)
<1>1. /\ TypeOK /\ Opening /\ UpOffsets /\ UpCall(call["up"]) /\ Sizing
      /\ call["up"].step = "ok" /\ call["up"].req.mode = "upload"
      /\ upOffset' = upOffset + n /\ p' = SubSeq(p, n + 1, Len(p))
      /\ upSizer' = Success(upSizer, size) /\ size' = MinSize
      /\ wpc' = IF p' = <<>> THEN "idle" ELSE "next"
      /\ Leaves("up")
      /\ UNCHANGED <<offered, dead, writeKeeps>>
  BY DEF IInv, UpInv, WriteAcked, Takes, RecordLen
<1>2. opc = "ready" /\ wpc = "single" /\ upOffset + n <= Len(received)
  BY <1>1, UploadIsWrites DEF UpCall
<1>3. n \in Nat
  BY Numbers, RequestTypes
<1> HIDE DEF n
<1>13. n \in 0 .. Len(p)
  BY <1>1, <1>2, <1>3, Numbers DEF UpOffsets
<1>4. Segment(p', upOffset + n) /\ Len(p') = Len(p) - n
  BY <1>1, <1>13, Numbers, SegmentCut DEF UpOffsets
<1>5. /\ upOffset' \in Nat /\ upOffset <= upOffset' /\ p' \in Seq(Nat)
      /\ offered \in Nat /\ MinSize \in Sizes
  <2>1. upOffset' \in Nat /\ upOffset <= upOffset'
    BY <1>1, <1>3, Numbers
  <2>2. p' \in Seq(Nat)
    BY <1>4 DEF Segment
  <2> QED
    BY <2>1, <2>2, Numbers, MinSizeFits
<1>6. upSizer' \in Sizers /\ InBracket(upSizer') /\ CountersLow(upSizer')
  BY <1>1, SuccessFits DEF TypeOK, Sizing
<1>7. /\ call' \in [Dirs -> Calls] /\ call'["down"] = call["down"]
      /\ call'["up"] = Free
  BY <1>1, Numbers, LeavesFits
<1>8. TypeOK' /\ Opening' /\ DownInv' /\ Sizing'
  BY <1>1, <1>2, <1>5, <1>6, <1>7, WriteKeepsRest DEF TypeOK, Sizing
<1>9. UpOffsets'
  <2>1. upOffset + n + (Len(p) - n) = offered
    BY <1>1, <1>3, Numbers DEF UpOffsets
  <2>2. wpc' = "idle" => p' = <<>>
    BY <1>1
  <2> QED
    BY <1>1, <1>2, <1>4, <2>1, <2>2 DEF UpOffsets, writeKeeps, others
<1>10. Orphans'
  BY <1>1, <1>5, OrphansStay DEF writeKeeps, others
<1>11. UpCall(call["up"])'
  BY <1>1, <1>2, <1>7, FreeIsCall DEF UpCall, writeKeeps
<1> QED
  BY <1>8, <1>9, <1>10, <1>11 DEF IInv, UpInv

\* A record that failed or was refused stays in p.
LEMMA WriteFailsPreserves == IInv /\ (WriteFailed \/ WriteEnds) => IInv'
<1> SUFFICES ASSUME IInv, WriteFailed \/ WriteEnds PROVE IInv'
  OBVIOUS
<1>1. /\ TypeOK /\ Opening /\ UpOffsets /\ UpCall(call["up"]) /\ Sizing
      /\ call["up"].step \notin {"free", "ok"}
      /\ call["up"].req.mode = "upload"
      /\ wpc' \in {"next", "stopped"} /\ size' = MinSize
      /\ upSizer' \in {upSizer, FailureReason(upSizer, size)}
      /\ dead' = dead \/ dead' = (dead \/ call["up"].step = "timeout")
      /\ Leaves("up")
      /\ UNCHANGED <<offered, p, upOffset, writeKeeps>>
  BY DEF IInv, UpInv, WriteFailed, WriteEnds, Takes
<1>2. opc = "ready" /\ wpc = "single"
  BY <1>1, UploadIsWrites
<1>3. /\ upOffset \in Nat /\ offered \in Nat /\ MinSize \in Sizes
      /\ dead' \in BOOLEAN
  <2>1. dead \in BOOLEAN
    BY <1>1 DEF TypeOK
  <2>2. (dead \/ call["up"].step = "timeout") \in BOOLEAN
    OBVIOUS
  <2>3. dead' \in BOOLEAN
    BY <1>1, <2>1, <2>2, Zenon
  <2> QED
    BY <2>3, Numbers, MinSizeFits
<1>4. upSizer' \in Sizers /\ InBracket(upSizer') /\ CountersLow(upSizer')
  BY <1>1, FailureReasonFits DEF TypeOK, Sizing
<1>5. /\ call' \in [Dirs -> Calls] /\ call'["down"] = call["down"]
      /\ call'["up"] = Free
  BY <1>1, Numbers, LeavesFits
<1>6. TypeOK' /\ Opening' /\ DownInv' /\ Sizing'
  BY <1>1, <1>2, <1>3, <1>4, <1>5, WriteKeepsRest DEF TypeOK, Sizing
<1>7. UpOffsets'
  BY <1>1, <1>2 DEF UpOffsets, writeKeeps, others
<1>8. Orphans'
  BY <1>1, <1>3, OrphansStay DEF writeKeeps, others
<1>9. UpCall(call["up"])'
  BY <1>1, <1>2, <1>5, FreeIsCall DEF UpCall, writeKeeps
<1> QED
  BY <1>6, <1>7, <1>8, <1>9 DEF IInv, UpInv

-----------------------------------------------------------------------------
(* Read                                                                    *)

\* What Read's steps leave alone.
LEMMA ReadKeepsRest ==
    ASSUME IInv, UNCHANGED readKeeps, dead' \in BOOLEAN,
           call' \in [Dirs -> Calls], call'["up"] = call["up"],
           opc = "ready",
           consumed' \in Seq(Nat), readBuf' \in Seq(Nat),
           downloadOffset' \in Nat, consumedOffset' \in Nat, lastAck' \in Nat,
           eof' \in BOOLEAN, pipeline' \in MinPipeline .. MaxPipeline,
           rpc' \in {"idle", "ack", "acking", "fetch", "batch", "copy", "eof",
                     "stopped"},
           downSizer' \in Sizers, InBracket(downSizer'), CountersLow(downSizer')
    PROVE  TypeOK' /\ Opening' /\ UpInv' /\ Sizing'
<1> USE DEF readKeeps, writer, closer, others, target
<1>1. TypeOK'
  BY DEF IInv, TypeOK
<1>2. Opening'
  BY DEF IInv, Opening
<1>3. UpInv'
  <2>1. SessionMoves
    BY DEF IInv, TypeOK, SessionMoves
  <2> QED
    BY <2>1, UpFrame DEF UpKept
<1>4. Sizing'
  BY DEF IInv, Sizing
<1> QED
  BY <1>1, <1>2, <1>3, <1>4

\* Read is only under way in an open tunnel.
LEMMA ReadIsOpen ==
    ASSUME IInv, \/ rpc # "idle" \/ cpc # "open"
                 \/ call["down"].step # "free"
    PROVE  opc = "ready"
BY FreeIsCall DEF IInv, Opening, DownInv, DownCall

\* Steps of Read that neither take nor leave a lane, and move no data.
LEMMA BeginReadPreserves == IInv /\ BeginRead => IInv'
<1> SUFFICES ASSUME IInv, BeginRead PROVE IInv'
  OBVIOUS
<1>1. /\ TypeOK /\ Sizing /\ DownOffsets /\ Ends /\ Acks
      /\ DownCall(call["down"])
      /\ opc = "ready" /\ rpc = "idle"
      /\ rpc' \in {"copy", "eof", "ack"}
      /\ rpc' = "eof" => eof /\ readBuf = <<>>
      /\ UNCHANGED <<consumed, readBuf, downloadOffset, consumedOffset, lastAck,
                     eof, pipeline, downSizer, dead, call, readKeeps>>
  BY DEF IInv, DownInv, BeginRead
<1>2. TypeOK' /\ Opening' /\ UpInv' /\ Sizing'
  BY <1>1, ReadKeepsRest DEF TypeOK, Sizing
<1>3. DownOffsets' /\ Ends' /\ Acks'
  BY <1>1 DEF DownOffsets, Ends, Acks, readKeeps, closer, others, target
<1>4. DownCall(call["down"])'
  BY <1>1 DEF DownCall, readKeeps, closer
<1> QED
  BY <1>2, <1>3, <1>4 DEF IInv, DownInv

\* A Read enters the download lane with an honest acknowledgement, or with a
\* batch that begins where its buffer ends.
LEMMA ReadEntersPreserves == IInv /\ (StartAck \/ StartBatch) => IInv'
<1> SUFFICES ASSUME IInv, StartAck \/ StartBatch PROVE IInv'
  OBVIOUS
<1>1. /\ TypeOK /\ Sizing /\ DownOffsets /\ Ends /\ Acks
      /\ DownCall(call["down"])
      /\ rpc \in {"ack", "fetch"}
      /\ UNCHANGED <<consumed, readBuf, downloadOffset, consumedOffset, lastAck,
                     eof, pipeline, downSizer, dead, readKeeps>>
  BY DEF IInv, DownInv, StartAck, StartBatch
<1>2. opc = "ready"
  BY <1>1, ReadIsOpen
<1>3. NoRequest \in Requests
  BY BPAssumption DEF NoRequest, Requests
<1>4. PICK request \in Requests :
          /\ Enters("down", request)
          /\ \/ /\ rpc' = "acking" /\ request.mode = "ack"
                /\ request.seq = consumedOffset
             \/ /\ rpc' = "batch" /\ request.mode = "batch"
                /\ request.seq = downloadOffset /\ 0 < request.count
  <2>1. CASE StartAck
    <3> DEFINE request == [NoRequest EXCEPT !.mode = "ack", !.seq = AckOffset]
    <3>1. /\ request \in Requests /\ request.mode = "ack"
          /\ request.seq = consumedOffset
      BY <1>3, Numbers DEF Requests, AckOffset
    <3>2. Enters("down", request) /\ rpc' = "acking"
      BY <2>1 DEF StartAck
    <3> QED
      BY <3>1, <3>2
  <2>2. CASE StartBatch
    <3> DEFINE request == [NoRequest EXCEPT
                   !.mode = "batch", !.seq = downloadOffset,
                   !.max = downSizer.current, !.count = pipeline]
    <3>1. /\ downSizer.current \in Sizes /\ pipeline \in 0 .. MaxPipeline
          /\ 0 < pipeline /\ downloadOffset \in Nat
      BY <1>1, BPAssumption, Numbers DEF TypeOK, Sizers
    <3>2. /\ request \in Requests /\ request.mode = "batch"
          /\ request.seq = downloadOffset /\ request.count = pipeline
      BY <1>3, <3>1 DEF Requests
    <3>3. Enters("down", request) /\ rpc' = "batch"
      BY <2>2 DEF StartBatch
    <3> QED
      BY <3>1, <3>2, <3>3
  <2> QED
    BY <2>1, <2>2
<1>5. /\ call["down"] = Free
      /\ call' \in [Dirs -> Calls] /\ call'["up"] = call["up"]
      /\ call'["down"].step = "ensure" /\ call'["down"].req = request
      /\ call'["down"].out = <<>> /\ call'["down"].got = 0
      /\ call'["down"].last = "ok"
  BY <1>4, Numbers, EntersFits
<1>6. TypeOK' /\ Opening' /\ UpInv' /\ Sizing'
  BY <1>1, <1>2, <1>4, <1>5, ReadKeepsRest DEF TypeOK, Sizing
<1>7. DownOffsets' /\ Ends' /\ Acks'
  BY <1>1, <1>4 DEF DownOffsets, Ends, Acks, readKeeps, closer, others, target
<1>8. rpc' = "batch" => Continues(call["down"])'
  <2>1. Segment(<<>>, downloadOffset) /\ Len(<<>>) = 0
    BY Numbers, EmptySegment
  <2>2. downloadOffset + 0 <= produced
    BY <1>1, Numbers DEF DownOffsets
  <2> QED
    BY <1>1, <1>4, <1>5, <2>1, <2>2 DEF Continues, readKeeps, others, target
<1>9. DownCall(call["down"])'
  <2>1. cpc' # "single" /\ consumedOffset <= consumedOffset
    BY <1>1, <1>5, FreeIsCall, Numbers DEF DownCall, readKeeps, closer
  <2> QED
    BY <1>1, <1>4, <1>5, <1>8, <2>1 DEF DownCall
<1> QED
  BY <1>6, <1>7, <1>9 DEF IInv, DownInv

\* A Read leaves the lane without data.
LEMMA ReadLeavesPreserves ==
    IInv /\ (Acked \/ AckEnds \/ BatchFailed \/ BatchTimedOut) => IInv'
<1> SUFFICES ASSUME IInv, Acked \/ AckEnds \/ BatchFailed \/ BatchTimedOut
             PROVE  IInv'
  OBVIOUS
<1>1. /\ TypeOK /\ Sizing /\ DownOffsets /\ Ends /\ Acks
      /\ DownCall(call["down"])
      /\ call["down"].step # "free"
      /\ call["down"].req.mode \in {"ack", "batch"}
      /\ rpc' \in {"fetch", "ack", "stopped"}
      /\ lastAck' \in {lastAck, consumedOffset}
      /\ downSizer' \in {downSizer,
                         FailureReason(downSizer, call["down"].req.max)}
      /\ Leaves("down")
      /\ UNCHANGED <<consumed, readBuf, downloadOffset, consumedOffset,
                     eof, pipeline, readKeeps>>
  BY DEF IInv, DownInv, Acked, AckEnds, BatchFailed, BatchTimedOut, Takes,
         FaultKinds
<1>2. opc = "ready" /\ cpc # "single"
  BY <1>1, ReadIsOpen DEF DownCall
<1>3. /\ call' \in [Dirs -> Calls] /\ call'["up"] = call["up"]
      /\ call'["down"] = Free
  BY <1>1, Numbers, LeavesFits
<1>4. downSizer' \in Sizers /\ InBracket(downSizer') /\ CountersLow(downSizer')
  BY <1>1, FailureReasonFits DEF TypeOK, Sizing
<1>5. dead' \in BOOLEAN
  <2>1. dead \in BOOLEAN
    BY <1>1 DEF TypeOK
  <2>2. \/ dead' = dead \/ dead' = TRUE
        \/ dead' = (dead \/ call["down"].step = "timeout")
    BY DEF Acked, AckEnds, BatchFailed, BatchTimedOut
  <2>3. (dead \/ call["down"].step = "timeout") \in BOOLEAN
    OBVIOUS
  <2> QED
    BY <2>1, <2>2, <2>3, Zenon
<1>6. lastAck' \in Nat /\ lastAck' <= consumedOffset
  BY <1>1, Numbers DEF Acks
<1>7. TypeOK' /\ Opening' /\ UpInv' /\ Sizing'
  BY <1>1, <1>2, <1>3, <1>4, <1>5, <1>6, ReadKeepsRest DEF TypeOK
<1>8. DownOffsets' /\ Ends' /\ Acks'
  BY <1>1, <1>6 DEF DownOffsets, Ends, Acks, readKeeps, closer, others, target
<1>9. DownCall(call["down"])'
  BY <1>1, <1>2, <1>3, FreeIsCall DEF DownCall, readKeeps, closer
<1> QED
  BY <1>7, <1>8, <1>9 DEF IInv, DownInv

\* The data of a batch that ends well is joined to the buffer.
LEMMA BatchDonePreserves == IInv /\ BatchDone => IInv'
<1> SUFFICES ASSUME IInv, BatchDone PROVE IInv'
  OBVIOUS
<1> DEFINE data == call["down"].out
<1>1. /\ TypeOK /\ Sizing /\ DownOffsets /\ Ends /\ Acks
      /\ DownCall(call["down"])
      /\ call["down"].step = "ok" /\ call["down"].req.mode = "batch"
      /\ readBuf' = readBuf \o data
      /\ downloadOffset' = downloadOffset + Len(data)
      /\ downSizer' \in {downSizer, Success(downSizer, call["down"].req.max)}
      /\ pipeline' \in {pipeline, PipelineAfter(data)}
      /\ eof' = (call["down"].last = "eof")
      /\ rpc' \in {"copy", "eof", "ack"}
      /\ rpc' = "eof" => eof' /\ readBuf' = <<>>
      /\ Leaves("down")
      /\ UNCHANGED <<consumed, consumedOffset, lastAck, dead, readKeeps>>
  BY DEF IInv, DownInv, BatchDone, Takes, EndSeen
<1>2. opc = "ready" /\ cpc # "single" /\ rpc = "batch" /\ Continues(call["down"])
  BY <1>1, ReadIsOpen DEF DownCall
<1>3. /\ Segment(data, downloadOffset)
      /\ downloadOffset + Len(data) <= produced /\ Len(data) \in Nat
      /\ call["down"].last = "eof" =>
             ended /\ downloadOffset + Len(data) = produced
  BY <1>2, Numbers, RequestTypes DEF Continues
<1>4. /\ call' \in [Dirs -> Calls] /\ call'["up"] = call["up"]
      /\ call'["down"] = Free
  BY <1>1, Numbers, LeavesFits
<1>5. downSizer' \in Sizers /\ InBracket(downSizer') /\ CountersLow(downSizer')
  BY <1>1, SuccessFits DEF TypeOK, Sizing
<1>6. pipeline' \in MinPipeline .. MaxPipeline
  <2>1. /\ pipeline \in MinPipeline .. MaxPipeline
        /\ MinPipeline \in Nat /\ MaxPipeline \in Nat
    BY <1>1, BPAssumption DEF TypeOK
  <2> QED
    BY <1>1, <2>1 DEF PipelineAfter
<1> HIDE DEF data
<1>7. /\ Segment(readBuf', consumedOffset)
      /\ Len(readBuf') = Len(readBuf) + Len(data)
  BY <1>1, <1>3, Numbers, SegmentJoin DEF DownOffsets
<1>8. /\ downloadOffset' \in Nat /\ downloadOffset' <= produced
      /\ downloadOffset' = consumedOffset + (Len(readBuf) + Len(data))
  BY <1>1, <1>3, Numbers DEF DownOffsets
<1>9. readBuf' \in Seq(Nat) /\ eof' \in BOOLEAN /\ dead' \in BOOLEAN
  BY <1>1, <1>7 DEF Segment, TypeOK
<1>10. TypeOK' /\ Opening' /\ UpInv' /\ Sizing'
  BY <1>1, <1>2, <1>4, <1>5, <1>6, <1>8, <1>9, ReadKeepsRest DEF TypeOK
<1>11. DownOffsets'
  BY <1>1, <1>7, <1>8 DEF DownOffsets, readKeeps, others, target
<1>12. Ends' /\ Acks'
  BY <1>1, <1>3 DEF Ends, Acks, readKeeps, closer, others, target
<1>13. DownCall(call["down"])'
  BY <1>1, <1>2, <1>4, FreeIsCall DEF DownCall, readKeeps, closer
<1> QED
  BY <1>10, <1>11, <1>12, <1>13 DEF IInv, DownInv

\* Copy moves the cut between what was returned and the buffer.
LEMMA CopyPreserves == IInv /\ Copy => IInv'
<1> SUFFICES ASSUME IInv, Copy PROVE IInv'
  OBVIOUS
<1>1. /\ TypeOK /\ Sizing /\ DownOffsets /\ Ends /\ Acks
      /\ DownCall(call["down"])
      /\ rpc = "copy" /\ rpc' = "idle"
      /\ UNCHANGED <<downloadOffset, lastAck, eof, pipeline, downSizer, dead,
                     call, readKeeps>>
  BY DEF IInv, DownInv, Copy
<1>2. PICK n \in 1 .. Len(readBuf) :
          /\ consumed' = consumed \o SubSeq(readBuf, 1, n)
          /\ readBuf' = SubSeq(readBuf, n + 1, Len(readBuf))
          /\ consumedOffset' = consumedOffset + n
  BY DEF Copy
<1>3. n \in Nat /\ n \in 0 .. Len(readBuf) /\ opc = "ready"
  BY <1>1, <1>2, Numbers, ReadIsOpen
<1>4. /\ Segment(SubSeq(readBuf, 1, n), consumedOffset)
      /\ Len(SubSeq(readBuf, 1, n)) = n
      /\ Segment(readBuf', consumedOffset + n)
      /\ Len(readBuf') = Len(readBuf) - n
  BY <1>1, <1>2, <1>3, Numbers, SegmentCut DEF DownOffsets
<1>5. Segment(consumed', 0) /\ Len(consumed') = Len(consumed) + n
  <2>1. 0 + Len(consumed) = consumedOffset /\ 0 \in Nat
    BY <1>1, Numbers DEF DownOffsets
  <2> QED
    BY <1>1, <1>2, <1>4, <2>1, SegmentJoin DEF DownOffsets
<1>6. /\ consumedOffset' \in Nat /\ consumedOffset <= consumedOffset'
      /\ consumed' \in Seq(Nat) /\ readBuf' \in Seq(Nat)
  <2>1. consumed' \in Seq(Nat) /\ readBuf' \in Seq(Nat)
    BY <1>4, <1>5 DEF Segment
  <2> QED
    BY <1>2, <1>3, <2>1, Numbers
<1>7. TypeOK' /\ Opening' /\ UpInv' /\ Sizing'
  BY <1>1, <1>3, <1>6, ReadKeepsRest DEF TypeOK, Sizing
<1>8. DownOffsets'
  <2>1. downloadOffset = (consumedOffset + n) + (Len(readBuf) - n)
    BY <1>1, <1>3, Numbers DEF DownOffsets
  <2> QED
    BY <1>1, <1>2, <1>4, <1>5, <2>1 DEF DownOffsets, readKeeps, others, target
<1>9. Ends'
  BY <1>1 DEF Ends, readKeeps, others, target
<1>10. Acks'
  <2>1. closeAck \in Nat
    BY <1>1 DEF TypeOK
  <2> QED
    BY <1>1, <1>6, <2>1, Numbers DEF Acks, readKeeps, closer, others
<1>11. DownCall(call["down"])'
  <2>1. call["down"].req.seq \in Nat
    BY Numbers, RequestTypes
  <2> QED
    BY <1>1, <1>6, <2>1, Numbers DEF DownCall, readKeeps, closer
<1> QED
  BY <1>7, <1>8, <1>9, <1>10, <1>11 DEF IInv, DownInv

-----------------------------------------------------------------------------
(* Close                                                                   *)

\* What Close's steps leave alone.
LEMMA CloseKeepsRest ==
    ASSUME IInv, UNCHANGED closeKeeps, opc = "ready",
           lane' \in [Dirs -> Lanes], call' \in [Dirs -> Calls],
           call'["up"] = call["up"],
           cpc' \in {"open", "graceful", "single", "up", "down", "done"},
           closeAck' \in Nat, closeAck' <= consumedOffset
    PROVE  /\ TypeOK' /\ Opening' /\ UpInv' /\ Sizing'
           /\ DownOffsets' /\ Ends' /\ Acks'
<1> USE DEF closeKeeps, writer, reader, others, target
<1>1. TypeOK'
  BY DEF IInv, TypeOK
<1>2. Opening' /\ Sizing'
  BY DEF IInv, Opening, Sizing
<1>3. UpInv'
  <2>1. SessionMoves
    BY DEF IInv, TypeOK, SessionMoves
  <2> QED
    BY <2>1, UpFrame DEF UpKept
<1>4. DownOffsets' /\ Ends' /\ Acks'
  BY DEF IInv, DownInv, DownOffsets, Ends, Acks
<1> QED
  BY <1>1, <1>2, <1>3, <1>4

LEMMA ClosePreserves == IInv /\ (BeginClose \/ CloseStep) => IInv'
<1> SUFFICES ASSUME IInv, BeginClose \/ CloseStep PROVE IInv'
  OBVIOUS
<1>1. /\ TypeOK /\ Acks /\ DownCall(call["down"]) /\ UNCHANGED closeKeeps
      /\ lane \in [Dirs -> Lanes] /\ call \in [Dirs -> Calls]
      /\ closeAck \in Nat /\ closeAck <= consumedOffset /\ 0 <= consumedOffset
  BY Numbers DEF IInv, DownInv, TypeOK, Acks, BeginClose, CloseStep, StartClose,
     CloseSent, CloseLane
<1>2. UNCHANGED <<rpc, downloadOffset, consumedOffset, produced, ended>>
  BY <1>1 DEF closeKeeps, reader, others, target
<1>3. CASE BeginClose
  <2>1. /\ opc = "ready" /\ cpc = "open" /\ cpc' \in {"up", "graceful"}
        /\ closeAck' \in {0, consumedOffset} /\ UNCHANGED <<lane, call>>
    BY <1>3 DEF BeginClose, AckOffset
  <2>2. closeAck' \in Nat /\ closeAck' <= consumedOffset
    BY <1>1, <2>1, Numbers
  <2>3. DownCall(call["down"])'
    BY <1>1, <1>2, <2>1 DEF DownCall, Continues
  <2> QED
    BY <1>1, <2>1, <2>2, <2>3, CloseKeepsRest DEF IInv, DownInv
<1>4. CASE StartClose
  <2> DEFINE request == [NoRequest EXCEPT !.mode = "close", !.seq = closeAck]
  <2>1. /\ request \in Requests /\ request.mode = "close"
        /\ request.seq = closeAck
    <3>1. NoRequest \in Requests
      BY BPAssumption DEF NoRequest, Requests
    <3> QED
      BY <1>1, <3>1 DEF Requests
  <2>2. /\ cpc = "graceful" /\ Enters("down", request) /\ cpc' = "single"
        /\ closeAck' = 0 /\ lane' = lane
    BY <1>4 DEF StartClose
  <2> HIDE DEF request
  <2>3. /\ call["down"] = Free
        /\ call' \in [Dirs -> Calls] /\ call'["up"] = call["up"]
        /\ call'["down"].step = "ensure" /\ call'["down"].req = request
    BY <2>1, <2>2, Numbers, EntersFits
  <2>4. opc = "ready"
    BY <2>2, ReadIsOpen
  <2>5. DownCall(call["down"])'
    BY <1>1, <1>2, <2>1, <2>2, <2>3, FreeIsCall DEF DownCall
  <2> QED
    BY <1>1, <2>2, <2>3, <2>4, <2>5, CloseKeepsRest DEF IInv, DownInv
<1>5. CASE CloseSent
  <2>1. /\ call["down"].step # "free" /\ call["down"].req.mode = "close"
        /\ cpc' = "up" /\ Leaves("down") /\ UNCHANGED <<closeAck, lane>>
    BY <1>5 DEF CloseSent, Takes, FaultKinds
  <2>2. /\ call' \in [Dirs -> Calls] /\ call'["up"] = call["up"]
        /\ call'["down"] = Free
    BY <2>1, Numbers, LeavesFits
  <2>3. opc = "ready"
    BY <2>1, ReadIsOpen
  <2>4. DownCall(call["down"])'
    BY <1>1, <1>2, <2>1, <2>2, FreeIsCall DEF DownCall
  <2> QED
    BY <1>1, <2>1, <2>2, <2>3, <2>4, CloseKeepsRest DEF IInv, DownInv
<1>6. CASE \E l \in Dirs : CloseLane(l)
  <2>1. PICK l \in Dirs : CloseLane(l)
    BY <1>6
  <2>2. /\ cpc \in {"up", "down"} /\ cpc' \in {"down", "done"}
        /\ lane' = [lane EXCEPT ![l] = Shut(lane[l])]
        /\ UNCHANGED <<closeAck, call>>
    BY <2>1 DEF CloseLane, Dirs
  <2>3. lane' \in [Dirs -> Lanes]
    BY <1>1, <2>2, LaneTypes, LaneMoves
  <2>4. opc = "ready"
    BY <2>2, ReadIsOpen
  <2>5. DownCall(call["down"])'
    BY <1>1, <1>2, <2>2 DEF DownCall, Continues
  <2> QED
    BY <1>1, <2>2, <2>3, <2>4, <2>5, CloseKeepsRest DEF IInv, DownInv
<1> QED
  BY <1>3, <1>4, <1>5, <1>6 DEF CloseStep

-----------------------------------------------------------------------------
(* The server                                                              *)

\* What the server has grows within what the caller has handed over, and it
\* forgets no more than Read has returned.
Serves ==
    /\ SessionMoves
    /\ received' \in Seq(Nat) /\ Segment(received', 0)
    /\ Len(received') \in Nat /\ Len(received) <= Len(received')
    /\ Len(received') <= offered
    /\ released' \in Nat /\ released' <= consumedOffset

\* What is new in an honest record continues what the server has.
LEMMA NewBytesFit ==
    ASSUME IInv, NEW r, r.seq \in Nat, Honest(r)
    PROVE  LET s == received \o NewBytes(r)
           IN  /\ s \in Seq(Nat) /\ Segment(s, 0) /\ Len(s) \in Nat
               /\ Len(received) <= Len(s) /\ Len(s) <= offered
               /\ r.seq - 2 + Len(r.payload) <= Len(s)
<1> DEFINE from == r.seq - 2
           had == Len(received)
           k == had - from
           m == Len(r.payload)
           new == NewBytes(r)
<1>1. /\ UpOffsets /\ upOffset \in Nat /\ offered \in Nat
      /\ had \in Nat /\ Segment(received, 0)
      /\ upOffset <= had /\ had <= offered
  BY Numbers DEF IInv, UpInv, UpOffsets
<1>2. /\ from \in Nat /\ Segment(r.payload, from) /\ m \in Nat
      /\ from <= upOffset /\ from + m <= offered
  BY LenProperties DEF Honest, Segment
<1>3. new = SubSeq(r.payload, k + 1, m)
  BY DEF NewBytes
<1> HIDE DEF from, had, new, m
<1>4. k \in Nat /\ from + k = had
  BY <1>1, <1>2
<1> HIDE DEF k
<1>5. Segment(new, had) /\ Len(new) = IF k <= m THEN m - k ELSE 0
  <2>1. CASE k <= m
    <3>1. k \in 0 .. m
      BY <1>2, <1>4, <2>1
    <3>2. k \in 0 .. Len(r.payload)
      BY <3>1 DEF m
    <3>3. /\ Segment(SubSeq(r.payload, k + 1, Len(r.payload)), from + k)
          /\ Len(SubSeq(r.payload, k + 1, Len(r.payload)))
               = Len(r.payload) - k
      BY <1>2, <3>2, SegmentCut
    <3>4. Segment(new, from + k) /\ Len(new) = m - k
      BY <1>3, <3>3 DEF m
    <3> QED
      BY <1>4, <2>1, <3>4
  <2>2. CASE ~(k <= m)
    <3>1. k + 1 \in Int /\ m \in Int /\ k + 1 > m
      BY <1>2, <1>4, <2>2
    <3>2. \A i \in k + 1 .. m : r.payload[i] \in Nat
      BY <3>1
    <3>3. /\ SubSeq(r.payload, k + 1, m) \in Seq(Nat)
          /\ Len(SubSeq(r.payload, k + 1, m))
               = IF k + 1 <= m THEN m - (k + 1) + 1 ELSE 0
      BY <3>1, <3>2, SubSeqProperties
    <3>4. new \in Seq(Nat) /\ Len(new) = 0
      BY <1>3, <3>1, <3>3
    <3>5. new = <<>>
      BY <3>4, EmptySeq
    <3>6. Segment(new, had)
      BY <1>1, <3>5, EmptySegment
    <3> QED
      BY <2>2, <3>4, <3>6
  <2> QED
    BY <2>1, <2>2
<1>6. /\ Segment(received \o new, 0)
      /\ Len(received \o new) = had + Len(new)
  <2>1. Segment(new, 0 + Len(received)) /\ 0 \in Nat
    BY <1>1, <1>5 DEF had
  <2>2. /\ Segment(received \o new, 0)
        /\ Len(received \o new) = Len(received) + Len(new)
    BY <1>1, <2>1, SegmentJoin
  <2> QED
    BY <2>2 DEF had
<1>7. Len(new) \in Nat /\ had + Len(new) <= offered
      /\ from + m <= had + Len(new)
  <2>1. CASE k <= m
    BY <1>1, <1>2, <1>4, <1>5, <2>1
  <2>2. CASE ~(k <= m)
    BY <1>1, <1>2, <1>4, <1>5, <2>2
  <2> QED
    BY <2>1, <2>2
<1>8. /\ received \o new \in Seq(Nat) /\ Len(received \o new) \in Nat
      /\ had <= Len(received \o new) /\ Len(received \o new) <= offered
      /\ from + m <= Len(received \o new)
  BY <1>1, <1>6, <1>7 DEF Segment
<1> QED
  BY <1>6, <1>8 DEF from, had, new, m

\* The effect of a request on the server; what an "ok" stands for is done.
LEMMA ServeFits ==
    ASSUME IInv, NEW l \in Dirs, call[l].step # "free",
           call[l].req.mode # "batch", Serve(call[l].req)
    PROVE  /\ Serves
           /\ l = "up" => released' = released
           /\ l = "down" => received' = received
           /\ call[l].req.mode = "register" /\ session # "closed"
                  => session' # "none"
           /\ call[l].req.mode = "open" /\ session # "closed"
                  => session' \in {"open", "closed"}
           /\ call[l].req.mode = "upload" /\ session # "closed"
                  => upOffset + Len(call[l].req.payload) <= Len(received')
<1> DEFINE r == call[l].req
<1>1. /\ TypeOK /\ Opening /\ UpOffsets /\ Acks
      /\ UpCall(call["up"]) /\ DownCall(call["down"])
      /\ call[l] \in Calls /\ r.seq \in Nat
  BY RequestTypes DEF IInv, UpInv, DownInv, TypeOK
<1>2. /\ l = "up" => r.mode \in {"register", "open", "upload"}
      /\ l = "down" => r.mode \in {"ack", "close"}
      /\ r.mode \in {"register", "open"} => opc = r.mode
      /\ r.mode = "upload" => opc = "ready" /\ Honest(r)
                              /\ r.seq = upOffset + 2
      /\ r.mode \in {"ack", "close"} => r.seq <= consumedOffset
  <2>1. CASE l = "up"
    <3>1. opc # "failed" /\ opc \in {"register", "open", "ready", "failed"}
      BY <1>1, <2>1 DEF TypeOK, UpCall, Opening
    <3>2. r.mode = IF opc = "ready" THEN "upload" ELSE opc
      BY <1>1, <2>1 DEF UpCall
    <3>3. r.mode = "upload" => Honest(r) /\ r.seq = upOffset + 2
      BY <1>1, <2>1, <3>1, <3>2 DEF UpCall
    <3> QED
      BY <2>1, <3>1, <3>2, <3>3
  <2>2. CASE l = "down"
    BY <1>1, <2>2 DEF DownCall
  <2> QED
    BY <2>1, <2>2 DEF Dirs
<1>3. /\ SessionMoves
      /\ r.mode = "register" /\ session # "closed" => session' # "none"
      /\ r.mode = "open" /\ session # "closed"
             => session' \in {"open", "closed"}
  <2>1. r.mode = "open" => session # "none"
    BY <1>1, <1>2 DEF Opening
  <2>2. /\ r.mode = "register" =>
               session' = IF session = "none" THEN "registered" ELSE session
        /\ r.mode = "open" =>
               session' = IF session = "registered" THEN "open" ELSE session
        /\ r.mode = "close" => session' = "closed"
        /\ r.mode \in {"ack", "upload"} => session' = session
    BY DEF Serve
  <2>3. session \in {"none", "registered", "open", "closed"}
    BY <1>1 DEF TypeOK
  <2> QED
    BY <1>2, <2>1, <2>2, <2>3 DEF SessionMoves, Dirs
<1>4. /\ received' \in Seq(Nat) /\ Segment(received', 0)
      /\ Len(received') \in Nat /\ Len(received) <= Len(received')
      /\ Len(received') <= offered
      /\ l = "down" => received' = received
      /\ r.mode = "upload" /\ session # "closed"
                  => upOffset + Len(r.payload) <= Len(received')
  <2>1. CASE r.mode = "upload" /\ session = "open"
    <3>1. received' = received \o NewBytes(r)
      BY <2>1 DEF Serve
    <3>2. upOffset + 2 - 2 = upOffset
      BY Numbers
    <3>3. /\ received' \in Seq(Nat) /\ Segment(received', 0)
          /\ Len(received') \in Nat /\ Len(received) <= Len(received')
          /\ Len(received') <= offered
          /\ r.seq - 2 + Len(r.payload) <= Len(received')
      BY <1>1, <1>2, <2>1, <3>1, NewBytesFit
    <3>4. r.seq - 2 = upOffset
      <4>1. r.seq = upOffset + 2
        BY <1>2, <2>1
      <4>2. upOffset \in Nat /\ r.seq \in Nat
        BY <1>1, Numbers
      <4> HIDE DEF r
      <4> QED
        BY <4>1, <4>2
    <3>5. upOffset + Len(r.payload) <= Len(received')
      BY <3>3, <3>4
    <3>6. l # "down"
      BY <1>2, <2>1
    <3> QED
      BY <3>3, <3>5, <3>6
  <2>2. CASE ~(r.mode = "upload" /\ session = "open")
    <3>1. received' = received
      BY <2>2 DEF Serve
    <3>2. ~(r.mode = "upload" /\ session # "closed")
      BY <1>1, <1>2, <2>2 DEF Opening
    <3> QED
      BY <1>1, <3>1, <3>2, Numbers DEF UpOffsets, TypeOK
  <2> QED
    BY <2>1, <2>2
<1>5. /\ released' \in Nat /\ released' <= consumedOffset
      /\ l = "up" => released' = released
  <2>1. released' = IF r.mode \in {"ack", "close"} /\ session = "open"
                    THEN Larger(released, r.seq) ELSE released
    BY DEF Serve
  <2> QED
    BY <1>1, <1>2, <2>1, Numbers DEF Larger, Acks
<1> QED
  BY <1>3, <1>4, <1>5 DEF Serves

LEMMA NothingServed ==
    ASSUME IInv, UNCHANGED <<session, received, released>>
    PROVE  Serves
BY Numbers DEF IInv, TypeOK, UpInv, UpOffsets, DownInv, Acks, Serves,
   SessionMoves

-----------------------------------------------------------------------------
(* Requests on the lanes                                                   *)

OrphanRecords == [seq : Nat, payload : Seq(Nat)]

\* What a request under way leaves alone.
LEMMA LaneKeepsRest ==
    ASSUME IInv, UNCHANGED clientKeeps, Serves,
           lane' \in [Dirs -> Lanes], call' \in [Dirs -> Calls],
           orphans' \subseteq OrphanRecords
    PROVE  TypeOK' /\ Opening' /\ Sizing'
<1> USE DEF clientKeeps, writer, reader, closer, target
<1>1. TypeOK'
  BY DEF IInv, TypeOK, Serves, SessionMoves, OrphanRecords
<1>2. Opening' /\ Sizing'
  BY DEF IInv, Opening, Sizing, Serves, SessionMoves
<1> QED
  BY <1>1, <1>2

\* The upload lane's request goes on, or is answered "ok" for good reason.
LEMMA UpServed ==
    ASSUME IInv, UNCHANGED clientKeeps, Serves, Orphans',
           call["up"].step # "free", call'["up"].step # "free",
           call'["up"].req = call["up"].req,
           call'["up"].step = "ok" =>
               /\ call["up"].req.mode = "register" => session' # "none"
               /\ call["up"].req.mode = "open" =>
                      session' \in {"open", "closed"}
               /\ call["up"].req.mode = "upload" =>
                      upOffset + Len(call["up"].req.payload) <= Len(received')
    PROVE  UpInv'
<1>1. UNCHANGED <<opc, wpc, offered, p, upOffset>>
  BY DEF clientKeeps, writer
<1>2. UpOffsets'
  BY <1>1, Numbers DEF IInv, UpInv, UpOffsets, Serves
<1>3. UpCall(call["up"])'
  BY <1>1 DEF IInv, UpInv, UpCall, Honest
<1> QED
  BY <1>2, <1>3 DEF UpInv

\* The download lane's request goes on.
LEMMA DownServed ==
    ASSUME IInv, UNCHANGED clientKeeps, Serves,
           call["down"].step # "free", call'["down"].step # "free",
           call'["down"].req = call["down"].req,
           call["down"].req.mode = "batch" => Continues(call'["down"])
    PROVE  DownInv'
<1>1. UNCHANGED <<rpc, cpc, consumed, readBuf, downloadOffset, consumedOffset,
                  lastAck, closeAck, eof, produced, ended>>
  BY DEF clientKeeps, reader, closer, target
<1>2. DownOffsets' /\ Ends' /\ Acks'
  BY <1>1 DEF IInv, DownInv, DownOffsets, Ends, Acks, Serves
<1>3. DownCall(call["down"])'
  <2>1. DownCall(call["down"])
    BY DEF IInv, DownInv
  <2>2. rpc = "batch" => Continues(call["down"])'
    BY <1>1, <2>1 DEF DownCall, Continues
  <2> QED
    BY <1>1, <2>1, <2>2 DEF DownCall
<1> QED
  BY <1>2, <1>3 DEF DownInv

\* A call that moves on, whatever of it the server has done.
LEMMA CallGoesOn ==
    ASSUME IInv, UNCHANGED clientKeeps, Serves, NEW l \in Dirs,
           call[l].step # "free",
           NEW c \in Calls, call' = [call EXCEPT ![l] = c],
           c.step # "free", c.req = call[l].req,
           lane' \in [Dirs -> Lanes],
           Orphans', orphans' \subseteq OrphanRecords,
           l = "up" => released' = released,
           l = "down" => received' = received /\ orphans' = orphans,
           l = "up" /\ c.step = "ok" =>
               /\ call[l].req.mode = "register" => session' # "none"
               /\ call[l].req.mode = "open" => session' \in {"open", "closed"}
               /\ call[l].req.mode = "upload" =>
                      upOffset + Len(call[l].req.payload) <= Len(received'),
           l = "down" /\ call[l].req.mode = "batch" => Continues(c)
    PROVE  IInv'
<1>1. /\ call' \in [Dirs -> Calls] /\ call'[l] = c
      /\ l = "up" => call'["down"] = call["down"]
      /\ l = "down" => call'["up"] = call["up"]
  BY CallMoves DEF IInv, TypeOK
<1>2. TypeOK' /\ Opening' /\ Sizing'
  BY <1>1, LaneKeepsRest
<1>3. CASE l = "up"
  <2>1. UpInv'
    BY <1>1, <1>3, UpServed
  <2>2. DownInv'
    BY <1>1, <1>3, DownFrame DEF DownKept, clientKeeps, reader, closer, target
  <2> QED
    BY <1>2, <2>1, <2>2 DEF IInv
<1>4. CASE l = "down"
  <2>1. UpInv'
    BY <1>1, <1>4, UpFrame DEF UpKept, clientKeeps, writer, Serves
  <2>2. DownInv'
    BY <1>1, <1>4, DownServed
  <2> QED
    BY <1>2, <2>1, <2>2 DEF IInv
<1> QED
  BY <1>3, <1>4 DEF Dirs

\* A batch that has no data yet.
LEMMA EmptyContinues ==
    ASSUME IInv, call["down"].req.mode = "batch",
           call["down"].step \in {"ensure", "recv"},
           NEW c, c.req = call["down"].req, c.out = <<>>, c.last = "ok",
           c.got = 0
    PROVE  Continues(c)
<1>1. /\ rpc = "batch" /\ Continues(call["down"]) /\ DownOffsets
      /\ 0 < call["down"].req.count
  <2>1. rpc = "batch" /\ Continues(call["down"]) /\ DownOffsets
    BY DEF IInv, DownInv, DownCall
  <2> QED
    BY <2>1, Numbers, RequestTypes DEF Continues
<1>2. Segment(<<>>, downloadOffset) /\ Len(<<>>) = 0
  BY Numbers, EmptySegment
<1>3. downloadOffset + 0 <= produced
  BY <1>1, Numbers DEF DownOffsets
<1> QED
  BY <1>1, <1>2, <1>3 DEF Continues

\* After a fault the call is tried again from its start, or has failed.
LEMMA FaultCall ==
    ASSUME IInv, NEW l \in Dirs, NEW kind \in FaultKinds, AfterFault(l, kind)
    PROVE  \E c \in Calls :
               /\ call' = [call EXCEPT ![l] = c]
               /\ c.step \in {"ensure", "timeout", "error"}
               /\ c.req = call[l].req
               /\ c.out = <<>> /\ c.got = 0 /\ c.last = "ok"
<1>1. call \in [Dirs -> Calls] /\ call[l] \in Calls
  BY DEF IInv, TypeOK
<1>2. 0 \in 0 .. MaxPipeline /\ <<>> \in Seq(Nat) /\ 2 \in 0 .. 2
  BY BPAssumption
<1>3. CASE call' = [call EXCEPT ![l].step = kind, ![l].out = <<>>,
                                ![l].got = 0, ![l].last = "ok"]
  <2> DEFINE c == [call[l] EXCEPT !.step = kind, !.out = <<>>,
                                  !.got = 0, !.last = "ok"]
  <2>1. /\ c \in Calls /\ c.step = kind /\ c.req = call[l].req
        /\ c.out = <<>> /\ c.got = 0 /\ c.last = "ok"
    BY <1>1, <1>2 DEF Calls, FaultKinds
  <2>2. call' = [call EXCEPT ![l] = c]
    BY <1>1, <1>3
  <2> QED
    BY <2>1, <2>2 DEF FaultKinds
<1>4. CASE call' = [call EXCEPT ![l].step = "ensure", ![l].attempt = 2,
                                ![l].out = <<>>, ![l].got = 0,
                                ![l].last = "ok"]
  <2> DEFINE c == [call[l] EXCEPT !.step = "ensure", !.attempt = 2,
                                  !.out = <<>>, !.got = 0, !.last = "ok"]
  <2>1. /\ c \in Calls /\ c.step = "ensure" /\ c.req = call[l].req
        /\ c.out = <<>> /\ c.got = 0 /\ c.last = "ok"
    BY <1>1, <1>2 DEF Calls
  <2>2. call' = [call EXCEPT ![l] = c]
    BY <1>1, <1>4
  <2> QED
    BY <2>1, <2>2
<1> QED
  BY <1>3, <1>4 DEF AfterFault

\* Whatever the server has done of a request, or may do later, a fault of its
\* connection keeps the invariant.
LEMMA FaultPreserves ==
    ASSUME IInv, UNCHANGED clientKeeps, Serves, NEW l \in Dirs,
           call[l].step \in {"ensure", "recv"},
           NEW kind \in FaultKinds, AfterFault(l, kind),
           lane' \in [Dirs -> Lanes],
           Orphans', orphans' \subseteq OrphanRecords,
           l = "up" => released' = released,
           l = "down" => received' = received /\ orphans' = orphans
    PROVE  IInv'
<1>1. PICK c \in Calls :
          /\ call' = [call EXCEPT ![l] = c]
          /\ c.step \in {"ensure", "timeout", "error"}
          /\ c.req = call[l].req
          /\ c.out = <<>> /\ c.got = 0 /\ c.last = "ok"
  BY FaultCall
<1>2. l = "down" /\ call[l].req.mode = "batch" => Continues(c)
  BY <1>1, EmptyContinues
<1> QED
  BY <1>1, <1>2, CallGoesOn

\* What a request on the lane finds when its step begins.
LEMMA LaneFacts ==
    ASSUME IInv, NEW l \in Dirs
    PROVE  /\ call \in [Dirs -> Calls] /\ call[l] \in Calls
           /\ lane \in [Dirs -> Lanes] /\ lane[l] \in Lanes
           /\ Ensured(l) \in Lanes
           /\ Orphans /\ orphans \subseteq OrphanRecords
<1>1. /\ call \in [Dirs -> Calls] /\ call[l] \in Calls
      /\ lane \in [Dirs -> Lanes] /\ lane[l] \in Lanes
      /\ Orphans /\ orphans \subseteq OrphanRecords
  BY DEF IInv, TypeOK, UpInv, OrphanRecords
<1>2. Ensured(l) \in Lanes
  BY <1>1, LaneTypes DEF Ensured
<1> QED
  BY <1>1, <1>2

\* The late records stay honest while nothing is handed over or written.
LEMMA SameOrphans ==
    ASSUME IInv, UNCHANGED clientKeeps, orphans' \subseteq orphans
    PROVE  Orphans'
BY DEF IInv, UpInv, Orphans, Honest, clientKeeps, writer

LEMMA EnsurePreserves ==
    ASSUME IInv, NEW l \in Dirs,
           \/ EnsureClosed(l) \/ Send(l)
           \/ \E kind \in FaultKinds : SendFails(l, kind)
    PROVE  IInv'
<1>1. /\ call[l].step = "ensure"
      /\ UNCHANGED <<clientKeeps, session, received, orphans, released>>
  BY DEF EnsureClosed, Send, SendFails
<1>2. Serves /\ Orphans' /\ orphans' \subseteq OrphanRecords
  BY <1>1, NothingServed, SameOrphans, LaneFacts
<1>3. CASE EnsureClosed(l)
  <2>1. lane' \in [Dirs -> Lanes] /\ AfterFault(l, "error")
        /\ "error" \in FaultKinds
    BY <1>3, LaneFacts DEF EnsureClosed, FaultKinds
  <2> QED
    BY <1>1, <1>2, <2>1, FaultPreserves
<1>4. CASE Send(l)
  <2> DEFINE c == [call[l] EXCEPT !.step = "recv"]
  <2>1. lane' \in [Dirs -> Lanes]
    BY <1>4, LaneFacts, LaneMoves DEF Send
  <2>2. /\ c \in Calls /\ c.step = "recv" /\ c.req = call[l].req
        /\ c.out = call[l].out /\ c.got = call[l].got
        /\ c.last = call[l].last
    BY LaneFacts DEF Calls
  <2>3. call' = [call EXCEPT ![l] = c]
    BY <1>4, LaneFacts DEF Send
  <2> HIDE DEF c
  <2>4. l = "down" /\ call[l].req.mode = "batch" => Continues(c)
    BY <1>1, <2>2 DEF IInv, DownInv, DownCall, Continues
  <2> QED
    BY <1>1, <1>2, <2>1, <2>2, <2>3, <2>4, CallGoesOn
<1>5. CASE \E kind \in FaultKinds : SendFails(l, kind)
  <2>1. PICK kind \in FaultKinds : SendFails(l, kind)
    BY <1>5
  <2>2. AfterFault(l, kind) /\ lane' = [lane EXCEPT ![l] = Failed(Ensured(l))]
    BY <2>1 DEF SendFails
  <2>3. lane' \in [Dirs -> Lanes]
    BY <2>2, LaneFacts, LaneTypes, LaneMoves
  <2> QED
    BY <1>1, <1>2, <2>2, <2>3, FaultPreserves
<1> QED
  BY <1>3, <1>4, <1>5

\* A connection that breaks leaves its request undone, done, or, if it was a
\* record, still to be done.
LEMMA AnswerLostPreserves ==
    ASSUME IInv, NEW l \in Dirs, NEW kind \in FaultKinds, AnswerLost(l, kind)
    PROVE  IInv'
<1>1. /\ call[l].step = "recv" /\ AfterFault(l, kind)
      /\ UNCHANGED clientKeeps
      /\ lane' = [lane EXCEPT ![l] = Failed(lane[l])]
  BY DEF AnswerLost
<1>2. lane' \in [Dirs -> Lanes]
  BY <1>1, LaneFacts, LaneTypes, LaneMoves
<1>3. CASE UNCHANGED <<session, received, orphans, released>>
  BY <1>1, <1>2, <1>3, NothingServed, SameOrphans, LaneFacts, FaultPreserves
<1>4. CASE /\ call[l].req.mode \notin {"batch", "upload"}
           /\ Serve(call[l].req)
           /\ UNCHANGED orphans
  <2>1. /\ Serves
        /\ l = "up" => released' = released
        /\ l = "down" => received' = received
    BY <1>1, <1>4, ServeFits
  <2> QED
    BY <1>1, <1>2, <1>4, <2>1, SameOrphans, LaneFacts, FaultPreserves
<1>5. CASE /\ call[l].req.mode = "upload" /\ session = "open"
           /\ orphans' = orphans \cup {[seq |-> call[l].req.seq,
                                        payload |-> call[l].req.payload]}
           /\ UNCHANGED <<session, received, released>>
  <2>1. l = "up"
    BY <1>1, <1>5 DEF IInv, DownInv, DownCall, Dirs
  <2>2. Honest(call[l].req)
    BY <1>1, <1>5, <2>1, UploadIsWrites DEF IInv, UpInv, UpCall
  <2>3. /\ call[l].req.seq \in Nat /\ call[l].req.payload \in Seq(Nat)
        /\ orphans \subseteq OrphanRecords /\ Orphans
    BY LaneFacts, RequestTypes
  <2>4. PICK r \in OrphanRecords :
            /\ r.seq = call[l].req.seq /\ r.payload = call[l].req.payload
            /\ orphans' = orphans \cup {r}
    BY <1>5, <2>3 DEF OrphanRecords
  <2>5. orphans' \subseteq OrphanRecords
    BY <2>3, <2>4
  <2>6. upOffset' = upOffset /\ offered' = offered
    BY <1>1 DEF clientKeeps, writer
  <2>7. Honest(r)
    BY <2>2, <2>4 DEF Honest
  <2>8. \A x \in orphans' : Honest(x)
    BY <2>3, <2>4, <2>7 DEF Orphans
  <2>9. Orphans'
    BY <2>6, <2>8 DEF Orphans, Honest
  <2> QED
    BY <1>1, <1>2, <1>5, <2>1, <2>5, <2>9, NothingServed, FaultPreserves
<1> QED
  BY <1>3, <1>4, <1>5 DEF AnswerLost

\* An answered request has been done, unless the session is over.
LEMMA AnswerPreserves ==
    ASSUME IInv, NEW l \in Dirs, Answer(l)
    PROVE  IInv'
<1> DEFINE step == IF session = "closed" THEN "refused" ELSE "ok"
           c == [call[l] EXCEPT !.step = step]
<1>1. /\ call[l].step = "recv" /\ call[l].req.mode # "batch"
      /\ Serve(call[l].req) /\ UNCHANGED clientKeeps /\ orphans' = orphans
      /\ lane' = [lane EXCEPT ![l] = Answered(lane[l])]
      /\ call' = [call EXCEPT ![l].step = step]
  BY DEF Answer
<1>2. lane' \in [Dirs -> Lanes]
  BY <1>1, LaneFacts, LaneTypes, LaneMoves
<1>3. /\ Serves
      /\ l = "up" => released' = released
      /\ l = "down" => received' = received
      /\ session # "closed" =>
             /\ call[l].req.mode = "register" => session' # "none"
             /\ call[l].req.mode = "open" => session' \in {"open", "closed"}
             /\ call[l].req.mode = "upload" =>
                    upOffset + Len(call[l].req.payload) <= Len(received')
  BY <1>1, ServeFits
<1>4. /\ c \in Calls /\ c.step = step /\ c.step \in {"ok", "refused"}
      /\ c.req = call[l].req
      /\ call' = [call EXCEPT ![l] = c]
  <2>1. step \in {"ok", "refused"}
    OBVIOUS
  <2> HIDE DEF step
  <2> QED
    BY <1>1, <2>1, LaneFacts DEF Calls
<1>5. c.step = "ok" => session # "closed"
  BY <1>4
<1> HIDE DEF c
<1>6. Orphans' /\ orphans' \subseteq OrphanRecords
  BY <1>1, SameOrphans, LaneFacts
<1> QED
  BY <1>1, <1>2, <1>3, <1>4, <1>5, <1>6, CallGoesOn

-----------------------------------------------------------------------------
(* The responses of a batch                                                *)

\* What a response finds: the batch continues the stream, and one more place
\* of it is awaited.
LEMMA AwaitedFacts ==
    ASSUME IInv, Awaited
    PROVE  LET c == call["down"]
           IN  /\ c \in Calls /\ c.step = "recv" /\ c.req.mode = "batch"
               /\ Continues(c) /\ c.got < c.req.count
               /\ Cursor = downloadOffset + Len(c.out)
               /\ Cursor \in Nat /\ Cursor <= produced
<1>1. /\ call["down"] \in Calls /\ call["down"].step = "recv"
      /\ call["down"].req.mode = "batch" /\ DownCall(call["down"])
  BY Numbers DEF IInv, DownInv, Awaited
<1>2. Continues(call["down"])
  BY <1>1 DEF DownCall
<1>3. /\ call["down"].got < call["down"].req.count
      /\ call["down"].req.seq = downloadOffset
      /\ downloadOffset + Len(call["down"].out) <= produced
  BY <1>1, <1>2 DEF Continues
<1>4. Cursor = downloadOffset + Len(call["down"].out)
  BY <1>3 DEF Cursor
<1>5. Cursor \in Nat
  BY <1>1, <1>4, Numbers, RequestTypes
<1> QED
  BY <1>1, <1>2, <1>3, <1>4, <1>5

\* A response whose bytes continue the stream, and that is an EOF only at its
\* end, keeps the invariant.
LEMMA RespondsPreserves ==
    ASSUME IInv, Awaited, NEW status \in {"data", "wait", "eof"}, NEW bytes,
           Segment(bytes, Cursor), Cursor + Len(bytes) <= produced,
           status = "eof" => ended /\ Cursor + Len(bytes) = produced,
           Responds(status, bytes)
    PROVE  IInv'
<1> DEFINE b == call["down"]
           over == b.got + 1 = b.req.count
           c == [b EXCEPT !.step = IF over THEN "ok" ELSE @,
                          !.got = IF over THEN 0 ELSE @ + 1,
                          !.out = @ \o bytes, !.last = status]
<1>1. /\ call' = [call EXCEPT !["down"] = c]
      /\ lane' = [lane EXCEPT !["down"] =
                      IF over THEN Answered(lane["down"]) ELSE lane["down"]]
      /\ UNCHANGED <<clientKeeps, session, received, orphans, released>>
  BY DEF Responds
<1>2. /\ b \in Calls /\ b.step = "recv" /\ b.req.mode = "batch"
      /\ Continues(b) /\ b.got < b.req.count
      /\ Cursor = downloadOffset + Len(b.out)
      /\ Cursor \in Nat
  BY AwaitedFacts
<1>3. /\ b.got \in Nat /\ b.req.count \in 0 .. MaxPipeline
      /\ b.out \in Seq(Nat) /\ Len(b.out) \in Nat
  BY <1>2, RequestTypes
<1>4. /\ Segment(b.out \o bytes, downloadOffset)
      /\ Len(b.out \o bytes) = Len(b.out) + Len(bytes)
      /\ b.out \o bytes \in Seq(Nat) /\ Len(bytes) \in Nat
  <2>1. Segment(b.out, downloadOffset) /\ downloadOffset \in Nat
    BY <1>2, Numbers DEF Continues
  <2>2. Segment(b.out \o bytes, downloadOffset)
        /\ Len(b.out \o bytes) = Len(b.out) + Len(bytes)
    BY <1>2, <2>1, SegmentJoin
  <2> QED
    BY <1>2, <2>2, SegmentShape DEF Segment
<1> DEFINE step == IF over THEN "ok" ELSE "recv"
           got == IF over THEN 0 ELSE b.got + 1
<1>5. got \in 0 .. MaxPipeline /\ got < b.req.count
      /\ step \in {"ok", "recv"}
  <2>1. /\ b.got \in Nat /\ b.req.count \in Nat /\ b.got < b.req.count
        /\ b.req.count <= MaxPipeline /\ MaxPipeline \in Nat
    BY <1>2, <1>3, BPAssumption
  <2> HIDE DEF b
  <2>2. got \in 0 .. MaxPipeline /\ got < b.req.count
    BY <2>1
  <2> QED
    BY <2>2
<1>6. /\ c \in Calls /\ c.step \in {"ok", "recv"} /\ c.req = b.req
      /\ c.got = got /\ c.out = b.out \o bytes /\ c.last = status
  <2>1. c = [b EXCEPT !.step = step, !.got = got, !.out = b.out \o bytes,
                      !.last = status]
    BY <1>2 DEF Calls
  <2> HIDE DEF c, step, got
  <2> QED
    BY <1>2, <1>4, <1>5, <2>1 DEF Calls
<1>7. lane' \in [Dirs -> Lanes]
  <2> DEFINE n == IF over THEN Answered(lane["down"]) ELSE lane["down"]
  <2>1. n \in Lanes
    BY LaneTypes, Numbers
  <2>2. lane' = [lane EXCEPT !["down"] = n]
    BY <1>1
  <2> HIDE DEF n
  <2> QED
    BY <2>1, <2>2, LaneFacts, LaneMoves, Numbers
<1> HIDE DEF c, b, over, got
<1>8. Continues(c)
  <2>1. /\ c.req.seq = downloadOffset /\ Segment(c.out, downloadOffset)
        /\ c.got < c.req.count
    BY <1>2, <1>4, <1>5, <1>6 DEF Continues
  <2>2. downloadOffset + Len(c.out) = Cursor + Len(bytes)
    BY <1>2, <1>3, <1>4, <1>6, Numbers
  <2> QED
    BY <1>6, <2>1, <2>2 DEF Continues
<1>9. Serves /\ Orphans' /\ orphans' \subseteq OrphanRecords
  BY <1>1, NothingServed, SameOrphans, LaneFacts, Numbers
<1>10. "down" \in Dirs /\ c.step # "free" /\ call["down"].step # "free"
  BY <1>2, <1>6 DEF Dirs, b
<1>11. c.req = call["down"].req
  BY <1>6 DEF b
<1> QED
  BY <1>1, <1>6, <1>7, <1>8, <1>9, <1>10, <1>11, CallGoesOn

LEMMA DataResponsePreserves == IInv /\ DataResponse => IInv'
<1> SUFFICES ASSUME IInv, DataResponse PROVE IInv'
  OBVIOUS
<1>1. Awaited
  BY DEF DataResponse
<1>2. PICK n \in 1 .. Smaller(call["down"].req.max, produced - Cursor) :
          Responds("data", [i \in 1 .. n |-> Cursor + i])
  BY DEF DataResponse
<1>3. Cursor \in Nat /\ Cursor <= produced /\ produced \in Nat
      /\ call["down"].req.max \in Nat
  BY <1>1, AwaitedFacts, Numbers, RequestTypes
<1>4. n \in Nat /\ Cursor + n <= produced
  BY <1>2, <1>3 DEF Smaller
<1>5. /\ Segment([i \in 1 .. n |-> Cursor + i], Cursor)
      /\ Len([i \in 1 .. n |-> Cursor + i]) = n
  BY <1>3, <1>4, SegmentFresh
<1> QED
  BY <1>1, <1>2, <1>4, <1>5, RespondsPreserves

LEMMA EndResponsePreserves == IInv /\ EndResponse => IInv'
<1> SUFFICES ASSUME IInv, EndResponse PROVE IInv'
  OBVIOUS
<1>1. /\ Awaited /\ Cursor >= produced
      /\ Responds(IF ended THEN "eof" ELSE "wait", <<>>)
  BY DEF EndResponse
<1>2. Cursor \in Nat /\ Cursor = produced
  BY <1>1, AwaitedFacts, Numbers
<1>3. Segment(<<>>, Cursor) /\ Cursor + Len(<<>>) = produced
  BY <1>2, EmptySegment
<1>4. Cursor + Len(<<>>) <= produced
  BY <1>2, <1>3, Numbers
<1>5. CASE ended
  BY <1>1, <1>3, <1>4, <1>5, RespondsPreserves
<1>6. CASE ~ended
  BY <1>1, <1>3, <1>4, <1>6, RespondsPreserves
<1> QED
  BY <1>5, <1>6

LEMMA ErrorResponsePreserves == IInv /\ ErrorResponse => IInv'
<1> SUFFICES ASSUME IInv, ErrorResponse PROVE IInv'
  OBVIOUS
<1> DEFINE c == [call["down"] EXCEPT !.step = "refused", !.got = 0,
                                     !.last = "ok"]
<1>1. /\ Awaited
      /\ lane' = [lane EXCEPT !["down"] = Discarded(lane["down"])]
      /\ call' = [call EXCEPT !["down"].step = "refused", !["down"].got = 0,
                              !["down"].last = "ok"]
      /\ UNCHANGED <<clientKeeps, session, received, orphans, released>>
  BY DEF ErrorResponse
<1>2. 0 \in 0 .. MaxPipeline
  BY BPAssumption
<1>3. /\ c \in Calls /\ c.step = "refused" /\ c.req = call["down"].req
      /\ c.out = call["down"].out /\ c.last = "ok"
  BY <1>1, <1>2, AwaitedFacts DEF Calls
<1>4. call' = [call EXCEPT !["down"] = c]
  BY <1>1, LaneFacts, Numbers
<1> HIDE DEF c
<1>5. lane' \in [Dirs -> Lanes]
  BY <1>1, LaneFacts, LaneTypes, LaneMoves, Numbers
<1>6. Continues(c)
  BY <1>1, <1>3, AwaitedFacts DEF Continues
<1>7. Serves /\ Orphans' /\ orphans' \subseteq OrphanRecords
  BY <1>1, NothingServed, SameOrphans, LaneFacts, Numbers
<1>8. call["down"].step # "free" /\ "down" \in Dirs
  BY <1>1, AwaitedFacts DEF Dirs
<1> QED
  BY <1>1, <1>3, <1>4, <1>5, <1>6, <1>7, <1>8, CallGoesOn

-----------------------------------------------------------------------------
(* The server and the target                                               *)

LEMMA ServeOrphanPreserves == IInv /\ ServeOrphan => IInv'
<1> SUFFICES ASSUME IInv, ServeOrphan PROVE IInv'
  OBVIOUS
<1>1. PICK r \in orphans : /\ received' = received \o NewBytes(r)
                           /\ orphans' = orphans \ {r}
  BY DEF ServeOrphan
<1>2. UNCHANGED <<clientKeeps, lane, call, session, released>>
  BY DEF ServeOrphan
<1>3. /\ TypeOK /\ Opening /\ UpOffsets /\ UpCall(call["up"]) /\ Acks
      /\ Orphans /\ orphans \subseteq OrphanRecords
  BY DEF IInv, UpInv, DownInv, TypeOK, OrphanRecords
<1>4. Honest(r) /\ r.seq \in Nat
  BY <1>1, <1>3 DEF Orphans, OrphanRecords
<1>5. /\ received' \in Seq(Nat) /\ Segment(received', 0)
      /\ Len(received') \in Nat /\ Len(received) <= Len(received')
      /\ Len(received') <= offered
  BY <1>1, <1>4, NewBytesFit
<1>6. Serves
  BY <1>2, <1>3, <1>5, Numbers DEF Serves, SessionMoves, TypeOK, Acks
<1>7. /\ Orphans' /\ orphans' \subseteq OrphanRecords
      /\ lane' \in [Dirs -> Lanes] /\ call' \in [Dirs -> Calls]
  BY <1>1, <1>2, <1>3, SameOrphans DEF TypeOK
<1>8. TypeOK' /\ Opening' /\ Sizing'
  BY <1>2, <1>6, <1>7, LaneKeepsRest
<1>9. DownInv'
  BY <1>2, DownFrame DEF DownKept, clientKeeps, reader, closer, target
<1>10. /\ UNCHANGED <<opc, wpc, offered, p, upOffset, call, session>>
       /\ upOffset \in Nat /\ Len(received) \in Nat
  BY <1>2, Numbers DEF clientKeeps, writer
<1>11. UpOffsets'
  BY <1>3, <1>5, <1>10 DEF UpOffsets
<1>12. UpCall(call["up"])'
  <2>1. call["up"].step = "ok" /\ call["up"].req.mode = "upload" =>
            upOffset + Len(call["up"].req.payload) <= Len(received')
    BY <1>3, <1>5, <1>10, Numbers, RequestTypes DEF UpCall
  <2> QED
    BY <1>3, <1>10, <2>1 DEF UpCall, Honest
<1> QED
  BY <1>7, <1>8, <1>9, <1>11, <1>12 DEF IInv, UpInv

\* The target sends or finishes; what was received already stays received,
\* and who has seen the end knows that nothing follows.
LEMMA TargetPreserves == IInv /\ (TargetSends \/ TargetEnds) => IInv'
<1> SUFFICES ASSUME IInv, TargetSends \/ TargetEnds PROVE IInv'
  OBVIOUS
<1>1. /\ UNCHANGED <<load, opc, writer, reader, closer, dead, lane, call,
                     session, received, orphans, released>>
      /\ ~ended
      /\ \/ produced' = produced + 1 /\ ended' = ended
         \/ ended' = TRUE /\ produced' = produced
  BY DEF TargetSends, TargetEnds
<1>2. /\ TypeOK /\ Opening /\ Sizing /\ DownOffsets /\ Ends /\ Acks
      /\ DownCall(call["down"])
  BY DEF IInv, DownInv
<1>3. produced' \in Nat /\ ended' \in BOOLEAN /\ produced <= produced'
  <2>1. ended' \in BOOLEAN
    BY <1>1, <1>2 DEF TypeOK
  <2> QED
    BY <1>1, <2>1, Numbers
<1> USE DEF writer, reader, closer
<1>4. TypeOK' /\ Opening' /\ Sizing'
  <2>1. TypeOK'
    BY <1>1, <1>2, <1>3 DEF TypeOK
  <2>2. Opening' /\ Sizing'
    BY <1>1, <1>2 DEF Opening, Sizing
  <2> QED
    BY <2>1, <2>2
<1>5. UpInv'
  <2>1. SessionMoves
    BY <1>1, <1>2 DEF SessionMoves, TypeOK
  <2> QED
    BY <1>1, <2>1, UpFrame DEF UpKept
<1>6. DownOffsets'
  BY <1>1, <1>2, <1>3, Numbers DEF DownOffsets
<1>7. Ends' /\ Acks'
  BY <1>1, <1>2 DEF Ends, Acks
<1>8. DownCall(call["down"])'
  <2>1. rpc = "batch" => Continues(call["down"])'
    <3> SUFFICES ASSUME rpc = "batch" PROVE Continues(call["down"])'
      OBVIOUS
    <3>1. Continues(call["down"])
      BY <1>2 DEF DownCall
    <3>2. downloadOffset + Len(call["down"].out) <= produced'
      BY <1>3, <3>1, Numbers, RequestTypes DEF Continues
    <3> QED
      BY <1>1, <3>1, <3>2 DEF Continues
  <2> QED
    BY <1>1, <1>2, <2>1 DEF DownCall
<1> QED
  BY <1>4, <1>5, <1>6, <1>7, <1>8 DEF IInv, DownInv

LEMMA SessionEndsPreserves == IInv /\ SessionEnds => IInv'
<1> SUFFICES ASSUME IInv, SessionEnds PROVE IInv'
  OBVIOUS
<1>1. /\ UNCHANGED <<clientKeeps, lane, call, received, orphans, released>>
      /\ session' = "closed"
  BY DEF SessionEnds
<1>2. SessionMoves
  BY <1>1 DEF SessionMoves
<1>3. Serves
  BY <1>1, <1>2, Numbers
     DEF Serves, IInv, TypeOK, UpInv, UpOffsets, DownInv, Acks
<1>4. /\ orphans' \subseteq OrphanRecords
      /\ lane' \in [Dirs -> Lanes] /\ call' \in [Dirs -> Calls]
  BY <1>1 DEF IInv, TypeOK, OrphanRecords
<1>5. TypeOK' /\ Opening' /\ Sizing'
  BY <1>1, <1>3, <1>4, LaneKeepsRest
<1>6. UpInv' /\ DownInv'
  BY <1>1, <1>2, UpFrame, DownFrame
     DEF UpKept, DownKept, clientKeeps, writer, reader, closer, target
<1> QED
  BY <1>5, <1>6 DEF IInv

-----------------------------------------------------------------------------
(* The invariant is inductive                                              *)

LEMMA InitIInv == Init => IInv
<1> SUFFICES ASSUME Init PROVE IInv
  OBVIOUS
<1> DEFINE c == [Free EXCEPT !.step = "ensure", !.attempt = 1,
                             !.req = NoRequest]
<1>1. c \in Calls /\ c.step = "ensure" /\ c.req.mode = "register"
  <2>1. NoRequest \in Requests /\ NoRequest.mode = "register" /\ 1 \in 0 .. 2
    BY BPAssumption DEF NoRequest, Requests
  <2> QED
    BY <2>1, FreeIsCall DEF Free, Calls
<1>2. /\ call = [l \in Dirs |-> IF l = "down" THEN Free ELSE c]
      /\ lane = [l \in Dirs |-> NewLane]
  BY DEF Init
<1> HIDE DEF c
<1>3. /\ call \in [Dirs -> Calls] /\ lane \in [Dirs -> Lanes]
      /\ call["up"] = c /\ call["down"] = Free
  BY <1>1, <1>2, FreeIsCall, LaneTypes DEF Dirs
<1>4. /\ upSizer \in Sizers /\ downSizer \in Sizers /\ Sizing
  <2>1. PICK start \in Sizes :
            upSizer = NewSizer(start) /\ downSizer = NewSizer(start)
    BY DEF Init
  <2>2. start \in Int
    BY SizerAssumption DEF Sizes
  <2> QED
    BY <2>1, <2>2, NewSizerFits DEF Sizing
<1>5. TypeOK
  <2>1. pipeline \in MinPipeline .. MaxPipeline
    BY BPAssumption DEF Init
  <2>2. 0 \in Nat /\ <<>> \in Seq(Nat)
    OBVIOUS
  <2> QED
    BY <1>3, <1>4, <2>1, <2>2, MinSizeFits DEF Init, TypeOK
<1>6. Opening
  BY DEF Init, Opening
<1>7. Segment(<<>>, 0) /\ Len(<<>>) = 0
  BY EmptySegment
<1>8. UpOffsets /\ Orphans /\ DownOffsets /\ Ends /\ Acks
  BY <1>7 DEF Init, UpOffsets, Orphans, DownOffsets, Ends, Acks
<1>9. UpCall(call["up"])
  BY <1>1, <1>3 DEF Init, UpCall
<1>10. DownCall(call["down"])
  BY <1>3, FreeIsCall DEF Init, DownCall
<1> QED
  BY <1>4, <1>5, <1>6, <1>8, <1>9, <1>10 DEF IInv, UpInv, DownInv

LEMMA StutterPreserves == IInv /\ UNCHANGED vars => IInv'
<1> SUFFICES ASSUME IInv, UNCHANGED vars PROVE IInv'
  OBVIOUS
<1>1. UNCHANGED <<load, opc, writer, reader, closer, dead, lane, call, session,
                  received, orphans, target, released>>
  BY DEF vars
<1>2. SessionMoves
  BY <1>1 DEF SessionMoves, IInv, TypeOK
<1>3. UpInv' /\ DownInv'
  BY <1>1, <1>2, UpFrame, DownFrame
     DEF UpKept, DownKept, writer, reader, closer, target
<1>4. TypeOK' /\ Opening' /\ Sizing'
  BY <1>1 DEF IInv, TypeOK, Opening, Sizing, writer, reader, closer, target
<1> QED
  BY <1>3, <1>4 DEF IInv

LEMMA LaneStepPreserves ==
    ASSUME IInv, NEW l \in Dirs, LaneStep(l)
    PROVE  IInv'
BY EnsurePreserves, AnswerPreserves, AnswerLostPreserves DEF LaneStep

LEMMA NextIInv == IInv /\ [Next]_vars => IInv'
<1> SUFFICES ASSUME IInv, [Next]_vars PROVE IInv'
  OBVIOUS
<1>1. "up" \in Dirs /\ "down" \in Dirs
  BY DEF Dirs
<1>2. CASE UpStep
  BY <1>1, <1>2, OpeningPreserves, StartUploadPreserves, WriteAckedPreserves,
     WriteFailsPreserves, LaneStepPreserves DEF UpStep
<1>3. CASE DownStep
  BY <1>1, <1>3, ReadEntersPreserves, ReadLeavesPreserves, BatchDonePreserves,
     CopyPreserves, LaneStepPreserves, DataResponsePreserves,
     EndResponsePreserves, ErrorResponsePreserves DEF DownStep
<1>4. CASE CloseStep \/ BeginClose
  BY <1>4, ClosePreserves
<1>5. CASE BeginWrite \/ BeginRead
  BY <1>5, BeginWritePreserves, BeginReadPreserves
<1>6. CASE ServeOrphan \/ TargetSends \/ TargetEnds \/ SessionEnds
  BY <1>6, ServeOrphanPreserves, TargetPreserves, SessionEndsPreserves
<1>7. CASE UNCHANGED vars
  BY <1>7, StutterPreserves
<1> QED
  BY <1>2, <1>3, <1>4, <1>5, <1>6, <1>7 DEF Next

-----------------------------------------------------------------------------
(* The theorems                                                            *)

\* The inductive invariant holds in every reachable state.
THEOREM BPInvariance == Spec => []IInv
<1>1. Init => IInv
  BY InitIInv
<1>2. IInv /\ [Next]_vars => IInv'
  BY NextIInv
<1> QED
  BY <1>1, <1>2, PTL DEF Spec

\* Every variable keeps its type; in particular the pipeline that a Read
\* learns stays between its limits, and every record size in its range.
THEOREM BPTypeCorrect == Spec => []TypeOK
<1>1. IInv => TypeOK
  BY DEF IInv
<1> QED
  BY <1>1, BPInvariance, PTL

\* An EOF in the middle of a batch, data dropped beside an error and a batch
\* asked for again never make Read report the end while a byte is missing.
THEOREM BPEndIsTheEnd == Spec => []EOFOnlyAtEnd
<1>1. IInv => EOFOnlyAtEnd
  <2> SUFFICES ASSUME IInv, rpc = "eof" PROVE ended /\ Len(consumed) = produced
    BY DEF EOFOnlyAtEnd
  <2>1. ended /\ downloadOffset = produced /\ readBuf = <<>> /\ DownOffsets
    BY DEF IInv, DownInv, Ends
  <2>2. Len(readBuf) = 0
    BY <2>1, EmptySegment
  <2> QED
    BY <2>1, <2>2, Numbers DEF DownOffsets
<1> QED
  BY <1>1, BPInvariance, PTL

-----------------------------------------------------------------------------
(* Refinement                                                              *)

\* A segment from the start of a stream is a prefix of it.
LEMMA SegmentIsPrefix ==
    ASSUME NEW s, Segment(s, 0)
    PROVE  /\ s = UpPipe!Prefix(Len(s)) /\ s = DownPipe!Prefix(Len(s))
           /\ Len(s) \in Nat
<1>1. Len(s) \in Nat /\ s = [i \in 1 .. Len(s) |-> 0 + i]
  BY SegmentShape
<1>2. [i \in 1 .. Len(s) |-> 0 + i] = [i \in 1 .. Len(s) |-> i]
  BY <1>1
<1> QED
  BY <1>1, <1>2 DEF UpPipe!Prefix, DownPipe!Prefix

\* At most one end of a direction moves in a step, and none moves back.
UpMoves ==
    \/ offered < offered' /\ UNCHANGED <<received, upOffset>>
    \/ Len(received) <= Len(received') /\ UNCHANGED <<offered, upOffset>>
    \/ upOffset <= upOffset' /\ UNCHANGED <<offered, received>>

DownMoves ==
    \/ produced < produced' /\ UNCHANGED <<consumed, released>>
    \/ Len(consumed) <= Len(consumed') /\ UNCHANGED <<produced, released>>
    \/ released <= released' /\ UNCHANGED <<produced, consumed>>

UpRests == UNCHANGED <<offered, received, upOffset>>
DownRests == UNCHANGED <<produced, consumed, released>>

LEMMA RestIsMove ==
    ASSUME IInv
    PROVE  (UpRests => UpMoves) /\ (DownRests => DownMoves)
BY Numbers DEF UpRests, DownRests, UpMoves, DownMoves

\* A request that is served adds to what the server has, or to what it may
\* forget; nothing else of a lane's work shows.
LEMMA ServeMoves ==
    ASSUME IInv, NEW l \in Dirs, call[l].step # "free",
           call[l].req.mode # "batch", Serve(call[l].req),
           UNCHANGED clientKeeps
    PROVE  UpMoves /\ DownMoves
<1>1. Serves
  BY ServeFits
<1>2. released <= released'
  <2>1. released' \in {released, Larger(released, call[l].req.seq)}
    BY DEF Serve
  <2>2. call[l].req.seq \in Nat /\ released \in Nat
    BY LaneFacts, RequestTypes, Numbers
  <2> QED
    BY <2>1, <2>2 DEF Larger
<1> QED
  BY <1>1, <1>2
     DEF Serves, UpMoves, DownMoves, clientKeeps, writer, reader, target

LEMMA LaneStepMoves ==
    ASSUME IInv, NEW l \in Dirs, LaneStep(l)
    PROVE  UpMoves /\ DownMoves
<1>1. CASE \/ EnsureClosed(l) \/ Send(l)
           \/ \E kind \in FaultKinds : SendFails(l, kind)
  <2>1. UNCHANGED <<clientKeeps, session, received, orphans, released>>
    BY <1>1 DEF EnsureClosed, Send, SendFails
  <2> QED
    BY <2>1, RestIsMove
       DEF UpRests, DownRests, clientKeeps, writer, reader, target
<1>2. CASE Answer(l)
  BY <1>2, ServeMoves DEF Answer
<1>3. CASE \E kind \in FaultKinds : AnswerLost(l, kind)
  <2>1. PICK kind \in FaultKinds : AnswerLost(l, kind)
    BY <1>3
  <2>2. UNCHANGED clientKeeps /\ call[l].step = "recv"
    BY <2>1 DEF AnswerLost
  <2>3. CASE UNCHANGED <<received, released>>
    BY <2>2, <2>3, RestIsMove
       DEF UpRests, DownRests, clientKeeps, writer, reader, target
  <2>4. CASE call[l].req.mode # "batch" /\ Serve(call[l].req)
    BY <2>2, <2>4, ServeMoves
  <2> QED
    BY <2>1, <2>3, <2>4 DEF AnswerLost
<1> QED
  BY <1>1, <1>2, <1>3 DEF LaneStep

LEMMA UpStepMoves ==
    ASSUME IInv, UpStep \/ BeginWrite
    PROVE  UpMoves /\ DownMoves
<1> USE DEF writer, reader, target, others, writeKeeps
<1>1. CASE BeginWrite
  <2>1. PICK n \in 1 .. load[1] - offered : offered' = offered + n
    BY <1>1 DEF BeginWrite
  <2>2. offered < offered'
    BY <2>1, Numbers
  <2>3. UNCHANGED <<received, upOffset>> /\ DownRests
    BY <1>1 DEF BeginWrite, DownRests
  <2> QED
    BY <2>2, <2>3, RestIsMove DEF UpMoves
<1>2. CASE WriteAcked
  <2>1. /\ upOffset' = upOffset + Len(call["up"].req.payload)
        /\ UNCHANGED <<offered, received>> /\ DownRests
    BY <1>2 DEF WriteAcked, RecordLen, DownRests
  <2>2. upOffset <= upOffset'
    BY <2>1, Numbers, RequestTypes
  <2> QED
    BY <2>1, <2>2, RestIsMove DEF UpMoves
<1>3. CASE LaneStep("up")
  BY <1>3, LaneStepMoves DEF Dirs
<1>4. CASE \/ Registered \/ Opened \/ OpenFails
           \/ StartUpload \/ WriteFailed \/ WriteEnds
  <2>1. UpRests /\ DownRests
    BY <1>4 DEF Registered, Opened, OpenFails, StartUpload, WriteFailed,
                WriteEnds, UpRests, DownRests
  <2> QED
    BY <2>1, RestIsMove
<1> QED
  BY <1>1, <1>2, <1>3, <1>4 DEF UpStep

LEMMA DownStepMoves ==
    ASSUME IInv, IInv', DownStep \/ BeginRead
    PROVE  UpMoves /\ DownMoves
<1> USE DEF writer, reader, target, others, readKeeps
<1>1. CASE Copy
  <2>1. PICK n \in 1 .. Len(readBuf) : consumedOffset' = consumedOffset + n
    BY <1>1 DEF Copy
  <2>2. Len(consumed) <= Len(consumed')
    <3>1. /\ consumedOffset = Len(consumed) /\ consumedOffset' = Len(consumed')
          /\ n \in Nat
      BY <2>1 DEF IInv, DownInv, DownOffsets
    <3> QED
      BY <2>1, <3>1, Numbers
  <2>3. UNCHANGED <<produced, released>> /\ UpRests
    BY <1>1 DEF Copy, UpRests
  <2> QED
    BY <2>2, <2>3, RestIsMove DEF DownMoves
<1>2. CASE LaneStep("down")
  BY <1>2, LaneStepMoves DEF Dirs
<1>3. CASE DataResponse \/ EndResponse \/ ErrorResponse
  <2>1. UNCHANGED <<clientKeeps, session, received, orphans, released>>
    BY <1>3 DEF DataResponse, EndResponse, ErrorResponse, Responds
  <2> QED
    BY <2>1, RestIsMove DEF UpRests, DownRests, clientKeeps
<1>4. CASE \/ StartAck \/ Acked \/ AckEnds \/ StartBatch \/ BatchDone
           \/ BatchFailed \/ BatchTimedOut \/ BeginRead
  <2>1. UpRests /\ DownRests
    BY <1>4 DEF StartAck, Acked, AckEnds, StartBatch, BatchDone, BatchFailed,
                BatchTimedOut, BeginRead, UpRests, DownRests
  <2> QED
    BY <2>1, RestIsMove
<1> QED
  BY <1>1, <1>2, <1>3, <1>4 DEF DownStep

LEMMA RestMoves ==
    ASSUME IInv, IInv',
           \/ CloseStep \/ BeginClose \/ UNCHANGED vars
           \/ ServeOrphan \/ TargetSends \/ TargetEnds \/ SessionEnds
    PROVE  UpMoves /\ DownMoves
<1> USE DEF writer, reader, target
<1>1. CASE CloseStep \/ BeginClose \/ SessionEnds \/ TargetEnds \/ UNCHANGED vars
  <2>1. UpRests /\ DownRests
    BY <1>1 DEF CloseStep, StartClose, CloseSent, CloseLane, BeginClose,
                SessionEnds, TargetEnds, vars, closeKeeps, others, clientKeeps,
                UpRests, DownRests
  <2> QED
    BY <2>1, RestIsMove
<1>2. CASE ServeOrphan
  <2>1. PICK r \in orphans : received' = received \o NewBytes(r)
    BY <1>2 DEF ServeOrphan
  <2>2. Honest(r) /\ r.seq \in Nat
    BY DEF IInv, UpInv, Orphans, TypeOK
  <2>3. Len(received) <= Len(received')
    BY <2>1, <2>2, NewBytesFit
  <2>4. UNCHANGED <<offered, upOffset>> /\ DownRests
    BY <1>2 DEF ServeOrphan, clientKeeps, DownRests
  <2> QED
    BY <2>3, <2>4, RestIsMove DEF UpMoves
<1>3. CASE TargetSends
  <2>1. produced' = produced + 1 /\ UNCHANGED <<consumed, released>> /\ UpRests
    BY <1>3 DEF TargetSends, UpRests
  <2>2. produced < produced'
    BY <2>1, Numbers
  <2> QED
    BY <2>1, <2>2, RestIsMove DEF DownMoves
<1> QED
  BY <1>1, <1>2, <1>3

\* A move of the upload is a step of its pipe, or shows nothing.
LEMMA UpRefines ==
    ASSUME IInv, IInv', UpMoves
    PROVE  [UpPipe!Next]_(UpPipe!pipe)
<1>1. /\ received = UpPipe!Prefix(Len(received)) /\ Len(received) \in Nat
      /\ upOffset \in Nat /\ offered \in Nat
  BY Numbers, SegmentIsPrefix DEF IInv, UpInv, UpOffsets
<1>2. /\ received' = UpPipe!Prefix(Len(received')) /\ Len(received') \in Nat
      /\ upOffset' \in Nat /\ offered' \in Nat
      /\ upOffset' <= Len(received') /\ Len(received') <= offered'
  <2>1. Segment(received', 0) /\ (TypeOK /\ UpOffsets)'
    BY DEF IInv, UpInv, UpOffsets
  <2> QED
    BY <2>1, SegmentIsPrefix DEF UpOffsets, TypeOK
<1>3. CASE offered < offered' /\ UNCHANGED <<received, upOffset>>
  BY <1>1, <1>2, <1>3 DEF UpPipe!Next, UpPipe!Offer
<1>4. CASE Len(received) <= Len(received') /\ UNCHANGED <<offered, upOffset>>
  <2>1. CASE Len(received') = Len(received)
    <3>1. received' = received
      BY <1>1, <1>2, <2>1
    <3> QED
      BY <1>4, <3>1 DEF UpPipe!pipe
  <2>2. CASE Len(received') # Len(received)
    <3>1. Len(received') \in Len(received) + 1 .. offered
      BY <1>1, <1>2, <1>4, <2>2
    <3> QED
      BY <1>2, <1>4, <3>1 DEF UpPipe!Next, UpPipe!Deliver
  <2> QED
    BY <2>1, <2>2
<1>5. CASE upOffset <= upOffset' /\ UNCHANGED <<offered, received>>
  <2>1. CASE upOffset' = upOffset
    BY <1>5, <2>1 DEF UpPipe!pipe
  <2>2. CASE upOffset' # upOffset
    <3>1. upOffset' \in upOffset + 1 .. Len(received)
      BY <1>1, <1>2, <1>5, <2>2
    <3> QED
      BY <1>5, <3>1 DEF UpPipe!Next, UpPipe!Release
  <2> QED
    BY <2>1, <2>2
<1> QED
  BY <1>3, <1>4, <1>5 DEF UpMoves

\* So is a move of the download.
LEMMA DownRefines ==
    ASSUME IInv, IInv', DownMoves
    PROVE  [DownPipe!Next]_(DownPipe!pipe)
<1>1. /\ consumed = DownPipe!Prefix(Len(consumed)) /\ Len(consumed) \in Nat
      /\ released \in Nat /\ produced \in Nat
  BY Numbers, SegmentIsPrefix DEF IInv, DownInv, DownOffsets
<1>2. /\ consumed' = DownPipe!Prefix(Len(consumed')) /\ Len(consumed') \in Nat
      /\ released' \in Nat /\ produced' \in Nat
      /\ released' <= Len(consumed') /\ Len(consumed') <= produced'
  <2>1. (TypeOK /\ DownOffsets /\ Acks)'
    BY DEF IInv, DownInv
  <2>2. Segment(consumed', 0) /\ released' \in Nat /\ produced' \in Nat
        /\ consumedOffset' = Len(consumed') /\ released' <= consumedOffset'
        /\ downloadOffset' = consumedOffset' + Len(readBuf')
        /\ downloadOffset' <= produced' /\ Len(readBuf') \in Nat
    BY <2>1, LenProperties DEF DownOffsets, Acks, TypeOK
  <2> QED
    BY <2>2, SegmentIsPrefix
<1>3. CASE produced < produced' /\ UNCHANGED <<consumed, released>>
  BY <1>1, <1>2, <1>3 DEF DownPipe!Next, DownPipe!Offer
<1>4. CASE Len(consumed) <= Len(consumed') /\ UNCHANGED <<produced, released>>
  <2>1. CASE Len(consumed') = Len(consumed)
    <3>1. consumed' = consumed
      BY <1>1, <1>2, <2>1
    <3> QED
      BY <1>4, <3>1 DEF DownPipe!pipe
  <2>2. CASE Len(consumed') # Len(consumed)
    <3>1. Len(consumed') \in Len(consumed) + 1 .. produced
      BY <1>1, <1>2, <1>4, <2>2
    <3> QED
      BY <1>2, <1>4, <3>1 DEF DownPipe!Next, DownPipe!Deliver
  <2> QED
    BY <2>1, <2>2
<1>5. CASE released <= released' /\ UNCHANGED <<produced, consumed>>
  <2>1. CASE released' = released
    BY <1>5, <2>1 DEF DownPipe!pipe
  <2>2. CASE released' # released
    <3>1. released' \in released + 1 .. Len(consumed)
      BY <1>1, <1>2, <1>5, <2>2
    <3> QED
      BY <1>5, <3>1 DEF DownPipe!Next, DownPipe!Release
  <2> QED
    BY <2>1, <2>2
<1> QED
  BY <1>3, <1>4, <1>5 DEF DownMoves

\* Both directions of a tunnel, with their retries, dropped batches, separate
\* acknowledgements and the Close that acknowledges too, implement the
\* reliable byte pipe.
THEOREM BPImplementsPipes == Spec => PipeSpec
<1>1. Init => UpPipe!Init /\ DownPipe!Init
  <2> SUFFICES ASSUME Init PROVE UpPipe!Init /\ DownPipe!Init
    OBVIOUS
  <2>1. Segment(<<>>, 0) /\ Len(<<>>) = 0
    BY EmptySegment
  <2>2. <<>> = UpPipe!Prefix(0) /\ <<>> = DownPipe!Prefix(0)
    BY <2>1, SegmentIsPrefix
  <2> QED
    BY <2>2 DEF Init, UpPipe!Init, DownPipe!Init
<1>2. IInv /\ IInv' /\ [Next]_vars => UpMoves /\ DownMoves
  BY UpStepMoves, DownStepMoves, RestMoves DEF Next
<1>3. IInv /\ IInv' /\ [Next]_vars =>
          [UpPipe!Next]_(UpPipe!pipe) /\ [DownPipe!Next]_(DownPipe!pipe)
  BY <1>2, UpRefines, DownRefines
<1> QED
  BY <1>1, <1>3, BPInvariance, PTL
     DEF Spec, PipeSpec, UpPipe!Spec, DownPipe!Spec
=============================================================================
