-------------------------- MODULE ChunkUploadProofs --------------------------
(***************************************************************************)
(* For every range of sizes, rotation policy, failure limit and stream     *)
(* length: uploads arrive exactly once and in order whatever is retried,   *)
(* the bytes a Write reports were taken, and nothing is replayed once a    *)
(* request has timed out.                                                  *)
(***************************************************************************)
EXTENDS ChunkUpload, TunnelLemmas

-----------------------------------------------------------------------------
(* The inductive invariant                                                 *)

\* The record the Write under way is trying to get through.
CurrentRequest ==
    [op |-> "upload", seq |-> upOffset, from |-> pos, n |-> RecordLen]

\* Who holds the lane's mutex is where the program counters say, and carries
\* the request they imply; a Write in progress has bytes left.
Control ==
    /\ call.step = "free" => call = Free
    /\ call.by = "nobody" => call = Free
    /\ wpc = "single" <=> call.by = "writer"
    /\ cpc = "single" <=> call.by = "closer"
    /\ call.req = IF call.by = "writer" THEN CurrentRequest ELSE CloseRequest
    /\ wpc \in {"next", "single", "result"} => todo > 0
    /\ wpc = "idle" => todo = 0
    /\ wpc # "stopped" => minFailures < MinFailureLimit
    /\ InBracket(sizer) /\ CountersLow(sizer)

\* A request claims the bytes it carries, all of them handed over by callers.
Honest(r) == r.op = "upload" => r.seq = r.from /\ r.seq + r.n <= pos + todo

\* An ok that the Write has not processed yet covers bytes the server has.
OkIsApplied ==
    \/ call.by = "writer" /\ call.answer = "ok"
    \/ wpc = "result" /\ result = "ok"
    => pos + RecordLen <= Len(applied)

Data ==
    /\ upOffset = pos
    /\ ExactlyOnceInOrder
    /\ AckedWereApplied
    /\ \A r \in orphans : Honest(r)
    /\ OkIsApplied

\* After a timed-out upload the Write is over, or about to be.
TimeoutStops ==
    timedOut => wpc = "stopped" \/ (wpc = "result" /\ result = "timeout")

IInv == TypeOK /\ Control /\ Data /\ TimeoutStops

-----------------------------------------------------------------------------
(* Lemmas about the operators                                              *)

\* A record length is positive and no longer than what is left to write.
LEMMA RecordLenFits ==
    ASSUME NEW a \in Nat \ {0}, NEW b \in Nat \ {0}
    PROVE  /\ Smaller(a, b) \in Nat \ {0}
           /\ Smaller(a, b) <= b
BY DEF Smaller

\* What the server adds for an honest record continues its stream: an honest
\* record at or before the end leaves the bytes in order, without loss or
\* repetition, and reaching at least to the record's end.
LEMMA NewBytesContinue ==
    ASSUME applied \in Seq(Nat), ExactlyOnceInOrder,
           NEW r \in UploadRequests, r.seq = r.from, r.seq <= Len(applied)
    PROVE  LET after == applied \o NewBytes(r)
           IN  /\ after \in Seq(Nat)
               /\ \A i \in DOMAIN after : after[i] = i
               /\ Len(after) = Larger(Len(applied), r.seq + r.n)
<1> DEFINE have == Len(applied) - r.seq
           m == Larger(r.n - have, 0)
           new == NewBytes(r)
<1>1. r.seq \in Nat /\ r.from \in Nat /\ r.n \in Nat /\ Len(applied) \in Nat
  BY LenProperties DEF UploadRequests
<1>2. m \in Nat /\ have \in Nat
  BY <1>1 DEF Larger
<1>3. new = [i \in 1 .. m |-> r.from + have + i]
  BY DEF NewBytes
<1>4. new \in [1 .. m -> Nat]
  BY <1>1, <1>2, <1>3
<1>5. new \in Seq(Nat) /\ Len(new) = m
  BY <1>2, <1>4, SeqDef, LenProperties
<1>6. \A i \in 1 .. m : new[i] = Len(applied) + i
  BY <1>1, <1>2, <1>3
<1> DEFINE after == applied \o new
<1>7. /\ after \in Seq(Nat)
      /\ Len(after) = Len(applied) + m
      /\ \A i \in 1 .. Len(after) :
            after[i] = IF i <= Len(applied) THEN applied[i]
                       ELSE new[i - Len(applied)]
  <2> HIDE DEF new, m
  <2>1. /\ applied \o new \in Seq(Nat)
        /\ Len(applied \o new) = Len(applied) + Len(new)
        /\ \A i \in 1 .. Len(applied) + Len(new) :
              (applied \o new)[i] = IF i <= Len(applied) THEN applied[i]
                                    ELSE new[i - Len(applied)]
    BY <1>5, ConcatProperties
  <2> QED
    BY <1>5, <2>1
<1>8. \A i \in DOMAIN after : after[i] = i
  <2> SUFFICES ASSUME NEW i \in 1 .. Len(applied) + m PROVE after[i] = i
    BY <1>7, LenProperties
  <2>1. CASE i <= Len(applied)
    BY <1>1, <1>2, <1>7, <2>1, LenProperties DEF ExactlyOnceInOrder
  <2>2. CASE ~(i <= Len(applied))
    <3>1. i - Len(applied) \in 1 .. m
      BY <1>1, <1>2, <2>2
    <3>2. after[i] = new[i - Len(applied)]
      BY <1>1, <1>2, <1>7, <2>2
    <3> QED
      BY <1>1, <1>6, <3>1, <3>2
  <2> QED
    BY <2>1, <2>2
<1>9. Len(after) = Larger(Len(applied), r.seq + r.n)
  BY <1>1, <1>7 DEF Larger
<1> QED
  BY <1>7, <1>8, <1>9
-----------------------------------------------------------------------------
(* The invariant is inductive                                              *)

LEMMA FreeIsCall == Free \in Calls
BY DEF Free, Calls, Requests

\* A second attempt keeps its caller and its request.
LEMMA RetryIsCall ==
    ASSUME NEW c \in Calls
    PROVE  LET again == [c EXCEPT !.step = "ensure", !.attempt = 2,
                                  !.answer = "none"]
           IN  /\ again \in Calls
               /\ again.by = c.by /\ again.req = c.req
               /\ again.step = "ensure" /\ again.answer = "none"
<1>1. 2 \in 0 .. 2
  OBVIOUS
<1> QED
  BY <1>1 DEF Calls

\* Entering single gives the mutex to the caller, with its request.
LEMMA EnteredIsCall ==
    ASSUME NEW who \in {"writer", "closer"}, NEW r \in Requests
    PROVE  LET c == Entered(who, r)
           IN  /\ c \in Calls
               /\ c.by = who /\ c.req = r
               /\ c.step = "ensure" /\ c.answer = "none"
<1>1. 1 \in 0 .. 2
  OBVIOUS
<1> DEFINE c == [by |-> who, step |-> "ensure", attempt |-> 1,
                 req |-> r, answer |-> "none"]
<1>2. Entered(who, r) = c
  BY DEF Entered
<1>3. c \in Calls
  BY <1>1 DEF Calls
<1>4. c.by = who /\ c.req = r /\ c.step = "ensure" /\ c.answer = "none"
  OBVIOUS
<1> HIDE DEF c
<1> QED
  BY <1>2, <1>3, <1>4

\* Moving to the next step of single changes nothing else of the call.
LEMMA StepIsCall ==
    ASSUME NEW c \in Calls, NEW s \in {"send", "recv"}
    PROVE  LET next == [c EXCEPT !.step = s]
           IN  /\ next \in Calls
               /\ next.by = c.by /\ next.req = c.req
               /\ next.step = s /\ next.answer = c.answer
BY DEF Calls

\* The server's answer changes nothing else of the call.
LEMMA AnswerIsCall ==
    ASSUME NEW c \in Calls, NEW a \in {"ok", "refused"}
    PROVE  LET next == [c EXCEPT !.answer = a]
           IN  /\ next \in Calls
               /\ next.by = c.by /\ next.req = c.req
               /\ next.step = c.step /\ next.answer = a
BY DEF Calls

\* The initial lane and sizer are well formed and nothing is under way.
LEMMA InitIInv == Init => IInv
<1> SUFFICES ASSUME Init PROVE IInv
  OBVIOUS
<1>1. PICK start \in Sizes : sizer = NewSizer(start)
  BY DEF Init
<1>2. sizer \in Sizers /\ InBracket(sizer) /\ CountersLow(sizer)
  <2>1. start \in Int
    BY SizerAssumption DEF Sizes
  <2> QED
    BY <1>1, <2>1, NewSizerFits
<1>3. lane \in Lanes
  BY LaneTypes DEF Init
<1>4. applied = <<>> /\ applied \in Seq(Nat) /\ Len(applied) = 0
  BY DEF Init
<1>5. MinSize \in Sizes /\ 0 \in 0 .. MinFailureLimit /\ 0 < MinFailureLimit
  BY SizerAssumption, UploadAssumption DEF Sizes
<1>6. TypeOK
  BY <1>2, <1>3, <1>4, <1>5, FreeIsCall DEF Init, TypeOK, Outcomes
<1>7. Control
  BY <1>2, <1>5 DEF Init, Control, Free
<1>8. Data
  BY <1>4 DEF Init, Data, ExactlyOnceInOrder, AckedWereApplied,
              OkIsApplied, Free
<1>9. TimeoutStops
  BY DEF Init, TimeoutStops
<1> QED
  BY <1>6, <1>7, <1>8, <1>9 DEF IInv

\* The facts about the current record that several steps need.
LEMMA CurrentFits ==
    ASSUME TypeOK, Control, Data, todo > 0
    PROVE  /\ RecordLen \in Nat \ {0} /\ RecordLen <= todo
           /\ CurrentRequest \in UploadRequests
           /\ Honest(CurrentRequest)
           /\ CurrentRequest.seq <= Len(applied)
<1>1. size \in Nat \ {0} /\ todo \in Nat \ {0}
  BY SizerAssumption DEF TypeOK, Sizes
<1>2. RecordLen \in Nat \ {0} /\ RecordLen <= todo
  BY <1>1, RecordLenFits DEF RecordLen
<1>3. pos \in Nat /\ upOffset = pos /\ Len(applied) \in Nat
  BY LenProperties DEF TypeOK, Data
<1>4. /\ CurrentRequest.seq = pos /\ CurrentRequest.from = pos
      /\ CurrentRequest.n = RecordLen
  BY <1>3 DEF CurrentRequest
<1>5. CurrentRequest \in UploadRequests
  BY <1>2, <1>3 DEF CurrentRequest, UploadRequests
<1>6. Honest(CurrentRequest)
  BY <1>1, <1>2, <1>3, <1>4 DEF Honest
<1>7. CurrentRequest.seq <= Len(applied)
  BY <1>4 DEF Data, AckedWereApplied
<1> QED
  BY <1>2, <1>5, <1>6, <1>7

\* A failed step of single, in any of its forms: the caller gets its error or
\* the same request is attempted again, and the request may become an orphan.
LEMMA FaultPreserves ==
    ASSUME IInv, NEW kind \in FaultKinds,
           call.step # "free", AfterFault(kind),
           UNCHANGED <<notSingle, applied, session>>,
           lane' \in Lanes,
           orphans' \subseteq orphans \cup {call.req},
           timedOut' = (timedOut \/ (kind = "timeout" /\ call.req.op = "upload"))
    PROVE  IInv'
<1> USE DEF IInv
<1>0. call \in Calls
  BY DEF TypeOK
<1>1. call.by \in {"writer", "closer"}
  BY <1>0 DEF Calls, Control, Free
<1>2. /\ call.by = "writer" => wpc = "single" /\ call.req = CurrentRequest
      /\ call.by = "closer" => cpc = "single" /\ call.req = CloseRequest
  BY <1>1 DEF Control
<1>3. \/ /\ call' = Free /\ call.by = "writer"
         /\ wpc' = "result" /\ result' = kind /\ cpc' = cpc
      \/ /\ call' = Free /\ call.by = "closer"
         /\ cpc' = "lanes" /\ wpc' = wpc /\ result' = result
      \/ /\ call' = [call EXCEPT !.step = "ensure", !.attempt = 2,
                                 !.answer = "none"]
         /\ kind # "timeout"
         /\ wpc' = wpc /\ result' = result /\ cpc' = cpc
  BY <1>1 DEF AfterFault, Return
<1>4. /\ pos' = pos /\ todo' = todo /\ size' = size /\ upOffset' = upOffset
      /\ minFailures' = minFailures /\ sizer' = sizer /\ dead' = dead
      /\ applied' = applied /\ session' = session
  BY DEF notSingle
<1>5. RecordLen' = RecordLen /\ CurrentRequest' = CurrentRequest
  BY <1>4 DEF RecordLen, CurrentRequest
<1>6. TypeOK'
  <2>1. call.req \in Requests
    BY <1>0 DEF Calls
  <2>2. orphans' \subseteq Requests
    BY <2>1 DEF TypeOK
  <2>3. call' \in Calls
    BY <1>0, <1>3, RetryIsCall, FreeIsCall
  <2>4. wpc' \in {"idle", "next", "single", "result", "stopped"}
        /\ result' \in Outcomes
        /\ cpc' \in {"open", "graceful", "single", "lanes", "done"}
    BY <1>3 DEF TypeOK, Outcomes
  <2>5. timedOut' \in BOOLEAN
    BY DEF TypeOK
  <2> QED
    BY <1>4, <2>2, <2>3, <2>4, <2>5 DEF TypeOK
<1>7. Control'
  <2>1. CASE call' = Free /\ call.by = "writer"
    BY <1>2, <1>3, <1>4, <2>1 DEF Control, Free
  <2>2. CASE call' = Free /\ call.by = "closer"
    BY <1>2, <1>3, <1>4, <2>2 DEF Control, Free
  <2>3. CASE /\ call' = [call EXCEPT !.step = "ensure", !.attempt = 2,
                                     !.answer = "none"]
             /\ wpc' = wpc /\ result' = result /\ cpc' = cpc
    <3>1. /\ call'.by = call.by /\ call'.req = call.req
          /\ call'.step = "ensure"
      BY <1>0, <2>3, RetryIsCall
    <3> QED
      BY <1>1, <1>4, <1>5, <2>3, <3>1 DEF Control
  <2> QED
    BY <1>1, <1>3, <2>1, <2>2, <2>3
<1>8. Data'
  <2>1. \A r \in orphans' : Honest(r)
    <3>1. Honest(call.req)
      <4>1. CASE call.by = "writer"
        BY <1>2, <4>1, CurrentFits DEF Control
      <4>2. CASE call.by = "closer"
        BY <1>2, <4>2 DEF Honest, CloseRequest
      <4> QED
        BY <1>1, <4>1, <4>2
    <3> QED
      BY <3>1 DEF Data
  <2>2. (\A r \in orphans : Honest(r))'
    BY <1>4, <2>1 DEF Honest
  <2>3. OkIsApplied'
    <3>1. call'.answer = "none"
      <4>1. Free.answer = "none"
        BY DEF Free
      <4> QED
        BY <1>0, <1>3, <4>1, RetryIsCall
    <3>2. (wpc' = wpc /\ result' = result) \/ result' = kind
      BY <1>3
    <3> QED
      BY <1>4, <1>5, <3>1, <3>2 DEF Data, OkIsApplied, FaultKinds
  <2> QED
    BY <1>4, <2>2, <2>3 DEF Data, ExactlyOnceInOrder, AckedWereApplied
<1>9. TimeoutStops'
  <2>1. CASE timedOut
    <3>1. wpc = "stopped" \/ (wpc = "result" /\ result = "timeout")
      BY <2>1 DEF TimeoutStops
    <3>2. call.by = "closer"
      BY <1>1, <1>2, <3>1
    <3>3. wpc' = wpc /\ result' = result
      BY <1>3, <3>2
    <3> QED
      BY <3>1, <3>3 DEF TimeoutStops
  <2>2. CASE ~timedOut /\ kind = "timeout" /\ call.req.op = "upload"
    <3>1. call.by = "writer"
      BY <1>1, <1>2, <2>2 DEF CloseRequest
    <3> QED
      BY <1>3, <2>2, <3>1 DEF TimeoutStops
  <2>3. CASE ~timedOut'
    BY <2>3 DEF TimeoutStops
  <2> QED
    BY <2>1, <2>2, <2>3
<1> QED
  BY <1>6, <1>7, <1>8, <1>9
\* The server processes an honest request, fresh or late: its stream stays the
\* caller's bytes in order, and only grows.
LEMMA ProcessPreserves ==
    ASSUME IInv, NEW r \in Requests, Honest(r), Process(r)
    PROVE  /\ applied' \in Seq(Nat) /\ session' \in {"open", "closed"}
           /\ ExactlyOnceInOrder'
           /\ Len(applied) <= Len(applied') /\ Len(applied') <= pos + todo
           /\ (r.op = "upload" /\ Accepts(r)) => r.seq + r.n <= Len(applied')
<1> USE DEF IInv
<1>1. applied \in Seq(Nat) /\ Len(applied) \in Nat /\ pos \in Nat /\ todo \in Nat
  BY LenProperties DEF TypeOK
<1>2. ExactlyOnceInOrder /\ Len(applied) <= pos + todo
  BY DEF Data, AckedWereApplied
<1>3. session' \in {"open", "closed"}
  BY DEF Process, TypeOK
<1>4. CASE applied' = applied /\ ~(r.op = "upload" /\ Accepts(r))
  BY <1>1, <1>2, <1>3, <1>4 DEF ExactlyOnceInOrder
<1>5. CASE r.op = "upload" /\ Accepts(r) /\ applied' = applied \o NewBytes(r)
  <2>1. r \in UploadRequests
    BY <1>5 DEF Requests, CloseRequest
  <2>2. r.seq \in Nat /\ r.n \in Nat
    BY <2>1 DEF UploadRequests
  <2>3. r.seq = r.from /\ r.seq + r.n <= pos + todo /\ r.seq <= Len(applied)
    BY <1>5 DEF Honest, Accepts
  <2>4. /\ applied' \in Seq(Nat)
        /\ \A i \in DOMAIN applied' : applied'[i] = i
        /\ Len(applied') = Larger(Len(applied), r.seq + r.n)
    BY <1>1, <1>2, <1>5, <2>1, <2>3, NewBytesContinue
  <2>5. Len(applied) <= Len(applied') /\ Len(applied') <= pos + todo
        /\ r.seq + r.n <= Len(applied')
    BY <1>1, <1>2, <2>2, <2>3, <2>4 DEF Larger
  <2> QED
    BY <1>3, <2>4, <2>5 DEF ExactlyOnceInOrder
<1> QED
  BY <1>4, <1>5 DEF Process, Requests, UploadRequests, CloseRequest

\* Requests on their way stay honest while the callers' bytes only grow.
LEMMA HonestStays ==
    ASSUME TypeOK, Data, pos' \in Nat, todo' \in Nat,
           pos + todo <= pos' + todo', orphans' \subseteq orphans
    PROVE  (\A r \in orphans : Honest(r))'
<1> SUFFICES ASSUME NEW r \in orphans', r.op = "upload"
             PROVE  r.seq = r.from /\ r.seq + r.n <= pos' + todo'
  BY DEF Honest
<1>1. r \in orphans /\ r \in Requests /\ Honest(r)
  BY DEF TypeOK, Data
<1>2. r.seq \in Nat /\ r.n \in Nat
  BY <1>1 DEF Requests, UploadRequests, CloseRequest
<1>3. pos \in Nat /\ todo \in Nat
  BY DEF TypeOK
<1>4. r.seq = r.from /\ r.seq + r.n <= pos + todo
  BY <1>1 DEF Honest
<1>5. ASSUME NEW s \in Nat, NEW n \in Nat, NEW a \in Nat, NEW b \in Nat,
             NEW c \in Nat, NEW d \in Nat, s + n <= a + b, a + b <= c + d
      PROVE  s + n <= c + d
  BY <1>5
<1>6. r.seq + r.n <= pos' + todo'
  BY <1>2, <1>3, <1>4, <1>5
<1> QED
  BY <1>4, <1>6

\* A request in progress moves on to its next step.
StepsTo(s) ==
    /\ call.step # "free"
    /\ call' = [call EXCEPT !.step = s]
    /\ lane' \in Lanes
    /\ UNCHANGED <<notSingle, wpc, result, cpc, server, timedOut>>

LEMMA StepPreserves ==
    ASSUME IInv, NEW s \in {"send", "recv"}, StepsTo(s)
    PROVE  IInv'
<1> USE DEF IInv
<1>0. call \in Calls /\ pos \in Nat /\ todo \in Nat
  BY DEF TypeOK
<1>1. /\ call' \in Calls /\ call'.by = call.by /\ call'.req = call.req
      /\ call'.step = s /\ call'.answer = call.answer
  BY <1>0, StepIsCall DEF StepsTo
<1>2. /\ pos' = pos /\ todo' = todo /\ size' = size /\ upOffset' = upOffset
      /\ minFailures' = minFailures /\ sizer' = sizer /\ dead' = dead
      /\ applied' = applied /\ session' = session /\ orphans' = orphans
      /\ wpc' = wpc /\ result' = result /\ cpc' = cpc /\ timedOut' = timedOut
      /\ lane' \in Lanes
  BY DEF StepsTo, notSingle, server
<1>3. RecordLen' = RecordLen /\ CurrentRequest' = CurrentRequest
  BY <1>2 DEF RecordLen, CurrentRequest
<1>4. TypeOK'
  BY <1>1, <1>2 DEF TypeOK
<1>5. Control'
  <2>1. call.by # "nobody"
    BY DEF StepsTo, Control, Free
  <2> QED
    BY <1>1, <1>2, <1>3, <2>1 DEF Control
<1>6. (\A r \in orphans : Honest(r))'
  BY <1>0, <1>2, HonestStays
<1>7. Data' /\ TimeoutStops'
  BY <1>1, <1>2, <1>3, <1>6
     DEF Data, ExactlyOnceInOrder, AckedWereApplied, OkIsApplied, TimeoutStops
<1> QED
  BY <1>4, <1>5, <1>7

\* An answer frees the lane; an ok the Write gets covers bytes the server has.
LEMMA ReceivePreserves == IInv /\ Receive => IInv'
<1> SUFFICES ASSUME IInv, Receive PROVE IInv'
  OBVIOUS
<1> USE DEF IInv
<1>0. call \in Calls /\ pos \in Nat /\ todo \in Nat
  BY DEF TypeOK
<1>1. call.by \in {"writer", "closer"} /\ call.answer \in {"ok", "refused"}
  BY <1>0 DEF Receive, Control, Free, Calls
<1>2. /\ pos' = pos /\ todo' = todo /\ size' = size /\ upOffset' = upOffset
      /\ minFailures' = minFailures /\ sizer' = sizer /\ dead' = dead
      /\ applied' = applied /\ session' = session /\ orphans' = orphans
      /\ timedOut' = timedOut /\ call' = Free
  BY DEF Receive, Return, notSingle, server
<1>3. \/ /\ call.by = "writer" /\ wpc = "single"
         /\ wpc' = "result" /\ result' = call.answer /\ cpc' = cpc
      \/ /\ call.by = "closer" /\ cpc = "single"
         /\ cpc' = "lanes" /\ wpc' = wpc /\ result' = result
  BY <1>1 DEF Receive, Return, Control
<1>4. RecordLen' = RecordLen /\ CurrentRequest' = CurrentRequest
  BY <1>2 DEF RecordLen, CurrentRequest
<1>5. TypeOK'
  <2>1. lane' \in Lanes /\ call' \in Calls
    BY <1>2, LaneTypes, FreeIsCall DEF Receive, TypeOK
  <2>2. wpc' \in {"idle", "next", "single", "result", "stopped"}
        /\ result' \in Outcomes
        /\ cpc' \in {"open", "graceful", "single", "lanes", "done"}
    BY <1>1, <1>3 DEF TypeOK, Outcomes
  <2> QED
    BY <1>2, <2>1, <2>2 DEF TypeOK
<1>6. Control'
  BY <1>2, <1>3 DEF Control, Free
<1>7. (\A r \in orphans : Honest(r))'
  BY <1>0, <1>2, HonestStays
<1>8. OkIsApplied'
  <2>1. call'.by = "nobody"
    BY <1>2 DEF Free
  <2> QED
    BY <1>2, <1>3, <1>4, <2>1 DEF Data, OkIsApplied
<1>9. Data'
  BY <1>2, <1>7, <1>8 DEF Data, ExactlyOnceInOrder, AckedWereApplied
<1>10. TimeoutStops'
  BY <1>2, <1>3 DEF TimeoutStops
<1> QED
  BY <1>5, <1>6, <1>9, <1>10

\* The steps of Close, and a Read that times out, leave the Write alone.
LEMMA ClosePreserves == IInv /\ (CloseStep \/ ReadTimedOut) => IInv'
<1> SUFFICES ASSUME IInv, CloseStep \/ ReadTimedOut PROVE IInv'
  OBVIOUS
<1> USE DEF IInv
<1>0. call \in Calls /\ pos \in Nat /\ todo \in Nat
  BY DEF TypeOK
<1>1. /\ wpc' = wpc /\ pos' = pos /\ todo' = todo /\ size' = size
      /\ result' = result /\ minFailures' = minFailures
      /\ upOffset' = upOffset /\ sizer' = sizer
      /\ applied' = applied /\ session' = session /\ orphans' = orphans
      /\ timedOut' = timedOut
  BY DEF CloseStep, BeginClose, StartClose, CloseLanes, ReadTimedOut,
         writer, server
<1>2. RecordLen' = RecordLen /\ CurrentRequest' = CurrentRequest
  BY <1>1 DEF RecordLen, CurrentRequest
<1>3. \/ /\ call' = call /\ cpc' \in {"open", "graceful", "lanes", "done"}
         /\ cpc # "single" \/ cpc' = cpc
      \/ call' = call /\ cpc' = cpc
      \/ /\ call = Free /\ call' = Entered("closer", CloseRequest)
         /\ cpc' = "single"
  BY DEF CloseStep, BeginClose, StartClose, CloseLanes, ReadTimedOut
<1>4. lane' \in Lanes /\ dead' \in BOOLEAN
  BY LaneTypes DEF CloseStep, BeginClose, StartClose, CloseLanes,
                   ReadTimedOut, TypeOK
<1>5. CASE call' = call
  <2>1. cpc' \in {"open", "graceful", "single", "lanes", "done"}
    BY <1>3 DEF TypeOK
  <2>2. TypeOK'
    BY <1>1, <1>4, <1>5, <2>1 DEF TypeOK
  <2>3. cpc' = "single" <=> cpc = "single"
    <3>1. ~StartClose
      <4>1. Entered("closer", CloseRequest).by = "closer"
        BY EnteredIsCall DEF Requests
      <4>2. Free.by = "nobody"
        BY DEF Free
      <4> QED
        BY <1>5, <4>1, <4>2 DEF StartClose
    <3> QED
      BY <3>1 DEF CloseStep, BeginClose, CloseLanes, ReadTimedOut
  <2>4. Control'
    BY <1>1, <1>2, <1>5, <2>3 DEF Control
  <2>5. (\A r \in orphans : Honest(r))'
    BY <1>0, <1>1, HonestStays
  <2>6. Data' /\ TimeoutStops'
    BY <1>1, <1>2, <1>5, <2>5 DEF Data, ExactlyOnceInOrder,
       AckedWereApplied, OkIsApplied, TimeoutStops
  <2> QED
    BY <2>2, <2>4, <2>6
<1>6. CASE /\ call = Free /\ call' = Entered("closer", CloseRequest)
           /\ cpc' = "single"
  <2>1. /\ call' \in Calls /\ call'.by = "closer" /\ call'.req = CloseRequest
        /\ call'.step = "ensure" /\ call'.answer = "none"
    <3>1. CloseRequest \in Requests
      BY DEF Requests
    <3> QED
      BY <1>6, <3>1, EnteredIsCall
  <2>2. wpc # "single"
    BY <1>6 DEF Control, Free
  <2>3. TypeOK'
    BY <1>1, <1>4, <1>6, <2>1 DEF TypeOK
  <2>4. Control'
    BY <1>1, <1>6, <2>1, <2>2 DEF Control
  <2>5. (\A r \in orphans : Honest(r))'
    BY <1>0, <1>1, HonestStays
  <2>6. Data' /\ TimeoutStops'
    BY <1>1, <1>2, <2>1, <2>5 DEF Data, ExactlyOnceInOrder,
       AckedWereApplied, OkIsApplied, TimeoutStops
  <2> QED
    BY <2>3, <2>4, <2>6
<1> QED
  BY <1>3, <1>5, <1>6

\* The server takes the request under way, if it is honest and leaves no gap.
LEMMA ServePreserves == IInv /\ Serve => IInv'
<1> SUFFICES ASSUME IInv, Serve PROVE IInv'
  OBVIOUS
<1> USE DEF IInv
<1>0. call \in Calls /\ pos \in Nat /\ todo \in Nat /\ Len(applied) \in Nat
  BY LenProperties DEF TypeOK
<1>1. /\ wpc' = wpc /\ pos' = pos /\ todo' = todo /\ size' = size
      /\ result' = result /\ minFailures' = minFailures
      /\ upOffset' = upOffset /\ sizer' = sizer /\ dead' = dead /\ cpc' = cpc
      /\ lane' = lane /\ orphans' = orphans /\ timedOut' = timedOut
  BY DEF Serve, writer
<1>2. RecordLen' = RecordLen /\ CurrentRequest' = CurrentRequest
  BY <1>1 DEF RecordLen, CurrentRequest
<1>3. PICK a \in {"ok", "refused"} :
        /\ call' = [call EXCEPT !.answer = a]
        /\ a = "ok" => call.req.op = "close" \/ Accepts(call.req)
  BY DEF Serve
<1>4. /\ call' \in Calls /\ call'.by = call.by /\ call'.req = call.req
      /\ call'.step = call.step /\ call'.answer = a
  BY <1>0, <1>3, AnswerIsCall
<1>5. call.by \in {"writer", "closer"} /\ call.step = "recv"
  BY <1>0 DEF Serve, Calls, Control, Free
<1>6. call.req \in Requests /\ Honest(call.req)
  <2>1. call.req \in Requests
    BY <1>0 DEF Calls
  <2>2. CASE call.by = "writer"
    BY <2>1, <2>2, CurrentFits DEF Control
  <2>3. CASE call.by = "closer"
    BY <2>1, <2>3 DEF Control, Honest, CloseRequest
  <2> QED
    BY <1>5, <2>1, <2>2, <2>3
<1>7. /\ applied' \in Seq(Nat) /\ session' \in {"open", "closed"}
      /\ ExactlyOnceInOrder'
      /\ Len(applied) <= Len(applied') /\ Len(applied') <= pos + todo
      /\ (call.req.op = "upload" /\ Accepts(call.req)) =>
            call.req.seq + call.req.n <= Len(applied')
  BY <1>6, ProcessPreserves DEF Serve
<1>8. TypeOK'
  BY <1>1, <1>4, <1>7 DEF TypeOK
<1>9. Control'
  <2>1. call'.by # "nobody" /\ call'.step # "free"
    BY <1>4, <1>5
  <2> QED
    BY <1>1, <1>2, <1>4, <2>1 DEF Control
<1>10. AckedWereApplied'
  <2>1. Len(applied') \in Nat
    BY <1>7, LenProperties
  <2> QED
    BY <1>0, <1>1, <1>7, <2>1 DEF Data, AckedWereApplied
<1>11. OkIsApplied'
  <2>1. CASE call.by = "writer" /\ a = "ok"
    <3>1. call.req = CurrentRequest /\ call.req.op = "upload" /\ upOffset = pos
      BY <2>1 DEF Control, CurrentRequest, Data
    <3>2. call.req.seq + call.req.n <= Len(applied')
      BY <1>3, <1>7, <2>1, <3>1
    <3>3. call.req.seq + call.req.n = pos + RecordLen
      BY <3>1 DEF CurrentRequest
    <3> QED
      BY <1>1, <1>2, <3>2, <3>3 DEF OkIsApplied
  <2>2. CASE wpc = "result" /\ result = "ok"
    <3>1. pos + RecordLen <= Len(applied)
      BY <2>2 DEF Data, OkIsApplied
    <3>2. RecordLen \in Nat
      BY <2>2, CurrentFits DEF Control
    <3>3. Len(applied') \in Nat
      BY <1>7, LenProperties
    <3> QED
      BY <1>0, <1>1, <1>2, <1>7, <3>1, <3>2, <3>3 DEF OkIsApplied
  <2>3. CASE /\ ~(call.by = "writer" /\ a = "ok")
             /\ ~(wpc = "result" /\ result = "ok")
    BY <1>1, <1>4, <2>3 DEF OkIsApplied
  <2> QED
    BY <2>1, <2>2, <2>3
<1>12. (\A r \in orphans : Honest(r))'
  BY <1>0, <1>1, HonestStays
<1>13. Data' /\ TimeoutStops'
  BY <1>1, <1>7, <1>10, <1>11, <1>12 DEF Data, TimeoutStops
<1> QED
  BY <1>8, <1>9, <1>13

\* The server takes a late request, or ends the session.
LEMMA ServerPreserves == IInv /\ (ServeOrphan \/ ServerEnds) => IInv'
<1> SUFFICES ASSUME IInv, ServeOrphan \/ ServerEnds PROVE IInv'
  OBVIOUS
<1> USE DEF IInv
<1>0. pos \in Nat /\ todo \in Nat /\ Len(applied) \in Nat
  BY LenProperties DEF TypeOK
<1>1. /\ wpc' = wpc /\ pos' = pos /\ todo' = todo /\ size' = size
      /\ result' = result /\ minFailures' = minFailures
      /\ upOffset' = upOffset /\ sizer' = sizer /\ dead' = dead /\ cpc' = cpc
      /\ lane' = lane /\ call' = call /\ timedOut' = timedOut
      /\ orphans' \subseteq orphans
  BY DEF ServeOrphan, ServerEnds, writer
<1>2. RecordLen' = RecordLen /\ CurrentRequest' = CurrentRequest
  BY <1>1 DEF RecordLen, CurrentRequest
<1>3. /\ applied' \in Seq(Nat) /\ session' \in {"open", "closed"}
      /\ ExactlyOnceInOrder'
      /\ Len(applied) <= Len(applied') /\ Len(applied') <= pos + todo
  <2>1. CASE ServeOrphan
    <3>1. PICK r \in orphans : Process(r)
      BY <2>1 DEF ServeOrphan
    <3>2. r \in Requests /\ Honest(r)
      BY DEF TypeOK, Data
    <3> QED
      BY <3>1, <3>2, ProcessPreserves
  <2>2. CASE ServerEnds
    BY <1>0, <2>2 DEF ServerEnds, TypeOK, Data, ExactlyOnceInOrder,
                      AckedWereApplied
  <2> QED
    BY <2>1, <2>2
<1>4. TypeOK' /\ Control' /\ TimeoutStops'
  <2>1. TypeOK'
    BY <1>1, <1>3 DEF TypeOK
  <2>2. Control'
    BY <1>1, <1>2 DEF Control
  <2> QED
    BY <1>1, <2>1, <2>2 DEF TimeoutStops
<1>5. Len(applied') \in Nat
  BY <1>3, LenProperties
<1>6. OkIsApplied'
  <2>1. CASE \/ call.by = "writer" /\ call.answer = "ok"
             \/ wpc = "result" /\ result = "ok"
    <3>1. pos + RecordLen <= Len(applied)
      BY <2>1 DEF Data, OkIsApplied
    <3>2. RecordLen \in Nat
      BY <2>1, CurrentFits DEF Control
    <3> QED
      BY <1>0, <1>1, <1>2, <1>3, <1>5, <3>1, <3>2 DEF OkIsApplied
  <2>2. CASE ~(\/ call.by = "writer" /\ call.answer = "ok"
               \/ wpc = "result" /\ result = "ok")
    BY <1>1, <2>2 DEF OkIsApplied
  <2> QED
    BY <2>1, <2>2
<1>7. AckedWereApplied'
  BY <1>0, <1>1, <1>3, <1>5 DEF Data, AckedWereApplied
<1>8. (\A r \in orphans : Honest(r))'
  BY <1>0, <1>1, HonestStays
<1> QED
  BY <1>1, <1>3, <1>4, <1>6, <1>7, <1>8 DEF Data

\* Every step preserves the invariant.
LEMMA NextIInv == IInv /\ [Next]_vars => IInv'
<1> SUFFICES ASSUME IInv, [Next]_vars PROVE IInv'
  OBVIOUS
<1> USE DEF IInv
<1>0. /\ call \in Calls /\ call.req \in Requests
      /\ applied \in Seq(Nat) /\ Len(applied) \in Nat
      /\ pos \in Nat /\ todo \in Nat /\ size \in Sizes
      /\ sizer \in Sizers /\ sizer.current \in Sizes
      /\ InBracket(sizer) /\ CountersLow(sizer)
  <2>1. call \in Calls /\ sizer \in Sizers
    BY DEF TypeOK
  <2>2. call.req \in Requests
    BY <2>1 DEF Calls
  <2>3. sizer.current \in Sizes
    BY <2>1 DEF Sizers
  <2>4. /\ applied \in Seq(Nat) /\ pos \in Nat /\ todo \in Nat
        /\ size \in Sizes
    BY DEF TypeOK
  <2>5. Len(applied) \in Nat
    BY <2>4, LenProperties
  <2> QED
    BY <2>1, <2>2, <2>3, <2>4, <2>5 DEF Control
<1>1. CASE BeginWrite
  <2>0. /\ wpc = "idle" /\ todo = 0 /\ wpc' = "next"
        /\ todo' \in Nat /\ todo' > 0 /\ pos' = pos /\ call' = call
    BY <1>1 DEF BeginWrite, Control, TypeOK, UploadAssumption
  <2>1. TypeOK'
    BY <1>1, UploadAssumption DEF BeginWrite, TypeOK, server
  <2>2. Control'
    BY <1>1, UploadAssumption DEF BeginWrite, Control, TypeOK, server
  <2>3. Data'
    <3>1. (\A r \in orphans : Honest(r))'
      BY <1>0, <1>1, <2>0, HonestStays DEF BeginWrite, server
    <3>2. OkIsApplied'
      BY <1>1, <2>0 DEF BeginWrite, OkIsApplied, Control
    <3>3. AckedWereApplied'
      BY <1>0, <1>1, <2>0 DEF BeginWrite, AckedWereApplied, Data, server
    <3> QED
      BY <1>1, <3>1, <3>2, <3>3 DEF BeginWrite, Data, ExactlyOnceInOrder, server
  <2>4. TimeoutStops'
    BY <1>1 DEF BeginWrite, TimeoutStops
  <2> QED
    BY <2>1, <2>2, <2>3, <2>4
<1>2. CASE StartUpload
  <2> DEFINE n == Smaller(sizer.current, todo)
             req == [op |-> "upload", seq |-> upOffset, from |-> pos, n |-> n]
  <2>0. /\ todo > 0 /\ upOffset = pos
        /\ n \in Nat \ {0} /\ req \in Requests
    <3>1. todo > 0 /\ upOffset = pos
      BY <1>2 DEF StartUpload, Control, Data
    <3>2. sizer.current \in Nat \ {0} /\ todo \in Nat \ {0}
      BY <1>0, <3>1, SizerAssumption DEF Sizes
    <3>3. n \in Nat \ {0}
      BY <3>2, RecordLenFits
    <3>4. upOffset \in Nat
      BY <1>0, <3>1
    <3>5. req \in UploadRequests
      BY <1>0, <3>3, <3>4 DEF UploadRequests
    <3> QED
      BY <3>1, <3>3, <3>5 DEF Requests
  <2>1. /\ call' = Entered("writer", req) /\ call'.by = "writer"
        /\ call'.step = "ensure" /\ call'.req = req /\ call'.answer = "none"
        /\ call' \in Calls
    <3>1. call' = Entered("writer", req)
      BY <1>2 DEF StartUpload
    <3> QED
      BY <2>0, <3>1, EnteredIsCall
  <2>2. RecordLen' = n /\ CurrentRequest' = req
    BY <1>2 DEF StartUpload, RecordLen, CurrentRequest
  <2>3. TypeOK'
    BY <1>0, <1>2, <2>1 DEF StartUpload, TypeOK, server
  <2>4. Control'
    BY <1>2, <2>1, <2>2 DEF StartUpload, Control, Free
  <2>5. Data'
    <3>1. (\A r \in orphans : Honest(r))'
      BY <1>0, <1>2, HonestStays DEF StartUpload, server
    <3> QED
      BY <1>2, <2>1, <3>1 DEF StartUpload, Data, ExactlyOnceInOrder,
                              AckedWereApplied, OkIsApplied, server
  <2>6. TimeoutStops'
    BY <1>2 DEF StartUpload, TimeoutStops
  <2> QED
    BY <2>3, <2>4, <2>5, <2>6
<1>3. CASE WriteTimedOut
  <2>1. TypeOK'
    BY <1>3 DEF WriteTimedOut, TypeOK, server
  <2>2. Control'
    BY <1>3 DEF WriteTimedOut, Control, CurrentRequest, RecordLen
  <2>3. Data'
    <3>1. (\A r \in orphans : Honest(r))'
      BY <1>0, <1>3, HonestStays DEF WriteTimedOut, server
    <3> QED
      BY <1>3, <3>1 DEF WriteTimedOut, Data, ExactlyOnceInOrder, Control,
                        AckedWereApplied, OkIsApplied, RecordLen, server
  <2>4. TimeoutStops'
    BY <1>3 DEF WriteTimedOut, TimeoutStops
  <2> QED
    BY <2>1, <2>2, <2>3, <2>4
<1>4. CASE WriteFailed
  <2>0. /\ sizer' \in Sizers /\ InBracket(sizer') /\ CountersLow(sizer')
    BY <1>0, <1>4, FailureReasonFits DEF WriteFailed
  <2>1. FailuresNow \in 0 .. MinFailureLimit
    <3>1. minFailures < MinFailureLimit /\ minFailures \in 0 .. MinFailureLimit
      BY <1>4 DEF WriteFailed, Control, TypeOK
    <3>2. FailuresNow = minFailures + 1 \/ FailuresNow = 0
      BY DEF FailuresNow
    <3> QED
      BY <3>1, <3>2, UploadAssumption
  <2>2. TypeOK'
    BY <1>4, <2>0, <2>1 DEF WriteFailed, TypeOK, server
  <2>3. Control'
    <3>1. wpc' # "stopped" => minFailures' < MinFailureLimit
      BY <1>4, <2>1, UploadAssumption DEF WriteFailed
    <3> QED
      BY <1>4, <2>0, <3>1
         DEF WriteFailed, Control, CurrentRequest, RecordLen
  <2>4. Data'
    <3>1. (\A r \in orphans : Honest(r))'
      BY <1>0, <1>4, HonestStays DEF WriteFailed, server
    <3> QED
      BY <1>4, <3>1 DEF WriteFailed, Data, ExactlyOnceInOrder, Control,
                        AckedWereApplied, OkIsApplied, RecordLen, server
  <2>5. TimeoutStops'
    BY <1>4 DEF WriteFailed, TimeoutStops
  <2> QED
    BY <2>2, <2>3, <2>4, <2>5
<1>5. CASE WriteRefused
  <2>1. TypeOK'
    BY <1>5 DEF WriteRefused, TypeOK, server
  <2>2. Control'
    BY <1>5 DEF WriteRefused, Control, CurrentRequest, RecordLen
  <2>3. Data'
    <3>1. (\A r \in orphans : Honest(r))'
      BY <1>0, <1>5, HonestStays DEF WriteRefused, server
    <3> QED
      BY <1>5, <3>1 DEF WriteRefused, Data, ExactlyOnceInOrder, Control,
                        AckedWereApplied, OkIsApplied, RecordLen, server
  <2>4. TimeoutStops'
    BY <1>5 DEF WriteRefused, TimeoutStops
  <2> QED
    BY <2>1, <2>2, <2>3, <2>4
<1>6. CASE WriteAcked
  <2>0. /\ todo > 0 /\ RecordLen \in Nat \ {0} /\ RecordLen <= todo
        /\ upOffset = pos /\ pos + RecordLen <= Len(applied)
        /\ call.by # "writer"
    BY <1>6, CurrentFits DEF WriteAcked, Control, Data, OkIsApplied
  <2>1. /\ pos' = pos + RecordLen /\ todo' = todo - RecordLen
        /\ pos' \in Nat /\ todo' \in Nat /\ pos' + todo' = pos + todo
        /\ upOffset' = pos' /\ (todo = RecordLen <=> todo' = 0)
    BY <1>0, <1>6, <2>0 DEF WriteAcked
  <2>2. sizer' \in Sizers /\ InBracket(sizer') /\ CountersLow(sizer')
    BY <1>0, <1>6, SuccessFits DEF WriteAcked
  <2>3. TypeOK'
    BY <1>6, <2>1, <2>2, UploadAssumption DEF WriteAcked, TypeOK, server
  <2>4. Control'
    BY <1>6, <2>0, <2>1, <2>2, UploadAssumption DEF WriteAcked, Control
  <2>5. Data'
    <3>1. (\A r \in orphans : Honest(r))'
      BY <1>0, <1>6, <2>1, HonestStays DEF WriteAcked, server
    <3>2. AckedWereApplied'
      BY <1>0, <1>6, <2>0, <2>1
         DEF WriteAcked, Data, AckedWereApplied, server
    <3>3. OkIsApplied'
      BY <1>6, <2>0 DEF WriteAcked, OkIsApplied
    <3> QED
      BY <1>6, <2>1, <3>1, <3>2, <3>3
         DEF WriteAcked, Data, ExactlyOnceInOrder, server
  <2>6. TimeoutStops'
    BY <1>6 DEF WriteAcked, TimeoutStops
  <2> QED
    BY <2>3, <2>4, <2>5, <2>6
<1>7. CASE SingleStep
  <2>1. CASE EnsureClosed
    <3>1. lane' \in Lanes /\ orphans' = orphans
      BY <2>1 DEF EnsureClosed, TypeOK, server
    <3>2. UNCHANGED <<notSingle, applied, session>>
      BY <2>1 DEF EnsureClosed, server
    <3>3. timedOut' = (timedOut \/ ("error" = "timeout"
                                    /\ call.req.op = "upload"))
      BY <2>1 DEF EnsureClosed, TypeOK
    <3> QED
      BY <2>1, <3>1, <3>2, <3>3, FaultPreserves DEF EnsureClosed, FaultKinds
  <2>2. CASE EnsureReuses
    <3>1. StepsTo("send")
      BY <1>0, <2>2 DEF EnsureReuses, StepsTo, TypeOK
    <3> QED
      BY <3>1, StepPreserves
  <2>3. CASE Dial
    <3>1. lane' \in Lanes
      BY <2>3, LaneTypes DEF Dial, TypeOK
    <3>2. StepsTo("send")
      BY <1>0, <2>3, <3>1 DEF Dial, StepsTo
    <3> QED
      BY <3>2, StepPreserves
  <2>4. CASE Send
    <3>1. StepsTo("recv")
      BY <1>0, <2>4 DEF Send, StepsTo, TypeOK
    <3> QED
      BY <3>1, StepPreserves
  <2>5. CASE Receive
    BY <2>5, ReceivePreserves
  <2>6. ASSUME NEW kind \in FaultKinds, DialFails(kind) PROVE IInv'
    <3>1. lane' \in Lanes
      BY <2>6, LaneTypes DEF DialFails, TypeOK
    <3>2. orphans' = orphans /\ UNCHANGED <<notSingle, applied, session>>
      BY <2>6 DEF DialFails, server
    <3> QED
      BY <2>6, <3>1, <3>2, FaultPreserves DEF DialFails, NoteTimeout
  <2>7. ASSUME NEW kind \in FaultKinds, SendFails(kind) PROVE IInv'
    <3>1. lane' \in Lanes
      BY <2>7, LaneTypes DEF SendFails, TypeOK
    <3>2. orphans' = orphans /\ UNCHANGED <<notSingle, applied, session>>
      BY <2>7 DEF SendFails, server
    <3> QED
      BY <2>7, <3>1, <3>2, FaultPreserves DEF SendFails, NoteTimeout
  <2>8. ASSUME NEW kind \in FaultKinds, ReceiveFails(kind) PROVE IInv'
    <3>1. lane' \in Lanes
      BY <2>8, LaneTypes DEF ReceiveFails, TypeOK
    <3>2. /\ orphans' \subseteq orphans \cup {call.req}
          /\ UNCHANGED <<notSingle, applied, session>>
      BY <2>8 DEF ReceiveFails
    <3> QED
      BY <2>8, <3>1, <3>2, FaultPreserves DEF ReceiveFails, NoteTimeout
  <2> QED
    BY <1>7, <2>1, <2>2, <2>3, <2>4, <2>5, <2>6, <2>7, <2>8 DEF SingleStep
<1>8. CASE CloseStep \/ ReadTimedOut
  BY <1>8, ClosePreserves
<1>9. CASE Serve
  BY <1>9, ServePreserves
<1>10. CASE ServeOrphan \/ ServerEnds
  BY <1>10, ServerPreserves
<1>11. CASE UNCHANGED vars
  <2>1. CurrentRequest' = CurrentRequest /\ RecordLen' = RecordLen
    BY <1>11 DEF vars, writer, CurrentRequest, RecordLen
  <2>2. TypeOK'
    BY <1>11 DEF vars, writer, server, TypeOK
  <2>3. Control'
    BY <1>11, <2>1 DEF vars, writer, server, Control
  <2>4. (\A r \in orphans : Honest(r))'
    BY <1>0, <1>11, HonestStays DEF vars, writer, server
  <2>5. Data' /\ TimeoutStops'
    BY <1>11, <2>1, <2>4 DEF vars, writer, server, Data, ExactlyOnceInOrder,
       AckedWereApplied, OkIsApplied, TimeoutStops
  <2> QED
    BY <2>2, <2>3, <2>5
<1> QED
  BY <1>1, <1>2, <1>3, <1>4, <1>5, <1>6, <1>7, <1>8, <1>9, <1>10, <1>11
     DEF Next, WriteStep

-----------------------------------------------------------------------------
(* The theorems                                                            *)

\* The inductive invariant holds in every reachable state.
THEOREM Invariance == Spec => []IInv
<1>1. Init => IInv
  BY InitIInv
<1>2. IInv /\ [Next]_vars => IInv'
  BY NextIInv
<1> QED
  BY <1>1, <1>2, PTL DEF Spec

\* Every variable keeps its type; in particular the failures counted at the
\* minimum size never pass the limit and the record size stays in its range.
THEOREM TypeCorrect == Spec => []TypeOK
<1>1. IInv => TypeOK
  BY DEF IInv
<1> QED
  BY <1>1, Invariance, PTL

\* Whatever Write retries, resizes or abandons, and however late the network
\* delivers it, the server's stream is the caller's bytes, once and in order.
THEOREM UploadsExactlyOnce == Spec => []ExactlyOnceInOrder
<1>1. IInv => ExactlyOnceInOrder
  BY DEF IInv, Data
<1> QED
  BY <1>1, Invariance, PTL

\* What Write reports as written the server has, and it has no byte that no
\* caller handed over.
THEOREM AckedAreApplied == Spec => []AckedWereApplied
<1>1. IInv => AckedWereApplied
  BY DEF IInv, Data
<1> QED
  BY <1>1, Invariance, PTL

\* After an upload request has timed out no upload request is sent any more,
\* neither by the lane's second attempt nor by another round of Write.
THEOREM NoReplay == Spec => NoReplayAfterTimeout
<1>1. IInv => (timedOut => ~SendsUpload)
  <2> SUFFICES ASSUME IInv, timedOut, SendsUpload PROVE FALSE
    OBVIOUS
  <2>1. call.req = CurrentRequest \/ call.req = CloseRequest
    BY DEF IInv, Control
  <2>2. call.by = "writer"
    BY DEF IInv, Control, SendsUpload, CloseRequest
  <2>3. wpc = "single"
    BY <2>2 DEF IInv, Control
  <2> QED
    BY <2>3 DEF IInv, TimeoutStops
<1>2. IInv /\ [Next]_vars => [timedOut => ~SendsUpload]_vars
  BY <1>1
<1> QED
  BY <1>2, Invariance, PTL DEF Spec, NoReplayAfterTimeout

\* A closed lane has no connection, and no call is past the point where
\* ensureLocked would notice that it is closed.
ClosedForGood ==
    cpc = "done" =>
        lane.closed /\ ~lane.open /\ call.step \in {"free", "ensure"}

\* Once Close has returned, the retries of a Write that is still under way
\* never open another connection.
THEOREM StaysClosed == Spec => []NothingOpenAfterClose
<1>1. Init => ClosedForGood
  BY DEF Init, ClosedForGood
<1>2. IInv /\ ClosedForGood /\ [Next]_vars => ClosedForGood'
  <2> SUFFICES ASSUME IInv, ClosedForGood, [Next]_vars, cpc' = "done"
               PROVE  /\ lane'.closed /\ ~lane'.open
                      /\ call'.step \in {"free", "ensure"}
    BY DEF ClosedForGood
  <2>0. call \in Calls /\ lane \in Lanes
    BY DEF IInv, TypeOK
  <2>1. CASE CloseLanes
    <3>1. lane'.closed /\ ~lane'.open
      <4>1. Discarded(lane) \in Lanes /\ Discarded(lane).open = FALSE
        BY <2>0, LaneTypes DEF Discarded, Lanes
      <4>2. lane' = [Discarded(lane) EXCEPT !.closed = TRUE]
        BY <2>1 DEF CloseLanes, Shut
      <4> QED
        BY <4>1, <4>2 DEF Lanes
    <3>2. call'.step = "free"
      BY <2>1 DEF CloseLanes, Free
    <3> QED
      BY <3>1, <3>2
  <2>2. CASE StartUpload
    <3>1. cpc = "done" /\ lane' = lane
      BY <2>2 DEF StartUpload
    <3>2. call'.step = "ensure"
      BY <2>2 DEF StartUpload, Entered
    <3> QED
      BY <3>1, <3>2 DEF ClosedForGood
  <2>3. CASE EnsureClosed
    <3>1. cpc = "done"
      BY <2>3 DEF EnsureClosed, AfterFault, Return
    <3>2. call' = Free \/ call' = [call EXCEPT !.step = "ensure",
                                   !.attempt = 2, !.answer = "none"]
      BY <2>3 DEF EnsureClosed, AfterFault, Return
    <3>3. call'.step \in {"free", "ensure"}
      <4>1. Free.step = "free"
        BY DEF Free
      <4> QED
        BY <2>0, <3>2, <4>1, RetryIsCall
    <3> QED
      BY <2>3, <3>1, <3>3 DEF EnsureClosed, ClosedForGood
  <2>4. CASE call' = call /\ lane' = lane /\ cpc' = cpc
    BY <2>4 DEF ClosedForGood
  <2>5. CASE \/ EnsureReuses \/ Dial \/ Send \/ Receive \/ Serve
             \/ \E kind \in FaultKinds :
                    DialFails(kind) \/ SendFails(kind) \/ ReceiveFails(kind)
    <3>1. /\ call.step \in {"send", "recv"} \/ ~lane.closed
          /\ cpc' = cpc \/ cpc' = "lanes"
      BY <2>5 DEF EnsureReuses, Dial, Send, Receive, Serve, DialFails,
         SendFails, ReceiveFails, AfterFault, Return
    <3> QED
      BY <3>1 DEF ClosedForGood
  <2>6. CASE BeginClose \/ StartClose
    BY <2>6 DEF BeginClose, StartClose
  <2>7. CASE \/ BeginWrite \/ WriteTimedOut \/ WriteFailed \/ WriteRefused
             \/ WriteAcked \/ ReadTimedOut \/ ServeOrphan \/ ServerEnds
             \/ UNCHANGED vars
    <3>1. call' = call /\ lane' = lane /\ cpc' = cpc
      BY <2>7 DEF BeginWrite, WriteTimedOut, WriteFailed, WriteRefused,
         WriteAcked, ReadTimedOut, ServeOrphan, ServerEnds, vars
    <3> QED
      BY <2>4, <3>1
  <2> QED
    BY <2>1, <2>2, <2>3, <2>5, <2>6, <2>7
       DEF Next, WriteStep, SingleStep, CloseStep
<1>3. ClosedForGood => NothingOpenAfterClose
  BY DEF ClosedForGood, NothingOpenAfterClose
<1> QED
  BY <1>1, <1>2, <1>3, Invariance, PTL DEF Spec

-----------------------------------------------------------------------------
(* Refinement                                                              *)

\* In order without loss is the same as being a prefix of the bytes written.
LEMMA InOrderIsPrefix ==
    ASSUME NEW s \in Seq(Nat), \A i \in DOMAIN s : s[i] = i
    PROVE  s = Pipe!Prefix(Len(s)) /\ Len(s) \in Nat
<1>1. Len(s) \in Nat /\ DOMAIN s = 1 .. Len(s)
      /\ s = [i \in 1 .. Len(s) |-> s[i]]
  BY LenProperties, SeqDef
<1> QED
  BY <1>1 DEF Pipe!Prefix

\* Every step of the upload direction offers, delivers or releases bytes of
\* the pipe, or is invisible to its users.
LEMMA StepRefines == IInv /\ IInv' /\ [Next]_vars => [Pipe!Next]_(Pipe!pipe)
<1> SUFFICES ASSUME IInv, IInv', [Next]_vars
             PROVE  [Pipe!Next]_(Pipe!pipe)
  OBVIOUS
<1>1. /\ pos \in Nat /\ todo \in Nat /\ pos' \in Nat /\ todo' \in Nat
      /\ applied \in Seq(Nat) /\ applied' \in Seq(Nat)
      /\ Len(applied) \in Nat /\ Len(applied') \in Nat
      /\ Len(applied) <= pos + todo /\ Len(applied') <= pos' + todo'
  BY LenProperties DEF IInv, TypeOK, Data, AckedWereApplied
<1>2. /\ applied = Pipe!Prefix(Len(applied))
      /\ applied' = Pipe!Prefix(Len(applied'))
  <2>1. \A i \in DOMAIN applied : applied[i] = i
    BY DEF IInv, Data, ExactlyOnceInOrder
  <2>2. \A i \in DOMAIN applied' : applied'[i] = i
    BY DEF IInv, Data, ExactlyOnceInOrder
  <2> QED
    BY <1>1, <2>1, <2>2, InOrderIsPrefix
<1>3. CASE BeginWrite
  <2>1. todo = 0 /\ todo' > 0 /\ pos' = pos /\ applied' = applied
    BY <1>1, <1>3, UploadAssumption DEF BeginWrite, IInv, Control, server
  <2>2. /\ (pos + todo)' \in Nat /\ (pos + todo)' > pos + todo
    <3>1. ASSUME NEW a \in Nat, NEW b \in Nat, b > 0
          PROVE  a + b \in Nat /\ a + b > a + 0
      BY <3>1
    <3> QED
      BY <1>1, <2>1, <3>1
  <2> QED
    BY <2>1, <2>2 DEF Pipe!Next, Pipe!Offer
<1>4. CASE WriteAcked
  <2>1. /\ RecordLen \in Nat \ {0} /\ RecordLen <= todo
        /\ pos + RecordLen <= Len(applied)
    BY <1>4, CurrentFits DEF IInv, WriteAcked, Control, Data, OkIsApplied
  <2>2. /\ pos' = pos + RecordLen /\ todo' = todo - RecordLen
        /\ applied' = applied
    BY <1>4 DEF WriteAcked, server
  <2>3. (pos + todo)' = pos + todo /\ pos' \in pos + 1 .. Len(applied)
    BY <1>1, <2>1, <2>2
  <2> QED
    BY <2>2, <2>3 DEF Pipe!Next, Pipe!Release
<1>5. CASE Serve \/ ServeOrphan
  <2>1. pos' = pos /\ todo' = todo /\ Len(applied) <= Len(applied')
    <3>1. CASE Serve
      <4>1. call.req \in Requests /\ Honest(call.req)
        <5>1. call \in Calls
          BY DEF IInv, TypeOK
        <5>2. call.req \in Requests
          BY <5>1 DEF Calls
        <5>3. CASE call.by = "writer"
          BY <5>2, <5>3, CurrentFits DEF IInv, Control
        <5>4. CASE call.by # "writer"
          BY <5>2, <5>4 DEF IInv, Control, Honest, CloseRequest
        <5> QED
          BY <5>3, <5>4
      <4> QED
        BY <3>1, <4>1, ProcessPreserves DEF Serve, writer
    <3>2. CASE ServeOrphan
      <4>1. PICK r \in orphans : Process(r)
        BY <3>2 DEF ServeOrphan
      <4>2. r \in Requests /\ Honest(r)
        BY DEF IInv, TypeOK, Data
      <4> QED
        BY <3>2, <4>1, <4>2, ProcessPreserves DEF ServeOrphan, writer
    <3> QED
      BY <1>5, <3>1, <3>2
  <2>2. (pos + todo)' = pos + todo
    BY <2>1
  <2>3. CASE Len(applied') = Len(applied)
    <3>1. applied' = applied
      BY <1>2, <2>3
    <3> QED
      BY <2>1, <2>2, <3>1 DEF Pipe!pipe
  <2>4. CASE Len(applied') # Len(applied)
    <3>1. Len(applied') \in Len(applied) + 1 .. pos + todo
      BY <1>1, <2>1, <2>4
    <3> QED
      BY <1>2, <2>1, <2>2, <3>1 DEF Pipe!Next, Pipe!Deliver
  <2> QED
    BY <2>3, <2>4
<1>6. CASE pos' = pos /\ todo' = todo /\ applied' = applied
  BY <1>6 DEF Pipe!pipe
<1>7. CASE SingleStep
  <2>1. pos' = pos /\ todo' = todo /\ applied' = applied
    BY <1>7 DEF SingleStep, EnsureClosed, EnsureReuses, Dial, Send, Receive,
       DialFails, SendFails, ReceiveFails, notSingle, server
  <2> QED
    BY <1>6, <2>1
<1>8. CASE \/ StartUpload \/ WriteTimedOut \/ WriteFailed \/ WriteRefused
           \/ CloseStep \/ ReadTimedOut \/ ServerEnds \/ UNCHANGED vars
  <2>1. pos' = pos /\ todo' = todo /\ applied' = applied
    BY <1>8 DEF StartUpload, WriteTimedOut, WriteFailed, WriteRefused,
       CloseStep, BeginClose, StartClose, CloseLanes, ReadTimedOut,
       ServerEnds, vars, writer, server
  <2> QED
    BY <1>6, <2>1
<1> QED
  BY <1>3, <1>4, <1>5, <1>7, <1>8 DEF Next, WriteStep

\* The upload direction, with its records, retries, rotations and late
\* deliveries, implements the reliable byte pipe.
THEOREM ImplementsPipe == Spec => PipeSpec
<1>1. Init => Pipe!Init
  <2> SUFFICES ASSUME Init PROVE Pipe!Init
    OBVIOUS
  <2>1. pos = 0 /\ todo = 0 /\ applied = <<>>
    BY DEF Init
  <2>2. <<>> = Pipe!Prefix(0)
    <3>1. <<>> \in Seq(Nat) /\ Len(<<>>) = 0
          /\ \A i \in DOMAIN <<>> : <<>>[i] = i
      OBVIOUS
    <3>2. <<>> = Pipe!Prefix(Len(<<>>))
      BY <3>1, InOrderIsPrefix
    <3> QED
      BY <3>1, <3>2
  <2> QED
    BY <2>1, <2>2 DEF Pipe!Init
<1>2. IInv /\ IInv' /\ [Next]_vars => [Pipe!Next]_(Pipe!pipe)
  BY StepRefines
<1> QED
  BY <1>1, <1>2, Invariance, PTL DEF Spec, PipeSpec, Pipe!Spec
=============================================================================
