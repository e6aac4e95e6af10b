---------------------------- MODULE XorPullProofs ----------------------------
(***************************************************************************)
(* For every number of pollers, capacity of the channel, range of sizes    *)
(* and records: whoever fetches which record, what Read returns is the     *)
(* target's stream, in order and complete when it says so, the server      *)
(* forgets only what Read has returned, and Close leaves nothing behind.   *)
(***************************************************************************)
EXTENDS XorPull, TunnelLemmas

-----------------------------------------------------------------------------
(* The inductive invariant                                                 *)

\* No record is empty.
Growing == \A a, b \in 0 .. Len(ends) : a < b => Start(a) < Start(b)

\* The bytes of record s, all of them.
Whole(s, bytes) ==
    /\ s < Len(ends)
    /\ Segment(bytes, Start(s))
    /\ Len(bytes) = Start(s + 1) - Start(s)

\* What a poller has of its record is a beginning of it; it acknowledges
\* nothing that Read has not returned.
Begun(j) ==
    /\ Segment(j.assembled, Start(j.seq))
    /\ j.seq >= Len(ends) => j.assembled = <<>>
    /\ j.seq < Len(ends) => Len(j.assembled) < Start(j.seq + 1) - Start(j.seq)

Jobbed == \A w \in Pollers : Begun(job[w]) /\ job[w].ack <= ack

\* A result is a whole record, or the number of them, or an error.
Honest(r) ==
    /\ r.kind = "data" => Whole(r.seq, r.data)
    /\ r.kind = "eof" => ended /\ r.final = Len(ends)

Carried ==
    /\ \A w \in Pollers : Honest(post[w])
    /\ \A i \in 1 .. Len(results) : Honest(results[i])
    /\ \A s \in DOMAIN pending : Whole(s, pending[s])

\* Read is at a byte of record nextRead, of which current is what is left.
InOrder ==
    /\ Segment(consumed, 0)
    /\ nextRead <= Len(ends) /\ Start(nextRead) <= Len(consumed)
    /\ current = <<>> => Len(consumed) = Start(nextRead)
    /\ current # <<>> =>
           /\ nextRead < Len(ends)
           /\ Segment(current, Len(consumed))
           /\ Len(consumed) + Len(current) = Start(nextRead + 1)

Ends ==
    /\ finalKnown => ended /\ finalSeq = Len(ends)
    /\ rpc = "eof" =>
           \/ ended /\ current = <<>> /\ nextRead = Len(ends)
           \/ resultsClosed

Acks == forgotten <= ack /\ ack <= nextRead

\* A closed lane carries nothing, and the channel is closed last.
Closing ==
    /\ \A w \in Pollers : lane[w].closed => ~lane[w].open /\ wpc[w] # "sent"
    /\ cpc \in {"join", "done"} => \A w \in Pollers : lane[w].closed
    /\ cpc = "done" => \A w \in Pollers : wpc[w] = "done"
    /\ resultsClosed => cpc = "done"

Adapts == InBracket(sizer) /\ CountersLow(sizer)

IInv == /\ TypeOK /\ Growing /\ Jobbed /\ Carried /\ InOrder /\ Ends /\ Acks
        /\ Closing /\ Adapts

-----------------------------------------------------------------------------
(* Lemmas about the stream                                                 *)

\* The ends of the records, as numbers.
LEMMA Starts ==
    ASSUME TypeOK
    PROVE  /\ Len(ends) \in Nat
           /\ \A s \in 0 .. Len(ends) : Start(s) \in Nat
           /\ Start(0) = 0
           /\ \A s \in 0 .. Len(ends) - 1 : ends[s + 1] = Start(s + 1)
           /\ Produced = Start(Len(ends)) /\ Produced \in Nat
<1>1. ends \in Seq(Nat) /\ Len(ends) \in Nat /\ DOMAIN ends = 1 .. Len(ends)
  BY LenProperties DEF TypeOK
<1>2. \A s \in 1 .. Len(ends) : ends[s] \in Nat
  BY <1>1
<1>3. \A s \in 0 .. Len(ends) : Start(s) \in Nat
  BY <1>1, <1>2 DEF Start
<1>4. Start(0) = 0 /\ \A s \in 0 .. Len(ends) - 1 : ends[s + 1] = Start(s + 1)
  BY <1>1 DEF Start
<1>5. Produced = Start(Len(ends))
  <2>1. ends = <<>> <=> Len(ends) = 0
    BY <1>1, EmptySeq
  <2> QED
    BY <1>1, <2>1 DEF Produced, Start
<1> QED
  BY <1>1, <1>3, <1>4, <1>5

\* The lengths and numbers that several steps need.
LEMMA Numbers ==
    ASSUME TypeOK
    PROVE  /\ nextRead \in Nat /\ ack \in Nat /\ forgotten \in Nat /\ claim \in Nat
           /\ Len(consumed) \in Nat /\ Len(current) \in Nat /\ Len(results) \in Nat
           /\ current = <<>> <=> Len(current) = 0
           /\ finalSeq \in Nat
BY LenProperties, EmptySeq DEF TypeOK

LEMMA EmptyBegins ==
    ASSUME NEW a
    PROVE  Segment(<<>>, a) /\ Len(<<>>) = 0
BY DEF Segment

\* A record has a first byte.
LEMMA NotEmpty ==
    ASSUME TypeOK, Growing, NEW s \in Nat, s < Len(ends)
    PROVE  /\ Start(s) \in Nat /\ Start(s + 1) \in Nat
           /\ Start(s) < Start(s + 1) /\ ends[s + 1] = Start(s + 1)
           /\ Start(s + 1) <= Produced
<1>1. /\ Len(ends) \in Nat /\ s \in 0 .. Len(ends) - 1
      /\ s \in 0 .. Len(ends) /\ s + 1 \in 0 .. Len(ends) /\ s < s + 1
      /\ Len(ends) \in 0 .. Len(ends)
  BY Starts
<1>2. /\ Start(s) \in Nat /\ Start(s + 1) \in Nat /\ ends[s + 1] = Start(s + 1)
      /\ Produced = Start(Len(ends)) /\ Produced \in Nat
  BY <1>1, Starts
<1>3. s + 1 < Len(ends) \/ s + 1 = Len(ends)
  BY <1>1
<1>4. Start(s + 1) <= Produced
  BY <1>1, <1>2, <1>3 DEF Growing
<1> QED
  BY <1>1, <1>2, <1>4 DEF Growing

\* A new job has nothing of its record.
LEMMA NoJobBegins ==
    ASSUME TypeOK, Growing, NEW s \in Nat
    PROVE  LET j == [NoJob EXCEPT !.seq = s]
           IN  /\ j \in Jobs /\ Begun(j) /\ j.ack = 0
               /\ NoJob \in Jobs /\ Begun(NoJob) /\ NoJob.ack = 0
<1>1. MinSize \in Sizes /\ MinFailureLimit \in Nat
  BY SizerAssumption, PullAssumption DEF Sizes
<1>2. NoJob \in Jobs
  BY <1>1 DEF NoJob, Jobs
<1> DEFINE j == [NoJob EXCEPT !.seq = s]
<1>3. j \in Jobs /\ j.seq = s /\ j.assembled = <<>> /\ j.ack = 0
  BY <1>2 DEF NoJob, Jobs
<1>4. NoJob.seq = 0 /\ NoJob.assembled = <<>> /\ NoJob.ack = 0
  BY DEF NoJob
<1>5. ASSUME NEW t \in Nat, t < Len(ends)
      PROVE  0 < Start(t + 1) - Start(t)
  BY <1>5, NotEmpty
<1>6. Len(<<>>) = 0 /\ \A a : Segment(<<>>, a)
  BY EmptyBegins
<1> HIDE DEF j
<1>7. Begun(j)
  BY <1>3, <1>5, <1>6 DEF Begun
<1>8. Begun(NoJob)
  BY <1>4, <1>5, <1>6 DEF Begun
<1> QED
  BY <1>2, <1>3, <1>4, <1>7, <1>8 DEF j

LEMMA ErrIsHonest == Err \in Results /\ Honest(Err)
BY DEF Err, Results, Honest

\* The stream stands still: so does what is said of it.
LEMMA StreamStands ==
    ASSUME UNCHANGED <<ends, ended>>
    PROVE  /\ \A s : Start(s)' = Start(s)
           /\ Growing' <=> Growing
           /\ \A k : Begun(k)' <=> Begun(k)
           /\ \A s, bytes : Whole(s, bytes)' <=> Whole(s, bytes)
           /\ \A r : Honest(r)' <=> Honest(r)
<1>1. \A s : Start(s)' = Start(s)
  BY DEF Start
<1>2. Growing' <=> Growing
  BY <1>1 DEF Growing
<1>3. \A k : Begun(k)' <=> Begun(k)
  BY <1>1 DEF Begun
<1>4. \A s, bytes : Whole(s, bytes)' <=> Whole(s, bytes)
  BY <1>1 DEF Whole
<1>5. \A r : Honest(r)' <=> Honest(r)
  BY <1>1 DEF Honest, Whole
<1> QED
  BY <1>1, <1>2, <1>3, <1>4, <1>5

-----------------------------------------------------------------------------
(* The pollers                                                             *)

Places == {"claim", "ask", "do", "sent", "post", "done"}
LaneStates == [open : BOOLEAN, closed : BOOLEAN]

\* A step of poller w that leaves the channel, Read, Close and the stream
\* alone.
LEMMA PollerMoves ==
    ASSUME IInv, NEW w \in Pollers,
           UNCHANGED <<channel, reader, closer, ends, ended>>,
           claim' \in Nat,
           sizer' \in Sizers, InBracket(sizer'), CountersLow(sizer'),
           NEW j \in Jobs, job' = [job EXCEPT ![w] = j], Begun(j), j.ack <= ack,
           NEW r \in Results, post' = [post EXCEPT ![w] = r], Honest(r),
           NEW l \in LaneStates, lane' = [lane EXCEPT ![w] = l],
           l.closed <=> lane[w].closed, l.closed => ~l.open,
           NEW p \in Places, wpc' = [wpc EXCEPT ![w] = p],
           p = "sent" => ~l.closed, wpc[w] # "done",
           forgotten' \in Nat, forgotten' <= ack
    PROVE  IInv'
<1> USE DEF IInv, channel, reader, closer
<1>1. /\ job \in [Pollers -> Jobs] /\ post \in [Pollers -> Results]
      /\ lane \in [Pollers -> LaneStates] /\ wpc \in [Pollers -> Places]
  BY DEF TypeOK, LaneStates, Places
<1>2. TypeOK'
  <2>1. /\ job' \in [Pollers -> Jobs] /\ post' \in [Pollers -> Results]
        /\ lane' \in [Pollers -> LaneStates] /\ wpc' \in [Pollers -> Places]
    BY <1>1
  <2> QED
    BY <2>1 DEF TypeOK, LaneStates, Places
<1>3. Growing'
  BY StreamStands DEF Growing
<1>4. Jobbed'
  <2>1. \A v \in Pollers : job'[v] = j \/ job'[v] = job[v]
    BY <1>1
  <2>2. \A v \in Pollers : Begun(job'[v]) /\ job'[v].ack <= ack'
    BY <2>1 DEF Jobbed
  <2>3. \A v \in Pollers : Begun(job[v])'
    BY <2>2 DEF Begun, Start
  <2> QED
    BY <2>2, <2>3 DEF Jobbed
<1>5. Carried'
  <2>1. \A v \in Pollers : Honest(post'[v])
    BY <1>1 DEF Carried
  <2>2. \A v \in Pollers : Honest(post[v])'
    BY <2>1 DEF Honest, Whole, Start
  <2>3. \A i \in 1 .. Len(results) : Honest(results[i])'
    BY DEF Carried, Honest, Whole, Start
  <2>4. \A s \in DOMAIN pending : Whole(s, pending[s])'
    BY DEF Carried, Whole, Start
  <2> QED
    BY <2>2, <2>3, <2>4 DEF Carried
<1>6. InOrder'
  BY DEF InOrder, Start
<1>7. Ends' /\ Acks' /\ Adapts'
  BY DEF Ends, Acks, Adapts
<1>8. Closing'
  <2>1. \A v \in Pollers : lane'[v].closed <=> lane[v].closed
    BY <1>1
  <2>2. \A v \in Pollers : lane'[v].closed => ~lane'[v].open /\ wpc'[v] # "sent"
    BY <1>1 DEF Closing
  <2>3. cpc # "done"
    BY DEF Closing
  <2> QED
    BY <2>1, <2>2, <2>3 DEF Closing
<1> QED
  BY <1>2, <1>3, <1>4, <1>5, <1>6, <1>7, <1>8

\* What a poller's step finds.
LEMMA PollerFacts ==
    ASSUME IInv, NEW w \in Pollers
    PROVE  /\ job[w] \in Jobs /\ Begun(job[w]) /\ job[w].ack <= ack
           /\ post[w] \in Results /\ Honest(post[w])
           /\ lane[w] \in LaneStates /\ (lane[w].closed => ~lane[w].open)
           /\ wpc[w] \in Places /\ (wpc[w] = "sent" => ~lane[w].closed)
           /\ sizer \in Sizers /\ InBracket(sizer) /\ CountersLow(sizer)
           /\ sizer.current \in Sizes /\ claim \in Nat
           /\ forgotten \in Nat /\ forgotten <= ack /\ ack \in Nat
           /\ job = [job EXCEPT ![w] = job[w]]
           /\ post = [post EXCEPT ![w] = post[w]]
           /\ lane = [lane EXCEPT ![w] = lane[w]]
           /\ wpc = [wpc EXCEPT ![w] = wpc[w]]
<1>1. /\ job \in [Pollers -> Jobs] /\ post \in [Pollers -> Results]
      /\ lane \in [Pollers -> LaneStates] /\ wpc \in [Pollers -> Places]
      /\ sizer \in Sizers /\ claim \in Nat /\ forgotten \in Nat /\ ack \in Nat
  BY DEF IInv, TypeOK, LaneStates, Places
<1>2. sizer.current \in Sizes
  BY <1>1 DEF Sizers
<1> QED
  BY <1>1, <1>2 DEF IInv, Jobbed, Carried, Closing, Adapts, Acks

LEMMA ClaimStep ==
    ASSUME IInv, NEW w \in Pollers, Claim(w)
    PROVE  IInv'
<1> DEFINE j == [NoJob EXCEPT !.seq = claim]
<1>1. /\ UNCHANGED <<sizer, post, lane, channel, reader, closer, server>>
      /\ claim' = claim + 1 /\ wpc[w] = "claim"
      /\ job' = [job EXCEPT ![w] = j] /\ wpc' = [wpc EXCEPT ![w] = "ask"]
  BY DEF Claim, ClaimAfter
<1>2. claim \in Nat /\ TypeOK /\ Growing
  BY PollerFacts DEF IInv
<1>3. j \in Jobs /\ Begun(j) /\ j.ack = 0
  BY <1>2, NoJobBegins
<1> HIDE DEF j
<1>4. "ask" \in Places /\ claim' \in Nat /\ 0 <= ack
  BY <1>1, <1>2, PollerFacts DEF Places
<1> QED
  BY <1>1, <1>3, <1>4, PollerFacts, PollerMoves DEF server

LEMMA StopsOnCancelStep ==
    ASSUME IInv, NEW w \in Pollers, StopsOnCancel(w)
    PROVE  IInv'
<1>1. /\ UNCHANGED <<claim, sizer, job, post, lane, channel, reader, closer, server>>
      /\ wpc' = [wpc EXCEPT ![w] = "done"] /\ wpc[w] # "done" /\ "done" \in Places
  BY DEF StopsOnCancel, Places
<1> QED
  BY <1>1, PollerFacts, PollerMoves DEF server

LEMMA AskStep ==
    ASSUME IInv, NEW w \in Pollers, Ask(w)
    PROVE  IInv'
<1> DEFINE j == [job[w] EXCEPT !.limit = sizer.current, !.ack = ack]
<1>1. /\ UNCHANGED <<claim, sizer, post, lane, channel, reader, closer, server>>
      /\ wpc' = [wpc EXCEPT ![w] = "do"] /\ wpc[w] # "done" /\ "do" \in Places
  BY DEF Ask, Places
<1>2. job \in [Pollers -> Jobs]
  BY DEF IInv, TypeOK
<1>3. job' = [job EXCEPT ![w] = j]
  BY <1>2 DEF Ask, Jobs
<1>4. /\ j \in Jobs /\ j.seq = job[w].seq /\ j.assembled = job[w].assembled
      /\ j.ack = ack
  BY PollerFacts DEF Jobs
<1> HIDE DEF j
<1>5. Begun(j) /\ j.ack <= ack
  BY <1>4, PollerFacts DEF Begun
<1> QED
  BY <1>1, <1>3, <1>4, <1>5, PollerFacts, PollerMoves DEF server

LEMMA SendStep ==
    ASSUME IInv, NEW w \in Pollers, Send(w)
    PROVE  IInv'
<1> DEFINE l == [lane[w] EXCEPT !.open = TRUE]
<1>1. /\ UNCHANGED <<claim, sizer, job, post, channel, reader, closer, server>>
      /\ wpc' = [wpc EXCEPT ![w] = "sent"] /\ wpc[w] # "done" /\ "sent" \in Places
      /\ ~lane[w].closed
  BY DEF Send, Places
<1>2. lane \in [Pollers -> LaneStates]
  BY DEF IInv, TypeOK, LaneStates
<1>3. lane' = [lane EXCEPT ![w] = l] /\ l \in LaneStates /\ ~l.closed
  BY <1>1, <1>2 DEF Send, LaneStates
<1> HIDE DEF l
<1> QED
  BY <1>1, <1>3, PollerFacts, PollerMoves DEF server

\* The record is asked for again as far as it is assembled.
LEMMA AgainFits ==
    ASSUME IInv, NEW w \in Pollers, NEW k \in Jobs, Begun(k), AsksAgain(w, k)
    PROVE  \E j \in Jobs : job' = [job EXCEPT ![w] = j] /\ Begun(j) /\ j.ack <= ack
<1> DEFINE j == [k EXCEPT !.limit = MinSize, !.ack = 0]
<1>1. MinSize \in Sizes
  BY SizerAssumption DEF Sizes
<1>2. j \in Jobs /\ j.seq = k.seq /\ j.assembled = k.assembled /\ j.ack = 0
  BY <1>1 DEF Jobs
<1>3. job' = [job EXCEPT ![w] = j]
  BY DEF AsksAgain
<1> HIDE DEF j
<1>4. Begun(j) /\ j.ack <= ack
  BY <1>2, PollerFacts DEF Begun
<1> QED
  BY <1>2, <1>3, <1>4

\* Either way that an attempt ends: with the next one, or with a result.
LEMMA AgainMoves ==
    ASSUME IInv, NEW w \in Pollers, NEW k \in Jobs, Begun(k), AsksAgain(w, k),
           UNCHANGED <<claim, channel, reader, closer, ends, ended>>,
           sizer' \in Sizers, InBracket(sizer'), CountersLow(sizer'),
           NEW l \in LaneStates, lane' = [lane EXCEPT ![w] = l],
           l.closed <=> lane[w].closed, l.closed => ~l.open,
           wpc[w] # "done", forgotten' \in Nat, forgotten' <= ack
    PROVE  IInv'
<1>1. PICK j \in Jobs : job' = [job EXCEPT ![w] = j] /\ Begun(j) /\ j.ack <= ack
  BY AgainFits
<1>2. wpc' = [wpc EXCEPT ![w] = "ask"] /\ "ask" \in Places /\ UNCHANGED post
  BY DEF AsksAgain, Places
<1> QED
  BY <1>1, <1>2, PollerFacts, PollerMoves

LEMMA PostsMoves ==
    ASSUME IInv, NEW w \in Pollers, NEW r \in Results, Honest(r), Posts(w, r),
           UNCHANGED <<claim, channel, reader, closer, ends, ended>>,
           sizer' \in Sizers, InBracket(sizer'), CountersLow(sizer'),
           NEW l \in LaneStates, lane' = [lane EXCEPT ![w] = l],
           l.closed <=> lane[w].closed, l.closed => ~l.open,
           wpc[w] # "done", forgotten' \in Nat, forgotten' <= ack
    PROVE  IInv'
<1>1. /\ job' = [job EXCEPT ![w] = NoJob] /\ post' = [post EXCEPT ![w] = r]
      /\ wpc' = [wpc EXCEPT ![w] = "post"] /\ "post" \in Places
  BY DEF Posts, Places
<1>2. NoJob \in Jobs /\ Begun(NoJob) /\ NoJob.ack <= ack
  <2>1. NoJob \in Jobs /\ Begun(NoJob) /\ NoJob.ack = 0
    BY NoJobBegins, 0 \in Nat DEF IInv
  <2> QED
    BY <2>1, PollerFacts
<1> QED
  BY <1>1, <1>2, PollerFacts, PollerMoves

LEMMA FaultMoves ==
    ASSUME IInv, NEW w \in Pollers, Fault(w), wpc[w] \in {"do", "sent"},
           UNCHANGED <<claim, channel, reader, closer, ends, ended>>,
           NEW l \in LaneStates, lane' = [lane EXCEPT ![w] = l],
           l.closed <=> lane[w].closed, l.closed => ~l.open,
           forgotten' \in Nat, forgotten' <= ack
    PROVE  IInv'
<1> DEFINE after == FailureReason(sizer, job[w].limit)
           failures == FailuresNow(w, sizer, after)
           k == [job[w] EXCEPT !.failures = failures]
<1>1. job[w].limit \in Sizes /\ job[w].failures \in Nat
  BY PollerFacts, PullAssumption DEF Jobs
<1>2. sizer' = after /\ after \in Sizers /\ InBracket(after) /\ CountersLow(after)
  BY <1>1, PollerFacts, FailureReasonFits DEF Fault
<1>3. failures \in Nat /\ MinFailureLimit \in Nat
  BY <1>1, PullAssumption DEF FailuresNow
<1>4. IF failures >= MinFailureLimit THEN Posts(w, Err) ELSE AsksAgain(w, k)
  BY DEF Fault
<1> HIDE DEF after, failures
<1>5. CASE failures >= MinFailureLimit
  BY <1>2, <1>4, <1>5, ErrIsHonest, PostsMoves
<1>6. CASE ~(failures >= MinFailureLimit)
  <2>1. failures \in 0 .. MinFailureLimit
    BY <1>3, <1>6
  <2>2. k \in Jobs /\ k.seq = job[w].seq /\ k.assembled = job[w].assembled
    BY <2>1, PollerFacts DEF Jobs
  <2> HIDE DEF k
  <2>3. Begun(k)
    BY <2>2, PollerFacts DEF Begun
  <2> QED
    BY <1>2, <1>4, <1>6, <2>2, <2>3, AgainMoves
<1> QED
  BY <1>5, <1>6

LEMMA SendFailsStep ==
    ASSUME IInv, NEW w \in Pollers, SendFails(w)
    PROVE  IInv'
<1>1. /\ UNCHANGED <<claim, lane, channel, reader, closer, server>>
      /\ wpc[w] = "do" /\ Fault(w)
  BY DEF SendFails
<1> QED
  BY <1>1, PollerFacts, FaultMoves DEF server

LEMMA ForgottenFits ==
    ASSUME IInv, NEW w \in Pollers
    PROVE  ForgottenAfter(w) \in Nat /\ ForgottenAfter(w) <= ack
<1>1. job[w].ack \in Nat /\ job[w].ack <= ack
  BY PollerFacts DEF Jobs
<1> QED
  BY <1>1, PollerFacts DEF ForgottenAfter, Larger

LEMMA AnswerLostStep ==
    ASSUME IInv, NEW w \in Pollers, AnswerLost(w)
    PROVE  IInv'
<1> DEFINE l == [lane[w] EXCEPT !.open = FALSE]
<1>1. /\ UNCHANGED <<claim, channel, reader, closer, ends, ended>>
      /\ wpc[w] = "sent" /\ Fault(w) /\ forgotten' \in {forgotten, ForgottenAfter(w)}
  BY DEF AnswerLost
<1>2. lane \in [Pollers -> LaneStates]
  BY DEF IInv, TypeOK, LaneStates
<1>3. /\ lane' = [lane EXCEPT ![w] = l] /\ l \in LaneStates /\ ~l.open
      /\ l.closed <=> lane[w].closed
  BY <1>2 DEF AnswerLost, LaneStates
<1> HIDE DEF l
<1>4. forgotten' \in Nat /\ forgotten' <= ack
  BY <1>1, ForgottenFits, PollerFacts
<1> QED
  BY <1>1, <1>3, <1>4, FaultMoves

\* The lane after an answer.
LEMMA AnswerKeeps ==
    ASSUME IInv, NEW w \in Pollers, AnswerComes(w)
    PROVE  /\ wpc[w] = "sent"
           /\ UNCHANGED <<claim, channel, reader, closer, ends, ended>>
           /\ \E l \in LaneStates :
                  /\ lane' = [lane EXCEPT ![w] = l]
                  /\ l.closed <=> lane[w].closed
                  /\ l.closed => ~l.open
<1>1. lane \in [Pollers -> LaneStates] /\ ~lane[w].closed
  BY PollerFacts DEF IInv, TypeOK, LaneStates, AnswerComes
<1>2. PICK keep \in KeepsOpen : lane' = [lane EXCEPT ![w].open = keep]
  BY DEF AnswerComes
<1> DEFINE l == [lane[w] EXCEPT !.open = keep]
<1>3. keep \in BOOLEAN
  BY PullAssumption
<1>4. l \in LaneStates /\ l.closed = lane[w].closed /\ lane' = [lane EXCEPT ![w] = l]
  BY <1>1, <1>2, <1>3 DEF LaneStates
<1> HIDE DEF l
<1>5. /\ l.closed <=> lane[w].closed
      /\ l.closed => ~l.open
  BY <1>1, <1>4
<1> QED
  BY <1>4, <1>5 DEF AnswerComes

LEMMA WaitAnsweredStep ==
    ASSUME IInv, NEW w \in Pollers, WaitAnswered(w)
    PROVE  IInv'
<1>1. /\ AnswerComes(w) /\ AsksAgain(w, job[w]) /\ UNCHANGED sizer
      /\ forgotten' = ForgottenAfter(w)
  BY DEF WaitAnswered
<1> QED
  BY <1>1, AnswerKeeps, ForgottenFits, PollerFacts, AgainMoves

LEMMA EndAnsweredStep ==
    ASSUME IInv, NEW w \in Pollers, EndAnswered(w)
    PROVE  IInv'
<1>1. /\ AnswerComes(w) /\ Posts(w, EOF(Len(ends))) /\ UNCHANGED sizer
      /\ forgotten' = ForgottenAfter(w) /\ ended
  BY DEF EndAnswered
<1>2. Len(ends) \in Nat
  BY Starts DEF IInv
<1>3. EOF(Len(ends)) \in Results /\ Honest(EOF(Len(ends)))
  BY <1>1, <1>2 DEF EOF, Results, Honest
<1> QED
  BY <1>1, <1>3, AnswerKeeps, ForgottenFits, PollerFacts, PostsMoves

LEMMA ErrorAnsweredStep ==
    ASSUME IInv, NEW w \in Pollers, ErrorAnswered(w)
    PROVE  IInv'
<1>1. AnswerComes(w) /\ Posts(w, Err) /\ UNCHANGED <<sizer, forgotten>>
  BY DEF ErrorAnswered
<1> QED
  BY <1>1, ErrIsHonest, AnswerKeeps, PollerFacts, PostsMoves

LEMMA DataAnsweredStep ==
    ASSUME IInv, NEW w \in Pollers, DataAnswered(w)
    PROVE  IInv'
<1> DEFINE s == job[w].seq
           offset == Len(job[w].assembled)
           total == ends[s + 1] - Start(s)
           n == Smaller(job[w].limit, total - offset)
           fragment == [i \in 1 .. n |-> Start(s) + offset + i]
           bytes == job[w].assembled \o fragment
           k == [job[w] EXCEPT !.assembled = bytes, !.failures = 0]
<1>1. /\ AnswerComes(w) /\ forgotten' = ForgottenAfter(w)
      /\ sizer' = Success(sizer, job[w].limit)
      /\ s < Len(ends)
      /\ IF offset + n = total THEN Posts(w, Data(s, bytes)) ELSE AsksAgain(w, k)
  BY DEF DataAnswered, Has, Assembled
<1>2. /\ job[w] \in Jobs /\ job[w].limit \in Sizes /\ s \in Nat
      /\ job[w].assembled \in Seq(Nat) /\ Begun(job[w])
      /\ TypeOK /\ Growing
  BY PollerFacts DEF Jobs, IInv
<1>3. sizer' \in Sizers /\ InBracket(sizer') /\ CountersLow(sizer')
  BY <1>1, <1>2, PollerFacts, SuccessFits
<1>4. /\ Start(s) \in Nat /\ Start(s + 1) \in Nat /\ Start(s) < Start(s + 1)
      /\ total = Start(s + 1) - Start(s)
  BY <1>1, <1>2, NotEmpty
<1>5. /\ offset \in Nat /\ offset < total
      /\ Segment(job[w].assembled, Start(s))
  BY <1>1, <1>2, <1>4, LenProperties DEF Begun
<1>6. job[w].limit \in Nat \ {0} /\ total \in Nat
  <2>1. total \in Nat
    BY <1>4
  <2> HIDE DEF total
  <2> QED
    BY <1>2, <2>1, SizerAssumption DEF Sizes
<1> HIDE DEF total, offset
<1>7. n \in Nat /\ offset + n <= total
  <2>1. total - offset \in Nat /\ job[w].limit \in Nat
    BY <1>5, <1>6
  <2>2. n \in Nat /\ n <= total - offset
    BY <2>1 DEF Smaller
  <2> QED
    BY <1>5, <1>6, <2>1, <2>2
<1> HIDE DEF n
<1>8. Segment(fragment, Start(s) + offset) /\ Len(fragment) = n
  <2>1. Start(s) + offset \in Nat
    BY <1>4, <1>5
  <2> QED
    BY <1>7, <2>1, SegmentFresh
<1> HIDE DEF fragment
<1>9. Segment(bytes, Start(s)) /\ Len(bytes) = offset + n
  <2>1. Segment(fragment, Start(s) + Len(job[w].assembled))
    BY <1>8 DEF offset
  <2>2. /\ Segment(bytes, Start(s))
        /\ Len(bytes) = Len(job[w].assembled) + Len(fragment)
    BY <1>4, <1>5, <2>1, SegmentJoin
  <2> QED
    BY <1>8, <2>2 DEF offset
<1> HIDE DEF bytes
<1>10. bytes \in Seq(Nat)
  BY <1>9 DEF Segment
<1>11. CASE offset + n = total
  <2>1. Data(s, bytes) \in Results
    BY <1>2, <1>10 DEF Data, Results
  <2>2. /\ Data(s, bytes).kind = "data" /\ Data(s, bytes).seq = s
        /\ Data(s, bytes).data = bytes
    BY DEF Data
  <2>3. Honest(Data(s, bytes))
    BY <1>1, <1>4, <1>9, <1>11, <2>2 DEF Honest, Whole
  <2> QED
    BY <1>1, <1>3, <1>11, <2>1, <2>3, AnswerKeeps, ForgottenFits, PostsMoves
<1>12. CASE offset + n # total
  <2>1. 0 \in 0 .. MinFailureLimit
    BY PullAssumption
  <2>2. k \in Jobs /\ k.seq = s /\ k.assembled = bytes
    BY <1>2, <1>10, <2>1 DEF Jobs
  <2> HIDE DEF k
  <2>3. Len(bytes) < Start(s + 1) - Start(s)
    BY <1>4, <1>5, <1>7, <1>9, <1>12
  <2>4. Begun(k)
    BY <1>1, <1>2, <1>9, <2>2, <2>3, Starts DEF Begun
  <2> QED
    BY <1>1, <1>3, <1>12, <2>2, <2>4, AnswerKeeps, ForgottenFits, AgainMoves
<1> QED
  BY <1>11, <1>12
\* The send ends, whether the result went to the channel or nowhere.
LEMMA PostMoves ==
    ASSUME IInv, NEW w \in Pollers, wpc[w] = "post", PostDone(w),
           UNCHANGED <<claim, sizer, job, lane, resultsClosed, reader, closer,
                       server>>,
           results' \in Seq(Results), Len(results') <= ChannelCap,
           \A i \in 1 .. Len(results') : Honest(results'[i])
    PROVE  IInv'
<1> USE DEF reader, closer, server
<1> DEFINE p == IF post[w].kind = "err" THEN "done" ELSE "claim"
<1>1. /\ wpc \in [Pollers -> Places] /\ post \in [Pollers -> Results]
      /\ wpc' = [wpc EXCEPT ![w] = p] /\ post' = [post EXCEPT ![w] = Err]
      /\ p \in Places /\ p # "sent" /\ Err \in Results /\ Honest(Err)
  BY ErrIsHonest DEF PostDone, IInv, TypeOK, Places
<1> HIDE DEF p
<1>2. /\ wpc' \in [Pollers -> Places] /\ post' \in [Pollers -> Results]
      /\ \A v \in Pollers : wpc'[v] = wpc[v] \/ wpc'[v] # "sent"
      /\ \A v \in Pollers : post'[v] = post[v] \/ post'[v] = Err
  BY <1>1
<1>3. TypeOK'
  BY <1>2 DEF IInv, TypeOK, Places
<1>4. Growing'
  BY StreamStands DEF IInv
<1>5. Jobbed'
  BY DEF IInv, Jobbed, Begun, Start
<1>6. Carried'
  <2>1. \A v \in Pollers : Honest(post'[v])
    BY <1>1, <1>2 DEF IInv, Carried
  <2>2. \A v \in Pollers : Honest(post[v])'
    BY <2>1 DEF Honest, Whole, Start
  <2>3. \A i \in 1 .. Len(results') : Honest(results[i])'
    BY DEF Honest, Whole, Start
  <2>4. \A s \in DOMAIN pending : Whole(s, pending[s])'
    BY DEF IInv, Carried, Whole, Start
  <2> QED
    BY <2>2, <2>3, <2>4 DEF Carried
<1>7. InOrder' /\ Ends' /\ Acks' /\ Adapts'
  BY DEF IInv, InOrder, Ends, Acks, Adapts, Start
<1>8. Closing'
  <2>1. cpc # "done"
    BY DEF IInv, Closing
  <2> QED
    BY <1>2, <2>1 DEF IInv, Closing
<1> QED
  BY <1>3, <1>4, <1>5, <1>6, <1>7, <1>8 DEF IInv

LEMMA PostStepStep ==
    ASSUME IInv, NEW w \in Pollers, PostStep(w)
    PROVE  IInv'
<1>1. /\ results \in Seq(Results) /\ Len(results) <= ChannelCap
      /\ \A i \in 1 .. Len(results) : Honest(results[i])
  BY DEF IInv, TypeOK, Carried
<1>2. CASE Post(w)
  <2>1. post[w] \in Results /\ Honest(post[w])
    BY PollerFacts
  <2>2. /\ results' = Append(results, post[w]) /\ Len(results) < ChannelCap
        /\ wpc[w] = "post" /\ PostDone(w)
        /\ UNCHANGED <<claim, sizer, job, lane, resultsClosed, reader, closer,
                       server>>
    BY <1>2 DEF Post, HasRoom
  <2>3. /\ Len(results) \in Nat /\ results' \in Seq(Results)
        /\ Len(results') = Len(results) + 1
        /\ \A i \in 1 .. Len(results) : results'[i] = results[i]
        /\ results'[Len(results) + 1] = post[w]
    BY <1>1, <2>1, <2>2, LenProperties, AppendProperties
  <2>4. Len(results') <= ChannelCap
    BY <2>2, <2>3, PullAssumption
  <2>5. ASSUME NEW i \in 1 .. Len(results') PROVE Honest(results'[i])
    <3>1. i \in 1 .. Len(results) \/ i = Len(results) + 1
      BY <2>3
    <3>2. CASE i \in 1 .. Len(results)
      BY <1>1, <2>3, <3>2
    <3>3. CASE i = Len(results) + 1
      BY <2>1, <2>3, <3>3
    <3> QED
      BY <3>1, <3>2, <3>3
  <2> QED
    BY <2>2, <2>3, <2>4, <2>5, PostMoves
<1>3. CASE PostCancelled(w)
  BY <1>1, <1>3, PostMoves DEF PostCancelled, channel
<1> QED
  BY <1>2, <1>3 DEF PostStep

-----------------------------------------------------------------------------
(* Read                                                                    *)

\* A step of Read that keeps its own half of the invariant.
LEMMA ReadMoves ==
    ASSUME IInv, UNCHANGED <<pulling, resultsClosed, closer, server>>,
           TypeOK', (InOrder /\ Ends)',
           ack <= ack', ack' <= nextRead',
           \A i \in 1 .. Len(results') : Honest(results'[i]),
           \A s \in DOMAIN pending' : Whole(s, pending'[s])
    PROVE  IInv'
<1> USE DEF pulling, closer, server
<1>1. Growing'
  BY StreamStands DEF IInv
<1>2. Jobbed'
  <2>1. ASSUME NEW w \in Pollers PROVE Begun(job[w]) /\ job[w].ack <= ack'
    <3>1. job[w].ack \in Nat /\ ack \in Nat /\ ack' \in Nat /\ job[w].ack <= ack
      BY PollerFacts DEF Jobs, TypeOK
    <3> QED
      BY <3>1, PollerFacts
  <2> QED
    BY <2>1 DEF Jobbed, Begun, Start
<1>3. Carried'
  <2>1. \A v \in Pollers : Honest(post[v])'
    BY DEF IInv, Carried, Honest, Whole, Start
  <2>2. \A i \in 1 .. Len(results') : Honest(results[i])'
    BY DEF Honest, Whole, Start
  <2>3. \A s \in DOMAIN pending' : Whole(s, pending[s])'
    BY DEF Whole, Start
  <2> QED
    BY <2>1, <2>2, <2>3 DEF Carried
<1>4. Acks'
  <2>1. forgotten \in Nat /\ ack \in Nat /\ ack' \in Nat /\ forgotten <= ack
    BY DEF IInv, TypeOK, Acks
  <2> QED
    BY <2>1 DEF Acks
<1>5. Closing' /\ Adapts'
  BY DEF IInv, Closing, Adapts
<1> QED
  BY <1>1, <1>2, <1>3, <1>4, <1>5 DEF IInv

LEMMA BeginReadStep ==
    ASSUME IInv, BeginRead
    PROVE  IInv'
<1>1. /\ UNCHANGED <<pulling, channel, current, pending, nextRead, ack,
                     finalKnown, finalSeq, consumed, closer, server>>
      /\ rpc' = "reading"
  BY DEF BeginRead
<1>2. TypeOK' /\ (InOrder /\ Ends)'
  BY <1>1 DEF IInv, TypeOK, InOrder, Ends, Start, pulling, channel, closer, server
<1>3. nextRead \in Nat /\ ack \in Nat /\ ack <= nextRead
  BY DEF IInv, TypeOK, Acks
<1>4. /\ \A i \in 1 .. Len(results) : Honest(results[i])
      /\ \A s \in DOMAIN pending : Whole(s, pending[s])
  BY DEF IInv, Carried
<1> QED
  BY <1>1, <1>2, <1>3, <1>4, ReadMoves DEF channel

LEMMA ReadEndsStep ==
    ASSUME IInv, ReadEnds
    PROVE  IInv'
<1>1. /\ UNCHANGED <<pulling, channel, current, pending, nextRead, ack,
                     finalKnown, finalSeq, consumed, closer, server>>
      /\ rpc' = "eof"
      /\ AtEnd \/ resultsClosed
  BY DEF ReadEnds
<1>2. TypeOK' /\ InOrder'
  BY <1>1 DEF IInv, TypeOK, InOrder, Start, pulling, channel, closer, server
<1>3. AtEnd => ended /\ current = <<>> /\ nextRead = Len(ends)
  <2>1. nextRead \in Nat /\ Len(ends) \in Nat /\ nextRead <= Len(ends)
    BY Starts DEF IInv, TypeOK, InOrder
  <2> QED
    BY <2>1 DEF AtEnd, IInv, Ends
<1>4. Ends'
  BY <1>1, <1>3 DEF IInv, Ends, channel, server
<1>5. nextRead \in Nat /\ ack \in Nat /\ ack <= nextRead
  BY DEF IInv, TypeOK, Acks
<1>6. /\ \A i \in 1 .. Len(results) : Honest(results[i])
      /\ \A s \in DOMAIN pending : Whole(s, pending[s])
  BY DEF IInv, Carried
<1> QED
  BY <1>1, <1>2, <1>4, <1>5, <1>6, ReadMoves DEF channel

\* Read hands out the first bytes of the record it is at.
LEMMA ReadDataStep ==
    ASSUME IInv, ReadData
    PROVE  IInv'
<1> USE DEF pulling, closer, server
<1> DEFINE bytes == IF current # <<>> THEN current ELSE pending[nextRead]
<1>1. PICK n \in 1 .. Len(bytes) :
          LET rest == SubSeq(bytes, n + 1, Len(bytes))
          IN  /\ consumed' = consumed \o SubSeq(bytes, 1, n)
              /\ current' = rest
              /\ nextRead' = nextRead + IF rest = <<>> THEN 1 ELSE 0
              /\ ack' = AckAfter(rest)
  BY DEF ReadData
<1>2. /\ UNCHANGED <<pulling, channel, finalKnown, finalSeq, closer, server>>
      /\ rpc' = "idle"
      /\ current # <<>> \/ nextRead \in DOMAIN pending
      /\ pending' = IF current # <<>> THEN pending
                    ELSE [s \in DOMAIN pending \ {nextRead} |-> pending[s]]
  BY DEF ReadData
<1>3. /\ nextRead \in Nat /\ ack \in Nat /\ ack <= nextRead
      /\ consumed \in Seq(Nat) /\ Len(consumed) \in Nat /\ Len(ends) \in Nat
      /\ Segment(consumed, 0) /\ TypeOK /\ Growing
  BY Numbers, Starts DEF IInv, InOrder, Acks, TypeOK
<1>4. /\ nextRead < Len(ends) /\ Segment(bytes, Len(consumed))
      /\ Len(consumed) + Len(bytes) = Start(nextRead + 1)
      /\ Start(nextRead) <= Len(consumed) /\ Start(nextRead) \in Nat
      /\ Start(nextRead + 1) \in Nat
  <2>1. CASE current # <<>>
    BY <1>3, <2>1, NotEmpty DEF IInv, InOrder
  <2>2. CASE current = <<>>
    <3>1. Whole(nextRead, pending[nextRead]) /\ Len(consumed) = Start(nextRead)
      BY <1>2, <2>2 DEF IInv, Carried, InOrder
    <3>2. nextRead < Len(ends)
      BY <3>1 DEF Whole
    <3>3. Start(nextRead) \in Nat /\ Start(nextRead + 1) \in Nat
      BY <1>3, <3>2, NotEmpty
    <3> QED
      BY <2>2, <3>1, <3>2, <3>3 DEF Whole
  <2> QED
    BY <2>1, <2>2
<1> HIDE DEF bytes
<1> DEFINE first == SubSeq(bytes, 1, n)
           rest == SubSeq(bytes, n + 1, Len(bytes))
<1>5. Len(bytes) \in Nat /\ n \in 0 .. Len(bytes) /\ n \in Nat /\ n >= 1
  BY <1>3, <1>4, SegmentShape
<1>6. /\ Segment(first, Len(consumed)) /\ Len(first) = n
      /\ Segment(rest, Len(consumed) + n) /\ Len(rest) = Len(bytes) - n
  BY <1>3, <1>4, <1>5, SegmentCut
<1>7. /\ consumed' = consumed \o first /\ current' = rest
      /\ nextRead' = nextRead + IF rest = <<>> THEN 1 ELSE 0
      /\ ack' = AckAfter(rest)
  BY <1>1
<1> HIDE DEF first, rest
<1>8. Segment(consumed', 0) /\ Len(consumed') = Len(consumed) + n
  <2>1. Segment(first, 0 + Len(consumed)) /\ Segment(consumed, 0) /\ 0 \in Nat
    BY <1>3, <1>6
  <2>2. /\ Segment(consumed \o first, 0)
        /\ Len(consumed \o first) = Len(consumed) + Len(first)
    BY <2>1, SegmentJoin
  <2> QED
    BY <1>6, <1>7, <2>2
<1>9. rest \in Seq(Nat) /\ (rest = <<>> <=> Len(rest) = 0)
  BY <1>6, EmptySeq DEF Segment
<1>10. /\ nextRead' \in Nat /\ ack' \in Nat /\ ack <= ack' /\ ack' <= nextRead'
       /\ rest = <<>> => nextRead' = nextRead + 1
       /\ rest # <<>> => nextRead' = nextRead
  BY <1>3, <1>7 DEF AckAfter
<1>11. /\ DOMAIN pending' \subseteq DOMAIN pending
       /\ \A s \in DOMAIN pending' : pending'[s] = pending[s]
  BY <1>2
<1>12. TypeOK'
  <2>1. consumed' \in Seq(Nat) /\ current' \in Seq(Nat)
    BY <1>7, <1>8, <1>9 DEF Segment
  <2>2. /\ DOMAIN pending' \subseteq Nat
        /\ \A s \in DOMAIN pending' : pending'[s] \in Seq(Nat)
    BY <1>3, <1>11 DEF TypeOK
  <2> QED
    BY <1>2, <1>3, <1>10, <2>1, <2>2 DEF TypeOK, channel
<1>13. \A s : Start(s)' = Start(s)
  BY <1>2, StreamStands
<1>14. InOrder'
  <2>1. CASE rest = <<>>
    <3>1. Len(consumed') = Start(nextRead + 1) /\ nextRead' = nextRead + 1
      BY <1>3, <1>4, <1>5, <1>6, <1>8, <1>9, <1>10, <2>1
    <3>2. Len(consumed') = Start(nextRead')
      BY <3>1
    <3>3. Len(consumed)' = Start(nextRead)'
      BY <1>2, <3>2 DEF Start
    <3>4. nextRead' <= Len(ends')
      BY <1>2, <1>3, <1>4, <3>1
    <3>5. Len(consumed') \in Nat
      BY <1>3, <1>5, <1>8
    <3> QED
      BY <1>7, <1>8, <2>1, <3>3, <3>4, <3>5 DEF InOrder
  <2>2. CASE rest # <<>>
    <3>1. /\ nextRead' = nextRead /\ nextRead < Len(ends)
          /\ Len(consumed') = Len(consumed) + n
          /\ Len(current') = Len(bytes) - n
      BY <1>4, <1>6, <1>7, <1>8, <1>10, <2>2
    <3>2. Segment(current', Len(consumed'))
      BY <1>6, <1>7, <1>8
    <3>3. /\ Len(consumed') + Len(current') = Start(nextRead + 1)
          /\ Start(nextRead) <= Len(consumed')
      BY <1>3, <1>4, <1>5, <3>1
    <3>4. current' # <<>>
      BY <1>7, <2>2
    <3>5. nextRead <= Len(ends)
      BY <1>3, <3>1
    <3> QED
      BY <1>2, <1>8, <3>1, <3>4, <3>5, <3>2, <3>3 DEF InOrder, Start
  <2> QED
    BY <2>1, <2>2
<1>15. Ends'
  BY <1>2 DEF IInv, Ends, channel
<1>16. /\ \A i \in 1 .. Len(results') : Honest(results'[i])
       /\ \A s \in DOMAIN pending' : Whole(s, pending'[s])
  BY <1>2, <1>11 DEF IInv, Carried, channel
<1> QED
  BY <1>2, <1>10, <1>12, <1>14, <1>15, <1>16, ReadMoves DEF channel

\* Read takes a result off the channel.
LEMMA ReadReceivesStep ==
    ASSUME IInv, ReadReceives
    PROVE  IInv'
<1> USE DEF pulling, closer, server
<1> DEFINE r == Head(results)
<1>1. /\ UNCHANGED <<pulling, resultsClosed, current, nextRead, ack, consumed,
                     closer, server>>
      /\ results # <<>> /\ results' = Tail(results)
      /\ rpc = "reading"
      /\ rpc' = IF r.kind = "err" THEN "failed" ELSE rpc
      /\ finalKnown' = (finalKnown \/ r.kind = "eof")
      /\ finalSeq' = IF r.kind = "eof" /\ (~finalKnown \/ r.final < finalSeq)
                     THEN r.final ELSE finalSeq
      /\ pending' = IF r.kind = "data" /\ r.seq >= nextRead
                    THEN [s \in DOMAIN pending \cup {r.seq} |->
                             IF s = r.seq THEN r.data ELSE pending[s]]
                    ELSE pending
  BY DEF ReadReceives, Starved
<1>2. /\ results \in Seq(Results) /\ Len(results) \in Nat
      /\ Len(results) <= ChannelCap /\ ChannelCap \in Nat
      /\ \A i \in 1 .. Len(results) : Honest(results[i])
  BY PullAssumption, LenProperties DEF IInv, TypeOK, Carried
<1>3. /\ r = results[1] /\ r \in Results /\ Len(results) >= 1
      /\ results' \in Seq(Results) /\ Len(results') = Len(results) - 1
      /\ \A i \in 1 .. Len(results') : results'[i] = results[i + 1]
  BY <1>1, <1>2, EmptySeq, HeadTailProperties
<1>4. Honest(r)
  BY <1>2, <1>3
<1> HIDE DEF r
<1>5. /\ r.kind \in {"data", "eof", "err"} /\ r.seq \in Nat
      /\ r.data \in Seq(Nat) /\ r.final \in Nat
  BY <1>3 DEF Results
<1>6. ASSUME NEW i \in 1 .. Len(results') PROVE Honest(results'[i])
  <2>1. i + 1 \in 1 .. Len(results)
    BY <1>2, <1>3
  <2> QED
    BY <1>2, <1>3, <2>1
<1>7. /\ DOMAIN pending' \subseteq DOMAIN pending \cup {r.seq}
      /\ \A s \in DOMAIN pending' :
             \/ s \in DOMAIN pending /\ pending'[s] = pending[s]
             \/ s = r.seq /\ r.kind = "data" /\ pending'[s] = r.data
  BY <1>1
<1>8. \A s \in DOMAIN pending' : Whole(s, pending'[s])
  <2>1. r.kind = "data" => Whole(r.seq, r.data)
    BY <1>4 DEF Honest
  <2> QED
    BY <1>7, <2>1 DEF IInv, Carried
<1>9. TypeOK'
  <2>1. /\ DOMAIN pending' \subseteq Nat
        /\ \A s \in DOMAIN pending' : pending'[s] \in Seq(Nat)
    BY <1>5, <1>7 DEF IInv, TypeOK
  <2>2. Len(results') <= ChannelCap
    BY <1>2, <1>3
  <2>3. finalKnown' \in BOOLEAN /\ finalSeq' \in Nat
    BY <1>1, <1>5 DEF IInv, TypeOK
  <2>4. rpc' \in {"idle", "reading", "eof", "failed"}
    BY <1>1
  <2> QED
    BY <1>1, <1>3, <2>1, <2>2, <2>3, <2>4 DEF IInv, TypeOK
<1>10. InOrder'
  BY <1>1 DEF IInv, InOrder, Start
<1>11. Ends'
  <2>1. r.kind = "eof" => ended /\ r.final = Len(ends)
    BY <1>4 DEF Honest
  <2>2. finalKnown => ended /\ finalSeq = Len(ends)
    BY DEF IInv, Ends
  <2>3. finalKnown' => ended' /\ finalSeq' = Len(ends')
    BY <1>1, <2>1, <2>2
  <2>4. rpc' # "eof"
    BY <1>1
  <2> QED
    BY <2>3, <2>4 DEF Ends
<1>12. ack \in Nat /\ nextRead \in Nat /\ ack <= nextRead
  BY DEF IInv, TypeOK, Acks
<1>13. /\ UNCHANGED <<pulling, resultsClosed, closer, server>>
       /\ ack <= ack' /\ ack' <= nextRead'
  BY <1>1, <1>12
<1> QED
  BY <1>6, <1>8, <1>9, <1>10, <1>11, <1>13, ReadMoves

-----------------------------------------------------------------------------
(* Close                                                                   *)

LEMMA BeginCloseStep ==
    ASSUME IInv, BeginClose \/ CloseSession
    PROVE  IInv'
<1> USE DEF pulling, channel, reader, closer, server
<1>1. /\ UNCHANGED <<pulling, channel, reader, server>>
      /\ cpc' \in {"session", "lanes"} /\ cancelled' \in BOOLEAN /\ cpc # "done"
  BY DEF BeginClose, CloseSession, IInv, TypeOK
<1>2. TypeOK'
  BY <1>1 DEF IInv, TypeOK
<1>3. Growing' /\ Jobbed'
  BY <1>1 DEF IInv, Growing, Jobbed, Begun, Start
<1>4. Carried'
  BY <1>1 DEF IInv, Carried, Honest, Whole, Start
<1>5. InOrder' /\ Ends' /\ Acks' /\ Adapts'
  BY <1>1 DEF IInv, InOrder, Ends, Acks, Adapts, Start
<1>6. Closing'
  BY <1>1 DEF IInv, Closing
<1> QED
  BY <1>2, <1>3, <1>4, <1>5, <1>6 DEF IInv

\* The last lane to close is the last of all.
LEMMA CloseLaneStep ==
    ASSUME IInv, NEW w \in Pollers, CloseLane(w)
    PROVE  IInv'
<1> USE DEF channel, reader, closer, server
<1> DEFINE l == [open |-> FALSE, closed |-> TRUE]
<1>1. /\ UNCHANGED <<claim, sizer, wpc, job, post, channel, reader, cancelled,
                     server>>
      /\ lane' = [lane EXCEPT ![w] = l] /\ lane \in [Pollers -> LaneStates]
      /\ cpc = "lanes" /\ cpc' = (IF w = PollerCount THEN "join" ELSE cpc)
      /\ \A v \in Pollers : lane[v].closed <=> v < w
      /\ wpc[w] # "sent"
  BY DEF CloseLane, IInv, TypeOK, LaneStates
<1>2. /\ \A v \in Pollers : v # w => lane'[v] = lane[v]
      /\ lane'[w] = l /\ lane' \in [Pollers -> LaneStates]
  BY <1>1 DEF LaneStates
<1>3. TypeOK'
  BY <1>1, <1>2 DEF IInv, TypeOK, LaneStates
<1>4. Growing' /\ Jobbed'
  BY <1>1 DEF IInv, Growing, Jobbed, Begun, Start
<1>5. Carried'
  BY <1>1 DEF IInv, Carried, Honest, Whole, Start
<1>6. InOrder' /\ Ends' /\ Acks' /\ Adapts'
  BY <1>1 DEF IInv, InOrder, Ends, Acks, Adapts, Start
<1>7. Closing'
  <2>1. \A v \in Pollers : lane'[v].closed => ~lane'[v].open /\ wpc'[v] # "sent"
    BY <1>1, <1>2 DEF IInv, Closing
  <2>2. ASSUME w = PollerCount, NEW v \in Pollers PROVE lane'[v].closed
    <3>1. v = w \/ v < w
      BY <2>2, PullAssumption DEF Pollers
    <3> QED
      BY <1>1, <1>2, <3>1
  <2>3. cpc' # "done" /\ (cpc' = "join" => w = PollerCount) /\ ~resultsClosed'
    BY <1>1 DEF IInv, Closing
  <2> QED
    BY <2>1, <2>2, <2>3 DEF Closing
<1> QED
  BY <1>3, <1>4, <1>5, <1>6, <1>7 DEF IInv

LEMMA EndCloseStep ==
    ASSUME IInv, EndClose
    PROVE  IInv'
<1> USE DEF pulling, reader, closer, server
<1>1. /\ UNCHANGED <<pulling, results, reader, cancelled, server>>
      /\ resultsClosed' = TRUE /\ cpc = "join" /\ cpc' = "done"
      /\ \A w \in Pollers : wpc[w] = "done"
  BY DEF EndClose, AllStopped
<1>2. TypeOK'
  BY <1>1 DEF IInv, TypeOK
<1>3. Growing' /\ Jobbed'
  BY <1>1 DEF IInv, Growing, Jobbed, Begun, Start
<1>4. Carried'
  BY <1>1 DEF IInv, Carried, Honest, Whole, Start
<1>5. InOrder' /\ Ends' /\ Acks' /\ Adapts'
  BY <1>1 DEF IInv, InOrder, Ends, Acks, Adapts, Start
<1>6. Closing'
  BY <1>1 DEF IInv, Closing
<1> QED
  BY <1>2, <1>3, <1>4, <1>5, <1>6 DEF IInv

-----------------------------------------------------------------------------
(* The target, and all the steps                                           *)

\* One record more, and the others as they were.
LEMMA StreamGrows ==
    ASSUME TypeOK, Growing, TargetSends
    PROVE  /\ ends' \in Seq(Nat) /\ Len(ends') = Len(ends) + 1
           /\ \A s \in 1 .. Len(ends) : ends'[s] = ends[s]
           /\ \A s \in 0 .. Len(ends) : Start(s)' = Start(s)
           /\ Start(Len(ends)) < ends'[Len(ends) + 1]
           /\ Start(Len(ends)) = Produced /\ Produced \in Nat
           /\ Produced' = ends'[Len(ends) + 1]
<1> DEFINE e == Produced + RecordLens[Len(ends) + 1]
<1>1. /\ ends \in Seq(Nat) /\ Len(ends) \in Nat /\ Produced \in Nat
      /\ Start(Len(ends)) = Produced
  BY Starts DEF TypeOK
<1>2. Len(ends) < Len(RecordLens) /\ ends' = Append(ends, e)
  BY DEF TargetSends
<1>3. RecordLens[Len(ends) + 1] \in Nat \ {0}
  <2>1. RecordLens \in Seq(Nat \ {0}) /\ Len(RecordLens) \in Nat
    BY PullAssumption, LenProperties
  <2>2. Len(ends) + 1 \in 1 .. Len(RecordLens)
    BY <1>1, <1>2, <2>1
  <2> QED
    BY <2>1, <2>2
<1>4. e \in Nat /\ Produced < e
  BY <1>1, <1>3
<1> HIDE DEF e
<1>5. /\ ends' \in Seq(Nat) /\ Len(ends') = Len(ends) + 1
      /\ \A s \in 1 .. Len(ends) : ends'[s] = ends[s]
      /\ ends'[Len(ends) + 1] = e
  BY <1>1, <1>2, <1>4, AppendProperties
<1>6. \A s \in 0 .. Len(ends) : Start(s)' = Start(s)
  BY <1>1, <1>5 DEF Start
<1>7. Produced' = e
  <2>1. ends' # <<>>
    BY <1>1, <1>5, EmptySeq
  <2> QED
    BY <1>5, <2>1 DEF Produced
<1> QED
  BY <1>1, <1>4, <1>5, <1>6, <1>7

LEMMA TargetSendsStep ==
    ASSUME IInv, TargetSends
    PROVE  IInv'
<1> USE DEF pulling, channel, reader, closer
<1>1. UNCHANGED <<pulling, channel, reader, closer, ended, forgotten>> /\ ~ended
  BY DEF TargetSends
<1>2. /\ ends' \in Seq(Nat) /\ Len(ends') = Len(ends) + 1
      /\ \A s \in 1 .. Len(ends) : ends'[s] = ends[s]
      /\ \A s \in 0 .. Len(ends) : Start(s)' = Start(s)
      /\ Start(Len(ends)) < ends'[Len(ends) + 1]
      /\ TypeOK /\ Growing
  BY StreamGrows DEF IInv
<1>3. /\ Len(ends) \in Nat /\ \A s \in 0 .. Len(ends) : Start(s) \in Nat
      /\ \A s \in 0 .. Len(ends) : s # Len(ends) => Start(s) < Start(Len(ends))
  BY <1>2, Starts DEF Growing
<1>4. ends'[Len(ends) + 1] \in Nat
  <2>1. Len(ends) + 1 \in 1 .. Len(ends')
    BY <1>2, <1>3
  <2> QED
    BY <1>2, <2>1
<1>5. TypeOK'
  BY <1>1, <1>2 DEF TypeOK
<1>6. Growing'
  <2> SUFFICES ASSUME NEW a \in 0 .. Len(ends'), NEW b \in 0 .. Len(ends'), a < b
               PROVE  Start(a)' < Start(b)'
    BY DEF Growing
  <2>1. a \in 0 .. Len(ends) /\ (b \in 0 .. Len(ends) \/ b = Len(ends) + 1)
    BY <1>2, <1>3
  <2>2. CASE b \in 0 .. Len(ends)
    BY <1>2, <2>1, <2>2 DEF Growing
  <2>3. CASE b = Len(ends) + 1
    <3>1. Start(b)' = ends'[Len(ends) + 1]
      BY <1>3, <2>3 DEF Start
    <3>2. Start(a) \in Nat /\ Start(Len(ends)) \in Nat /\ Start(a) <= Start(Len(ends))
      BY <1>3, <2>1
    <3>3. Start(a)' = Start(a)
      BY <1>2, <2>1
    <3> QED
      BY <1>2, <1>4, <3>1, <3>2, <3>3
  <2> QED
    BY <2>1, <2>2, <2>3
<1>7. ASSUME NEW k \in Jobs, Begun(k) PROVE Begun(k)'
  <2>1. k.seq \in Nat
    BY DEF Jobs
  <2>2. CASE k.seq < Len(ends)
    <3>1. k.seq \in 0 .. Len(ends) /\ k.seq + 1 \in 0 .. Len(ends)
      BY <1>3, <2>1, <2>2
    <3>2. Start(k.seq)' = Start(k.seq) /\ Start(k.seq + 1)' = Start(k.seq + 1)
      BY <1>2, <3>1
    <3>3. k.seq < Len(ends') /\ ~(k.seq >= Len(ends'))
      BY <1>2, <1>3, <2>1, <2>2
    <3> QED
      BY <1>7, <2>2, <3>2, <3>3 DEF Begun
  <2>3. CASE k.seq >= Len(ends)
    <3>1. k.assembled = <<>>
      BY <1>7, <2>3 DEF Begun
    <3>2. k.seq < Len(ends') => k.seq = Len(ends)
      BY <1>2, <1>3, <2>1, <2>3
    <3>3. ASSUME k.seq = Len(ends)
          PROVE  0 < Start(k.seq + 1)' - Start(k.seq)'
      <4>1. k.seq \in 0 .. Len(ends) /\ Start(k.seq)' = Start(Len(ends))
        BY <1>2, <1>3, <3>3
      <4>2. Start(k.seq + 1)' = ends'[Len(ends) + 1]
        BY <1>3, <3>3 DEF Start
      <4>3. Start(Len(ends)) \in Nat
        BY <1>3
      <4> QED
        BY <1>2, <1>4, <4>1, <4>2, <4>3
    <3>4. Segment(k.assembled, Start(k.seq)') /\ Len(k.assembled) = 0
      BY <3>1, EmptyBegins
    <3> QED
      BY <3>1, <3>2, <3>3, <3>4 DEF Begun
  <2> QED
    BY <1>3, <2>1, <2>2, <2>3
<1>8. Jobbed'
  <2> SUFFICES ASSUME NEW w \in Pollers PROVE (Begun(job[w]) /\ job[w].ack <= ack)'
    BY DEF Jobbed
  <2>1. PICK k \in Jobs : k = job[w]
    BY PollerFacts
  <2>2. Begun(k)'
    BY <1>7, <2>1, PollerFacts
  <2>3. Begun(job[w])'
    BY <1>1, <2>1, <2>2 DEF Begun, Start
  <2> QED
    BY <1>1, <2>3, PollerFacts
<1>9. ASSUME NEW s \in Nat, NEW bytes, Whole(s, bytes) PROVE Whole(s, bytes)'
  <2>1. s \in 0 .. Len(ends) /\ s + 1 \in 0 .. Len(ends) /\ s < Len(ends')
    BY <1>2, <1>3, <1>9 DEF Whole
  <2>2. Start(s)' = Start(s) /\ Start(s + 1)' = Start(s + 1)
    BY <1>2, <2>1
  <2> QED
    BY <1>9, <2>1, <2>2 DEF Whole
<1>10. ASSUME NEW r \in Results, Honest(r) PROVE Honest(r)'
  <2>1. r.kind # "eof" /\ r.seq \in Nat
    BY <1>1, <1>10 DEF Honest, Results
  <2>2. r.kind = "data" => Whole(r.seq, r.data)'
    BY <1>9, <1>10, <2>1 DEF Honest
  <2> QED
    BY <2>1, <2>2 DEF Honest
<1>11. Carried'
  <2>1. ASSUME NEW w \in Pollers PROVE Honest(post[w])'
    <3>1. PICK r \in Results : r = post[w]
      BY PollerFacts
    <3>2. Honest(r)'
      BY <1>10, <3>1, PollerFacts
    <3> QED
      BY <1>1, <3>1, <3>2 DEF Honest, Whole, Start
  <2>2. ASSUME NEW i \in 1 .. Len(results) PROVE Honest(results[i])'
    <3>1. results[i] \in Results /\ Honest(results[i])
      BY <1>2 DEF TypeOK, IInv, Carried
    <3>2. PICK r \in Results : r = results[i]
      BY <3>1
    <3>3. Honest(r)'
      BY <1>10, <3>1, <3>2
    <3> QED
      BY <1>1, <3>2, <3>3 DEF Honest, Whole, Start
  <2>3. ASSUME NEW s \in DOMAIN pending PROVE Whole(s, pending[s])'
    <3>1. s \in Nat /\ Whole(s, pending[s])
      BY <1>2 DEF TypeOK, IInv, Carried
    <3>2. PICK bytes : bytes = pending[s]
      OBVIOUS
    <3>3. Whole(s, bytes)'
      BY <1>9, <3>1, <3>2
    <3> QED
      BY <1>1, <3>2, <3>3 DEF Whole, Start
  <2>4. Len(results') = Len(results) /\ DOMAIN pending' = DOMAIN pending
    BY <1>1
  <2> QED
    BY <2>1, <2>2, <2>3, <2>4 DEF Carried
<1>12. InOrder'
  <2>1. nextRead \in Nat /\ nextRead \in 0 .. Len(ends) /\ nextRead <= Len(ends')
    BY <1>2, <1>3, Numbers DEF IInv, InOrder
  <2>2. PICK m \in 0 .. Len(ends) : m = nextRead
    BY <2>1
  <2>3. Start(m)' = Start(m) /\ (m < Len(ends) => Start(m + 1)' = Start(m + 1))
    <3>1. m < Len(ends) => m + 1 \in 0 .. Len(ends)
      BY <1>3
    <3> QED
      BY <1>2, <3>1
  <2>4. /\ Segment(consumed, 0) /\ Start(m) <= Len(consumed)
        /\ current = <<>> => Len(consumed) = Start(m)
        /\ current # <<>> => /\ m < Len(ends)
                             /\ Segment(current, Len(consumed))
                             /\ Len(consumed) + Len(current) = Start(m + 1)
    BY <2>2 DEF IInv, InOrder
  <2>5. m < Len(ends) => m < Len(ends')
    BY <1>2, <1>3
  <2>6. (nextRead' = nextRead /\ consumed' = consumed /\ current' = current)
    BY <1>1
  <2>7. /\ Start(nextRead)' = Start(m)
        /\ m < Len(ends) => Start(nextRead + 1)' = Start(m + 1)
    BY <2>2, <2>3, <2>6 DEF Start
  <2> QED
    BY <2>1, <2>2, <2>4, <2>5, <2>6, <2>7 DEF InOrder
<1>13. Ends' /\ Acks' /\ Closing' /\ Adapts'
  BY <1>1 DEF IInv, Ends, Acks, Closing, Adapts
<1> QED
  BY <1>5, <1>6, <1>8, <1>11, <1>12, <1>13 DEF IInv

LEMMA TargetEndsStep ==
    ASSUME IInv, TargetEnds
    PROVE  IInv'
<1> USE DEF pulling, channel, reader, closer
<1>1. /\ UNCHANGED <<pulling, channel, reader, closer, ends, forgotten>>
      /\ ended' = TRUE
  BY DEF TargetEnds
<1>2. TypeOK'
  BY <1>1 DEF IInv, TypeOK
<1>3. Growing' /\ Jobbed'
  BY <1>1 DEF IInv, Growing, Jobbed, Begun, Start
<1>4. Carried'
  BY <1>1 DEF IInv, Carried, Honest, Whole, Start
<1>5. InOrder' /\ Ends' /\ Acks' /\ Adapts'
  BY <1>1 DEF IInv, InOrder, Ends, Acks, Adapts, Start
<1>6. Closing'
  BY <1>1 DEF IInv, Closing
<1> QED
  BY <1>2, <1>3, <1>4, <1>5, <1>6 DEF IInv

LEMMA NothingMoves ==
    ASSUME IInv, UNCHANGED vars
    PROVE  IInv'
<1> USE DEF vars, pulling, channel, reader, closer, server
<1>1. TypeOK'
  BY DEF IInv, TypeOK
<1>2. Growing' /\ Jobbed'
  BY DEF IInv, Growing, Jobbed, Begun, Start
<1>3. Carried'
  BY DEF IInv, Carried, Honest, Whole, Start
<1>4. InOrder' /\ Ends' /\ Acks' /\ Adapts' /\ Closing'
  BY DEF IInv, InOrder, Ends, Acks, Adapts, Start, Closing
<1> QED
  BY <1>1, <1>2, <1>3, <1>4 DEF IInv

LEMMA InitIInv ==
    ASSUME Init
    PROVE  IInv
<1>1. PICK start \in Sizes : sizer = NewSizer(start)
  BY DEF Init
<1>2. sizer \in Sizers /\ InBracket(sizer) /\ CountersLow(sizer)
  <2>1. start \in Int
    BY SizerAssumption DEF Sizes
  <2> QED
    BY <1>1, <2>1, NewSizerFits
<1>3. ends = <<>> /\ Len(<<>>) = 0 /\ <<>> \in Seq(Nat) /\ <<>> \in Seq(Results)
  BY DEF Init
<1>4. MinSize \in Sizes /\ MinFailureLimit \in Nat /\ ChannelCap \in Nat
  BY SizerAssumption, PullAssumption DEF Sizes
<1>5. NoJob \in Jobs /\ NoJob.seq = 0 /\ NoJob.assembled = <<>> /\ NoJob.ack = 0
  BY <1>4 DEF NoJob, Jobs
<1>6. pending = <<>> /\ DOMAIN pending = {}
  BY DEF Init
<1>7. TypeOK
  <2>1. /\ claim \in Nat /\ nextRead \in Nat /\ ack \in Nat /\ finalSeq \in Nat
        /\ forgotten \in Nat /\ resultsClosed \in BOOLEAN /\ finalKnown \in BOOLEAN
        /\ cancelled \in BOOLEAN /\ ended \in BOOLEAN
        /\ rpc \in {"idle", "reading", "eof", "failed"}
        /\ cpc \in {"open", "session", "lanes", "join", "done"}
    BY DEF Init
  <2>2. /\ wpc \in [Pollers -> {"claim", "ask", "do", "sent", "post", "done"}]
        /\ job \in [Pollers -> Jobs] /\ post \in [Pollers -> Results]
        /\ lane \in [Pollers -> [open : BOOLEAN, closed : BOOLEAN]]
    BY <1>5, ErrIsHonest DEF Init
  <2>3. /\ results \in Seq(Results) /\ Len(results) <= ChannelCap
        /\ current \in Seq(Nat) /\ consumed \in Seq(Nat) /\ ends \in Seq(Nat)
    BY <1>3, <1>4 DEF Init
  <2> QED
    BY <1>2, <1>6, <2>1, <2>2, <2>3 DEF TypeOK
<1>8. Growing
  BY <1>3 DEF Growing
<1>9. Begun(NoJob)
  BY <1>3, <1>5, EmptyBegins DEF Begun
<1>10. Jobbed
  BY <1>5, <1>9 DEF Init, Jobbed
<1>11. Carried
  BY <1>3, <1>6, ErrIsHonest DEF Init, Carried
<1>12. InOrder
  <2>1. consumed = <<>> /\ current = <<>> /\ nextRead = 0 /\ Start(0) = 0
    BY DEF Init, Start
  <2> QED
    BY <1>3, <2>1, EmptyBegins DEF InOrder
<1>13. Ends /\ Acks /\ Closing /\ Adapts
  BY <1>2 DEF Init, Ends, Acks, Closing, Adapts
<1> QED
  BY <1>7, <1>8, <1>10, <1>11, <1>12, <1>13 DEF IInv

LEMMA NextIInv == IInv /\ [Next]_vars => IInv'
<1> SUFFICES ASSUME IInv, [Next]_vars PROVE IInv'
  OBVIOUS
<1>1. ASSUME NEW w \in Pollers, WorkerStep(w) PROVE IInv'
  BY <1>1, ClaimStep, StopsOnCancelStep, AskStep, SendStep, SendFailsStep,
     AnswerLostStep, WaitAnsweredStep, EndAnsweredStep, ErrorAnsweredStep,
     DataAnsweredStep DEF WorkerStep
<1>2. ASSUME NEW w \in Pollers, PostStep(w) PROVE IInv'
  BY <1>2, PostStepStep
<1>3. CASE BeginRead \/ ReadStep
  BY <1>3, BeginReadStep, ReadDataStep, ReadReceivesStep, ReadEndsStep
     DEF ReadStep
<1>4. CASE BeginClose \/ CloseStep
  BY <1>4, BeginCloseStep, CloseLaneStep, EndCloseStep DEF CloseStep
<1>5. CASE TargetSends \/ TargetEnds
  BY <1>5, TargetSendsStep, TargetEndsStep
<1>6. CASE UNCHANGED vars
  BY <1>6, NothingMoves
<1> QED
  BY <1>1, <1>2, <1>3, <1>4, <1>5, <1>6 DEF Next

-----------------------------------------------------------------------------
(* The theorems                                                            *)

\* The inductive invariant holds in every reachable state.
THEOREM PullInvariance == Spec => []IInv
<1>1. Init => IInv
  BY InitIInv
<1>2. IInv /\ [Next]_vars => IInv'
  BY NextIInv
<1> QED
  BY <1>1, <1>2, PTL DEF Spec

\* Every variable keeps its type; in particular the channel never holds more
\* than its capacity, however many pollers send on it.
THEOREM PullTypeCorrect == Spec => []TypeOK
<1>1. IInv => TypeOK
  BY DEF IInv
<1> QED
  BY <1>1, PullInvariance, PTL

\* Read of an open tunnel reports the end only when the target has finished
\* and Read has returned all of it, whichever poller saw the end first and
\* whatever records the others are still fetching.
THEOREM PullEndIsTheEnd == Spec => []EOFOnlyAtEnd
<1>1. IInv => EOFOnlyAtEnd
  <2> SUFFICES ASSUME IInv, rpc = "eof", cpc = "open"
               PROVE  ended /\ Len(consumed) = Produced
    BY DEF EOFOnlyAtEnd
  <2>1. ~resultsClosed
    BY DEF IInv, Closing
  <2>2. ended /\ current = <<>> /\ nextRead = Len(ends)
    BY <2>1 DEF IInv, Ends
  <2>3. Len(consumed) = Start(Len(ends))
    BY <2>2 DEF IInv, InOrder
  <2> QED
    BY <2>2, <2>3, Starts DEF IInv
<1> QED
  BY <1>1, PullInvariance, PTL

\* When Close has closed the channel, every poller has stopped, so that none
\* sends on it, and no lane holds a connection.
THEOREM NothingIsLeft == Spec => []NothingLeftAfterClose
<1>1. IInv => NothingLeftAfterClose
  BY DEF IInv, Closing, NothingLeftAfterClose
<1> QED
  BY <1>1, PullInvariance, PTL

-----------------------------------------------------------------------------
(* Refinement                                                              *)

\* A segment from the start of the stream is a prefix of it.
LEMMA SegmentIsPrefix ==
    ASSUME NEW s, Segment(s, 0)
    PROVE  s = Pipe!Prefix(Len(s)) /\ Len(s) \in Nat
<1>1. Len(s) \in Nat /\ s = [i \in 1 .. Len(s) |-> 0 + i]
  BY SegmentShape
<1>2. [i \in 1 .. Len(s) |-> 0 + i] = [i \in 1 .. Len(s) |-> i]
  BY <1>1
<1> QED
  BY <1>1, <1>2 DEF Pipe!Prefix

\* Read has returned no more than there is, and the server has forgotten no
\* more than Read has returned.
Bounded ==
    /\ Produced \in Nat /\ Len(consumed) \in Nat
    /\ consumed = Pipe!Prefix(Len(consumed))
    /\ Len(consumed) <= Produced
    /\ forgotten \in 0 .. Len(ends)
    /\ Start(forgotten) \in Nat /\ Start(forgotten) <= Len(consumed)

LEMMA InBounds == IInv => Bounded
<1> SUFFICES ASSUME IInv PROVE Bounded
  OBVIOUS
<1>1. /\ TypeOK /\ Growing /\ Segment(consumed, 0) /\ Len(ends) \in Nat
      /\ Produced \in Nat /\ Produced = Start(Len(ends))
      /\ \A s \in 0 .. Len(ends) : Start(s) \in Nat
  BY Starts DEF IInv, InOrder
<1>2. consumed = Pipe!Prefix(Len(consumed)) /\ Len(consumed) \in Nat
  BY <1>1, SegmentIsPrefix
<1>3. /\ nextRead \in 0 .. Len(ends) /\ forgotten \in 0 .. Len(ends)
      /\ forgotten <= nextRead /\ Start(nextRead) <= Len(consumed)
  BY <1>1, Numbers DEF IInv, InOrder, Acks
<1>4. \A a, b \in 0 .. Len(ends) : a <= b => Start(a) <= Start(b)
  BY <1>1 DEF Growing
<1>5. Start(forgotten) \in Nat /\ Start(forgotten) <= Len(consumed)
  BY <1>1, <1>2, <1>3, <1>4
<1>6. Len(consumed) <= Produced
  <2>1. CASE current = <<>>
    BY <1>1, <1>3, <1>4, <2>1 DEF IInv, InOrder
  <2>2. CASE current # <<>>
    <3>1. /\ nextRead + 1 \in 0 .. Len(ends)
          /\ Len(consumed) + Len(current) = Start(nextRead + 1)
      BY <1>1, <1>3, <2>2 DEF IInv, InOrder
    <3>2. Len(current) \in Nat /\ Start(nextRead + 1) <= Produced
      BY <1>1, <1>4, <3>1, Numbers
    <3> QED
      BY <1>1, <1>2, <3>1, <3>2
  <2> QED
    BY <2>1, <2>2
<1> QED
  BY <1>1, <1>2, <1>3, <1>5, <1>6 DEF Bounded

\* A step that leaves the stream and what Read has returned alone releases, or
\* is not seen.
LEMMA ForgetsOrStands ==
    ASSUME IInv, Bounded, Bounded', UNCHANGED <<ends, consumed>>,
           forgotten' >= forgotten
    PROVE  [Pipe!Next]_(Pipe!pipe)
<1>1. /\ Start(forgotten) \in Nat /\ Len(consumed) \in Nat /\ Growing
      /\ forgotten \in 0 .. Len(ends)
  BY DEF IInv, Bounded
<1>2. /\ forgotten' \in 0 .. Len(ends) /\ Start(forgotten)' \in Nat
      /\ Start(forgotten)' <= Len(consumed)
  BY DEF Bounded
<1>3. Start(forgotten)' = Start(forgotten')
  BY DEF Start
<1>4. Produced' = Produced
  BY DEF Produced
<1>5. CASE forgotten' = forgotten
  BY <1>3, <1>4, <1>5 DEF Pipe!pipe
<1>6. CASE forgotten' # forgotten
  <2>1. Start(forgotten) < Start(forgotten')
    <3>1. forgotten < forgotten'
      BY <1>1, <1>2, <1>6
    <3> QED
      BY <1>1, <1>2, <3>1 DEF Growing
  <2>2. Start(forgotten)' \in Start(forgotten) + 1 .. Len(consumed)
    BY <1>1, <1>2, <1>3, <2>1
  <2> QED
    BY <1>4, <2>2 DEF Pipe!Next, Pipe!Release
<1> QED
  BY <1>5, <1>6

LEMMA PullRefines ==
    IInv /\ Bounded /\ Bounded' /\ [Next]_vars => [Pipe!Next]_(Pipe!pipe)
<1> SUFFICES ASSUME IInv, Bounded, Bounded', [Next]_vars
             PROVE  [Pipe!Next]_(Pipe!pipe)
  OBVIOUS
<1> forgotten \in Nat
  BY Numbers DEF IInv
<1>1. ASSUME NEW w \in Pollers, WorkerStep(w) \/ PostStep(w)
      PROVE  [Pipe!Next]_(Pipe!pipe)
  <2>1. job[w].ack \in Nat
    BY PollerFacts DEF Jobs
  <2>2. /\ UNCHANGED <<ends, consumed>>
        /\ forgotten' \in {forgotten, ForgottenAfter(w)}
    BY <1>1 DEF WorkerStep, PostStep, Claim, StopsOnCancel, Ask, Send, SendFails,
       AnswerLost, AnswerComes, WaitAnswered, EndAnswered, ErrorAnswered,
       DataAnswered, Post, PostCancelled, reader, server
  <2>3. forgotten' >= forgotten
    BY <2>1, <2>2 DEF ForgottenAfter, Larger
  <2> QED
    BY <2>2, <2>3, ForgetsOrStands
<1>2. CASE ReadData
  <2>1. UNCHANGED server
    BY <1>2 DEF ReadData
  <2> DEFINE bytes == IF current # <<>> THEN current ELSE pending[nextRead]
  <2>2. /\ Segment(bytes, Len(consumed))
        /\ \E n \in 1 .. Len(bytes) : consumed' = consumed \o SubSeq(bytes, 1, n)
    BY <1>2 DEF ReadData, IInv, InOrder, Carried, Whole
  <2> HIDE DEF bytes
  <2>3. Len(consumed) \in Nat /\ Segment(consumed, 0) /\ Len(bytes) \in Nat
    BY <2>2, SegmentShape DEF IInv, InOrder, Bounded
  <2> PICK n \in 1 .. Len(bytes) : consumed' = consumed \o SubSeq(bytes, 1, n)
    BY <2>2
  <2>4. Segment(SubSeq(bytes, 1, n), 0 + Len(consumed)) /\ Len(SubSeq(bytes, 1, n)) = n
    BY <2>2, <2>3, SegmentCut
  <2>5. Len(consumed \o SubSeq(bytes, 1, n)) = Len(consumed) + Len(SubSeq(bytes, 1, n))
    BY <2>3, <2>4, SegmentJoin
  <2>6. Len(consumed') = Len(consumed) + n
    BY <2>2, <2>4, <2>5
  <2>7. /\ consumed' = Pipe!Prefix(Len(consumed')) /\ Len(consumed') <= Produced'
        /\ Produced' = Produced /\ Start(forgotten)' = Start(forgotten)
    BY <2>1 DEF Bounded, Produced, Start, server
  <2>8. Len(consumed') \in Len(consumed) + 1 .. Produced
    BY <2>3, <2>6, <2>7 DEF Bounded
  <2> QED
    BY <2>7, <2>8 DEF Pipe!Next, Pipe!Deliver
<1>3. CASE TargetSends
  <2>1. /\ Produced \in Nat /\ Produced < Produced' /\ Produced' \in Nat
        /\ \A s \in 0 .. Len(ends) : Start(s)' = Start(s)
    BY <1>3, StreamGrows DEF IInv, Bounded
  <2>2. UNCHANGED <<consumed, forgotten>>
    BY <1>3 DEF TargetSends, reader
  <2>3. Start(forgotten)' = Start(forgotten)
    <3>1. PICK m \in 0 .. Len(ends) : m = forgotten
      BY DEF Bounded
    <3>2. Start(m)' = Start(m)
      BY <2>1
    <3> QED
      BY <2>2, <3>1, <3>2 DEF Start
  <2> QED
    BY <2>1, <2>2, <2>3 DEF Pipe!Next, Pipe!Offer
<1>4. CASE \/ BeginRead \/ ReadReceives \/ ReadEnds \/ BeginClose \/ CloseStep
           \/ TargetEnds \/ UNCHANGED vars
  <2>1. UNCHANGED <<ends, consumed, forgotten>>
    BY <1>4 DEF BeginRead, ReadReceives, ReadEnds, BeginClose, CloseStep,
       CloseSession, CloseLane, EndClose, TargetEnds, vars, reader, server
  <2> QED
    BY <2>1, ForgetsOrStands
<1> QED
  BY <1>1, <1>2, <1>3, <1>4 DEF Next, ReadStep

\* The receiving half of the X tunnel, with any number of pollers that race
\* each other, implements the reliable byte pipe.
THEOREM PullImplementsPipe == Spec => PipeSpec
<1>1. Init => Pipe!Init
  <2> SUFFICES ASSUME Init PROVE Pipe!Init
    OBVIOUS
  <2>1. Segment(<<>>, 0) /\ Len(<<>>) = 0
    BY EmptyBegins
  <2>2. <<>> = Pipe!Prefix(0)
    BY <2>1, SegmentIsPrefix
  <2>3. Produced = 0 /\ Start(forgotten) = 0
    BY DEF Init, Produced, Start
  <2> QED
    BY <2>2, <2>3 DEF Init, Pipe!Init
<1>2. IInv => Bounded
  BY InBounds
<1>3. IInv /\ Bounded /\ Bounded' /\ [Next]_vars => [Pipe!Next]_(Pipe!pipe)
  BY PullRefines
<1> QED
  BY <1>1, <1>2, <1>3, PullInvariance, PTL DEF Spec, PipeSpec, Pipe!Spec
=============================================================================
