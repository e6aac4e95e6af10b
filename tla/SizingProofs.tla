--------------------------- MODULE SizingProofs ----------------------------
(***************************************************************************)
(* The sizer, and the Write of the X tunnel that cuts its records by it.   *)
(* For every range of sizes, every step constant and any set of workers,   *)
(* the shared sizer stays inside its bracket and its outcomes move it only *)
(* the way the code's comments promise; and on a path with a limit, what   *)
(* the bracket says of the path is true.  For every limit on failures and  *)
(* every number of records that are late, what Write reports as written    *)
(* the server has, once and in order, although a record may be repeated at *)
(* another size.                                                           *)
(***************************************************************************)
EXTENDS AdaptiveSizerPath, XorPush, TunnelLemmas

-----------------------------------------------------------------------------
(* The shared sizer                                                        *)

\* The inductive invariant: the three invariants the runs check are together
\* inductive, none of them is alone.  Growth stays below bad only because the
\* size is not above bad already, and the range of good and bad rests on the
\* range of the size.
SizerIInv == SizerTypeOK /\ Bracketed /\ CountersBounded

LEMMA BracketedIsInBracket == Bracketed <=> InBracket(tuner)
BY DEF Bracketed, InBracket

LEMMA CountersBoundedIsLow == CountersBounded <=> CountersLow(tuner)
BY DEF CountersBounded, CountersLow

LEMMA SizesAreInt == Sizes \subseteq Nat /\ 0 \notin Sizes
BY SizerAssumption DEF Sizes

LEMMA InitSizerIInv == SizerInit => SizerIInv
<1> SUFFICES ASSUME SizerInit PROVE SizerIInv
  OBVIOUS
<1>1. PICK start \in Sizes : tuner = NewSizer(start)
  BY DEF SizerInit
<1>2. tuner \in Sizers /\ InBracket(tuner) /\ CountersLow(tuner)
  BY <1>1, SizesAreInt, NewSizerFits
<1>3. attempt \in [Workers -> {0} \cup Sizes]
  BY DEF SizerInit
<1> QED
  BY <1>2, <1>3 DEF SizerIInv, SizerTypeOK, Bracketed, CountersBounded,
                    InBracket, CountersLow

LEMMA NextSizerIInv == SizerIInv /\ [SizerNext]_sizerVars => SizerIInv'
<1> SUFFICES ASSUME SizerIInv, [SizerNext]_sizerVars PROVE SizerIInv'
  OBVIOUS
<1>1. /\ tuner \in Sizers /\ InBracket(tuner) /\ CountersLow(tuner)
      /\ attempt \in [Workers -> {0} \cup Sizes]
      /\ tuner.current \in Sizes
  BY DEF SizerIInv, SizerTypeOK, Bracketed, CountersBounded, InBracket,
         CountersLow, Sizers
<1>2. SUFFICES /\ tuner' \in Sizers /\ InBracket(tuner') /\ CountersLow(tuner')
               /\ attempt' \in [Workers -> {0} \cup Sizes]
  BY DEF SizerIInv, SizerTypeOK, Bracketed, CountersBounded, InBracket,
         CountersLow
<1>3. ASSUME NEW w \in Workers, Begin(w)
      PROVE  /\ tuner' \in Sizers /\ InBracket(tuner') /\ CountersLow(tuner')
             /\ attempt' \in [Workers -> {0} \cup Sizes]
  BY <1>1, <1>3 DEF Begin
<1>4. ASSUME NEW w \in Workers, ReportSuccess(w)
      PROVE  /\ tuner' \in Sizers /\ InBracket(tuner') /\ CountersLow(tuner')
             /\ attempt' \in [Workers -> {0} \cup Sizes]
  <2>1. tuner' = Success(tuner, attempt[w])
    BY <1>4 DEF ReportSuccess
  <2>2. attempt' \in [Workers -> {0} \cup Sizes]
    BY <1>1, <1>4 DEF ReportSuccess
  <2> QED
    BY <1>1, <2>1, <2>2, SuccessFits
<1>5. ASSUME NEW w \in Workers, ReportFailure(w)
      PROVE  /\ tuner' \in Sizers /\ InBracket(tuner') /\ CountersLow(tuner')
             /\ attempt' \in [Workers -> {0} \cup Sizes]
  <2>1. tuner' = FailureReason(tuner, attempt[w])
    BY <1>5 DEF ReportFailure
  <2>2. attempt' \in [Workers -> {0} \cup Sizes]
    BY <1>1, <1>5 DEF ReportFailure
  <2> QED
    BY <1>1, <2>1, <2>2, FailureReasonFits
<1>6. ASSUME NEW w \in Workers, ReportTimeout(w)
      PROVE  /\ tuner' \in Sizers /\ InBracket(tuner') /\ CountersLow(tuner')
             /\ attempt' \in [Workers -> {0} \cup Sizes]
  BY <1>1, <1>6 DEF ReportTimeout
<1>7. CASE UNCHANGED sizerVars
  BY <1>1, <1>7 DEF sizerVars
<1> QED
  BY <1>3, <1>4, <1>5, <1>6, <1>7 DEF SizerNext

LEMMA SizerInvariance == SizerSpec => []SizerIInv
BY InitSizerIInv, NextSizerIInv, PTL DEF SizerSpec

\* Type correctness: in particular the size never leaves MinSize .. MaxSize.
THEOREM SizerTypeCorrect == SizerSpec => []SizerTypeOK
<1>1. SizerIInv => SizerTypeOK
  BY DEF SizerIInv
<1> QED
  BY <1>1, SizerInvariance, PTL

\* The size in use lies between the known-good and the known-bad size.
THEOREM StaysBracketed == SizerSpec => []Bracketed
<1>1. SizerIInv => Bracketed
  BY DEF SizerIInv
<1> QED
  BY <1>1, SizerInvariance, PTL

\* The counters never reach the thresholds that consume them.
THEOREM CountersStayBounded == SizerSpec => []CountersBounded
<1>1. SizerIInv => CountersBounded
  BY DEF SizerIInv
<1> QED
  BY <1>1, SizerInvariance, PTL

\* While the gap to a known-bad size is open, no outcome closes it from below
\* by stepping on or over that size.
THEOREM NeverJumps == SizerSpec => NeverJumpsPastKnownBad
<1>1. SizerIInv /\ [SizerNext]_sizerVars =>
          [GapOpen(tuner) => tuner'.current < tuner.bad]_sizerVars
  <2> SUFFICES ASSUME SizerIInv, [SizerNext]_sizerVars, GapOpen(tuner)
               PROVE  tuner'.current < tuner.bad
    OBVIOUS
  <2>1. tuner \in Sizers /\ InBracket(tuner) /\ CountersLow(tuner)
    BY DEF SizerIInv, SizerTypeOK, Bracketed, CountersBounded, InBracket,
           CountersLow
  <2>2. /\ tuner.current \in Nat /\ tuner.bad \in Nat
        /\ tuner.current < tuner.bad
    <3>1. tuner.current \in Nat /\ tuner.bad \in Nat
      <4>1. tuner.current \in Sizes /\ tuner.bad \in {0} \cup Sizes
        BY <2>1 DEF Sizers
      <4> QED
        BY <4>1, SizerAssumption DEF Sizes
    <3> QED
      BY <3>1 DEF GapOpen
  <2>3. CASE tuner' = tuner
    BY <2>2, <2>3
  <2>4. ASSUME NEW w \in Workers, ReportSuccess(w)
        PROVE  tuner'.current < tuner.bad
    BY <2>1, <2>4, SuccessFits DEF ReportSuccess
  <2>5. ASSUME NEW w \in Workers, ReportFailure(w)
        PROVE  tuner'.current < tuner.bad
    <3>1. /\ tuner' \in Sizers
          /\ tuner'.current <= tuner.current
      BY <2>1, <2>5, FailureReasonFits DEF ReportFailure
    <3>2. tuner'.current \in Nat
      BY <3>1, SizesAreInt DEF Sizers
    <3> QED
      BY <2>2, <3>1, <3>2
  <2> QED
    BY <2>3, <2>4, <2>5 DEF SizerNext, Begin, ReportTimeout, sizerVars
<1> QED
  BY <1>1, SizerInvariance, PTL DEF SizerSpec, NeverJumpsPastKnownBad

\* Of several workers that fail on one oversized value only those whose
\* attempt is still the size in use can move it.
THEOREM OnlyCurrentAttemptMoves == SizerSpec => MovesOnlyOnCurrentAttempt
<1>1. SizerTypeOK /\ [SizerNext]_sizerVars =>
          [tuner' # tuner =>
              \E w \in Workers : /\ attempt[w] = tuner.current
                                 /\ attempt'[w] = 0]_sizerVars
  <2> SUFFICES ASSUME SizerTypeOK, [SizerNext]_sizerVars, tuner' # tuner
               PROVE  \E w \in Workers :
                          attempt[w] = tuner.current /\ attempt'[w] = 0
    OBVIOUS
  <2>1. PICK w \in Workers : ReportSuccess(w) \/ ReportFailure(w)
    BY DEF SizerNext, Begin, ReportTimeout, sizerVars
  <2>2. attempt'[w] = 0
    BY <2>1 DEF SizerTypeOK, ReportSuccess, ReportFailure
  <2>3. attempt[w] = tuner.current
    BY <2>1 DEF ReportSuccess, ReportFailure, Success, FailureReason
  <2> QED
    BY <2>2, <2>3
<1> QED
  BY <1>1, SizerTypeCorrect, PTL DEF SizerSpec, MovesOnlyOnCurrentAttempt

-----------------------------------------------------------------------------
(* The sizer on a path with a limit                                        *)

\* A path is one way to answer the sizer: its steps are steps of the sizer.
LEMMA PathSteps == [PathNext]_pathVars => [SizerNext]_sizerVars
<1> SUFFICES ASSUME [PathNext]_pathVars PROVE [SizerNext]_sizerVars
  OBVIOUS
<1>1. CASE PathChanges \/ UNCHANGED pathVars
  BY <1>1 DEF PathChanges, pathVars, sizerVars
<1>2. ASSUME NEW w \in Workers, Try(w) \/ Pass(w) \/ Reject(w)
      PROVE  SizerNext
  BY <1>2 DEF Try, Pass, Reject, SizerNext
<1> QED
  BY <1>1, <1>2 DEF PathNext

\* A success tells at most that the size in use passes, and may forget what
\* has failed.
LEMMA SuccessLearns ==
    ASSUME NEW s \in Sizers, NEW size \in Sizes
    PROVE  LET t == Success(s, size)
           IN  /\ t.good = s.good \/ (t.good = s.current /\ size = s.current)
               /\ t.bad \in {0, s.bad}
<1>1. /\ s.current \in Nat /\ s.good \in Nat /\ s.bad \in Nat
      /\ s.successes \in Nat
  BY SizerAssumption DEF Sizers, Sizes
<1> DEFINE t == CountSuccess(s)
<1>2. /\ t.good = s.good \/ t.good = s.current
      /\ t.bad = s.bad /\ t.current = s.current
  BY <1>1 DEF CountSuccess, Sizers, Larger
<1>3. Grow(t).good = t.good /\ Grow(t).bad \in {0, t.bad}
  BY DEF Grow, CountSuccess, Sizers
<1>4. /\ [s EXCEPT !.failures = 0].good = s.good
      /\ [s EXCEPT !.failures = 0].bad = s.bad
  BY DEF Sizers
<1> HIDE DEF t
<1> QED
  BY <1>2, <1>3, <1>4 DEF Success, t

\* A failure tells at most that the size in use fails, and may forget what has
\* passed.
LEMMA FailureLearns ==
    ASSUME NEW s \in Sizers, NEW size \in Sizes
    PROVE  LET t == FailureReason(s, size)
           IN  /\ t.good \in {0, s.good}
               /\ t.bad = s.bad \/ (t.bad = s.current /\ size = s.current)
<1>1. Shrink(s).good \in {0, s.good} /\ Shrink(s).bad \in {s.bad, s.current}
  BY DEF Shrink, Sizers
<1> QED
  BY <1>1 DEF FailureReason, Sizers

\* One step of the path, on which the types are known.
LEMMA PathStep ==
    ASSUME SizerTypeOK, BracketIsTrue, limit \in Sizes, changes \in Nat,
           [PathNext]_pathVars
    PROVE  BracketIsTrue' /\ limit' \in Sizes /\ changes' \in Nat
<1>1. /\ tuner \in Sizers /\ Sizes \subseteq Nat /\ 0 \notin Sizes
      /\ tuner.good \in Nat /\ tuner.bad \in Nat /\ tuner.current \in Nat
  <2>1. /\ tuner \in Sizers /\ tuner.current \in Sizes
        /\ tuner.good \in {0} \cup Sizes /\ tuner.bad \in {0} \cup Sizes
    BY DEF SizerTypeOK, Sizers
  <2>2. tuner.good \in Nat /\ tuner.bad \in Nat /\ tuner.current \in Nat
    BY <2>1, SizerAssumption DEF Sizes
  <2> QED
    BY <2>1, <2>2, SizesAreInt
<1>2. CASE PathChanges
  <2>1. changes' = changes + 1 /\ limit' \in Sizes
    BY <1>2 DEF PathChanges
  <2> QED
    BY <2>1 DEF BracketIsTrue
<1>3. ASSUME NEW w \in Workers, Try(w)
      PROVE  BracketIsTrue' /\ limit' \in Sizes /\ changes' \in Nat
  BY <1>3 DEF Try, Begin, BracketIsTrue
<1>4. ASSUME NEW w \in Workers, Pass(w)
      PROVE  BracketIsTrue' /\ limit' \in Sizes /\ changes' \in Nat
  <2>1. /\ attempt[w] \in Sizes /\ attempt[w] <= limit
        /\ tuner' = Success(tuner, attempt[w]) /\ UNCHANGED <<limit, changes>>
    BY <1>4 DEF Pass, ReportSuccess, SizerTypeOK
  <2>2. /\ \/ tuner'.good = tuner.good
           \/ tuner'.good = tuner.current /\ attempt[w] = tuner.current
        /\ tuner'.bad \in {0, tuner.bad}
    BY <1>1, <2>1, SuccessLearns
  <2> QED
    BY <1>1, <2>1, <2>2 DEF BracketIsTrue
<1>5. ASSUME NEW w \in Workers, Reject(w)
      PROVE  BracketIsTrue' /\ limit' \in Sizes /\ changes' \in Nat
  <2>1. /\ attempt[w] \in Sizes /\ attempt[w] > limit
        /\ tuner' = FailureReason(tuner, attempt[w])
        /\ UNCHANGED <<limit, changes>>
    BY <1>5 DEF Reject, ReportFailure, SizerTypeOK
  <2>2. /\ tuner'.good \in {0, tuner.good}
        /\ \/ tuner'.bad = tuner.bad
           \/ tuner'.bad = tuner.current /\ attempt[w] = tuner.current
    BY <1>1, <2>1, FailureLearns
  <2> QED
    BY <1>1, <2>1, <2>2 DEF BracketIsTrue
<1>6. CASE UNCHANGED pathVars
  BY <1>6 DEF pathVars, BracketIsTrue
<1> QED
  BY <1>2, <1>3, <1>4, <1>5, <1>6 DEF PathNext

\* On every path the sizer behaves as a sizer, so that all of the above holds.
THEOREM PathIsSized == PathSpec => SizerSpec
<1>1. PathInit => SizerInit
  BY DEF PathInit
<1> QED
  BY <1>1, PathSteps, PTL DEF PathSpec, SizerSpec

\* Until the path changes, the size that the sizer takes for good passes and
\* the one that it takes for bad fails, although outcomes come late and of
\* sizes that other workers have left: Success and FailureReason.
THEOREM BracketTellsThePath == PathSpec => []BracketIsTrue
<1> DEFINE Inv == BracketIsTrue /\ limit \in Sizes /\ changes \in Nat
<1>1. PathInit => Inv
  <2> SUFFICES ASSUME PathInit PROVE Inv
    OBVIOUS
  <2>1. PICK start \in Sizes : tuner = NewSizer(start)
    BY DEF PathInit, SizerInit
  <2>2. tuner.good = 0 /\ tuner.bad = 0 /\ limit \in Sizes /\ changes = 0
    BY <2>1 DEF NewSizer, PathInit
  <2>3. 0 <= limit
    BY <2>2, SizesAreInt
  <2> QED
    BY <2>2, <2>3 DEF BracketIsTrue
<1>2. SizerTypeOK /\ Inv /\ [PathNext]_pathVars => Inv'
  BY PathStep
<1> QED
  BY <1>1, <1>2, PathIsSized, SizerTypeCorrect, PTL DEF PathSpec

-----------------------------------------------------------------------------
(* The Write of the X tunnel: its inductive invariant                      *)

\* A Write, or the transaction of one of its records, is under way.
Writing == wpc \in {"next", "do", "sent", "answered"}
Sending == wpc \in {"do", "sent", "answered"}

\* The bytes of this Write are among those that were handed over, and so is
\* everything the server took.
Offsets ==
    /\ Segment(applied, 0)
    /\ Len(applied) <= offered
    /\ pos + todo <= offered
    /\ Writing <=> todo > 0
    /\ tries < ControlAttempts

\* The server is at most one record ahead of Write: the one whose number is
\* upSeq, taken at the length that it had then.
Ahead ==
    \/ taken = upSeq /\ Len(applied) = pos
    \/ taken = upSeq + 1 /\ Len(applied) = pos + lastLen

\* A record of the present number starts where Write stands, whatever its
\* length; older ones are of no interest to the server.
Honest(r) ==
    /\ r.seq <= upSeq
    /\ r.seq = upSeq => r.from = pos
    /\ r.from + r.n <= offered

Sent ==
    /\ Sending => Honest(record) /\ record.seq = upSeq
    /\ \A r \in late : Honest(r)

\* An ACK is about the record of the present number, whichever of its copies
\* was taken.
AckIsTrue ==
    wpc = "answered" /\ answer > 0 => taken = upSeq + 1 /\ answer = lastLen

Sizing == InBracket(sizer) /\ CountersLow(sizer)

PushIInv == TypeOK /\ Offsets /\ Ahead /\ Sent /\ AckIsTrue /\ Sizing

-----------------------------------------------------------------------------
(* Lemmas                                                                  *)

LEMMA Numbers ==
    ASSUME PushIInv
    PROVE  /\ pos \in Nat /\ todo \in Nat /\ upSeq \in Nat /\ offered \in Nat
           /\ taken \in Nat /\ lastLen \in Nat /\ answer \in Nat
           /\ applied \in Seq(Nat) /\ Len(applied) \in Nat
           /\ tries \in Nat /\ minFailures \in Nat
           /\ ControlAttempts \in Nat \ {0} /\ MinFailureLimit \in Nat \ {0}
           /\ pos <= Len(applied) /\ Len(applied) <= offered
<1>1. /\ pos \in Nat /\ todo \in Nat /\ upSeq \in Nat /\ offered \in Nat
      /\ taken \in Nat /\ lastLen \in Nat /\ answer \in Nat
      /\ applied \in Seq(Nat) /\ tries \in Nat /\ minFailures \in Nat
      /\ ControlAttempts \in Nat \ {0} /\ MinFailureLimit \in Nat \ {0}
  BY PushAssumption DEF PushIInv, TypeOK
<1>2. Len(applied) \in Nat
  BY <1>1, LenProperties
<1> QED
  BY <1>1, <1>2 DEF PushIInv, Ahead, Offsets

LEMMA SizerFacts ==
    ASSUME PushIInv
    PROVE  /\ MinSize \in Sizes /\ sizer.current \in Sizes
           /\ Sizes \subseteq Nat \ {0}
           /\ sizer \in Sizers /\ InBracket(sizer) /\ CountersLow(sizer)
           /\ NoRecord \in Records
<1>1. /\ sizer \in Sizers /\ InBracket(sizer) /\ CountersLow(sizer)
  BY DEF PushIInv, TypeOK, Sizing
<1>2. MinSize \in Sizes /\ Sizes \subseteq Nat \ {0}
  BY SizerAssumption DEF Sizes
<1>3. NoRecord \in Records
  BY <1>2 DEF NoRecord, Records
<1> QED
  BY <1>1, <1>2, <1>3 DEF Sizers

\* What has been handed over can only grow, and a record's claim holds on
\* while neither the number nor the offset of Write moves.
LEMMA HonestStays ==
    ASSUME PushIInv, NEW r \in Records, Honest(r),
           UNCHANGED <<pos, upSeq>>, offered' \in Nat, offered <= offered'
    PROVE  Honest(r)'
<1>1. r.from + r.n \in Nat
  BY DEF Records
<1> QED
  BY <1>1, Numbers DEF Honest

-----------------------------------------------------------------------------
(* The caller                                                              *)

LEMMA OpenPreserves == PushIInv /\ OpenStep => PushIInv'
<1> SUFFICES ASSUME PushIInv, OpenStep PROVE PushIInv'
  OBVIOUS
<1>1. /\ UNCHANGED openKeeps
      /\ wpc = "opening" /\ wpc' \in {"opening", "unopened", "idle"}
      /\ session' \in {session, "open"}
      /\ tries' \in {0, tries + 1} /\ tries' < ControlAttempts
      /\ lane' \in [open : BOOLEAN, closed : BOOLEAN]
  <2>1. lane \in [open : BOOLEAN, closed : BOOLEAN]
    BY DEF PushIInv, TypeOK
  <2>2. CASE Opened
    <3>1. lane' \in [open : BOOLEAN, closed : BOOLEAN]
      BY <2>1, <2>2, PushAssumption DEF Opened, AnswerKeeps
    <3> QED
      BY <2>2, <3>1, Numbers DEF Opened
  <2>3. CASE OpenTryFails
    <3>1. tries < ControlAttempts
      BY DEF PushIInv, Offsets
    <3>2. tries' = IF tries + 1 = ControlAttempts THEN 0 ELSE tries + 1
      BY <2>3 DEF OpenTryFails
    <3>3. tries' \in {0, tries + 1} /\ tries' < ControlAttempts
      BY <3>1, <3>2, Numbers
    <3> QED
      BY <2>3, <3>3 DEF OpenTryFails
  <2>4. CASE OpenRefused
    BY <2>4, Numbers DEF OpenRefused
  <2> QED
    BY <2>2, <2>3, <2>4 DEF OpenStep
<1>2. TypeOK'
  <2>1. tries' \in 0 .. ControlAttempts
    BY <1>1, Numbers
  <2> QED
    BY <1>1, <2>1 DEF PushIInv, TypeOK, openKeeps
<1>3. Offsets' /\ Ahead' /\ Sizing'
  BY <1>1 DEF PushIInv, Offsets, Ahead, Sizing, Writing, openKeeps
<1>4. Sent' /\ AckIsTrue'
  BY <1>1 DEF PushIInv, Sent, AckIsTrue, Sending, Honest, openKeeps
<1> QED
  BY <1>2, <1>3, <1>4 DEF PushIInv

LEMMA BeginWritePreserves == PushIInv /\ BeginWrite => PushIInv'
<1> SUFFICES ASSUME PushIInv, BeginWrite PROVE PushIInv'
  OBVIOUS
<1>1. PICK len \in 1 .. StreamLen - pos :
          todo' = len /\ offered' = Larger(offered, pos + len)
  BY DEF BeginWrite
<1>2. /\ todo' \in Nat \ {0} /\ offered' \in Nat
      /\ offered <= offered' /\ pos + todo' <= offered'
  BY <1>1, Numbers DEF Larger
<1>3. /\ UNCHANGED <<tries, pos, upSeq, sizer, record, answer, lane, cpc, server>>
      /\ minFailures' = 0 /\ wpc' = "next"
  BY DEF BeginWrite
<1> USE DEF server
<1>4. TypeOK'
  BY <1>2, <1>3, Numbers DEF PushIInv, TypeOK
<1>5. Offsets'
  BY <1>2, <1>3, Numbers DEF PushIInv, Offsets, Writing
<1>6. Ahead' /\ Sizing' /\ AckIsTrue'
  BY <1>3 DEF PushIInv, Ahead, Sizing, AckIsTrue
<1>7. Sent'
  <2>1. ASSUME NEW r \in late PROVE Honest(r)'
    <3>1. r \in Records /\ Honest(r)
      BY DEF PushIInv, TypeOK, Sent
    <3> QED
      BY <1>2, <1>3, <3>1, HonestStays
  <2> QED
    BY <1>3, <2>1 DEF Sent, Sending
<1> QED
  BY <1>4, <1>5, <1>6, <1>7 DEF PushIInv

LEMMA NextRecordPreserves == PushIInv /\ NextRecord => PushIInv'
<1> SUFFICES ASSUME PushIInv, NextRecord PROVE PushIInv'
  OBVIOUS
<1> DEFINE n == Smaller(sizer.current, todo)
<1>1. /\ record' = [seq |-> upSeq, from |-> pos, size |-> sizer.current, n |-> n]
      /\ wpc = "next" /\ wpc' = "do"
      /\ UNCHANGED <<tries, pos, todo, upSeq, sizer, minFailures, answer,
                     offered, lane, cpc, server>>
  BY DEF NextRecord
<1>2. n \in Nat \ {0} /\ n <= todo
  BY <1>1, SizerFacts, Numbers DEF Smaller, PushIInv, Offsets, Writing
<1> HIDE DEF n
<1>3. /\ record' \in Records /\ record'.seq = upSeq /\ record'.from = pos
      /\ record'.n = n
  BY <1>1, <1>2, SizerFacts, Numbers DEF Records
<1> USE DEF server
<1>4. TypeOK'
  BY <1>1, <1>3 DEF PushIInv, TypeOK
<1>5. Offsets' /\ Ahead' /\ Sizing' /\ AckIsTrue'
  BY <1>1 DEF PushIInv, Offsets, Writing, Ahead, Sizing, AckIsTrue
<1>6. Honest(record)'
  <2>1. pos + n <= offered
    BY <1>2, Numbers DEF PushIInv, Offsets
  <2> QED
    BY <1>1, <1>3, <2>1, Numbers DEF Honest
<1>7. \A r \in late' : Honest(r)'
  BY <1>1 DEF PushIInv, Sent, Honest
<1>8. Sent'
  BY <1>1, <1>3, <1>6, <1>7 DEF Sent
<1> QED
  BY <1>4, <1>5, <1>8 DEF PushIInv

LEMMA SendPreserves == PushIInv /\ Send => PushIInv'
<1> SUFFICES ASSUME PushIInv, Send PROVE PushIInv'
  OBVIOUS
<1>1. /\ wpc = "do" /\ wpc' = "sent" /\ lane' = [lane EXCEPT !.open = TRUE]
      /\ UNCHANGED <<writer, cpc, server>>
  BY DEF Send
<1> USE DEF server, writer
<1>2. lane' \in [open : BOOLEAN, closed : BOOLEAN]
  BY <1>1 DEF PushIInv, TypeOK
<1>3. TypeOK'
  BY <1>1, <1>2 DEF PushIInv, TypeOK
<1>4. Offsets' /\ Ahead' /\ Sizing'
  BY <1>1 DEF PushIInv, Offsets, Writing, Ahead, Sizing
<1>5. Sent' /\ AckIsTrue'
  BY <1>1 DEF PushIInv, Sent, Sending, Honest, AckIsTrue
<1> QED
  BY <1>3, <1>4, <1>5 DEF PushIInv

\* An error of Do, after which the late records are honest: the record is cut
\* again from where Write stands, or the Write ends.
LEMMA FaultPreserves ==
    ASSUME PushIInv, Fault, Writing,
           UNCHANGED <<cpc, applied, taken, lastLen, session>>,
           lane' \in [open : BOOLEAN, closed : BOOLEAN],
           late' \subseteq Records, \A r \in late' : Honest(r)
    PROVE  PushIInv'
<1> DEFINE failures == FailuresNow(sizer, FailureReason(sizer, record.size))
<1>1. /\ sizer' = FailureReason(sizer, record.size)
      /\ record' = NoRecord /\ answer' = 0
      /\ \/ failures >= MinFailureLimit /\ Returns("idle")
         \/ /\ ~(failures >= MinFailureLimit)
            /\ minFailures' = failures /\ wpc' = "next" /\ todo' = todo
      /\ UNCHANGED <<tries, pos, upSeq, offered>>
  BY DEF Fault
<1>2. failures \in Nat
  <2>1. failures \in {0, minFailures + 1}
    BY DEF FailuresNow
  <2> QED
    BY <2>1, Numbers
<1> HIDE DEF failures
<1>3. \/ todo' = 0 /\ minFailures' = 0 /\ wpc' = "idle"
      \/ todo' = todo /\ minFailures' \in 0 .. MinFailureLimit /\ wpc' = "next"
  BY <1>1, <1>2, Numbers DEF Returns
<1>4. minFailures' \in 0 .. MinFailureLimit /\ todo' \in Nat /\ todo' <= todo
  BY <1>3, Numbers
<1>5. sizer' \in Sizers /\ Sizing'
  BY <1>1, SizerFacts, FailureReasonFits DEF Sizing
<1>6. TypeOK'
  <2>1. 0 \in Nat
    OBVIOUS
  <2> QED
    BY <1>1, <1>3, <1>4, <1>5, <2>1, SizerFacts DEF PushIInv, TypeOK
<1>7. Offsets'
  <2>1. todo > 0 /\ pos + todo' <= offered
    BY <1>4, Numbers DEF PushIInv, Offsets
  <2>2. Writing' <=> todo' > 0
    BY <1>3, <2>1, Numbers DEF Writing
  <2> QED
    BY <1>1, <2>1, <2>2 DEF PushIInv, Offsets
<1>8. Ahead' /\ AckIsTrue'
  BY <1>1 DEF PushIInv, Ahead, AckIsTrue
<1>9. Sent'
  BY <1>1, <1>3 DEF Sent, Sending, Honest
<1> QED
  BY <1>5, <1>6, <1>7, <1>8, <1>9 DEF PushIInv

LEMMA FailsPreserves == PushIInv /\ (SendFails \/ AnswerLost) => PushIInv'
<1> SUFFICES ASSUME PushIInv, SendFails \/ AnswerLost PROVE PushIInv'
  OBVIOUS
<1>1. /\ Fault /\ Writing
      /\ UNCHANGED <<cpc, applied, taken, lastLen, session>>
      /\ lane' \in {lane, [lane EXCEPT !.open = FALSE]}
      /\ \/ late' = late
         \/ wpc = "sent" /\ late' = late \cup {record}
  BY DEF SendFails, AnswerLost, Writing, server
<1>2. lane' \in [open : BOOLEAN, closed : BOOLEAN]
  BY <1>1 DEF PushIInv, TypeOK
<1>3. /\ late \subseteq Records /\ record \in Records
      /\ \A r \in late : Honest(r)
      /\ wpc = "sent" => Honest(record)
  BY DEF PushIInv, TypeOK, Sent, Sending
<1>4. late' \subseteq Records /\ \A r \in late' : Honest(r)
  BY <1>1, <1>3
<1> QED
  BY <1>1, <1>2, <1>4, FaultPreserves

-----------------------------------------------------------------------------
(* The server                                                              *)

\* A fresh record continues the stream at the length it has, and is the
\* record of the present number; any other changes nothing.
LEMMA TakesFits ==
    ASSUME PushIInv, NEW r \in Records, Honest(r), Takes(r),
           UNCHANGED <<pos, upSeq>>
    PROVE  /\ applied' \in Seq(Nat) /\ Segment(applied', 0)
           /\ Len(applied') \in Nat /\ Len(applied) <= Len(applied')
           /\ Len(applied') <= offered
           /\ taken' \in Nat /\ lastLen' \in Nat
           /\ Ahead'
           /\ taken = upSeq + 1 => UNCHANGED <<taken, lastLen>>
<1>1. r.seq \in Nat /\ r.from \in Nat /\ r.n \in Nat \ {0}
  BY DEF Records
<1>2. CASE Fresh(r)
  <2> DEFINE new == [i \in 1 .. r.n |-> r.from + i]
  <2>1. /\ applied' = applied \o new /\ taken' = taken + 1 /\ lastLen' = r.n
        /\ r.seq = taken
    BY <1>2 DEF Takes, Fresh
  <2>2. taken = upSeq /\ Len(applied) = pos
    <3>1. r.seq <= upSeq
      BY DEF Honest
    <3> QED
      BY <1>1, <2>1, <3>1, Numbers DEF PushIInv, Ahead
  <2>3. r.from = pos /\ r.from + r.n <= offered
    BY <2>1, <2>2 DEF Honest
  <2>4. Segment(new, r.from) /\ Len(new) = r.n
    BY <1>1, SegmentFresh
  <2> HIDE DEF new
  <2>5. 0 + Len(applied) = r.from /\ 0 \in Nat
    BY <2>2, <2>3, Numbers
  <2>6. Segment(applied', 0) /\ Len(applied') = Len(applied) + r.n
    BY <2>1, <2>4, <2>5, SegmentJoin DEF PushIInv, Offsets
  <2>7. Len(applied') = pos + r.n
    BY <2>2, <2>6
  <2>8. Ahead'
    BY <2>1, <2>2, <2>7 DEF Ahead
  <2>9. taken # upSeq + 1
    BY <2>2, Numbers
  <2>10. /\ applied' \in Seq(Nat) /\ Len(applied') \in Nat
         /\ Len(applied) <= Len(applied') /\ Len(applied') <= offered
         /\ taken' \in Nat /\ lastLen' \in Nat
    <3>1. applied' \in Seq(Nat)
      BY <2>6 DEF Segment
    <3> QED
      BY <1>1, <2>1, <2>2, <2>3, <2>7, <3>1, Numbers
  <2> QED
    BY <2>6, <2>8, <2>9, <2>10
<1>3. CASE ~Fresh(r)
  <2>1. UNCHANGED <<applied, taken, lastLen>>
    BY <1>3 DEF Takes
  <2> QED
    BY <2>1, Numbers DEF PushIInv, Offsets, Ahead
<1> QED
  BY <1>2, <1>3

\* What the caller knows is untouched while the server takes a record.
LEMMA TakenPreserves ==
    ASSUME PushIInv, NEW r \in Records, Honest(r), Takes(r),
           UNCHANGED <<tries, pos, todo, upSeq, sizer, minFailures, record,
                       offered, lane, cpc, session>>,
           late' \subseteq late,
           answer' \in Nat,
           \/ wpc' = wpc
           \/ wpc = "sent" /\ wpc' = "answered",
           wpc' = "answered" /\ answer' > 0 =>
               taken' = upSeq + 1 /\ answer' = lastLen'
    PROVE  PushIInv'
<1>1. /\ applied' \in Seq(Nat) /\ Segment(applied', 0)
      /\ Len(applied') <= offered
      /\ taken' \in Nat /\ lastLen' \in Nat /\ Ahead'
  BY TakesFits
<1>2. TypeOK'
  BY <1>1 DEF PushIInv, TypeOK
<1>3. Offsets'
  BY <1>1 DEF PushIInv, Offsets, Writing
<1>4. Sent' /\ AckIsTrue' /\ Sizing'
  BY DEF PushIInv, Sent, Sending, Honest, AckIsTrue, Sizing
<1> QED
  BY <1>1, <1>2, <1>3, <1>4 DEF PushIInv

LEMMA ServePreserves == PushIInv /\ Serve => PushIInv'
<1> SUFFICES ASSUME PushIInv, Serve PROVE PushIInv'
  OBVIOUS
<1>1. /\ wpc = "sent" /\ wpc' = "answered" /\ Takes(record)
      /\ answer' = IF session = "open" /\ taken' = record.seq + 1
                   THEN lastLen' ELSE 0
      /\ UNCHANGED <<tries, pos, todo, upSeq, sizer, minFailures, record,
                     offered, lane, cpc, session, late>>
  BY DEF Serve
<1>2. record \in Records /\ Honest(record) /\ record.seq = upSeq
  BY <1>1 DEF PushIInv, TypeOK, Sent, Sending
<1>3. lastLen' \in Nat
  BY <1>1, <1>2, TakesFits
<1>4. answer' \in Nat
  BY <1>1, <1>3
<1>5. answer' > 0 => taken' = upSeq + 1 /\ answer' = lastLen'
  BY <1>1, <1>2
<1> QED
  BY <1>1, <1>2, <1>4, <1>5, TakenPreserves

LEMMA ServeLatePreserves == PushIInv /\ ServeLate => PushIInv'
<1> SUFFICES ASSUME PushIInv, ServeLate PROVE PushIInv'
  OBVIOUS
<1>1. PICK r \in late : Takes(r) /\ late' = late \ {r}
  BY DEF ServeLate
<1>2. UNCHANGED <<wpc, writer, lane, cpc, session>>
  BY DEF ServeLate
<1>3. r \in Records /\ Honest(r)
  BY DEF PushIInv, TypeOK, Sent
<1>4. taken = upSeq + 1 => UNCHANGED <<taken, lastLen>>
  BY <1>1, <1>2, <1>3, TakesFits DEF writer
<1>5. wpc' = "answered" /\ answer' > 0 =>
          taken' = upSeq + 1 /\ answer' = lastLen'
  BY <1>2, <1>4 DEF PushIInv, AckIsTrue, writer
<1>6. answer' \in Nat
  BY <1>2, Numbers DEF writer
<1> QED
  BY <1>1, <1>2, <1>3, <1>5, <1>6, TakenPreserves DEF writer

-----------------------------------------------------------------------------
(* Write, after the transaction                                            *)

\* The ACK moves Write to where the server is, whatever length the record had
\* that was taken.
LEMMA AckedPreserves == PushIInv /\ Acked => PushIInv'
<1> SUFFICES ASSUME PushIInv, Acked PROVE PushIInv'
  OBVIOUS
<1>1. /\ wpc = "answered" /\ answer \in 1 .. todo
      /\ upSeq' = upSeq + 1 /\ pos' = pos + answer
      /\ sizer' = Success(sizer, record.size)
      /\ record' = NoRecord /\ answer' = 0
      /\ UNCHANGED <<tries, offered, cpc, applied, taken, lastLen, session, late>>
      /\ minFailures' = 0
      /\ \/ answer = todo /\ todo' = 0 /\ wpc' = "idle"
         \/ answer # todo /\ todo' = todo - answer /\ wpc' = "next"
  BY DEF Acked, AckFits, Accepted, Returns, ackKeeps, server
<1>2. taken = upSeq + 1 /\ answer = lastLen
  BY <1>1, Numbers DEF PushIInv, AckIsTrue
<1>3. Len(applied) = pos + lastLen
  BY <1>2, Numbers DEF PushIInv, Ahead
<1>4. Ahead'
  <2>1. taken' = upSeq' /\ applied' = applied /\ pos' = pos + lastLen
    BY <1>1, <1>2
  <2> QED
    BY <1>3, <2>1 DEF Ahead
<1>5. /\ pos' \in Nat /\ upSeq' \in Nat /\ todo' \in Nat
      /\ pos' + todo' = pos + todo /\ (wpc' = "next" <=> todo' > 0)
  <2>1. /\ answer \in Nat /\ todo \in Nat /\ pos \in Nat /\ upSeq \in Nat
        /\ 1 <= answer /\ answer <= todo
    BY <1>1, Numbers
  <2>2. CASE answer = todo /\ todo' = 0 /\ wpc' = "idle"
    BY <1>1, <2>1, <2>2
  <2>3. CASE answer # todo /\ todo' = todo - answer /\ wpc' = "next"
    <3>1. todo' \in Nat /\ todo' > 0 /\ pos' + todo' = pos + todo
      BY <1>1, <2>1, <2>3
    <3> QED
      BY <1>1, <2>1, <2>3, <3>1
  <2> QED
    BY <1>1, <2>2, <2>3
<1>6. sizer' \in Sizers /\ Sizing'
  BY <1>1, SizerFacts, SuccessFits DEF Sizing
<1>7. lane' \in [open : BOOLEAN, closed : BOOLEAN]
  BY PushAssumption DEF Acked, AnswerKeeps, PushIInv, TypeOK
<1>8. TypeOK'
  <2>1. minFailures' \in 0 .. MinFailureLimit /\ answer' \in Nat
    BY <1>1, Numbers
  <2> QED
    BY <1>1, <1>5, <1>6, <1>7, <2>1, SizerFacts DEF PushIInv, TypeOK
<1>9. Offsets'
  <2>1. Writing' <=> todo' > 0
    BY <1>1, <1>5 DEF Writing
  <2>2. pos' + todo' <= offered
    BY <1>5 DEF PushIInv, Offsets
  <2> QED
    BY <1>1, <2>1, <2>2 DEF PushIInv, Offsets
<1>10. Sent'
  <2>1. ASSUME NEW r \in late PROVE Honest(r)'
    <3>1. r.seq \in Nat /\ r.seq <= upSeq /\ r.from + r.n <= offered
      BY DEF PushIInv, TypeOK, Records, Sent, Honest
    <3>2. r.seq <= upSeq' /\ r.seq # upSeq'
      BY <1>1, <3>1, Numbers
    <3> QED
      BY <1>1, <3>1, <3>2 DEF Honest
  <2> QED
    BY <1>1, <2>1 DEF Sent, Sending
<1>11. AckIsTrue'
  BY <1>1 DEF AckIsTrue
<1> QED
  BY <1>4, <1>6, <1>8, <1>9, <1>10, <1>11 DEF PushIInv

LEMMA NotAckedPreserves == PushIInv /\ NotAcked => PushIInv'
<1> SUFFICES ASSUME PushIInv, NotAcked PROVE PushIInv'
  OBVIOUS
<1>1. /\ record' = NoRecord /\ answer' = 0 /\ todo' = 0 /\ minFailures' = 0
      /\ wpc' \in {"stopped", "idle"}
      /\ UNCHANGED <<upSeq, pos, sizer, tries, offered, cpc, server>>
  BY DEF NotAcked, Returns, ackKeeps
<1>2. lane' \in [open : BOOLEAN, closed : BOOLEAN]
  BY PushAssumption DEF NotAcked, AnswerKeeps, PushIInv, TypeOK
<1> USE DEF server
<1>3. TypeOK'
  <2>1. minFailures' \in 0 .. MinFailureLimit /\ answer' \in Nat /\ todo' \in Nat
    BY <1>1, Numbers
  <2> QED
    BY <1>1, <1>2, <2>1, SizerFacts DEF PushIInv, TypeOK
<1>4. Offsets'
  <2>1. pos + 0 <= offered /\ ~(0 > 0)
    BY Numbers
  <2> QED
    BY <1>1, <2>1 DEF PushIInv, Offsets, Writing
<1>5. Ahead' /\ Sizing'
  BY <1>1 DEF PushIInv, Ahead, Sizing
<1>6. Sent' /\ AckIsTrue'
  BY <1>1 DEF PushIInv, Sent, Sending, Honest, AckIsTrue
<1> QED
  BY <1>3, <1>4, <1>5, <1>6 DEF PushIInv

-----------------------------------------------------------------------------
(* Close, and the end of the session                                       *)

LEMMA EndPreserves ==
    PushIInv /\ (BeginClose \/ CloseStep \/ SessionEnds \/ UNCHANGED vars) =>
        PushIInv'
<1> SUFFICES ASSUME PushIInv,
                    BeginClose \/ CloseStep \/ SessionEnds \/ UNCHANGED vars
             PROVE  PushIInv'
  OBVIOUS
<1>1. /\ UNCHANGED <<wpc, writer, applied, taken, lastLen, late>>
      /\ session' \in {session, "closed"}
      /\ cpc' \in {cpc, "session", "lane", "done"}
      /\ lane' \in {lane, [open |-> FALSE, closed |-> TRUE]}
  BY DEF BeginClose, CloseStep, CloseSession, CloseLane, SessionEnds, vars, server
<1> USE DEF writer
<1>2. TypeOK'
  <2>1. /\ lane' \in [open : BOOLEAN, closed : BOOLEAN]
        /\ cpc' \in {"open", "session", "lane", "done"}
        /\ session' \in {"none", "open", "closed"}
    <3>1. /\ lane \in [open : BOOLEAN, closed : BOOLEAN]
          /\ cpc \in {"open", "session", "lane", "done"}
          /\ session \in {"none", "open", "closed"}
      BY DEF PushIInv, TypeOK
    <3>2. [open |-> FALSE, closed |-> TRUE] \in [open : BOOLEAN, closed : BOOLEAN]
      OBVIOUS
    <3>3. lane' \in [open : BOOLEAN, closed : BOOLEAN]
      BY <1>1, <3>1, <3>2
    <3> QED
      BY <1>1, <3>1, <3>3
  <2> QED
    BY <1>1, <2>1 DEF PushIInv, TypeOK
<1>3. Offsets' /\ Ahead' /\ Sizing'
  BY <1>1 DEF PushIInv, Offsets, Writing, Ahead, Sizing
<1>4. Sent' /\ AckIsTrue'
  BY <1>1 DEF PushIInv, Sent, Sending, Honest, AckIsTrue
<1> QED
  BY <1>2, <1>3, <1>4 DEF PushIInv

-----------------------------------------------------------------------------
(* The invariant is inductive                                              *)

LEMMA InitPushIInv == Init => PushIInv
<1> SUFFICES ASSUME Init PROVE PushIInv
  OBVIOUS
<1>1. /\ sizer \in Sizers /\ Sizing
  <2>1. PICK start \in Sizes : sizer = NewSizer(start)
    BY DEF Init
  <2>2. start \in Int
    BY SizerAssumption DEF Sizes
  <2> QED
    BY <2>1, <2>2, NewSizerFits DEF Sizing
<1>2. /\ MinSize \in Sizes /\ 0 \in 0 .. ControlAttempts
      /\ 0 \in 0 .. MinFailureLimit /\ 0 < ControlAttempts
      /\ <<>> \in Seq(Nat) /\ 0 \in Nat /\ 1 \in Nat \ {0}
  BY SizerAssumption, PushAssumption DEF Sizes
<1>3. NoRecord \in Records
  BY <1>2 DEF NoRecord, Records
<1>4. TypeOK
  BY <1>1, <1>2, <1>3 DEF Init, TypeOK
<1>5. Segment(<<>>, 0) /\ Len(<<>>) = 0
  BY EmptySegment
<1>6. Offsets /\ Ahead
  BY <1>2, <1>5 DEF Init, Offsets, Writing, Ahead
<1>7. Sent /\ AckIsTrue
  BY DEF Init, Sent, Sending, AckIsTrue
<1> QED
  BY <1>1, <1>4, <1>6, <1>7 DEF PushIInv

LEMMA NextPushIInv == PushIInv /\ [Next]_vars => PushIInv'
<1>1. PushIInv /\ (OpenStep \/ BeginWrite) => PushIInv'
  BY OpenPreserves, BeginWritePreserves
<1>2. PushIInv /\ WriteStep => PushIInv'
  BY NextRecordPreserves, SendPreserves, FailsPreserves, ServePreserves,
     AckedPreserves, NotAckedPreserves DEF WriteStep
<1> QED
  BY <1>1, <1>2, ServeLatePreserves, EndPreserves DEF Next

\* The inductive invariant holds in every reachable state.
THEOREM PushInvariance == Spec => []PushIInv
<1>1. Init => PushIInv
  BY InitPushIInv
<1>2. PushIInv /\ [Next]_vars => PushIInv'
  BY NextPushIInv
<1> QED
  BY <1>1, <1>2, PTL DEF Spec

\* Every variable keeps its type; in particular a Write never counts more
\* failures at the minimum size than end it.
THEOREM PushTypeCorrect == Spec => []TypeOK
<1>1. PushIInv => TypeOK
  BY DEF PushIInv
<1> QED
  BY <1>1, PushInvariance, PTL

-----------------------------------------------------------------------------
(* Refinement                                                              *)

LEMMA SegmentIsPrefix ==
    ASSUME NEW s, Segment(s, 0)
    PROVE  s = Pipe!Prefix(Len(s)) /\ Len(s) \in Nat
<1>1. Len(s) \in Nat /\ s = [i \in 1 .. Len(s) |-> 0 + i]
  BY SegmentShape
<1>2. [i \in 1 .. Len(s) |-> 0 + i] = [i \in 1 .. Len(s) |-> i]
  BY <1>1
<1> QED
  BY <1>1, <1>2 DEF Pipe!Prefix

\* At most one end of the pipe moves in a step, and none moves back.
Moves ==
    \/ offered <= offered' /\ UNCHANGED <<applied, pos>>
    \/ Len(applied) <= Len(applied') /\ UNCHANGED <<offered, pos>>
    \/ pos <= pos' /\ UNCHANGED <<offered, applied>>

LEMMA StepMoves ==
    ASSUME PushIInv, [Next]_vars
    PROVE  Moves
<1> USE DEF writer, server
<1>1. CASE BeginWrite
  <2>1. PICK len \in 1 .. StreamLen - pos : offered' = Larger(offered, pos + len)
    BY <1>1 DEF BeginWrite
  <2>2. offered <= offered'
    BY <2>1, Numbers DEF Larger
  <2> QED
    BY <1>1, <2>2 DEF BeginWrite, Moves
<1>2. CASE Serve
  <2>1. record \in Records /\ Honest(record) /\ Takes(record)
        /\ UNCHANGED <<pos, upSeq, offered>>
    BY <1>2 DEF Serve, PushIInv, TypeOK, Sent, Sending
  <2>2. Len(applied) <= Len(applied')
    BY <2>1, TakesFits
  <2> QED
    BY <2>1, <2>2 DEF Moves
<1>3. CASE ServeLate
  <2>1. PICK r \in late : Takes(r)
    BY <1>3 DEF ServeLate
  <2>2. r \in Records /\ Honest(r) /\ UNCHANGED <<pos, upSeq, offered>>
    BY <1>3 DEF ServeLate, PushIInv, TypeOK, Sent
  <2>3. Len(applied) <= Len(applied')
    BY <2>1, <2>2, TakesFits
  <2> QED
    BY <2>2, <2>3 DEF Moves
<1>4. CASE Acked
  <2>1. pos' = pos + answer /\ answer \in Nat
    BY <1>4, Numbers DEF Acked, Accepted
  <2>2. pos <= pos'
    BY <2>1, Numbers
  <2> QED
    BY <1>4, <2>2 DEF Acked, ackKeeps, Moves
<1>5. CASE \/ OpenStep \/ NextRecord \/ Send \/ SendFails \/ AnswerLost
           \/ NotAcked \/ BeginClose \/ CloseStep \/ SessionEnds
           \/ UNCHANGED vars
  <2>1. UNCHANGED <<offered, applied, pos>>
    BY <1>5 DEF OpenStep, Opened, OpenTryFails, OpenRefused, openKeeps,
                NextRecord, Send, SendFails, AnswerLost, Fault, NotAcked,
                ackKeeps, BeginClose, CloseStep, CloseSession, CloseLane,
                SessionEnds, vars
  <2> QED
    BY <2>1, Numbers DEF Moves
<1> QED
  BY <1>1, <1>2, <1>3, <1>4, <1>5 DEF Next, WriteStep

\* A move is a step of the pipe, or shows nothing.
LEMMA MoveRefines ==
    ASSUME PushIInv, PushIInv', Moves
    PROVE  [Pipe!Next]_(Pipe!pipe)
<1>1. /\ applied = Pipe!Prefix(Len(applied)) /\ Len(applied) \in Nat
      /\ pos \in Nat /\ offered \in Nat
  BY Numbers, SegmentIsPrefix DEF PushIInv, Offsets
<1>2. /\ applied' = Pipe!Prefix(Len(applied')) /\ Len(applied') \in Nat
      /\ pos' \in Nat /\ offered' \in Nat
      /\ pos' <= Len(applied') /\ Len(applied') <= offered'
  <2>1. (TypeOK /\ Offsets /\ Ahead)'
    BY DEF PushIInv
  <2>2. /\ Segment(applied', 0) /\ Len(applied') <= offered'
        /\ pos' \in Nat /\ offered' \in Nat /\ lastLen' \in Nat
        /\ \/ Len(applied') = pos'
           \/ Len(applied') = pos' + lastLen'
    BY <2>1 DEF TypeOK, Offsets, Ahead
  <2>3. applied' = Pipe!Prefix(Len(applied')) /\ Len(applied') \in Nat
    BY <2>2, SegmentIsPrefix
  <2>4. pos' <= Len(applied')
    <3>1. \A a, b \in Nat : a <= a /\ a <= a + b
      OBVIOUS
    <3> QED
      BY <2>2, <3>1
  <2> QED
    BY <2>2, <2>3, <2>4
<1>3. CASE offered <= offered' /\ UNCHANGED <<applied, pos>>
  <2>1. CASE offered' = offered
    BY <1>3, <2>1 DEF Pipe!pipe
  <2>2. CASE offered' # offered
    <3>1. offered' > offered
      BY <1>1, <1>2, <1>3, <2>2
    <3> QED
      BY <1>2, <1>3, <3>1 DEF Pipe!Next, Pipe!Offer
  <2> QED
    BY <2>1, <2>2
<1>4. CASE Len(applied) <= Len(applied') /\ UNCHANGED <<offered, pos>>
  <2>1. CASE Len(applied') = Len(applied)
    <3>1. applied' = applied
      BY <1>1, <1>2, <2>1
    <3> QED
      BY <1>4, <3>1 DEF Pipe!pipe
  <2>2. CASE Len(applied') # Len(applied)
    <3>1. Len(applied') \in Len(applied) + 1 .. offered
      BY <1>1, <1>2, <1>4, <2>2
    <3> QED
      BY <1>2, <1>4, <3>1 DEF Pipe!Next, Pipe!Deliver
  <2> QED
    BY <2>1, <2>2
<1>5. CASE pos <= pos' /\ UNCHANGED <<offered, applied>>
  <2>1. CASE pos' = pos
    BY <1>5, <2>1 DEF Pipe!pipe
  <2>2. CASE pos' # pos
    <3>1. pos' \in pos + 1 .. Len(applied)
      BY <1>1, <1>2, <1>5, <2>2
    <3> QED
      BY <1>5, <3>1 DEF Pipe!Next, Pipe!Release
  <2> QED
    BY <2>1, <2>2
<1> QED
  BY <1>3, <1>4, <1>5 DEF Moves

\* Records that are repeated at other sizes, taken late or taken after the
\* Write that sent them has failed, and ACKs of a length other than the last
\* one sent, still make a reliable byte pipe.
THEOREM PushImplementsPipe == Spec => PipeSpec
<1>1. Init => Pipe!Init
  <2> SUFFICES ASSUME Init PROVE Pipe!Init
    OBVIOUS
  <2>1. Segment(<<>>, 0) /\ Len(<<>>) = 0
    BY EmptySegment
  <2>2. <<>> = Pipe!Prefix(0)
    BY <2>1, SegmentIsPrefix
  <2> QED
    BY <2>2 DEF Init, Pipe!Init
<1>2. PushIInv /\ PushIInv' /\ [Next]_vars => [Pipe!Next]_(Pipe!pipe)
  BY StepMoves, MoveRefines
<1> QED
  BY <1>1, <1>2, PushInvariance, PTL DEF Spec, PipeSpec, Pipe!Spec
=============================================================================
