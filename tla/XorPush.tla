------------------------------ MODULE XorPush ------------------------------
(***************************************************************************)
(* The sending half of the X tunnel (internal/xorchunk/chunk.go): Open     *)
(* creates the session, Write cuts the caller's bytes into records, each   *)
(* one transaction of the push lane, and repeats a record that fails under *)
(* the same number, but cut at the size the sizer has meanwhile chosen.    *)
(* How much of it the server has is what its ACK says.  Close comes from   *)
(* another goroutine at any time.                                          *)
(*                                                                         *)
(* Byte n of the stream the caller writes is named n.                      *)
(***************************************************************************)
EXTENDS SizerOps, Sequences, FiniteSets

CONSTANTS
    KeepsOpen,         \* may the lane keep its connection after an answer?
    ControlAttempts,   \* tries of a control request: 5
    MinFailureLimit,   \* failures at the minimum size that end a Write: 8
    StreamLen,         \* bound: bytes the caller ever writes
    MaxLate            \* bound: abandoned records still under way

ASSUME PushAssumption ==
    /\ KeepsOpen \subseteq BOOLEAN /\ KeepsOpen # {}
    /\ ControlAttempts \in Nat \ {0}
    /\ MinFailureLimit \in Nat \ {0}
    /\ StreamLen \in Nat /\ MaxLate \in Nat

VARIABLES
    wpc,        \* where Open, then the writing goroutine, is
    tries,      \* the failed tries of doControl in Open
    pos, todo,  \* bytes reported as written before this Write; len(p)
    upSeq, sizer, minFailures,
    record,     \* the record under way, and the length its ACK carries,
    answer,     \*     0 for any other answer
    lane,       \* the push lane
    cpc,        \* where Close is
    offered,    \* history: the furthest byte ever handed to a Write
    \* the server: the bytes and the records it took, the length of the last
    \* one, whether the session lives, and records still on the way
    applied, taken, lastLen, session, late

writer == <<tries, pos, todo, upSeq, sizer, minFailures, record, answer,
            offered>>
server == <<applied, taken, lastLen, session, late>>
vars == <<wpc, writer, lane, cpc, server>>

-----------------------------------------------------------------------------
Records == [seq : Nat, from : Nat, n : Nat \ {0}, size : Sizes]
NoRecord == [seq |-> 0, from |-> 0, n |-> 1, size |-> MinSize]

TypeOK ==
    /\ wpc \in {"opening", "unopened", "idle", "next", "do", "sent",
             "answered", "stopped"}
    /\ tries \in 0 .. ControlAttempts
    /\ pos \in Nat /\ todo \in Nat /\ upSeq \in Nat
    /\ sizer \in Sizers /\ minFailures \in 0 .. MinFailureLimit
    /\ record \in Records /\ answer \in Nat
    /\ lane \in [open : BOOLEAN, closed : BOOLEAN]
    /\ cpc \in {"open", "session", "lane", "done"}
    /\ offered \in Nat
    /\ applied \in Seq(Nat) /\ taken \in Nat /\ lastLen \in Nat
    /\ session \in {"none", "open", "closed"}
    /\ late \subseteq Records

Init ==
    /\ wpc = "opening" /\ tries = 0
    /\ pos = 0 /\ todo = 0 /\ upSeq = 0 /\ minFailures = 0
    /\ \E start \in Sizes : sizer = NewSizer(start)
    /\ record = NoRecord /\ answer = 0
    /\ lane = [open |-> FALSE, closed |-> FALSE]
    /\ cpc = "open" /\ offered = 0
    /\ applied = <<>> /\ taken = 0 /\ lastLen = 0
    /\ session = "none" /\ late = {}

\* An answer comes.  Lanes that are kept (reconnectEvery 0), used once (1) or
\* rotated are KeepsOpen = {TRUE}, {FALSE} and {TRUE, FALSE}.
AnswerKeeps == \E keep \in KeepsOpen : lane' = [lane EXCEPT !.open = keep]

-----------------------------------------------------------------------------
(* Open                                                                    *)

openKeeps == <<pos, todo, upSeq, sizer, minFailures, record, answer, offered,
               cpc, applied, taken, lastLen, late>>

\* OPENED, and the size bounded by what it says.
Opened ==
    /\ wpc = "opening"
    /\ session' = "open"
    /\ AnswerKeeps
    /\ wpc' = "idle"
    /\ tries' = 0
    /\ UNCHANGED openKeeps

\* doControl repeats a request that failed, which the server may have seen.
OpenTryFails ==
    /\ wpc = "opening"
    /\ session' \in {session, "open"}
    /\ LET last == tries + 1 = ControlAttempts IN
       /\ tries' = IF last THEN 0 ELSE tries + 1
       /\ wpc' = IF last THEN "unopened" ELSE "opening"
       /\ lane' = [open |-> FALSE, closed |-> last]
    /\ UNCHANGED openKeeps

\* Anything but OPENED ends Open at once.
OpenRefused ==
    /\ wpc = "opening"
    /\ wpc' = "unopened"
    /\ tries' = 0
    /\ lane' = [open |-> FALSE, closed |-> TRUE]
    /\ UNCHANGED <<openKeeps, session>>

-----------------------------------------------------------------------------
(* Write                                                                   *)

\* A caller hands over bytes; after an error it may go on with those that the
\* Write did not report as written.
BeginWrite ==
    /\ wpc = "idle"
    /\ \E len \in 1 .. StreamLen - pos :
           /\ todo' = len
           /\ offered' = Larger(offered, pos + len)
    /\ minFailures' = 0
    /\ wpc' = "next"
    /\ UNCHANGED <<tries, pos, upSeq, sizer, record, answer, lane, cpc, server>>

NextRecord ==
    /\ wpc = "next"
    /\ record' = [seq |-> upSeq, from |-> pos, size |-> sizer.current,
                  n |-> Smaller(sizer.current, todo)]
    /\ wpc' = "do"
    /\ UNCHANGED <<tries, pos, todo, upSeq, sizer, minFailures, answer, offered,
                   lane, cpc, server>>

\* Do takes the lane's mutex, dials unless the connection is kept, and sends.
Send ==
    /\ wpc = "do" /\ ~lane.closed
    /\ lane' = [lane EXCEPT !.open = TRUE]
    /\ wpc' = "sent"
    /\ UNCHANGED <<writer, cpc, server>>

\* The Write ends, with or without an error; the caller has its count.
Returns(where) ==
    /\ todo' = 0
    /\ minFailures' = 0
    /\ wpc' = where

\* Mutant of FailuresNow: a failure at the minimum is not counted.
FailuresForgotten(before, after) == 0

\* The failures in a row at the minimum, or at a size that cannot move.
FailuresNow(before, after) ==
    IF ~Adaptive \/ (after.current = before.current /\ after.current = MinSize)
    THEN minFailures + 1 ELSE 0

\* The branch for an error of Do.
Fault ==
    LET after == FailureReason(sizer, record.size)
        failures == FailuresNow(sizer, after)
    IN  /\ sizer' = after
        /\ record' = NoRecord /\ answer' = 0
        /\ IF failures >= MinFailureLimit
           THEN Returns("idle")
           ELSE /\ minFailures' = failures
                /\ wpc' = "next"
                /\ UNCHANGED todo
        /\ UNCHANGED <<tries, pos, upSeq, offered>>

\* The lane is closed, or its dial fails.
SendFails ==
    /\ wpc = "do" /\ ~lane.open
    /\ Fault
    /\ UNCHANGED <<lane, cpc, server>>

-----------------------------------------------------------------------------
(* The server: it takes each record once, in order, and answers a repeated *)
(* one with the length of what it took.                                    *)

Fresh(r) == session = "open" /\ r.seq = taken

Takes(r) ==
    IF Fresh(r)
    THEN /\ applied' = applied \o [i \in 1 .. r.n |-> r.from + i]
         /\ taken' = taken + 1
         /\ lastLen' = r.n
    ELSE UNCHANGED <<applied, taken, lastLen>>

\* Any answer but an ACK is 0 here: ERR, for instance since the session has
\* expired.
Serve ==
    /\ wpc = "sent"
    /\ Takes(record)
    /\ answer' = IF session = "open" /\ taken' = record.seq + 1 THEN lastLen' ELSE 0
    /\ wpc' = "answered"
    /\ UNCHANGED <<tries, pos, todo, upSeq, sizer, minFailures, record, offered,
                   lane, cpc, session, late>>

ServeLate ==
    /\ \E r \in late : Takes(r) /\ late' = late \ {r}
    /\ UNCHANGED <<wpc, writer, lane, cpc, session>>

-----------------------------------------------------------------------------
(* Write, after the transaction                                            *)

\* The connection fails, with the record taken, still under way, or lost.
AnswerLost ==
    /\ wpc \in {"sent", "answered"}
    /\ \/ UNCHANGED late
       \/ /\ wpc = "sent"
          /\ Cardinality(late) < MaxLate
          /\ late' = late \cup {record}
    /\ lane' = [lane EXCEPT !.open = FALSE]
    /\ Fault
    /\ UNCHANGED <<cpc, applied, taken, lastLen, session>>

ackKeeps == <<tries, offered, cpc, server>>

\* Mutant of Accepted: the answer is taken to be about the record just sent.
AcceptedAsSent == record.n

\* What the ACK says the server has, which a record repeated at another size
\* may not be.
Accepted == answer

\* Mutant of AckFits: an ACK of more than is left is believed.
AckFitsAny == answer > 0

AckFits == answer \in 1 .. todo

Acked ==
    /\ wpc = "answered"
    /\ AnswerKeeps
    /\ AckFits
    /\ upSeq' = upSeq + 1
    /\ pos' = pos + Accepted
    /\ sizer' = Success(sizer, record.size)
    /\ IF Accepted = todo
       THEN Returns("idle")
       ELSE /\ todo' = todo - Accepted
            /\ minFailures' = 0
            /\ wpc' = "next"
    /\ record' = NoRecord /\ answer' = 0
    /\ UNCHANGED ackKeeps

\* An error, or an ACK of more than this Write has left.
NotAcked ==
    /\ wpc = "answered"
    /\ AnswerKeeps
    /\ ~AckFits
    /\ Returns(IF answer = 0 THEN "stopped" ELSE "idle")
    /\ record' = NoRecord /\ answer' = 0
    /\ UNCHANGED <<upSeq, pos, sizer, ackKeeps>>

-----------------------------------------------------------------------------
(* Close                                                                   *)

BeginClose ==
    /\ cpc = "open" /\ wpc \notin {"opening", "unopened"}
    /\ cpc' = "session"
    /\ UNCHANGED <<wpc, writer, lane, server>>

\* CCLOSE on a lane of its own, tried five times; it may fail all the same.
CloseSession ==
    /\ cpc = "session"
    /\ session' \in {session, "closed"}
    /\ cpc' = "lane"
    /\ UNCHANGED <<wpc, writer, lane, applied, taken, lastLen, late>>

\* Closing the push lane waits for the transaction on it.
CloseLane ==
    /\ cpc = "lane" /\ wpc \notin {"sent", "answered"}
    /\ lane' = [open |-> FALSE, closed |-> TRUE]
    /\ cpc' = "done"
    /\ UNCHANGED <<wpc, writer, server>>

\* The target closed, or the session expired.
SessionEnds ==
    /\ session = "open"
    /\ session' = "closed"
    /\ UNCHANGED <<wpc, writer, lane, cpc, applied, taken, lastLen, late>>

-----------------------------------------------------------------------------
WriteStep ==
    NextRecord \/ Send \/ SendFails \/ Serve \/ AnswerLost \/ Acked \/ NotAcked

OpenStep == Opened \/ OpenTryFails \/ OpenRefused

CloseStep == CloseSession \/ CloseLane

Next ==
    \/ OpenStep
    \/ BeginWrite \/ WriteStep
    \/ BeginClose \/ CloseStep
    \/ ServeLate \/ SessionEnds

Spec == Init /\ [][Next]_vars

\* Every wait inside Do is bounded by a deadline, so that Open and Write run
\* on; Close gets the lane's mutex in turn.
Fairness == WF_vars(OpenStep \/ WriteStep) /\ SF_vars(CloseStep)

FairSpec == Spec /\ Fairness

-----------------------------------------------------------------------------
(* Safety                                                                  *)

\* Whatever is lost, late or repeated at another size, the server gets the
\* caller's bytes in order and once, and Write reports only bytes that the
\* server has; also when the caller goes on after a Write that has failed.
Pipe == INSTANCE BytePipe WITH delivered <- applied, released <- pos
PipeSpec == Pipe!Spec

-----------------------------------------------------------------------------
(* Liveness                                                                *)

\* Open, Write and Close return: a Write that is caught by Close gives up,
\* since its failures shrink the record to the minimum and are counted there.
CallsReturn ==
    /\ (wpc \in {"opening", "next", "do", "sent", "answered"}) ~>
           (wpc \in {"unopened", "idle", "stopped"})
    /\ (cpc # "open") ~> (cpc = "done")
=============================================================================
