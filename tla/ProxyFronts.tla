---------------------------- MODULE ProxyFronts ----------------------------
(***************************************************************************)
(* The two local proxies on top of the SSH manager and the wire selector:  *)
(* the accept loops with their connection slots, one session per accepted  *)
(* connection, the relay of a stream (relayPair) and the goroutines of a   *)
(* SOCKS UDP ASSOCIATE.  Main warms the manager up before it listens.      *)
(*                                                                         *)
(* A session of the SOCKS5 front (socks5.go) reaches its target over a     *)
(* channel of the SSH client using[s], and breaks with it; one of the HTTP *)
(* front (main.go) over a tunnel of its own.  What the two ends say is     *)
(* left out; that they close is not.                                       *)
(***************************************************************************)
EXTENDS SSHManager

CONSTANTS
    Sessions,    \* connections made to the fronts
    Loads,       \* the kinds of session considered together
    Limits       \* values of -max-connections

Kinds == {"connect", "udp", "page"}

ASSUME FrontsAssumption ==
    /\ Callers = Sessions \cup {Warmer} /\ Warmer \notin Sessions
    /\ Loads \subseteq [Sessions -> Kinds]
    /\ Limits \subseteq Nat

VARIABLES
    kind, limit,   \* what the sessions ask for; -max-connections
    listening,     \* has main begun to listen: "no", "yes", or "exited"
    slots,         \* slots[f]: len(slots) of front f
    at,            \* at[s]: where session s is
    local,         \* local[s]: its client is connected
    remote,        \* remote[s]: its channel or tunnel is open on this side
    over           \* over[s]: which of its two further goroutines have ended

fronts == <<kind, limit, listening, slots, at, local, remote, over>>
vars == <<manager, fronts>>

-----------------------------------------------------------------------------
Front(s) == IF kind[s] = "page" THEN "http" ELSE "socks"
Fronts == {"http", "socks"}

\* The capacity of slots; only startSOCKS5Proxy raises it to one.
Capacity(f) == IF f = "socks" /\ limit < 1 THEN 1 ELSE limit

TypeOK ==
    /\ ManagerTypeOK
    /\ listening \in {"no", "yes", "exited"}
    /\ \A f \in Fronts : slots[f] \in 0 .. Capacity(f)
    /\ at \in [Sessions -> {"away", "negotiate", "dial", "relay", "udp", "end",
                            "gone", "refused"}]
    /\ local \in [Sessions -> BOOLEAN]
    /\ remote \in [Sessions -> BOOLEAN]
    /\ over \in [Sessions -> SUBSET {"up", "down"}]

Init ==
    /\ ManagerInit
    /\ kind \in Loads /\ limit \in Limits
    /\ listening = "no" /\ slots = [f \in Fronts |-> 0]
    /\ at = [s \in Sessions |-> "away"]
    /\ local = [s \in Sessions |-> FALSE]
    /\ remote = [s \in Sessions |-> FALSE]
    /\ over = [s \in Sessions |-> {}]

Moves(s, where) == at' = [at EXCEPT ![s] = where]

\* Main listens once the manager has been warmed up, and exits otherwise.
WarmedUp ==
    /\ listening = "no" /\ pc[Warmer] \in {"ok", "failed"}
    /\ listening' = IF pc[Warmer] = "ok" THEN "yes" ELSE "exited"
    /\ Goes(Warmer, "idle")
    /\ using' = [using EXCEPT ![Warmer] = 0]
    /\ UNCHANGED <<client, attempt, conn, keep, mpc, leaving, pin,
                   kind, limit, slots, at, local, remote, over>>

-----------------------------------------------------------------------------
(* The accept loops                                                        *)

acceptKeeps == <<manager, kind, limit, listening, remote, over>>

\* Mutant of HasSlot: the select has no default.
HasSlotAlways(f) == TRUE

HasSlot(f) == slots[f] < Capacity(f)

Accept(s) ==
    /\ listening = "yes" /\ at[s] = "away"
    /\ HasSlot(Front(s))
    /\ slots' = [slots EXCEPT ![Front(s)] = @ + 1]
    /\ local' = [local EXCEPT ![s] = TRUE]
    /\ Moves(s, "negotiate")
    /\ UNCHANGED acceptKeeps

Refuse(s) ==
    /\ listening = "yes" /\ at[s] = "away"
    /\ ~HasSlot(Front(s))
    /\ Moves(s, "refused")
    /\ UNCHANGED <<slots, local, acceptKeeps>>

\* The client of a session closes its connection.
LocalLeaves(s) ==
    /\ local[s] /\ at[s] \in {"negotiate", "dial", "relay", "udp"}
    /\ local' = [local EXCEPT ![s] = FALSE]
    /\ UNCHANGED <<slots, at, acceptKeeps>>

-----------------------------------------------------------------------------
(* handleSOCKS5 and handleLocal, up to the relay                           *)

sessionKeeps == <<kind, limit, listening, slots, local, over>>
pcKeeps == <<client, attempt, conn, keep, mpc, leaving, pin>>

\* The request is read; a UDP association is answered here, before its dial.
Negotiated(s) ==
    /\ at[s] = "negotiate" /\ local[s]
    /\ Moves(s, "dial")
    /\ pc' = IF kind[s] = "page" THEN pc ELSE [pc EXCEPT ![s] = "lock"]
    /\ UNCHANGED <<using, pcKeeps, remote, sessionKeeps>>

\* A request that makes no sense, or an end of the connection; only the HTTP
\* front also sets a deadline.
NegotiationFails(s) ==
    /\ at[s] = "negotiate"
    /\ Moves(s, "end")
    /\ UNCHANGED <<manager, remote, sessionKeeps>>

\* DialTCP or DialUDPGW returns.
DialOK(s) ==
    /\ at[s] = "dial" /\ pc[s] = "ok"
    /\ Moves(s, IF kind[s] = "connect" THEN "relay" ELSE "udp")
    /\ remote' = [remote EXCEPT ![s] = TRUE]
    /\ Goes(s, "idle")
    /\ UNCHANGED <<using, pcKeeps, sessionKeeps>>

\* The dial has failed, or the reply to the client that has left; the channel
\* is closed again.
DialFailed(s) ==
    /\ at[s] = "dial"
    /\ \/ pc[s] = "failed"
       \/ (pc[s] = "ok" /\ kind[s] = "connect" /\ ~local[s])
    /\ Moves(s, "end")
    /\ Goes(s, "idle")
    /\ using' = [using EXCEPT ![s] = 0]
    /\ UNCHANGED <<pcKeeps, remote, sessionKeeps>>

\* wires.dial and the first write to the tunnel, for the HTTP front.
PageDialled(s) ==
    /\ at[s] = "dial" /\ kind[s] = "page"
    /\ \/ Moves(s, "relay") /\ remote' = [remote EXCEPT ![s] = TRUE]
       \/ Moves(s, "end") /\ UNCHANGED remote
    /\ UNCHANGED <<manager, sessionKeeps>>

-----------------------------------------------------------------------------
(* relayPair, and the goroutines of handleSOCKSUDPAssociate                *)

relayKeeps == <<manager, kind, limit, listening, slots, local>>

\* Reading or writing the channel fails.
Broken(s) ==
    \/ ~remote[s]
    \/ using[s] # 0 /\ conn[using[s]] \in {"dead", "closed"}

Ends(s, which) ==
    /\ which \notin over[s]
    /\ over' = [over EXCEPT ![s] = @ \cup {which}]

\* The copy to the target ends when the client ends its side or leaves, or when
\* a write fails.  CloseWrite then tells the target, on a channel only: a
\* tunnel has none.
UpEnds(s) ==
    /\ at[s] = "relay"
    /\ Ends(s, "up")
    /\ UNCHANGED <<at, remote, relayKeeps>>

\* The copy from the target ends when the target ends its side, when the
\* channel breaks, or when a write to a client that has left fails.
DownEnds(s) ==
    /\ at[s] = "relay"
    /\ Ends(s, "down")
    /\ UNCHANGED <<at, remote, relayKeeps>>

\* Both directions have reported.
RelayOver(s) == over[s] = {"up", "down"}

RelayEnds(s) ==
    /\ at[s] = "relay" /\ RelayOver(s)
    /\ Moves(s, "end")
    /\ UNCHANGED <<over, remote, relayKeeps>>

\* Mutant of ClosesAll: the channel is left open.
ClosesNothing(s) == UNCHANGED remote

\* closeAll: the UDP socket and the channel, which ends the other goroutines.
ClosesAll(s) == remote' = [remote EXCEPT ![s] = FALSE]

\* A UDP association has a reader of the channel ("down") and a reader of the
\* control connection ("up"), which may outlive the session.
Associated(s) ==
    /\ kind[s] = "udp"
    /\ at[s] \in {"udp", "end", "gone"} /\ using[s] # 0

\* The gateway ends the channel, or the channel breaks or is closed.
GatewayEnds(s) ==
    /\ Associated(s)
    /\ Ends(s, "down")
    /\ ClosesAll(s)
    /\ UNCHANGED <<at, relayKeeps>>

\* The association lasts as long as its control connection.
ControlEnds(s) ==
    /\ Associated(s)
    /\ ~local[s]
    /\ Ends(s, "up")
    /\ ClosesAll(s)
    /\ UNCHANGED <<at, relayKeeps>>

\* The loop on the UDP socket ends with it, or with a datagram that cannot be
\* passed on.
AssociationEnds(s) ==
    /\ at[s] = "udp"
    /\ Broken(s)
    /\ Moves(s, "end")
    /\ ClosesAll(s)
    /\ UNCHANGED <<over, relayKeeps>>

\* Mutant of Releases: the slot is not given back.
ReleasesNothing(s) == UNCHANGED slots

Releases(s) == slots' = [slots EXCEPT ![Front(s)] = @ - 1]

\* The deferred calls: the channel, the slot and the connection.
EndSession(s) ==
    /\ at[s] = "end"
    /\ remote' = [remote EXCEPT ![s] = FALSE]
    /\ local' = [local EXCEPT ![s] = FALSE]
    /\ Releases(s)
    /\ Moves(s, "gone")
    /\ using' = [using EXCEPT ![s] = IF kind[s] = "udp" THEN @ ELSE 0]
    /\ UNCHANGED <<pc, pcKeeps, kind, limit, listening, over>>

-----------------------------------------------------------------------------
SessionStep(s) ==
    \/ Negotiated(s) \/ NegotiationFails(s)
    \/ DialOK(s) \/ DialFailed(s) \/ PageDialled(s)
    \/ UpEnds(s) \/ DownEnds(s) \/ RelayEnds(s)
    \/ GatewayEnds(s) \/ ControlEnds(s) \/ AssociationEnds(s)
    \/ EndSession(s)

Next ==
    \/ ManagerNext /\ UNCHANGED fronts
    \/ WarmedUp
    \/ \E s \in Sessions :
           Accept(s) \/ Refuse(s) \/ LocalLeaves(s) \/ SessionStep(s)

Spec == Init /\ [][Next]_vars

\* A session runs on whenever it is not waiting for its client or its target:
\* the end of a connection or of a channel is noticed, a target that is told
\* the end of its stream ends its own, everything else is the code's.
RunsOn(s) ==
    /\ SessionStep(s)
    /\ at[s] = "negotiate" => ~local[s] \/ kind[s] = "page"
    /\ at[s] = "relay" =>
           LET ended == over'[s] \ over[s] IN
           /\ "up" \in ended => ~local[s]
           /\ "down" \in ended =>
                  Broken(s) \/ ("up" \in over[s] /\ kind[s] = "connect")
    /\ at[s] = "udp" => Broken(s) \/ ~local[s]

\* The last client that the bound allows has been connected.
OutOfClients(c) == ConnectFails(c) /\ \A n \in Clients : conn[n] # "none"

\* The goroutines of the manager run on too.  Nothing makes a handshake fail or
\* hang; an SSH server that is connected answers, or its connection ends.
Fairness ==
    /\ \A s \in Sessions :
           WF_vars(\/ RunsOn(s)
                   \/ (CallerStep(s) \/ OutOfClients(s)) /\ UNCHANGED fronts)
    /\ WF_vars(\/ (CallerStep(Warmer) \/ CloseStep) /\ UNCHANGED fronts
               \/ (\E n \in Clients : KeepStep(n)) /\ UNCHANGED fronts
               \/ WarmedUp)

FairSpec == Spec /\ Fairness

-----------------------------------------------------------------------------
(* Safety                                                                  *)

\* A client that is still connected, or broken and not closed, is the one in use
\* or the one Close has taken.
Owned == \A n \in Clients : conn[n] \in {"up", "dead"} => n \in {client, leaving}

\* No SSH connection is open that nobody would close, whoever connects,
\* invalidates and closes at the same time; and once Close has returned none is
\* open and none comes back, not even from a connect that was under way.
NoClientLost ==
    /\ Owned
    /\ mpc = "done" => /\ client = 0
                       /\ \A n \in Clients : conn[n] \notin {"up", "dead"}

\* Nobody closes a client that works for what has happened to another one:
\* Close closes the one it has taken, and a dial the one that it got itself and
\* that has just failed it.  A keepalive never does, nor a dial or a keepalive
\* that failed on a client which has been replaced meanwhile.  (A dial may fail
\* on a client that works, and then closes it under everybody who uses it.)
SuccessorKept ==
    [][\A n \in Clients : conn[n] = "up" /\ conn'[n] = "closed" =>
          \/ mpc = "closing" /\ mpc' = "done" /\ leaving = n
          \/ \E c \in Callers :
                 pc[c] = "invalidate" /\ pc'[c] # "invalidate" /\ using[c] = n]_vars

\* The slots taken are those of the sessions that have not ended: no path out
\* of a session keeps its slot or gives it back twice.
SlotsAccounted ==
    \A f \in Fronts :
        slots[f] = Cardinality({s \in Sessions :
                       Front(s) = f /\ at[s] \notin {"away", "gone", "refused"}})

-----------------------------------------------------------------------------
(* Liveness                                                                *)

Stuck == \E c \in Callers : pc[c] = "stuck"

\* Unless a handshake hangs, which holds the mutex, every dial and every Close
\* returns; and in any case a SOCKS session with a channel ends once its client
\* leaves, with all its goroutines.
CallsReturn ==
    /\ \A s \in Sessions : (at[s] = "dial") ~> (at[s] # "dial" \/ Stuck)
    /\ (mpc = "lock") ~> (mpc = "done" \/ Stuck)
    /\ \A s \in Sessions :
           (Front(s) = "socks" /\ at[s] \in {"relay", "udp"} /\ ~local[s]) ~>
               (at[s] = "gone" /\ over[s] = {"up", "down"})
=============================================================================
