----------------------------- MODULE SSHManager -----------------------------
(***************************************************************************)
(* The SSH tunnel manager (ssh_tunnel.go): one SSH client shared by every  *)
(* connection of the proxy.  Whoever finds no client connects one, with    *)
(* the manager's mutex held from the dial of the carrier to the end of the *)
(* handshake; a dial that fails on it invalidates it, unless the server    *)
(* has refused the target; a keepalive watches each client; Close takes    *)
(* the client away.                                                        *)
(*                                                                         *)
(* Clients are numbered in the order they are connected; 0 is nil.         *)
(***************************************************************************)
EXTENDS Integers, FiniteSets

CONSTANTS
    Callers,      \* the goroutines that call DialTCP or Warmup
    Warmer,       \* the one that calls Warmup, before there are others
    Keys,         \* host keys a server may present
    MaxClients    \* bound: clients ever connected

ASSUME ManagerAssumption ==
    /\ Warmer \in Callers
    /\ Keys # {}
    /\ MaxClients \in Nat \ {0}

VARIABLES
    client,           \* m.client
    pc,               \* pc[c]: where caller c is
    attempt,          \* attempt[c]: the attempts of its DialTCP so far
    using,            \* using[c]: the client it has from getClient
    conn,             \* conn[n]: the state of client n
    keep,             \* keep[n]: where the keepalive of client n is
    mpc, leaving,     \* where Close is, and the client it has taken
    pin               \* the pin file

manager == <<client, pc, attempt, using, conn, keep, mpc, leaving, pin>>

-----------------------------------------------------------------------------
Clients == 1 .. MaxClients
Attempts == 2
NoPin == "none"        \* no pin file
BadPin == "unusable"   \* a pin file that was not written to its end

ManagerTypeOK ==
    /\ client \in {0} \cup Clients
    /\ pc \in [Callers -> {"idle", "lock", "connecting", "stuck", "dialing",
                           "invalidate", "ok", "failed"}]
    /\ attempt \in [Callers -> 0 .. Attempts - 1]
    /\ using \in [Callers -> {0} \cup Clients]
    /\ conn \in [Clients -> {"none", "up", "dead", "closed"}]
    /\ keep \in [Clients -> {"none", "wait", "invalidate", "ended"}]
    /\ mpc \in {"open", "lock", "closing", "done"}
    /\ leaving \in {0} \cup Clients
    /\ pin \in {NoPin, BadPin} \cup Keys

\* newSSHTunnelManager, and the Warmup that follows it.
ManagerInit ==
    /\ client = 0
    /\ pc = [c \in Callers |-> IF c = Warmer THEN "lock" ELSE "idle"]
    /\ attempt = [c \in Callers |-> 0]
    /\ using = [c \in Callers |-> 0]
    /\ conn = [n \in Clients |-> "none"]
    /\ keep = [n \in Clients |-> "none"]
    /\ mpc = "open" /\ leaving = 0
    /\ pin = NoPin

\* m.mu: only a connect holds it over more than one step.
Connecting(c) == pc[c] \in {"connecting", "stuck"}
Free == \A c \in Callers : ~Connecting(c)

\* Mutant of closed: it is set when Close has closed the client.
closedLate == mpc = "done"

\* m.closed
closed == mpc \in {"closing", "done"}

Goes(c, where) == pc' = [pc EXCEPT ![c] = where]

-----------------------------------------------------------------------------
(* getClient and connectLocked                                             *)

\* The caller has its client: Warmup returns, DialTCP dials the target on it.
Has(c, n) ==
    /\ using' = [using EXCEPT ![c] = n]
    /\ Goes(c, IF c = Warmer THEN "ok" ELSE "dialing")

connectKeeps == <<attempt, mpc, leaving>>

GetClosed(c) ==
    /\ pc[c] = "lock" /\ Free
    /\ closed
    /\ Goes(c, "failed")
    /\ attempt' = [attempt EXCEPT ![c] = 0]
    /\ using' = [using EXCEPT ![c] = 0]
    /\ UNCHANGED <<client, conn, keep, mpc, leaving, pin>>

GetClient(c) ==
    /\ pc[c] = "lock" /\ Free
    /\ ~closed /\ client # 0
    /\ Has(c, client)
    /\ UNCHANGED <<client, conn, keep, pin, connectKeeps>>

\* Mutant of Unconnected: a client that is there is replaced.
UnconnectedAlways == TRUE

Unconnected == client = 0

\* The carrier is dialled and the handshake begun, with the mutex held.
BeginConnect(c) ==
    /\ pc[c] = "lock" /\ Free
    /\ ~closed /\ Unconnected
    /\ Goes(c, "connecting")
    /\ using' = [using EXCEPT ![c] = 0]
    /\ UNCHANGED <<client, conn, keep, pin, connectKeeps>>

\* hostKeyCallback: the first key is pinned, and no other one accepted.
Expected(key) == pin \in {NoPin, key}

\* The client is stored and its keepalive started.
Connected(c, key) ==
    /\ pc[c] = "connecting"
    /\ Expected(key)
    /\ \E n \in Clients :
           /\ conn[n] = "none"
           /\ \A m \in 1 .. n - 1 : conn[m] # "none"
           /\ client' = n
           /\ conn' = [conn EXCEPT ![n] = "up"]
           /\ keep' = [keep EXCEPT ![n] = "wait"]
           /\ Has(c, n)
    /\ pin' = key
    /\ UNCHANGED connectKeeps

\* The dial, the handshake or the authentication fails.  The carrier is closed
\* and the caller gets the error, without a second attempt.  The key is pinned
\* before the password is sent; a write of the file that fails may leave one
\* that matches no key.
ConnectFails(c) ==
    /\ Connecting(c)
    /\ Goes(c, "failed")
    /\ attempt' = [attempt EXCEPT ![c] = 0]
    /\ pin' \in {pin} \cup (IF pin = NoPin THEN {BadPin} \cup Keys ELSE {})
    /\ UNCHANGED <<client, using, conn, keep, mpc, leaving>>

\* The server accepts the carrier and never answers the handshake, which has
\* no timeout of its own.
HandshakeHangs(c) ==
    /\ pc[c] = "connecting"
    /\ Goes(c, "stuck")
    /\ UNCHANGED <<client, using, conn, keep, pin, connectKeeps>>

-----------------------------------------------------------------------------
(* DialTCP                                                                 *)

\* The body of invalidate, under the mutex.
\* Mutant of Invalidated: whatever client is there is closed.
InvalidatedAny(n) ==
    /\ conn' = IF client # 0 THEN [conn EXCEPT ![client] = "closed"] ELSE conn
    /\ client' = 0

Invalidated(n) ==
    IF client = n
    THEN /\ client' = 0
         /\ conn' = [conn EXCEPT ![n] = "closed"]
    ELSE UNCHANGED <<client, conn>>

dialKeeps == <<keep, mpc, leaving, pin>>

\* A channel to the target.
ChannelOpens(c) ==
    /\ pc[c] = "dialing"
    /\ conn[using[c]] = "up"
    /\ Goes(c, "ok")
    /\ attempt' = [attempt EXCEPT ![c] = 0]
    /\ UNCHANGED <<client, using, conn, dialKeeps>>

\* An OpenChannelError: the client is healthy, only this target failed.
Rejected(c) ==
    /\ pc[c] = "dialing"
    /\ conn[using[c]] = "up"
    /\ Goes(c, "failed")
    /\ attempt' = [attempt EXCEPT ![c] = 0]
    /\ using' = [using EXCEPT ![c] = 0]
    /\ UNCHANGED <<client, conn, dialKeeps>>

\* Any other error.  The client is broken or was closed, or it works and the
\* target is none: client.Dial splits host and port again, which fails for a
\* SOCKS domain with a bracket, that nothing has looked at before.
OtherError(c) ==
    /\ pc[c] = "dialing"
    /\ Goes(c, "invalidate")
    /\ UNCHANGED <<client, attempt, using, conn, dialKeeps>>

\* Two attempts, each followed by the invalidation of the client it used.
DialInvalidates(c) ==
    /\ pc[c] = "invalidate" /\ Free
    /\ Invalidated(using[c])
    /\ IF attempt[c] + 1 < Attempts
       THEN attempt' = [attempt EXCEPT ![c] = @ + 1] /\ Goes(c, "lock")
       ELSE attempt' = [attempt EXCEPT ![c] = 0] /\ Goes(c, "failed")
    /\ using' = [using EXCEPT ![c] = 0]
    /\ UNCHANGED dialKeeps

-----------------------------------------------------------------------------
(* keepalive                                                               *)

keepKeeps == <<pc, attempt, using, mpc, leaving, pin>>

\* An answer: it goes on as long as its client is the one in use.
KeepaliveAnswered(n) ==
    /\ keep[n] = "wait" /\ conn[n] = "up" /\ Free
    /\ client # n \/ closed
    /\ keep' = [keep EXCEPT ![n] = "ended"]
    /\ UNCHANGED <<client, conn, keepKeeps>>

KeepaliveFails(n) ==
    /\ keep[n] = "wait"
    /\ conn[n] \in {"dead", "closed"}
    /\ keep' = [keep EXCEPT ![n] = "invalidate"]
    /\ UNCHANGED <<client, conn, keepKeeps>>

KeepaliveInvalidates(n) ==
    /\ keep[n] = "invalidate" /\ Free
    /\ Invalidated(n)
    /\ keep' = [keep EXCEPT ![n] = "ended"]
    /\ UNCHANGED keepKeeps

-----------------------------------------------------------------------------
(* Close                                                                   *)

closeKeeps == <<pc, attempt, using, keep, pin>>

BeginClose ==
    /\ mpc = "open"
    /\ mpc' = "lock"
    /\ UNCHANGED <<client, conn, leaving, closeKeeps>>

\* The client is taken under the mutex, and closed after it.
CloseTakes ==
    /\ mpc = "lock" /\ Free
    /\ leaving' = client
    /\ client' = 0
    /\ mpc' = "closing"
    /\ UNCHANGED <<conn, closeKeeps>>

EndClose ==
    /\ mpc = "closing"
    /\ conn' = IF leaving = 0 THEN conn
               ELSE [conn EXCEPT ![leaving] = "closed"]
    /\ leaving' = 0
    /\ mpc' = "done"
    /\ UNCHANGED <<client, closeKeeps>>

-----------------------------------------------------------------------------
(* The other end                                                           *)

\* The carrier of a client breaks, or the server ends it.
ClientDies(n) ==
    /\ conn[n] = "up"
    /\ conn' = [conn EXCEPT ![n] = "dead"]
    /\ UNCHANGED <<client, pc, attempt, using, keep, mpc, leaving, pin>>

-----------------------------------------------------------------------------
CallerStep(c) ==
    \/ GetClosed(c) \/ GetClient(c) \/ BeginConnect(c)
    \/ \E key \in Keys : Connected(c, key)
    \/ ChannelOpens(c) \/ Rejected(c) \/ OtherError(c) \/ DialInvalidates(c)

KeepStep(n) ==
    KeepaliveAnswered(n) \/ KeepaliveFails(n) \/ KeepaliveInvalidates(n)

CloseStep == CloseTakes \/ EndClose

ManagerNext ==
    \/ \E c \in Callers : CallerStep(c) \/ ConnectFails(c) \/ HandshakeHangs(c)
    \/ \E n \in Clients : KeepStep(n) \/ ClientDies(n)
    \/ BeginClose \/ CloseStep
=============================================================================
