# TLA+ verification of DragonTCP-Client

This directory holds a TLA+ model of the client in this repository, the TLC
configurations that check it on small instances, and TLAPS proofs of its main
safety properties for every value of the constants. Line numbers are those of
the sources beside it; `PROJECT.json` maps every definition to the lines it
models.

## 1. The system

The program is a local HTTP or SOCKS5 proxy. Each connection it accepts is
relayed through a *tunnel*: a `net.Conn` made of many short requests to a
server, over physical TCP connections that a hostile path may break, delay or
limit in record size. Three wire formats implement the tunnel (B, BP and X),
and a selector picks one. In SSH mode one tunnel carries an SSH connection and
the proxied flows are channels of it.

| Component | State | Operations | Interacts with |
|---|---|---|---|
| adaptive sizer (`chunk.go`, twin in `internal/xorchunk`) | size in use, learned `good`/`bad`, two counters, a mutex | `Current`, `Success`, `FailureReason` | one for each direction of a B or BP tunnel; the pollers of an X tunnel share one |
| request lane (`chunk.go`) | one reusable connection, its request count, the rotation in force, `closed`, a mutex | `ensureLocked`, `single`, `download`, `Close` | dials the server; used by both directions and by Close |
| B tunnel, upload (`chunk.go`) | `upOffset`, local record size and failure count, `dead` | `Write`, `Close` | sizer, upload lane, server session |
| B tunnel, download (`chunk.go`) | `readBuf`, `downloadOffset`, `consumedOffset`, `eof`, `pipeline`, `dead` | `Read`, `fillReadBuffer`, `Close` | sizer, download lane, server session |
| B tunnel, opening (`chunk.go`) | session id, initial sizes | `openChunkTunnel` | calibration, lane |
| BP tunnel (`bp.go`) | as B, with `lastAck` and separate ACK requests | `openBPTunnel`, `Read`, `Write`, `Close` | sizer, lanes |
| X tunnel (`internal/xorchunk/chunk.go`) | push lane, sequence of the record; pollers, results channel, reassembly map, final sequence | `Open`, `Write`, pollers, `Read`, `Close` | sizer, server |
| calibration (`chunk.go`, twin in `internal/xorchunk`) | the bracket of a search; one cached profile | probes, two searches, `getPathProfile` | selector, opening |
| wire selector (`wireselect.go`, `main.go`) | the endpoint, the choice that is kept, the channel of probe results | scan of the endpoints, concurrent probes, `prepare`, `mode` | calibration, all three wires |
| SSH carrier (`ssh_carrier.go`) | bounded queue, `closing`, first error, a condition variable | `Write`, write loop, `Close` | a tunnel, the SSH client |
| SSH manager (`ssh_tunnel.go`) | the shared client, `closed`, a mutex, the pin file | `Warmup`, `DialTCP`, `invalidate`, keepalive, `Close` | carrier, tunnel |
| relay and slots (`main.go`, `socks5.go`, `internal/protocol`) | a semaphore of slots per front, two copy goroutines | accept, `relayPair` | tunnel |
| SOCKS5, HTTP, UDPGW (`socks5.go`, `main.go`) | per connection; three goroutines of a UDP association | parse, answer, relay | manager, relay |
| framing, masks, request ids (`internal/wire`), covers (`internal/cover`), XOR kernels (`internal/protocol`) | a pool of ids | encode, decode | every wire |

What is hard in it, and what each part must get right:

* **Retries.** A request may have been processed although its answer was lost.
  `single` repeats it once on a new connection, `Write` repeats it at another
  size, and the abandoned copy may still arrive. The server's stream must be
  the caller's bytes, once each, in order. A *timeout* must never be retried.
* **Batches.** A download batch may break anywhere; what was decoded before is
  dropped or kept depending on how it broke, and offset, keystream position and
  acknowledgement must all agree with the choice.
* **Close against Read and Write.** `Close` comes from another goroutine, waits
  for the same mutexes, sends a request of its own, and must leave nothing open
  even when the other call is between two attempts.
* **Adaptation.** The controller must neither leave its bracket, nor stick below
  a size that passes, nor retry one that cannot; the pollers of an X tunnel share
  one, and report outcomes of sizes that have been moved meanwhile.
* **Endings.** Calls that retry must end, by an answer, an error at the minimum
  size, or Close.
* **The carrier.** One condition variable serves the loop and the writers; a lost
  wake-up hangs SSH mode, and a Close must not cut off what was queued.
* **The X pollers.** They claim, fetch and acknowledge the records of one stream
  concurrently, through a channel with a bound; the slowest must not lose its
  record to an acknowledgement or to the end of the stream, and Close must get
  all of them out.
* **One SSH client for everybody.** A connect holds the manager's mutex from the
  dial to the end of the handshake; a dial or a keepalive that found its client
  broken may act after another has replaced it; Close may come at any time. No
  client may be left open, and no working one closed for what has happened to
  another. (A dial that fails on a working client does close it, whatever the
  error was, unless it is a channel rejection.)
* **Slots.** A session leaves on many paths, a UDP association from three
  goroutines; each gives its slot back, once.
* **Racing probes.** The first success fixes the wire for good while the other
  probes still run; a failed detection must leave nothing behind, and no probe
  may block for ever on a result nobody wants.
* **Learning the sizes.** A probe may fail for another reason than its size, and
  a timeout proves nothing; the cache holds one profile while callers use
  several wires, its key tells masks apart but not B from BP, and BP is sized by
  probes of B.

`PROJECT.json` lists these as hazards, each at its line, with the properties
that cover it.

## 2. Modules

```
SizerOps            the size controller, as pure operators   TunnelLemmas
  AdaptiveSizer          shared by workers
    AdaptiveSizerPath    on a path with a limit              SizingProofs
LaneOps             the request lane, as pure operators      TunnelLemmas
BytePipe            what each direction of a tunnel promises (abstract)

SizerOps, LaneOps
  ChunkUpload            B wire, Write and Close  -> BytePipe  ChunkUploadProofs
  ChunkDownload          B wire, Read and Close   -> BytePipe  ChunkDownloadProofs
  BPTunnel               BP wire, all of it -> BytePipe, twice BPTunnelProofs
SizerOps
  XorPull                X wire, receiving half   -> BytePipe  XorPullProofs
  XorPush                X wire, opening, sending -> BytePipe  SizingProofs
SSHCarrier          the send buffer under SSH     -> BytePipe  SSHProofs
SSHManager          the shared SSH client
  ProxyFronts            the two proxies, their slots and sessions on top of it
                                                             SSHProofs
Calibration         the search for a record size, as pure operators
  PathSetup              endpoints, selector, calibration, cache  PathSetupProofs
```

An indented module EXTENDS the one above it, `->` is a refinement checked as a
property; in the last column is the module that holds the proofs. `TunnelLemmas`
has the lemmas about the operators that several of these cite. Each `MC...`
module is the instance of the module it is named after. `SizingProofs` and
`SSHProofs` extend two components each; so `AdaptiveSizer` and `SSHCarrier` have
names of their own for what each module has: `SizerSpec`, `SizerTypeOK`,
`CarrierSpec`, `CarrierTypeOK`, `CarrierCallsReturn` and so on. The controller
that the workers of `AdaptiveSizer` share is `tuner`.

**SizerOps** is the controller as pure operators on a record: `Success` and
`FailureReason` are the two methods, `Grow`/`GrowTarget`/`GrowAfter` and
`Shrink`/`ShrinkTo`/`ShrinkTarget` their parts. The constants 32, 64 and 8 of
the code are parameters (`GrowFloor`, `NearGap`, `SlowFactor`), so the model
covers the X twin too, which has other values.

**AdaptiveSizer** shares one controller between workers: a worker reads
`Current()` under the mutex (`Begin`), runs its record with no lock held, and
reports later (`ReportSuccess`, `ReportFailure`; a timeout is not reported,
`ReportTimeout`), when the size may have moved.

**AdaptiveSizerPath** puts it on a path that carries records up to a limit,
which is the carrier `docs/adaptive-chunk.md` describes; the limit may move.

**LaneOps** is the request lane as pure operators: `Dialled`, `Reusable`,
`Answered` (count and rotate), `Failed` (discard, and learn single use in the
auto mode), `Shut`.

**ChunkUpload** is `Write`, `single` and `Close` as threads of control.

| Model | Code |
|---|---|
| `wpc` idle / next / single / result / stopped | between Writes / top of the loop / inside `single` / `single` has returned / the Write returned an error |
| `pos`, `todo` | bytes acknowledged to the caller so far / `len(p)` |
| `upOffset`, `size`, `minFailures`, `sizer`, `dead` | the same names |
| `call` | the request in progress: who holds the lane's mutex, the attempt, the step inside `single`; `Free` when the mutex is free |
| `lane` | the upload `requestLane` |
| `cpc` | where `Close` is: before, the CLOSE request, waiting to shut the lanes, done |
| `applied`, `session`, `orphans` | the server: bytes taken, session, requests of abandoned connections still under way |

Each action is the code between two points where another goroutine or the
network can act: `StartUpload` (read the size, take the mutex), `Dial`/
`DialFails`, `Send`/`SendFails`, `Receive`/`ReceiveFails`, then one action per
outcome of the loop body (`WriteAcked`, `WriteFailed`, `WriteTimedOut`,
`WriteRefused`). A record carries both the offset the client *claims* (`seq`)
and the place its bytes really come from (`from`); a client that claimed a
wrong offset would show as wrong bytes on the server.

**ChunkDownload** is `Read`, `fillReadBuffer`, `download` and `Close` in the
same way. `call` also carries the batch: the records wanted and got, the bytes
decoded (`out`), the acknowledgement it carries, and the server's cursor. A
byte decoded at the wrong keystream offset is `Garbage`, so the refinement of
`BytePipe` is also about the keystream. The server forgets what is acknowledged
(`released`), and an acknowledgement of an abandoned request may arrive late.

**SSHCarrier** is the send buffer SSH mode puts between its packet layer and a
tunnel: `Write`, `writeLoop` and `Close` share one mutex and one condition
variable.

| Model | Code |
|---|---|
| `buf`, `closing`, `writeErr` | the same names; `writeErr` is whether there is an error |
| `asleep` | who is inside `cond.Wait` |
| `lpc`, `batch` | where `writeLoop` is / what the tunnel has not taken of its batch |
| `wpc`, `left` | where a `Write` is / `len(p)` less what was copied |
| `cpc` | Close: before, waiting for `done`, returned |
| `sent`, `rawClosed`, `accepted` | bytes the tunnel took / tunnel closed / bytes ever queued |

An action is the code between taking the mutex (or waking with it) and giving it
up. `Signal` wakes any waiter, as `sync.Cond` promises no order that the code
relies on. The tunnel may take part of a batch and be asked for the rest
(`writeCarrierFull`), or fail after any part. The SSH packet layer writes from
one goroutine at a time under its own lock; the model lets several write at
once, which includes that and is what `net.Conn` allows.

**XorPull** is the receiving half of the X tunnel: `pullWorker` once per poller,
`Read`, and `Close`.

| Model | Code |
|---|---|
| `claim`, `ack`, `sizer` | the atomics of the same names (`ack` counts records: one more than the code's), `downSizer` |
| `wpc`, `job`, `post` | where a poller is / its locals and the request in progress / the result it is about to send |
| `lane` | its `txnLane`; the mutex is held in `wpc = "sent"` |
| `results`, `resultsClosed` | the channel |
| `current`, `pending`, `nextRead`, `finalKnown`, `finalSeq` | the same names, under `readMu` |
| `cpc`, `cancelled` | where Close is / the context |
| `ends`, `ended`, `forgotten` | the server: where each record ends, whether the stream ended, how many records it dropped |

A poller's request, whatever the size and acknowledgement were when it was built,
is answered later (`WaitAnswered`, `DataAnswered`, `EndAnswered`,
`ErrorAnswered`) or lost (`AnswerLost`); every send on the channel is a step of
its own that can block, or give way to the cancelled context. A CPULL only reads
and acknowledges, so an abandoned one that arrives late changes nothing the
server would not have seen anyway; unlike in the B model no such request is kept.

**XorPush** is the sending half: `Open` (`Opened`, `OpenTryFails`,
`OpenRefused`), `Write` with `txnLane.Do`, and `Close`. A record that fails is
repeated under the same number, but cut at the size the sizer has meanwhile
chosen, so two records of one number may differ in length and the later may
arrive first. The server takes a number once and answers every copy with the
length it took; `Accepted` is what that answer makes of the caller's bytes. After
a Write that failed, the caller may go on with the bytes not reported, or stop.
The sizer starts anywhere in its range: `Open` clamps its maximum by what the
server says (lines 987-996 of `chunk.go`), which may lie above the calibrated
size.

**BPTunnel** is a whole tunnel, both lanes and both directions in one module,
because Close reads `consumedOffset` of the one direction and waits for the mutex
of the other.

| Model | Code |
|---|---|
| `opc` | `openBPTunnel`: REGISTER, OPEN, ready or failed |
| `wpc`, `offered`, `p`, `size`, `upOffset`, `upSizer` | `Write`: where it is, and its variables |
| `rpc`, `readBuf`, `downloadOffset`, `consumedOffset`, `lastAck`, `eof`, `pipeline`, `downSizer` | `Read` and `fillReadBuffer` |
| `cpc`, `closeAck`, `dead` | `Close`: where it is, the offset it read |
| `lane`, `call` | per direction the `requestLane`, and the request that holds its mutex |
| `session`, `received`, `orphans`, `produced`, `ended`, `released` | the server and the target |

What differs from the B wire is in the code and so in the model: an ACK is a
request of its own, sent before the batch (`StartAck`, `Acked`); a batch has as
many responses as were asked for and goes on after WAIT and EOF, the last status
winning (`DataResponse`, `EndResponse`, `BatchDone`); data beside an error is
dropped with its offset (`BatchFailed`); one failure at the minimum size ends a
Write (`GivesUp`). `StartClose` reads `consumedOffset` without `readMu`: the field
is aligned and written in one store, so the model reads the old or the new
value at any point of a Read. The mutex of a lane is held until the caller took
its result; nobody who waits for the mutex can see what it does in between.

**SSHManager** is `getClient`, `connectLocked`, `DialTCP`, `Warmup`,
`invalidate`, the keepalive of each client, and `Close`.

| Model | Code |
|---|---|
| `client`, `closed` | `m.client`, `m.closed` |
| `pc`, `attempt`, `using` | where a caller is, its attempt of two, the client it got |
| `conn`, `keep` | each client ever connected: up, broken but not closed, closed; its keepalive goroutine |
| `mpc`, `leaving` | where Close is, and the client it took under the mutex and closes without it |
| `pin` | the host key file: none, a key, or one that cannot be used |

The mutex is `Free` unless a caller is connecting: every other critical section
is one step. A handshake has no timeout and may hang (`HandshakeHangs`). The pin
is saved while the key is checked, before the password is, so a login that then
fails leaves it behind; a write that fails may leave a file that no later
connect accepts. A dial may fail in two ways. A channel rejection (`Rejected`)
leaves the client alone. Any other error (`OtherError`) invalidates it, which
closes it if it is still the manager's (`Invalidated`): the code does not ask
whether the client is broken, and `client.Dial` also fails on a working one, for
a target whose address it cannot split again (a SOCKS domain with a bracket,
which `socksReadHost` passes on as it is). Then the client is closed under every
session that uses it, the second attempt connects anew and closes that client
too. So `OtherError` asks nothing of the client.

**ProxyFronts** EXTENDS it with the accept loops of both fronts and their
sessions. A session is `away`, then `negotiate`, `dial`, `relay` or `udp`, `end`,
`gone`; a front without a free slot refuses. `DialOK` and `DialFailed` compose
with the manager's `DialTCP`; a page of the HTTP front dials a tunnel of its own
(`PageDialled`). `UpEnds`, `DownEnds` and `RelayEnds` are the two goroutines of
`relayPair` and its return; `GatewayEnds`, `ControlEnds` and `AssociationEnds` the
three of a UDP association; `EndSession` the deferred calls. `local` and `remote`
say which ends are connected. The reply to a UDP ASSOCIATE is sent before the
gateway is dialled, and the association dies with that dial.

**Calibration** is the search for the largest record as pure operators on a
record: `Observe`, `Settled` and `Verdict` decide about one size (two of three
probes; a timeout without a majority leaves it open), `AfterAscend`,
`AfterCoarse` and `AfterBisect` move the bracket. The X twin has the same ascent.

**PathSetup** puts it between the selector and the cache.

| Model | Code |
|---|---|
| `endpoint`, `Scan`, `ScanFails` | `selectServerEndpoint` |
| `selector`, `smu` | `hasChoice` and `resolved`, the selector's mutex |
| `next`, `inflight`, `results`, `probing` | `detectLocked`: next candidate, running probes, channel, the goroutines |
| `pc`, `wire` | where main and each dialling goroutine is, and its wire |
| `search`, `sizes`, `stored`, `xsizes` | its search, what it found; `profileState`; the calibrated X options |

A dial that finds nothing decided detects, and on failure uses the fallback for
itself only. In production main has always decided before it listens; the tests
of the selector dial without that, and so do two of the instances.

What a path passes is given for every wire, mode and mask (`limit`). A search
finds out about the wire whose records it sends (`Probed`, `ProbeLimit`): B and X
send their own, but `openBPTunnel` is sized by the ModeProbe records of B, with
its own mask, and its comment takes for granted that BP is carried alike
(`bp.go:394-396`). The key of the cache has the mask and not the mode (`Key`,
`chunk.go:1038`), so a BP dial may also take the profile that a B dial has stored,
and the reverse. `ProfileFits` says what this comes to: sizes fit the caller's
own wire on B and X; on BP they fit the B wire of its mask, and are safe for BP
where the path passes as much of BP as of B. Where it does not, a BP tunnel
begins with a record too large, which is left to its sizers (`BPTunnel`).

**BytePipe** is what each direction promises: a stream is delivered in order,
without loss or duplication, and only delivered bytes are released. For the
upload, *released* is what `Write` reports as written (on the BP wire, the
offset it has reached); for the download it is what the server may forget. The
carrier acknowledges nothing, so it never releases.

The server and the target are not in this repository. They are modelled from
what the client relies on and marked external: bytes the server already has are
not taken twice, a record that leaves a gap is refused, retained bytes can be
asked for again, a batch ends with WAIT or EOF, a session may end at any time.

## 3. Runs

| Run | Question | Instance |
|---|---|---|
| `sizer` | Does the controller stay consistent under stale outcomes? | sizes 32..128 with the code's constants, two workers, every start, two failures to shrink |
| `sizer_path` | Is what it learned true, and does it find the limit of a path? | sizes 4..24, linear shrink by 3 (the max-first mode), near gap 8, slow factor 2, one change of the limit |
| `sizer_growth` | Is the growth formula the documented one? (no) | sizes 32..256, one worker |
| `upload` | Exactly-once upload, Close, timeouts, termination | records of 1..2 bytes, 3 bytes, 2 abandoned requests, 2 failures at the minimum, auto reconnect |
| `upload_redial` | Is a dead tunnel never redialled by Close? (no) | as `upload` |
| `download` | In-order download, acknowledgements, EOF, batch size, Close, termination | records of 1..2 bytes, batches of 2..3 records, budget 3 bytes, 3 bytes, rotation after 2 requests |
| `bp` | The same for the BP wire, both directions and the opening | records of 1..2 bytes, batches of 1..2 responses, 2 bytes written or 2 bytes sent |
| `xor_pull` | Reassembly, acknowledgements, end of stream, full channel, Close | two pollers, a channel of one result, a record of two fragments and one of one, fixed size, 2 failures end a poller |
| `xor_push` | Is a record repeated at another size still taken once? | records of 1..3 bytes, 4 bytes, one late copy, lanes kept or not, 2 control attempts, 2 failures at the minimum |
| `carrier` | FIFO delivery, lost wake-ups, drain on Close, termination | two writers, batches of 2 bytes, a queue of 4, 7 bytes |
| `proxy_fronts` | Is no client lost, none closed for what has happened to another, none left after Close, no slot kept? Do dials and Close return? | two sessions (a SOCKS CONNECT and a UDP ASSOCIATE, or two HTTP pages), limits 0 and 2, two clients, one host key |
| `path_setup` | Is the wire a validated one, which wire do the sizes fit, does the setup end? | eleven worlds, see below, the code's constants throughout |

*Bounds, and why they suffice.* Two workers give every kind of staleness: one
outcome that is current and one that is not. Two record sizes give a resize in
both directions, with a larger record under way while a smaller one is retried;
three bytes give a record that overlaps one that arrives late, and a byte after
both; two abandoned requests can arrive in either order. `MinFailureLimit` is 8
in the code; 2 leaves one failure before the limit. The download's budget of 3
bytes is below two records of size 2 (the floor wins) and equals three of size 1
(the budget is met). `RequestCap` saturates the request counter at the rotation
threshold, where further counting makes no difference. `ReconnectEvery` 1 is the
code's auto mode (persistent, then learned single use) in the upload; 2 makes
the lane rotate in the download. `MaxChanges` 1 shows recovery after a change;
liveness with more changes is the same question asked again.
The carrier's queue is the least its constructor allows (twice the batch); seven
bytes fill it, refill it and leave a Write that is larger than the room; two
writers can both wait for room, which is when a single Signal would not do.
In `xor_pull` the channel holds one result (4 per poller in the code), so that
pollers really block on it; two records let the later one overtake the earlier,
and three claims let a poller reach the end of the stream before that. The size
is fixed, as it is after calibration (`WithCalibratedChunks`); the controller
the pollers share otherwise is the subject of `sizer`.
In `bp`, two bytes written give a record that is cut smaller after it was sent at
size 2, and its abandoned copy; two bytes sent in batches of one or two give a
batch that ends with data, WAIT or EOF at either place, and acknowledgements of
zero, one and two bytes. The two loads keep the directions apart, since they
share nothing but the session, `dead` and Close, which both loads have.
In `xor_push`, three sizes give a repetition that is shorter and one that is
longer than the record taken; four bytes leave a record after that.
In `proxy_fronts`, two clients give one that is replaced while a dial or a
keepalive still holds the other; limit 0 is the one the two fronts treat
differently. When both clients have been used every connect fails, which the
fairness of the run relies on (`OutOfClients`).
`path_setup` chooses among worlds in the initial state. In two of them two
goroutines race with no decision and one of them may use the fallback: the B wire of
mask 0 is the fallback, and what the path passes is BP with another mask, so that a
profile of the wrong mask would do harm (one probe lost, one fault per search), or
BP with the same mask, of which it carries less, so that a BP dial takes a profile
from the cache that is too large for its own records. In three, main and a dial are
on two endpoints, of which the first is unreachable, passes the X wire alone, or
neither passes anything. The others are one search each, ascending from 32 to 2048
on paths that pass 20, 1400 and 5000 bytes, and descending from 524288 on paths that
pass 20, 200000 and 600000, with two faults, so that a size is decided wrongly, by a
majority or not. The factor 4, the first step to 512, the width 32, the step of 128
KiB and the two of three are the code's.
`SYMMETRY` is used only in `sizer`, which has no liveness property.

`CHECK_DEADLOCK FALSE` is set for the tunnels, the carrier, the fronts and the
setup: they really stop, after an error, Close, the last session or a failed scan.

*Properties that include others.* `PipeSpec` contains in-order delivery, exactly
once, and that nothing is reported or forgotten before it is taken, so these are
not run as invariants of their own; the theorems about them remain.
`CallsReturn` joins the calls of a component. `TypeOK` of `ChunkDownload` bounds
a batch by its budget, and that of `PathSetup` bounds the results by the
channel.

*Callers.* After an error the callers of a tunnel (`io.Copy` in `relayPair`,
the SSH carrier's write loop, the SSH client) do not call again, so `stopped`
is final. `Close` overlapping `Write` is more than today's callers do: the relay
closes after both directions have ended; the `net.Conn` contract allows it, and
the overlap of `Close` with `Read` is real in SSH mode, where the carrier closes
the tunnel on a write error.

*Fairness.* Weak fairness on the steps of a call that has started: every wait
inside `single` and `download` is bounded by the connection's deadline or the
dial timeout, so each step either happens or fails. Strong fairness on taking
the lane's mutex: it is free and taken again and again by a polling `Read` or a
retrying `Write`, and Go's `sync.Mutex` hands over to a waiter that has starved
for a millisecond. The carrier's loop, a begun `Write` and a begun `Close` get
weak fairness: its mutex is only held for moments, and the tunnel's `Write` and
`Close` return (`upload`). A writer is not fairly treated against another that
writes without end, but the stream is bounded, as the SSH layer's window is, so
weak fairness is enough. A poller blocked on the results channel gets strong
fairness: a Go channel serves its blocked senders in turn as Read receives. In the
tunnels and the carrier there is none on callers, the server, the target or the
network. In `AdaptiveSizerPath` the workers keep running records; liveness there
is about a worker that does. `BPTunnel` and `XorPush` follow the B tunnel: their
openings are bounded by deadlines too. In `ProxyFronts` each session and each
goroutine of the manager runs on, except where it waits for its client or its
target: a SOCKS negotiation has no read deadline (the HTTP front has one of
15 s), a relay waits for either end, and an HTTP tunnel has no half-close, so the
fairness `RunsOn` asks of a relay only what follows a closed end. Its
`CallsReturn` therefore does rest on the other side in two places, where the code
has no timeout: an SSH server that is asked for a channel answers, or its
connection ends (`client.Dial`, `ssh_tunnel.go:201`); and a target that is told
the end of its stream by a half-close ends its own. A handshake
that hangs holds the manager's mutex for good; `CallsReturn` excepts that state
by name (`Stuck`), and it is a fact about the code worth knowing. In `PathSetup`
every probe has a deadline; strong fairness on a goroutine stands for the
selector's mutex, taken again and again while nothing is decided.

*Liveness is for the adaptive setting, the default.* With `--chunk-adaptive=false`
and a start size above the minimum, the failure counter at the minimum never
runs and `Write` retries for as long as requests fail without a timeout; no
document promises that such a Write returns.

### Findings

* `sizer_growth`: `docs/adaptive-chunk.md:44-46` says growth bisects towards a
  known failing size within 64 bytes and otherwise adds max(current/4, 32). The
  code bisects at any distance; the 64 bytes only delay growth
  (`chunk.go:115`, `:125`).
* `upload_redial`: the comment at `chunk.go:1430-1431` says a timed-out tunnel is
  not redialled for a graceful CLOSE. `dead` is read once, before the CLOSE
  request waits for the lane and dials; a timeout that lands in between is not
  seen. The tests cover only a Close that starts after the timeout.

## 4. Proofs

Proved for every value of the constants that the named assumptions of the modules
allow: sizes, thresholds, limits and capacities are positive and each minimum is at
most its maximum (`SizerAssumption`, `LaneAssumption`, `UploadAssumption`,
`DownloadAssumption`, `BPAssumption`, `PullAssumption`, `PushAssumption`), the
carrier's queue has room for two batches (`CarrierAssumption`), sessions and clients
are distinct (`ManagerAssumption`, `FrontsAssumption`), a size is decided by two of
at least three probes (`CalibrationAssumption`), and the worlds of `PathSetup` are
well formed (`PathAssumption`: at least one endpoint and candidate, a limit for
every wire and the one its probes send, and no X wire where main, which finds its
sizes, takes no part). Nothing bounds the number of workers, writers, pollers,
sessions, callers or endpoints.

| Module | Theorems |
|---|---|
| `SizingProofs` | shared controller: `SizerTypeOK`, `Bracketed`, `CountersBounded` and the two action properties for any set of workers; on a path it refines the shared one (`PathIsSized`), and `BracketIsTrue`. `XorPush`: `TypeOK`; implements `BytePipe` |
| `ChunkUploadProofs` | `TypeOK`, `ExactlyOnceInOrder`, `AckedWereApplied`, `NoReplayAfterTimeout`, `NothingOpenAfterClose`; implements `BytePipe` |
| `ChunkDownloadProofs` | `TypeOK` (with the byte budget of a batch), `EOFOnlyAtEnd`; implements `BytePipe` |
| `BPTunnelProofs` | `TypeOK`, `EOFOnlyAtEnd`; both directions implement `BytePipe` |
| `XorPullProofs` | `TypeOK` (with the capacity of the channel), `EOFOnlyAtEnd`, `NothingLeftAfterClose`; implements `BytePipe` |
| `SSHProofs` | carrier: `CarrierTypeOK`, `NoMissedWakeup`, `DrainedOnClose`; implements `BytePipe`. Manager and fronts: `TypeOK`, `NoClientLost`, `SlotsAccounted`, `SuccessorKept` |
| `PathSetupProofs` | `ChoiceValidated`, `TypeOK`, `ProfileFits` |
| `TunnelLemmas` | no theorem about a run: each operator of `SizerOps` and `LaneOps` keeps its type; `Success` and `FailureReason` keep `InBracket` (the size is at least `good` and, when a bad size is known, at most `bad`, equal to it only at the minimum) and `CountersLow` (both counters below the thresholds that reset them); a segment of the numbered stream may be cut in two, and adjacent ones join |

Each theorem follows from one inductive invariant (`IInv`; in the modules with two
components `SizerIInv`, `PushIInv`, `CarrierIInv`, `FrontsIInv`): it holds initially,
every action keeps it (one lemma per action or per part that an action can
disturb), and it implies the property.

*Why `IInv` (upload).* Exactly-once is not inductive: it holds now because every request
that can still reach the server, the one under way and every abandoned one, is
honest: it claims the offset its bytes come from (`seq = from`) and ends within
what the caller handed over (`seq + n <= pos + todo`). `IInv` adds
that (`Data`), where control can be while the mutex is held and by whom
(`Control`), that a request answered "ok" is already covered by the server's
bytes, and that a timeout leaves `Write` with nothing more to send
(`TimeoutStops`). `NothingOpenAfterClose` needs one more fact, that after Close
the lane stays shut in every state of a retrying `Write` (`ClosedForGood`).

*Why `IInv` (download).* What Read has returned, the buffer and the batch under
way are adjacent segments of the target's stream (`Offsets`, `Batch`), and
`downloadOffset` is where the buffer ends. A batch starts there and carries
`consumedOffset` as its acknowledgement, which stands still while the batch
lasts (`Continues`); each answer begins where the decoded bytes end, so that a
byte can only be decoded at its own keystream offset. An answer that breaks takes
the decoded bytes with it, one that ends in an error hands them over (`Returned`);
both leave the segments adjacent. `EOFOnlyAtEnd` needs that an EOF answer is given
at the end only and that data of the same batch has been put into the buffer by
the time `eof` is set (`Ends`). An acknowledgement that arrives late is an older
`consumedOffset` (`Acks`), and that never falls.

*Why `IInv` (BP).* The two directions are proved apart and put together: `UpInv`
reads nothing of the download and `DownInv` nothing of the upload, and each step
keeps the one it does not belong to because it leaves those variables alone or
only closes the session (`UpKept`, `DownKept`). The upload is the argument of the B
wire; the record in flight starts where `Write` stands, and an abandoned one
starts at or before that and was cut from what was handed over, so whatever part
of it is new to the server follows what the server has. The download differs in
what a batch may survive: it goes on after WAIT and EOF, so `Continues` keeps only
of the *last* response that an EOF means the end of the stream; a batch that
breaks drops its data with its offset, so the buffer ends where it ended. An
acknowledgement is a request of its own, and Close sends the offset it read
without the mutex: `consumedOffset` never falls, so both are at most what Read
has returned whenever they arrive (`Acks`). `DownCall` ties the request that holds
the mutex to the thread that made it, which is why an answer to Close is never
taken for a batch.

*Why `PushIInv`.* The server has what `Write` has reported, or one record more
(`Ahead`): the record numbered `upSeq`, at the length `lastLen` of whichever copy
came first. Every copy of that number starts where `Write` stands, and a late copy
of an older number is never taken (`Honest`); so the answer, which is `lastLen`
and not the length of the copy that asked, is how far `Write` may go (`AckIsTrue`).
A `Write` that failed leaves `pos` behind what was taken; the next one starts
there under the same number and is told that length, and an answer of more than
it was given fails it too (`AckFits`).

*Why `IInv` (pull).* What a poller has of its record is a beginning of exactly
that record (`Begun`), whichever fragments were lost; a result, wherever it
waits (with its poller, in the channel, in `pending`), is a whole record or the
true number of records (`Honest`). Read puts them in order because it stands
inside record `nextRead`, and `current` is the rest of it (`InOrder`). The server
can still answer for every record Read has not finished because no request, and
so `forgotten`, is ahead of `ack`, nor `ack` of `nextRead` (`Jobbed`, `Acks`). All
this has to survive one more record being appended (`StreamGrows`), which is why
no record may be empty (`Growing`). `NothingLeftAfterClose` is the last link of a
chain: a closed lane is never opened again and its poller is not inside it, all
lanes are closed before the join, all pollers are done after it (`Closing`).

*Why `IInv` (carrier).* Order holds because what the tunnel took, the rest of the
batch and the queue are three adjacent segments of the stream (`Data`);
`DrainedOnClose` because the loop only leaves after a failure or when closing
with both segments empty (`Control`). `NoMissedWakeup` is part of the invariant:
the loop can sleep only on an empty queue and a writer only on a full one, so
they never sleep together, and the one Signal of an append wakes the loop.

*Why `IInv` (selector).* A success that is received answers for the endpoint in
use because each detection begins with an empty channel and only one caller
detects at a time, with the mutex (`Alone`, `Heard`); and a dial does not detect
before main has decided, when it would probe an endpoint that main may leave
(`Alone`). The model needs one channel only: a detection that fails has received
every result, and none follows one that succeeds.
`Shape` says where each variable lies and `Used` which wires callers use.

*Why `IInv` (manager and fronts).* At most one caller connects, with no client
there and before Close (`OneConnects`): so the client it brings replaces nothing,
and Close, which waits for the mutex, has it in its hands or finds it gone
(`Owned`, `Taken`). A keepalive that invalidates has seen its client broken, and
a broken client never works again (`KeepSeen`), so that it closes none that
works. A dial has seen no more than that its own attempt failed, and invalidates
the client that it used (`Used`) and no other. `SuccessorKept` says just that: a
client that works is closed by the Close that took it or by a dial that failed on
it, never for what has happened to its predecessor. Slots are counted by the
sessions that hold them (`Accounted`); the set is finite although the sessions
need not be, because the slots are.

*Why `SInv` (sizes).* `BracketIsTrue` says how far the bracket of a search may be
off after a given number of faults. It is inductive together with what the
probes of the size in question have answered so far (`Sound`): a success proves
that the size fits, a failure of a size that fits is a fault, a timeout proves
nothing; two of three decide, so one fault alone decides nothing wrongly. `Staged`
says where the bracket may lie at each stage, which is what makes every step of
either search end in its range. That a caller uses
sizes of the wire that is probed for it needs that a profile is taken from the
cache only under the key of its mask, and that B and BP of one mask are probed
alike, whichever of them has stored it (`StoredFits`, `Probed`); that X sizes are
not cached there; and that main has prepared the wire before any other caller asks
for sizes, or else does not take part (`Prepared`). `Counted` bounds the results
by the probes launched, and so by the channel.

*Only model-checked:* every liveness property (`CallsReturn`, `CarrierCallsReturn`,
`FindsTheLimit`, `SetupEnds`), since fairness and ENABLED are out of the prover's
reach. Every invariant, action property and refinement that a passing run checks
is also a theorem.

## 5. Plan

The modules and the proofs planned are done. What would add most from here:

1. The opening of the B wire in front of `ChunkUpload` and `ChunkDownload`, as
   `BPTunnel` and `XorPush` have theirs.
2. A composition of the carrier with a tunnel: by the refinements each is a
   `BytePipe`, and `raw.Write` of the carrier is the `Write` of the tunnel; what
   is left to say is that two pipes in a row are one.

### Not modelled

* `openChunkTunnel` of the B wire: one OPEN request through `single`, before the
  tunnel models begin. The openings of BP and X, of the same shape, are modelled.
* The sustained throughput test of a calibration and its probe of persistence:
  their results are reported and change nothing else.
* Datagram framing of the UDP gateway, the syntax of HTTP and SOCKS5 requests,
  option parsing, logging, builds: no state that outlives a call and that another
  actor can disturb.
* Framing bytes and masks of the wires, cover profiles and the XOR kernels: pure
  conversions, and the protocol needs of them only that the server reads what
  was written. The keystream offset, which is state, is in `ChunkDownload`.
* The pool of request identifiers in `internal/wire`: only its own tests use it.
* `manager.Close` is deferred in a main whose accept loop does not return; the
  model lets Close happen at any time all the same.
