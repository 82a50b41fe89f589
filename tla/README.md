# A TLA+ model of outline-cli-ws

outline-cli-ws is a client that carries TCP and UDP flows, taken from a SOCKS5
port or from a TUN device, over WebSockets (HTTP/1.1, HTTP/2 or HTTP/3) to a pool
of Outline servers. Its difficulty is concurrency: a health checker, a loop that
keeps standby connections warm, one or more goroutines per flow, collectors and
readers share state under several small locks and unlock them to do I/O. This
directory models that state, asks TLC what the interleavings can do, and proves the
safety of every modelled part, from the health checker to the dials, with TLAPS, for
every configuration.

## The parts of the system and how they interact

| part | source (internal/) | modules |
|---|---|---|
| health checker | lb.go, util.go | `EndpointStatus`, `HealthCheck`, `HealthCheckProofs`, `MCHealthCheck` |
| upstream selection | lb.go | `Selection`, `FlowProofs`, `MCSelection` |
| warm standby, dial limit | warm_standby.go, lb.go | `WarmStandby`, `WarmStandbyProofs`, `MCWarmStandby` |
| UDP flows in TUN mode | tun_native.go, tun_udp_porttable.go, outline_udp_session.go | `UDPFlows`, `UDPFlowsProofs`, `MCUDPFlows` |
| TCP relay (SOCKS5 and TUN) | socks5.go, outline_tcp.go, outline_dial.go, tun_native.go | `TCPRelay`, `FlowProofs` |
| raw HTTP/2 stream (RFC 8441) | rfc8441_raw_h2.go | `RawH2`, `RawH2Proofs` |
| framed WebSocket | ws_h2.go, ws_api.go | `FramedWS`, `FramedWSProofs`, `MCFramedWS` |
| transport choice, HTTP/3 dial (RFC 9220) | ws.go, ws_h3.go, ws_h3_timeouts.go, h3_healthcheck.go | `DialWS`, with its theorems in `SessionProofs` |
| HTTP/3 frames and header blocks | ws_h3.go, ws_h3_qpack_min.go | `Loops`, `H3Varint`, `H3Frames`, `QPACK`, `H3Bytes`, `H3BytesProofs`; `H3Conn` |
| SOCKS5 session, UDP association, probes | socks5.go, socksaddr.go, outline_udp.go, ws_packet_conn.go, active_probe.go | `Session`, `SessionProofs` |
| TUN pumps, configuration, metrics, process | see the end | not modelled |

A flow *picks* an upstream (selection), *acquires* a WebSocket to it (standby or a
fresh dial), *relays* over it and *reports* a failure. The health checker and the
reports write the health and the cooldown of an endpoint, that is, of an upstream
and a protocol; selection and standby read them. That interface is
`EndpointStatus`: a health bit, a cooldown that only a report starts, and the
four steps that change them. `HealthCheck` is shown to implement it, `Selection`
extends it, and `WarmStandby` sees an endpoint as usable or not, changing at any
time, which is weaker. `Session` extends `DialWS`: it is the composition of a
SOCKS5 connection, or of a probe, with the dial it makes and the connection it gets;
the pick and the relay in it are single steps, which `Selection` and `TCPRelay` have
in detail. The transports meet the standby loop and the relay in what a read returns
at the end of a stream and whether it can be cancelled; `TCPRelay` has that in its
variable `kind`, `WarmStandby` in its variable `transport`, `Session` in the kind of
its connection. `FramedWS` runs over a stream whose `Write` may block and whose
`Close` is idempotent; `RawH2` is such a stream, up to the observations below.

## Module by module

**EndpointStatus.** `Admit`, `Demote` and `Report` are the two ways a check may
end and the report of a flow. Deadlines are countdowns: -1 past (or the zero
time), 0 exactly now, positive in the future. The three cases matter because the
code compares some deadlines with `After` and others with `!Before`.

**HealthCheck.** One action per step of a goroutine between two points where
another can run. `runDueChecks(u)` is one iteration of the scheduler (both
protocols under `u.mu`); the goroutine `w` of `checkOneTCP`/`checkOneUDP` goes
through the program counters slot, dial, probe, qdial, quality, apply, release,
where `acquireProbeSlot`, `GiveUpSlot`, `acquireProbeDialSlot`, `DialSlotTimeout`,
`TransportProbe`, `QualityProbe`, `ApplyResult` and `releaseProbeSlot` are the
calls and the branches of their selects. `ApplyResult` is the whole last critical
section: `applyHCResult` with its interval and jitter, the lifting of the
cooldown, and the deferred reset of `inFlight`. `ReportFailure` is
`ReportTCPFailure`/`ReportUDPFailure`. A probe returns what the environment
variable `reachable` says at that moment (the server is up or down), except that a
cancelled context may make it fail. A server of one of the `StallingProtos`, the
protocols dialled over raw HTTP/2, may also be silent: it takes the connection and
sends nothing. While it does, neither the transport probe (readFrame,
rfc8441_raw_h2.go:320, 390) nor the quality probe (the framed Read, ws_h2.go:187)
returns, whatever its deadline, and `Stuck` says so; over other transports a silent
server is a server that is down. `Init` has both
starts of the program, with the scheduler and with `-no-probes`. Intervals are
integers with the code's clamping and rounding; the smoothed RTT enters as any
addition up to `MaxRTTAdd`; counters saturate where the code stops telling values
apart.

**Selection.** `pickByEndpoint` cut at its locks: `Begin` copies `current` and
`stickyUntil`, `StickyCheck`, one `ScanOne` per upstream, `Hysteresis`,
`WriteCurrent`. An RTT is a duration, of which the score takes the whole milliseconds
(`Base`: less than one counts as unknown) and the hysteresis all of it. A weight is a
number of units, with `UnitWeight` for 1.0, and the float64 arithmetic that makes a
score of a sum and a weight is the constant operator `Quotient`, with any rounding; a
float64 stands for its rank among the integers. RTT and penalties take values of small
sets, and change with every check and (staleness) with time. `isTCP` is the protocol of the picks: TCP
picks use stickiness and hysteresis, UDP picks neither. `seen` is history, used by
the properties only.

**WarmStandby.** A slot is the standby of an upstream for one protocol. The loop
(`WarmTick`, the keepalive pass `KeepaliveTake`/`Check`/`Put`, `CloseUpstream` on
shutdown), the Ensure goroutines (`EnsureStatus` ... `EnsureStore`) and the flows
(`AcquireTake` ... `FlowEnd`) each hold `standbyMu` for one action. `transport`,
which the URLs of the upstreams decide, says what `wsAliveCheck` can answer. `"pong"`
is the connection the function is written for and unit-tested with; the three real
ones do not hand a Pong to the caller, so the check cannot succeed on them, and on
HTTP/2 the check of a peer that has gone does not return (`LoopStuck` when that is the
keepalive pass). A dial may fail, and over HTTP/2 it may not return (`MayBlock`). The
run has `"pong"`, `"h2"` and `"h3"` (the model of `"h1"` is that of `"h3"`); the proofs
hold for all four.

**UDPFlows.** A handler is a pair of a source port and a destination. `Lookup`,
`Dial` and `Insert` are `getOrCreate` before, during and after the dial;
`SubscribeDst`, `Send`, the two touches (under `ps.mu`, then `pt.mu`), the cleanup
and `Unsubscribe` follow `tunHandleUDP`; `ReplyStep` is the goroutine it starts;
`ReadLookup` and `ReadSend` are the two halves of a delivery in `readLoop`, which
looks a channel up under the lock and sends after it; `GCPrune` and `GCClose` are
`gcOnce` under and after its lock. Identifiers of sessions, channels and reply
goroutines are reused once nothing refers to them, so no run is cut off after a
number of them. Time is a mark, fresh or idle. A send on a closed channel sets
`panicked` and ends the behaviour.

**TCPRelay.** One flow: two peers that send, end, reset and may stop reading
(`stalled`, until they read again or break), the two copying goroutines with a read
and a write step, and the handler: `First` and `Second` are the two receives of
`ProxyTCPOverOutlineWS`, `TunWaits` is the end of `tunHandleTCP`, and `Closes` is the
return of the WebSocket's Close, after which the client's connection is closed.
`kind`, chosen in `Init`, says which of the two handlers serves the flow and whether
the transport is framed, which decides what it does at the end of the stream
(`io.EOF` or an error of the library), whether a blocked read or write can be
cancelled, and whether Close waits behind a blocked write.

**RawH2.** The server and the network are external and keep the flow-control
rules. `InitFrame` and `HeadersFrame` are the two handshake loops, which look at
their context between two frames (`Await`). `ReadTop`, `ReadFrame`, `Consume`,
`PipeBroken` and `ReaderCloses` are `readLoop`, with `FlushLock` and `FlushWrite`
for `flushWindowUpdate`; `WriteCall`, `WriteLock` and `WriteData` are
`rawH2Stream.Write` with its chunks; `CloseLock`, `CloseCheck`, `CloseConn` and
`ClosePipe` are `rawH2Stream.Close`. All three hold `wmu` while they write, and a
write waits until the server reads (`full`). Closing the channel twice sets
`panicked` and ends the behaviour, as the panic ends the process. Frames buffered
before a close can still be read after it.

**FramedWS.** `framedWSConn`: any number of writers and closers and one reader, who
answers a Ping and echoes a CLOSE, share the write lock `c.mu` (`mu`). A frame goes
out in two pieces, `Hdr` and `Pay`, between which the stream may block or break,
because `s.Write` may take a part of it. `Lock` is the test of `closeSent` under the
lock, `Returned` is what each kind of call does when its write is over (`Close` arms
its timer, the echo closes the stream). `Receive` is `readFrame` followed by `Read`
(`ReadMessage`) or `readFragmentedMessage` (`ReadFragment`). Payloads are lengths,
in the three forms of the header (`buildFrame`, `readFrame`).

**H3Varint, H3Frames, QPACK.** Pure functions as operators over sequences of bytes:
integers of HTTP/3 and one frame (`H3Varint`); the answer's HEADERS, DATA frames and
SETTINGS; header blocks with prefixed integers and strings, the static table being a
parameter. A `for` loop of the code is a `Loop` (`Loops`): a function on the loop's
variables, one call per pass (`AnswerPass`, `ReadPass`, `SettingsPass`, `WriteGroup`,
`ReadGroup`, `DecodePass`), until a pass leaves them as they are. `H3Bytes` says what
readers and writers owe each other for the integers, frames, settings and fields its
constants list, and `H3Conn` puts that beside the connection (`H3BytesAgree`).

**DialWS.** `Chosen`, `AfterH3` and `WithoutH3` are the decisions of `DialWSStream`
on flags and scheme. The HTTP/3 dial is modelled call by call (`H3Listen` ...
`H3OK`), with what each attempt has created (`att`: QUIC endpoint and connection,
drainer, reader, the goroutine that watches the caller's context) and what its exits
leave of it (`Left`, `Closed`). An attempt that fails with a frame-order error is
repeated with the other profile of client streams. `ProbeH3ExtendedConnect` takes
the same steps in mode `"probe"`, where the SETTINGS of the peer are waited for.

**Session.** `HandleConn` from the handshake to its end: `Handshake`, `Request`,
`Pick`, `DialFailed`, `DialOK`, `ServeEnds`, `CloseReturns` with the replies they
write; the two loops of a UDP association (`FromClient`, `UpWrites`, `FromUpstream`)
with the learned peer, and a server that may stop reading what they write; or
one of the probes. The client may half-close or reset and a context may end at any
moment.

## What the runs show

The runs that pass:

| run | properties | shows |
|---|---|---|
| `hc_safety` | `TypeOK`, `OneCheckPerEndpoint`, `SlotsExact`, `HealthyNotCoolingDown`, `CountersCoherent`, `ImplementsStatus`, `NoProbesNoRecovery`, `RecoveryIsFresh` | Checks, reports, shutdown and the clock interleave on both protocols of one upstream, with more goroutines than slots, with the scheduler on and off: one check per endpoint, exact semaphores, coherent counters and cooldowns, no recovery from outdated evidence or without probes, and the checker implements EndpointStatus. |
| `hc_live` | `HealthConverges`, `ShutdownQuiesces` | With the scheduler running and no server over raw HTTP/2 silent for ever, health converges to the reachability of the server although checks compete for one slot and flows report failures; after the root context ends the scheduler and every goroutine end, except one blocked on such a silent server, and all slots come back if none stays silent. |
| `sel_pick` | `PickWasUsable`, `ErrorWasJustified`, `UndisturbedPickIsIntended` | Two flows pick and report while checks change health and RTT of two endpoints, for TCP and for UDP: a pick returns an endpoint that was usable during the pick, fails only if each was unusable during it, and undisturbed returns what stickiness, score and hysteresis prescribe. |
| `ws_pool` | `ExactlyOneOwner`, `FreshHandoff`, `DialSlotsExact`, `Restocks`, `ShutdownEnds` | Two flows, an Ensure goroutine, the keepalive pass, the loop and the shutdown fight over the slots of a usable upstream: every open connection has exactly one owner, a TCP flow gets no standby that was dead when it asked, dialSem is exact, the slot is filled again and again while the endpoint stays usable and dials succeed, and cancelling the root context ends the loop and every Ensure goroutine, except, over HTTP/2, a loop in the alive check of a silent peer and a goroutine in its dial. |
| `udp_dsts` | `NoSessionLeak` | Two destinations race for the session of one source port while the collector expires it: no open session is lost track of. |
| `udp_drain` | `SubscribedOnce`, `QuietDrains` | Handlers start and end while replies arrive, the collector prunes and connections break: every subscribed channel is served by exactly one reply goroutine of its destination, and when the traffic stops everything is collected. |
| `relay_flow` | `NoLoss`, `EndsAfterBoth`, `AbortReleases`, `RemoteEndPassedOn` | SOCKS5 and TUN flows over framed and HTTP/1.1 transports: no downstream data is lost to a half-close of the client; provided that dials return and no peer stops reading for good, the flow is released when both peers have ended or a SOCKS5 client resets, and the end of the remote is passed on except by SOCKS5 over a framed transport. |
| `h2_stream` | `WindowConserved`, `CloseEndsReader`, `Delivered` | Handshake, data, a write, aborts, a lost connection, the end of the dial context and two concurrent closes, which compete for the write lock on a connection that blocks: the window is conserved at every step, Close ends readLoop even when nobody reads the pipe, and a transfer that fits into the initial window arrives. |
| `framed_conn` | `CloseIsLast`, `FramesWhole`, `ReadsMessages`, `H3BytesAgree`, `CloseEnds`, `PingsAnswered` | A writer, a Close and the reader with its Pongs and echo compete for one connection on a stream that blocks and breaks: frames never mix and nothing follows a CLOSE, messages come out whole around control frames, lengths survive their boundaries, what is read from an HTTP/3 stream is what was written to it, Close ends the reader and Pings are answered. |
| `session_user` | `TransportsAllowed`, `DialOwns`, `RequestAnswered`, `OnePeer`, `CancelHonoured`, `SessionReleases` | A SOCKS5 session or a probe dials over every combination of URL flags and schemes: only the transports the flags allow are tried (h2=only together with an h3 flag allows HTTP/3), what an HTTP/3 dial creates has an owner on every exit (or is one of the documented leftovers), an explicit cancel ends it, each request gets one reply, datagrams go to one peer, and a client that leaves takes its session with it, provided that the server goes on reading. |

`TypeOK` is a property of `hc_safety`; the type invariants of the other modules are
part of the inductive invariants below, or were checked with the same
configurations.

The runs in which the code does something else than a document of the repository
says. Each checks one property, and TLC's counterexample is the schedule described:

| run | property | schedule | place |
|---|---|---|---|
| `udp_panic` | `NoPanic` | readLoop looks a channel up, Unsubscribe or Close closes it, readLoop sends on it. | internal/outline_udp_session.go:214 |
| `h2_large` | `Delivered` | A transfer beyond the initial window stalls: the batch of window updates is one byte larger than the window. | internal/rfc8441_raw_h2.go:461 |

The `findings` of PROJECT.json quote the sentence each of them contradicts.

Every property of a passing run has a *mutant*: a definition named after the
action it changes (`EnsureStore_Overwrites`, `ScanOne_SkipsLast`, ...), which makes
a plausible mistake in it. Put in the place of the action, it makes TLC refute the
property, so none of the properties holds by the shape of the model alone.

### What the code does not promise

The models also have behaviours that a reader of the code should know of and that
no property above excludes. They come from the actions named:

- With `success_threshold` 1, the default, a success that a probe obtained before a
  failure report re-admits the endpoint and lifts its new cooldown (`ApplyResult`,
  lb.go:600). `RecoveryIsFresh` holds from 2 on.
- Two raw HTTP/2 probes of servers that stay silent keep both execution slots: no
  endpoint of either protocol is checked again, and the two goroutines survive the
  shutdown (`Stuck`, lb.go:554). `HealthConverges` and the second half of
  `ShutdownQuiesces` have the opposite as their premise.
- A pick compares its candidate with a copy of `lb.current` and may replace a newer
  choice that is as good (`WriteCurrent`, lb.go:221).
- No real transport hands a Pong to `wsAliveCheck`, so a live standby is discarded,
  and over HTTP/2 the check of a silent peer does not return and stops the warm loop,
  past the shutdown too (`AcquireCheck`, `KeepaliveCheck`, warm_standby.go:16, 215).
- An Ensure goroutine whose dial outlives the shutdown stores its standby after
  `RunWarmStandby` closed them all (`EnsureStore`, warm_standby.go:141).
- Ports that dial at the same time exceed `udp_max_flows` (`Insert`,
  tun_udp_porttable.go:59); a packet after a pruning puts its destination back
  without a subscription (`HandlerTouchFlow`, tun_native.go:457); packets keep
  the session of a broken connection in the table (tun_udp_porttable.go:49).
- A failed `Send` is reported against the upstream also when the session was closed
  by the collector (tun_native.go:447).
- A reset by the client of a TUN flow is noticed when the remote sends or ends
  (`TunWaits`, tun_native.go:337). A clean close by the remote of a framed transport
  is not passed on to a SOCKS5 client that has not ended itself (`First`,
  outline_tcp.go:58; `RemoteEndPassedOn` excepts it).
- Two concurrent `Close` of an HTTP/2 stream may both close its channel
  (`CloseConn`, rfc8441_raw_h2.go:405), and `readLoop` stops at the next frame once
  the context of the dial has ended, as it has for a standby (`ReadTop`,
  rfc8441_raw_h2.go:479).
- `rawH2Stream.Close` waits for `wmu` before it closes the connection
  (`CloseLock`, rfc8441_raw_h2.go:447), and `framedWSConn.Close` for `c.mu` before it
  arms its timer (`Lock`, `Returned`): behind a writer that is blocked because the
  server does not read, neither returns. `CloseEndsReader` and `CloseEnds` assume
  that the server reads, and so does `SessionReleases`: the handler of an association
  stays in `UDPAssociation.Close` (`CloseReturns`, outline_udp.go:73), and its client's
  connection stays open. A TCP relay in that state does not notice that its client has
  reset, and over a framed transport the teardown after a hard error stops in
  `ssconn.Close` before it closes the client (`UpWrite`, `Closes`, outline_tcp.go:63);
  `AbortReleases` assumes that it does not last for ever. `Write` does not look at the window of the peer.
- The HTTP/2 handshake looks at its context between frames; a server that sends
  nothing keeps the dial in `readFrame` (`Await`, rfc8441_raw_h2.go:186).
- Nothing returns `errRFC8441NotSupported`, so HTTP/1.1 is never tried after HTTP/2
  (`WithoutH3`, ws_h2.go:27), and a failed HTTP/3 dial leads to HTTP/2 whether the
  URL asks for it or not (`AfterH3`). `?connect=only` alone fails without an attempt;
  `?h2=only` together with `h3=1` may end in an HTTP/3 connection (ws.go:75), although
  README.md:112 of the repository says "strict h2 mode (no fallback)";
  `TransportsAllowed` states what the code does.
- An HTTP/3 dial that fails between the QUIC handshake and the answer leaves the
  endpoint and the connection open (`H3Error`, ws_h3.go:303-373; the exception in
  `DialOwns`). A cancel after a short deadline has passed is not seen by the detached
  dial, which ends at `h3HandshakeTimeout` (`WatcherFires`, ws_h3.go:244).
- `ProbeH3ExtendedConnect` does not look at its context while it reads the answer,
  nor does a quality probe on a framed transport before the next message
  (`SessionReleases` excepts both).
- The SOCKS5 request is read without a deadline (`RequestFails`, socks5.go:32). An
  association whose upstream is lost lives until the client closes the control
  connection. The peer of an association is learned before its datagram is checked
  (`FromClient`).
- `QPACK`: a header block that ends in an empty literal string is refused
  (`H3BytesAgree` states it), a string that ends too early is filled up with zeros,
  literal lines with the never-index bit and a name reference are not supported, and
  the static bit of an indexed line is not looked at.

### Bounds, and why they are enough

- *Health checker.* One upstream has two endpoints; both protocols and one slot give
  waiting, overtaking and the goroutine that has applied its result but not yet
  returned its slot while the next check of its endpoint starts, for which
  `hc_safety` has a third goroutine. It has thresholds of 2, and flows and quality
  probes on TCP only, so that the two endpoints differ; `hc_live` has the default
  success threshold of 1. The proofs remove these bounds.
- *Selection.* Two endpoints suffice for every comparison of the scan, two picks
  for a stale copy of `current`. The weights are 0.5 and 0 (0 counts as 1.0). An RTT
  may be 0, half a millisecond (unknown to the score, known to the hysteresis) or
  4.5 ms, and two RTTs are equal or differ by exactly `MinSwitch`, the edge of the
  hysteresis. Scores are rounded, and an unknown RTT with one weight ties with a known
  one with the other. Penalties only shift scores and are 0 in the run.
- *Warm standby.* Two upstreams, of which `u1` serves and is warmed, its TCP slot,
  two flows, one Ensure goroutine and a dial limit of one, so that flows wait for
  each other. `MaxConn` is 3: the slot, the loop and a flow, or two flows and the
  Ensure goroutine; a dial that would exceed the bound waits. The proofs remove these
  bounds for the safety properties.
- *UDP flows.* `udp_dsts` has two sessions, which is what a race in `getOrCreate`
  takes, and a limit of one destination. `udp_drain` has three channels and two
  reply goroutines for one session and destination, so that old ones are still
  ending while new ones start. Channels hold one payload, so that they are full.
- *TCP relay.* Two chunks in each direction: one in flight while another waits.
- *Raw HTTP/2.* Window, batch, chunk and frame sizes are the real numbers. With a
  batch one larger than the window only a returning `readLoop` sends updates.
  `h2_stream` transfers 20000 bytes, two frames, with one write of 16385 bytes (two
  chunks), one frame in flight and two closers, so that all three users of `wmu` meet
  on a connection that takes one write until the server reads. `h2_large` transfers
  131072 bytes, twice the window, without writes and closes.
- *Framed WebSocket.* One writer, one `Close` and the reader are three users of the
  lock; the lengths 125, 126 and 65536 take the three forms of the header. Three
  frames of the server are what a message with a control frame inside takes, out of
  ten kinds with every protocol error. `Room` is one piece, so that every frame can
  block in its middle. The proofs remove the bounds on writers, closers, sizes and
  frames.
- *Session.* One session with one dial, which tries both profiles, for all 32 sets
  of flags and five schemes; two addresses that send to an association.
- *HTTP/3 bytes.* Integers on both sides of each change of form up to 2^31 - 1, TLC's
  limit; up to four frames of known and unknown types with lengths around 63; settings
  on both sides of the limit of 32; header blocks of up to two fields with names,
  lengths and indices around the limits of the prefixes. The proofs remove all of
  these.

Symmetry is used over goroutines, ports and destinations, in runs without
liveness properties only. Deadlock is checked in the runs of the health checker,
the selection and the standby loop, which never stop; relays, streams, sessions and
UDP flows end, or panic, and their configurations say so.

### Fairness

- *HealthCheck*: weak fairness of the clock and of the scheduler (a ticker),
  strong fairness of each goroutine: blocked senders of a Go channel are served
  first come first served, so a goroutine that could take a slot again and again
  gets it. A probe ends because its server answers or because it runs under a context
  with a timeout; a probe for which the code does not enforce that, of a silent server
  over raw HTTP/2, is a disabled action, and that no server stays silent for ever is a
  premise of the properties (`ServersAnswer`).
- *WarmStandby*: strong fairness of the ticker branches of the `select` (Go chooses
  among ready branches at random), weak fairness of the goroutines. An alive check
  without an answer is disabled, and a dial over HTTP/2 has no fairness: neither is
  forced to end. That a dial which is tried again and again succeeds at last is a
  premise of `Restocks`.
- *UDPFlows*: weak fairness of the goroutines, of the collector's ticker and of
  time. Nothing forces the client or the upstream to send, or a connection to die.
- *TCPRelay*: weak fairness of the copies and of the handler. A read without data, a
  write to a peer that does not read and the Close of a framed connection behind it are
  disabled actions, and nothing makes a peer send, end or read. That the dial returns
  (`DialReturns`) and that no peer stops reading for good (`ServerReads`, `PeersRead`)
  are premises of the properties.
- *RawH2*: weak fairness of each goroutine and of the frames' arrival; the server
  sends its data although it may interleave other frames (strong fairness).
  `Delivered` assumes a consumer that reads, and both liveness properties a server
  that keeps reading: they name this as a premise.
- *FramedWS*: weak fairness of each goroutine's step and of the timer. The lock goes
  to one of the finitely many calls that wait for it, and each call takes it once.
  That the peer reads is a premise of the properties.
- *DialWS, Session*: weak fairness of the goroutines, of calls that notice the end of
  their context and of the timers shorter than the dial. Neither the server nor
  `h3HandshakeTimeout` is assumed to help in `CancelHonoured`; `SessionReleases`
  names its three premises. A write, and the Close of a framed connection, are disabled
  while the server does not read (`conn.stalled`), and nothing makes it read; a relay in
  that state is not assumed to notice its client. Nothing forces the client to do
  anything.

## What is proved

`HealthCheckProofs` proves, for every pool, every number of goroutines, every limit,
threshold, interval and jitter (also inconsistent ones, such as a minimum interval
above the maximum), from the named assumptions of `HealthCheck`, which say that
limits, thresholds, intervals and the cooldown are positive and the set of
goroutines is finite:

| theorem | statement |
|---|---|
| `TypeCorrect` | `Spec => []TypeOK` |
| `SingleCheck` | `Spec => []OneCheckPerEndpoint` |
| `SlotAccounting` | `Spec => []SlotsExact` |
| `NoHealthyCooldown` | `Spec => []HealthyNotCoolingDown` |
| `CountersAgree` | `Spec => []CountersCoherent` |
| `FreshRecovery` | `Spec => RecoveryIsFresh` |
| `FirstFailureIsFinal` | `Spec => NoProbesNoRecovery` |
| `StatusRefinement` | `Spec => ImplementsStatus` |

The argument:

- `TypeCorrect` rests on lemmas about the interval arithmetic: `applyJitter` never
  makes a delay negative, and the clamped intervals are naturals whatever the order
  of the bounds. `Launch` describes what starting a set of checks does to the
  goroutines.
- `OneCheckPerEndpoint` is not inductive: the scheduler looks at `inFlight`, not at
  the goroutines. `CheckInv` adds `Flagged`, that the endpoint of every goroutine
  that has not applied its result is marked in flight. A step either leaves that
  relation alone, ends a check together with its mark, or starts checks of
  endpoints that were not marked.
- `HealthInv` joins `HealthyNotCoolingDown` and `CountersCoherent`. `HealthSteps`
  reduces every step to "nothing changes", "time passes", "a result is applied to
  e" or "e is reported", and `Verdict` says what a result does; the two invariants
  and the refinement are then proved from those four cases.
- `FreshRecovery` needs `FreshInv`: while a check holds a success that a report has
  outdated, the success counter of its endpoint is 0. It stays 0 because no other
  check of that endpoint can count a success, which is `CheckInv`.
- `FirstFailureIsFinal` needs `OffInv`: with the scheduler off there are no
  goroutines, hence no `ApplyResult`.
- `SlotAccounting` counts with the cardinality lemmas of FiniteSetTheorems
  (`BusyEnter`, `BusyLeave`). The token count being exact is also what makes the
  receive in `releaseProbeSlot` never find an empty channel. A dial slot is held
  under an execution slot because `Dialling` is a subset of `Holding`.
- `StatusRefinement` maps the variables of `EndpointStatus` to the `healthy` fields
  and the cooldowns; every step of the checker is one of its steps or a stutter.

`FlowProofs` has the theorems about a TCP flow. Its first part proves for any pool,
weights, scores and number of flows, from the assumptions of `Selection` (a non-empty
pool of endpoints, natural RTTs and penalties, a positive cooldown, millisecond and RTT
for "unknown", and a "none" that is neither an endpoint nor a flow). Weights may be any
numbers and `Quotient` any function for which no score reaches 1e18, the value
`bestScore` starts with (`ScoreAssumption`; a weight below 1e-15 would, and would hide
its upstream from the scan):

| theorem | statement |
|---|---|
| `UsablePick` | `Spec => []PickWasUsable` |
| `JustifiedError` | `Spec => []ErrorWasJustified` |
| `IntendedPick` | `Spec => UndisturbedPickIsIntended` |

The first two speak about the end of a pick, after several unlocked steps. `PickInv` says what
a pick knows on the way: `seen` is up to date while it runs, the candidate it carries
was usable when it was scanned, and every endpoint it has scanned without taking a
candidate was unusable then. A step of the checker, of a report or of the clock only
adds to `seen` (`Observed`, `OthersKeep`), so that each lemma looks at one pick.

`IntendedPick` compares the loop with the definition it computes, `Intended`, which
chooses among all candidates at once. `AloneInv` follows a pick that has had the state
for itself: after m iterations it carries the index that `Wins` among the first m, the
one with the lowest score and the first in pool order among equals (`ScanFinds`), and
the hysteresis leaves what `Settled` says. What another iteration does to the winner is
in `StillWins` and `NewWins`; that there is only one winner makes the `CHOOSE` of
`Intended` choose it (`WinsIntended`). Whoever is disturbed is no longer `alone`
(`Disturbed`).

Its second part proves for any number of chunks in both directions:

| theorem | statement |
|---|---|
| `NothingLost` | `RelaySpec => []NoLoss` |

`NoLoss` fails if something closes the connections while the downstream copy runs.
`CalmInv` says that in a flow nobody broke or cancelled this does not happen: the
upstream copy cannot fail before the downstream copy has ended, so a hard first result
is the downstream copy's own, and no Close has begun (`Cancelled`) before it. For that the order of results in `errC` has to be known
(`ResultsInv`).

`WarmStandbyProofs` proves for any pool, any numbers of flows and Ensure goroutines,
any dial limit and every transport:

| theorem | statement |
|---|---|
| `SingleOwner` | `Spec => []ExactlyOneOwner` |
| `FreshStandby` | `Spec => []FreshHandoff` |
| `DialLimitKept` | `Spec => []DialSlotsExact` |

`ExactlyOneOwner` counts owners; `OwnInv` states it as a function `held` from places
(slots, goroutines, flows, the loop) that is injective on connections and whose range
is the set of the open ones. Every step is one of four things, each a lemma about any
such function: nothing moves (`Stays`), a connection goes to an empty place (`Moves`),
a new one appears (`Gets`), some are closed (`Drops`). `HandsInv` says at which program
counters a goroutine has a connection. `FreshInv` needs ownership: nobody else may
close or replace the connection a flow is checking. `SlotsInv` counts the dialling
flows.

`FramedWSProofs` proves for any numbers of writers and closers, any sizes and any
frames of the peer:

| theorem | statement |
|---|---|
| `CloseLast` | `Spec => []CloseIsLast` |
| `WholeFrames` | `Spec => []FramesWhole` |
| `MessagesRead` | `Spec => []ReadsMessages` |
| `BytesReadBack` | `Spec => []H3BytesAgree` |

The invariants are about the lock: its holder is the one goroutine that writes
(`LockInv`); a header without a payload is the last piece on the wire and its payload
is the holder's next piece, unless the stream has broken (`WireInv`); no CLOSE is on
the wire before `closeSent`, and after it only the one that set it writes
(`CloseInv`). `Announces` is the arithmetic of the length field, for every length.

`ReadsMessages` compares what the reader has returned with a recursive function of the
frames it has taken. `Total` is that function up to the last frame, with the message
that is still open; `TotalAppend` says what one more frame does to it, by induction
over the length of the sequence (`Induction`, for a set of numbers). `ReadInv` then
says that what the reader has returned and what it is collecting are the two parts of
`Total`.

`BytesReadBack` rests on `H3BytesProofs`, which proves for any integers, frames and
settings below 2^62, any static table and any header fields (`H3Assumption`):

| theorem | statement |
|---|---|
| `VarintRead` | `readVarint(appendVarint(v) \o rest)` is `v` and the length of `appendVarint(v)`, for every `v` below 2^62 |
| `FramesRead` | `FrameAt(Frame(type, p) \o rest)` is `type`, `p` and `rest`, for every payload whose length is below 2^62 |
| `IntegersRead` | `IntegersAgree`: an integer is read back whatever follows, and takes no more bytes than a greater one |
| `FramesReadBack` | `FramesAgree`: the answer is the first HEADERS frame and leaves what follows; DATA frames are read up to the first other one |
| `SettingsReadBack` | `SettingsAgree`: the last of the first 32 settings decides, a cut-off one does not count |
| `HeadersRead` | `HeadersAgree`: a block is read as the map of its fields, unless it ends in an empty string |

`readVarint` folds the bytes into a number with a recursive function.
`AccumulatesExist` shows by induction that such a function exists, from which its
values for 1, 2, 4 and 8 bytes follow (`Value1` to `Value8`). The bytes of a number
make it up (`TwoDigits`, `FourDigits`, `EightDigits`) and the two bits of the prefix
say how many there are (`Size1` to `Size8`), since the rest of the first byte is below
64 in each form.

The readers of whole streams are loops. `LoopArrives` is the induction they share: if
the passes lead along a path of states to one that a pass does not change, and there
are enough passes, the loop ends there. What is left is one pass on each piece of the
input: that the first of several joined pieces is read and the others are left
(`NextFrame`, `SettingStep`, `NextField`). `Cut` is what some consecutive pieces join
to; `CutFirst` takes off the first one. The groups of seven bits of a prefixed integer
are read lowest first, while the number that remains after the first group is smaller:
`GroupsRead` is by induction over the number. `Kinds` says that the first byte of a
field line tells its kinds apart, whatever number is written into its prefix;
`FieldsRead` covers the three of them, and `MapRead` that the last field of a name is
the one in the map. Integers of the model are unbounded: that the `int64` of
readPrefixedIntWithFirst wraps around on a number of more than 63 bits, which no writer
produces, is outside the theorems.

`SessionProofs` proves for any set of senders, from the assumption that "no peer" is
none of them:

| theorem | statement |
|---|---|
| `FirstPeer` | `Spec => []OnePeer` |
| `OneReply` | `Spec => []RequestAnswered` |
| `OnlyAllowedTransports` | `Spec => []TransportsAllowed` |
| `DialOwnership` | `Spec => []DialOwns` |

`DialInv` adds to `TransportsAllowed` that HTTP/3 is the only transport tried while its dial
runs; `AnswerInv` ties the number of replies to the progress of the handler; `PeerInv`
adds that nothing is delivered before there is a peer. `DialOwns` needs `Owned`: nothing
exists before the dial, a running HTTP/3 dial holds what the steps it has taken have
created, and there is a connection only once it has succeeded; and `DialsOnce`: a
session dials once. The steps are grouped by what they do to an attempt: those of the
dial (`DialStepOwn`), of its goroutines and timers (`GoroutineSteps`), of the
connection it returned (`ConnOwn`), and the warm standby that a CONNECT may get
instead (`StandbyOwn`).

`UDPFlowsProofs` proves for any ports, destinations and limits:

| theorem | statement |
|---|---|
| `SessionsKept` | `Spec => []NoSessionLeak` |
| `OneReplier` | `Spec => []SubscribedOnce` |

A session would leak if storing, pruning or closing the session of one port touched
that of another; `OnePort` says that the table and the handlers of one port only refer
to a session. `SubscribedOnce` counts; `Served` says the same with a unique witness.
It is kept because a destination that the session has forgotten but that is still
subscribed is about to be unsubscribed by its own handler (`Forgotten`), so nobody
subscribes it a second time.

`RawH2Proofs` proves for any window, batch, chunk and frame sizes, any amount of data
and any number of closers:

| theorem | statement |
|---|---|
| `CreditConserved` | `Spec => []WindowConserved` |
| `OneFrameWriter` | `Spec => []WmuExclusive` |
| `NothingTwice` | `Spec => []DataBound` |
| `TypesKept` | `Spec => []TypeOK` |

`WmuExclusive` says who holds `wmu`, `DataBound` that no byte is delivered twice; both
are defined there. The bytes on the wire are a sum over the sequence of frames, whose
behaviour under appending and removing a frame is proved by induction over its length.
That credit is conserved needs `Frames` (only DATA frames have a payload, and none
is in flight while the client waits for the SETTINGS), `AtHand` (what `readLoop` has in its hands at which
program counter), and `WindowBound`, which also holds after the connection is lost.

What is only model-checked: the liveness properties, since liveness under fairness is
outside what the prover can do.

## What is not modelled

- *HTTP/1.1 WebSocket* (ws_coder.go): a wrapper of a library. How it ends and cancels
  is in `TCPRelay`, `Session` and `WarmStandby`.
- *TUN device and network stack*: packet pumps around gVisor.
- *Encryption, HPACK, log and metric output, configuration parsing, socket marks,
  process wiring*: data or I/O without shared state; defaults appear in the
  assumptions and in the configurations. The smoothing of RTTs and the selection of
  the top N by score are abstracted to any value and any choice.
- In `RawH2` the padding of DATA frames (which the code does not count for its window
  updates) and TLS; in `UDPFlows` the end of the root context and the health of the
  upstream.
