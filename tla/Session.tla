-------------------------------- MODULE Session --------------------------------
(***************************************************************************)
(* One user of DialWS: a SOCKS5 connection (HandleConn of                  *)
(* internal/socks5.go) from its handshake to its end, with the UDP         *)
(* association it may open (internal/outline_udp.go), or a probe of the    *)
(* health checker.  The relay of a CONNECT is one state here, TCPRelay has *)
(* it in detail; the pick is one step, see Selection.                      *)
(***************************************************************************)
EXTENDS DialWS, Sequences

CONSTANT Sender   \* addresses that send datagrams to the relay port of an association

NoPeer == "none"
ASSUME SenderAssumption == NoPeer \notin Sender

VARIABLES
  user,       \* "socks" or a probe: "ProbeWSS", "ProbeH3ExtendedConnect", "ProbeQuality"
  client,     \* the client's TCP connection: "open", "eof" (half-closed) or "reset"
  srv,        \* HandleConn: "handshake", "request", "pick", "dial", "serve", "closing", "done"
  cmd,        \* the request, once it has been read
  replies,    \* history: the codes written with socks5Reply
  uc,         \* the UDP socket of the association
  up,         \* readFromClientLoop: "off", "run", "write" (in a write upstream), "ended"
  down,       \* readFromUpstreamLoop
  peerUDP,
  delivered   \* history: addresses that got a datagram

udpVars == <<uc, up, down, peerUDP, delivered>>
vars == <<dialVars, user, client, srv, cmd, replies, udpVars>>

\* A flow and an association have the root context, which has no deadline; the
\* health checker sets one.
Init ==
  /\ DialInit
  /\ \/ /\ user = "socks" /\ srv = "handshake"
        /\ ctx = [deadline |-> "none", state |-> "live"]
     \/ /\ user \in {"ProbeWSS", "ProbeH3ExtendedConnect", "ProbeQuality"} /\ srv = "pick"
        /\ \E d \in {"short", "long"} : ctx = [deadline |-> d, state |-> "live"]
  /\ client = "open" /\ cmd = "none" /\ replies = <<>>
  /\ uc = "none" /\ up = "off" /\ down = "off"
  /\ peerUDP = NoPeer /\ delivered = {}

-----------------------------------------------------------------------------
(* Handshake and request.                                                  *)

\* socks5Reply: fails when the client has reset the connection.
Reply(code) == replies' = IF client = "reset" THEN replies ELSE Append(replies, code)

\* socks5Handshake: accepted; or a bad version, no acceptable method, a read error
\* or the deadline of 10 s, which is lifted afterwards.
Handshake ==
  /\ srv = "handshake"
  /\ \/ client # "reset" /\ srv' = "request"
     \/ srv' = "done"
  /\ UNCHANGED <<dialVars, user, client, cmd, replies, udpVars>>

\* Mutant of Request: an unsupported command is dropped silently.
Request_Silent(c) ==
  /\ srv = "request" /\ client # "reset"
  /\ cmd' = c
  /\ srv' = IF c = "other" THEN "done" ELSE "pick"
  /\ UNCHANGED <<dialVars, user, client, replies, udpVars>>

\* socks5ReadRequest and the dispatch of HandleConn.
Request(c) ==
  /\ srv = "request" /\ client # "reset"
  /\ cmd' = c
  /\ IF c = "other" THEN Reply(7) /\ srv' = "done" ELSE srv' = "pick" /\ UNCHANGED replies
  /\ UNCHANGED <<dialVars, user, client, udpVars>>

\* A bad version or address type; or the client has gone.  There is no deadline.
RequestFails ==
  /\ srv = "request"
  /\ srv' = "done"
  /\ UNCHANGED <<dialVars, user, client, cmd, replies, udpVars>>

-----------------------------------------------------------------------------
(* handleConnect, handleUDPAssociate and the probes.                       *)

\* Mutant of Refuse: the association's socket is left open.
Refuse_KeepsSocket ==
  /\ srv' = "done"
  /\ IF user = "socks" THEN Reply(4) ELSE UNCHANGED replies
  /\ UNCHANGED <<uc, up, down, peerUDP, delivered>>

\* No upstream, no socket or no connection: the client is told, nothing is left.
Refuse ==
  /\ srv' = "done"
  /\ IF user = "socks" THEN Reply(4) ELSE UNCHANGED replies
  /\ uc' = IF uc = "open" THEN "closed" ELSE uc
  /\ UNCHANGED <<up, down, peerUDP, delivered>>

Established == [NoAttempt EXCEPT !.ep = "open", !.qconn = "open", !.drainer = "run", !.h3ctx = "over"]

\* PickTCP or PickUDP, net.ListenPacket, then a dial.  A CONNECT may be given a warm
\* standby connection instead.
Pick ==
  /\ srv = "pick"
  /\ \/ user = "socks" /\ Refuse /\ UNCHANGED dialVars
     \/ /\ cmd = "connect"
        /\ \E k \in {"h1", "h2", "h3"} :
             /\ conn' = [NoConn EXCEPT !.kind = k, !.state = "open"]
             /\ att' = IF k = "h3" THEN [att EXCEPT ![1] = Established] ELSE att
        /\ dial' = Over(dial, "ok") /\ srv' = "dial"
        /\ UNCHANGED <<ctx, replies, udpVars>>
     \/ /\ IF user = "ProbeH3ExtendedConnect" THEN BeginProbe
           ELSE \E q \in SUBSET Flag, s \in Scheme : BeginDial(q, s)
        /\ srv' = "dial"
        /\ uc' = IF cmd = "udp" THEN "open" ELSE uc
        /\ UNCHANGED <<ctx, replies, up, down, peerUDP, delivered>>
  /\ UNCHANGED <<user, client, cmd>>

\* The deferred cancel of a probe's caller, and that of an association.
CancelOwn ==
  ctx' = IF (user # "socks" \/ cmd = "udp") /\ ctx.state = "live" THEN [ctx EXCEPT !.state = "cancelled"] ELSE ctx

\* UDPAssociation.Close (the loops see its four calls in any order anyway), or the
\* deferred Close of the flow's connection.
CloseAll ==
  /\ CancelOwn /\ CloseConn
  /\ uc' = IF uc = "open" THEN "closed" ELSE uc

\* The dial has failed; or, for an association, the cipher is not known.
DialFailed ==
  /\ srv = "dial"
  /\ \/ dial.pc = "failed" /\ UNCHANGED conn
     \/ dial.pc = "ok" /\ cmd = "udp" /\ CloseConn
  /\ Refuse
  /\ CancelOwn
  /\ UNCHANGED <<dial, att, user, client, cmd>>

\* A transport probe closes the connection it got and its caller cancels the
\* context; a quality probe sends its query.
ProbeOK ==
  /\ srv = "dial" /\ dial.pc = "ok" /\ user # "socks"
  /\ IF user = "ProbeQuality" THEN srv' = "serve" /\ UNCHANGED <<ctx, conn>>
     ELSE srv' = "done" /\ CloseConn /\ CancelOwn
  /\ UNCHANGED <<dial, att, user, client, cmd, replies, udpVars>>

\* ProbeTCPQuality and ProbeUDPQuality return: an answer comes, the right one or
\* one that fails the probe; or the connection goes; or the context ends, which a
\* framed transport does not notice before the next message.
QualityEnds ==
  /\ srv = "serve" /\ user = "ProbeQuality"
  /\ \/ conn.state \in {"open", "lost", "closed"}
     \/ ctx.state # "live" /\ conn.kind = "h1"
  /\ CloseConn /\ CancelOwn
  /\ srv' = "done"
  /\ UNCHANGED <<dial, att, user, client, cmd, replies, udpVars>>

\* Success is reported; the loops of an association run already.
DialOK ==
  /\ srv = "dial" /\ dial.pc = "ok" /\ user = "socks"
  /\ Reply(0)
  /\ IF cmd = "udp" THEN up' = "run" /\ down' = "run" ELSE UNCHANGED <<up, down>>
  /\ IF client = "reset" THEN CloseAll /\ srv' = "done" ELSE srv' = "serve" /\ UNCHANGED <<ctx, conn, uc>>
  /\ UNCHANGED <<dial, att, user, client, cmd, peerUDP, delivered>>

\* The control connection of an association ends, or the relay does: when the
\* client resets, when the transport fails, or when both peers have ended.
ServeEnds ==
  /\ srv = "serve"
  /\ \/ cmd = "udp" /\ client # "open"
     \/ cmd = "connect" /\ (client = "reset" \/ conn.state = "lost" \/ (client = "eof" /\ conn.state # "open"))
  /\ CloseAll
  /\ srv' = "closing"
  /\ UNCHANGED <<dial, att, user, client, cmd, replies, up, down, peerUDP, delivered>>

\* The deferred Close returns, and the handler with it.
CloseReturns ==
  /\ srv = "closing" /\ CanClose
  /\ srv' = "done"
  /\ UNCHANGED <<dialVars, user, client, cmd, replies, udpVars>>

-----------------------------------------------------------------------------
(* The loops of an association.                                            *)

\* Mutant of FromClient: every datagram sets the peer.
FromClient_Latest(s, wellFormed) ==
  /\ up = "run" /\ uc = "open"
  /\ peerUDP' = s
  /\ up' = IF wellFormed THEN "write" ELSE "run"
  /\ UNCHANGED <<dialVars, user, client, srv, cmd, replies, uc, down, delivered>>

\* readFromClientLoop: a datagram of at least 8 bytes (others are skipped) sets the
\* peer if there is none, well-formed or not; a well-formed one is written upstream.
FromClient(s, wellFormed) ==
  /\ up = "run" /\ uc = "open"
  /\ peerUDP' = IF peerUDP = NoPeer THEN s ELSE peerUDP
  /\ up' = IF wellFormed THEN "write" ELSE "run"
  /\ UNCHANGED <<dialVars, user, client, srv, cmd, replies, uc, down, delivered>>

\* The write of a datagram fails after a Close or the end of the context, and sooner
\* or later on a broken transport; an error ends the loop.
AfterWrite ==
  IF conn.state \in {"closing", "closed"} \/ ctx.state # "live" THEN {"ended"}
  ELSE IF conn.state = "lost" THEN {"run", "ended"} ELSE {"run"}

\* The write returns: not while the server does not read, except that the library
\* (h1) looks at the context meanwhile.
UpWrites ==
  /\ up = "write"
  /\ ~conn.stalled \/ (conn.kind = "h1" /\ ctx.state # "live")
  /\ up' \in AfterWrite
  /\ UNCHANGED <<dialVars, user, client, srv, cmd, replies, uc, down, peerUDP, delivered>>

UpEnds ==
  /\ up = "run" /\ uc = "closed"
  /\ up' = "ended"
  /\ UNCHANGED <<dialVars, user, client, srv, cmd, replies, uc, down, peerUDP, delivered>>

\* readFromUpstreamLoop: a message arrives; without a peer it is dropped.  A framed
\* transport does not notice the end of the context before the next Read.
FromUpstream ==
  /\ down = "run" /\ conn.state \in {"open", "closing"}
  /\ ctx.state = "live" \/ conn.kind # "h1"
  /\ delivered' = IF peerUDP = NoPeer \/ uc # "open" THEN delivered ELSE delivered \cup {peerUDP}
  /\ down' = IF ctx.state = "live" THEN "run" ELSE "ended"
  /\ UNCHANGED <<dialVars, user, client, srv, cmd, replies, uc, up, peerUDP>>

\* The read fails: the connection has gone, or the context has ended before it.
DownEnds ==
  /\ down = "run"
  /\ conn.state \in {"lost", "closed"} \/ ctx.state # "live"
  /\ down' = "ended"
  /\ UNCHANGED <<dialVars, user, client, srv, cmd, replies, uc, up, peerUDP, delivered>>

-----------------------------------------------------------------------------
ClientEnds ==
  /\ user = "socks" /\ client # "reset"
  /\ client' \in {"eof", "reset"} \ {client}
  /\ UNCHANGED <<dialVars, user, srv, cmd, replies, udpVars>>

\* The server stops reading while data is sent to it, and the buffers on the way fill
\* up; it reads again, or the connection breaks under the blocked writer.
ServerStalls ==
  /\ user = "socks" /\ srv = "serve" /\ conn.state = "open" /\ ~conn.stalled
  /\ conn' = [conn EXCEPT !.stalled = TRUE]
  /\ UNCHANGED <<ctx, dial, att, user, client, srv, cmd, replies, udpVars>>

ServerReads ==
  /\ conn.stalled
  /\ conn' = [conn EXCEPT !.stalled = FALSE]
  /\ UNCHANGED <<ctx, dial, att, user, client, srv, cmd, replies, udpVars>>

Next ==
  \/ Handshake \/ RequestFails \/ \E c \in {"connect", "udp", "other"} : Request(c)
  \/ Pick \/ DialFailed \/ ProbeOK \/ QualityEnds \/ DialOK \/ ServeEnds \/ CloseReturns
  \/ \E s \in Sender, w \in BOOLEAN : FromClient(s, w)
  \/ UpWrites \/ UpEnds \/ FromUpstream \/ DownEnds
  \/ ClientEnds \/ ServerStalls \/ ServerReads
  \/ DialStep /\ UNCHANGED <<user, client, srv, cmd, replies, udpVars>>

Spec == Init /\ [][Next]_vars

\* HandleConn runs, a read notices that its connection has gone, the deadline of the
\* handshake fires, calls that can return do.  A relay blocked in a write to a server
\* that does not read need not notice its client, and nothing makes the server read.
Fairness ==
  /\ DialFairness
  /\ WF_vars(Handshake) /\ WF_vars(client # "open" /\ RequestFails)
  /\ WF_vars(Pick) /\ WF_vars(DialFailed) /\ WF_vars(ProbeOK) /\ WF_vars(DialOK)
  /\ WF_vars((cmd = "udp" \/ ~conn.stalled) /\ ServeEnds) /\ WF_vars(CloseReturns)
  /\ WF_vars((conn.state # "open" \/ (ctx.state # "live" /\ conn.kind = "h1")) /\ QualityEnds)
  /\ WF_vars(UpWrites) /\ WF_vars(UpEnds)
  /\ WF_vars((conn.state \in {"lost", "closed"} \/ conn.kind = "h1") /\ DownEnds)

FairSpec == Spec /\ Fairness

-----------------------------------------------------------------------------
TypeOK ==
  /\ ctx \in [deadline : {"none", "short", "long"}, state : {"live", "cancelled", "expired"}]
  /\ dial.pc \in {"idle", "h1", "h2", "ok", "failed"} \cup H3Pcs
  /\ conn \in [kind : {"none", "h1", "h2", "h3"}, profile : Profile,
               state : {"none", "open", "lost", "closing", "closed"}, stalled : BOOLEAN]
  /\ srv \in {"handshake", "request", "pick", "dial", "serve", "closing", "done"}
  /\ peerUDP \in Sender \cup {NoPeer} /\ delivered \subseteq Sender

\* Every request that was read gets exactly one reply, whichever step fails, unless
\* the client resets first; a success is announced only with a connection.
RequestAnswered ==
  /\ Len(replies) <= 1
  /\ srv = "done" /\ cmd # "none" /\ client # "reset" => Len(replies) = 1
  /\ replies = <<0>> => conn.kind # "none"

\* All datagrams of an association go to the address that wrote to it first.
OnePeer == \A s \in delivered : s = peerUDP

ClientGone == client = "reset" \/ (client = "eof" /\ cmd = "udp")

\* Nothing of a client's session is left.
Released ==
  /\ srv = "done" /\ uc # "open"
  /\ up \in {"off", "ended"} /\ down # "run" /\ conn.state \in {"none", "closed"}

\* A client that resets, or ends the control connection of an association, is
\* followed by the end of the handler and of both loops, and its socket and its
\* connection are closed, wherever the session is.  A probe whose context has ended
\* returns and closes its connection, unless it waits for the answer over a framed
\* transport or in ProbeH3ExtendedConnect.  The premises: HTTP/2 and HTTP/1.1 dials
\* return, h3HandshakeTimeout fires, and, for the client's session, the server does
\* not stop reading for good.  With a server that does, an association over HTTP/1.1
\* is released all the same; over a framed transport a writer keeps c.mu and Close
\* waits for it (outline_udp.go:73, ws_h2.go:165), and a relay may not notice.
SessionReleases ==
  WF_dialVars(TransportResult) /\ WF_dialVars(H3Timeout) =>
    /\ <>[]~conn.stalled => (ClientGone ~> Released)
    /\ ClientGone ~> Released \/ (conn.stalled /\ (conn.kind # "h1" \/ cmd = "connect"))
    /\ (user # "socks" /\ ctx.state # "live"
          ~> \/ srv = "done" /\ conn.state \in {"none", "closed"}
             \/ srv = "serve" /\ conn.kind # "h1"
             \/ user = "ProbeH3ExtendedConnect" /\ dial.pc = "wait")
=============================================================================
