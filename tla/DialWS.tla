-------------------------------- MODULE DialWS --------------------------------
(***************************************************************************)
(* DialWSStream (internal/ws.go): the choice of a transport from the flags *)
(* of the URL, and the HTTP/3 dial (internal/ws_h3.go) step by step, with  *)
(* the QUIC endpoint, connection, contexts and goroutines it creates.      *)
(* ProbeH3ExtendedConnect (internal/h3_healthcheck.go) takes the same      *)
(* steps in mode "probe".                                                  *)
(*                                                                         *)
(* One dial at a time: its caller is a module that extends this one.  HTTP/2 *)
(* and HTTP/1.1 dials are one step here; RawH2 has the former in detail.   *)
(***************************************************************************)
EXTENDS Integers

Scheme  == {"ws", "wss", "http", "https", "other"}
Flag    == {"h2", "h2only", "h3", "h3only", "connectonly"}
Profile == 1 .. 2   \* h3ClientStreamsControlAndQPACK, h3ClientStreamsControlOnly

VARIABLES
  ctx,    \* the context of the caller: its deadline and its state
  dial,   \* the call: pc, mode, flags, scheme, profile, transports tried
  att,    \* att[p]: what dialRFC9220Profile has created for profile p
  conn    \* the connection returned: kind, state, profile, and whether writes block

dialVars == <<ctx, dial, att, conn>>

NoDial == [pc |-> "idle", mode |-> "dial", flags |-> {}, scheme |-> "wss", profile |-> 1, tried |-> {}]
NoAttempt ==
  [ep |-> "none", qconn |-> "none", drainer |-> "none", reader |-> "none",
   watcher |-> "none", h3ctx |-> "none", detached |-> FALSE, settings |-> "none"]
NoConn == [kind |-> "none", state |-> "none", profile |-> 1, stalled |-> FALSE]

DialInit ==
  /\ dial = NoDial
  /\ att = [p \in Profile |-> NoAttempt]
  /\ conn = NoConn

-----------------------------------------------------------------------------
(* The choice of the transport.                                            *)

parseTransportHints(q) ==
  LET implied == (IF "h3only" \in q THEN {"h3", "connectonly"} ELSE {})
                   \cup (IF "h2only" \in q THEN {"h2", "connectonly"} ELSE {})
  IN  q \cup implied

isWebSocketLikeScheme(s) == s # "other"

\* The call is over; its locals go away.
Over(d, pc) == [NoDial EXCEPT !.pc = pc, !.mode = d.mode]
Try(d, t)   == [d EXCEPT !.pc = t, !.tried = @ \cup {t}]

\* Mutant of WithoutH3: connect=only is forgotten.
WithoutH3_Upgrades(d) ==
  IF "h2" \in d.flags /\ isWebSocketLikeScheme(d.scheme)
  THEN IF d.scheme \in {"ws", "wss"} THEN Try(d, "h2") ELSE Over(d, "failed")
  ELSE Try(d, "h1")

\* HTTP/2, for ws and wss only, else HTTP/1.1.  No failure of the former leads to
\* the latter: nothing returns errRFC8441NotSupported.
WithoutH3(d) ==
  IF "h2only" \in d.flags \/ ("h2" \in d.flags /\ isWebSocketLikeScheme(d.scheme))
  THEN IF d.scheme \in {"ws", "wss"} THEN Try(d, "h2") ELSE Over(d, "failed")
  ELSE IF "connectonly" \in d.flags THEN Over(d, "failed") ELSE Try(d, "h1")

\* HTTP/3 has failed: HTTP/2 is tried even if the URL does not ask for it.
AfterH3(d) ==
  IF "h3only" \in d.flags \/ d.mode = "probe" THEN Over(d, "failed")
  ELSE WithoutH3([d EXCEPT !.flags = @ \cup {"h2"}])

\* DialWSStream up to the first step that takes time.
Chosen(d) ==
  IF "h3" \in d.flags /\ isWebSocketLikeScheme(d.scheme)
  THEN IF d.scheme \in {"wss", "https"} THEN [Try(d, "h3") EXCEPT !.pc = "listen"]
       ELSE AfterH3([d EXCEPT !.tried = {"h3"}])
  ELSE IF "h3only" \in d.flags THEN Over(d, "failed") ELSE WithoutH3(d)

BeginDial(q, s) ==
  /\ dial.pc = "idle"
  /\ dial' = Chosen([NoDial EXCEPT !.flags = parseTransportHints(q), !.scheme = s])
  /\ UNCHANGED <<att, conn>>

BeginProbe ==
  /\ dial.pc = "idle"
  /\ dial' = [NoDial EXCEPT !.pc = "listen", !.mode = "probe", !.flags = {"h3"}, !.tried = {"h3"}]
  /\ UNCHANGED <<att, conn>>

\* The HTTP/2 or HTTP/1.1 dial returns.
TransportResult ==
  /\ dial.pc \in {"h2", "h1"}
  /\ \/ dial' = Over(dial, "failed") /\ UNCHANGED conn
     \/ /\ dial' = Over(dial, "ok")
        /\ conn' = [NoConn EXCEPT !.kind = dial.pc, !.state = "open"]
  /\ UNCHANGED <<ctx, att>>

-----------------------------------------------------------------------------
(* dialRFC9220Profile.                                                     *)

H3Pcs  == {"listen", "quic", "uni", "settings", "stream", "headers", "wait", "hint"}
H3Busy == dial.pc \in H3Pcs
p0     == dial.profile

Ctx3Done == att[p0].h3ctx # "live" \/ (~att[p0].detached /\ ctx.state # "live")

Closed(a) ==
  [a EXCEPT !.ep = IF @ = "open" THEN "closed" ELSE @,
            !.qconn = IF @ = "open" THEN "closed" ELSE @,
            !.drainer = IF @ = "run" THEN "stopped" ELSE @]

\* What the deferred calls leave of attempt a: a probe closes everything, a dial
\* stops the drainer and cancels h3ctx.
Left(a) ==
  LET b == IF dial.mode = "probe" THEN Closed(a)
           ELSE [a EXCEPT !.drainer = IF @ = "run" THEN "stopped" ELSE @]
  IN  [b EXCEPT !.h3ctx = "over", !.detached = FALSE, !.settings = "none",
                !.reader = IF @ = "reading" THEN @ ELSE "none"]

\* dialRFC9220Profile returns an error; dialRFC9220 retries after one kind of error.
H3Fails(a, err) ==
  /\ att' = [att EXCEPT ![p0] = Left(a)]
  /\ dial' = IF err = "frameOrder" /\ p0 = 1 /\ dial.mode = "dial"
             THEN [dial EXCEPT !.pc = "listen", !.profile = 2]
             ELSE AfterH3(dial)
  /\ UNCHANGED <<ctx, conn>>

\* The contexts, the goroutine that watches the caller's one, and quic.Listen.
H3Listen ==
  LET detached == dial.mode = "dial" /\ ctx.deadline = "short" /\ ctx.state = "live"
      a == [NoAttempt EXCEPT !.h3ctx = "live", !.detached = detached,
                             !.watcher = IF detached THEN "waiting" ELSE "none"]
  IN  /\ dial.pc = "listen"
      /\ \/ /\ att' = [att EXCEPT ![p0] = [a EXCEPT !.ep = "open"]]
            /\ dial' = [dial EXCEPT !.pc = "quic"]
            /\ UNCHANGED <<ctx, conn>>
         \/ H3Fails(a, "other")

\* ep.Dial succeeds, and the drainer starts.
H3Connected ==
  /\ dial.pc = "quic"
  /\ att' = [att EXCEPT ![p0].qconn = "open", ![p0].drainer = "run"]
  /\ dial' = [dial EXCEPT !.pc = "uni"]
  /\ UNCHANGED <<ctx, conn>>

\* The control stream with the SETTINGS and, with profile 1, the QPACK streams.
h3OpenClientUniStreams ==
  /\ dial.pc = "uni"
  /\ dial' = [dial EXCEPT !.pc = IF dial.mode = "probe" THEN "settings" ELSE "stream"]
  /\ UNCHANGED <<ctx, att, conn>>

\* A probe goes on only with SETTINGS of the peer that enable CONNECT; it waits for
\* h3HealthcheckPeerSettingsWait or the rest of its deadline.
waitSettings ==
  /\ dial.pc = "settings"
  /\ IF att[p0].settings = "on"
     THEN dial' = [dial EXCEPT !.pc = "stream"] /\ UNCHANGED <<ctx, att, conn>>
     ELSE H3Fails(att[p0], "other")

NewStream ==
  /\ dial.pc = "stream"
  /\ dial' = [dial EXCEPT !.pc = "headers"]
  /\ UNCHANGED <<ctx, att, conn>>

\* The CONNECT request is written, and the goroutine that reads the answer starts
\* (a probe reads it itself).
SendRequest ==
  /\ dial.pc = "headers"
  /\ dial' = [dial EXCEPT !.pc = "wait"]
  /\ att' = [att EXCEPT ![p0].reader = "reading"]
  /\ UNCHANGED <<ctx, conn>>

\* Mutant of H3Error: a failed ep.Dial leaves the endpoint open.
H3Error_KeepsEndpoint ==
  \/ dial.pc = "quic" /\ H3Fails(att[p0], "other")
  \/ /\ dial.pc \in {"uni", "stream", "headers"}
     /\ \E err \in {"frameOrder", "other"} : H3Fails(att[p0], err)

\* One of these steps fails, or its context ends.  Only a failed ep.Dial closes the
\* endpoint; the later exits leave endpoint and connection open.
H3Error ==
  \/ dial.pc = "quic" /\ H3Fails(Closed(att[p0]), "other")
  \/ /\ dial.pc \in {"uni", "stream", "headers"}
     /\ \E err \in {"frameOrder", "other"} : H3Fails(att[p0], err)

H3Aborted == Ctx3Done /\ H3Error

Result == {"ok", "refused", "frameOrder", "message", "other"}

\* The goroutine in h3ReadResponseHeaders: an answer, or the end of the connection.
Answer(p, r) ==
  /\ att[p].reader = "reading" /\ att[p].qconn = "open"
  /\ att' = [att EXCEPT ![p].reader = r]
  /\ UNCHANGED <<ctx, dial, conn>>

ReaderEnds(p) ==
  /\ att[p].reader = "reading" /\ att[p].qconn = "closed"
  /\ att' = [att EXCEPT ![p].reader = IF dial.pc = "wait" /\ p = p0 THEN "other" ELSE "none"]
  /\ UNCHANGED <<ctx, dial, conn>>

\* The select on h3ctx, which the probe does not have: it closes everything.
WaitDone ==
  /\ dial.pc = "wait" /\ dial.mode = "dial" /\ Ctx3Done
  /\ H3Fails(Closed(att[p0]), "other")

\* Established: the stream owns the endpoint, the connection and the drainer.
H3OK ==
  /\ dial.pc = "wait" /\ att[p0].reader = "ok"
  /\ dial' = Over(dial, "ok")
  /\ att' = [att EXCEPT ![p0] = [IF dial.mode = "probe" THEN Closed(@) ELSE @ EXCEPT
               !.h3ctx = "over", !.detached = FALSE, !.settings = "none", !.reader = "none"]]
  /\ conn' = IF dial.mode = "probe" THEN conn
             ELSE [NoConn EXCEPT !.kind = "h3", !.state = "open", !.profile = p0]
  /\ UNCHANGED ctx

\* The request is turned down.  An H3_MESSAGE_ERROR makes the dial wait for the SETTINGS.
H3Refused ==
  /\ dial.pc = "wait" /\ att[p0].reader \in Result \ {"ok"}
  /\ IF att[p0].reader = "message" /\ dial.mode = "dial"
     THEN dial' = [dial EXCEPT !.pc = "hint"] /\ UNCHANGED <<ctx, att, conn>>
     ELSE H3Fails(att[p0], att[p0].reader)

\* h3PeerSupportHint: SETTINGS or 150 ms, whichever comes first.
H3Hint == dial.pc = "hint" /\ H3Fails(att[p0], "other")

\* The goroutines the dial has started.
PeerSettings(b) ==
  /\ H3Busy /\ att[p0].drainer = "run" /\ att[p0].settings # b
  /\ att' = [att EXCEPT ![p0].settings = b]
  /\ UNCHANGED <<ctx, dial, conn>>

\* Mutant of WatcherFires: every end of the caller's context is ignored.
WatcherFires_Ignores(p) ==
  /\ att[p].watcher = "waiting" /\ ctx.state # "live"
  /\ att' = [att EXCEPT ![p].watcher = "ended"]
  /\ UNCHANGED <<ctx, dial, conn>>

\* "ignore the deadline; preserve explicit cancel"
WatcherFires(p) ==
  /\ att[p].watcher = "waiting" /\ ctx.state # "live"
  /\ att' = [att EXCEPT ![p].watcher = "ended",
                        ![p].h3ctx = IF @ = "live" /\ ctx.state = "cancelled" THEN "cancelled" ELSE @]
  /\ UNCHANGED <<ctx, dial, conn>>

\* h3HandshakeTimeout passes.
H3Timeout ==
  /\ H3Busy /\ dial.mode = "dial" /\ att[p0].h3ctx = "live"
  /\ att' = [att EXCEPT ![p0].h3ctx = "timedout"]
  /\ UNCHANGED <<ctx, dial, conn>>

-----------------------------------------------------------------------------
(* The connection and the caller's context.                                *)

\* Close of the connection by its owner: the stream is closed a moment later.
CloseConn == conn' = IF conn.state \in {"open", "lost"} THEN [conn EXCEPT !.state = "closing"] ELSE conn

\* Whether Close can return.  That of a framed connection writes a CLOSE frame, behind
\* the writer that holds c.mu, and sets its timer afterwards: not while the server
\* does not read.  The library's Close (h1) has a timeout of its own.
CanClose == conn.kind = "h1" \/ ~conn.stalled

\* h3wsStream.Close: drainer, stream, connection, endpoint.
StreamClosed ==
  /\ conn' = [conn EXCEPT !.state = "closed", !.stalled = FALSE]
  /\ att' = IF conn.kind = "h3" THEN [att EXCEPT ![conn.profile] = Closed(@)] ELSE att

StreamCloses ==
  /\ conn.state = "closing" /\ CanClose
  /\ StreamClosed
  /\ UNCHANGED <<ctx, dial>>

\* The transport breaks; or the server's CLOSE makes the reader of a framed
\* connection echo it and close the stream.
ConnEnds ==
  /\ conn.state = "open"
  /\ \/ conn' = [conn EXCEPT !.state = "lost", !.stalled = FALSE] /\ UNCHANGED att
     \/ conn.kind # "h1" /\ CanClose /\ StreamClosed
  /\ UNCHANGED <<ctx, dial>>

CtxEnds(s) ==
  /\ ctx.state = "live"
  /\ s = "expired" => ctx.deadline # "none"
  /\ ctx' = [ctx EXCEPT !.state = s]
  /\ UNCHANGED <<dial, att, conn>>

DialStep ==
  \/ TransportResult \/ H3Listen \/ H3Connected \/ H3Error
  \/ h3OpenClientUniStreams \/ waitSettings \/ NewStream \/ SendRequest
  \/ WaitDone \/ H3OK \/ H3Refused \/ H3Hint
  \/ \E p \in Profile : ReaderEnds(p) \/ WatcherFires(p) \/ \E r \in Result : Answer(p, r)
  \/ \E b \in {"on", "off"} : PeerSettings(b)
  \/ H3Timeout \/ StreamCloses \/ ConnEnds
  \/ \E s \in {"cancelled", "expired"} : CtxEnds(s)

\* Goroutines run, a blocking call notices the end of its context, timers shorter
\* than the dial fire.  The server and h3HandshakeTimeout are not assumed to help.
DialFairness ==
  /\ WF_dialVars(H3Listen) /\ WF_dialVars(H3Aborted) /\ WF_dialVars(waitSettings)
  /\ WF_dialVars(WaitDone) /\ WF_dialVars(H3OK) /\ WF_dialVars(H3Refused) /\ WF_dialVars(H3Hint)
  /\ \A p \in Profile : WF_dialVars(ReaderEnds(p)) /\ WF_dialVars(WatcherFires(p))
  /\ WF_dialVars(StreamCloses)

-----------------------------------------------------------------------------
\* The transports a dial may try, by the flags of its URL: with h3=only HTTP/3 alone;
\* with h2=only HTTP/2 alone, unless the URL asks for HTTP/3 as well; with connect=only
\* or h2=only never HTTP/1.1; HTTP/3 when asked for only.  (README: "`?h3=only` ->
\* strict h3 mode (no fallback)", "`?connect=only` -> allow only Extended CONNECT (h2/h3),
\* block HTTP/1.1 Upgrade fallback".  "`?h2=only` -> strict h2 mode (no fallback)" holds
\* without an h3 flag: with one, ws.go:75 dials and may return HTTP/3.)
TransportsAllowed ==
  /\ "h3only" \in dial.flags => dial.tried \subseteq {"h3"}
  /\ "h2only" \in dial.flags /\ "h3" \notin dial.flags => dial.tried \subseteq {"h2"}
  /\ {"connectonly", "h2only"} \cap dial.flags # {} => "h1" \notin dial.tried
  /\ "h3" \in dial.tried => "h3" \in dial.flags

Working(p) == H3Busy /\ p = p0
Backing(p) == conn.kind = "h3" /\ conn.profile = p /\ conn.state # "closed"

\* What an HTTP/3 dial or probe creates has an owner, the call or the connection it
\* returned, on all exits and in all orders: the drainer always; the endpoint unless
\* a dial fails between the QUIC handshake and the answer (those exits of
\* dialRFC9220Profile close neither endpoint nor connection).
DialOwns ==
  \A p \in Profile :
    /\ att[p].drainer = "run" => Working(p) \/ Backing(p)
    /\ att[p].ep = "open" => Working(p) \/ Backing(p) \/ (att[p].qconn = "open" /\ dial.mode = "dial")
    /\ Backing(p) => att[p].ep = "open" /\ att[p].qconn = "open" /\ att[p].drainer = "run"

\* An explicit cancel ends an HTTP/3 dial without the help of h3HandshakeTimeout,
\* also when the dial has been detached from a short deadline (dialRFC9220Profile:
\* "Keep context values but ignore the deadline; preserve explicit cancel").
CancelHonoured == H3Busy /\ dial.mode = "dial" /\ ctx.state = "cancelled" ~> ~H3Busy
=============================================================================
