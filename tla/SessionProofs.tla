---------------------------- MODULE SessionProofs ----------------------------
(***************************************************************************)
(* Theorems about Session and the dial it makes, for any set of senders.   *)
(***************************************************************************)
EXTENDS Session, TLAPS

Transport  == {"h1", "h2", "h3"}
DialRecord == [pc : {"idle", "h1", "h2", "ok", "failed"} \cup H3Pcs, mode : {"dial", "probe"},
               flags : SUBSET Flag, scheme : Scheme, profile : Profile, tried : SUBSET Transport]
ConnRecord == [kind : Transport \cup {"none"}, profile : Profile,
               state : {"none", "open", "lost", "closing", "closed"}, stalled : BOOLEAN]

\* TransportsAllowed of a call d, and what makes it inductive: while the HTTP/3 dial runs
\* it is the only transport that has been tried, and it was asked for.
Strict(d) ==
  /\ "h3only" \in d.flags => d.tried \subseteq {"h3"}
  /\ "h2only" \in d.flags /\ "h3" \notin d.flags => d.tried \subseteq {"h2"}
  /\ {"connectonly", "h2only"} \cap d.flags # {} => "h1" \notin d.tried
  /\ "h3" \in d.tried => "h3" \in d.flags
  /\ d.pc \in H3Pcs => d.tried = {"h3"} /\ "h3" \in d.flags

\* A dial that has succeeded has set the connection.
DialInv ==
  /\ dial \in DialRecord /\ conn \in ConnRecord
  /\ Strict(dial)
  /\ dial.pc = "ok" /\ dial.mode = "dial" => conn.kind # "none"

Reading == Result \cup {"none", "reading"}
Attempt == [ep : {"none", "open", "closed"}, qconn : {"none", "open", "closed"},
            drainer : {"none", "run", "stopped"}, reader : Reading,
            watcher : {"none", "waiting", "ended"},
            h3ctx : {"none", "live", "over", "cancelled", "timedout"},
            detached : BOOLEAN, settings : {"none", "on", "off"}]

\* DialOwns, and what makes it inductive: the connection exists once the dial has
\* succeeded, nothing exists before the dial, and an HTTP/3 dial holds what the steps
\* it has taken have created.
Owned ==
  /\ att \in [Profile -> Attempt]
  /\ DialOwns
  /\ dial.pc # "ok" => conn.kind = "none" /\ conn.state = "none"
  /\ dial.pc = "idle" => \A p \in Profile : att[p] = NoAttempt
  /\ dial.pc \in H3Pcs \ {"listen"} => att[p0].ep = "open"
  /\ dial.pc \in H3Pcs \ {"listen", "quic"} => att[p0].qconn = "open" /\ att[p0].drainer = "run"

\* A session dials once.
DialsOnce == srv \in {"handshake", "request", "pick"} => dial.pc = "idle"

\* There is no reply before the end of the dial, and a success while a client is
\* served.  Only a client has a request.
AnswerInv ==
  /\ replies \in {<<>>, <<0>>, <<4>>, <<7>>}
  /\ srv \in {"handshake", "request", "pick", "dial"} => replies = <<>>
  /\ srv \in {"handshake", "request"} => cmd = "none" /\ user = "socks"
  /\ user # "socks" => cmd = "none"
  /\ user = "socks" => dial.mode = "dial"
  /\ srv \in {"serve", "closing"} /\ user = "socks" => replies = <<0>>
  /\ srv = "closing" => user = "socks"
  /\ srv = "done" /\ cmd # "none" /\ client # "reset" => replies # <<>>
  /\ replies = <<0>> => conn.kind # "none"

\* Nothing has been delivered before there is a peer.
PeerInv == NoPeer \notin delivered /\ OnePeer

-----------------------------------------------------------------------------
(* The choice of the transport.                                            *)

LEMMA EmptyTyped ==
  /\ NoConn \in ConnRecord
  /\ NoDial \in DialRecord /\ NoDial.mode = "dial" /\ NoDial.flags = {} /\ NoDial.tried = {}
  /\ 2 \in Profile
  BY DEF NoConn, ConnRecord, NoDial, DialRecord, Scheme, Profile

LEMMA OverStrict ==
  ASSUME NEW d \in DialRecord, NEW pc \in {"ok", "failed"}
  PROVE  /\ Over(d, pc) \in DialRecord /\ Strict(Over(d, pc))
         /\ Over(d, pc).mode = d.mode /\ Over(d, pc).pc = pc
  <1>1. /\ Over(d, pc) \in DialRecord /\ Over(d, pc).flags = {} /\ Over(d, pc).tried = {}
        /\ Over(d, pc).mode = d.mode /\ Over(d, pc).pc = pc
    BY EmptyTyped, ZenonT(60) DEF Over, DialRecord
  <1> QED
    BY <1>1 DEF Strict, H3Pcs

LEMMA TryStrict ==
  ASSUME NEW d \in DialRecord, NEW t \in {"h1", "h2"}, "h3" \in d.tried => "h3" \in d.flags,
         d.tried \subseteq {"h3"}, "h3only" \notin d.flags,
         t = "h1" => {"connectonly", "h2only"} \cap d.flags = {}
  PROVE  /\ Try(d, t) \in DialRecord /\ Strict(Try(d, t))
         /\ Try(d, t).mode = d.mode /\ Try(d, t).pc # "ok"
  <1>1. /\ Try(d, t) \in DialRecord
        /\ Try(d, t).pc = t /\ Try(d, t).flags = d.flags /\ Try(d, t).mode = d.mode
        /\ Try(d, t).tried = d.tried \cup {t}
    BY ZenonT(60) DEF Try, DialRecord, Transport
  <1> QED
    BY <1>1 DEF Strict, H3Pcs

LEMMA WithoutH3Strict ==
  ASSUME NEW d \in DialRecord, "h3" \in d.tried => "h3" \in d.flags, d.tried \subseteq {"h3"},
         "h3only" \notin d.flags
  PROVE  /\ WithoutH3(d) \in DialRecord /\ Strict(WithoutH3(d))
         /\ WithoutH3(d).mode = d.mode /\ WithoutH3(d).pc # "ok"
  BY OverStrict, TryStrict DEF WithoutH3

LEMMA AfterH3Strict ==
  ASSUME NEW d \in DialRecord, d.tried = {"h3"}, "h3" \in d.flags
  PROVE  /\ AfterH3(d) \in DialRecord /\ Strict(AfterH3(d))
         /\ AfterH3(d).mode = d.mode /\ AfterH3(d).pc # "ok"
  <1> DEFINE e == [d EXCEPT !.flags = @ \cup {"h2"}]
  <1>1. /\ e \in DialRecord /\ e.tried = d.tried /\ e.flags = d.flags \cup {"h2"}
        /\ e.mode = d.mode
    BY DEF DialRecord, Flag
  <1>2. AfterH3(d) = IF "h3only" \in d.flags \/ d.mode = "probe" THEN Over(d, "failed") ELSE WithoutH3(e)
    BY DEF AfterH3
  <1> HIDE DEF e
  <1>3. CASE "h3only" \in d.flags \/ d.mode = "probe"
    BY <1>2, <1>3, OverStrict
  <1>4. CASE ~("h3only" \in d.flags \/ d.mode = "probe")
    BY <1>1, <1>2, <1>4, WithoutH3Strict
  <1> QED
    BY <1>3, <1>4

LEMMA ChosenStrict ==
  ASSUME NEW d \in DialRecord, d.tried = {}
  PROVE  /\ Chosen(d) \in DialRecord /\ Strict(Chosen(d))
         /\ Chosen(d).mode = d.mode /\ Chosen(d).pc # "ok"
  <1>1. CASE "h3" \in d.flags /\ isWebSocketLikeScheme(d.scheme) /\ d.scheme \in {"wss", "https"}
    <2>1. Chosen(d) = [Try(d, "h3") EXCEPT !.pc = "listen"]
      BY <1>1 DEF Chosen
    <2> DEFINE t == Try(d, "h3")
    <2>2. /\ t \in [pc : {"h3"}, mode : {"dial", "probe"}, flags : SUBSET Flag, scheme : Scheme,
                   profile : Profile, tried : SUBSET Transport]
          /\ t.mode = d.mode /\ t.tried = {"h3"} /\ t.flags = d.flags
      <3>1. t = [d EXCEPT !.pc = "h3", !.tried = d.tried \cup {"h3"}]
        BY DEF Try
      <3>2. d.tried \cup {"h3"} = {"h3"} /\ {"h3"} \in SUBSET Transport
        BY DEF Transport
      <3>3. t = [d EXCEPT !.pc = "h3", !.tried = {"h3"}]
        BY <3>1, <3>2, Zenon
      <3> HIDE DEF t
      <3> QED
        BY <3>2, <3>3, ZenonT(60) DEF DialRecord
    <2>3. Chosen(d) = [t EXCEPT !.pc = "listen"] /\ "listen" \in H3Pcs
      BY <2>1 DEF H3Pcs
    <2> HIDE DEF t
    <2>4. /\ Chosen(d) \in DialRecord /\ Chosen(d).pc = "listen" /\ Chosen(d).mode = d.mode
          /\ Chosen(d).tried = {"h3"} /\ Chosen(d).flags = d.flags
      BY <2>2, <2>3 DEF DialRecord
    <2> QED
      BY <1>1, <2>4 DEF Strict
  <1>2. CASE "h3" \in d.flags /\ isWebSocketLikeScheme(d.scheme) /\ d.scheme \notin {"wss", "https"}
    <2> DEFINE e == [d EXCEPT !.tried = {"h3"}]
    <2>1. e \in DialRecord /\ e.tried = {"h3"} /\ e.flags = d.flags /\ e.mode = d.mode
      BY DEF DialRecord, Transport
    <2>2. Chosen(d) = AfterH3(e)
      BY <1>2 DEF Chosen
    <2> HIDE DEF e
    <2> QED
      BY <1>2, <2>1, <2>2, AfterH3Strict
  <1>3. CASE ~("h3" \in d.flags /\ isWebSocketLikeScheme(d.scheme))
    BY <1>3, OverStrict, WithoutH3Strict DEF Chosen
  <1> QED
    BY <1>1, <1>2, <1>3

-----------------------------------------------------------------------------
(* The dial.                                                               *)

\* What every step of the dial keeps.
DialKept == DialInv' /\ dial'.mode = dial.mode /\ (conn.kind # "none" => conn'.kind # "none")

LEMMA DialBegins ==
  ASSUME DialInv
  PROVE  /\ BeginProbe => DialInv' /\ conn' = conn
         /\ \A q \in SUBSET Flag, s \in Scheme :
              BeginDial(q, s) => DialInv' /\ conn' = conn /\ dial'.mode = "dial"
  <1>1. ASSUME BeginProbe PROVE DialInv' /\ conn' = conn
    <2>1. /\ dial' \in DialRecord /\ dial'.pc = "listen" /\ dial'.flags = {"h3"} /\ dial'.tried = {"h3"}
          /\ conn' = conn
      <3>1. dial' = [NoDial EXCEPT !.pc = "listen", !.mode = "probe", !.flags = {"h3"}, !.tried = {"h3"}]
        BY <1>1 DEF BeginProbe
      <3>2. {"h3"} \in SUBSET Flag /\ {"h3"} \in SUBSET Transport
        BY DEF Flag, Transport
      <3> QED
        BY <1>1, <3>1, <3>2, EmptyTyped, ZenonT(60) DEF BeginProbe, DialRecord, H3Pcs
    <2>2. Strict(dial')
      BY <2>1 DEF Strict
    <2>3. Strict(dial)'
      BY <2>2 DEF Strict
    <2> QED
      BY <1>1, <2>1, <2>3 DEF DialInv
  <1>2. ASSUME NEW q \in SUBSET Flag, NEW s \in Scheme, BeginDial(q, s)
        PROVE  DialInv' /\ conn' = conn /\ dial'.mode = "dial"
    <2> DEFINE d == [NoDial EXCEPT !.flags = parseTransportHints(q), !.scheme = s]
    <2>1. parseTransportHints(q) \in SUBSET Flag
      BY DEF parseTransportHints, Flag
    <2>2. d \in DialRecord /\ d.tried = {} /\ d.mode = "dial"
      BY <2>1, EmptyTyped, ZenonT(60) DEF DialRecord
    <2>3. dial' = Chosen(d) /\ conn' = conn
      BY <1>2 DEF BeginDial
    <2> HIDE DEF d
    <2>4. dial' \in DialRecord /\ Strict(dial') /\ dial'.mode = "dial" /\ dial'.pc # "ok"
      BY <2>2, <2>3, ChosenStrict
    <2>5. Strict(dial)'
      BY <2>4 DEF Strict
    <2> QED
      BY <2>3, <2>4, <2>5 DEF DialInv
  <1> QED
    BY <1>1, <1>2

\* The HTTP/3 dial goes on to its next step.
LEMMA Proceeds ==
  ASSUME DialInv, H3Busy, NEW pc \in H3Pcs, dial' = [dial EXCEPT !.pc = pc], conn' = conn
  PROVE  DialKept
  <1>1. /\ dial' \in DialRecord /\ dial'.pc = pc /\ dial'.mode = dial.mode
        /\ dial'.flags = dial.flags /\ dial'.tried = dial.tried
    BY DEF DialInv, DialRecord
  <1>2. Strict(dial)'
    BY <1>1 DEF DialInv, Strict, H3Busy
  <1> QED
    BY <1>1, <1>2 DEF DialInv, DialKept, H3Pcs

\* It fails: the second profile, the next transport, or the end.
LEMMA FailsKeeps ==
  ASSUME DialInv, H3Busy, NEW a, NEW err, H3Fails(a, err)
  PROVE  DialKept
  <1>1. conn' = conn
    BY DEF H3Fails
  <1>2. CASE err = "frameOrder" /\ p0 = 1 /\ dial.mode = "dial"
    <2>1. dial' = [dial EXCEPT !.pc = "listen", !.profile = 2]
      BY <1>2 DEF H3Fails
    <2>2. /\ dial' \in DialRecord /\ dial'.pc = "listen" /\ dial'.mode = dial.mode
          /\ dial'.flags = dial.flags /\ dial'.tried = dial.tried
      BY <2>1, EmptyTyped, ZenonT(60) DEF DialInv, DialRecord, H3Pcs
    <2>3. Strict(dial)'
      BY <2>2 DEF DialInv, Strict, H3Busy
    <2> QED
      BY <1>1, <2>2, <2>3 DEF DialInv, DialKept
  <1>3. CASE ~(err = "frameOrder" /\ p0 = 1 /\ dial.mode = "dial")
    <2>1. dial' = AfterH3(dial)
      BY <1>3 DEF H3Fails
    <2>2. dial.tried = {"h3"} /\ "h3" \in dial.flags /\ dial \in DialRecord
      BY DEF DialInv, Strict, H3Busy
    <2>3. dial' \in DialRecord /\ Strict(dial') /\ dial'.mode = dial.mode /\ dial'.pc # "ok"
      BY <2>1, <2>2, AfterH3Strict
    <2>4. Strict(dial)'
      BY <2>3 DEF Strict
    <2> QED
      BY <1>1, <2>3, <2>4 DEF DialInv, DialKept
  <1> QED
    BY <1>2, <1>3

\* It succeeds.
LEMMA SucceedsKeeps ==
  ASSUME DialInv, dial' = Over(dial, "ok"), conn' \in ConnRecord,
         dial.mode = "dial" => conn'.kind # "none", conn.kind # "none" => conn'.kind # "none"
  PROVE  DialKept
  <1>1. dial' \in DialRecord /\ Strict(dial') /\ dial'.mode = dial.mode
    BY OverStrict DEF DialInv
  <1>2. Strict(dial)'
    BY <1>1 DEF Strict
  <1> QED
    BY <1>1, <1>2 DEF DialInv, DialKept

\* Only the connection or the goroutines of the dial change.
LEMMA OthersKeep ==
  ASSUME DialInv, dial' = dial, conn' \in ConnRecord, conn'.kind = conn.kind
  PROVE  DialKept
  BY DEF DialInv, DialKept, Strict

LEMMA ClosedKeepsKind ==
  ASSUME DialInv, dial' = dial, CloseConn \/ StreamClosed
  PROVE  DialKept
  <1>1. conn' \in ConnRecord /\ conn'.kind = conn.kind
    BY DEF DialInv, CloseConn, StreamClosed, ConnRecord
  <1> QED
    BY <1>1, OthersKeep

LEMMA DialStepKeeps ==
  ASSUME DialInv, DialStep
  PROVE  DialKept
  <1> USE DEF DialInv
  <1>1. CASE TransportResult
    <2>1. CASE dial' = Over(dial, "failed") /\ UNCHANGED conn
      <3>1. dial' \in DialRecord /\ Strict(dial') /\ dial'.mode = dial.mode /\ dial'.pc = "failed"
        BY <2>1, OverStrict
      <3>2. Strict(dial)'
        BY <3>1 DEF Strict
      <3> QED
        BY <2>1, <3>1, <3>2 DEF DialKept
    <2>2. CASE /\ dial' = Over(dial, "ok")
               /\ conn' = [NoConn EXCEPT !.kind = dial.pc, !.state = "open"]
      <3>1. conn' \in ConnRecord /\ conn'.kind # "none"
        BY <1>1, <2>2, EmptyTyped, ZenonT(60) DEF TransportResult, ConnRecord, Transport
      <3> QED
        BY <2>2, <3>1, SucceedsKeeps
    <2> QED
      BY <1>1, <2>1, <2>2 DEF TransportResult
  <1>2. CASE H3Listen
    BY <1>2, Proceeds, FailsKeeps DEF H3Listen, H3Busy, H3Pcs
  <1>3. CASE H3Connected \/ h3OpenClientUniStreams \/ NewStream \/ SendRequest
    BY <1>3, Proceeds DEF H3Connected, h3OpenClientUniStreams, NewStream, SendRequest, H3Busy, H3Pcs
  <1>4. CASE waitSettings
    BY <1>4, Proceeds, FailsKeeps DEF waitSettings, H3Busy, H3Pcs
  <1>5. CASE H3Error
    BY <1>5, FailsKeeps DEF H3Error, H3Busy, H3Pcs
  <1>6. CASE WaitDone \/ H3Hint
    BY <1>6, FailsKeeps DEF WaitDone, H3Hint, H3Busy, H3Pcs
  <1>7. CASE H3OK
    <2>1. conn' \in ConnRecord /\ (dial.mode = "dial" => conn'.kind = "h3")
          /\ (conn.kind # "none" => conn'.kind # "none")
      <3>1. CASE dial.mode = "probe"
        BY <1>7, <3>1 DEF H3OK
      <3>2. CASE dial.mode # "probe"
        <4>1. conn' = [NoConn EXCEPT !.kind = "h3", !.state = "open", !.profile = p0] /\ p0 \in Profile
          BY <1>7, <3>2 DEF H3OK, p0, DialRecord
        <4> QED
          BY <4>1, EmptyTyped DEF ConnRecord, Transport
      <3> QED
        BY <3>1, <3>2
    <2> QED
      BY <1>7, <2>1, SucceedsKeeps DEF H3OK
  <1>8. CASE H3Refused
    BY <1>8, Proceeds, FailsKeeps DEF H3Refused, H3Busy, H3Pcs
  <1>9. CASE \/ \E p \in Profile : ReaderEnds(p) \/ WatcherFires(p) \/ \E r \in Result : Answer(p, r)
             \/ \E b \in {"on", "off"} : PeerSettings(b)
             \/ H3Timeout \/ \E s \in {"cancelled", "expired"} : CtxEnds(s)
    <2>1. dial' = dial /\ conn' = conn
      BY <1>9, ZenonT(60) DEF ReaderEnds, WatcherFires, Answer, PeerSettings, H3Timeout, CtxEnds
    <2> QED
      BY <2>1, OthersKeep
  <1>10. CASE StreamCloses
    BY <1>10, ClosedKeepsKind DEF StreamCloses
  <1>11. CASE ConnEnds
    <2>1. CASE conn' = [conn EXCEPT !.state = "lost", !.stalled = FALSE]
      BY <1>11, <2>1, OthersKeep DEF ConnEnds, ConnRecord
    <2>2. CASE StreamClosed
      BY <1>11, <2>2, ClosedKeepsKind DEF ConnEnds
    <2> QED
      BY <1>11, <2>1, <2>2 DEF ConnEnds
  <1> QED
    BY <1>1, <1>2, <1>3, <1>4, <1>5, <1>6, <1>7, <1>8, <1>9, <1>10, <1>11 DEF DialStep

-----------------------------------------------------------------------------
(* The session.                                                            *)

LEMMA SessionInit == Init => DialInv /\ AnswerInv /\ PeerInv
  <1> SUFFICES ASSUME Init PROVE DialInv /\ AnswerInv /\ PeerInv
    OBVIOUS
  <1>1. dial \in DialRecord /\ Strict(dial) /\ dial.pc = "idle" /\ dial.mode = "dial"
    BY EmptyTyped DEF Init, DialInit, Strict, NoDial, H3Pcs
  <1>2. conn \in ConnRecord
    BY EmptyTyped DEF Init, DialInit
  <1>3. DialInv
    BY <1>1, <1>2 DEF DialInv
  <1>4. AnswerInv
    BY <1>1 DEF Init, AnswerInv
  <1>5. PeerInv
    BY DEF Init, PeerInv, OnePeer
  <1> QED
    BY <1>3, <1>4, <1>5

\* The first sender stays the peer, so that what has been delivered went to it.
LEMMA PeerStep == PeerInv /\ [Next]_vars => PeerInv'
  <1> SUFFICES ASSUME PeerInv, [Next]_vars PROVE PeerInv'
    OBVIOUS
  <1> USE DEF PeerInv, OnePeer
  <1>1. ASSUME NEW s \in Sender, NEW w \in BOOLEAN, FromClient(s, w) PROVE PeerInv'
    BY <1>1 DEF FromClient
  <1>2. CASE FromUpstream
    BY <1>2 DEF FromUpstream
  <1>3. CASE UNCHANGED <<peerUDP, delivered>>
    BY <1>3, SMTT(60)
  <1>4. \/ UNCHANGED <<peerUDP, delivered>>
        \/ \E s \in Sender, w \in BOOLEAN : FromClient(s, w)
        \/ FromUpstream
    BY DEF Next, vars, udpVars, Handshake, RequestFails, Request, Pick, Refuse, DialFailed, ProbeOK,
           QualityEnds, DialOK, ServeEnds, CloseReturns, UpWrites, UpEnds, DownEnds, ClientEnds,
           ServerStalls, ServerReads
  <1> QED
    BY <1>1, <1>2, <1>3, <1>4

\* The dial, its connection and AnswerInv: steps of HandleConn.
Kept == DialInv' /\ AnswerInv'

\* Nothing AnswerInv speaks of changes but the dial.
LEMMA DialOnly ==
  ASSUME DialInv, AnswerInv, DialKept, UNCHANGED <<user, client, srv, cmd, replies>>
  PROVE  Kept
  BY DEF Kept, DialKept, AnswerInv

\* The handler ends without a reply to a request, or with one.
LEMMA Ends ==
  ASSUME DialInv, AnswerInv, DialKept, srv' = "done", UNCHANGED <<user, client, cmd>>,
         \/ replies' = replies /\ (cmd = "none" \/ replies # <<>> \/ client = "reset")
         \/ replies = <<>> /\ \E code \in {4, 7} : Reply(code)
  PROVE  Kept
  <1>1. /\ replies' \in {<<>>, <<0>>, <<4>>, <<7>>} /\ (replies' = <<0>> => replies = <<0>>)
        /\ cmd # "none" /\ client # "reset" => replies' # <<>>
    <2>1. CASE replies' = replies /\ (cmd = "none" \/ replies # <<>> \/ client = "reset")
      BY <2>1 DEF AnswerInv
    <2>2. ASSUME replies = <<>>, NEW code \in {4, 7}, Reply(code)
          PROVE  /\ replies' \in {<<>>, <<4>>, <<7>>} /\ replies' # <<0>>
                 /\ client # "reset" => replies' # <<>>
      <3>1. Append(<<>>, code) = <<code>>
        OBVIOUS
      <3>2. <<code>> # <<>> /\ <<code>> # <<0>> /\ <<>> # <<0>>
        OBVIOUS
      <3> QED
        BY <2>2, <3>1, <3>2 DEF Reply
    <2> QED
      BY <2>1, <2>2
  <1> QED
    BY <1>1 DEF Kept, DialKept, AnswerInv

LEMMA RefuseEnds ==
  ASSUME DialInv, AnswerInv, DialKept, srv \in {"pick", "dial"}, Refuse, UNCHANGED <<user, client, cmd>>
  PROVE  Kept
  <1>1. replies = <<>> /\ (user # "socks" => cmd = "none") /\ srv' = "done"
    BY DEF AnswerInv, Refuse
  <1>2. CASE user = "socks"
    BY <1>1, <1>2, Ends DEF Refuse
  <1>3. CASE user # "socks"
    BY <1>1, <1>3, Ends DEF Refuse
  <1> QED
    BY <1>2, <1>3

LEMMA PickKeeps ==
  ASSUME DialInv, AnswerInv, Pick
  PROVE  Kept
  <1>1. CASE Refuse /\ UNCHANGED dialVars
    <2>1. DialKept
      BY <1>1, OthersKeep DEF dialVars, DialInv
    <2> QED
      BY <1>1, <2>1, RefuseEnds DEF Pick
  <1>2. ASSUME NEW k \in {"h1", "h2", "h3"}, conn' = [NoConn EXCEPT !.kind = k, !.state = "open"],
               dial' = Over(dial, "ok"), srv' = "dial", UNCHANGED <<user, client, cmd, replies>>
        PROVE  Kept
    <2>1. conn' \in ConnRecord /\ conn'.kind # "none"
      BY <1>2, EmptyTyped, ZenonT(60) DEF ConnRecord, Transport
    <2>2. DialKept
      BY <1>2, <2>1, SucceedsKeeps
    <2> QED
      BY <1>2, <2>2 DEF Pick, Kept, DialKept, AnswerInv
  <1>3. CASE /\ IF user = "ProbeH3ExtendedConnect" THEN BeginProbe
                ELSE \E q \in SUBSET Flag, s \in Scheme : BeginDial(q, s)
             /\ srv' = "dial" /\ UNCHANGED <<user, client, cmd, replies>>
    <2>1. DialInv' /\ conn' = conn /\ (user = "socks" => dial'.mode = "dial")
      <3>1. CASE user = "ProbeH3ExtendedConnect"
        BY <1>3, <3>1, DialBegins
      <3>2. CASE user # "ProbeH3ExtendedConnect"
        BY <1>3, <3>2, DialBegins
      <3> QED
        BY <3>1, <3>2
    <2> QED
      BY <1>3, <2>1 DEF Pick, Kept, AnswerInv
  <1> QED
    BY <1>1, <1>2, <1>3 DEF Pick

LEMMA DialOKKeeps ==
  ASSUME DialInv, AnswerInv, DialOK
  PROVE  Kept
  <1>1. DialKept
    <2>1. CASE client = "reset"
      BY <2>1, ClosedKeepsKind DEF DialOK, CloseAll
    <2>2. CASE client # "reset"
      BY <2>2, OthersKeep DEF DialOK, DialInv
    <2> QED
      BY <2>1, <2>2
  <1>2. replies = <<>> /\ conn.kind # "none" /\ Append(<<>>, 0) = <<0>> /\ <<0>> # <<>>
    BY DEF DialOK, DialInv, AnswerInv
  <1>3. CASE client = "reset"
    BY <1>1, <1>2, <1>3, Ends DEF DialOK, Reply
  <1>4. CASE client # "reset"
    BY <1>1, <1>2, <1>4 DEF DialOK, Reply, Kept, DialKept, AnswerInv
  <1> QED
    BY <1>3, <1>4

LEMMA AnswerStep == DialInv /\ AnswerInv /\ [Next]_vars => DialInv' /\ AnswerInv'
  <1> SUFFICES ASSUME DialInv, AnswerInv, [Next]_vars PROVE Kept
    BY DEF Kept
  <1>0. UNCHANGED dialVars => DialKept
    BY OthersKeep DEF dialVars, DialInv
  <1>1. CASE Handshake
    <2>1. CASE srv' = "request"
      BY <1>0, <1>1, <2>1 DEF Handshake, Kept, DialKept, AnswerInv
    <2>2. CASE srv' = "done"
      BY <1>0, <1>1, <2>2, Ends DEF Handshake, AnswerInv
    <2> QED
      BY <1>1, <2>1, <2>2 DEF Handshake
  <1>2. CASE RequestFails
    BY <1>0, <1>2, Ends DEF RequestFails, AnswerInv
  <1>3. ASSUME NEW c \in {"connect", "udp", "other"}, Request(c) PROVE Kept
    <2>1. /\ DialKept /\ replies = <<>> /\ client # "reset" /\ Append(<<>>, 7) = <<7>>
          /\ <<7>> # <<>> /\ <<7>> # <<0>> /\ <<>> # <<0>>
      BY <1>0, <1>3 DEF Request, AnswerInv
    <2>2. user = "socks"
      BY <1>3 DEF Request, AnswerInv
    <2>3. CASE c = "other"
      BY <1>3, <2>1, <2>2, <2>3, ZenonT(60) DEF Request, Reply, Kept, DialKept, AnswerInv
    <2>4. CASE c # "other"
      BY <1>3, <2>1, <2>2, <2>4 DEF Request, Kept, DialKept, AnswerInv
    <2> QED
      BY <2>3, <2>4
  <1>4. CASE Pick
    BY <1>4, PickKeeps
  <1>5. CASE DialFailed
    <2>1. DialKept
      BY <1>5, OthersKeep, ClosedKeepsKind DEF DialFailed, DialInv
    <2> QED
      BY <1>5, <2>1, RefuseEnds DEF DialFailed
  <1>6. CASE ProbeOK
    <2>1. DialKept
      BY <1>6, OthersKeep, ClosedKeepsKind DEF ProbeOK, DialInv
    <2>2. CASE srv' = "done"
      BY <1>6, <2>1, <2>2, Ends DEF ProbeOK, AnswerInv, udpVars
    <2>3. CASE srv' = "serve"
      BY <1>6, <2>1, <2>3 DEF ProbeOK, Kept, DialKept, AnswerInv
    <2> QED
      BY <1>6, <2>2, <2>3 DEF ProbeOK
  <1>7. CASE QualityEnds
    BY <1>7, ClosedKeepsKind, Ends DEF QualityEnds, AnswerInv
  <1>8. CASE DialOK
    BY <1>8, DialOKKeeps
  <1>9. CASE ServeEnds
    <2>1. DialKept
      BY <1>9, ClosedKeepsKind DEF ServeEnds, CloseAll
    <2>2. user = "socks" /\ replies = <<0>> /\ <<0>> # <<>>
      BY <1>9 DEF ServeEnds, AnswerInv
    <2> QED
      BY <1>9, <2>1, <2>2 DEF ServeEnds, Kept, DialKept, AnswerInv
  <1>10. CASE \/ \E s \in Sender, w \in BOOLEAN : FromClient(s, w)
              \/ UpWrites \/ UpEnds \/ FromUpstream \/ DownEnds \/ UNCHANGED vars
    BY <1>0, <1>10, DialOnly DEF FromClient, UpWrites, UpEnds, FromUpstream, DownEnds, vars
  <1>11. CASE ClientEnds
    BY <1>0, <1>11 DEF ClientEnds, Kept, DialKept, AnswerInv
  <1>12. CASE DialStep /\ UNCHANGED <<user, client, srv, cmd, replies, udpVars>>
    BY <1>12, DialStepKeeps, DialOnly
  <1>13. CASE CloseReturns
    <2>1. replies = <<0>> /\ <<0>> # <<>>
      BY <1>13 DEF CloseReturns, AnswerInv
    <2> QED
      BY <1>0, <1>13, <2>1, Ends DEF CloseReturns
  <1>14. CASE ServerStalls \/ ServerReads
    <2>1. conn' \in ConnRecord /\ conn'.kind = conn.kind
      BY <1>14 DEF ServerStalls, ServerReads, DialInv, ConnRecord
    <2>2. DialKept
      BY <1>14, <2>1, OthersKeep DEF ServerStalls, ServerReads
    <2> QED
      BY <1>14, <2>2, DialOnly DEF ServerStalls, ServerReads
  <1> QED
    BY <1>1, <1>2, <1>3, <1>4, <1>5, <1>6, <1>7, <1>8, <1>9, <1>10, <1>11, <1>12, <1>13, <1>14 DEF Next

-----------------------------------------------------------------------------
(* What the dial owns.                                                     *)

LEMMA ClosedAttempt ==
  ASSUME NEW a \in Attempt
  PROVE  /\ Closed(a) \in Attempt
         /\ Closed(a).ep # "open" /\ Closed(a).qconn # "open" /\ Closed(a).drainer # "run"
<1> DEFINE e == IF a.ep = "open" THEN "closed" ELSE a.ep
           q == IF a.qconn = "open" THEN "closed" ELSE a.qconn
           d == IF a.drainer = "run" THEN "stopped" ELSE a.drainer
<1>1. /\ e \in {"none", "open", "closed"} /\ e # "open"
      /\ q \in {"none", "open", "closed"} /\ q # "open"
      /\ d \in {"none", "run", "stopped"} /\ d # "run"
  BY DEF Attempt
<1>2. Closed(a) = [a EXCEPT !.ep = e, !.qconn = q, !.drainer = d]
  BY DEF Closed, Attempt
<1> HIDE DEF e, q, d
<1> QED  BY <1>1, <1>2, ZenonT(60) DEF Attempt

\* A probe leaves nothing; a dial leaves no drainer.
LEMMA LeftAttempt ==
  ASSUME NEW a \in Attempt
  PROVE  /\ Left(a) \in Attempt /\ Left(a).drainer # "run"
         /\ dial.mode = "probe" => Left(a).ep # "open"
         /\ dial.mode # "probe" => Left(a).ep = a.ep /\ Left(a).qconn = a.qconn
<1> DEFINE s == [a EXCEPT !.drainer = IF @ = "run" THEN "stopped" ELSE @]
<1>1. s \in Attempt /\ s.drainer # "run" /\ s.ep = a.ep /\ s.qconn = a.qconn
  BY DEF Attempt
<1>2. PICK b \in Attempt : /\ b = (IF dial.mode = "probe" THEN Closed(a) ELSE s)
                           /\ b.drainer # "run"
                           /\ dial.mode = "probe" => b.ep # "open"
                           /\ dial.mode # "probe" => b.ep = a.ep /\ b.qconn = a.qconn
  <2> HIDE DEF s
  <2> QED  BY <1>1, ClosedAttempt
<1>3. Left(a) = [b EXCEPT !.h3ctx = "over", !.detached = FALSE, !.settings = "none",
                          !.reader = IF @ = "reading" THEN @ ELSE "none"]
  BY <1>2 DEF Left
<1> HIDE DEF s
<1>4. PICK r \in {"reading", "none"}, no \in BOOLEAN :
        Left(a) = [b EXCEPT !.h3ctx = "over", !.detached = no, !.settings = "none", !.reader = r]
  BY <1>3, ZenonT(60)
<1>5. /\ Left(a) \in Attempt /\ Left(a).drainer = b.drainer /\ Left(a).ep = b.ep
      /\ Left(a).qconn = b.qconn
  <2> DEFINE Same(c) == c.drainer = b.drainer /\ c.ep = b.ep /\ c.qconn = b.qconn
  <2>1. PICK c \in Attempt : c = [b EXCEPT !.h3ctx = "over", !.detached = no] /\ Same(c)
    <3>1. [b EXCEPT !.h3ctx = "over", !.detached = no] \in Attempt
      BY ZenonT(60) DEF Attempt
    <3>2. Same([b EXCEPT !.h3ctx = "over", !.detached = no])
      BY ZenonT(60) DEF Attempt
    <3> QED BY <3>1, <3>2, ZenonT(60)
  <2>2. PICK l \in Attempt : l = [c EXCEPT !.settings = "none", !.reader = r] /\ Same(l)
    <3>0. r \in Reading /\ "none" \in {"none", "on", "off"}
      BY DEF Reading
    <3>1. [c EXCEPT !.settings = "none", !.reader = r] \in Attempt
      BY <3>0, ZenonT(120) DEF Attempt
    <3>2. Same([c EXCEPT !.settings = "none", !.reader = r])
      BY <2>1, ZenonT(120) DEF Attempt
    <3> QED BY <3>1, <3>2, ZenonT(60)
  <2>3. Left(a) = l
    BY <1>4, <2>1, <2>2
  <2> QED  BY <2>2, <2>3
<1> QED  BY <1>2, <1>5

LEMMA NoAttemptTyped ==
  /\ NoAttempt \in Attempt /\ NoAttempt.ep = "none" /\ NoAttempt.drainer = "none"
  /\ NoAttempt.reader = "none" /\ NoAttempt.watcher = "none"
BY DEF NoAttempt, Attempt, Reading

LEMMA AfterH3Pc ==
  ASSUME NEW d \in DialRecord
  PROVE  AfterH3(d).pc \in {"h1", "h2", "failed"}
<1>1. ASSUME NEW e \in DialRecord PROVE WithoutH3(e).pc \in {"h1", "h2", "failed"}
  <2>1. Over(e, "failed").pc = "failed" /\ Try(e, "h2").pc = "h2" /\ Try(e, "h1").pc = "h1"
    BY DEF Over, Try, NoDial, DialRecord
  <2> QED  BY <2>1 DEF WithoutH3
<1>2. [d EXCEPT !.flags = @ \cup {"h2"}] \in DialRecord
  BY DEF DialRecord, Flag
<1>3. Over(d, "failed").pc = "failed"
  BY DEF Over, NoDial
<1> QED  BY <1>1, <1>2, <1>3 DEF AfterH3

LEMMA ChosenPc ==
  ASSUME NEW d \in DialRecord, d.tried = {}
  PROVE  Chosen(d).pc \in {"listen", "h1", "h2", "failed"}
<1>1. [d EXCEPT !.tried = {"h3"}] \in DialRecord
  BY DEF DialRecord, Transport
<1>2. AfterH3([d EXCEPT !.tried = {"h3"}]).pc \in {"h1", "h2", "failed"}
  BY <1>1, AfterH3Pc
<1>3. Over(d, "failed").pc = "failed" /\ Try(d, "h2").pc = "h2" /\ Try(d, "h1").pc = "h1"
  BY DEF Over, Try, NoDial, DialRecord
<1>4. [Try(d, "h3") EXCEPT !.pc = "listen"].pc = "listen"
  <2>1. PICK e : e = Try(d, "h3") /\ "pc" \in DOMAIN e
    BY ZenonT(60) DEF Try, DialRecord
  <2> QED  BY <2>1
<1>5. WithoutH3(d).pc \in {"h1", "h2", "failed"}
  BY <1>3 DEF WithoutH3
<1> QED  BY <1>2, <1>3, <1>4, <1>5 DEF Chosen

LEMMA Profiled == ASSUME DialInv PROVE p0 \in Profile
BY DEF DialInv, DialRecord, p0

Own(p) ==
  /\ att[p].drainer = "run" => Working(p) \/ Backing(p)
  /\ att[p].ep = "open" => Working(p) \/ Backing(p) \/ (att[p].qconn = "open" /\ dial.mode = "dial")
  /\ Backing(p) => att[p].ep = "open" /\ att[p].qconn = "open" /\ att[p].drainer = "run"

\* What attempt p and the connection hold stays what it is.
Holds(p) ==
  att'[p].ep = att[p].ep /\ att'[p].qconn = att[p].qconn /\ att'[p].drainer = att[p].drainer

LEMMA OwnsIsOwn == DialOwns <=> \A p \in Profile : Own(p)
BY DEF DialOwns, Own

\* No step of the dial itself: goroutines of the dial, the caller's Close.
LEMMA GoroutinesOwn ==
  ASSUME DialInv, Owned, att' \in [Profile -> Attempt], dial' = dial, conn'.kind = conn.kind,
         conn'.profile = conn.profile, conn'.state = "closed" <=> conn.state = "closed",
         dial.pc # "ok" => conn'.state = "none",
         \A p \in Profile : Holds(p), dial.pc = "idle" => att' = att
  PROVE  Owned'
<1>1. p0 \in Profile /\ p0' = p0
  BY Profiled, SMTT(60) DEF p0
<1>2. \A p \in Profile : Own(p)'
  <2> TAKE p \in Profile
  <2>1. Own(p) /\ Holds(p)
    BY OwnsIsOwn DEF Owned
  <2>2. (Working(p)' <=> Working(p)) /\ (Backing(p)' <=> Backing(p)) /\ dial'.mode = dial.mode
    BY <1>1 DEF Working, Backing, H3Busy
  <2> QED  BY <2>1, <2>2 DEF Own, Holds
<1>3. DialOwns'
  BY <1>2 DEF DialOwns, Own
<1>4. Holds(p0)
  BY <1>1
<1> QED  BY <1>1, <1>3, <1>4 DEF Owned, Holds

\* The HTTP/3 dial takes its next step, and holds what that step creates.
LEMMA ProceedsOwn ==
  ASSUME DialInv, Owned, H3Busy, NEW pc \in H3Pcs \ {"listen"}, dial' = [dial EXCEPT !.pc = pc],
         conn' = conn, att' \in [Profile -> Attempt],
         \A p \in Profile : p # p0 => att'[p] = att[p],
         att'[p0].ep = "open",
         pc # "quic" => att'[p0].qconn = "open" /\ att'[p0].drainer = "run"
  PROVE  Owned'
<1>1. p0 \in Profile /\ p0' = p0 /\ dial'.pc = pc /\ dial'.mode = dial.mode /\ dial.pc \in H3Pcs
  BY Profiled DEF p0, DialInv, DialRecord, H3Busy
<1>2. conn.kind = "none" /\ conn.state = "none" /\ conn'.kind = "none"
  BY <1>1 DEF Owned, H3Pcs
<1>3. \A p \in Profile : Own(p)'
  <2> TAKE p \in Profile
  <2>1. ~Backing(p)' /\ ~Backing(p)
    BY <1>2 DEF Backing
  <2>2. CASE p = p0
    <3>1. Working(p)'
      BY <1>1, <2>2 DEF Working, H3Busy
    <3> QED  BY <2>1, <3>1 DEF Own
  <2>3. CASE p # p0
    <3>1. Own(p) /\ ~Working(p) /\ att'[p] = att[p]
      BY <2>3, OwnsIsOwn DEF Owned, Working
    <3> QED  BY <1>1, <2>1, <3>1 DEF Own
  <2> QED  BY <2>2, <2>3
<1>4. DialOwns'
  BY <1>3 DEF DialOwns, Own
<1>5. dial'.pc # "idle"
  BY <1>1 DEF H3Pcs
<1> QED  BY <1>1, <1>2, <1>4, <1>5 DEF Owned

\* It fails: what is left open is left open by a dial, after the QUIC handshake.
LEMMA FailsOwn ==
  ASSUME DialInv, Owned, H3Busy, NEW a \in Attempt, NEW err, H3Fails(a, err),
         a.ep = "open" => a.qconn = "open"
  PROVE  Owned'
<1>1. p0 \in Profile /\ dial \in DialRecord /\ dial.pc \in H3Pcs
  BY Profiled DEF DialInv, H3Busy
<1>2. conn' = conn /\ conn.kind = "none" /\ conn.state = "none"
  BY <1>1 DEF Owned, H3Pcs, H3Fails
<1>3. PICK l \in Attempt : /\ l = Left(a) /\ l.drainer # "run"
                           /\ l.ep = "open" => l.qconn = "open" /\ dial.mode # "probe"
  BY LeftAttempt
<1>4. att' = [att EXCEPT ![p0] = l]
  BY <1>3 DEF H3Fails
<1>5. /\ att' \in [Profile -> Attempt] /\ att'[p0] = l
      /\ \A p \in Profile : p # p0 => att'[p] = att[p]
  BY <1>1, <1>4 DEF Owned
<1>6. /\ dial'.mode = dial.mode /\ dial'.pc \in {"listen", "h1", "h2", "failed"}
  <2>1. CASE dial' = [dial EXCEPT !.pc = "listen", !.profile = 2]
    BY <1>1, <2>1 DEF DialRecord
  <2>2. CASE dial' = AfterH3(dial)
    <3>1. dial.tried = {"h3"} /\ "h3" \in dial.flags
      BY <1>1 DEF DialInv, Strict
    <3> QED  BY <1>1, <2>2, <3>1, AfterH3Pc, AfterH3Strict
  <2> QED  BY <2>1, <2>2 DEF H3Fails
<1>7. dial.mode \in {"dial", "probe"}
  BY <1>1 DEF DialRecord
<1>8. \A p \in Profile : Own(p)'
  <2> TAKE p \in Profile
  <2>1. ~Backing(p)' /\ ~Backing(p)
    BY <1>2 DEF Backing
  <2>2. CASE p = p0
    BY <1>3, <1>5, <1>6, <1>7, <2>1, <2>2, SMTT(60) DEF Own
  <2>3. CASE p # p0
    <3>1. Own(p) /\ ~Working(p) /\ att'[p] = att[p]
      BY <1>5, <2>3, OwnsIsOwn DEF Owned, Working
    <3> QED  BY <1>6, <2>1, <3>1 DEF Own
  <2> QED  BY <2>2, <2>3
<1>9. DialOwns'
  BY <1>8 DEF DialOwns, Own
<1>10. dial'.pc # "idle" /\ dial'.pc \notin H3Pcs \ {"listen"}
  BY <1>6 DEF H3Pcs
<1> QED  BY <1>2, <1>5, <1>9, <1>10 DEF Owned

\* The dial begins: there is nothing to own yet.
LEMMA BeginsOwn ==
  ASSUME DialInv, Owned, dial.pc = "idle", dial'.pc \in {"listen", "h1", "h2", "failed"}, UNCHANGED <<att, conn>>
  PROVE  Owned'
<1>1. /\ conn.kind = "none" /\ conn.state = "none" /\ conn' = conn /\ att' = att
      /\ \A p \in Profile : att[p].ep # "open" /\ att[p].drainer # "run"
  BY NoAttemptTyped DEF Owned
<1>2. \A p \in Profile : Own(p)'
  BY <1>1 DEF Own, Backing
<1>3. DialOwns'
  BY <1>2 DEF DialOwns, Own
<1>4. dial'.pc # "idle" /\ dial'.pc \notin H3Pcs \ {"listen"}
  BY DEF H3Pcs
<1> QED  BY <1>1, <1>3, <1>4 DEF Owned

\* The dial ends without an HTTP/3 connection.
LEMMA OtherEndsOwn ==
  ASSUME DialInv, Owned, dial.pc \notin H3Pcs \cup {"ok"}, dial'.pc \in {"ok", "failed"},
         dial'.mode = dial.mode, UNCHANGED att, conn'.kind # "h3",
         dial'.pc = "failed" => conn' = conn
  PROVE  Owned'
<1>1. conn.kind = "none" /\ conn.state = "none" /\ att' = att
  BY DEF Owned
<1>2. \A p \in Profile : Own(p)'
  <2> TAKE p \in Profile
  <2>1. Own(p) /\ ~Working(p) /\ ~Backing(p) /\ ~Backing(p)'
    BY <1>1, OwnsIsOwn DEF Owned, Working, Backing, H3Busy
  <2> QED  BY <1>1, <2>1 DEF Own
<1>3. DialOwns'
  BY <1>2 DEF DialOwns, Own
<1>4. dial'.pc # "idle" /\ dial'.pc \notin H3Pcs
  BY DEF H3Pcs
<1>5. att' \in [Profile -> Attempt] /\ (dial'.pc # "ok" => conn'.kind = "none" /\ conn'.state = "none")
  BY <1>1 DEF Owned
<1> QED  BY <1>3, <1>4, <1>5 DEF Owned

\* A dial hands everything to the connection, a probe closes it.
LEMMA SucceedsOwn == ASSUME DialInv, Owned, H3OK PROVE Owned'
<1>1. p0 \in Profile /\ dial \in DialRecord /\ dial.pc = "wait" /\ att[p0] \in Attempt
  BY Profiled DEF DialInv, H3OK, Owned
<1>2. /\ att[p0].ep = "open" /\ att[p0].qconn = "open" /\ att[p0].drainer = "run"
      /\ conn.kind = "none" /\ conn.state = "none"
  BY <1>1 DEF Owned, H3Pcs
<1>3. dial'.pc = "ok" /\ dial'.mode = dial.mode
  BY <1>1, OverStrict DEF H3OK
<1>4. PICK b \in Attempt : /\ b = (IF dial.mode = "probe" THEN Closed(att[p0]) ELSE att[p0])
                           /\ dial.mode = "probe" => b.ep # "open" /\ b.drainer # "run"
  BY <1>1, ClosedAttempt, SMTT(60)
<1>5. PICK no \in BOOLEAN :
        att' = [att EXCEPT ![p0] = [b EXCEPT !.h3ctx = "over", !.detached = no, !.settings = "none", !.reader = "none"]]
  BY <1>4, ZenonT(60) DEF H3OK
<1>6. PICK l \in Attempt : /\ att' = [att EXCEPT ![p0] = l]
                           /\ l.ep = b.ep /\ l.qconn = b.qconn /\ l.drainer = b.drainer
  <2> DEFINE Same(c) == c.ep = b.ep /\ c.qconn = b.qconn /\ c.drainer = b.drainer
  <2>1. PICK c \in Attempt : c = [b EXCEPT !.h3ctx = "over", !.detached = no] /\ Same(c)
    <3>1. [b EXCEPT !.h3ctx = "over", !.detached = no] \in Attempt
      BY ZenonT(60) DEF Attempt
    <3>2. Same([b EXCEPT !.h3ctx = "over", !.detached = no])
      BY ZenonT(60) DEF Attempt
    <3> QED BY <3>1, <3>2, ZenonT(60)
  <2>2. PICK l \in Attempt : l = [c EXCEPT !.settings = "none", !.reader = "none"] /\ Same(l)
    <3>0. "none" \in Reading /\ "none" \in {"none", "on", "off"}
      BY DEF Reading
    <3>1. [c EXCEPT !.settings = "none", !.reader = "none"] \in Attempt
      BY <3>0, ZenonT(60) DEF Attempt
    <3>2. Same([c EXCEPT !.settings = "none", !.reader = "none"])
      BY <2>1, ZenonT(60) DEF Attempt
    <3> QED BY <3>1, <3>2, ZenonT(60)
  <2>3. att' = [att EXCEPT ![p0] = l]
    BY <1>5, <2>1, <2>2
  <2> QED  BY <2>2, <2>3, ZenonT(60)
<1>7. /\ att' \in [Profile -> Attempt] /\ att'[p0] = l
      /\ \A p \in Profile : p # p0 => att'[p] = att[p]
  BY <1>1, <1>6 DEF Owned
<1>8. \A p \in Profile : p # p0 => Own(p) /\ ~Working(p) /\ ~Backing(p)
  BY <1>2, OwnsIsOwn DEF Owned, Working, Backing
<1>9. ASSUME NEW p \in Profile PROVE Own(p)'
  <2>1. CASE dial.mode = "probe"
    <3>1. ~Backing(p)'
      BY <1>2, <2>1 DEF H3OK, Backing
    <3>2. CASE p = p0
      BY <1>4, <1>6, <1>7, <2>1, <3>1, <3>2, SMTT(60) DEF Own
    <3>3. CASE p # p0
      BY <1>3, <1>7, <1>8, <3>1, <3>3 DEF Own
    <3> QED  BY <3>2, <3>3
  <2>2. CASE dial.mode # "probe"
    <3>1. Backing(p)' <=> p = p0
      <4>1. conn' = [NoConn EXCEPT !.kind = "h3", !.state = "open", !.profile = p0]
        BY <2>2 DEF H3OK
      <4>2. conn'.kind = "h3" /\ conn'.state = "open" /\ conn'.profile = p0
        BY <4>1 DEF NoConn
      <4> QED  BY <4>2 DEF Backing
    <3>2. CASE p = p0
      BY <1>2, <1>4, <1>6, <1>7, <2>2, <3>1, <3>2, SMTT(60) DEF Own
    <3>3. CASE p # p0
      BY <1>3, <1>7, <1>8, <3>1, <3>3, SMTT(60) DEF Own
    <3> QED  BY <3>2, <3>3
  <2> QED  BY <2>1, <2>2
<1>10. DialOwns'
  BY <1>9 DEF DialOwns, Own
<1> QED  BY <1>3, <1>7, <1>10 DEF Owned, H3Pcs

\* The stream is closed: so is what the connection held.
LEMMA StreamClosedOwn ==
  ASSUME DialInv, Owned, dial' = dial, conn.state # "none", StreamClosed
  PROVE  Owned'
<1>1. dial.pc = "ok" /\ conn \in ConnRecord /\ p0' = p0
  BY DEF Owned, DialInv, p0
<1>2. conn'.kind = conn.kind /\ conn'.profile = conn.profile /\ conn'.state = "closed"
  BY <1>1 DEF StreamClosed, ConnRecord
<1>3. \A p \in Profile : ~Backing(p)' /\ (Working(p)' <=> Working(p))
  BY <1>1, <1>2 DEF Backing, Working, H3Busy
<1>4. CASE conn.kind = "h3"
  <2>1. conn.profile \in Profile /\ att[conn.profile] \in Attempt
    BY <1>1 DEF ConnRecord, Owned
  <2>2. PICK c \in Attempt : /\ c = Closed(att[conn.profile]) /\ c.ep # "open" /\ c.drainer # "run"
    BY <2>1, ClosedAttempt
  <2>3. att' = [att EXCEPT ![conn.profile] = c]
    BY <1>4, <2>2 DEF StreamClosed
  <2>4. /\ att' \in [Profile -> Attempt] /\ att'[conn.profile] = c
        /\ \A p \in Profile : p # conn.profile => att'[p] = att[p]
    BY <2>1, <2>3 DEF Owned
  <2>5. ASSUME NEW p \in Profile PROVE Own(p)'
    <3>1. CASE p = conn.profile
      BY <1>3, <2>2, <2>4, <3>1, SMTT(60) DEF Own
    <3>2. CASE p # conn.profile
      <4>1. Own(p) /\ ~Backing(p) /\ att'[p] = att[p]
        BY <2>4, <3>2, OwnsIsOwn DEF Owned, Backing
      <4> QED  BY <1>3, <4>1 DEF Own
    <3> QED  BY <3>1, <3>2, SMTT(60)
  <2>6. DialOwns'
    BY <2>5 DEF DialOwns, Own
  <2> QED  BY <1>1, <2>4, <2>6 DEF Owned, H3Pcs
<1>5. CASE conn.kind # "h3"
  <2>1. att' = att
    BY <1>5, SMTT(60) DEF StreamClosed
  <2>2. ASSUME NEW p \in Profile PROVE Own(p)'
    <3>1. Own(p) /\ ~Backing(p)
      BY <1>5, OwnsIsOwn DEF Owned, Backing
    <3> QED  BY <1>3, <2>1, <3>1 DEF Own
  <2>3. DialOwns'
    BY <2>2 DEF DialOwns, Own
  <2> QED  BY <1>1, <2>1, <2>3 DEF Owned, H3Pcs
<1> QED  BY <1>4, <1>5

\* A goroutine of attempt p sets a field that is not part of what is owned.
LEMMA FieldOwn ==
  ASSUME DialInv, Owned, NEW p \in Profile, dial.pc # "idle",
         NEW c \in Attempt, att' = [att EXCEPT ![p] = c],
         c.ep = att[p].ep, c.qconn = att[p].qconn, c.drainer = att[p].drainer,
         UNCHANGED <<dial, conn>>
  PROVE  Owned'
<1>1. att' \in [Profile -> Attempt] /\ \A q \in Profile : Holds(q)
  BY DEF Owned, Holds
<1>2. /\ conn'.kind = conn.kind /\ conn'.profile = conn.profile /\ conn'.state = conn.state
      /\ dial' = dial
  OBVIOUS
<1>3. dial.pc # "ok" => conn'.state = "none"
  BY <1>2 DEF Owned
<1> QED  BY <1>1, <1>2, <1>3, GoroutinesOwn

LEMMA SetField ==
  ASSUME NEW a \in Attempt
  PROVE  /\ \A r \in Reading : LET c == [a EXCEPT !.reader = r]
                               IN  c \in Attempt /\ c.ep = a.ep /\ c.qconn = a.qconn /\ c.drainer = a.drainer
         /\ \A b \in {"on", "off"} :
              LET c == [a EXCEPT !.settings = b]
              IN  c \in Attempt /\ c.ep = a.ep /\ c.qconn = a.qconn /\ c.drainer = a.drainer
         /\ LET c == [a EXCEPT !.h3ctx = "timedout"]
            IN  c \in Attempt /\ c.ep = a.ep /\ c.qconn = a.qconn /\ c.drainer = a.drainer
         /\ \A x \in {"none", "live", "over", "cancelled", "timedout"} :
              LET c == [a EXCEPT !.watcher = "ended", !.h3ctx = x]
              IN  c \in Attempt /\ c.ep = a.ep /\ c.qconn = a.qconn /\ c.drainer = a.drainer
<1>1. ASSUME NEW r \in Reading PROVE [a EXCEPT !.reader = r] \in Attempt
  BY ZenonT(60) DEF Attempt
<1>2. ASSUME NEW b \in {"on", "off"} PROVE [a EXCEPT !.settings = b] \in Attempt
  <2>1. b \in {"none", "on", "off"}
    OBVIOUS
  <2> QED  BY <2>1, ZenonT(60) DEF Attempt
<1>3. ASSUME NEW x \in {"none", "live", "over", "cancelled", "timedout"}
      PROVE  [a EXCEPT !.watcher = "ended", !.h3ctx = x] \in Attempt
  BY ZenonT(60) DEF Attempt
<1>4. [a EXCEPT !.h3ctx = "timedout"] \in Attempt
  BY ZenonT(60) DEF Attempt
<1> QED  BY <1>1, <1>2, <1>3, <1>4 DEF Attempt

LEMMA GoroutineSteps ==
  ASSUME DialInv, Owned,
         \/ \E p \in Profile : ReaderEnds(p) \/ WatcherFires(p) \/ \E r \in Result : Answer(p, r)
         \/ \E b \in {"on", "off"} : PeerSettings(b)
         \/ H3Timeout
  PROVE  Owned'
<1>1. \A p \in Profile : att[p] \in Attempt
  BY DEF Owned
<1>2. ASSUME NEW p \in Profile, att[p].reader = "reading" \/ att[p].watcher = "waiting"
      PROVE  dial.pc # "idle"
  BY <1>2, NoAttemptTyped DEF Owned
<1>3. ASSUME NEW p \in Profile, NEW r \in Reading, att[p].reader = "reading",
             att' = [att EXCEPT ![p].reader = r], UNCHANGED <<dial, conn>>
      PROVE  Owned'
  <2>1. PICK c \in Attempt : /\ c = [att[p] EXCEPT !.reader = r]
                             /\ c.ep = att[p].ep /\ c.qconn = att[p].qconn /\ c.drainer = att[p].drainer
    BY <1>1, SetField, ZenonT(60)
  <2>2. att' = [att EXCEPT ![p] = c]
    BY <1>3, <2>1
  <2> QED  BY <1>2, <1>3, <2>1, <2>2, FieldOwn, ZenonT(60)
<1>4. ASSUME NEW p \in Profile, ReaderEnds(p) PROVE Owned'
  <2>1. PICK r \in Reading : att' = [att EXCEPT ![p].reader = r]
    BY <1>4, ZenonT(60) DEF ReaderEnds, Reading, Result
  <2> QED  BY <1>3, <1>4, <2>1, ZenonT(60) DEF ReaderEnds
<1>5. ASSUME NEW p \in Profile, NEW r \in Result, Answer(p, r) PROVE Owned'
  <2>1. r \in Reading
    BY DEF Reading
  <2> QED  BY <1>3, <1>5, <2>1, ZenonT(60) DEF Answer
<1>6. ASSUME NEW p \in Profile, WatcherFires(p) PROVE Owned'
  <2>1. PICK x \in {"none", "live", "over", "cancelled", "timedout"} :
          x = IF att[p].h3ctx = "live" /\ ctx.state = "cancelled" THEN "cancelled" ELSE att[p].h3ctx
    BY <1>1 DEF Attempt
  <2>2. PICK c \in Attempt : /\ c = [att[p] EXCEPT !.watcher = "ended", !.h3ctx = x]
                             /\ c.ep = att[p].ep /\ c.qconn = att[p].qconn /\ c.drainer = att[p].drainer
    BY <1>1, SetField, ZenonT(60)
  <2>3. att' = [att EXCEPT ![p] = c]
    <3>1. att \in [Profile -> Attempt] /\ att[p] \in Attempt
      BY DEF Owned
    <3>2. att' = [[att EXCEPT ![p] = [att[p] EXCEPT !.watcher = "ended"]] EXCEPT
                    ![p] = [[att[p] EXCEPT !.watcher = "ended"] EXCEPT !.h3ctx = x]]
      <4>1. PICK w \in Attempt : w = [att[p] EXCEPT !.watcher = "ended"] /\ w.h3ctx = att[p].h3ctx
        <5>1. [att[p] EXCEPT !.watcher = "ended"] \in Attempt
          BY <3>1, ZenonT(60) DEF Attempt
        <5> QED  BY <3>1, <5>1 DEF Attempt
      <4>2. PICK f \in [Profile -> Attempt] : f = [att EXCEPT ![p] = w] /\ f[p] = w
        <5>1. [att EXCEPT ![p] = w] \in [Profile -> Attempt]
          BY <3>1
        <5>2. [att EXCEPT ![p] = w][p] = w
          BY <3>1
        <5> QED  BY <5>1, <5>2, Zenon
      <4>3. att' = [f EXCEPT ![p].h3ctx = x]
        BY <1>6, <2>1, <4>1, <4>2 DEF WatcherFires
      <4> QED  BY <4>1, <4>2, <4>3
    <3> QED  BY <2>2, <3>1, <3>2, ZenonT(60)
  <2> QED  BY <1>2, <1>6, <2>2, <2>3, FieldOwn, ZenonT(60) DEF WatcherFires
<1>7. ASSUME NEW b \in {"on", "off"}, PeerSettings(b) PROVE Owned'
  <2>1. p0 \in Profile /\ dial.pc # "idle"
    BY <1>7, Profiled DEF PeerSettings, H3Busy, H3Pcs
  <2>2. PICK c \in Attempt : /\ c = [att[p0] EXCEPT !.settings = b]
                             /\ c.ep = att[p0].ep /\ c.qconn = att[p0].qconn /\ c.drainer = att[p0].drainer
    BY <1>1, <2>1, SetField, ZenonT(60)
  <2>3. att' = [att EXCEPT ![p0] = c]
    BY <1>7, <2>2 DEF PeerSettings
  <2> QED  BY <1>7, <2>1, <2>2, <2>3, FieldOwn, ZenonT(60) DEF PeerSettings
<1>8. CASE H3Timeout
  <2>1. p0 \in Profile /\ dial.pc # "idle"
    BY <1>8, Profiled DEF H3Timeout, H3Busy, H3Pcs
  <2>2. PICK c \in Attempt : /\ c = [att[p0] EXCEPT !.h3ctx = "timedout"]
                             /\ c.ep = att[p0].ep /\ c.qconn = att[p0].qconn /\ c.drainer = att[p0].drainer
    BY <1>1, <2>1, SetField, ZenonT(60)
  <2>3. att' = [att EXCEPT ![p0] = c]
    BY <1>8, <2>2, SMTT(60) DEF H3Timeout
  <2> QED  BY <1>8, <2>1, <2>2, <2>3, FieldOwn, ZenonT(60) DEF H3Timeout
<1> QED  BY <1>4, <1>5, <1>6, <1>7, <1>8

LEMMA UntouchedOwn == ASSUME DialInv, Owned, UNCHANGED <<dial, att, conn>> PROVE Owned'
<1>1. /\ conn'.kind = conn.kind /\ conn'.profile = conn.profile /\ conn'.state = conn.state
      /\ dial' = dial /\ att' = att
  BY SMTT(60)
<1>2. (dial.pc # "ok" => conn'.state = "none") /\ att' \in [Profile -> Attempt] /\ \A p \in Profile : Holds(p)
  BY <1>1 DEF Owned, Holds
<1> QED  BY <1>1, <1>2, GoroutinesOwn, SMTT(60)

\* The owner of the connection closes it, or the transport breaks.
LEMMA ConnOwn ==
  ASSUME DialInv, Owned, UNCHANGED <<dial, att>>,
         \/ CloseConn
         \/ conn.state = "open" /\ conn' = [conn EXCEPT !.state = "lost", !.stalled = FALSE]
         \/ \E b \in BOOLEAN : conn' = [conn EXCEPT !.stalled = b]
  PROVE  Owned'
<1>1. conn \in ConnRecord /\ dial' = dial /\ att' = att
  BY DEF DialInv
<1>2. /\ conn'.kind = conn.kind /\ conn'.profile = conn.profile
      /\ conn'.state = "closed" <=> conn.state = "closed"
      /\ conn.state = "none" => conn'.state = "none"
  <2>1. CASE CloseConn
    BY <1>1, <2>1 DEF ConnRecord, CloseConn
  <2>2. CASE conn.state = "open" /\ conn' = [conn EXCEPT !.state = "lost", !.stalled = FALSE]
    BY <1>1, <2>2 DEF ConnRecord
  <2>3. CASE \E b \in BOOLEAN : conn' = [conn EXCEPT !.stalled = b]
    BY <1>1, <2>3 DEF ConnRecord
  <2> QED  BY <2>1, <2>2, <2>3
<1>3. att' \in [Profile -> Attempt] /\ \A p \in Profile : Holds(p)
  BY <1>1 DEF Owned, Holds
<1>4. dial.pc # "ok" => conn'.state = "none"
  BY <1>2 DEF Owned
<1> QED  BY <1>1, <1>2, <1>3, <1>4, GoroutinesOwn

LEMMA ListenOwn == ASSUME DialInv, Owned, H3Listen PROVE Owned'
<1>1. p0 \in Profile /\ H3Busy /\ dial.pc = "listen"
  BY Profiled DEF H3Listen, H3Busy, H3Pcs
<1>2. PICK det \in BOOLEAN, w \in {"waiting", "none"} :
        LET a == [NoAttempt EXCEPT !.h3ctx = "live", !.detached = det, !.watcher = w]
        IN  \/ /\ att' = [att EXCEPT ![p0] = [a EXCEPT !.ep = "open"]]
               /\ dial' = [dial EXCEPT !.pc = "quic"]
               /\ UNCHANGED <<ctx, conn>>
            \/ H3Fails(a, "other")
  <2>1. PICK det \in BOOLEAN : det = (dial.mode = "dial" /\ ctx.deadline = "short" /\ ctx.state = "live")
    BY ZenonT(60)
  <2>2. PICK w \in {"waiting", "none"} : w = IF det THEN "waiting" ELSE "none"
    OBVIOUS
  <2> QED  BY <2>1, <2>2, Zenon DEF H3Listen
<1>3. PICK a \in Attempt :
        /\ a = [NoAttempt EXCEPT !.h3ctx = "live", !.detached = det, !.watcher = w]
        /\ a.ep = "none"
  <2>1. [NoAttempt EXCEPT !.h3ctx = "live", !.detached = det, !.watcher = w] \in Attempt
    BY NoAttemptTyped, ZenonT(60) DEF Attempt
  <2>2. [NoAttempt EXCEPT !.h3ctx = "live", !.detached = det, !.watcher = w].ep = "none"
    BY NoAttemptTyped DEF Attempt
  <2> QED  BY <2>1, <2>2, ZenonT(60)
<1>4. CASE H3Fails(a, "other")
  BY <1>1, <1>3, <1>4, FailsOwn, ZenonT(60)
<1>5. CASE /\ att' = [att EXCEPT ![p0] = [a EXCEPT !.ep = "open"]]
           /\ dial' = [dial EXCEPT !.pc = "quic"]
           /\ UNCHANGED <<ctx, conn>>
  <2>1. PICK b \in Attempt : b = [a EXCEPT !.ep = "open"] /\ b.ep = "open"
    <3>1. [a EXCEPT !.ep = "open"] \in Attempt
      BY ZenonT(60) DEF Attempt
    <3> QED  BY <3>1 DEF Attempt
  <2>2. /\ att' \in [Profile -> Attempt] /\ att'[p0] = b
        /\ \A p \in Profile : p # p0 => att'[p] = att[p]
    BY <1>1, <1>5, <2>1, SMTT(60) DEF Owned
  <2>3. "quic" \in H3Pcs \ {"listen"} /\ conn' = conn
    BY <1>5, SMTT(60) DEF H3Pcs
  <2> QED  BY <1>1, <1>5, <2>1, <2>2, <2>3, ProceedsOwn, SMTT(60)
<1> QED  BY <1>2, <1>3, <1>4, <1>5

\* The QUIC handshake ends, the request is written.
LEMMA CreatesOwn == ASSUME DialInv, Owned, H3Connected \/ SendRequest PROVE Owned'
<1>1. p0 \in Profile /\ H3Busy /\ att[p0].ep = "open" /\ att[p0] \in Attempt /\ conn' = conn
  BY Profiled DEF H3Connected, SendRequest, H3Busy, H3Pcs, Owned
<1>2. CASE H3Connected
  <2>1. PICK b \in Attempt : /\ b = [att[p0] EXCEPT !.qconn = "open", !.drainer = "run"]
                             /\ b.ep = "open" /\ b.qconn = "open" /\ b.drainer = "run"
    <3>1. [att[p0] EXCEPT !.qconn = "open", !.drainer = "run"] \in Attempt
      BY <1>1, ZenonT(60) DEF Attempt
    <3> QED  BY <1>1, <3>1, ZenonT(60) DEF Attempt
  <2>2. att' = [att EXCEPT ![p0] = b]
    <3>1. PICK w \in Attempt : w = [att[p0] EXCEPT !.qconn = "open"]
      <4>1. [att[p0] EXCEPT !.qconn = "open"] \in Attempt
        BY <1>1, ZenonT(60) DEF Attempt
      <4> QED  BY <4>1
    <3>2. PICK f \in [Profile -> Attempt] : f = [att EXCEPT ![p0] = w] /\ f[p0] = w
      <4>1. [att EXCEPT ![p0] = w] \in [Profile -> Attempt] /\ att \in [Profile -> Attempt]
        BY <1>1 DEF Owned
      <4>2. [att EXCEPT ![p0] = w][p0] = w
        BY <1>1, <4>1
      <4> QED  BY <4>1, <4>2, Zenon
    <3>3. att' = [f EXCEPT ![p0].drainer = "run"]
      BY <1>2, <3>1, <3>2 DEF H3Connected
    <3>4. b = [w EXCEPT !.drainer = "run"]
      BY <2>1, <3>1, SMTT(60)
    <3> QED  BY <1>1, <3>2, <3>3, <3>4, ZenonT(60) DEF Owned
  <2>3. /\ att' \in [Profile -> Attempt] /\ att'[p0] = b
        /\ \A p \in Profile : p # p0 => att'[p] = att[p]
    BY <1>1, <2>2 DEF Owned
  <2>4. "uni" \in H3Pcs \ {"listen"} /\ dial' = [dial EXCEPT !.pc = "uni"]
    BY <1>2 DEF H3Pcs, H3Connected
  <2> QED  BY <1>1, <2>1, <2>3, <2>4, ProceedsOwn, SMTT(60)
<1>3. CASE SendRequest
  <2>0. att[p0].qconn = "open" /\ att[p0].drainer = "run" /\ "reading" \in Reading
    BY <1>3 DEF Owned, SendRequest, H3Pcs, Reading
  <2>1. PICK b \in Attempt : /\ b = [att[p0] EXCEPT !.reader = "reading"]
                             /\ b.ep = "open" /\ b.qconn = "open" /\ b.drainer = "run"
    <3>1. PICK a \in Attempt : a = att[p0] /\ a.ep = "open" /\ a.qconn = "open" /\ a.drainer = "run"
      BY <1>1, <2>0
    <3>2. /\ [a EXCEPT !.reader = "reading"] \in Attempt
          /\ [a EXCEPT !.reader = "reading"].ep = "open"
          /\ [a EXCEPT !.reader = "reading"].qconn = "open"
          /\ [a EXCEPT !.reader = "reading"].drainer = "run"
      BY <2>0, <3>1, SetField, Zenon
    <3> QED  BY <3>1, <3>2, ZenonT(60)
  <2>2. att' = [att EXCEPT ![p0] = b]
    BY <1>3, <2>1 DEF SendRequest
  <2>3. /\ att' \in [Profile -> Attempt] /\ att'[p0] = b
        /\ \A p \in Profile : p # p0 => att'[p] = att[p]
    BY <1>1, <2>2 DEF Owned
  <2>4. "wait" \in H3Pcs \ {"listen"} /\ dial' = [dial EXCEPT !.pc = "wait"]
    BY <1>3 DEF H3Pcs, SendRequest
  <2> QED  BY <1>1, <2>1, <2>3, <2>4, ProceedsOwn
<1> QED  BY <1>2, <1>3, SMTT(60)

\* Past the QUIC handshake: a step that creates nothing, or an exit.
LEMMA LaterOwn ==
  ASSUME DialInv, Owned, dial.pc \in H3Pcs \ {"listen", "quic"},
         \/ \E pc \in H3Pcs \ {"listen"} : dial' = [dial EXCEPT !.pc = pc] /\ UNCHANGED <<att, conn>>
         \/ \E err \in {"frameOrder", "other", "refused", "message"} :
              H3Fails(att[p0], err) \/ H3Fails(Closed(att[p0]), err)
  PROVE  Owned'
<1>1. /\ p0 \in Profile /\ H3Busy /\ att[p0] \in Attempt /\ att[p0].ep = "open"
      /\ att[p0].qconn = "open" /\ att[p0].drainer = "run" /\ att \in [Profile -> Attempt]
  BY Profiled DEF H3Busy, Owned
<1>2. ASSUME NEW pc \in H3Pcs \ {"listen"}, dial' = [dial EXCEPT !.pc = pc], UNCHANGED <<att, conn>>
      PROVE  Owned'
  BY <1>1, <1>2, ProceedsOwn
<1>3. ASSUME NEW err, H3Fails(att[p0], err) PROVE Owned'
  BY <1>1, <1>3, FailsOwn
<1>4. ASSUME NEW err, H3Fails(Closed(att[p0]), err) PROVE Owned'
  BY <1>1, <1>4, ClosedAttempt, FailsOwn, SMTT(60)
<1> QED  BY <1>2, <1>3, <1>4

LEMMA DialStepOwn == ASSUME DialInv, Owned, DialStep PROVE Owned'
<1>1. CASE TransportResult
  <2>1. /\ dial.pc \in {"h1", "h2"} /\ dial.pc \notin H3Pcs \cup {"ok"} /\ att' = att
        /\ \A pc \in {"ok", "failed"} : Over(dial, pc).pc = pc /\ Over(dial, pc).mode = dial.mode
    BY <1>1, OverStrict, SMTT(60) DEF TransportResult, H3Pcs, DialInv
  <2>2. CASE dial' = Over(dial, "failed") /\ UNCHANGED conn
    <3>1. conn'.kind # "h3"
      BY <2>1, <2>2 DEF Owned
    <3> QED  BY <2>1, <2>2, <3>1, OtherEndsOwn, SMTT(60)
  <2>3. CASE dial' = Over(dial, "ok") /\ conn' = [NoConn EXCEPT !.kind = dial.pc, !.state = "open"]
    <3>1. conn'.kind # "h3"
      BY <2>1, <2>3 DEF NoConn
    <3> QED  BY <2>1, <2>3, <3>1, OtherEndsOwn
  <2> QED  BY <1>1, <2>2, <2>3 DEF TransportResult
<1>2. CASE H3Listen
  BY <1>2, ListenOwn
<1>3. CASE H3Connected \/ SendRequest
  BY <1>3, CreatesOwn
<1>4. CASE H3Error
  <2>1. CASE dial.pc = "quic" /\ H3Fails(Closed(att[p0]), "other")
    <3>1. H3Busy /\ att[p0] \in Attempt
      BY <2>1, Profiled DEF H3Busy, H3Pcs, Owned
    <3> QED  BY <2>1, <3>1, ClosedAttempt, FailsOwn
  <2>2. CASE dial.pc \in {"uni", "stream", "headers"} /\ \E err \in {"frameOrder", "other"} : H3Fails(att[p0], err)
    BY <2>2, LaterOwn DEF H3Pcs
  <2> QED  BY <1>4, <2>1, <2>2, SMTT(60) DEF H3Error
<1>5. CASE h3OpenClientUniStreams \/ waitSettings \/ NewStream
  BY <1>5, LaterOwn DEF h3OpenClientUniStreams, waitSettings, NewStream, H3Pcs
<1>6. CASE WaitDone \/ H3Refused \/ H3Hint
  BY <1>6, LaterOwn DEF WaitDone, H3Refused, H3Hint, H3Pcs, Result
<1>7. CASE H3OK
  BY <1>7, SucceedsOwn
<1>8. CASE StreamCloses \/ ConnEnds
  <2>1. CASE StreamClosed
    BY <1>8, <2>1, StreamClosedOwn DEF StreamCloses, ConnEnds
  <2>2. CASE /\ conn.state = "open" /\ conn' = [conn EXCEPT !.state = "lost", !.stalled = FALSE]
             /\ UNCHANGED <<att, dial>>
    BY <2>2, ConnOwn
  <2> QED  BY <1>8, <2>1, <2>2 DEF StreamCloses, ConnEnds
<1>9. ASSUME NEW s \in {"cancelled", "expired"}, CtxEnds(s) PROVE Owned'
  BY <1>9, UntouchedOwn DEF CtxEnds
<1> QED  BY <1>1, <1>2, <1>3, <1>4, <1>5, <1>6, <1>7, <1>8, <1>9, GoroutineSteps, SMTT(60) DEF DialStep

LEMMA OwnedInit == Init => Owned /\ DialsOnce
<1> SUFFICES ASSUME Init PROVE Owned /\ DialsOnce
  BY SMTT(60)
<1>1. /\ dial.pc = "idle" /\ conn.kind = "none" /\ conn.state = "none"
      /\ att = [p \in Profile |-> NoAttempt]
  BY DEF Init, DialInit, NoDial, NoConn
<1>2. att \in [Profile -> Attempt] /\ \A p \in Profile : att[p] = NoAttempt
  BY <1>1, NoAttemptTyped
<1>3. DialOwns
  BY <1>1, <1>2, NoAttemptTyped DEF DialOwns, Backing
<1> QED  BY <1>1, <1>2, <1>3 DEF Owned, DialsOnce, H3Pcs

\* A CONNECT is given a warm standby connection, which owns its endpoint.
LEMMA StandbyOwn ==
  ASSUME DialInv, Owned, dial.pc = "idle", NEW k \in {"h1", "h2", "h3"},
         conn' = [NoConn EXCEPT !.kind = k, !.state = "open"],
         att' = IF k = "h3" THEN [att EXCEPT ![1] = Established] ELSE att,
         dial' = Over(dial, "ok")
  PROVE  Owned'
<1>1. /\ \A p \in Profile : att[p] = NoAttempt /\ att[p].ep # "open" /\ att[p].drainer # "run"
      /\ att \in [Profile -> Attempt] /\ 1 \in Profile
  BY NoAttemptTyped DEF Owned, Profile
<1>2. dial'.pc = "ok" /\ dial'.pc \notin H3Pcs
  BY OverStrict DEF DialInv, H3Pcs
<1>3. conn'.kind = k /\ conn'.state = "open" /\ conn'.profile = 1
  BY DEF NoConn
<1>4. PICK e \in Attempt : e = Established /\ e.ep = "open" /\ e.qconn = "open" /\ e.drainer = "run"
  <2>1. PICK b \in Attempt : b = [NoAttempt EXCEPT !.ep = "open", !.qconn = "open"]
    <3>1. [NoAttempt EXCEPT !.ep = "open", !.qconn = "open"] \in Attempt
      BY NoAttemptTyped, ZenonT(60) DEF Attempt
    <3> QED  BY <3>1
  <2>2. Established = [b EXCEPT !.drainer = "run", !.h3ctx = "over"]
    BY <2>1 DEF Established
  <2>3. [b EXCEPT !.drainer = "run", !.h3ctx = "over"] \in Attempt
    BY ZenonT(60) DEF Attempt
  <2>4. Established.ep = "open" /\ Established.qconn = "open" /\ Established.drainer = "run"
    BY DEF Established, NoAttempt
  <2> QED  BY <2>2, <2>3, <2>4, ZenonT(60)
<1>5. CASE k = "h3"
  <2>1. /\ att' \in [Profile -> Attempt] /\ att'[1] = e
        /\ \A p \in Profile : p # 1 => att'[p] = att[p]
    BY <1>1, <1>4, <1>5
  <2>2. ASSUME NEW p \in Profile PROVE Own(p)'
    <3>1. Backing(p)' <=> p = 1
      BY <1>3, <1>5 DEF Backing
    <3>2. CASE p = 1
      BY <1>4, <2>1, <3>1, <3>2 DEF Own
    <3>3. CASE p # 1
      BY <1>1, <2>1, <3>1, <3>3 DEF Own
    <3> QED  BY <3>2, <3>3
  <2>3. DialOwns'
    BY <2>2 DEF DialOwns, Own
  <2> QED  BY <1>2, <2>1, <2>3 DEF Owned
<1>6. CASE k # "h3"
  <2>1. att' = att /\ \A p \in Profile : ~Backing(p)'
    BY <1>3, <1>6 DEF Backing
  <2>2. DialOwns'
    BY <1>1, <2>1 DEF DialOwns
  <2> QED  BY <1>1, <1>2, <2>1, <2>2 DEF Owned
<1> QED  BY <1>5, <1>6

LEMMA PickOwn == ASSUME DialInv, Owned, DialsOnce, Pick PROVE Owned' /\ DialsOnce'
<1>0. dial.pc = "idle" /\ srv = "pick"
  BY DEF Pick, DialsOnce
<1>1. CASE Refuse /\ UNCHANGED dialVars
  <2>1. UNCHANGED <<dial, att, conn>> /\ srv' = "done"
    BY <1>1 DEF dialVars, Refuse
  <2> QED  BY <2>1, UntouchedOwn DEF DialsOnce
<1>2. CASE /\ \E k \in {"h1", "h2", "h3"} :
                /\ conn' = [NoConn EXCEPT !.kind = k, !.state = "open"]
                /\ att' = IF k = "h3" THEN [att EXCEPT ![1] = Established] ELSE att
           /\ dial' = Over(dial, "ok") /\ srv' = "dial"
  BY <1>0, <1>2, StandbyOwn, ZenonT(60) DEF DialsOnce
<1>3. CASE BeginProbe /\ srv' = "dial"
  <2>1. dial'.pc = "listen" /\ UNCHANGED <<att, conn>>
    BY <1>3 DEF BeginProbe, NoDial
  <2> QED  BY <1>0, <1>3, <2>1, BeginsOwn DEF DialsOnce
<1>4. ASSUME NEW q \in SUBSET Flag, NEW s \in Scheme, BeginDial(q, s), srv' = "dial"
      PROVE  Owned' /\ DialsOnce'
  <2>1. PICK d \in DialRecord : /\ d = [NoDial EXCEPT !.flags = parseTransportHints(q), !.scheme = s]
                                /\ d.tried = {}
    <3>1. parseTransportHints(q) \in SUBSET Flag
      BY DEF parseTransportHints, Flag
    <3>2. [NoDial EXCEPT !.flags = parseTransportHints(q), !.scheme = s] \in DialRecord
      BY <3>1, EmptyTyped, ZenonT(60) DEF DialRecord
    <3> QED  BY <3>2, ZenonT(60) DEF NoDial
  <2>2. dial'.pc \in {"listen", "h1", "h2", "failed"} /\ UNCHANGED <<att, conn>>
    BY <1>4, <2>1, ChosenPc, ZenonT(60) DEF BeginDial
  <2> QED  BY <1>0, <1>4, <2>2, BeginsOwn DEF DialsOnce
<1> QED  BY <1>1, <1>2, <1>3, <1>4 DEF Pick

LEMMA OwnedStep ==
  DialInv /\ AnswerInv /\ Owned /\ DialsOnce /\ [Next]_vars => Owned' /\ DialsOnce'
<1> SUFFICES ASSUME DialInv, Owned, DialsOnce, [Next]_vars PROVE Owned' /\ DialsOnce'
  OBVIOUS
<1>1. CASE Pick
  BY <1>1, PickOwn
<1>2. CASE DialStep /\ UNCHANGED <<user, client, srv, cmd, replies, udpVars>>
  <2>1. dial.pc = "idle" => dial'.pc = "idle"
    <3>1. CASE \/ TransportResult \/ H3Listen \/ H3Connected \/ H3Error
               \/ h3OpenClientUniStreams \/ waitSettings \/ NewStream \/ SendRequest
               \/ WaitDone \/ H3OK \/ H3Refused \/ H3Hint
      <4>1. dial.pc \in {"h1", "h2"} \cup H3Pcs
        BY <3>1 DEF TransportResult, H3Listen, H3Connected, H3Error, h3OpenClientUniStreams,
           waitSettings, NewStream, SendRequest, WaitDone, H3OK, H3Refused, H3Hint, H3Pcs
      <4> QED  BY <4>1 DEF H3Pcs
    <3>2. CASE \/ \E p \in Profile : ReaderEnds(p) \/ WatcherFires(p) \/ \E r \in Result : Answer(p, r)
               \/ \E b \in {"on", "off"} : PeerSettings(b)
               \/ H3Timeout \/ StreamCloses \/ ConnEnds
               \/ \E s \in {"cancelled", "expired"} : CtxEnds(s)
      BY <3>2, ZenonT(60) DEF ReaderEnds, WatcherFires, Answer, PeerSettings, H3Timeout, StreamCloses, ConnEnds, CtxEnds
    <3> QED  BY <1>2, <3>1, <3>2 DEF DialStep
  <2>2. DialsOnce'
    BY <1>2, <2>1 DEF DialsOnce
  <2> QED  BY <1>2, <2>2, DialStepOwn
<1>3. CASE DialFailed \/ ProbeOK \/ QualityEnds \/ DialOK \/ ServeEnds
  <2>1. UNCHANGED <<dial, att>> /\ (CloseConn \/ UNCHANGED conn) /\ srv' \in {"serve", "closing", "done"}
    BY <1>3 DEF DialFailed, ProbeOK, QualityEnds, DialOK, ServeEnds, CloseAll, Refuse
  <2> QED  BY <2>1, ConnOwn, UntouchedOwn, SMTT(60) DEF DialsOnce
<1>4. CASE \/ Handshake \/ RequestFails \/ \E c \in {"connect", "udp", "other"} : Request(c)
           \/ \E s \in Sender, w \in BOOLEAN : FromClient(s, w)
           \/ CloseReturns \/ UpWrites \/ UpEnds \/ FromUpstream \/ DownEnds \/ ClientEnds \/ UNCHANGED vars
  <2>1. UNCHANGED dialVars
    BY <1>4, SMTT(60) DEF Handshake, RequestFails, Request, CloseReturns, FromClient, UpWrites, UpEnds,
       FromUpstream, DownEnds, ClientEnds, vars
  <2>2. UNCHANGED srv \/ srv \in {"handshake", "request"} \/ srv' = "done"
    BY <1>4 DEF Handshake, RequestFails, Request, CloseReturns, FromClient, UpWrites, UpEnds,
       FromUpstream, DownEnds, ClientEnds, vars
  <2>3. UNCHANGED <<dial, att, conn>>
    BY <2>1 DEF dialVars
  <2> QED  BY <2>2, <2>3, UntouchedOwn, SMTT(60) DEF DialsOnce
<1>5. CASE ServerStalls \/ ServerReads
  BY <1>5, ConnOwn DEF ServerStalls, ServerReads, DialsOnce
<1> QED  BY <1>1, <1>2, <1>3, <1>4, <1>5 DEF Next

-----------------------------------------------------------------------------
\* However many addresses write to the relay port of an association, what comes
\* from the upstream goes to the first of them (readFromClientLoop and
\* readFromUpstreamLoop, outline_udp.go).
THEOREM FirstPeer == Spec => []OnePeer
  <1>1. PeerInv => OnePeer
    BY DEF PeerInv
  <1> QED
    BY <1>1, SessionInit, PeerStep, PTL DEF Spec

\* Whichever step of the handler fails, a request is answered once, and success is
\* announced only with a connection (HandleConn, socks5.go).
THEOREM OneReply == Spec => []RequestAnswered
  <1>1. DialInv /\ AnswerInv => RequestAnswered
    <2> SUFFICES ASSUME AnswerInv PROVE RequestAnswered
      OBVIOUS
    <2>1. /\ Len(<<>>) = 0 /\ Len(<<0>>) = 1 /\ Len(<<4>>) = 1 /\ Len(<<7>>) = 1
      OBVIOUS
    <2>2. Len(replies) \in {0, 1} /\ (replies # <<>> => Len(replies) = 1)
      BY <2>1 DEF AnswerInv
    <2>3. /\ srv = "done" /\ cmd # "none" /\ client # "reset" => replies # <<>>
          /\ replies = <<0>> => conn.kind # "none"
      BY DEF AnswerInv
    <2> QED
      BY <2>2, <2>3, SMTT(60) DEF RequestAnswered
  <1> QED
    BY <1>1, SessionInit, AnswerStep, PTL DEF Spec

\* In every session and probe the dial tries only what the flags of the URL allow: no
\* HTTP/1.1 under connect=only or h2=only, HTTP/3 alone under h3=only, HTTP/2 alone
\* under h2=only unless the URL asks for HTTP/3 too (DialWSStream, ws.go).
THEOREM OnlyAllowedTransports == Spec => []TransportsAllowed
  <1>1. DialInv /\ AnswerInv => TransportsAllowed
    BY DEF DialInv, Strict, TransportsAllowed
  <1> QED
    BY <1>1, SessionInit, AnswerStep, PTL DEF Spec

\* What an HTTP/3 dial or probe creates has an owner on all exits and in all orders of
\* its goroutines, its caller's context and the session around it, but for what the
\* exits between the QUIC handshake and the answer leave open (dialRFC9220Profile,
\* ws_h3.go; ProbeH3ExtendedConnect, h3_healthcheck.go).
THEOREM DialOwnership == Spec => []DialOwns
  <1>1. DialInv /\ AnswerInv /\ Owned /\ DialsOnce => DialOwns
    BY DEF Owned
  <1> QED
    BY <1>1, SessionInit, AnswerStep, OwnedInit, OwnedStep, PTL DEF Spec
=============================================================================
