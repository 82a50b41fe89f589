------------------------------- MODULE TCPRelay -------------------------------
(***************************************************************************)
(* One TCP flow, from the SOCKS5 CONNECT handler (handleConnect of         *)
(* internal/socks5.go, ProxyTCPOverOutlineWS of internal/outline_tcp.go)   *)
(* or from the TUN forwarder (tunHandleTCP of internal/tun_native.go),     *)
(* with its two copying goroutines.                                        *)
(*                                                                         *)
(* A direction carries numbered chunks, so a count of them tells what has  *)
(* arrived.  framed tells the transports apart: the framed one (HTTP/2 and *)
(* HTTP/3) turns the remote's CLOSE into io.EOF and cannot be cancelled    *)
(* while it blocks, the library one (HTTP/1.1) returns an error of its own *)
(* and can.  A peer that does not read (stalled) blocks the writes to it.   *)
(***************************************************************************)
EXTENDS Integers, Sequences

CONSTANT MaxChunks  \* bound on the chunks sent in each direction

ASSUME RelayAssumption == MaxChunks \in Nat

VARIABLES
  kind,     \* tun: the flow comes from tunHandleTCP; framed: it uses framedWSConn
  client,   \* the local peer: chunks sent, how its sending side ended, does it not read
  remote,   \* the same for the far end behind the WebSocket
  up,       \* the goroutine copying client -> upstream
  down,     \* the goroutine copying upstream -> client
  errC,     \* the results of the two, in order of arrival
  main,     \* the handler
  clientClosed, wsClosed,  \* what the handler has closed
  ctxDone

relayVars == <<client, remote, up, down, errC, main, clientClosed, wsClosed, ctxDone, kind>>
ends == <<clientClosed, wsClosed>>

Idle == [pc |-> "off", moved |-> 0, res |-> "none"]

RelayInit ==
  /\ kind \in [tun : BOOLEAN, framed : BOOLEAN]
  /\ client = [sent |-> 0, end |-> "open", stalled |-> FALSE] /\ remote = client
  /\ up = Idle /\ down = Idle
  /\ errC = <<>>
  /\ main = [pc |-> "pick", first |-> "none"]
  /\ clientClosed = FALSE /\ wsClosed = FALSE
  /\ ctxDone = FALSE

\* A nil error and io.EOF end a direction, anything else is a hard error.
Hard(res) == res = "err"

CloseBoth == clientClosed' = TRUE /\ wsClosed' = TRUE

\* The handler returns, and its deferred calls start to close what is open.
Return == main' = [main EXCEPT !.pc = "closing"] /\ UNCHANGED ends

\* The context of the WSStreamConn: its Close cancels it before it closes the WebSocket.
Cancelled == ctxDone \/ wsClosed \/ main.pc \in {"teardown", "closing"}

\* The remote's CLOSE has been read; over a framed transport it has been answered too.
CloseRead ==
  /\ remote.end = "fin" /\ down.pc = "done"
  /\ IF kind.framed THEN down.res = "nil" ELSE down.moved = remote.sent

\* A CLOSE can be written.  framedWSConn writes it under its mutex with no deadline,
\* once; the library gives up after a while.
CanClose == kind.framed => ~remote.stalled \/ wsClosed \/ CloseRead

-----------------------------------------------------------------------------
(* The peers.                                                              *)

ClientSends ==
  /\ client.end = "open" /\ client.sent < MaxChunks
  /\ client' = [client EXCEPT !.sent = @ + 1]
  /\ UNCHANGED <<remote, up, down, errC, main, ends, ctxDone, kind>>

\* A connection that breaks ends the writes that it blocks.
Ended(peer, e) == [peer EXCEPT !.end = e, !.stalled = @ /\ e # "rst"]

\* The local peer half-closes its connection, or resets it.
ClientEnds ==
  /\ client.end = "open"
  /\ \E e \in {"fin", "rst"} : client' = Ended(client, e)
  /\ UNCHANGED <<remote, up, down, errC, main, ends, ctxDone, kind>>

RemoteSends ==
  /\ remote.end = "open" /\ remote.sent < MaxChunks
  /\ remote' = [remote EXCEPT !.sent = @ + 1]
  /\ UNCHANGED <<client, up, down, errC, main, ends, ctxDone, kind>>

\* The far end closes the WebSocket after its data, or the connection breaks.
RemoteEnds ==
  /\ remote.end = "open"
  /\ \E e \in {"fin", "rst"} : remote' = Ended(remote, e)
  /\ UNCHANGED <<client, up, down, errC, main, ends, ctxDone, kind>>

\* A peer stops reading, until the buffers are full, or reads again.
ClientStalls ==
  /\ client.end # "rst"
  /\ client' = [client EXCEPT !.stalled = ~@]
  /\ UNCHANGED <<remote, up, down, errC, main, ends, ctxDone, kind>>

RemoteStalls ==
  /\ remote.end # "rst"
  /\ remote' = [remote EXCEPT !.stalled = ~@]
  /\ UNCHANGED <<client, up, down, errC, main, ends, ctxDone, kind>>

Cancel ==
  /\ ~ctxDone
  /\ ctxDone' = TRUE
  /\ UNCHANGED <<client, remote, up, down, errC, main, ends, kind>>

-----------------------------------------------------------------------------
(* The copying goroutines.                                                 *)

\* io.Copy returns and, under SOCKS5, its result goes to errC.
Ends(g, dir, res) ==
  /\ g' = [g EXCEPT !.pc = "done", !.res = res]
  /\ errC' = IF kind.tun THEN errC ELSE Append(errC, dir)

Moves(g, pc) == g' = [g EXCEPT !.pc = pc] /\ UNCHANGED errC

\* A chunk is read from the client, and Write looks at the context before it writes.
UpRead ==
  /\ up.pc = "read"
  /\ \/ clientClosed /\ Ends(up, "up", "err")
     \/ ~clientClosed /\ client.end = "rst" /\ Ends(up, "up", "err")
     \/ ~clientClosed /\ client.end # "rst" /\ up.moved < client.sent
          /\ IF Cancelled THEN Ends(up, "up", "err") ELSE Moves(up, "write")
     \/ ~clientClosed /\ client.end = "fin" /\ up.moved = client.sent /\ Ends(up, "up", "nil")
  /\ UNCHANGED <<client, remote, down, main, ends, ctxDone, kind>>

\* The write of the transport.  It may fail on a broken connection, and answers io.EOF
\* or fails once a CLOSE has been sent or answered.  While the remote does not read it
\* blocks: the library ends it when the context does, a framed one goes on.
UpWrite ==
  /\ up.pc = "write"
  /\ \/ remote.end = "rst" /\ Ends(up, "up", "err")
     \/ /\ wsClosed \/ CloseRead
        /\ \E res \in IF kind.framed THEN {"eof", "err"} ELSE {"err"} : Ends(up, "up", res)
     \/ Cancelled /\ ~kind.framed /\ Ends(up, "up", "err")
     \/ /\ ~wsClosed /\ ~remote.stalled /\ (Cancelled => kind.framed)
        /\ up' = [up EXCEPT !.pc = "read", !.moved = @ + 1] /\ UNCHANGED errC
  /\ UNCHANGED <<client, remote, down, main, ends, ctxDone, kind>>

DownRead ==
  /\ down.pc = "read"
  /\ \/ wsClosed /\ \E res \in {"nil", "err"} : Ends(down, "down", res)
     \/ Cancelled /\ ~kind.framed /\ Ends(down, "down", "err")
     \/ remote.end = "rst" /\ Ends(down, "down", "err")
     \/ ~wsClosed /\ down.moved < remote.sent /\ Moves(down, "write")
     \/ /\ ~wsClosed /\ remote.end = "fin" /\ down.moved = remote.sent
        /\ kind.framed => ~remote.stalled   \* the answer to the CLOSE
        /\ Ends(down, "down", IF kind.framed THEN "nil" ELSE "err")
  /\ UNCHANGED <<client, remote, up, main, ends, ctxDone, kind>>

\* The chunk goes to the client; the next read starts by looking at the context.
DownWrite ==
  /\ down.pc = "write"
  /\ \/ (clientClosed \/ client.end = "rst") /\ Ends(down, "down", "err")
     \/ /\ ~clientClosed /\ client.end # "rst" /\ ~client.stalled
        /\ down' = [down EXCEPT !.moved = @ + 1, !.pc = IF Cancelled THEN "done" ELSE "read",
                                !.res = IF Cancelled THEN "err" ELSE @]
        /\ errC' = IF Cancelled /\ ~kind.tun THEN Append(errC, "down") ELSE errC
  /\ UNCHANGED <<client, remote, up, main, ends, ctxDone, kind>>

-----------------------------------------------------------------------------
(* The handler.                                                            *)

\* PickTCP, then AcquireTCPWSForFlow; without an upstream the client is closed.
Pick ==
  /\ main.pc = "pick"
  /\ \/ main' = [main EXCEPT !.pc = "reply"] /\ UNCHANGED ends
     \/ main' = [main EXCEPT !.pc = "returned"] /\ CloseBoth
  /\ UNCHANGED <<client, remote, up, down, errC, ctxDone, kind>>

\* The SOCKS5 reply, the cipher and the target address: each may fail.
Reply ==
  /\ main.pc = "reply"
  /\ \/ main' = [main EXCEPT !.pc = "header"] /\ UNCHANGED ends
     \/ Return
  /\ UNCHANGED <<client, remote, up, down, errC, ctxDone, kind>>

\* newSSTCPConn writes the target address, and the two copies start.
Connect ==
  /\ main.pc = "header"
  /\ \/ /\ ~remote.stalled
        /\ main' = [main EXCEPT !.pc = "first"]
        /\ up' = [up EXCEPT !.pc = "read"] /\ down' = [down EXCEPT !.pc = "read"]
        /\ UNCHANGED ends
     \/ /\ remote.end # "open" \/ ctxDone
        /\ kind.framed => ~remote.stalled
        /\ Return /\ UNCHANGED <<up, down>>
  /\ UNCHANGED <<client, remote, errC, ctxDone, kind>>

Result(dir) == IF dir = "up" THEN up.res ELSE down.res

\* Mutants of First: every end of a direction tears the flow down; none does.
First_AlwaysCloses ==
  /\ ~kind.tun /\ main.pc = "first" /\ errC # <<>>
  /\ main' = [pc |-> "teardown", first |-> Result(Head(errC))]
  /\ UNCHANGED <<client, remote, up, down, errC, ends, ctxDone, kind>>

First_NeverCloses ==
  /\ ~kind.tun /\ main.pc = "first" /\ errC # <<>>
  /\ main' = [pc |-> "second", first |-> Result(Head(errC))]
  /\ UNCHANGED <<client, remote, up, down, errC, ends, ctxDone, kind>>

\* What the handler does next when it looks at the context.
AfterFirst == IF ctxDone THEN "closing" ELSE "second"

\* The first result: a hard error closes both ends, a cancelled context returns.
First ==
  /\ ~kind.tun /\ main.pc = "first" /\ errC # <<>>
  /\ LET e1 == Result(Head(errC))
     IN  main' = [pc |-> IF Hard(e1) THEN "teardown" ELSE AfterFirst, first |-> e1]
  /\ UNCHANGED <<client, remote, up, down, errC, ends, ctxDone, kind>>

\* The Close of the WebSocket returns, and the client's connection is closed after it:
\* in the teardown after a hard error, or by the deferred calls.
Closes ==
  /\ main.pc \in {"teardown", "closing"} /\ CanClose
  /\ main' = [main EXCEPT !.pc = IF @ = "teardown" THEN AfterFirst ELSE "returned"]
  /\ CloseBoth
  /\ UNCHANGED <<client, remote, up, down, errC, ctxDone, kind>>

\* Mutant of Second: the deferred Close is missing after a clean end.
Second_LeavesOpen ==
  /\ main.pc = "second"
  /\ Len(errC) = 2 \/ ctxDone
  /\ main' = [main EXCEPT !.pc = "returned"]
  /\ UNCHANGED <<client, remote, up, down, errC, ends, ctxDone, kind>>

\* The second result, or the context.
Second ==
  /\ main.pc = "second"
  /\ Len(errC) = 2 \/ ctxDone
  /\ Return
  /\ UNCHANGED <<client, remote, up, down, errC, ctxDone, kind>>

\* Mutant of TunWaits: the handler waits for both directions.
TunWaits_ForBoth ==
  /\ kind.tun /\ main.pc = "first" /\ up.pc = "done" /\ down.pc = "done"
  /\ Return
  /\ UNCHANGED <<client, remote, up, down, errC, ctxDone, kind>>

\* tunHandleTCP waits for the downstream copy alone.
TunWaits ==
  /\ kind.tun /\ main.pc = "first" /\ down.pc = "done"
  /\ Return
  /\ UNCHANGED <<client, remote, up, down, errC, ctxDone, kind>>

-----------------------------------------------------------------------------
Peers == ClientSends \/ ClientEnds \/ ClientStalls \/ RemoteSends \/ RemoteEnds \/ RemoteStalls
           \/ Cancel
Copy  == UpRead \/ UpWrite \/ DownRead \/ DownWrite
Main  == Reply \/ Connect \/ First \/ Second \/ TunWaits \/ Closes

RelayNext == Peers \/ Copy \/ Pick \/ Main

RelaySpec == RelayInit /\ [][RelayNext]_relayVars

\* The goroutines are scheduled.  A call that blocks is not enabled: a read without data,
\* a write to a peer that does not read and the Close behind it.  Pick dials, and is not
\* assumed to return.
RelayFairSpec ==
  /\ RelaySpec
  /\ WF_relayVars(UpRead \/ UpWrite) /\ WF_relayVars(DownRead \/ DownWrite) /\ WF_relayVars(Main)

-----------------------------------------------------------------------------
Copier == [pc : {"off", "read", "write", "done"}, moved : 0 .. MaxChunks,
           res : {"none", "nil", "eof", "err"}]

RelayTypeOK ==
  /\ kind \in [tun : BOOLEAN, framed : BOOLEAN]
  /\ client \in [sent : 0 .. MaxChunks, end : {"open", "fin", "rst"}, stalled : BOOLEAN]
  /\ remote \in [sent : 0 .. MaxChunks, end : {"open", "fin", "rst"}, stalled : BOOLEAN]
  /\ up \in Copier /\ down \in Copier
  /\ errC \in {<<>>, <<"up">>, <<"down">>, <<"up", "down">>, <<"down", "up">>}
  /\ main \in [pc : {"pick", "reply", "header", "first", "teardown", "second", "closing", "returned"},
               first : {"none", "nil", "eof", "err"}]
  /\ clientClosed \in BOOLEAN /\ wsClosed \in BOOLEAN /\ ctxDone \in BOOLEAN

\* A flow that nobody broke or cancelled delivers everything the remote sent to the
\* client, also when the client has half-closed first (ProxyTCPOverOutlineWS: a
\* close of one side must not "break remaining reverse-direction traffic").
NoLoss ==
  /\ down.pc = "done"
  /\ client.end # "rst" /\ remote.end # "rst" /\ ~ctxDone
  => down.moved = remote.sent

Released == main.pc = "returned" /\ up.pc \in {"off", "done"} /\ down.pc \in {"off", "done"}
              /\ clientClosed /\ wsClosed

\* The premises of the liveness properties: the dial returns, and a peer that stops
\* reading reads again some day, for good, or breaks its connection.
DialReturns == WF_relayVars(Pick)
ServerReads == <>[]~remote.stalled
PeersRead   == ServerReads /\ <>[]~client.stalled

\* When both peers have ended, the handler returns, both connections are closed and
\* both copying goroutines end, provided that the dial returned and that neither peer
\* leaves what is written to it unread for good.
EndsAfterBoth ==
  DialReturns /\ PeersRead => (client.end # "open" /\ remote.end # "open" ~> Released)

\* A reset by the client of a SOCKS5 flow releases the flow, even if the remote never
\* sends or ends (README: the client prevents "half-open socket leaks"), provided that the
\* dial returned and that the remote does not stop reading for good: a write that blocks
\* keeps the reset from being noticed, and a framed one keeps Close from returning.
\* tunHandleTCP looks at its downstream copy only and notices the reset when the remote
\* sends or closes.
AbortReleases ==
  DialReturns /\ ServerReads => (client.end = "rst" /\ ~kind.tun ~> Released)

\* A close by the remote is passed on to a client that has not ended itself, by
\* tunHandleTCP and over a library transport, whose end of stream is a hard error, under
\* the premises of EndsAfterBoth.  SOCKS5 over a framed transport is excepted: there the
\* CLOSE ends the copy with a nil error, and the handler goes on waiting for the client.
RemoteEndPassedOn ==
  DialReturns /\ PeersRead =>
    (remote.end = "fin" /\ (kind.tun \/ ~kind.framed) ~> clientClosed \/ client.end # "open")
=============================================================================
