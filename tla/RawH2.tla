-------------------------------- MODULE RawH2 --------------------------------
(***************************************************************************)
(* A WebSocket stream over a raw HTTP/2 connection                         *)
(* (internal/rfc8441_raw_h2.go): the handshake of init and                 *)
(* openWebSocketStream, the readLoop with its batched window updates,      *)
(* Write, of which framedWSConn calls one at a time, and Close, which      *)
(* several goroutines may call.  The last three compete for wmu and hold   *)
(* it while the connection blocks.                                         *)
(*                                                                         *)
(* The server and the network are external: frames arrive in order in      *)
(* inbox, the server sends no more DATA than the window it was granted,    *)
(* which is the same for the connection and for its only stream.  A frame  *)
(* is its kind and the number of payload bytes, without padding; what the  *)
(* client sends fills the connection until the server reads it.  The       *)
(* consumer is the framedWSConn that reads the other end of the pipe.      *)
(***************************************************************************)
EXTENDS Integers, Sequences, FiniteSetsExt

CONSTANTS
  InitialWindow,           \* 65535: no SETTINGS_INITIAL_WINDOW_SIZE is sent
  rawH2WindowUpdateBatch,  \* 64 * 1024
  rawH2MaxDataFrameChunk,  \* 16 * 1024
  FrameSizes,              \* the DATA frame sizes the server uses
  Total,                   \* the bytes the server has to send
  MaxInbox,                \* bound on the frames in flight
  WriteSize,               \* the size of a write of framedWSConn
  MaxWrites,               \* bound on its writes
  Closer,                  \* goroutines that call rawH2Stream.Close
  ServerAborts,            \* the server may end or reset the stream
  DialCtxEnds              \* the context of the dial ends after the dial

ASSUME H2Assumption ==
  /\ {InitialWindow, rawH2WindowUpdateBatch, rawH2MaxDataFrameChunk, MaxInbox} \subseteq Nat \ {0}
  /\ {WriteSize, MaxWrites} \subseteq Nat /\ {"free", "writer", "reader"} \cap Closer = {}
  /\ FrameSizes \subseteq Nat \ {0} /\ Total \in Nat
  /\ ServerAborts \in BOOLEAN /\ DialCtxEnds \in BOOLEAN

VARIABLES
  phase,      \* "init", "headers", "open" or "failed"
  block,      \* readResponseHeaders has read a part of the header block
  reader,     \* readLoop: pc, where it goes next, the bytes it is writing to the pipe
  pending,    \* pendingWindowUpdate
  eof,        \* the writing end of the pipe is closed
  closed,     \* the channel closed of rawH2Conn
  connUp,     \* the TLS connection is neither closed nor lost
  wmu,        \* who holds wmu: "writer", "reader", a closer, or "free"
  writer,     \* rawH2Stream.Write: pc, the bytes not yet sent, and the calls so far
  closer,     \* closer[k]: a goroutine in rawH2Stream.Close
  panicked,   \* closed has been closed twice
  ctxDone,    \* the context of the dial has ended
  delivered,  \* bytes the consumer has got
  server,     \* the server: stage, credit left, bytes to send
  granted,    \* window updates on their way to the server
  full,       \* the server has to read before the client can send more
  inbox       \* frames on their way to the client

conn == <<phase, block, closed, connUp>>
client == <<conn, reader, pending, eof, wmu, writer, closer, panicked, delivered>>
vars == <<client, ctxDone, server, granted, full, inbox>>

Frame(t) == [type |-> t, n |-> 0]

Init ==
  /\ phase = "init" /\ block = FALSE
  /\ reader = [pc |-> "off", next |-> "top", n |-> 0]
  /\ pending = 0
  /\ eof = FALSE /\ closed = FALSE /\ connUp = TRUE
  /\ wmu = "free" /\ writer = [pc |-> "idle", left |-> 0, calls |-> 0]
  /\ closer = [k \in Closer |-> "idle"]
  /\ panicked = FALSE
  /\ ctxDone = FALSE
  /\ delivered = 0
  /\ server = [stage |-> "settings", credit |-> InitialWindow, left |-> Total]
  /\ granted = 0 /\ full = FALSE
  /\ inbox = <<>>

-----------------------------------------------------------------------------
(* The server and the network (external).                                  *)

ServerSends(f, stage) ==
  /\ connUp /\ Len(inbox) < MaxInbox
  /\ inbox' = Append(inbox, f)
  /\ server' = [server EXCEPT !.stage = stage]
  /\ UNCHANGED <<client, ctxDone, granted, full>>

\* Its SETTINGS, with or without SETTINGS_ENABLE_CONNECT_PROTOCOL.
ServerSettings ==
  /\ server.stage = "settings"
  /\ \E t \in {"settings_connect", "settings"} : ServerSends(Frame(t), "settled")

\* The answer to CONNECT, in one or in two frames.
ServerResponse ==
  \/ /\ server.stage = "settled" /\ phase = "headers"
     /\ \/ ServerSends(Frame("headers_200"), "streaming")
        \/ ServerSends(Frame("headers_part"), "continuing")
        \/ \E t \in {"headers_bad", "abort"} : ServerSends(Frame(t), "over")
  \/ server.stage = "continuing" /\ ServerSends(Frame("continuation"), "streaming")

\* DATA, within the window.
ServerData ==
  /\ server.stage = "streaming" /\ server.left > 0 /\ server.credit > 0
  /\ connUp /\ Len(inbox) < MaxInbox
  /\ \E f \in FrameSizes :
       LET n == Min({f, server.left, server.credit})
       IN  /\ inbox' = Append(inbox, [type |-> "data", n |-> n])
           /\ server' = [server EXCEPT !.credit = @ - n, !.left = @ - n]
  /\ UNCHANGED <<client, ctxDone, granted, full>>

\* The end of the stream, or RST_STREAM or GOAWAY, which readLoop does not tell apart.
ServerAbort ==
  /\ ServerAborts /\ server.stage = "streaming"
  /\ \E t \in {"end", "abort"} : ServerSends(Frame(t), "over")

\* The connection is lost: reads and writes fail from now on.
ConnLost ==
  /\ ServerAborts /\ connUp
  /\ connUp' = FALSE
  /\ server' = [server EXCEPT !.stage = "over"]
  /\ UNCHANGED <<phase, block, closed, reader, pending, eof, wmu, writer, closer, panicked,
                 delivered, ctxDone, granted, full, inbox>>

\* Frames that concern neither the handshake nor the stream: PING, an ACK of
\* SETTINGS, WINDOW_UPDATE.
ServerOther ==
  server.stage # "over" /\ ServerSends(Frame("other"), server.stage)

\* The server reads what the client has sent.
ServerReads ==
  /\ full /\ connUp
  /\ full' = FALSE
  /\ server' = [server EXCEPT !.credit = @ + granted]
  /\ granted' = 0
  /\ UNCHANGED <<client, ctxDone, inbox>>

CtxEnds ==
  /\ DialCtxEnds /\ ~ctxDone
  /\ ctxDone' = TRUE
  /\ UNCHANGED <<client, server, granted, full, inbox>>

-----------------------------------------------------------------------------
(* init and openWebSocketStream.  What they write fits into the buffers of *)
(* a new connection.                                                       *)

Fail ==
  /\ phase' = "failed"
  /\ closed' = TRUE /\ connUp' = FALSE
  /\ UNCHANGED <<block, reader>>

\* The loop goes on to the next frame, unless the context has ended.
Await(ph, part) ==
  \/ ctxDone /\ Fail
  \/ ~ctxDone /\ phase' = ph /\ block' = part /\ UNCHANGED <<reader, closed, connUp>>

\* init: other frames are skipped until the server's SETTINGS; those are
\* acknowledged and CONNECT is sent.
InitFrame ==
  /\ phase = "init"
  /\ \/ ~connUp /\ Fail /\ UNCHANGED inbox
     \/ /\ inbox # <<>> /\ inbox' = Tail(inbox)
        /\ LET t == Head(inbox).type
           IN  \/ t = "settings_connect" /\ Await("headers", FALSE)
               \/ t = "settings" /\ Fail
               \/ t \notin {"settings_connect", "settings"} /\ Await("init", FALSE)
  /\ UNCHANGED <<pending, eof, wmu, writer, closer, panicked, delivered, ctxDone, server, granted, full>>

Opened ==
  /\ phase' = "open"
  /\ reader' = [reader EXCEPT !.pc = "top"]
  /\ UNCHANGED <<block, closed, connUp>>

\* readResponseHeaders: HEADERS, perhaps continued, or a refusal.
HeadersFrame ==
  /\ phase = "headers"
  /\ \/ ~connUp /\ Fail /\ UNCHANGED inbox
     \/ /\ inbox # <<>> /\ inbox' = Tail(inbox)
        /\ LET t == Head(inbox).type
           IN  \/ t = "headers_200" /\ Opened
               \/ t = "continuation" /\ block /\ Opened
               \/ t = "headers_part" /\ Await("headers", TRUE)
               \/ t \in {"headers_bad", "abort"} /\ Fail
               \/ t = "other" /\ Await("headers", block)
  /\ UNCHANGED <<pending, eof, wmu, writer, closer, panicked, delivered, ctxDone, server, granted, full>>

-----------------------------------------------------------------------------
(* wmu and the connection.                                                 *)

Acquire(me) == wmu = "free" /\ wmu' = me

\* A write under wmu: it waits for room, or fails.
Sends   == connUp /\ ~full /\ full' = TRUE
SendErr == ~connUp /\ UNCHANGED full

-----------------------------------------------------------------------------
(* readLoop.                                                               *)

\* flushWindowUpdate(force) with p bytes pending, on the way to next.
flushWindowUpdate(p, force, next) ==
  /\ pending' = p
  /\ reader' = [pc   |-> IF p > 0 /\ (force \/ p >= rawH2WindowUpdateBatch) THEN "flush" ELSE next,
                next |-> next, n |-> 0]

\* The loop returns: what is pending is flushed, then the pipe is closed.
ReaderReturns == flushWindowUpdate(pending, TRUE, "close")

ReadTop ==
  /\ reader.pc = "top"
  /\ \/ (closed \/ ctxDone) /\ ReaderReturns
     \/ ~closed /\ ~ctxDone /\ reader' = [reader EXCEPT !.pc = "read"] /\ UNCHANGED pending
  /\ UNCHANGED <<conn, eof, wmu, writer, closer, panicked, delivered, ctxDone, server, granted, full, inbox>>

\* Mutant of ReadFrame: a frame of another kind ends the loop.
ReadFrame_StopsAtOther ==
  /\ reader.pc = "read"
  /\ \/ ~connUp /\ eof' = TRUE /\ ReaderReturns /\ UNCHANGED inbox
     \/ /\ inbox # <<>>
        /\ inbox' = Tail(inbox)
        /\ LET f == Head(inbox)
           IN  \/ /\ f.type = "data"
                  /\ reader' = [reader EXCEPT !.pc = "pipe", !.n = f.n]
                  /\ UNCHANGED pending
               \/ f.type # "data" /\ ReaderReturns
        /\ UNCHANGED eof
  /\ UNCHANGED <<conn, wmu, writer, closer, panicked, delivered, ctxDone, server, granted, full>>

\* A frame, perhaps one buffered before the connection was closed, or an error.
ReadFrame ==
  /\ reader.pc = "read"
  /\ \/ ~connUp /\ eof' = TRUE /\ ReaderReturns /\ UNCHANGED inbox
     \/ /\ inbox # <<>>
        /\ inbox' = Tail(inbox)
        /\ LET f == Head(inbox)
           IN  \/ /\ f.type = "data"
                  /\ reader' = [reader EXCEPT !.pc = "pipe", !.n = f.n]
                  /\ UNCHANGED pending
               \/ f.type \in {"end", "abort"} /\ ReaderReturns
               \/ /\ f.type = "other"
                  /\ reader' = [reader EXCEPT !.pc = "top"]
                  /\ UNCHANGED pending
        /\ UNCHANGED eof
  /\ UNCHANGED <<conn, wmu, writer, closer, panicked, delivered, ctxDone, server, granted, full>>

\* The write to the pipe is over, with or without the consumer.
Written ==
  /\ flushWindowUpdate(pending + reader.n, FALSE, "top")
  /\ UNCHANGED <<conn, eof, wmu, writer, closer, panicked, ctxDone, server, granted, full, inbox>>

\* Mutant of Consume: the bytes are not accounted for.
Consume_NoUpdate ==
  /\ reader.pc = "pipe" /\ ~eof
  /\ delivered' = delivered + reader.n
  /\ flushWindowUpdate(pending, FALSE, "top")
  /\ UNCHANGED <<conn, eof, wmu, writer, closer, panicked, ctxDone, server, granted, full, inbox>>

\* The consumer reads what readLoop is writing to the pipe.
Consume ==
  /\ reader.pc = "pipe" /\ ~eof
  /\ delivered' = delivered + reader.n
  /\ Written

\* The pipe is closed: the error of Write is ignored.
PipeBroken ==
  /\ reader.pc = "pipe" /\ eof
  /\ UNCHANGED delivered
  /\ Written

\* flushWindowUpdate gets the lock.
FlushLock ==
  /\ reader.pc = "flush" /\ Acquire("reader")
  /\ reader' = [reader EXCEPT !.pc = "update"]
  /\ UNCHANGED <<conn, pending, eof, writer, closer, panicked, delivered, ctxDone, server, granted, full, inbox>>

\* Both updates are written, or fail; the error is ignored.
FlushWrite ==
  /\ reader.pc = "update"
  /\ \/ Sends /\ granted' = granted + pending
     \/ SendErr /\ UNCHANGED granted
  /\ pending' = 0 /\ wmu' = "free"
  /\ reader' = [reader EXCEPT !.pc = reader.next]
  /\ UNCHANGED <<conn, eof, writer, closer, panicked, delivered, ctxDone, server, inbox>>

ReaderCloses ==
  /\ reader.pc = "close"
  /\ eof' = TRUE
  /\ reader' = [reader EXCEPT !.pc = "done"]
  /\ UNCHANGED <<conn, pending, wmu, writer, closer, panicked, delivered, ctxDone, server, granted, full, inbox>>

-----------------------------------------------------------------------------
(* rawH2Stream.Write.  The window of the peer is not looked at.            *)

WriteCall ==
  /\ phase = "open" /\ writer.pc = "idle" /\ writer.calls < MaxWrites
  /\ writer' = [pc |-> "lock", left |-> WriteSize, calls |-> writer.calls + 1]
  /\ UNCHANGED <<conn, reader, pending, eof, wmu, closer, panicked, delivered, ctxDone, server, granted, full, inbox>>

WriteLock ==
  /\ writer.pc = "lock" /\ Acquire("writer")
  /\ writer' = [writer EXCEPT !.pc = "send"]
  /\ UNCHANGED <<conn, reader, pending, eof, closer, panicked, delivered, ctxDone, server, granted, full, inbox>>

\* Mutant of WriteData: an error returns without the lock being given back.
WriteData_KeepsLock ==
  /\ writer.pc = "send"
  /\ LET left == writer.left - Min({rawH2MaxDataFrameChunk, writer.left})
     IN  \/ Sends /\ left > 0 /\ writer' = [writer EXCEPT !.left = left] /\ UNCHANGED wmu
         \/ Sends /\ left = 0 /\ writer' = [writer EXCEPT !.pc = "idle", !.left = 0] /\ wmu' = "free"
         \/ SendErr /\ writer' = [writer EXCEPT !.pc = "idle", !.left = 0] /\ UNCHANGED wmu
  /\ UNCHANGED <<conn, reader, pending, eof, closer, panicked, delivered, ctxDone, server, granted, inbox>>

\* A chunk of the data: it is not the last, it is and Write returns, or it fails.
WriteData ==
  /\ writer.pc = "send"
  /\ LET left == writer.left - Min({rawH2MaxDataFrameChunk, writer.left})
     IN  \/ Sends /\ left > 0 /\ writer' = [writer EXCEPT !.left = left] /\ UNCHANGED wmu
         \/ ((Sends /\ left = 0) \/ SendErr) /\ writer' = [writer EXCEPT !.pc = "idle", !.left = 0] /\ wmu' = "free"
  /\ UNCHANGED <<conn, reader, pending, eof, closer, panicked, delivered, ctxDone, server, granted, inbox>>

-----------------------------------------------------------------------------
(* rawH2Stream.Close, goroutine k.                                         *)

CloserGoto(k, pc) == closer' = [closer EXCEPT ![k] = pc]

CloseCall(k) ==
  /\ phase = "open" /\ closer[k] = "idle"
  /\ CloserGoto(k, "lock")
  /\ UNCHANGED <<conn, reader, pending, eof, wmu, writer, panicked, delivered, ctxDone, server, granted, full, inbox>>

CloseLock(k) ==
  /\ closer[k] = "lock" /\ Acquire(k)
  /\ CloserGoto(k, "rst")
  /\ UNCHANGED <<conn, reader, pending, eof, writer, panicked, delivered, ctxDone, server, granted, full, inbox>>

\* RST_STREAM is written, or fails, then the select looks at the channel.
CloseCheck(k) ==
  /\ closer[k] = "rst"
  /\ Sends \/ SendErr
  /\ wmu' = "free"
  /\ CloserGoto(k, IF closed THEN "pipe" ELSE "close")
  /\ UNCHANGED <<conn, reader, pending, eof, writer, panicked, delivered, ctxDone, server, granted, inbox>>

\* The default branch closes the channel, which panics the second time.
CloseConn(k) ==
  /\ closer[k] = "close"
  /\ panicked' = closed
  /\ closed' = TRUE /\ connUp' = FALSE
  /\ CloserGoto(k, "pipe")
  /\ UNCHANGED <<phase, block, reader, pending, eof, wmu, writer, delivered, ctxDone, server, granted, full, inbox>>

ClosePipe(k) ==
  /\ closer[k] = "pipe"
  /\ eof' = TRUE
  /\ CloserGoto(k, "done")
  /\ UNCHANGED <<conn, reader, pending, wmu, writer, panicked, delivered, ctxDone, server, granted, full, inbox>>

-----------------------------------------------------------------------------
Server    == ServerSettings \/ ServerResponse \/ ServerData \/ ServerAbort \/ ServerOther \/ ConnLost
Handshake == InitFrame \/ HeadersFrame
readLoop  == ReadTop \/ ReadFrame \/ PipeBroken \/ FlushLock \/ FlushWrite \/ ReaderCloses
Write     == WriteLock \/ WriteData
Close(k)  == CloseLock(k) \/ CloseCheck(k) \/ CloseConn(k) \/ ClosePipe(k)

Next ==
  /\ ~panicked
  /\ \/ Server \/ ServerReads \/ CtxEnds
     \/ Handshake \/ readLoop \/ Consume
     \/ WriteCall \/ Write
     \/ \E k \in Closer : CloseCall(k) \/ Close(k)

Spec == Init /\ [][Next]_vars

\* The server sends its data in spite of other frames, frames arrive and goroutines
\* are scheduled.
FairSpec ==
  /\ Spec
  /\ SF_vars(~panicked /\ ServerData)
  /\ WF_vars(~panicked /\ Handshake) /\ WF_vars(~panicked /\ readLoop) /\ WF_vars(~panicked /\ Write)
  /\ \A k \in Closer : WF_vars(~panicked /\ Close(k))

-----------------------------------------------------------------------------
\* The payload of the frames of s.
Bytes(s) ==
  LET sum[i \in 0 .. Len(s)] == IF i = 0 THEN 0 ELSE sum[i - 1] + s[i].n
  IN  sum[Len(s)]

InboxBytes == Bytes(inbox)

TypeOK ==
  /\ phase \in {"init", "headers", "open", "failed"} /\ block \in BOOLEAN
  /\ reader \in [pc : {"off", "top", "read", "pipe", "flush", "update", "close", "done"},
                 next : {"top", "close"}, n : 0 .. InitialWindow]
  /\ pending \in 0 .. InitialWindow /\ granted \in 0 .. InitialWindow
  /\ delivered \in 0 .. Total
  /\ {eof, closed, connUp, panicked, ctxDone, full} \subseteq BOOLEAN
  /\ wmu \in {"free", "writer", "reader"} \cup Closer
  /\ writer \in [pc : {"idle", "lock", "send"}, left : 0 .. WriteSize, calls : 0 .. MaxWrites]
  /\ closer \in [Closer -> {"idle", "lock", "rst", "close", "pipe", "done"}]
  /\ server \in [stage : {"settings", "settled", "continuing", "streaming", "over"},
                 credit : 0 .. InitialWindow, left : 0 .. Total]
  /\ Len(inbox) <= MaxInbox

\* As long as the connection lives, every byte of the window the server started with
\* is credit it still has, on the wire in one of the two directions, in the hands of
\* readLoop, or pending: batching the updates neither loses credit nor grants more
\* than was consumed, however long readLoop waits for wmu.
WindowConserved ==
  connUp => server.credit + InboxBytes + reader.n + pending + granted = InitialWindow

ServerKeepsReading == WF_vars(~panicked /\ ServerReads)

\* A call of rawH2Stream.Close ends readLoop, also when it has to wait for a Write or
\* a window update that holds wmu, and even if nobody reads the pipe any more,
\* unless a second Close, racing with it, panics.  The server has to go on reading:
\* Close waits for wmu before it closes the connection.
CloseEndsReader ==
  ServerKeepsReading =>
    ((\E k \in Closer : closer[k] # "idle") ~> reader.pc = "done" \/ panicked)

\* A consumer that keeps reading an open stream gets everything the server has to
\* send, whatever is being written, unless the server or a Close ends the stream, or
\* the context of the dial ends, under which readLoop runs (README: prevents "TLS
\* stalls").
Delivered ==
  ServerKeepsReading /\ WF_vars(~panicked /\ Consume) =>
    (phase = "open" ~> \/ delivered = Total
                       \/ server.stage = "over"
                       \/ \E k \in Closer : closer[k] # "idle"
                       \/ ctxDone)
=============================================================================
