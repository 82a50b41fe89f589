------------------------------- MODULE FramedWS -------------------------------
(***************************************************************************)
(* framedWSConn (internal/ws_h2.go): WebSocket frames over the byte stream *)
(* of HTTP/2 or HTTP/3.                                                    *)
(*                                                                         *)
(* Goroutines that write messages, goroutines that call Close and the one  *)
(* that reads (it answers Pings and echoes a Close) share one write lock.  *)
(* s.Write may take a part of a frame and blocks while the stream is full: *)
(* here a frame goes out as its header and its payload.  A payload is its  *)
(* length.                                                                 *)
(***************************************************************************)
EXTENDS Integers, Sequences, FiniteSets

CONSTANTS
  Writer,      \* goroutines that write one message each
  Closer,      \* goroutines that call Close
  Size,        \* lengths of the messages written
  PeerFrame,   \* the frames the server may send
  MaxFrames,   \* bound on the frames it sends
  Room         \* pieces of a frame the stream buffers until the peer reads them

Reader == "reader"
Actor  == Writer \cup Closer \cup {Reader}
None   == "none"

ASSUME FramedAssumption ==
  /\ Size \subseteq Nat /\ MaxFrames \in Nat /\ Room \in Nat \ {0}
  /\ Reader \notin Writer \cup Closer /\ Writer \cap Closer = {}
  /\ None \notin Actor
  /\ PeerFrame \subseteq [op : {"data", "cont", "ping", "pong", "close", "reserved"}, fin : BOOLEAN,
                          masked : BOOLEAN, h : [len : 0 .. 127, ext : Nat]]

VARIABLES
  mu,         \* the holder of c.mu, or None
  closeSent,
  stream,     \* "open" or "closed"
  wire,       \* the pieces written to the stream so far
  drained,    \* how many of them the peer has read
  task,       \* task[a]: the write goroutine a is in, see Todo
  reading,    \* Read: "check" (ctx.Err), "block" (readFrame), "write", "ended"
  part,       \* the payloads of the fragmented message being read
  frames,     \* how many frames readFrame has returned
  seen,       \* history: those with the payload of a message
  pings,      \* history: how many of them were Pings
  got,        \* the messages Read has returned
  timers,     \* pending time.AfterFunc calls
  ctxDone

peer == <<frames, seen, pings>>
vars == <<mu, closeSent, stream, wire, drained, task, reading, part, peer, got, timers, ctxDone>>

\* pc: "idle" before the call, "lock", "hdr", "pay", "done" after it.
Todo(pc, op, n) == [pc |-> pc, op |-> op, n |-> n]

Init ==
  /\ mu = None /\ closeSent = FALSE /\ stream = "open"
  /\ wire = <<>> /\ drained = 0
  /\ task = [a \in Actor |-> Todo("idle", "data", 0)]
  /\ reading = "check" /\ part = <<>>
  /\ frames = 0 /\ seen = <<>> /\ pings = 0 /\ got = <<>>
  /\ timers = 0 /\ ctxDone = FALSE

-----------------------------------------------------------------------------
(* Frames.                                                                 *)

\* Mutant of buildFrame: the 16-bit form is used one length too far.
buildFrame_OffByOne(n) ==
  IF n < 126 THEN [len |-> n, ext |-> 0]
  ELSE IF n <= 65536 THEN [len |-> 126, ext |-> n % 65536]
  ELSE [len |-> 127, ext |-> n]

\* The length field: 7 bits, or an escape and 16 or 64 bits.
buildFrame(n) ==
  IF n < 126 THEN [len |-> n, ext |-> 0]
  ELSE IF n <= 65535 THEN [len |-> 126, ext |-> n % 65536]
  ELSE [len |-> 127, ext |-> n]

MaxFrame == 67108864    \* the 64 MiB cap
Refused  == -1

\* The payload length of a frame of the server, or a protocol error.
readFrame(f) ==
  LET n == IF f.h.len \in {126, 127} THEN f.h.ext ELSE f.h.len
  IN  IF f.masked \/ n > MaxFrame THEN Refused ELSE n

\* What RFC 6455 says a header announces.
Announced(h) == IF h.len < 126 THEN h.len ELSE h.ext

Hdr(a) == [by |-> a, op |-> task[a].op, kind |-> "hdr", h |-> buildFrame(task[a].n), n |-> 0]
Pay(a) == [by |-> a, op |-> task[a].op, kind |-> "pay", h |-> buildFrame(0), n |-> task[a].n]

-----------------------------------------------------------------------------
(* writeRaw and sendClose, goroutine a.                                    *)

\* Write: ctx.Err first, then the lock.
Write(w, n) ==
  /\ task[w].pc = "idle"
  /\ task' = [task EXCEPT ![w] = Todo(IF ctxDone THEN "done" ELSE "lock", "data", n)]
  /\ UNCHANGED <<mu, closeSent, stream, wire, drained, reading, part, peer, got, timers, ctxDone>>

Close(c) ==
  /\ task[c].pc = "idle"
  /\ task' = [task EXCEPT ![c] = Todo("lock", "close", 2)]
  /\ UNCHANGED <<mu, closeSent, stream, wire, drained, reading, part, peer, got, timers, ctxDone>>

\* Mutant of Returned: Close does not arm its timer.
Returned_NoTimer(a) ==
  /\ task' = [task EXCEPT ![a] = Todo(IF a = Reader THEN "idle" ELSE "done", "data", 0)]
  /\ reading' = IF a # Reader THEN reading ELSE IF task[a].op = "close" THEN "ended" ELSE "check"
  /\ stream' = IF a = Reader /\ task[a].op = "close" THEN "closed" ELSE stream
  /\ UNCHANGED timers

\* The call returns: Close arms its timer; the reader goes on, or closes the
\* stream after the echo of a Close.
Returned(a) ==
  /\ task' = [task EXCEPT ![a] = Todo(IF a = Reader THEN "idle" ELSE "done", "data", 0)]
  /\ reading' = IF a # Reader THEN reading ELSE IF task[a].op = "close" THEN "ended" ELSE "check"
  /\ stream' = IF a = Reader /\ task[a].op = "close" THEN "closed" ELSE stream
  /\ timers' = IF a \in Closer THEN timers + 1 ELSE timers

\* Mutant of Lock: data is not held back after a CLOSE.
Lock_Ungated(a) ==
  /\ task[a].pc = "lock" /\ mu = None
  /\ \/ /\ closeSent /\ task[a].op = "close"
        /\ Returned(a)
        /\ UNCHANGED <<mu, closeSent>>
     \/ /\ ~(closeSent /\ task[a].op = "close")
        /\ mu' = a
        /\ closeSent' = (closeSent \/ task[a].op = "close")
        /\ task' = [task EXCEPT ![a].pc = "hdr"]
        /\ UNCHANGED <<stream, timers, reading>>
  /\ UNCHANGED <<wire, drained, part, peer, got, ctxDone>>

\* c.mu.Lock: after a CLOSE nothing is written any more.
Lock(a) ==
  /\ task[a].pc = "lock" /\ mu = None
  /\ \/ /\ closeSent
        /\ Returned(a)
        /\ UNCHANGED <<mu, closeSent>>
     \/ /\ ~closeSent
        /\ mu' = a
        /\ closeSent' = (task[a].op = "close")
        /\ task' = [task EXCEPT ![a].pc = "hdr"]
        /\ UNCHANGED <<stream, timers, reading>>
  /\ UNCHANGED <<wire, drained, part, peer, got, ctxDone>>

\* s.Write takes the next piece, or fails.  The lock is released with the call.
WritePiece(a) ==
  /\ \/ /\ task[a].pc = "hdr"
        /\ stream = "open" /\ Len(wire) - drained < Room
        /\ wire' = Append(wire, Hdr(a))
        /\ task' = [task EXCEPT ![a].pc = "pay"]
        /\ UNCHANGED <<mu, stream, timers, reading>>
     \/ /\ task[a].pc = "pay"
        /\ stream = "open" /\ Len(wire) - drained < Room
        /\ wire' = Append(wire, Pay(a))
        /\ mu' = None /\ Returned(a)
     \/ /\ task[a].pc \in {"hdr", "pay"}
        /\ stream = "closed"
        /\ mu' = None /\ Returned(a)
        /\ UNCHANGED wire
  /\ UNCHANGED <<closeSent, drained, part, peer, got, ctxDone>>

-----------------------------------------------------------------------------
(* Read and readFragmentedMessage.  The caller reads until an error.       *)

\* ctx.Err, once per frame.
CheckCtx ==
  /\ reading = "check"
  /\ reading' = IF ctxDone THEN "ended" ELSE "block"
  /\ UNCHANGED <<mu, closeSent, stream, wire, drained, task, part, peer, got, timers, ctxDone>>

\* The frame is answered: a Pong, unless the context is over, or the echo of a Close.
Answer(op, n) ==
  /\ reading' = IF op = "pong" /\ ctxDone THEN "check" ELSE "write"
  /\ task' = [task EXCEPT ![Reader] = IF op = "pong" /\ ctxDone THEN @ ELSE Todo("lock", op, n)]
  /\ UNCHANGED <<part, got>>

\* Between messages.
ReadMessage(f, n) ==
  \/ f.op = "ping" /\ Answer("pong", n)
  \/ f.op = "pong" /\ reading' = "check" /\ UNCHANGED <<task, part, got>>
  \/ f.op = "close" /\ Answer("close", n)
  \/ f.op \in {"cont", "reserved"} /\ reading' = "ended" /\ UNCHANGED <<task, part, got>>
  \/ /\ f.op = "data"
     /\ reading' = "check"
     /\ got' = IF f.fin THEN Append(got, <<n>>) ELSE got
     /\ part' = IF f.fin THEN <<>> ELSE <<n>>
     /\ UNCHANGED task

\* Mutants of ReadFragment: a Ping in the middle is skipped; a Pong in the middle
\* starts the message again.
ReadFragment_NoPong(f, n) ==
  \/ f.op \in {"ping", "pong"} /\ reading' = "check" /\ UNCHANGED <<task, part, got>>
  \/ f.op = "close" /\ Answer("close", n)
  \/ f.op \in {"data", "reserved"} /\ reading' = "ended" /\ UNCHANGED <<task, part, got>>
  \/ /\ f.op = "cont"
     /\ reading' = "check"
     /\ got' = IF f.fin THEN Append(got, Append(part, n)) ELSE got
     /\ part' = IF f.fin THEN <<>> ELSE Append(part, n)
     /\ UNCHANGED task

ReadFragment_Restarts(f, n) ==
  \/ f.op = "ping" /\ Answer("pong", n)
  \/ f.op = "pong" /\ reading' = "check" /\ part' = <<>> /\ UNCHANGED <<task, got>>
  \/ f.op = "close" /\ Answer("close", n)
  \/ f.op \in {"data", "reserved"} /\ reading' = "ended" /\ UNCHANGED <<task, part, got>>
  \/ /\ f.op = "cont"
     /\ reading' = "check"
     /\ got' = IF f.fin THEN Append(got, Append(part, n)) ELSE got
     /\ part' = IF f.fin THEN <<>> ELSE Append(part, n)
     /\ UNCHANGED task

\* Inside a fragmented message.
ReadFragment(f, n) ==
  \/ f.op = "ping" /\ Answer("pong", n)
  \/ f.op = "pong" /\ reading' = "check" /\ UNCHANGED <<task, part, got>>
  \/ f.op = "close" /\ Answer("close", n)
  \/ f.op \in {"data", "reserved"} /\ reading' = "ended" /\ UNCHANGED <<task, part, got>>
  \/ /\ f.op = "cont"
     /\ reading' = "check"
     /\ got' = IF f.fin THEN Append(got, Append(part, n)) ELSE got
     /\ part' = IF f.fin THEN <<>> ELSE Append(part, n)
     /\ UNCHANGED task

\* readFrame returns the frame f of the server.  One in the buffer of bufio.Reader
\* comes out even after the stream is closed.
Receive(f) ==
  /\ reading = "block" /\ frames < MaxFrames
  /\ frames' = frames + 1
  /\ LET n == readFrame(f)
     IN  \/ n = Refused /\ reading' = "ended" /\ UNCHANGED <<task, part, seen, pings, got>>
         \/ /\ n # Refused
            /\ seen' = IF f.op \in {"data", "cont"} THEN Append(seen, f) ELSE seen
            /\ pings' = IF f.op = "ping" THEN pings + 1 ELSE pings
            /\ IF part = <<>> THEN ReadMessage(f, n) ELSE ReadFragment(f, n)
  /\ UNCHANGED <<mu, closeSent, stream, wire, drained, timers, ctxDone>>

ReadError ==
  /\ reading = "block" /\ stream = "closed"
  /\ reading' = "ended"
  /\ UNCHANGED <<mu, closeSent, stream, wire, drained, task, part, peer, got, timers, ctxDone>>

-----------------------------------------------------------------------------
(* The stream, the timer and the environment.                              *)

TimerFires ==
  /\ timers > 0
  /\ timers' = timers - 1
  /\ stream' = "closed"
  /\ UNCHANGED <<mu, closeSent, wire, drained, task, reading, part, peer, got, ctxDone>>

\* The transport breaks, or the peer closes it.
StreamFails ==
  /\ stream = "open"
  /\ stream' = "closed"
  /\ UNCHANGED <<mu, closeSent, wire, drained, task, reading, part, peer, got, timers, ctxDone>>

PeerReads ==
  /\ drained < Len(wire)
  /\ drained' = drained + 1
  /\ UNCHANGED <<mu, closeSent, stream, wire, task, reading, part, peer, got, timers, ctxDone>>

Cancel ==
  /\ ~ctxDone
  /\ ctxDone' = TRUE
  /\ UNCHANGED <<mu, closeSent, stream, wire, drained, task, reading, part, peer, got, timers>>

Next ==
  \/ \E w \in Writer, n \in Size : Write(w, n)
  \/ \E c \in Closer : Close(c)
  \/ \E a \in Actor : Lock(a) \/ WritePiece(a)
  \/ \E f \in PeerFrame : Receive(f)
  \/ CheckCtx \/ ReadError
  \/ TimerFires \/ StreamFails \/ PeerReads \/ Cancel

Spec == Init /\ [][Next]_vars

\* Goroutines run, the lock is handed on, the timer fires.  Nothing is assumed of
\* the peer or of the transport.
Fairness ==
  /\ \A a \in Actor : WF_vars(Lock(a)) /\ WF_vars(WritePiece(a))
  /\ WF_vars(CheckCtx) /\ WF_vars(ReadError) /\ WF_vars(TimerFires)

FairSpec == Spec /\ Fairness

-----------------------------------------------------------------------------
Piece == [by : Actor, op : {"data", "close", "pong"}, kind : {"hdr", "pay"},
          h : [len : Nat, ext : Nat], n : Nat]

TypeOK ==
  /\ mu \in Actor \cup {None}
  /\ closeSent \in BOOLEAN /\ ctxDone \in BOOLEAN
  /\ stream \in {"open", "closed"}
  /\ wire \in Seq(Piece) /\ drained \in 0 .. Len(wire)
  /\ task \in [Actor -> [pc : {"idle", "lock", "hdr", "pay", "done"}, op : {"data", "close", "pong"}, n : Nat]]
  /\ reading \in {"check", "block", "write", "ended"}
  /\ timers \in Nat

\* There is at most one CLOSE on the wire and nothing follows it, whichever of
\* Close and the echo of the peer's Close comes first and whatever the writers are
\* doing (TestFramedWSConn_NoWritesAfterCloseSent).
CloseIsLast ==
  \A i, j \in DOMAIN wire :
    i < j /\ wire[i].op = "close" => wire[j].by = wire[i].by /\ wire[j].kind = "pay"

\* Frames never interleave, and a header announces exactly the payload that follows
\* it, on both sides of the 125/126 and 65535/65536 boundaries (c.mu: "serialize
\* writes; multiple goroutines may write (data + auto pong/close)").
FramesWhole ==
  \A i \in DOMAIN wire :
    /\ wire[i].kind = "pay" =>
         /\ i > 1 /\ wire[i - 1].kind = "hdr" /\ wire[i - 1].by = wire[i].by
         /\ Announced(wire[i - 1].h) = wire[i].n
    /\ wire[i].kind = "hdr" => i = Len(wire) \/ wire[i + 1].kind = "pay"

\* The message being collected and those that are whole, after one more data or
\* continuation frame: one that is out of place adds nothing.
Collected(acc, f) ==
  LET now == Append(acc.open, Announced(f.h))
  IN  IF (f.op = "cont") = (acc.open = <<>>) THEN acc
      ELSE IF f.fin THEN [done |-> Append(acc.done, now), open |-> <<>>]
      ELSE [done |-> acc.done, open |-> now]

\* The messages in a sequence of data and continuation frames: a message is a data
\* frame and the continuations up to the final one.
Messages(s) ==
  LET acc[i \in 0 .. Len(s)] ==
        IF i = 0 THEN [done |-> <<>>, open |-> <<>>] ELSE Collected(acc[i - 1], s[i])
  IN  acc[Len(s)].done

\* Read returns exactly the messages among the frames taken so far, in order and
\* whole, wherever control frames come between the fragments.
ReadsMessages == got = Messages(seen)

\* After Close the stream is closed and the reader ends, also when writers, Pongs
\* and an echo compete for the lock, provided the peer goes on reading.
CloseEnds ==
  WF_vars(PeerReads) =>
    \A c \in Closer : task[c].pc = "lock" ~> stream = "closed" /\ reading = "ended"

\* Every Ping the reader takes, in or between messages, is answered by a Pong while
\* the connection lasts and the peer reads.
PingsAnswered ==
  WF_vars(PeerReads) =>
    \A k \in 1 .. MaxFrames :
      pings >= k ~>
           \/ Cardinality({i \in DOMAIN wire : wire[i].op = "pong" /\ wire[i].kind = "pay"}) >= k
           \/ closeSent \/ ctxDone \/ stream = "closed"
=============================================================================
