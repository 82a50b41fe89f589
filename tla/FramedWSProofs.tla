---------------------------- MODULE FramedWSProofs ----------------------------
(***************************************************************************)
(* Theorems about FramedWS, for any number of writers and closers, any     *)
(* lengths of messages, any frames of the server and any room in the       *)
(* stream; and about the bytes of an HTTP/3 stream that carries it.        *)
(***************************************************************************)
EXTENDS H3Conn, H3BytesProofs

TaskRecord == [pc : {"idle", "lock", "hdr", "pay", "done"}, op : {"data", "close", "pong"}, n : Nat]

\* What the proofs need to know of the types.
Typed ==
  /\ mu \in Actor \cup {None}
  /\ closeSent \in BOOLEAN
  /\ stream \in {"open", "closed"}
  /\ wire \in Seq(Piece)
  /\ task \in [Actor -> TaskRecord]

Writing(a) == task[a].pc \in {"hdr", "pay"}

\* The lock is held by the goroutine that writes a frame, and closeSent is set by
\* the one that writes a CLOSE.
LockInv ==
  /\ \A a \in Actor : Writing(a) <=> mu = a
  /\ reading # "write" => task[Reader].pc = "idle"
  /\ \A a \in Actor : mu = a => closeSent = (task[a].op = "close")

\* A header without its payload is the last piece, and the holder of the lock is
\* about to write the rest, unless the stream has broken.
WireInv ==
  /\ FramesWhole
  /\ stream = "open" /\ (\A a \in Actor : task[a].pc # "pay") =>
       wire = <<>> \/ wire[Len(wire)].kind = "pay"
  /\ \A a \in Actor : task[a].pc = "pay" => wire # <<>> /\ wire[Len(wire)] = Hdr(a)

NoCloseYet == \A i \in DOMAIN wire : wire[i].op # "close"

\* Until a CLOSE has been begun there is none on the wire; when its payload is due,
\* its header is the last piece.
CloseInv ==
  /\ CloseIsLast
  /\ ~closeSent \/ (\E a \in Actor : task[a].pc = "hdr") => NoCloseYet
  /\ \A a \in Actor : task[a].pc = "pay" =>
       \A i \in DOMAIN wire : wire[i].op = "close" => i = Len(wire)

FrameInv == Typed /\ LockInv /\ WireInv /\ CloseInv

-----------------------------------------------------------------------------
(* Lengths.                                                                *)

\* The header buildFrame makes for a payload announces its length, in all three
\* forms.
LEMMA Announces ==
  \A n \in Nat : buildFrame(n) \in [len : Nat, ext : Nat] /\ Announced(buildFrame(n)) = n
  <1> TAKE n \in Nat
  <1>1. n <= 65535 => n % 65536 = n
    OBVIOUS
  <1>2. n % 65536 \in Nat
    OBVIOUS
  <1> QED
    BY DEF buildFrame, Announced

LEMMA ReadFrameNat == \A f \in PeerFrame : readFrame(f) # Refused => readFrame(f) \in Nat
  BY FramedAssumption DEF readFrame, Refused

-----------------------------------------------------------------------------
(* Steps that write nothing.                                               *)

\* Neither the lock nor the wire changes, nor what a writing goroutine is doing,
\* and nobody begins to write.
Quiet ==
  /\ mu' = mu /\ closeSent' = closeSent /\ wire' = wire
  /\ stream' = stream \/ stream' = "closed"
  /\ \A a \in Actor : Writing(a) => task'[a] = task[a]
  /\ \A a \in Actor : ~Writing(a) => task'[a].pc \in {"idle", "lock", "done"}

LEMMA QuietKeeps ==
  ASSUME FrameInv, Quiet
  PROVE  /\ \A a \in Actor : (Writing(a) <=> mu = a)'
         /\ \A a \in Actor : (mu = a => closeSent = (task[a].op = "close"))'
         /\ WireInv' /\ CloseInv'
  <1> USE DEF FrameInv, Quiet, Writing
  <1>1. \A a \in Actor : (Writing(a) <=> mu = a)'
    BY DEF LockInv
  <1>2. \A a \in Actor : (mu = a => closeSent = (task[a].op = "close"))'
    BY DEF LockInv
  <1>3. /\ \A a \in Actor : task'[a].pc = "pay" <=> task[a].pc = "pay"
        /\ \A a \in Actor : task'[a].pc = "hdr" <=> task[a].pc = "hdr"
        /\ \A a \in Actor : task[a].pc = "pay" => task'[a] = task[a]
    OBVIOUS
  <1>4. WireInv'
    <2>1. FramesWhole'
      BY DEF WireInv, FramesWhole
    <2>2. (stream = "open" /\ (\A a \in Actor : task[a].pc # "pay") =>
             wire = <<>> \/ wire[Len(wire)].kind = "pay")'
      BY DEF WireInv
    <2>3. (\A a \in Actor : task[a].pc = "pay" => wire # <<>> /\ wire[Len(wire)] = Hdr(a))'
      BY DEF WireInv, Hdr
    <2> QED
      BY <2>1, <2>3 DEF WireInv
  <1>5. CloseInv'
    BY DEF CloseInv, CloseIsLast, NoCloseYet
  <1> QED
    BY <1>1, <1>2, <1>4, <1>5

\* What the returning of a call does: never a new write.
LEMMA ReturnedForm ==
  ASSUME Typed, NEW a \in Actor, Returned(a)
  PROVE  /\ task' = [task EXCEPT ![a] = Todo(IF a = Reader THEN "idle" ELSE "done", "data", 0)]
         /\ task' \in [Actor -> TaskRecord]
         /\ task'[a].pc \in {"idle", "done"}
         /\ \A b \in Actor \ {a} : task'[b] = task[b]
         /\ stream' \in {"open", "closed"}
         /\ stream' = stream \/ stream' = "closed"
         /\ a = Reader => task'[Reader].pc = "idle"
         /\ a # Reader => reading' = reading
  <1> DEFINE t == Todo(IF a = Reader THEN "idle" ELSE "done", "data", 0)
  <1>1. t \in TaskRecord /\ t.pc \in {"idle", "done"} /\ (a = Reader => t.pc = "idle")
    BY DEF Todo, TaskRecord
  <1>2. task' = [task EXCEPT ![a] = t]
    BY DEF Returned
  <1> HIDE DEF t
  <1>3. /\ task' \in [Actor -> TaskRecord] /\ task'[a] = t
        /\ \A b \in Actor \ {a} : task'[b] = task[b]
    BY <1>2, <1>1 DEF Typed
  <1>4. stream' = stream \/ stream' = "closed"
    BY DEF Returned
  <1>5. a # Reader => reading' = reading
    BY DEF Returned
  <1> QED
    BY <1>1, <1>2, <1>4, <1>5 DEF Typed, t

LEMMA ReturnKeeps ==
  ASSUME FrameInv, NEW a \in Actor, ~Writing(a), Returned(a), mu' = mu, closeSent' = closeSent, wire' = wire
  PROVE  FrameInv'
  <1>1. Typed'
    BY ReturnedForm DEF FrameInv, Typed
  <1>2. \A b \in Actor : task[b] \in TaskRecord
    BY DEF FrameInv, Typed
  <1>3. Quiet
    BY ReturnedForm DEF FrameInv, Quiet, Writing, TaskRecord
  <1>4. (reading # "write" => task[Reader].pc = "idle")'
    BY ReturnedForm DEF FrameInv, LockInv, Actor
  <1> QED
    BY <1>1, <1>3, <1>4, QuietKeeps DEF FrameInv, LockInv

\* A goroutine other than the reader starts a call.
LEMMA StartKeeps ==
  ASSUME FrameInv, NEW a \in Actor \ {Reader}, NEW t \in TaskRecord,
         task[a].pc = "idle", t.pc \in {"lock", "done"}, task' = [task EXCEPT ![a] = t],
         UNCHANGED <<mu, closeSent, stream, wire, reading>>
  PROVE  FrameInv'
  <1>1. Typed'
    BY DEF FrameInv, Typed
  <1>2. Quiet
    BY DEF FrameInv, Quiet, Typed, Writing, TaskRecord
  <1>3. (reading # "write" => task[Reader].pc = "idle")'
    BY DEF FrameInv, LockInv, Typed, Actor
  <1> QED
    BY <1>1, <1>2, QuietKeeps DEF FrameInv, LockInv

\* The reader goes on, or begins to answer.
LEMMA ReaderKeeps ==
  ASSUME FrameInv, reading # "write",
         UNCHANGED <<mu, closeSent, wire>>, stream' = stream,
         \/ task' = task /\ reading' # "write"
         \/ \E op \in {"close", "pong"}, n \in Nat :
              task' = [task EXCEPT ![Reader] = Todo("lock", op, n)] /\ reading' = "write"
  PROVE  FrameInv'
  <1>1. Typed'
    BY DEF FrameInv, Typed, Todo, TaskRecord
  <1>2. Reader \in Actor /\ task[Reader].pc = "idle"
    BY DEF FrameInv, LockInv, Actor
  <1>3. Quiet
    <2>1. CASE task' = task
      BY <2>1 DEF FrameInv, Quiet, Typed, Writing, TaskRecord
    <2>2. CASE \E op \in {"close", "pong"}, n \in Nat : task' = [task EXCEPT ![Reader] = Todo("lock", op, n)]
      BY <1>2, <2>2 DEF FrameInv, Quiet, Typed, Writing, TaskRecord, Todo
    <2> QED
      BY <2>1, <2>2
  <1>4. (reading # "write" => task[Reader].pc = "idle")'
    BY <1>2
  <1> QED
    BY <1>1, <1>3, QuietKeeps DEF FrameInv, LockInv

\* Only the stream may change: the timer, the transport, the peer, the context.
LEMMA OutsideKeeps ==
  ASSUME FrameInv, UNCHANGED <<mu, closeSent, wire, task, reading>>, stream' = stream \/ stream' = "closed"
  PROVE  FrameInv'
  <1>1. Typed'
    BY DEF FrameInv, Typed
  <1>2. Quiet
    BY DEF FrameInv, Quiet, Typed, Writing, TaskRecord
  <1>3. (reading # "write" => task[Reader].pc = "idle")'
    BY DEF FrameInv, LockInv
  <1> QED
    BY <1>1, <1>2, QuietKeeps DEF FrameInv, LockInv

-----------------------------------------------------------------------------
(* Steps that write.                                                       *)

\* The lock is taken: a CLOSE can only be begun when none has been.
LEMMA LockTaken ==
  ASSUME FrameInv, NEW a \in Actor, task[a].pc = "lock", mu = None, ~closeSent,
         mu' = a, closeSent' = (task[a].op = "close"), task' = [task EXCEPT ![a].pc = "hdr"],
         UNCHANGED <<stream, wire, reading>>
  PROVE  FrameInv'
  <1>1. /\ task' \in [Actor -> TaskRecord]
        /\ task'[a].pc = "hdr" /\ task'[a].op = task[a].op
        /\ \A b \in Actor \ {a} : task'[b] = task[b]
    BY DEF FrameInv, Typed, TaskRecord
  <1>2. Typed'
    BY <1>1 DEF FrameInv, Typed
  <1>3. \A b \in Actor : task[b].pc \notin {"hdr", "pay"}
    BY FramedAssumption DEF FrameInv, LockInv, Writing
  <1>4. LockInv'
    BY <1>1, <1>3 DEF FrameInv, LockInv, Writing
  <1>5. \A b \in Actor : task'[b].pc # "pay"
    BY <1>3
  <1>6. WireInv'
    BY <1>3 DEF FrameInv, WireInv, FramesWhole
  <1>7. CloseInv'
    BY DEF FrameInv, CloseInv, CloseIsLast, NoCloseYet
  <1> QED
    BY <1>2, <1>4, <1>6, <1>7, SMTT(60) DEF FrameInv

\* The header goes out.
LEMMA HeaderWritten ==
  ASSUME FrameInv, NEW a \in Actor, task[a].pc = "hdr", stream = "open",
         wire' = Append(wire, Hdr(a)), task' = [task EXCEPT ![a].pc = "pay"],
         UNCHANGED <<mu, closeSent, stream, reading>>
  PROVE  FrameInv'
  <1>1. /\ task' \in [Actor -> TaskRecord]
        /\ task'[a].pc = "pay" /\ task'[a].op = task[a].op /\ task'[a].n = task[a].n
        /\ \A b \in Actor \ {a} : task'[b] = task[b]
    BY ZenonT(60) DEF FrameInv, Typed, TaskRecord
  <1>2. Hdr(a) \in Piece /\ Hdr(a).kind = "hdr" /\ Hdr(a).op = task[a].op /\ Hdr(a).by = a
    BY Announces DEF FrameInv, Typed, TaskRecord, Hdr, Piece
  <1>3. mu = a /\ \A b \in Actor \ {a} : task[b].pc \notin {"hdr", "pay"}
    BY DEF FrameInv, LockInv, Writing
  <1>4. wire \in Seq(Piece)
    BY DEF FrameInv, Typed
  <1>5. /\ wire' \in Seq(Piece) /\ Len(wire') = Len(wire) + 1 /\ Len(wire) \in Nat
        /\ wire'[Len(wire) + 1] = Hdr(a)
        /\ \A i \in 1 .. Len(wire) : wire'[i] = wire[i]
        /\ DOMAIN wire = 1 .. Len(wire) /\ DOMAIN wire' = 1 .. Len(wire) + 1
        /\ wire' # <<>>
    BY <1>2, <1>4
  <1>6. wire = <<>> \/ wire[Len(wire)].kind = "pay"
    BY <1>3 DEF FrameInv, WireInv
  <1>7. NoCloseYet
    BY DEF FrameInv, CloseInv
  <1>8. Typed'
    BY <1>1, <1>5 DEF FrameInv, Typed
  <1>9. LockInv'
    BY DEF FrameInv, LockInv, Writing
  <1>10. WireInv'
    <2>1. FramesWhole'
      BY <1>2, <1>5, <1>6 DEF FrameInv, WireInv, FramesWhole
    <2>2. (Hdr(a))' = Hdr(a)
      BY DEF Hdr
    <2>3. (\A b \in Actor : task[b].pc = "pay" => wire # <<>> /\ wire[Len(wire)] = Hdr(b))'
      BY <1>3, <2>2
    <2> QED
      BY <1>1, <2>1, <2>3, SMTT(60) DEF WireInv
  <1>11. CloseInv'
    <2>1. \A i \in DOMAIN wire' : wire'[i].op = "close" => i = Len(wire')
      BY <1>7 DEF NoCloseYet
    <2>2. CloseIsLast'
      BY <2>1 DEF CloseIsLast
    <2>3. closeSent \/ task[a].op # "close"
      BY <1>3, ZenonT(60) DEF FrameInv, LockInv
    <2>4. ~closeSent => NoCloseYet'
      BY <1>2, <1>7, <2>3 DEF NoCloseYet
    <2>5. \A b \in Actor : task'[b].pc # "hdr"
      BY <1>1, <1>3
    <2> QED
      BY <2>1, <2>2, <2>4, <2>5 DEF CloseInv
  <1> QED
    BY <1>8, <1>9, <1>10, <1>11 DEF FrameInv

\* The call of the holder of the lock returns: nobody writes any more.
LEMMA Released ==
  ASSUME FrameInv, NEW a \in Actor, Writing(a), Returned(a), mu' = None, closeSent' = closeSent,
         wire' \in Seq(Piece)
  PROVE  /\ Typed' /\ LockInv'
         /\ \A b \in Actor : task'[b].pc \notin {"hdr", "pay"}
  <1>1. \A b \in Actor \ {a} : task[b].pc \notin {"hdr", "pay"}
    BY DEF FrameInv, LockInv, Writing
  <1>2. \A b \in Actor : task'[b].pc \notin {"hdr", "pay"}
    BY <1>1, ReturnedForm DEF FrameInv
  <1>3. Typed'
    BY ReturnedForm DEF FrameInv, Typed
  <1>4. (reading # "write" => task[Reader].pc = "idle")'
    BY ReturnedForm DEF FrameInv, LockInv, Actor
  <1>5. LockInv'
    BY <1>2, <1>4, FramedAssumption DEF LockInv, Writing
  <1> QED
    BY <1>2, <1>3, <1>5

\* The payload goes out after its own header, of the length the header announces.
LEMMA PayloadWritten ==
  ASSUME FrameInv, NEW a \in Actor, task[a].pc = "pay", wire' = Append(wire, Pay(a)),
         mu' = None, Returned(a), closeSent' = closeSent
  PROVE  FrameInv'
  <1>1. task[a] \in TaskRecord /\ wire \in Seq(Piece)
    BY DEF FrameInv, Typed
  <1>2. /\ Pay(a) \in Piece /\ Pay(a).kind = "pay" /\ Pay(a).op = task[a].op
        /\ Pay(a).by = a /\ Pay(a).n = task[a].n
    BY <1>1, Announces, ZenonT(60) DEF TaskRecord, Pay, Piece
  <1>3. /\ Hdr(a).kind = "hdr" /\ Hdr(a).op = task[a].op /\ Hdr(a).by = a
        /\ Announced(Hdr(a).h) = task[a].n
    BY <1>1, Announces, ZenonT(60) DEF TaskRecord, Hdr
  <1>4. /\ wire' \in Seq(Piece) /\ Len(wire') = Len(wire) + 1 /\ Len(wire) \in Nat
        /\ wire'[Len(wire) + 1] = Pay(a)
        /\ \A i \in 1 .. Len(wire) : wire'[i] = wire[i]
        /\ DOMAIN wire = 1 .. Len(wire) /\ DOMAIN wire' = 1 .. Len(wire) + 1
    BY <1>1, <1>2
  <1>5. wire # <<>> /\ wire[Len(wire)] = Hdr(a) /\ Len(wire) > 0
    BY DEF FrameInv, WireInv
  <1>6. /\ Typed' /\ LockInv'
        /\ \A b \in Actor : task'[b].pc \notin {"hdr", "pay"}
    BY <1>4, Released DEF Writing
  <1>7. WireInv'
    <2>1. FramesWhole'
      BY <1>2, <1>3, <1>4, SMTT(60) DEF FrameInv, WireInv, FramesWhole
    <2> QED
      BY <1>2, <1>6, <2>1, SMTT(60) DEF WireInv
  <1>8. CloseInv'
    <2>1. \A i \in DOMAIN wire : wire[i].op = "close" => i = Len(wire)
      BY DEF FrameInv, CloseInv
    <2>2. CloseIsLast'
      BY <1>2, <1>3, <1>5, <2>1, SMTT(60) DEF CloseIsLast
    <2>3. ~closeSent => task[a].op # "close"
      BY ZenonT(60) DEF FrameInv, LockInv, Writing
    <2>4. ~closeSent => NoCloseYet'
      BY <1>2, <2>3 DEF FrameInv, CloseInv, NoCloseYet
    <2> QED
      BY <1>6, <2>2, <2>4, SMTT(60) DEF CloseInv
  <1> QED
    BY <1>6, <1>7, <1>8 DEF FrameInv

\* s.Write fails: a header may be left without its payload, on a closed stream.
LEMMA WriteFailed ==
  ASSUME FrameInv, NEW a \in Actor, Writing(a), stream = "closed", wire' = wire,
         mu' = None, Returned(a), closeSent' = closeSent
  PROVE  FrameInv'
  <1>1. /\ Typed' /\ LockInv'
        /\ \A b \in Actor : task'[b].pc \notin {"hdr", "pay"}
    BY Released DEF FrameInv, Typed
  <1>2. stream' = "closed"
    BY ReturnedForm, SMTT(60) DEF FrameInv
  <1>3. WireInv'
    BY <1>1, <1>2, SMTT(60) DEF FrameInv, WireInv, FramesWhole
  <1>4. CloseInv'
    BY <1>1 DEF FrameInv, CloseInv, CloseIsLast, NoCloseYet
  <1> QED
    BY <1>1, <1>3, <1>4, SMTT(60) DEF FrameInv

-----------------------------------------------------------------------------
(* The invariant.                                                          *)

LEMMA FrameInit == Init => FrameInv
  <1> SUFFICES ASSUME Init PROVE FrameInv
    OBVIOUS
  <1>1. \A a \in Actor : task[a].pc = "idle"
    BY DEF Init, Todo
  <1>2. Typed
    <2>1. Todo("idle", "data", 0) \in TaskRecord
      BY DEF Todo, TaskRecord
    <2>2. task \in [Actor -> TaskRecord]
      BY <2>1 DEF Init
    <2>3. <<>> \in Seq(Piece)
      OBVIOUS
    <2> QED
      BY <2>2, <2>3, ZenonT(60) DEF Init, Typed
  <1>3. LockInv
    BY <1>1, FramedAssumption DEF Init, LockInv, Writing, Actor
  <1>4. WireInv /\ CloseInv
    BY <1>1 DEF Init, WireInv, FramesWhole, CloseInv, CloseIsLast, NoCloseYet
  <1> QED
    BY <1>2, <1>3, <1>4 DEF FrameInv

LEMMA ReceiveKeeps ==
  ASSUME FrameInv, NEW f \in PeerFrame, Receive(f)
  PROVE  FrameInv'
  <1>1. reading # "write" /\ UNCHANGED <<mu, closeSent, wire>> /\ stream' = stream
    BY DEF Receive
  <1>2. CASE readFrame(f) = Refused
    <2>1. task' = task /\ reading' # "write"
      BY <1>2 DEF Receive
    <2> QED
      BY <1>1, <2>1, ReaderKeeps
  <1>3. CASE readFrame(f) # Refused
    <2> DEFINE n == readFrame(f)
    <2>1. n \in Nat
      BY <1>3, ReadFrameNat
    <2>2. ReadMessage(f, n) \/ ReadFragment(f, n)
      BY <1>3 DEF Receive
    <2>3. \/ task' = task /\ reading' # "write"
          \/ \E op \in {"close", "pong"} : Answer(op, n)
      BY <2>2 DEF ReadMessage, ReadFragment
    <2> HIDE DEF n
    <2>4. \A op \in {"close", "pong"} : Answer(op, n) =>
            \/ task' = task /\ reading' # "write"
            \/ task' = [task EXCEPT ![Reader] = Todo("lock", op, n)] /\ reading' = "write"
      BY ZenonT(60) DEF Answer, FrameInv, Typed
    <2> QED
      BY <1>1, <2>1, <2>3, <2>4, ReaderKeeps, SMTT(60)
  <1> QED
    BY <1>2, <1>3

LEMMA FrameStep == FrameInv /\ [Next]_vars => FrameInv'
  <1> SUFFICES ASSUME FrameInv, [Next]_vars PROVE FrameInv'
    OBVIOUS
  <1>1. ASSUME NEW w \in Writer, NEW n \in Size, Write(w, n) PROVE FrameInv'
    <2> DEFINE t == Todo(IF ctxDone THEN "done" ELSE "lock", "data", n)
    <2>1. t \in TaskRecord /\ t.pc \in {"lock", "done"} /\ w \in Actor \ {Reader}
      BY FramedAssumption DEF Todo, TaskRecord, Actor
    <2>2. /\ task[w].pc = "idle" /\ task' = [task EXCEPT ![w] = t]
          /\ UNCHANGED <<mu, closeSent, stream, wire, reading>>
      BY <1>1 DEF Write
    <2> HIDE DEF t
    <2> QED
      BY <2>1, <2>2, StartKeeps, ZenonT(60)
  <1>2. ASSUME NEW c \in Closer, Close(c) PROVE FrameInv'
    <2> DEFINE t == Todo("lock", "close", 2)
    <2>1. t \in TaskRecord /\ t.pc \in {"lock", "done"} /\ c \in Actor \ {Reader}
      BY FramedAssumption DEF Todo, TaskRecord, Actor
    <2>2. /\ task[c].pc = "idle" /\ task' = [task EXCEPT ![c] = t]
          /\ UNCHANGED <<mu, closeSent, stream, wire, reading>>
      BY <1>2 DEF Close
    <2> HIDE DEF t
    <2> QED
      BY <2>1, <2>2, StartKeeps, ZenonT(60)
  <1>3. ASSUME NEW a \in Actor, Lock(a) PROVE FrameInv'
    <2>1. CASE closeSent
      BY <1>3, <2>1, ReturnKeeps, SMTT(60) DEF Lock, Writing
    <2>2. CASE ~closeSent
      BY <1>3, <2>2, LockTaken, SMTT(60) DEF Lock
    <2> QED
      BY <2>1, <2>2
  <1>4. ASSUME NEW a \in Actor, WritePiece(a) PROVE FrameInv'
    <2>1. CASE stream = "open" /\ task[a].pc = "hdr"
      BY <1>4, <2>1, HeaderWritten, SMTT(60) DEF WritePiece
    <2>2. CASE stream = "open" /\ task[a].pc = "pay"
      BY <1>4, <2>2, PayloadWritten, SMTT(60) DEF WritePiece
    <2>3. CASE stream = "closed"
      BY <1>4, <2>3, WriteFailed, SMTT(60) DEF WritePiece, Writing
    <2> QED
      BY <1>4, <2>1, <2>2, <2>3, SMTT(60) DEF WritePiece
  <1>5. ASSUME NEW f \in PeerFrame, Receive(f) PROVE FrameInv'
    BY <1>5, ReceiveKeeps, SMTT(60)
  <1>6. CASE CheckCtx
    <2>1. /\ reading # "write" /\ reading' # "write" /\ task' = task
          /\ UNCHANGED <<mu, closeSent, wire>> /\ stream' = stream
      BY <1>6, SMTT(60) DEF CheckCtx
    <2> QED
      BY <2>1, ReaderKeeps, SMTT(60)
  <1>7. CASE ReadError
    <2>1. /\ reading # "write" /\ reading' # "write" /\ task' = task
          /\ UNCHANGED <<mu, closeSent, wire>> /\ stream' = stream
      BY <1>7, SMTT(60) DEF ReadError
    <2> QED
      BY <2>1, ReaderKeeps
  <1>8. CASE TimerFires \/ StreamFails
    BY <1>8, OutsideKeeps, SMTT(60) DEF TimerFires, StreamFails
  <1>9. CASE PeerReads \/ Cancel \/ UNCHANGED vars
    BY <1>9, OutsideKeeps, SMTT(60) DEF PeerReads, Cancel, vars
  <1> QED
    BY <1>1, <1>2, <1>3, <1>4, <1>5, <1>6, <1>7, <1>8, <1>9, SMTT(60) DEF Next

-----------------------------------------------------------------------------
(* What Read returns.                                                      *)

Nothing == [done |-> <<>>, open |-> <<>>]

\* f[i] is what the first i frames of s amount to.
Collects(f, s, k) == f = [i \in 0 .. k |-> IF i = 0 THEN Nothing ELSE Collected(f[i - 1], s[i])]

LEMMA CollectsExist ==
  ASSUME NEW s
  PROVE  \A k \in Nat : \E f : Collects(f, s, k)
<1> DEFINE S == {k \in Nat : \E f : Collects(f, s, k)}
<1>1. 0 \in S
  <2>1. Collects([i \in 0 .. 0 |-> Nothing], s, 0)
    BY DEF Collects
  <2> QED  BY <2>1
<1>2. ASSUME NEW k \in S PROVE k + 1 \in S
  <2>1. k \in Nat /\ k + 1 \in Nat
    OBVIOUS
  <2>2. PICK f : Collects(f, s, k)
    BY SMTT(60)
  <2> DEFINE g == [i \in 0 .. k + 1 |-> IF i = k + 1 THEN Collected(f[k], s[k + 1]) ELSE f[i]]
  <2>3. ASSUME NEW i \in 0 .. k + 1 PROVE g[i] = IF i = 0 THEN Nothing ELSE Collected(g[i - 1], s[i])
    <3>1. CASE i = 0
      BY <2>2 DEF Collects
    <3>2. CASE i = k + 1
      <4>1. g[i] = Collected(f[k], s[i]) /\ i - 1 = k /\ k \in 0 .. k + 1 /\ k # k + 1 /\ i # 0
        BY <3>2
      <4>2. g[i - 1] = f[k]
        BY <4>1
      <4> QED  BY <4>1
    <3>3. CASE i \in 1 .. k
      <4>1. i - 1 \in 0 .. k + 1 /\ i - 1 # k + 1 /\ i # 0 /\ i # k + 1 /\ i \in 0 .. k
        BY <3>3
      <4>2. g[i] = f[i] /\ g[i - 1] = f[i - 1]
        BY <4>1
      <4>3. f[i] = Collected(f[i - 1], s[i])
        BY <2>2, <4>1, SMTT(60) DEF Collects
      <4> QED  BY <4>1, <4>3
    <3> QED  BY <3>1, <3>3, SMTT(60)
  <2>4. Collects(g, s, k + 1)
    BY <2>3 DEF Collects
  <2> QED  BY <2>4
<1>3. S = Nat
  <2> HIDE DEF S
  <2>1. S \in SUBSET Nat
    BY DEF S
  <2> QED  BY <1>1, <1>2, <2>1, Induction
<1> QED  BY <1>3

\* What all frames of s amount to.
Total(s) == (CHOOSE f : Collects(f, s, Len(s)))[Len(s)]

LEMMA TotalCollects ==
  ASSUME NEW s \in Seq(PeerFrame)
  PROVE  \E f : Collects(f, s, Len(s)) /\ Total(s) = f[Len(s)]
<1> DEFINE f == CHOOSE f : Collects(f, s, Len(s))
<1>1. Len(s) \in Nat
  OBVIOUS
<1>2. \E g : Collects(g, s, Len(s))
  BY <1>1, CollectsExist, ZenonT(60)
<1>3. Collects(f, s, Len(s))
  BY <1>2
<1>4. Total(s) = f[Len(s)]
  BY DEF Total
<1> HIDE DEF f
<1> QED  BY <1>3, <1>4

\* The recursive function of Messages is that of Total.
LEMMA MessagesTotal ==
  ASSUME NEW s \in Seq(PeerFrame)
  PROVE  Messages(s) = Total(s).done
BY DEF Messages, Total, Collects, Nothing

LEMMA TotalEmpty == Total(<<>>) = Nothing
<1>1. <<>> \in Seq(PeerFrame) /\ Len(<<>>) = 0
  OBVIOUS
<1>2. PICK f : Collects(f, <<>>, Len(<<>>)) /\ Total(<<>>) = f[Len(<<>>)]
  BY <1>1, TotalCollects, ZenonT(60)
<1> QED  BY <1>2 DEF Collects

LEMMA TotalAppend ==
  ASSUME NEW s \in Seq(PeerFrame), NEW e \in PeerFrame
  PROVE  Total(Append(s, e)) = Collected(Total(s), e)
<1> DEFINE t == Append(s, e)
           k == Len(s)
<1>1. /\ t \in Seq(PeerFrame) /\ Len(t) = k + 1 /\ k \in Nat
      /\ \A i \in 1 .. k : t[i] = s[i]
      /\ t[k + 1] = e
  OBVIOUS
<1> HIDE DEF t
<1>2. PICK f : Collects(f, s, k) /\ Total(s) = f[k]
  BY TotalCollects, SMTT(60)
<1>3. PICK g : Collects(g, t, k + 1) /\ Total(t) = g[k + 1]
  BY <1>1, TotalCollects, SMTT(60)
<1> HIDE DEF k
<1> DEFINE S == {i \in Nat : i <= k => f[i] = g[i]}
<1>4. 0 \in S
  BY <1>1, <1>2, <1>3, SMTT(60) DEF Collects
<1>5. ASSUME NEW i \in S PROVE i + 1 \in S
  <2> SUFFICES ASSUME i + 1 <= k PROVE f[i + 1] = g[i + 1]
    OBVIOUS
  <2>1. /\ i \in Nat /\ f[i] = g[i] /\ i + 1 \in 1 .. k /\ i + 1 \in 0 .. k /\ i + 1 \in 0 .. k + 1
        /\ (i + 1) - 1 = i /\ i + 1 # 0
    BY <1>1
  <2>2. f[i + 1] = Collected(f[i], s[i + 1])
    BY <1>2, <2>1, ZenonT(60) DEF Collects
  <2>3. g[i + 1] = Collected(g[i], t[i + 1])
    BY <1>3, <2>1, ZenonT(60) DEF Collects
  <2> QED  BY <1>1, <2>2, <2>3, SMTT(60)
<1>6. S = Nat
  <2> HIDE DEF S
  <2>1. S \in SUBSET Nat
    BY DEF S
  <2> QED  BY <1>4, <1>5, <2>1, Induction, SMTT(60)
<1>7. f[k] = g[k]
  BY <1>1, <1>6, SMTT(60)
<1>8. k + 1 \in 0 .. k + 1 /\ k + 1 # 0 /\ (k + 1) - 1 = k
  BY <1>1
<1>9. g[k + 1] = Collected(g[k], t[k + 1])
  BY <1>3, <1>8, SMTT(60) DEF Collects
<1> QED  BY <1>1, <1>2, <1>3, <1>7, <1>9, SMTT(60) DEF t

\* What Read has returned and what it is collecting are what the frames it has taken
\* amount to.
ReadInv ==
  /\ seen \in Seq(PeerFrame) /\ part \in Seq(Nat) /\ got \in Seq(Seq(Nat))
  /\ Total(seen) = [done |-> got, open |-> part]

LEMMA ReadInit == Init => ReadInv
<1> SUFFICES ASSUME Init PROVE ReadInv
  OBVIOUS
<1>1. seen = <<>> /\ part = <<>> /\ got = <<>>
  BY DEF Init
<1>2. <<>> \in Seq(PeerFrame) /\ <<>> \in Seq(Nat) /\ <<>> \in Seq(Seq(Nat))
  BY SMTT(60)
<1> QED  BY <1>1, TotalEmpty DEF ReadInv, Nothing

\* One more frame with a payload.
LEMMA Takes ==
  ASSUME ReadInv, NEW e \in PeerFrame, seen' = Append(seen, e),
         part' \in Seq(Nat), got' \in Seq(Seq(Nat)),
         [done |-> got', open |-> part'] = Collected([done |-> got, open |-> part], e)
  PROVE  ReadInv'
<1>1. PICK s \in Seq(PeerFrame) : s = seen /\ Total(s) = [done |-> got, open |-> part]
  BY DEF ReadInv
<1>2. seen' = Append(s, e) /\ Append(s, e) \in Seq(PeerFrame)
  BY <1>1, SMTT(60)
<1>3. Total(Append(s, e)) = [done |-> got', open |-> part']
  BY <1>1, TotalAppend, SMTT(60)
<1>4. Total(seen') = [done |-> got', open |-> part']
  BY <1>2, <1>3, SMTT(60)
<1>5. (Total(seen))' = Total(seen')
  BY DEF Total, Collects
<1> QED  BY <1>4 DEF ReadInv

LEMMA OtherSteps == ASSUME ReadInv, UNCHANGED <<seen, part, got>> PROVE ReadInv'
<1>1. (Total(seen))' = Total(seen)
  BY DEF Total, Collects
<1> QED  BY DEF ReadInv

\* The length readFrame finds is the one that RFC 6455 means.
LEMMA ReadsAnnounced == \A f \in PeerFrame : readFrame(f) # Refused => readFrame(f) = Announced(f.h)
  BY FramedAssumption, SMTT(60) DEF readFrame, Announced, Refused

LEMMA ReceiveReads == ASSUME ReadInv, NEW f \in PeerFrame, Receive(f) PROVE ReadInv'
<1>1. CASE readFrame(f) = Refused
  BY <1>1, OtherSteps, SMTT(60) DEF Receive
<1>2. CASE readFrame(f) # Refused
  <2>1. PICK n \in Nat : n = readFrame(f) /\ n = Announced(f.h)
    BY <1>2, ReadFrameNat, ReadsAnnounced, SMTT(60)
  <2>2. /\ seen' = IF f.op \in {"data", "cont"} THEN Append(seen, f) ELSE seen
        /\ IF part = <<>> THEN ReadMessage(f, n) ELSE ReadFragment(f, n)
    BY <1>2, <2>1, SMTT(60) DEF Receive
  <2>3. part \in Seq(Nat) /\ got \in Seq(Seq(Nat))
    BY DEF ReadInv
  <2> DEFINE now == Append(part, n)
  <2>4. now \in Seq(Nat) /\ (part = <<>> => now = <<n>>)
    <3>1. now \in Seq(Nat)
      BY <2>3
    <3>2. Append(<<>>, n) = <<n>>
      OBVIOUS
    <3>3. part = <<>> => now = <<n>>
      BY SMTT(60)
    <3> QED  BY <3>1, <3>3, SMTT(60)
  <2> DEFINE acc == [done |-> got, open |-> part]
  <2>5. Collected(acc, f) =
          IF (f.op = "cont") = (part = <<>>) THEN acc
          ELSE IF f.fin THEN [done |-> Append(got, now), open |-> <<>>]
          ELSE [done |-> got, open |-> now]
    BY <2>1 DEF Collected
  <2> HIDE DEF now
  <2>6. CASE f.op \notin {"data", "cont"}
    <3>1. UNCHANGED <<seen, part, got>>
      BY <2>2, <2>6, SMTT(60) DEF ReadMessage, ReadFragment, Answer
    <3> QED  BY <3>1, OtherSteps, SMTT(60)
  <2>7. CASE f.op \in {"data", "cont"} /\ (f.op = "cont") = (part = <<>>)
    <3>1. seen' = Append(seen, f) /\ UNCHANGED <<part, got>>
      BY <2>2, <2>7, SMTT(60) DEF ReadMessage, ReadFragment, Answer
    <3> QED  BY <2>3, <2>5, <2>7, <3>1, Takes, SMTT(60)
  <2>8. CASE f.op \in {"data", "cont"} /\ (f.op = "cont") # (part = <<>>)
    <3>1. /\ seen' = Append(seen, f)
          /\ got' = IF f.fin THEN Append(got, now) ELSE got
          /\ part' = IF f.fin THEN <<>> ELSE now
      BY <2>2, <2>4, <2>8, ZenonT(60) DEF ReadMessage, ReadFragment, Answer, now
    <3>2. Append(got, now) \in Seq(Seq(Nat)) /\ <<>> \in Seq(Nat)
      BY <2>3, <2>4, SMTT(60)
    <3>3. part' \in Seq(Nat) /\ got' \in Seq(Seq(Nat))
      BY <2>3, <2>4, <3>1, SMTT(60)
    <3>4. [done |-> got', open |-> part'] = Collected(acc, f)
      BY <2>5, <2>8, <3>1, ZenonT(60)
    <3> QED  BY <3>1, <3>3, <3>4, Takes, ZenonT(60)
  <2> QED  BY <2>6, <2>7, <2>8, SMTT(60)
<1> QED  BY <1>1, <1>2

LEMMA ReadStep == ReadInv /\ [Next]_vars => ReadInv'
<1> SUFFICES ASSUME ReadInv, [Next]_vars PROVE ReadInv'
  OBVIOUS
<1>1. ASSUME NEW f \in PeerFrame, Receive(f) PROVE ReadInv'
  BY <1>1, ReceiveReads
<1>2. CASE \/ \E w \in Writer, n \in Size : Write(w, n)
           \/ \E c \in Closer : Close(c)
           \/ \E a \in Actor : Lock(a) \/ WritePiece(a)
           \/ CheckCtx \/ ReadError
           \/ TimerFires \/ StreamFails \/ PeerReads \/ Cancel \/ UNCHANGED vars
  <2>1. UNCHANGED <<seen, part, got>>
    BY <1>2 DEF Write, Close, Lock, WritePiece, CheckCtx, ReadError, TimerFires, StreamFails,
       PeerReads, Cancel, vars, peer
  <2> QED  BY <2>1, OtherSteps, SMTT(60)
<1> QED  BY <1>1, <1>2, SMTT(60) DEF Next

-----------------------------------------------------------------------------
\* However many goroutines write, answer and close, nothing of another frame follows
\* a CLOSE on the stream (writeRaw and sendClose, ws_h2.go).
THEOREM CloseLast == Spec => []CloseIsLast
  <1>1. FrameInv => CloseIsLast
    BY SMTT(60) DEF FrameInv, CloseInv
  <1> QED
    BY <1>1, FrameInit, FrameStep, PTL DEF Spec

\* However many goroutines write and whatever the lengths of their messages, frames
\* do not interleave and each header announces the payload that follows it
\* (writeRaw and buildFrame, ws_h2.go).
THEOREM WholeFrames == Spec => []FramesWhole
  <1>1. FrameInv => FramesWhole
    BY SMTT(60) DEF FrameInv, WireInv
  <1> QED
    BY <1>1, FrameInit, FrameStep, PTL DEF Spec

\* Whatever the server sends, Read returns exactly the messages among the frames it
\* has taken, in order and whole, wherever control frames come between the fragments
\* (Read and readFragmentedMessage, ws_h2.go).
THEOREM MessagesRead == Spec => []ReadsMessages
  <1>1. ReadInv => ReadsMessages
    <2> SUFFICES ASSUME ReadInv PROVE got = Messages(seen)
      BY DEF ReadsMessages
    <2> QED  BY MessagesTotal, SMTT(60) DEF ReadInv
  <1> QED
    BY <1>1, ReadInit, ReadStep, PTL DEF Spec

-----------------------------------------------------------------------------
(* The bytes of an HTTP/3 stream.                                          *)

\* What the readers of an HTTP/3 stream return is what was written to it, whatever
\* integers, frames, settings and header fields it carries (ws_h3.go and
\* ws_h3_qpack_min.go).
THEOREM BytesReadBack == Spec => []H3BytesAgree
<1>1. H3BytesAgree
  BY IntegersRead, FramesReadBack, SettingsReadBack, HeadersRead, Zenon DEF H3BytesAgree
<1> QED  BY <1>1, PTL
=============================================================================
