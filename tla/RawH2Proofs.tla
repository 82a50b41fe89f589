----------------------------- MODULE RawH2Proofs -----------------------------
(***************************************************************************)
(* Theorems about RawH2, for any window, batch, frame sizes, amount of     *)
(* data and number of closing goroutines.                                  *)
(***************************************************************************)
EXTENDS RawH2, SequenceTheorems, WellFoundedInduction, TLAPS

-----------------------------------------------------------------------------
(* Sums over a sequence of frames.                                         *)

\* Induction over the natural numbers, for a set instead of a predicate.
LEMMA Induction ==
  ASSUME NEW S \in SUBSET Nat, 0 \in S, \A n \in S : n + 1 \in S
  PROVE  S = Nat
<1> SUFFICES ASSUME Nat \ S # {} PROVE FALSE
  BY ZenonT(60)
<1> DEFINE R == OpToRel(<, Nat)
<1>1. PICK x \in Nat \ S : \A y \in Nat \ S : ~(<<y, x>> \in R)
  <2>1. IsWellFoundedOn(R, Nat)
    BY NatLessThanWellFounded, Zenon
  <2> HIDE DEF R
  <2> QED  BY <2>1, WFMin, ZenonT(60)
<1>2. x # 0 /\ x - 1 \in Nat
  OBVIOUS
<1>3. <<x - 1, x>> \in R
  BY <1>2 DEF OpToRel
<1>4. x - 1 \in S
  BY <1>1, <1>2, <1>3, ZenonT(60)
<1>5. (x - 1) + 1 \in S
  BY <1>4
<1> QED  BY <1>2, <1>5

Kind == {"settings_connect", "settings", "headers_200", "headers_part", "headers_bad",
         "continuation", "data", "end", "abort", "other"}

Sized == [type : Kind, n : Nat]

\* f[i] is the payload of the first i frames of s.
Sums(f, s, k) ==
  /\ f \in [0 .. k -> Nat] /\ f[0] = 0
  /\ \A i \in 1 .. k : f[i] = f[i - 1] + s[i].n

LEMMA SumsExist ==
  ASSUME NEW s \in Seq(Sized)
  PROVE  \E f : Sums(f, s, Len(s))
<1> DEFINE S == {k \in Nat : k <= Len(s) => \E f : Sums(f, s, k)}
<1>1. 0 \in S
  <2>1. Sums([i \in 0 .. 0 |-> 0], s, 0)
    BY DEF Sums
  <2> QED  BY <2>1
<1>2. ASSUME NEW k \in S PROVE k + 1 \in S
  <2> SUFFICES ASSUME k + 1 <= Len(s) PROVE \E f : Sums(f, s, k + 1)
    OBVIOUS
  <2>1. k \in Nat /\ s[k + 1] \in Sized
    OBVIOUS
  <2>2. PICK f : Sums(f, s, k)
    BY <2>1
  <2> DEFINE g == [i \in 0 .. k + 1 |-> IF i = k + 1 THEN f[k] + s[k + 1].n ELSE f[i]]
  <2>3. f[k] \in Nat /\ s[k + 1].n \in Nat
    BY <2>1, <2>2 DEF Sums, Sized
  <2>4. g \in [0 .. k + 1 -> Nat] /\ g[0] = 0
    BY <2>1, <2>2, <2>3 DEF Sums
  <2>5. ASSUME NEW i \in 1 .. k + 1 PROVE g[i] = g[i - 1] + s[i].n
    BY <2>1, <2>2, <2>3, SMTT(60) DEF Sums
  <2>6. Sums(g, s, k + 1)
    BY <2>4, <2>5, ZenonT(60) DEF Sums
  <2> QED  BY <2>6
<1>3. S = Nat
  <2> HIDE DEF S
  <2>1. S \in SUBSET Nat
    BY DEF S
  <2> QED  BY <1>1, <1>2, <2>1, Induction
<1> QED  BY <1>3, LenProperties

\* The recursive function of Bytes is what it is meant to be.
LEMMA BytesIsSum ==
  ASSUME NEW s \in Seq(Sized)
  PROVE  \E f : Sums(f, s, Len(s)) /\ Bytes(s) = f[Len(s)]
<1> DEFINE F(f) == f = [i \in 0 .. Len(s) |-> IF i = 0 THEN 0 ELSE f[i - 1] + s[i].n]
           sum == CHOOSE f : F(f)
<1>1. PICK f : Sums(f, s, Len(s))
  BY SumsExist
<1>2. Len(s) \in Nat
  BY LenProperties
<1>3. F(f)
  BY <1>1, <1>2 DEF Sums
<1>4. F(sum)
  BY <1>3, Zenon
<1>5. Bytes(s) = sum[Len(s)]
  BY DEF Bytes
<1> HIDE DEF sum
<1> DEFINE S == {i \in Nat : i <= Len(s) => sum[i] = f[i]}
<1>6. 0 \in S
  BY <1>1, <1>2, <1>4 DEF Sums
<1>7. ASSUME NEW i \in S PROVE i + 1 \in S
  <2> SUFFICES ASSUME i + 1 <= Len(s) PROVE sum[i + 1] = f[i + 1]
    OBVIOUS
  <2>1. i \in Nat /\ i + 1 \in 1 .. Len(s) /\ i + 1 \in 0 .. Len(s) /\ sum[i] = f[i]
    BY <1>2
  <2>2. sum[i + 1] = sum[(i + 1) - 1] + s[i + 1].n
    BY <1>4, <2>1
  <2>3. f[i + 1] = f[(i + 1) - 1] + s[i + 1].n
    BY <1>1, <2>1 DEF Sums
  <2> QED  BY <2>1, <2>2, <2>3
<1>8. S = Nat
  <2> HIDE DEF S
  <2>1. S \in SUBSET Nat
    BY DEF S
  <2> QED  BY <1>6, <1>7, <2>1, Induction
<1>9. sum[Len(s)] = f[Len(s)]
  BY <1>2, <1>8
<1> QED  BY <1>1, <1>5, <1>9

LEMMA BytesType ==
  ASSUME NEW s \in Seq(Sized)
  PROVE  Bytes(s) \in Nat
<1>1. PICK f : Sums(f, s, Len(s)) /\ Bytes(s) = f[Len(s)]
  BY BytesIsSum
<1>2. Len(s) \in Nat
  BY LenProperties
<1> QED  BY <1>1, <1>2 DEF Sums

LEMMA BytesEmpty == Bytes(<<>>) = 0
<1>1. <<>> \in Seq(Sized) /\ Len(<<>>) = 0
  BY EmptySeq
<1>2. PICK f : Sums(f, <<>>, Len(<<>>)) /\ Bytes(<<>>) = f[Len(<<>>)]
  BY <1>1, BytesIsSum, ZenonT(60)
<1> QED  BY <1>1, <1>2 DEF Sums

LEMMA BytesAppend ==
  ASSUME NEW s \in Seq(Sized), NEW e \in Sized
  PROVE  Bytes(Append(s, e)) = Bytes(s) + e.n
<1> DEFINE t == Append(s, e)
           k == Len(s)
<1>1. /\ t \in Seq(Sized) /\ Len(t) = k + 1 /\ k \in Nat
      /\ \A i \in 1 .. k : t[i] = s[i]
      /\ t[k + 1] = e
  BY AppendProperties, LenProperties
<1> HIDE DEF t
<1>2. PICK f : Sums(f, s, k) /\ Bytes(s) = f[k]
  BY BytesIsSum
<1>3. PICK g : Sums(g, t, k + 1) /\ Bytes(t) = g[k + 1]
  BY <1>1, BytesIsSum
<1> HIDE DEF k
<1>4. f[k] = g[k]
  <2> DEFINE S == {i \in Nat : i <= k => f[i] = g[i]}
  <2>1. 0 \in S
    BY <1>2, <1>3 DEF Sums
  <2>2. ASSUME NEW i \in S PROVE i + 1 \in S
    <3> SUFFICES ASSUME i + 1 <= k PROVE f[i + 1] = g[i + 1]
      OBVIOUS
    <3>1. i \in Nat /\ f[i] = g[i] /\ i + 1 \in 1 .. k /\ i + 1 \in 1 .. k + 1
      BY <1>1
    <3>2. f[i + 1] = f[(i + 1) - 1] + s[i + 1].n /\ g[i + 1] = g[(i + 1) - 1] + s[i + 1].n
      BY <1>1, <1>2, <1>3, <3>1, ZenonT(60) DEF Sums
    <3> QED  BY <3>1, <3>2
  <2>3. S = Nat
    <3> HIDE DEF S
    <3>1. S \in SUBSET Nat
      BY DEF S
    <3> QED  BY <2>1, <2>2, <3>1, Induction
  <2> QED  BY <1>1, <2>3
<1>5. g[k + 1] = g[(k + 1) - 1] + t[k + 1].n
  BY <1>1, <1>3 DEF Sums
<1>6. Bytes(t) = Bytes(s) + e.n
  BY <1>1, <1>2, <1>3, <1>4, <1>5
<1> QED  BY <1>6 DEF t

LEMMA BytesTail ==
  ASSUME NEW s \in Seq(Sized), s # <<>>
  PROVE  Bytes(s) = Head(s).n + Bytes(Tail(s))
<1> DEFINE t == Tail(s)
           k == Len(t)
<1>1. /\ t \in Seq(Sized) /\ Len(s) = k + 1 /\ k \in Nat
      /\ \A i \in 1 .. k : t[i] = s[i + 1]
      /\ s[1] = Head(s) /\ s[1] \in Sized
  <2>1. Len(s) \in Nat \ {0} /\ Head(s) = s[1]
    BY LenProperties, EmptySeq
  <2>2. t \in Seq(Sized) /\ Len(t) = Len(s) - 1 /\ \A i \in 1 .. Len(t) : t[i] = s[i + 1]
    BY HeadTailProperties
  <2>3. s[1] \in Sized
    BY <2>1, ElementOfSeq
  <2> QED  BY <2>1, <2>2, <2>3
<1> HIDE DEF t, k
<1>2. PICK f : Sums(f, s, k + 1) /\ Bytes(s) = f[k + 1]
  BY <1>1, BytesIsSum
<1>3. PICK g : Sums(g, t, k) /\ Bytes(t) = g[k]
  BY <1>1, BytesIsSum DEF k
<1> DEFINE S == {i \in Nat : i <= k => f[i + 1] = s[1].n + g[i]}
<1>4. 0 \in S
  <2>1. f[1] = f[1 - 1] + s[1].n /\ f[0] = 0 /\ g[0] = 0
    BY <1>1, <1>2, <1>3 DEF Sums
  <2> QED  BY <1>1, <2>1 DEF Sized
<1>5. ASSUME NEW i \in S PROVE i + 1 \in S
  <2> SUFFICES ASSUME i + 1 <= k PROVE f[(i + 1) + 1] = s[1].n + g[i + 1]
    OBVIOUS
  <2>1. /\ i \in Nat /\ i + 1 \in 1 .. k /\ (i + 1) + 1 \in 1 .. k + 1 /\ i \in 0 .. k
        /\ f[i + 1] = s[1].n + g[i]
    BY <1>1
  <2>2. f[(i + 1) + 1] = f[((i + 1) + 1) - 1] + s[(i + 1) + 1].n
    BY <1>2, <2>1 DEF Sums
  <2>3. g[i + 1] = g[(i + 1) - 1] + t[i + 1].n /\ t[i + 1] = s[(i + 1) + 1]
    BY <1>1, <1>3, <2>1, SMTT(60) DEF Sums
  <2>4. g[i] \in Nat /\ s[1].n \in Nat /\ t[i + 1].n \in Nat
    <3>1. t[i + 1] \in Sized
      BY <1>1, <2>1, ElementOfSeq DEF k
    <3> QED  BY <1>1, <1>3, <2>1, <3>1, ZenonT(60) DEF Sums, Sized
  <2>5. ((i + 1) + 1) - 1 = i + 1 /\ (i + 1) - 1 = i
    BY <2>1
  <2>6. PICK a \in Nat, b \in Nat, c \in Nat : a = g[i] /\ b = s[1].n /\ c = t[i + 1].n
    BY <2>4
  <2>7. f[(i + 1) + 1] = (b + a) + c /\ g[i + 1] = a + c
    BY <2>1, <2>2, <2>3, <2>5, <2>6
  <2>8. (b + a) + c = b + (a + c)
    OBVIOUS
  <2> QED  BY <2>6, <2>7, <2>8
<1>6. S = Nat
  <2> HIDE DEF S
  <2>1. S \in SUBSET Nat
    BY DEF S
  <2> QED  BY <1>4, <1>5, <2>1, Induction
<1>7. f[k + 1] = s[1].n + g[k]
  BY <1>1, <1>6
<1> QED  BY <1>1, <1>2, <1>3, <1>7 DEF t

-----------------------------------------------------------------------------
(* The inductive invariant.                                                *)

Typed ==
  /\ phase \in {"init", "headers", "open", "failed"} /\ block \in BOOLEAN
  /\ reader \in [pc : {"off", "top", "read", "pipe", "flush", "update", "close", "done"},
                 next : {"top", "close"}, n : Nat]
  /\ pending \in Nat /\ granted \in Nat /\ delivered \in Nat
  /\ eof \in BOOLEAN /\ closed \in BOOLEAN /\ connUp \in BOOLEAN
  /\ panicked \in BOOLEAN /\ ctxDone \in BOOLEAN /\ full \in BOOLEAN
  /\ wmu \in {"free", "writer", "reader"} \cup Closer
  /\ writer \in [pc : {"idle", "lock", "send"}, left : 0 .. WriteSize, calls : 0 .. MaxWrites]
  /\ closer \in [Closer -> {"idle", "lock", "rst", "close", "pipe", "done"}]
  /\ server \in [stage : {"settings", "settled", "continuing", "streaming", "over"},
                 credit : Nat, left : Nat]
  /\ inbox \in Seq(Sized) /\ Len(inbox) <= MaxInbox

\* wmu is held by exactly the goroutine that is between Lock and Unlock: of a Write, a
\* window update and any number of calls of Close at most one is writing frames.
WmuExclusive ==
  /\ writer.pc = "send" <=> wmu = "writer"
  /\ reader.pc = "update" <=> wmu = "reader"
  /\ \A k \in Closer : closer[k] = "rst" <=> wmu = k

\* Only a frame of DATA has a payload, and none is in flight before the SETTINGS are read.
Frames ==
  /\ \A i \in 1 .. Len(inbox) : inbox[i].type # "data" => inbox[i].n = 0
  /\ phase = "init" =>
       /\ \A i \in 1 .. Len(inbox) : inbox[i].type # "data"
       /\ server.stage \in {"settings", "settled", "over"}

\* readLoop runs on an open stream, and has bytes in its hands only while it writes
\* them to the pipe.
AtHand ==
  /\ reader.pc # "pipe" => reader.n = 0
  /\ phase # "open" => reader.pc = "off"

\* The window never grows, and what is lost with the connection was on its way.
WindowBound == server.credit + InboxBytes + reader.n + pending + granted <= InitialWindow

\* Nothing is delivered twice.
DataBound == delivered + InboxBytes + reader.n + server.left <= Total

Inv == Typed /\ WmuExclusive /\ Frames /\ AtHand /\ WindowBound /\ WindowConserved /\ DataBound

-----------------------------------------------------------------------------
(* Lemmas.                                                                 *)

LEMMA MinOfTwo ==
  ASSUME NEW a \in Nat, NEW b \in Nat
  PROVE  Min({a, b}) \in Nat /\ Min({a, b}) <= a /\ Min({a, b}) <= b
<1>1. \E x \in {a, b} : \A y \in {a, b} : x <= y
  OBVIOUS
<1> QED  BY <1>1 DEF Min

LEMMA MinOfThree ==
  ASSUME NEW a \in Nat, NEW b \in Nat, NEW c \in Nat
  PROVE  LET m == Min({a, b, c}) IN m \in Nat /\ m <= a /\ m <= b /\ m <= c
<1>1. \E x \in {a, b, c} : \A y \in {a, b, c} : x <= y
  <2>1. CASE a <= b /\ a <= c
    BY <2>1
  <2>2. CASE b <= a /\ b <= c
    BY <2>2
  <2>3. CASE c <= a /\ c <= b
    BY <2>3
  <2> QED  BY <2>1, <2>2, <2>3
<1>2. Min({a, b, c}) \in {a, b, c} /\ \A y \in {a, b, c} : Min({a, b, c}) <= y
  BY <1>1 DEF Min
<1> QED  BY <1>2

\* A frame arrives.
LEMMA InboxGrows ==
  ASSUME Typed, Frames, NEW f \in Sized, f.type # "data" => f.n = 0, Len(inbox) < MaxInbox,
         inbox' = Append(inbox, f)
  PROVE  /\ inbox' \in Seq(Sized) /\ Len(inbox') <= MaxInbox
         /\ \A i \in 1 .. Len(inbox') : inbox'[i].type # "data" => inbox'[i].n = 0
         /\ phase = "init" /\ f.type # "data" =>
              \A i \in 1 .. Len(inbox') : inbox'[i].type # "data"
         /\ InboxBytes \in Nat /\ InboxBytes' = InboxBytes + f.n
<1>1. inbox \in Seq(Sized) /\ Len(inbox) \in Nat /\ MaxInbox \in Nat
  BY H2Assumption, LenProperties DEF Typed
<1>2. /\ inbox' \in Seq(Sized) /\ Len(inbox') = Len(inbox) + 1
      /\ \A i \in 1 .. Len(inbox) : inbox'[i] = inbox[i]
      /\ inbox'[Len(inbox) + 1] = f
  BY <1>1, AppendProperties
<1>3. \A i \in 1 .. Len(inbox') : i \in 1 .. Len(inbox) \/ i = Len(inbox) + 1
  BY <1>1, <1>2
<1>4. InboxBytes \in Nat /\ InboxBytes' = InboxBytes + f.n
  <2>1. Bytes(inbox) \in Nat /\ Bytes(Append(inbox, f)) = Bytes(inbox) + f.n
    BY <1>1, BytesType, BytesAppend
  <2> QED  BY <2>1 DEF InboxBytes
<1>5. \A i \in 1 .. Len(inbox') : inbox'[i].type # "data" => inbox'[i].n = 0
  BY <1>2, <1>3 DEF Frames
<1>6. phase = "init" /\ f.type # "data" => \A i \in 1 .. Len(inbox') : inbox'[i].type # "data"
  BY <1>2, <1>3 DEF Frames
<1> QED  BY <1>1, <1>2, <1>4, <1>5, <1>6

\* A frame is read.
LEMMA InboxShrinks ==
  ASSUME Typed, Frames, inbox # <<>>, inbox' = Tail(inbox)
  PROVE  /\ inbox' \in Seq(Sized) /\ Len(inbox') <= MaxInbox
         /\ \A i \in 1 .. Len(inbox') : inbox'[i].type # "data" => inbox'[i].n = 0
         /\ phase = "init" => \A i \in 1 .. Len(inbox') : inbox'[i].type # "data"
         /\ InboxBytes' \in Nat /\ InboxBytes = Head(inbox).n + InboxBytes'
         /\ Head(inbox) \in Sized
         /\ Head(inbox).type # "data" => Head(inbox).n = 0
         /\ phase = "init" => Head(inbox).type # "data"
<1>1. inbox \in Seq(Sized) /\ Len(inbox) \in Nat /\ MaxInbox \in Nat
  BY H2Assumption, LenProperties DEF Typed
<1>2. /\ inbox' \in Seq(Sized) /\ Len(inbox') = Len(inbox) - 1
      /\ \A i \in 1 .. Len(inbox') : inbox'[i] = inbox[i + 1]
  BY <1>1, HeadTailProperties
<1>3. Len(inbox) # 0
  BY <1>1, EmptySeq
<1>4. Head(inbox) = inbox[1] /\ 1 \in 1 .. Len(inbox)
  BY <1>1, <1>3
<1>5. Head(inbox) \in Sized
  BY <1>1, <1>4, ElementOfSeq
<1>6. \A i \in 1 .. Len(inbox') : i + 1 \in 1 .. Len(inbox)
  BY <1>1, <1>2
<1>7. InboxBytes' \in Nat /\ InboxBytes = Head(inbox).n + InboxBytes'
  <2>1. Bytes(Tail(inbox)) \in Nat /\ Bytes(inbox) = Head(inbox).n + Bytes(Tail(inbox))
    BY <1>1, <1>2, BytesType, BytesTail, ZenonT(60)
  <2> QED  BY <2>1 DEF InboxBytes
<1>8. \A i \in 1 .. Len(inbox') : inbox'[i].type # "data" => inbox'[i].n = 0
  BY <1>2, <1>6 DEF Frames
<1>9. phase = "init" => \A i \in 1 .. Len(inbox') : inbox'[i].type # "data"
  BY <1>2, <1>6 DEF Frames
<1>10. /\ Head(inbox).type # "data" => Head(inbox).n = 0
       /\ phase = "init" => Head(inbox).type # "data"
  BY <1>4 DEF Frames
<1>11. Len(inbox') <= MaxInbox
  BY <1>1, <1>2 DEF Typed
<1> QED  BY <1>2, <1>5, <1>7, <1>8, <1>9, <1>10, <1>11, SMTT(60)

\* A step that moves no bytes and can only end the connection.
LEMMA CountsKept ==
  ASSUME Inv, UNCHANGED <<inbox, pending, granted, delivered>>, reader'.n = reader.n,
         server'.credit = server.credit, server'.left = server.left, connUp' => connUp
  PROVE  WindowBound' /\ WindowConserved' /\ DataBound'
<1>1. InboxBytes' = InboxBytes
  BY DEF InboxBytes
<1>2. pending' = pending /\ granted' = granted /\ delivered' = delivered
  OBVIOUS
<1>3. WindowBound'
  BY <1>1, <1>2 DEF Inv, WindowBound
<1>4. WindowConserved'
  BY <1>1, <1>2 DEF Inv, WindowConserved
<1>5. DataBound'
  BY <1>1, <1>2 DEF Inv, DataBound
<1> QED  BY <1>3, <1>4, <1>5

LEMMA FramesKept ==
  ASSUME Frames, UNCHANGED inbox, phase' = "init" => phase = "init",
         server'.stage \in {server.stage, "over"}
  PROVE  Frames'
BY DEF Frames

-----------------------------------------------------------------------------
(* The server and the network.                                             *)

Stage == {"settings", "settled", "continuing", "streaming", "over"}

LEMMA SendsKeeps ==
  ASSUME Inv, NEW t \in Kind, t # "data", NEW stage \in Stage, ServerSends(Frame(t), stage),
         phase = "init" => stage \in {"settings", "settled", "over"}
  PROVE  Inv'
<1> DEFINE f == Frame(t)
<1>1. f \in Sized /\ f.type = t /\ f.n = 0
  BY DEF Sized, Frame
<1>2. /\ Len(inbox) < MaxInbox /\ inbox' = Append(inbox, f)
      /\ server' = [server EXCEPT !.stage = stage]
      /\ UNCHANGED <<client, ctxDone, granted, full>>
  BY DEF ServerSends
<1> HIDE DEF f
<1>3. /\ inbox' \in Seq(Sized) /\ Len(inbox') <= MaxInbox
      /\ \A i \in 1 .. Len(inbox') : inbox'[i].type # "data" => inbox'[i].n = 0
      /\ phase = "init" => \A i \in 1 .. Len(inbox') : inbox'[i].type # "data"
      /\ InboxBytes \in Nat /\ InboxBytes' = InboxBytes + f.n
  BY <1>1, <1>2, InboxGrows DEF Inv
<1>4. server' \in [stage : Stage, credit : Nat, left : Nat] /\ server'.stage = stage
      /\ server'.credit = server.credit /\ server'.left = server.left
  BY <1>2, SMTT(60) DEF Inv, Typed, Stage
<1>5. Typed'
  BY <1>2, <1>3, <1>4 DEF Inv, Typed, client, conn, Stage
<1>6. WmuExclusive' /\ AtHand'
  BY <1>2 DEF Inv, WmuExclusive, AtHand, client, conn
<1>7. Frames'
  BY <1>2, <1>3, <1>4 DEF Frames, client, conn
<1>8. InboxBytes' = InboxBytes
  BY <1>1, <1>3
<1>9. WindowBound' /\ WindowConserved' /\ DataBound'
  BY <1>2, <1>4, <1>8 DEF Inv, WindowBound, WindowConserved, DataBound, client, conn
<1> QED  BY <1>5, <1>6, <1>7, <1>9 DEF Inv

LEMMA DataKeeps == ASSUME Inv, ServerData PROVE Inv'
<1>1. PICK f \in FrameSizes :
        LET n == Min({f, server.left, server.credit})
        IN  /\ inbox' = Append(inbox, [type |-> "data", n |-> n])
            /\ server' = [server EXCEPT !.credit = @ - n, !.left = @ - n]
  BY ZenonT(60) DEF ServerData
<1>2. /\ server.stage = "streaming" /\ Len(inbox) < MaxInbox
      /\ UNCHANGED <<client, ctxDone, granted, full>>
  BY DEF ServerData
<1>3. server \in [stage : Stage, credit : Nat, left : Nat]
  BY DEF Inv, Typed, Stage
<1>4. f \in Nat /\ server.left \in Nat /\ server.credit \in Nat
  BY <1>3, H2Assumption
<1>5. PICK m \in Nat : /\ m = Min({f, server.left, server.credit})
                      /\ m <= server.left /\ m <= server.credit
  BY <1>4, MinOfThree
<1> DEFINE e == [type |-> "data", n |-> m]
<1>6. e \in Sized /\ e.type = "data" /\ e.n = m
  BY DEF Sized, Kind
<1>7. inbox' = Append(inbox, e) /\ server' = [server EXCEPT !.credit = @ - m, !.left = @ - m]
  BY <1>1, <1>5
<1> HIDE DEF e
<1>8. /\ inbox' \in Seq(Sized) /\ Len(inbox') <= MaxInbox
      /\ \A i \in 1 .. Len(inbox') : inbox'[i].type # "data" => inbox'[i].n = 0
      /\ InboxBytes \in Nat /\ InboxBytes' = InboxBytes + m
  BY <1>2, <1>6, <1>7, InboxGrows DEF Inv
<1>9. /\ server' \in [stage : Stage, credit : Nat, left : Nat] /\ server'.stage = server.stage
      /\ server'.credit = server.credit - m /\ server'.left = server.left - m
  <2>1. server.credit - m \in Nat /\ server.left - m \in Nat
    BY <1>4, <1>5
  <2>2. /\ server'.stage = server.stage /\ server'.credit = server.credit - m
        /\ server'.left = server.left - m
        /\ server' = [stage |-> server'.stage, credit |-> server'.credit, left |-> server'.left]
    BY <1>3, <1>7, ZenonT(60)
  <2> QED  BY <1>3, <2>1, <2>2
<1>10. Typed'
  BY <1>2, <1>8, <1>9 DEF Inv, Typed, client, conn, Stage
<1>11. WmuExclusive' /\ AtHand'
  BY <1>2, SMTT(60) DEF Inv, WmuExclusive, AtHand, client, conn
<1>12. Frames'
  BY <1>2, <1>8, <1>9, SMTT(60) DEF Inv, Frames, client, conn
<1>13. /\ reader.n \in Nat /\ pending \in Nat /\ granted \in Nat /\ delivered \in Nat
       /\ server.credit \in Nat /\ server.left \in Nat /\ Total \in Nat /\ InitialWindow \in Nat
  BY H2Assumption DEF Inv, Typed
<1>14. /\ reader' = reader /\ pending' = pending /\ granted' = granted
       /\ delivered' = delivered /\ connUp' = connUp
  BY <1>2 DEF client, conn
<1>15. WindowBound' /\ WindowConserved' /\ DataBound'
  <2>1. WindowBound /\ WindowConserved /\ DataBound
    BY DEF Inv
  <2>2. WindowBound'
    BY <1>8, <1>9, <1>13, <1>14, <2>1, SMTT(60) DEF WindowBound
  <2>3. WindowConserved'
    BY <1>8, <1>9, <1>13, <1>14, <2>1, SMTT(60) DEF WindowConserved
  <2>4. DataBound'
    <3>1. delivered + InboxBytes + reader.n + server.left <= Total
      BY <2>1 DEF DataBound
    <3>2. reader'.n = reader.n
      BY <1>14
    <3>3. delivered' + InboxBytes' + reader'.n + server'.left = delivered + InboxBytes + reader.n + server.left
      BY <1>8, <1>9, <1>13, <1>14, <3>2, SMTT(60)
    <3> QED BY <3>1, <3>3 DEF DataBound
  <2> QED  BY <2>2, <2>3, <2>4
<1> QED  BY <1>10, <1>11, <1>12, <1>15, SMTT(60) DEF Inv

LEMMA ServerKeeps == ASSUME Inv, Server PROVE Inv'
<1>1. CASE ServerSettings
  <2>1. PICK t \in {"settings_connect", "settings"} : ServerSends(Frame(t), "settled")
    BY <1>1 DEF ServerSettings
  <2>2. t \in Kind /\ t # "data" /\ "settled" \in Stage
    BY DEF Kind, Stage
  <2> QED  BY <2>1, <2>2, SendsKeeps
<1>2. CASE ServerResponse
  <2>1. phase # "init"
    BY <1>2 DEF ServerResponse, Inv, Frames
  <2>2. PICK t \in Kind \ {"data"}, stage \in Stage : ServerSends(Frame(t), stage)
    BY <1>2 DEF ServerResponse, Kind, Stage
  <2> QED  BY <2>1, <2>2, SendsKeeps
<1>3. CASE ServerAbort
  <2>1. PICK t \in {"end", "abort"} : ServerSends(Frame(t), "over")
    BY <1>3 DEF ServerAbort
  <2>2. t \in Kind /\ t # "data" /\ "over" \in Stage
    BY DEF Kind, Stage
  <2> QED  BY <2>1, <2>2, SendsKeeps
<1>4. CASE ServerOther
  <2>1. "other" \in Kind /\ server.stage \in Stage
    BY DEF Kind, Inv, Typed, Stage
  <2>2. phase = "init" => server.stage \in {"settings", "settled", "over"}
    BY DEF Inv, Frames
  <2> QED  BY <1>4, <2>1, <2>2, SendsKeeps DEF ServerOther
<1>5. CASE ConnLost
  <2>1. /\ connUp' = FALSE /\ server' = [server EXCEPT !.stage = "over"]
        /\ UNCHANGED <<phase, block, closed, reader, pending, eof, wmu, writer, closer, panicked,
                       delivered, ctxDone, granted, full, inbox>>
    BY <1>5 DEF ConnLost
  <2>2. /\ server' \in [stage : Stage, credit : Nat, left : Nat] /\ server'.stage = "over"
        /\ server'.credit = server.credit /\ server'.left = server.left
    BY <2>1, SMTT(60) DEF Inv, Typed, Stage
  <2>3. Typed'
    <3>1. connUp' \in BOOLEAN
      BY <2>1, ZenonT(60)
    <3>2. UNCHANGED <<phase, block, closed, reader, pending, eof, wmu, writer, closer, panicked,
                      delivered, ctxDone, granted, full, inbox>>
      BY <2>1
    <3> QED  BY <2>2, <3>1, <3>2 DEF Inv, Typed, Stage
  <2>4. WmuExclusive' /\ AtHand'
    BY <2>1 DEF Inv, WmuExclusive, AtHand
  <2>5. Frames'
    BY <2>1, <2>2, FramesKept DEF Inv
  <2>6. WindowBound' /\ WindowConserved' /\ DataBound'
    BY <2>1, <2>2, CountsKept
  <2> QED  BY <2>3, <2>4, <2>5, <2>6 DEF Inv
<1> QED  BY <1>1, <1>2, <1>3, <1>4, <1>5, DataKeeps DEF Server

\* The window updates move from the wire to the server's credit.
LEMMA ServerReadsKeeps == ASSUME Inv, ServerReads PROVE Inv'
<1>1. /\ full' = FALSE /\ granted' = 0 /\ server' = [server EXCEPT !.credit = @ + granted]
      /\ UNCHANGED <<client, ctxDone, inbox>>
  BY DEF ServerReads
<1>2. /\ server \in [stage : Stage, credit : Nat, left : Nat] /\ server.credit \in Nat
      /\ reader.n \in Nat /\ pending \in Nat /\ granted \in Nat /\ inbox \in Seq(Sized)
      /\ InitialWindow \in Nat
  BY H2Assumption DEF Inv, Typed, Stage
<1>3. /\ server' \in [stage : Stage, credit : Nat, left : Nat] /\ server'.stage = server.stage
      /\ server'.credit = server.credit + granted /\ server'.left = server.left
  BY <1>1, <1>2, SMTT(60)
<1>4. Typed'
  <2>1. full' \in BOOLEAN /\ granted' \in Nat
    BY <1>1, ZenonT(60)
  <2>2. UNCHANGED <<client, ctxDone, inbox>>
    BY <1>1
  <2> QED  BY <1>3, <2>1, <2>2 DEF Inv, Typed, client, conn, Stage
<1>5. WmuExclusive' /\ AtHand'
  BY <1>1 DEF Inv, WmuExclusive, AtHand, client, conn
<1>6. Frames'
  BY <1>1, <1>3, FramesKept DEF Inv, client, conn
<1>7. InboxBytes' = InboxBytes /\ InboxBytes \in Nat
  BY <1>1, <1>2, BytesType DEF InboxBytes
<1>8. reader' = reader /\ pending' = pending /\ delivered' = delivered /\ connUp' = connUp
  BY <1>1 DEF client, conn
<1>9. server'.credit + InboxBytes' + reader'.n + pending' + granted'
        = server.credit + InboxBytes + reader.n + pending + granted
  <2>1. reader'.n = reader.n
    BY <1>8
  <2> QED  BY <1>1, <1>2, <1>3, <1>7, <1>8, <2>1, SMTT(60)
<1>10. WindowBound' /\ WindowConserved'
  BY <1>8, <1>9 DEF Inv, WindowBound, WindowConserved
<1>11. DataBound'
  BY <1>3, <1>7, <1>8 DEF Inv, DataBound
<1> QED  BY <1>4, <1>5, <1>6, <1>10, <1>11 DEF Inv

\* A step of a goroutine that handles no bytes.
LEMMA Bystander ==
  ASSUME Inv, UNCHANGED <<phase, reader, pending, delivered, server, granted, inbox>>, connUp' => connUp
  PROVE  Frames' /\ AtHand' /\ WindowBound' /\ WindowConserved' /\ DataBound'
<1>1. server'.stage = server.stage /\ server'.credit = server.credit /\ server'.left = server.left
      /\ reader'.n = reader.n
  OBVIOUS
<1>2. AtHand'
  BY DEF Inv, AtHand
<1>3. Frames'
  BY <1>1, FramesKept DEF Inv
<1> QED  BY <1>1, <1>2, <1>3, CountsKept

LEMMA CtxKeeps == ASSUME Inv, CtxEnds PROVE Inv'
<1>1. ctxDone' = TRUE /\ UNCHANGED <<client, server, granted, full, inbox>>
  BY DEF CtxEnds
<1>2. Frames' /\ AtHand' /\ WindowBound' /\ WindowConserved' /\ DataBound'
  BY <1>1, Bystander, SMTT(60) DEF client, conn
<1>3. Typed'
  BY <1>1 DEF Inv, Typed, client, conn
<1>4. WmuExclusive'
  BY <1>1 DEF Inv, WmuExclusive, client, conn
<1> QED  BY <1>2, <1>3, <1>4 DEF Inv

-----------------------------------------------------------------------------
(* The handshake.                                                          *)

\* What a frame, or the loss of the connection, can do to the handshake.
LEMMA HandshakeMoves ==
  ASSUME Inv, phase \in {"init", "headers"},
         phase' \in {"init", "headers", "open", "failed"}, phase' = "init" => phase = "init",
         block' \in BOOLEAN, closed' \in BOOLEAN, connUp' \in BOOLEAN, connUp' => connUp,
         reader' = reader \/ (phase' = "open" /\ reader' = [reader EXCEPT !.pc = "top"]),
         UNCHANGED inbox \/ (inbox # <<>> /\ inbox' = Tail(inbox) /\ Head(inbox).type # "data"),
         UNCHANGED <<pending, eof, wmu, writer, closer, panicked, delivered, ctxDone, server,
                     granted, full>>
  PROVE  Inv'
<1>1. reader.pc = "off" /\ reader.n = 0
  BY DEF Inv, AtHand
<1>2. /\ inbox' \in Seq(Sized) /\ Len(inbox') <= MaxInbox
      /\ \A i \in 1 .. Len(inbox') : inbox'[i].type # "data" => inbox'[i].n = 0
      /\ phase = "init" => \A i \in 1 .. Len(inbox') : inbox'[i].type # "data"
      /\ InboxBytes' = InboxBytes
  <2>1. CASE UNCHANGED inbox
    BY <2>1 DEF Inv, Typed, Frames, InboxBytes
  <2>2. CASE inbox # <<>> /\ inbox' = Tail(inbox) /\ Head(inbox).type # "data"
    <3>1. /\ inbox' \in Seq(Sized) /\ Len(inbox') <= MaxInbox
          /\ \A i \in 1 .. Len(inbox') : inbox'[i].type # "data" => inbox'[i].n = 0
          /\ phase = "init" => \A i \in 1 .. Len(inbox') : inbox'[i].type # "data"
          /\ InboxBytes' \in Nat /\ InboxBytes = Head(inbox).n + InboxBytes'
          /\ Head(inbox).type # "data" => Head(inbox).n = 0
      BY <2>2, InboxShrinks DEF Inv
    <3> QED  BY <2>2, <3>1
  <2> QED  BY <2>1, <2>2
<1>3. /\ reader' \in [pc : {"off", "top", "read", "pipe", "flush", "update", "close", "done"},
                      next : {"top", "close"}, n : Nat]
      /\ reader'.n = 0 /\ reader'.pc \in {"off", "top"}
      /\ phase' # "open" => reader'.pc = "off"
  BY <1>1 DEF Inv, Typed
<1>4. Typed'
  BY <1>2, <1>3 DEF Inv, Typed
<1>5. WmuExclusive'
  BY <1>1, <1>3 DEF Inv, WmuExclusive
<1>6. Frames'
  BY <1>2 DEF Inv, Frames
<1>7. AtHand'
  BY <1>3 DEF AtHand
<1>8. /\ reader'.n = reader.n /\ pending' = pending /\ granted' = granted
      /\ server' = server /\ delivered' = delivered
  BY <1>1, <1>3
<1>9. WindowBound' /\ WindowConserved' /\ DataBound'
  BY <1>2, <1>8 DEF Inv, WindowBound, WindowConserved, DataBound
<1> QED  BY <1>4, <1>5, <1>6, <1>7, <1>9, SMTT(60) DEF Inv

LEMMA HandshakeKeeps == ASSUME Inv, Handshake PROVE Inv'
<1>1. /\ phase \in {"init", "headers"}
      /\ UNCHANGED <<pending, eof, wmu, writer, closer, panicked, delivered, ctxDone, server,
                     granted, full>>
  BY ZenonT(60) DEF Handshake, InitFrame, HeadersFrame
<1> DEFINE Reads == inbox # <<>> /\ inbox' = Tail(inbox) /\ Head(inbox).type # "data"
<1>2. UNCHANGED inbox \/ Reads
  <2>1. CASE InitFrame
    <3>1. phase = "init" /\ (UNCHANGED inbox \/ (inbox # <<>> /\ inbox' = Tail(inbox)))
      BY <2>1, ZenonT(60) DEF InitFrame
    <3> QED  BY <3>1, InboxShrinks DEF Inv
  <2>2. CASE HeadersFrame
    BY <2>2, ZenonT(60) DEF HeadersFrame
  <2> QED  BY <2>1, <2>2 DEF Handshake
<1> HIDE DEF Reads
<1>3. \/ Fail
      \/ Opened
      \/ phase = "init" /\ Await("init", FALSE)
      \/ \E part \in BOOLEAN : Await("headers", part)
  <2>1. CASE InitFrame
    BY <2>1, Zenon DEF InitFrame
  <2>2. CASE HeadersFrame
    <3>1. block \in BOOLEAN
      BY DEF Inv, Typed
    <3> QED  BY <2>2, <3>1, Zenon DEF HeadersFrame
  <2> QED  BY <2>1, <2>2, ZenonT(60) DEF Handshake
<1> USE DEF Reads
<1>4. CASE Fail
  <2>1. phase' = "failed" /\ closed' \in BOOLEAN /\ connUp' \in BOOLEAN /\ ~connUp' /\ UNCHANGED <<block, reader>>
    BY <1>4, ZenonT(60) DEF Fail
  <2>2. block' \in BOOLEAN
    BY <2>1 DEF Inv, Typed
  <2> QED  BY <1>1, <1>2, <2>1, <2>2, HandshakeMoves
<1>5. ASSUME phase \in {"init", "headers"}, NEW ph \in {"init", "headers"}, NEW part \in BOOLEAN,
             ph = "init" => phase = "init", Await(ph, part)
      PROVE  Inv'
  <2>1. CASE Fail
    BY <1>4, <2>1
  <2>2. CASE phase' = ph /\ block' = part /\ UNCHANGED <<reader, closed, connUp>>
    <3>1. closed' \in BOOLEAN /\ connUp' \in BOOLEAN /\ connUp' = connUp
      BY <2>2 DEF Inv, Typed
    <3> QED  BY <1>1, <1>2, <1>5, <2>2, <3>1, HandshakeMoves, SMTT(60)
  <2> QED  BY <1>5, <2>1, <2>2 DEF Await
<1>6. CASE Opened
  <2>1. /\ phase' = "open" /\ reader' = [reader EXCEPT !.pc = "top"]
        /\ UNCHANGED <<block, closed, connUp>>
    BY <1>6 DEF Opened
  <2>2. closed' \in BOOLEAN /\ connUp' \in BOOLEAN /\ connUp' = connUp /\ block' \in BOOLEAN
    BY <2>1 DEF Inv, Typed
  <2> QED  BY <1>1, <1>2, <2>1, <2>2, HandshakeMoves
<1> QED  BY <1>1, <1>3, <1>4, <1>5, <1>6, Zenon

-----------------------------------------------------------------------------
(* readLoop.                                                               *)

ReaderType == [pc : {"off", "top", "read", "pipe", "flush", "update", "close", "done"},
               next : {"top", "close"}, n : Nat]

\* Bytes that move within the client.
LEMMA BytesMove ==
  ASSUME Inv, UNCHANGED <<server, granted, connUp>>,
         reader'.n \in Nat, pending' \in Nat, delivered' \in Nat, inbox' \in Seq(Sized),
         InboxBytes' + reader'.n + pending' = InboxBytes + reader.n + pending,
         delivered' + InboxBytes' + reader'.n <= delivered + InboxBytes + reader.n
  PROVE  WindowBound' /\ WindowConserved' /\ DataBound'
<1>1. /\ InboxBytes \in Nat /\ InboxBytes' \in Nat /\ reader.n \in Nat
      /\ pending \in Nat /\ granted \in Nat /\ server.credit \in Nat
      /\ server.left \in Nat /\ delivered \in Nat /\ Total \in Nat
  <2>1. Bytes(inbox) \in Nat /\ Bytes(inbox') \in Nat
    BY BytesType DEF Inv, Typed
  <2> QED  BY <2>1, H2Assumption, SMTT(60) DEF Inv, Typed, InboxBytes
<1>2. PICK i \in Nat, i2 \in Nat, n \in Nat, n2 \in Nat, p \in Nat, p2 \in Nat, d \in Nat, d2 \in Nat :
        /\ i = InboxBytes /\ i2 = InboxBytes' /\ n = reader.n /\ n2 = reader'.n
        /\ p = pending /\ p2 = pending' /\ d = delivered /\ d2 = delivered'
  BY <1>1, ZenonT(60)
<1>3. i2 + n2 + p2 = i + n + p /\ d2 + i2 + n2 <= d + i + n
  BY <1>2
<1>4. PICK c \in Nat, g \in Nat, left \in Nat :
        /\ c = server.credit /\ c = server'.credit /\ g = granted /\ g = granted'
        /\ left = server.left /\ left = server'.left
  BY <1>1, ZenonT(60)
<1>5. c + i2 + n2 + p2 + g = c + i + n + p + g
  BY <1>3, SMTT(60)
<1>6. WindowBound' /\ WindowConserved'
  BY <1>2, <1>4, <1>5, SMTT(60) DEF Inv, WindowBound, WindowConserved
<1>7. d + i + n + left <= Total
  BY <1>2, <1>4 DEF Inv, DataBound
<1>8. d2 + i2 + n2 + left <= Total
  BY <1>1, <1>3, <1>7, SMTT(60)
<1>9. DataBound'
  BY <1>2, <1>4, <1>8, SMTT(60) DEF DataBound
<1> QED  BY <1>6, <1>9, SMTT(60)

\* A step of readLoop outside wmu: the bytes it takes from one place it puts into
\* another, and those it drops are not delivered.
LEMMA ReaderMoves ==
  ASSUME Inv, reader.pc \notin {"off", "update"},
         reader' \in ReaderType, reader'.pc \notin {"off", "update"},
         reader'.pc # "pipe" => reader'.n = 0,
         pending' \in Nat, delivered' \in Nat, eof' \in BOOLEAN,
         inbox' \in Seq(Sized), Len(inbox') <= MaxInbox,
         \A i \in 1 .. Len(inbox') : inbox'[i].type # "data" => inbox'[i].n = 0,
         InboxBytes' + reader'.n + pending' = InboxBytes + reader.n + pending,
         delivered' + InboxBytes' + reader'.n <= delivered + InboxBytes + reader.n,
         UNCHANGED <<conn, wmu, writer, closer, panicked, ctxDone, server, granted, full>>
  PROVE  Inv'
<1>1. phase = "open" /\ phase' = "open" /\ connUp' = connUp
  BY SMTT(60) DEF Inv, AtHand, Typed, conn
<1>2. Typed'
  BY SMTT(60) DEF Inv, Typed, conn, ReaderType
<1>3. WmuExclusive'
  BY SMTT(60) DEF Inv, WmuExclusive
<1>4. Frames' /\ AtHand'
  BY <1>1, SMTT(60) DEF Frames, AtHand
<1>5. reader'.n \in Nat /\ UNCHANGED connUp
  BY <1>1, SMTT(60) DEF ReaderType
<1>6. WindowBound' /\ WindowConserved' /\ DataBound'
  BY <1>5, BytesMove, SMTT(60)
<1> QED  BY <1>2, <1>3, <1>4, <1>6, SMTT(60) DEF Inv

LEMMA FlushFrom ==
  ASSUME NEW p \in Nat, NEW force \in BOOLEAN, NEW next \in {"top", "close"},
         flushWindowUpdate(p, force, next)
  PROVE  /\ reader' \in ReaderType /\ reader'.pc \in {"flush", "top", "close"} /\ reader'.n = 0
         /\ pending' = p
<1>1. pending' = p
  BY DEF flushWindowUpdate
<1>2. PICK pc \in {"flush", "top", "close"} : reader' = [pc |-> pc, next |-> next, n |-> 0]
  BY SMTT(60) DEF flushWindowUpdate
<1> QED  BY <1>1, <1>2, SMTT(60) DEF ReaderType

LEMMA ReadTopKeeps == ASSUME Inv, ReadTop PROVE Inv'
<1>1. /\ reader.pc = "top" /\ reader.n = 0 /\ reader \in ReaderType
      /\ pending \in Nat /\ delivered \in Nat /\ eof \in BOOLEAN
      /\ inbox \in Seq(Sized) /\ Len(inbox) <= MaxInbox
      /\ \A i \in 1 .. Len(inbox) : inbox[i].type # "data" => inbox[i].n = 0
  BY DEF ReadTop, Inv, Typed, AtHand, Frames, ReaderType
<1>2. UNCHANGED <<conn, eof, wmu, writer, closer, panicked, delivered, ctxDone, server, granted, full, inbox>>
  BY DEF ReadTop
<1>3. /\ reader' \in ReaderType /\ reader'.pc \in {"flush", "close", "top", "read"} /\ reader'.n = 0
      /\ pending' = pending
  <2>1. CASE ReaderReturns
    BY <1>1, <2>1, FlushFrom, ZenonT(60) DEF ReaderReturns
  <2>2. CASE reader' = [reader EXCEPT !.pc = "read"] /\ UNCHANGED pending
    BY <1>1, <2>2, SMTT(60) DEF ReaderType
  <2> QED  BY <2>1, <2>2, SMTT(60) DEF ReadTop
<1>4. InboxBytes' = InboxBytes /\ InboxBytes \in Nat
  BY <1>1, <1>2, BytesType, SMTT(60) DEF InboxBytes
<1>5. /\ InboxBytes' + reader'.n + pending' = InboxBytes + reader.n + pending
      /\ delivered' + InboxBytes' + reader'.n <= delivered + InboxBytes + reader.n
  BY <1>1, <1>2, <1>3, <1>4, SMTT(60)
<1> QED  BY <1>1, <1>2, <1>3, <1>5, ReaderMoves, SMTT(60)

LEMMA ReadFrameKeeps == ASSUME Inv, ReadFrame PROVE Inv'
<1>1. /\ reader.pc = "read" /\ reader.n = 0 /\ reader \in ReaderType
      /\ pending \in Nat /\ delivered \in Nat /\ eof \in BOOLEAN
      /\ inbox \in Seq(Sized) /\ Len(inbox) <= MaxInbox
      /\ \A i \in 1 .. Len(inbox) : inbox[i].type # "data" => inbox[i].n = 0
  BY DEF ReadFrame, Inv, Typed, AtHand, Frames, ReaderType
<1>2. UNCHANGED <<conn, wmu, writer, closer, panicked, delivered, ctxDone, server, granted, full>>
  BY SMTT(60) DEF ReadFrame
<1>3. CASE eof' = TRUE /\ ReaderReturns /\ UNCHANGED inbox
  <2>1. /\ reader' \in ReaderType /\ reader'.pc \in {"flush", "top", "close"} /\ reader'.n = 0
        /\ pending' = pending
    BY <1>1, <1>3, FlushFrom, ZenonT(60) DEF ReaderReturns
  <2>2. InboxBytes' = InboxBytes /\ InboxBytes \in Nat
    BY <1>1, <1>3, BytesType, SMTT(60) DEF InboxBytes
  <2>3. /\ InboxBytes' + reader'.n + pending' = InboxBytes + reader.n + pending
        /\ delivered' + InboxBytes' + reader'.n <= delivered + InboxBytes + reader.n
    BY <1>1, <1>2, <2>1, <2>2, SMTT(60)
  <2>4. eof' \in BOOLEAN /\ inbox' = inbox /\ delivered' = delivered
    BY <1>2, <1>3, SMTT(60)
  <2> QED  BY <1>1, <1>2, <2>1, <2>3, <2>4, ReaderMoves, SMTT(60)
<1>4. CASE inbox # <<>> /\ inbox' = Tail(inbox) /\ UNCHANGED eof
  <2> DEFINE f == Head(inbox)
  <2>1. /\ inbox' \in Seq(Sized) /\ Len(inbox') <= MaxInbox
        /\ \A i \in 1 .. Len(inbox') : inbox'[i].type # "data" => inbox'[i].n = 0
        /\ InboxBytes' \in Nat /\ InboxBytes = f.n + InboxBytes'
        /\ f \in Sized
        /\ f.type # "data" => f.n = 0
    BY <1>4, InboxShrinks, SMTT(60) DEF Inv
  <2>2. \/ f.type = "data" /\ reader' = [reader EXCEPT !.pc = "pipe", !.n = f.n] /\ UNCHANGED pending
        \/ f.type # "data" /\ ReaderReturns
        \/ f.type # "data" /\ reader' = [reader EXCEPT !.pc = "top"] /\ UNCHANGED pending
    <3>1. ReadFrame /\ inbox' # inbox
      <4>1. Len(inbox') # Len(inbox)
        BY <1>1, <1>4, HeadTailProperties, EmptySeq, SMTT(60)
      <4> QED  BY <4>1, SMTT(60)
    <3> QED  BY <3>1, SMTT(60) DEF ReadFrame
  <2> HIDE DEF f
  <2>3. /\ reader' \in ReaderType /\ reader'.pc \in {"flush", "close", "top", "pipe"} /\ reader'.n = f.n
        /\ reader'.pc # "pipe" => reader'.n = 0
        /\ pending' = pending
    <3>1. f.n \in Nat
      BY <2>1, SMTT(60) DEF Sized
    <3>2. CASE f.type = "data" /\ reader' = [reader EXCEPT !.pc = "pipe", !.n = f.n] /\ UNCHANGED pending
      BY <1>1, <3>1, <3>2, ZenonT(60) DEF ReaderType
    <3>3. CASE f.type # "data" /\ ReaderReturns
      BY <1>1, <2>1, <3>3, FlushFrom, ZenonT(60) DEF ReaderReturns
    <3>4. CASE f.type # "data" /\ reader' = [reader EXCEPT !.pc = "top"] /\ UNCHANGED pending
      BY <1>1, <2>1, <3>4, SMTT(60) DEF ReaderType
    <3> QED  BY <2>2, <3>2, <3>3, <3>4, SMTT(60)
  <2>4. f.n \in Nat /\ delivered' = delivered /\ eof' \in BOOLEAN
    BY <1>1, <1>2, <1>4, <2>1, SMTT(60) DEF Sized
  <2>5. /\ InboxBytes' + reader'.n + pending' = InboxBytes + reader.n + pending
        /\ delivered' + InboxBytes' + reader'.n <= delivered + InboxBytes + reader.n
    BY <1>1, <2>1, <2>3, <2>4, SMTT(60)
  <2> QED  BY <1>1, <1>2, <2>1, <2>3, <2>4, <2>5, ReaderMoves, ZenonT(60)
<1> QED  BY <1>3, <1>4, ZenonT(60) DEF ReadFrame

\* The bytes written to the pipe become pending, delivered or not.
LEMMA WrittenKeeps == ASSUME Inv, Consume \/ PipeBroken PROVE Inv'
<1>1. /\ reader.pc = "pipe" /\ Written /\ (delivered' = delivered + reader.n \/ delivered' = delivered)
  BY SMTT(60) DEF Consume, PipeBroken
<1>2. /\ reader.n \in Nat /\ pending \in Nat /\ delivered \in Nat /\ eof \in BOOLEAN
      /\ inbox \in Seq(Sized) /\ Len(inbox) <= MaxInbox
      /\ \A i \in 1 .. Len(inbox) : inbox[i].type # "data" => inbox[i].n = 0
  BY DEF Inv, Typed, Frames
<1>3. UNCHANGED <<conn, eof, wmu, writer, closer, panicked, ctxDone, server, granted, full, inbox>>
  BY <1>1 DEF Written
<1>4. flushWindowUpdate(pending + reader.n, FALSE, "top")
  BY <1>1, ZenonT(60) DEF Written
<1>5. PICK n \in Nat, p \in Nat, d \in Nat, i \in Nat :
        n = reader.n /\ p = pending /\ d = delivered /\ i = InboxBytes
  BY <1>2, BytesType, ZenonT(60) DEF InboxBytes
<1>6. p + n \in Nat
  OBVIOUS
<1>7. /\ reader' \in ReaderType /\ reader'.pc \in {"flush", "top", "close"} /\ reader'.n = 0
      /\ pending' = p + n
  BY <1>4, <1>5, <1>6, FlushFrom, ZenonT(60)
<1>8. InboxBytes' = i
  BY <1>3, <1>5, SMTT(60) DEF InboxBytes
<1>9. delivered' \in Nat /\ (delivered' = d + n \/ delivered' = d)
  BY <1>1, <1>5
<1>10. i + 0 + (p + n) = i + n + p /\ (d + n) + i + 0 <= d + i + n /\ d + i + 0 <= d + i + n
  OBVIOUS
<1>11. /\ InboxBytes' + reader'.n + pending' = InboxBytes + reader.n + pending
       /\ delivered' + InboxBytes' + reader'.n <= delivered + InboxBytes + reader.n
  BY <1>5, <1>7, <1>8, <1>9, <1>10, SMTT(60)
<1>12. pending' \in Nat
  BY <1>6, <1>7, SMTT(60)
<1> QED  BY <1>1, <1>2, <1>3, <1>7, <1>9, <1>11, <1>12, ReaderMoves, SMTT(60)

LEMMA ReaderClosesKeeps == ASSUME Inv, ReaderCloses PROVE Inv'
<1>1. /\ reader.pc = "close" /\ reader.n = 0 /\ reader \in ReaderType
      /\ pending \in Nat /\ delivered \in Nat
      /\ inbox \in Seq(Sized) /\ Len(inbox) <= MaxInbox
      /\ \A i \in 1 .. Len(inbox) : inbox[i].type # "data" => inbox[i].n = 0
  BY DEF ReaderCloses, Inv, Typed, AtHand, Frames, ReaderType
<1>2. UNCHANGED <<conn, pending, wmu, writer, closer, panicked, delivered, ctxDone, server, granted, full, inbox>>
  BY DEF ReaderCloses
<1>3. eof' \in BOOLEAN /\ reader' \in ReaderType /\ reader'.pc = "done" /\ reader'.n = 0
  BY <1>1, SMTT(60) DEF ReaderCloses, ReaderType
<1>4. InboxBytes' = InboxBytes /\ InboxBytes \in Nat
  BY <1>1, <1>2, BytesType, SMTT(60) DEF InboxBytes
<1>5. /\ InboxBytes' + reader'.n + pending' = InboxBytes + reader.n + pending
      /\ delivered' + InboxBytes' + reader'.n <= delivered + InboxBytes + reader.n
  BY <1>1, <1>2, <1>3, <1>4, SMTT(60)
<1> QED  BY <1>1, <1>2, <1>3, <1>5, ReaderMoves, SMTT(60)

LEMMA FlushLockKeeps == ASSUME Inv, FlushLock PROVE Inv'
<1>1. /\ reader.pc = "flush" /\ wmu = "free" /\ wmu' = "reader"
      /\ reader' = [reader EXCEPT !.pc = "update"]
      /\ UNCHANGED <<conn, pending, eof, writer, closer, panicked, delivered, ctxDone, server, granted, full, inbox>>
  BY DEF FlushLock, Acquire
<1>2. reader \in ReaderType /\ reader.n = 0 /\ phase = "open"
  BY <1>1 DEF Inv, Typed, AtHand, ReaderType
<1>3. reader' \in ReaderType /\ reader'.pc = "update" /\ reader'.n = reader.n
  BY <1>1, <1>2 DEF ReaderType
<1>4. Typed'
  BY <1>1, <1>3 DEF Inv, Typed, conn, ReaderType
<1>5. WmuExclusive'
  BY <1>1, <1>3, H2Assumption, SMTT(60) DEF Inv, WmuExclusive
<1>6. AtHand'
  BY <1>1, <1>2, <1>3 DEF AtHand, conn
<1>7. phase' = phase /\ server' = server /\ inbox' = inbox /\ connUp' = connUp
  BY <1>1 DEF conn
<1>8. Frames'
  BY <1>7, FramesKept DEF Inv
<1>9. WindowBound' /\ WindowConserved' /\ DataBound'
  BY <1>1, <1>3, <1>7, CountsKept, SMTT(60)
<1> QED  BY <1>4, <1>5, <1>6, <1>8, <1>9, SMTT(60) DEF Inv

\* What was pending is on its way to the server, or was lost with the connection.
LEMMA FlushWriteKeeps == ASSUME Inv, FlushWrite PROVE Inv'
<1>1. /\ reader.pc = "update" /\ wmu' = "free"
      /\ reader' = [reader EXCEPT !.pc = reader.next]
      /\ UNCHANGED <<conn, eof, writer, closer, panicked, delivered, ctxDone, server, inbox>>
  BY DEF FlushWrite
<1>2. /\ reader \in ReaderType /\ reader.n = 0 /\ phase = "open" /\ pending \in Nat /\ granted \in Nat
      /\ full \in BOOLEAN /\ inbox \in Seq(Sized) /\ server.credit \in Nat /\ InitialWindow \in Nat
      /\ wmu = "reader"
  BY <1>1, H2Assumption DEF Inv, Typed, AtHand, ReaderType, WmuExclusive
<1>3. reader' \in ReaderType /\ reader'.pc \in {"top", "close"} /\ reader'.n = reader.n
  BY <1>1, <1>2 DEF ReaderType
<1>4. pending' = 0 /\ (granted' = granted + pending \/ (granted' = granted /\ ~connUp))
  BY DEF FlushWrite, SendErr
<1>5. full' \in BOOLEAN
  BY <1>2, ZenonT(60) DEF FlushWrite, Sends, SendErr
<1>6. PICK c \in Nat, i \in Nat, p \in Nat, g \in Nat :
        /\ c = server.credit /\ c = server'.credit /\ i = InboxBytes /\ i = InboxBytes'
        /\ p = pending /\ g = granted
  <2>1. InboxBytes \in Nat /\ InboxBytes' = InboxBytes /\ server'.credit = server.credit
    BY <1>1, <1>2, BytesType, SMTT(60) DEF InboxBytes
  <2> QED  BY <1>2, <2>1
<1>7. PICK g2 \in Nat : g2 = granted' /\ (g2 = g + p \/ (g2 = g /\ ~connUp))
  BY <1>4, <1>6, SMTT(60)
<1>8. Typed'
  <2>1. granted' \in Nat /\ pending' \in Nat
    BY <1>4, <1>7, SMTT(60)
  <2> QED  BY <1>1, <1>3, <1>5, <2>1, SMTT(60) DEF Inv, Typed, conn, ReaderType
<1>9. WmuExclusive'
  BY <1>1, <1>2, <1>3, H2Assumption, SMTT(60) DEF Inv, WmuExclusive
<1>10. AtHand'
  BY <1>1, <1>2, <1>3 DEF AtHand, conn
<1>11. phase' = phase /\ server' = server /\ inbox' = inbox /\ connUp' = connUp /\ delivered' = delivered
  BY <1>1 DEF conn
<1>12. Frames'
  BY <1>11, FramesKept DEF Inv
<1>13. c + i + 0 + p + g <= InitialWindow /\ (connUp => c + i + 0 + p + g = InitialWindow)
  BY <1>2, <1>6, SMTT(60) DEF Inv, WindowBound, WindowConserved
<1>14. c + i + 0 + 0 + g2 <= InitialWindow /\ (connUp => c + i + 0 + 0 + g2 = InitialWindow)
  <2>1. InitialWindow \in Nat
    BY <1>2
  <2>2. CASE g2 = g + p
    BY <1>13, <2>1, <2>2, SMTT(60)
  <2>3. CASE g2 = g /\ ~connUp
    BY <1>13, <2>1, <2>3, SMTT(60)
  <2> QED  BY <1>7, <2>2, <2>3, SMTT(60)
<1>15. WindowBound' /\ WindowConserved'
  BY <1>2, <1>3, <1>4, <1>6, <1>7, <1>11, <1>14, SMTT(60) DEF WindowBound, WindowConserved
<1>16. DataBound'
  BY <1>3, <1>6, <1>11, SMTT(60) DEF Inv, DataBound
<1> QED  BY <1>8, <1>9, <1>10, <1>12, <1>15, <1>16, SMTT(60) DEF Inv

-----------------------------------------------------------------------------
(* Write and Close.                                                        *)

LEMMA WriterKeeps == ASSUME Inv, WriteCall \/ Write PROVE Inv'
<1>1. UNCHANGED <<conn, reader, pending, eof, closer, panicked, delivered, ctxDone, server, granted, inbox>>
  BY DEF WriteCall, Write, WriteLock, WriteData
<1>2. Frames' /\ AtHand' /\ WindowBound' /\ WindowConserved' /\ DataBound'
  BY <1>1, Bystander, SMTT(60) DEF conn
<1>3. /\ writer \in [pc : {"idle", "lock", "send"}, left : 0 .. WriteSize, calls : 0 .. MaxWrites]
      /\ full \in BOOLEAN /\ wmu \in {"free", "writer", "reader"} \cup Closer
      /\ WriteSize \in Nat /\ MaxWrites \in Nat /\ rawH2MaxDataFrameChunk \in Nat
  BY H2Assumption, SMTT(60) DEF Inv, Typed
<1>4. /\ writer' \in [pc : {"idle", "lock", "send"}, left : 0 .. WriteSize, calls : 0 .. MaxWrites]
      /\ full' \in BOOLEAN
      /\ \/ wmu' = wmu /\ (writer'.pc = "send" <=> writer.pc = "send")
         \/ wmu = "free" /\ wmu' = "writer" /\ writer'.pc = "send"
         \/ writer.pc = "send" /\ wmu' = "free" /\ writer'.pc # "send"
  <2>1. CASE WriteCall
    <3>1. /\ writer.pc = "idle" /\ writer.calls < MaxWrites
          /\ writer' = [pc |-> "lock", left |-> WriteSize, calls |-> writer.calls + 1]
          /\ UNCHANGED <<wmu, full>>
      BY <2>1, SMTT(60) DEF WriteCall
    <3>2. writer.calls + 1 \in 0 .. MaxWrites /\ WriteSize \in 0 .. WriteSize
      BY <1>3, <3>1
    <3> QED  BY <1>3, <3>1, <3>2, SMTT(60)
  <2>2. CASE WriteLock
    BY <1>3, <2>2 DEF WriteLock, Acquire
  <2>3. CASE WriteData
    <3> DEFINE left == writer.left - Min({rawH2MaxDataFrameChunk, writer.left})
    <3>1. left \in 0 .. WriteSize
      <4>1. writer.left \in Nat /\ writer.left <= WriteSize
        BY <1>3, SMTT(60)
      <4>2. PICK m \in Nat : m = Min({rawH2MaxDataFrameChunk, writer.left}) /\ m <= writer.left
        BY <1>3, <4>1, MinOfTwo, SMTT(60)
      <4> QED  BY <1>3, <4>1, <4>2, SMTT(60)
    <3>2. /\ writer.pc = "send" /\ full' \in BOOLEAN
          /\ \/ writer' = [writer EXCEPT !.left = left] /\ wmu' = wmu
             \/ writer' = [writer EXCEPT !.pc = "idle", !.left = 0] /\ wmu' = "free"
      BY <1>3, <2>3, ZenonT(60) DEF WriteData, Sends, SendErr
    <3> HIDE DEF left
    <3>3. CASE writer' = [writer EXCEPT !.left = left] /\ wmu' = wmu
      BY <1>3, <3>1, <3>2, <3>3, SMTT(60)
    <3>4. CASE writer' = [writer EXCEPT !.pc = "idle", !.left = 0] /\ wmu' = "free"
      <4>1. /\ writer'.pc = "idle" /\ writer'.left = 0 /\ writer'.calls = writer.calls
            /\ writer' = [pc |-> writer'.pc, left |-> writer'.left, calls |-> writer'.calls]
        BY <1>3, <3>4, ZenonT(60)
      <4>2. 0 \in 0 .. WriteSize /\ writer.calls \in 0 .. MaxWrites
        BY <1>3, SMTT(60)
      <4> QED  BY <3>2, <3>4, <4>1, <4>2, ZenonT(60)
    <3> QED  BY <3>2, <3>3, <3>4, SMTT(60)
  <2> QED  BY <2>1, <2>2, <2>3, SMTT(60) DEF Write
<1>5. Typed'
  BY <1>1, <1>3, <1>4, SMTT(60) DEF Inv, Typed, conn
<1>6. WmuExclusive'
  BY <1>1, <1>3, <1>4, H2Assumption, SMTT(60) DEF Inv, WmuExclusive
<1> QED  BY <1>2, <1>5, <1>6 DEF Inv

LEMMA CloserKeeps == ASSUME Inv, NEW k \in Closer, CloseCall(k) \/ Close(k) PROVE Inv'
<1>1. /\ UNCHANGED <<phase, block, reader, pending, writer, delivered, ctxDone, server, granted, inbox>>
      /\ connUp' = connUp \/ connUp' = FALSE
  BY SMTT(60) DEF CloseCall, Close, CloseLock, CloseCheck, CloseConn, ClosePipe, conn
<1>2. Frames' /\ AtHand' /\ WindowBound' /\ WindowConserved' /\ DataBound'
  BY <1>1, Bystander, SMTT(60)
<1>3. /\ closer \in [Closer -> {"idle", "lock", "rst", "close", "pipe", "done"}]
      /\ {full, closed, connUp, eof, panicked} \subseteq BOOLEAN
      /\ wmu \in {"free", "writer", "reader"} \cup Closer
  BY SMTT(60) DEF Inv, Typed
<1>4. full' \in BOOLEAN /\ closed' \in BOOLEAN /\ connUp' \in BOOLEAN /\ eof' \in BOOLEAN /\ panicked' \in BOOLEAN
  BY <1>3, ZenonT(60) DEF CloseCall, Close, CloseLock, CloseCheck, CloseConn, ClosePipe, conn, Sends, SendErr
<1>5. PICK pc \in {"lock", "rst", "close", "pipe", "done"} :
        /\ CloserGoto(k, pc)
        /\ \/ wmu' = wmu /\ pc # "rst" /\ closer[k] # "rst"
           \/ wmu = "free" /\ wmu' = k /\ pc = "rst"
           \/ closer[k] = "rst" /\ wmu' = "free" /\ pc # "rst"
  <2>1. CASE CloseCall(k)
    BY <2>1, SMTT(60) DEF CloseCall
  <2>2. CASE CloseLock(k)
    BY <2>2, SMTT(60) DEF CloseLock, Acquire
  <2>3. CASE CloseCheck(k)
    BY <2>3, SMTT(60) DEF CloseCheck
  <2>4. CASE CloseConn(k)
    BY <2>4, SMTT(60) DEF CloseConn
  <2>5. CASE ClosePipe(k)
    BY <2>5, SMTT(60) DEF ClosePipe
  <2> QED  BY <2>1, <2>2, <2>3, <2>4, <2>5, SMTT(60) DEF Close
<1>6. closer' = [closer EXCEPT ![k] = pc]
  BY <1>5, SMTT(60) DEF CloserGoto
<1>7. Typed'
  <2>1. /\ closer' \in [Closer -> {"idle", "lock", "rst", "close", "pipe", "done"}]
        /\ wmu' \in {"free", "writer", "reader"} \cup Closer
    BY <1>3, <1>5, <1>6, SMTT(60)
  <2> QED  BY <1>1, <1>4, <2>1, SMTT(60) DEF Inv, Typed
<1>8. \A j \in Closer : closer'[j] = IF j = k THEN pc ELSE closer[j]
  BY <1>3, <1>6, SMTT(60)
<1>9. WmuExclusive'
  <2>1. WmuExclusive /\ UNCHANGED <<writer, reader>>
    BY <1>1, SMTT(60) DEF Inv
  <2>2. k \notin {"free", "writer", "reader"}
    BY H2Assumption
  <2>3. writer' = writer /\ reader' = reader
    BY <2>1
  <2>4. CASE wmu' = wmu /\ pc # "rst" /\ closer[k] # "rst"
    BY <1>8, <2>1, <2>3, <2>4, SMTT(60) DEF WmuExclusive
  <2>5. CASE wmu = "free" /\ wmu' = k /\ pc = "rst"
    BY <1>8, <2>1, <2>2, <2>3, <2>5, H2Assumption, SMTT(60) DEF WmuExclusive
  <2>6. CASE closer[k] = "rst" /\ wmu' = "free" /\ pc # "rst"
    BY <1>8, <2>1, <2>2, <2>3, <2>6, H2Assumption, SMTT(60) DEF WmuExclusive
  <2> QED  BY <1>5, <2>4, <2>5, <2>6, SMTT(60)
<1> QED  BY <1>2, <1>7, <1>9, SMTT(60) DEF Inv

-----------------------------------------------------------------------------
LEMMA InitInv == Init => Inv
<1> SUFFICES ASSUME Init PROVE Inv
  BY SMTT(60)
<1>1. inbox = <<>> /\ inbox \in Seq(Sized) /\ Len(inbox) = 0 /\ InboxBytes = 0
  BY BytesEmpty, EmptySeq, SMTT(60) DEF Init, InboxBytes
<1>2. /\ InitialWindow \in Nat /\ MaxInbox \in Nat /\ Total \in Nat
      /\ 0 \in 0 .. WriteSize /\ 0 \in 0 .. MaxWrites
      /\ "free" \notin Closer /\ "writer" \notin Closer /\ "reader" \notin Closer
  BY H2Assumption, SMTT(60)
<1>3. Typed
  <2>1. /\ eof \in BOOLEAN /\ closed \in BOOLEAN /\ connUp \in BOOLEAN /\ block \in BOOLEAN
        /\ panicked \in BOOLEAN /\ ctxDone \in BOOLEAN /\ full \in BOOLEAN
    BY ZenonT(60) DEF Init
  <2>2. /\ phase = "init" /\ pending = 0 /\ delivered = 0 /\ granted = 0 /\ wmu = "free"
        /\ closer = [k \in Closer |-> "idle"]
        /\ reader = [pc |-> "off", next |-> "top", n |-> 0]
        /\ writer = [pc |-> "idle", left |-> 0, calls |-> 0]
        /\ server = [stage |-> "settings", credit |-> InitialWindow, left |-> Total]
    BY SMTT(60) DEF Init
  <2> QED  BY <1>1, <1>2, <2>1, <2>2, SMTT(60) DEF Typed
<1>4. WmuExclusive
  BY <1>2, SMTT(60) DEF Init, WmuExclusive
<1>5. Frames
  BY <1>1, SMTT(60) DEF Init, Frames
<1>6. AtHand
  BY SMTT(60) DEF Init, AtHand
<1>7. WindowBound /\ WindowConserved
  BY <1>1, <1>2, SMTT(60) DEF Init, WindowBound, WindowConserved
<1>8. DataBound
  BY <1>1, <1>2, SMTT(60) DEF Init, DataBound
<1> QED  BY <1>3, <1>4, <1>5, <1>6, <1>7, <1>8, SMTT(60) DEF Inv

LEMMA StutterKeeps == ASSUME Inv, UNCHANGED vars PROVE Inv'
<1>1. UNCHANGED client /\ UNCHANGED <<ctxDone, server, granted, full, inbox>>
  BY SMTT(60) DEF vars
<1>2. Frames' /\ AtHand' /\ WindowBound' /\ WindowConserved' /\ DataBound'
  BY <1>1, Bystander, SMTT(60) DEF client, conn
<1>3. Typed'
  BY <1>1, SMTT(60) DEF Inv, Typed, client, conn
<1>4. WmuExclusive'
  BY <1>1 DEF Inv, WmuExclusive, client, conn
<1> QED  BY <1>2, <1>3, <1>4, SMTT(60) DEF Inv

LEMMA NextKeeps == ASSUME Inv, [Next]_vars PROVE Inv'
<1>1. CASE Server \/ ServerReads \/ CtxEnds
  BY <1>1, ServerKeeps, ServerReadsKeeps, CtxKeeps, SMTT(60)
<1>2. CASE Handshake
  BY <1>2, HandshakeKeeps, SMTT(60)
<1>3. CASE readLoop \/ Consume
  BY <1>3, ReadTopKeeps, ReadFrameKeeps, WrittenKeeps, FlushLockKeeps, FlushWriteKeeps, ReaderClosesKeeps, SMTT(60)
     DEF readLoop
<1>4. CASE WriteCall \/ Write
  BY <1>4, WriterKeeps, SMTT(60)
<1>5. CASE \E k \in Closer : CloseCall(k) \/ Close(k)
  BY <1>5, CloserKeeps, SMTT(60)
<1>6. CASE UNCHANGED vars
  BY <1>6, StutterKeeps
<1> QED  BY <1>1, <1>2, <1>3, <1>4, <1>5, <1>6, Zenon DEF Next

LEMMA Invariance == Spec => []Inv
BY InitInv, NextKeeps, PTL DEF Spec

\* However readLoop, Write and any number of calls of Close interleave, and whatever
\* the window, the batch and the frame sizes are: as long as the connection lives no
\* credit is lost or granted twice.
THEOREM CreditConserved == Spec => []WindowConserved
<1>1. Inv => WindowConserved
  BY SMTT(60) DEF Inv
<1> QED  BY <1>1, Invariance, PTL

\* wmu is held by exactly the goroutine that is writing frames: Write between two
\* chunks, flushWindowUpdate, or one of the calls of rawH2Stream.Close.
THEOREM OneFrameWriter == Spec => []WmuExclusive
<1>1. Inv => WmuExclusive
  BY SMTT(60) DEF Inv
<1> QED  BY <1>1, Invariance, PTL

\* What readLoop hands to the consumer, together with what is still under way or not
\* sent yet, is never more than what the server had to send: no byte is delivered twice,
\* also after the connection is lost.
THEOREM NothingTwice == Spec => []DataBound
<1>1. Inv => DataBound
  BY DEF Inv
<1> QED  BY <1>1, Invariance, PTL

\* The bounds of TypeOK: no counter ever exceeds the window the server started with, nor
\* what is delivered the data there is.
THEOREM TypesKept == Spec => []TypeOK
<1>1. ASSUME Inv PROVE TypeOK
  <2>1. PICK c \in Nat, i \in Nat, n \in Nat, p \in Nat, g \in Nat, d \in Nat, left \in Nat :
          /\ c = server.credit /\ i = InboxBytes /\ n = reader.n /\ p = pending /\ g = granted
          /\ d = delivered /\ left = server.left
    BY <1>1, BytesType, ZenonT(60) DEF Inv, Typed, InboxBytes
  <2>2. InitialWindow \in Nat /\ Total \in Nat
    BY H2Assumption, SMTT(60)
  <2>3. c + i + n + p + g <= InitialWindow /\ d + i + n + left <= Total
    BY <1>1, <2>1, SMTT(60) DEF Inv, WindowBound, DataBound
  <2>4. /\ c \in 0 .. InitialWindow /\ n \in 0 .. InitialWindow /\ p \in 0 .. InitialWindow
        /\ g \in 0 .. InitialWindow /\ d \in 0 .. Total /\ left \in 0 .. Total
    BY <2>2, <2>3, SMTT(60)
  <2>5. /\ reader \in [pc : {"off", "top", "read", "pipe", "flush", "update", "close", "done"},
                       next : {"top", "close"}, n : 0 .. InitialWindow]
        /\ server \in [stage : {"settings", "settled", "continuing", "streaming", "over"},
                       credit : 0 .. InitialWindow, left : 0 .. Total]
    BY <1>1, <2>1, <2>4 DEF Inv, Typed
  <2> QED  BY <1>1, <2>1, <2>4, <2>5, SMTT(60) DEF Inv, Typed, TypeOK
<1> QED  BY <1>1, Invariance, PTL
==============================================================================
