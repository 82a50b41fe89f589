-------------------------- MODULE WarmStandbyProofs --------------------------
(***************************************************************************)
(* Theorems about WarmStandby, for every pool, both protocols, any number  *)
(* of flows and Ensure goroutines, any limits and every transport.         *)
(***************************************************************************)
EXTENDS WarmStandby, FiniteSetTheorems, FunctionTheorems, TLAPS

EnsureRecord == [pc : {"idle", "status", "reset", "exists", "dial", "store"},
                 slot : Slot, conn : Conn \cup {None}]
FlowRecord == [pc : {"idle", "check", "slot", "dial", "using"}, slot : Slot,
               conn : Conn \cup {None}, stale : BOOLEAN]
LoopRecord == [pc : {"select", "next", "check", "put", "closing", "returned"},
               i : 1 .. SlotCount, conn : Conn \cup {None}]

Typed ==
  /\ standby \in [Slot -> Conn \cup {None}]
  /\ open \subseteq Conn /\ gone \subseteq open
  /\ loop \in LoopRecord
  /\ ensure \in [Ensurer -> EnsureRecord]
  /\ flow \in [Flow -> FlowRecord]
  /\ dialSem \in Nat

\* Which program counters go with a connection in hand, and where the loop stands.
HandsInv ==
  /\ loop.conn # None => loop.pc \in {"check", "put"}
  /\ \A g \in Ensurer : ensure[g].conn # None => ensure[g].pc = "store"
  /\ \A f \in Flow : flow[f].conn # None => flow[f].pc \in {"check", "using"}
  /\ loop.pc = "select" => loop.i = 1
  /\ loop.pc = "closing" => loop.i <= Len(Pool)

\* The places that may hold a connection, and what each holds.
Holder == ({"standby"} \X Slot) \cup ({"ensure"} \X Ensurer) \cup ({"flow"} \X Flow) \cup {<<"loop", 0>>}

held == [h \in Holder |->
           IF h[1] = "standby" THEN standby[h[2]]
           ELSE IF h[1] = "ensure" THEN ensure[h[2]].conn
           ELSE IF h[1] = "flow" THEN flow[h[2]].conn ELSE loop.conn]

\* No two places hold the same connection, and what they hold is what is open.
One(h, o) ==
  /\ \A a, b \in Holder : h[a] = h[b] /\ h[a] # None => a = b
  /\ o = {h[a] : a \in Holder} \ {None}

OwnInv == One(held, open)

\* A check that is still to come will notice a peer that was gone when the flow asked.
FreshInv ==
  \A f \in Flow :
    /\ flow[f].pc = "check" /\ flow[f].stale => flow[f].conn \in gone
    /\ flow[f].pc \notin {"check", "using"} => ~flow[f].stale
    /\ flow[f].pc = "using" /\ flow[f].slot[2] = "tcp" => ~flow[f].stale

Dialling == {f \in Flow : flow[f].pc = "dial"}

SlotsInv == dialSem = Cardinality(Dialling) /\ dialSem <= DialLimit

Inv == Typed /\ HandsInv /\ OwnInv /\ FreshInv

-----------------------------------------------------------------------------
(* Slots.                                                                  *)

LEMMA NoneIsNoConn == None \notin Conn
  BY StandbyAssumption DEF None, Conn

LEMMA Lengths ==
  /\ Len(Pool) \in Nat \ {0} /\ Len(Protos) \in Nat \ {0}
  /\ DOMAIN Pool = 1 .. Len(Pool) /\ DOMAIN Protos = 1 .. Len(Protos)
  /\ SlotCount \in Nat /\ SlotCount >= Len(Pool) /\ SlotCount >= 1
  <1>1. /\ Len(Pool) \in Nat \ {0} /\ Len(Protos) \in Nat \ {0}
        /\ DOMAIN Pool = 1 .. Len(Pool) /\ DOMAIN Protos = 1 .. Len(Protos)
    BY StandbyAssumption
  <1>2. \A p, q \in Nat \ {0} : p * q \in Nat /\ p * q >= q
    OBVIOUS
  <1> QED
    BY <1>1, <1>2 DEF SlotCount

LEMMA SlotAtSlot == \A i \in 1 .. SlotCount : SlotAt(i) \in Slot
  <1> TAKE i \in 1 .. SlotCount
  <1> DEFINE P == Len(Pool)
             Q == Len(Protos)
             k == (i - 1) \div Q
             r == (i - 1) % Q
  <1>1. P \in Nat \ {0} /\ Q \in Nat \ {0} /\ i - 1 \in Nat /\ i - 1 < Q * P
    BY Lengths DEF SlotCount
  <1> HIDE DEF P, Q
  <1>2. k \in Nat /\ r \in 0 .. Q - 1 /\ i - 1 = Q * k + r
    BY <1>1
  <1>3. k < P
    <2> SUFFICES ASSUME k >= P PROVE FALSE
      BY <1>1, <1>2
    <2> HIDE DEF k, r
    <2>1. \A q, a, b \in Nat : a >= b => q * a >= q * b
      OBVIOUS
    <2>2. Q * k >= Q * P
      BY <1>1, <1>2, <2>1
    <2> QED
      BY <1>1, <1>2, <2>2
  <1>4. k + 1 \in DOMAIN Pool /\ r + 1 \in DOMAIN Protos
    BY <1>1, <1>2, <1>3, Lengths DEF P, Q
  <1> HIDE DEF k, r
  <1>5. SlotAt(i) = <<Pool[k + 1], Protos[r + 1]>>
    BY DEF SlotAt, k, r, Q
  <1> QED
    BY <1>4, <1>5 DEF Slot, Upstream, Proto, Range

LEMMA ServingSlots == Serving \X Proto \subseteq Slot
  BY StandbyAssumption DEF Slot

LEMMA ClosingSlots == \A i \in 1 .. Len(Pool) : {Pool[i]} \X Proto \subseteq Slot
  BY Lengths, SMTT(60) DEF Slot, Upstream, Range

-----------------------------------------------------------------------------
(* What may happen to a connection.                                        *)

LEMMA HeldAt ==
  /\ \A s \in Slot : <<"standby", s>> \in Holder /\ held[<<"standby", s>>] = standby[s]
  /\ \A g \in Ensurer : <<"ensure", g>> \in Holder /\ held[<<"ensure", g>>] = ensure[g].conn
  /\ \A f \in Flow : <<"flow", f>> \in Holder /\ held[<<"flow", f>>] = flow[f].conn
  /\ <<"loop", 0>> \in Holder /\ held[<<"loop", 0>>] = loop.conn
  BY DEF held, Holder

LEMMA HeldAtNext ==
  /\ \A s \in Slot : held'[<<"standby", s>>] = standby'[s]
  /\ \A g \in Ensurer : held'[<<"ensure", g>>] = ensure'[g].conn
  /\ \A f \in Flow : held'[<<"flow", f>>] = flow'[f].conn
  /\ held'[<<"loop", 0>>] = loop'.conn
  BY DEF held, Holder

LEMMA Holders ==
  \A h \in Holder :
    \/ \E s \in Slot : h = <<"standby", s>>
    \/ \E g \in Ensurer : h = <<"ensure", g>>
    \/ \E f \in Flow : h = <<"flow", f>>
    \/ h = <<"loop", 0>>
  BY DEF Holder

\* It stays where it is.
LEMMA Stays ==
  ASSUME OwnInv, \A x \in Holder : held'[x] = held[x], open' = open
  PROVE  OwnInv'
  BY DEF OwnInv, One

\* It goes from one place to another one, which is empty.
LEMMA Moves ==
  ASSUME OwnInv, NEW a \in Holder, NEW b \in Holder, a # b, held[b] = None,
         held'[a] = None, held'[b] = held[a], \A x \in Holder \ {a, b} : held'[x] = held[x],
         open' = open
  PROVE  OwnInv'
  <1>1. (\A x, y \in Holder : held[x] = held[y] /\ held[x] # None => x = y)'
    BY DEF OwnInv, One
  <1>2. {held'[x] : x \in Holder} \ {None} = {held[x] : x \in Holder} \ {None}
    <2>1. ASSUME NEW c, c # None, NEW x \in Holder, c = held'[x] PROVE \E y \in Holder : c = held[y]
      BY <2>1
    <2>2. ASSUME NEW c, c # None, NEW x \in Holder, c = held[x] PROVE \E y \in Holder : c = held'[y]
      <3>1. CASE x = a
        BY <2>2, <3>1
      <3>2. CASE x # a
        BY <2>2, <3>2
      <3> QED
        BY <3>1, <3>2
    <2> QED
      BY <2>1, <2>2
  <1> QED
    BY <1>1, <1>2 DEF OwnInv, One

\* It is new.
LEMMA Gets ==
  ASSUME OwnInv, NEW a \in Holder, NEW c \in Conn, c \notin open, held[a] = None,
         held'[a] = c, \A x \in Holder \ {a} : held'[x] = held[x], open' = open \cup {c}
  PROVE  OwnInv'
  <1>1. c # None /\ \A x \in Holder : held[x] # c
    BY NoneIsNoConn DEF OwnInv, One
  <1>2. (\A x, y \in Holder : held[x] = held[y] /\ held[x] # None => x = y)'
    BY <1>1 DEF OwnInv, One
  <1>3. {held'[x] : x \in Holder} \ {None} = ({held[x] : x \in Holder} \ {None}) \cup {c}
    <2>1. \A x \in Holder : held'[x] # None => held'[x] = c \/ \E y \in Holder : held'[x] = held[y]
      OBVIOUS
    <2>2. \A x \in Holder : held[x] # None => \E y \in Holder : held[x] = held'[y]
      OBVIOUS
    <2> QED
      BY <1>1, <2>1, <2>2
  <1> QED
    BY <1>2, <1>3 DEF OwnInv, One

\* The connections of some places are closed; nobody else's is.
LEMMA Drops ==
  ASSUME OwnInv, NEW S \in SUBSET Holder, \A x \in S : held'[x] = None,
         \A x \in Holder \ S : held'[x] = held[x],
         open' = open \ {held[x] : x \in S}
  PROVE  /\ OwnInv'
         /\ \A x \in Holder \ S : held[x] # None => held[x] \notin {held[y] : y \in S}
  <1>1. \A x \in Holder \ S : held[x] # None => held[x] \notin {held[y] : y \in S}
    BY DEF OwnInv, One
  <1>2. (\A x, y \in Holder : held[x] = held[y] /\ held[x] # None => x = y)'
    BY DEF OwnInv, One
  <1>3. {held'[x] : x \in Holder} \ {None} = ({held[x] : x \in Holder} \ {None}) \ {held[x] : x \in S}
    <2>1. ASSUME NEW x \in Holder, held'[x] # None
          PROVE  held'[x] \in {held[y] : y \in Holder} /\ held'[x] \notin {held[y] : y \in S}
      BY <1>1, <2>1
    <2>2. ASSUME NEW x \in Holder, held[x] # None, held[x] \notin {held[y] : y \in S}
          PROVE  held[x] \in {held'[y] : y \in Holder}
      BY <2>2
    <2> QED
      BY <2>1, <2>2
  <1> QED
    BY <1>1, <1>2, <1>3 DEF OwnInv, One

LEMMA DropsOne ==
  ASSUME OwnInv, NEW a \in Holder, held'[a] = None, \A x \in Holder \ {a} : held'[x] = held[x],
         open' = open \ {held[a]}
  PROVE  OwnInv' /\ \A x \in Holder \ {a} : held[x] # None => held[x] # held[a]
  <1>1. {held[x] : x \in {a}} = {held[a]}
    OBVIOUS
  <1> QED
    BY <1>1, Drops, ZenonT(60)

\* A step that takes no flow's connection away from a flow keeps FreshInv.
LEMMA FreshOthers ==
  ASSUME Inv, flow' = flow, \A f \in Flow : flow[f].conn \in gone => flow[f].conn \in gone'
  PROVE  FreshInv'
  BY DEF Inv, FreshInv

\* One place other than a flow gives its connection up, which is closed.
LEMMA ClosedElsewhere ==
  ASSUME Inv, flow' = flow, NEW a \in Holder, \A f \in Flow : a # <<"flow", f>>,
         held'[a] = None, \A x \in Holder \ {a} : held'[x] = held[x], Close(held[a])
  PROVE  OwnInv' /\ FreshInv' /\ open' \subseteq Conn /\ gone' \subseteq open'
  <1>1. OwnInv' /\ \A x \in Holder \ {a} : held[x] # None => held[x] # held[a]
    BY DropsOne DEF Inv, Close
  <1>2. open' \subseteq Conn /\ gone' \subseteq open'
    BY DEF Inv, Typed, Close
  <1>3. \A f \in Flow : flow[f].conn \in gone => flow[f].conn \in gone'
    <2> TAKE f \in Flow
    <2>1. <<"flow", f>> \in Holder \ {a} /\ held[<<"flow", f>>] = flow[f].conn
      BY HeldAt
    <2>2. None \notin gone
      BY NoneIsNoConn DEF Inv, Typed
    <2> QED
      BY <1>1, <2>1, <2>2, SMTT(60) DEF Close
  <1> QED
    BY <1>1, <1>2, <1>3, FreshOthers, SMTT(60)

-----------------------------------------------------------------------------
(* RunWarmStandby.                                                         *)

LEMMA AfterSlotTyped ==
  ASSUME Typed
  PROVE  /\ AfterSlot \in LoopRecord /\ AfterSlot.conn = None /\ AfterSlot.pc \in {"select", "next"}
         /\ AfterSlot.pc = "select" => AfterSlot.i = 1
  <1>1. Waiting \in LoopRecord /\ Waiting.conn = None /\ Waiting.pc = "select" /\ Waiting.i = 1
    BY Lengths DEF Waiting, LoopRecord
  <1>2. CASE loop.i = SlotCount
    BY <1>1, <1>2 DEF AfterSlot
  <1>3. CASE loop.i # SlotCount
    <2>1. loop.i + 1 \in 1 .. SlotCount
      BY <1>3, Lengths DEF Typed, LoopRecord
    <2>2. AfterSlot = [pc |-> "next", i |-> loop.i + 1, conn |-> None]
      BY <1>3 DEF AfterSlot
    <2> QED
      BY <2>1, <2>2 DEF LoopRecord
  <1> QED
    BY <1>2, <1>3

\* What the loop's steps leave alone.
LEMMA LoopRest ==
  ASSUME Inv, UNCHANGED <<ensure, flow, dialSem>>,
         standby' \in [Slot -> Conn \cup {None}], loop' \in LoopRecord,
         open' \subseteq Conn, gone' \subseteq open',
         loop'.conn # None => loop'.pc \in {"check", "put"},
         loop'.pc = "select" => loop'.i = 1,
         loop'.pc = "closing" => loop'.i <= Len(Pool)
  PROVE  Typed' /\ HandsInv'
  BY DEF Inv, Typed, HandsInv

LEMMA KeepaliveTakeKeeps ==
  ASSUME Inv, KeepaliveTake
  PROVE  Inv'
  <1> DEFINE s == SlotAt(loop.i)
  <1>1. s \in Slot
    BY SlotAtSlot DEF Inv, Typed, LoopRecord
  <1>2. loop.conn = None
    BY DEF Inv, HandsInv, KeepaliveTake
  <1>3. /\ standby' = [standby EXCEPT ![s] = None] /\ UNCHANGED <<open, gone, ensure, flow, dialSem>>
        /\ loop' = IF standby[s] = None THEN AfterSlot ELSE [loop EXCEPT !.pc = "check", !.conn = standby[s]]
    BY DEF KeepaliveTake
  <1> HIDE DEF s
  <1>4. /\ standby' \in [Slot -> Conn \cup {None}] /\ standby'[s] = None
        /\ \A t \in Slot \ {s} : standby'[t] = standby[t]
    BY <1>1, <1>3 DEF Inv, Typed
  <1>5. /\ loop' \in LoopRecord /\ loop'.conn = standby[s]
        /\ loop'.conn # None => loop'.pc = "check"
        /\ loop'.pc = "select" => loop'.i = 1
        /\ loop'.pc # "closing"
    <2>1. CASE standby[s] = None
      BY <1>3, <2>1, AfterSlotTyped DEF Inv
    <2>2. CASE standby[s] # None
      BY <1>1, <1>3, <2>2, ZenonT(60) DEF Inv, Typed, LoopRecord
    <2> QED
      BY <2>1, <2>2
  <1>6. Typed' /\ HandsInv'
    BY <1>3, <1>4, <1>5, LoopRest, SMTT(60) DEF Inv, Typed
  <1>7. OwnInv'
    <2>1. \A x \in Holder \ {<<"standby", s>>, <<"loop", 0>>} : held'[x] = held[x]
      BY <1>3, <1>4, Holders, HeldAt, HeldAtNext, SMTT(60)
    <2>2. /\ <<"standby", s>> \in Holder /\ <<"loop", 0>> \in Holder /\ <<"standby", s>> # <<"loop", 0>>
          /\ held[<<"loop", 0>>] = None /\ held'[<<"standby", s>>] = None
          /\ held'[<<"loop", 0>>] = held[<<"standby", s>>]
      BY <1>1, <1>2, <1>4, <1>5, HeldAt, HeldAtNext, SMTT(60)
    <2> QED
      BY <1>3, <2>1, <2>2, Moves, SMTT(60) DEF Inv
  <1>8. FreshInv'
    BY <1>3, FreshOthers
  <1> QED
    BY <1>6, <1>7, <1>8, SMTT(60) DEF Inv

LEMMA KeepaliveCheckKeeps ==
  ASSUME Inv, KeepaliveCheck
  PROVE  Inv'
  <1>1. UNCHANGED <<standby, ensure, flow, dialSem>> /\ loop.pc = "check"
    BY DEF KeepaliveCheck
  <1>2. CASE loop' = [loop EXCEPT !.pc = "put"] /\ Keep
    <2>1. loop' \in LoopRecord /\ loop'.conn = loop.conn /\ loop'.pc = "put"
      BY <1>2 DEF Inv, Typed, LoopRecord
    <2>2. Typed' /\ HandsInv'
      BY <1>1, <1>2, <2>1, LoopRest, SMTT(60) DEF Inv, Typed, Keep
    <2>3. \A x \in Holder : held'[x] = held[x]
      BY <1>1, <2>1, Holders, HeldAt, HeldAtNext, SMTT(60)
    <2> QED
      BY <1>1, <1>2, <2>2, <2>3, Stays, FreshOthers, SMTT(60) DEF Inv, Keep
  <1>3. CASE loop' = AfterSlot /\ Close(loop.conn)
    <2>1. \A x \in Holder \ {<<"loop", 0>>} : held'[x] = held[x]
      BY <1>1, Holders, HeldAt, HeldAtNext, SMTT(60)
    <2>2. OwnInv' /\ FreshInv' /\ open' \subseteq Conn /\ gone' \subseteq open'
      BY <1>1, <1>3, <2>1, HeldAt, HeldAtNext, AfterSlotTyped, ClosedElsewhere, SMTT(60) DEF Inv
    <2>3. Typed' /\ HandsInv'
      BY <1>1, <1>3, <2>2, AfterSlotTyped, LoopRest, SMTT(60) DEF Inv, Typed
    <2> QED
      BY <2>2, <2>3, SMTT(60) DEF Inv
  <1> QED
    BY <1>2, <1>3 DEF KeepaliveCheck

LEMMA KeepalivePutKeeps ==
  ASSUME Inv, KeepalivePut
  PROVE  Inv'
  <1> DEFINE s == SlotAt(loop.i)
  <1>1. s \in Slot
    BY SlotAtSlot DEF Inv, Typed, LoopRecord
  <1>2. UNCHANGED <<ensure, flow, dialSem>> /\ loop' = AfterSlot
    BY DEF KeepalivePut
  <1>3. CASE standby[s] = None /\ standby' = [standby EXCEPT ![s] = loop.conn] /\ Keep
    <2> HIDE DEF s
    <2>1. /\ standby' \in [Slot -> Conn \cup {None}] /\ standby'[s] = loop.conn
          /\ \A t \in Slot \ {s} : standby'[t] = standby[t]
      BY <1>1, <1>3, SMTT(60) DEF Inv, Typed, LoopRecord
    <2>2. Typed' /\ HandsInv'
      BY <1>2, <1>3, <2>1, AfterSlotTyped, LoopRest, SMTT(60) DEF Inv, Typed, Keep
    <2>3. \A x \in Holder \ {<<"standby", s>>, <<"loop", 0>>} : held'[x] = held[x]
      BY <1>2, <2>1, Holders, HeldAt, HeldAtNext, SMTT(60)
    <2>4. /\ <<"standby", s>> \in Holder /\ <<"loop", 0>> \in Holder /\ <<"standby", s>> # <<"loop", 0>>
          /\ held[<<"standby", s>>] = None /\ held'[<<"loop", 0>>] = None
          /\ held'[<<"standby", s>>] = held[<<"loop", 0>>]
      BY <1>1, <1>2, <1>3, <2>1, HeldAt, HeldAtNext, AfterSlotTyped, SMTT(60) DEF Inv
    <2>5. OwnInv'
      BY <1>3, <2>3, <2>4, Moves, SMTT(60) DEF Inv, Keep
    <2> QED
      BY <1>2, <1>3, <2>2, <2>5, FreshOthers, SMTT(60) DEF Inv, Keep
  <1>4. CASE UNCHANGED standby /\ Close(loop.conn)
    <2>1. \A x \in Holder \ {<<"loop", 0>>} : held'[x] = held[x]
      BY <1>2, <1>4, Holders, HeldAt, HeldAtNext, SMTT(60)
    <2>2. OwnInv' /\ FreshInv' /\ open' \subseteq Conn /\ gone' \subseteq open'
      BY <1>2, <1>4, <2>1, HeldAt, HeldAtNext, AfterSlotTyped, ClosedElsewhere, SMTT(60) DEF Inv
    <2>3. Typed' /\ HandsInv'
      BY <1>2, <1>4, <2>2, AfterSlotTyped, LoopRest, SMTT(60) DEF Inv, Typed
    <2> QED
      BY <2>2, <2>3 DEF Inv
  <1> QED
    BY <1>3, <1>4, SMTT(60) DEF KeepalivePut

LEMMA CloseUpstreamKeeps ==
  ASSUME Inv, CloseUpstream
  PROVE  Inv'
  <1> DEFINE mine == {Pool[loop.i]} \X Proto
             S    == {<<"standby", t>> : t \in mine}
  <1>1. loop.i \in 1 .. Len(Pool) /\ loop.conn = None
    <2>1. loop.i \in 1 .. SlotCount /\ loop.i <= Len(Pool)
      BY Lengths DEF Inv, Typed, LoopRecord, HandsInv, CloseUpstream
    <2> QED
      BY <2>1, Lengths DEF Inv, HandsInv, CloseUpstream
  <1>2. mine \subseteq Slot
    BY <1>1, ClosingSlots
  <1>3. /\ standby' = [t \in Slot |-> IF t \in mine THEN None ELSE standby[t]]
        /\ open' = open \ {standby[t] : t \in mine} /\ gone' = gone \ {standby[t] : t \in mine}
        /\ UNCHANGED <<ensure, flow, dialSem>>
    BY DEF CloseUpstream
  <1>4. loop' \in LoopRecord /\ loop'.conn = None /\ loop'.pc # "select"
        /\ (loop'.pc = "closing" => loop'.i <= Len(Pool))
    <2>1. CASE loop.i = Len(Pool)
      <3>1. loop' = [Waiting EXCEPT !.pc = "returned"]
        BY <2>1 DEF CloseUpstream
      <3> QED
        BY <3>1, Lengths DEF Waiting, LoopRecord
    <2>2. CASE loop.i # Len(Pool)
      <3>1. loop' = [loop EXCEPT !.pc = "closing", !.i = loop.i + 1]
        BY <2>2 DEF CloseUpstream
      <3>2. loop.i + 1 \in 1 .. SlotCount /\ loop.i + 1 <= Len(Pool)
        BY <1>1, <2>2, Lengths
      <3> QED
        BY <1>1, <3>1, <3>2, ZenonT(60) DEF Inv, Typed, LoopRecord
    <2> QED
      BY <2>1, <2>2
  <1> HIDE DEF mine
  <1>5. standby' \in [Slot -> Conn \cup {None}] /\ open' \subseteq Conn /\ gone' \subseteq open'
    BY <1>3 DEF Inv, Typed
  <1>6. Typed' /\ HandsInv'
    BY <1>3, <1>4, <1>5, LoopRest
  <1>7. S \in SUBSET Holder /\ {held[x] : x \in S} = {standby[t] : t \in mine}
    <2>1. \A t \in mine : <<"standby", t>> \in Holder /\ held[<<"standby", t>>] = standby[t]
      BY <1>2, HeldAt, ZenonT(60)
    <2> QED
      BY <2>1, ZenonT(60)
  <1>8. \A x \in S : held'[x] = None
    BY <1>2, <1>3, HeldAtNext
  <1>9. ASSUME NEW x \in Holder \ S PROVE held'[x] = held[x]
    <2>1. CASE \E t \in Slot : x = <<"standby", t>>
      <3>1. PICK t \in Slot : x = <<"standby", t>>
        BY <2>1
      <3>2. t \notin mine
        BY <3>1, SMTT(60)
      <3> QED
        BY <1>3, <3>1, <3>2, HeldAt, HeldAtNext, SMTT(60)
    <2>2. CASE ~\E t \in Slot : x = <<"standby", t>>
      BY <1>1, <1>3, <1>4, <2>2, Holders, HeldAt, HeldAtNext, SMTT(60)
    <2> QED
      BY <2>1, <2>2
  <1> HIDE DEF S
  <1>10. OwnInv' /\ \A x \in Holder \ S : held[x] # None => held[x] \notin {held[y] : y \in S}
    BY <1>3, <1>7, <1>8, <1>9, Drops, ZenonT(60) DEF Inv
  <1>11. \A f \in Flow : flow[f].conn \in gone => flow[f].conn \in gone'
    <2> TAKE f \in Flow
    <2>1. <<"flow", f>> \in Holder \ S /\ held[<<"flow", f>>] = flow[f].conn
      BY HeldAt DEF S
    <2>2. None \notin gone
      BY NoneIsNoConn DEF Inv, Typed
    <2> QED
      BY <1>3, <1>7, <1>10, <2>1, <2>2, SMTT(60)
  <1> QED
    BY <1>3, <1>6, <1>10, <1>11, FreshOthers, SMTT(60) DEF Inv

\* There are enough idle goroutines for the slots of the top upstreams, so that
\* each of them gets its own.
LEMMA Assignable ==
  ASSUME NEW S, NEW T, IsFiniteSet(S), IsFiniteSet(T), Cardinality(S) <= Cardinality(T)
  PROVE  \E h \in [S -> T] : IsInjective(h)
  <1> DEFINE m == Cardinality(S)
             n == Cardinality(T)
  <1>1. m \in Nat /\ n \in Nat /\ ExistsBijection(1 .. m, S) /\ ExistsBijection(1 .. n, T)
    BY FS_CardinalityType
  <1>2. PICK a \in Bijection(S, 1 .. m) : TRUE
    BY <1>1, Fun_ExistsBijSymmetric, Fun_ExistsBij
  <1>3. PICK b \in Bijection(1 .. n, T) : TRUE
    BY <1>1, Fun_ExistsBij
  <1> HIDE DEF m, n
  <1>4. a \in [S -> 1 .. m] /\ \A x, y \in S : a[x] = a[y] => x = y
    BY <1>2, Fun_BijectionProperties, ZenonT(60)
  <1>5. b \in [1 .. n -> T] /\ \A x, y \in 1 .. n : b[x] = b[y] => x = y
    BY <1>3, Fun_BijectionProperties, ZenonT(60)
  <1>6. 1 .. m \subseteq 1 .. n
    BY <1>1 DEF m, n
  <1>7. [x \in S |-> b[a[x]]] \in [S -> T]
    BY <1>4, <1>5, <1>6, SMTT(60)
  <1>8. IsInjective([x \in S |-> b[a[x]]])
    BY <1>4, <1>5, <1>6, SMTT(60) DEF IsInjective
  <1> QED
    BY <1>7, <1>8

LEMMA ServingFinite == IsFiniteSet(Serving) /\ IsFiniteSet(Proto)
  <1>1. Pool \in [1 .. Len(Pool) -> Upstream] /\ Protos \in [1 .. Len(Protos) -> Proto]
    <2>1. Pool \in [1 .. Len(Pool) -> Upstream] /\ Protos \in [1 .. Len(Protos) -> {"tcp", "udp"}]
      BY StandbyAssumption
    <2>2. \A i \in 1 .. Len(Protos) : Protos[i] \in Proto
      BY Lengths DEF Proto, Range
    <2> QED
      BY <2>1, <2>2
  <1>2. Pool \in Surjection(1 .. Len(Pool), Upstream) /\ Protos \in Surjection(1 .. Len(Protos), Proto)
    BY <1>1, Lengths DEF Surjection, Upstream, Proto, Range
  <1>3. IsFiniteSet(1 .. Len(Pool)) /\ IsFiniteSet(1 .. Len(Protos))
    BY Lengths, FS_Interval
  <1>4. IsFiniteSet(Upstream) /\ IsFiniteSet(Proto)
    BY <1>2, <1>3, FS_Surjection
  <1> QED
    BY <1>4, StandbyAssumption, FS_Subset

LEMMA IdleTyped == Idle \in EnsureRecord /\ Idle.conn = None /\ Idle.pc = "idle"
  BY SlotAtSlot, Lengths, SMTT(60) DEF Idle, EnsureRecord

\* Goroutines start where none was at work.
LEMMA StartedKeeps ==
  ASSUME Inv, NEW slots \in SUBSET Slot, NEW g \in [slots -> {x \in Ensurer : ensure[x].pc = "idle"}],
         ensure' = Started(g), UNCHANGED <<standby, open, gone, loop, flow, dialSem>>
  PROVE  Inv'
  <1> DEFINE mine(x) == CHOOSE s \in DOMAIN g : g[s] = x
  <1>1. \A x \in Range(g) : x \in Ensurer /\ ensure[x].pc = "idle" /\ mine(x) \in Slot
    BY SMTT(60) DEF Range
  <1>2. \A x \in Ensurer :
          ensure'[x] = IF x \in Range(g) THEN [Idle EXCEPT !.pc = "status", !.slot = mine(x)] ELSE ensure[x]
    BY ZenonT(60) DEF Started
  <1>3. \E h : ensure' = [x \in Ensurer |-> h[x]]
    BY <1>2, ZenonT(60) DEF Started
  <1> HIDE DEF mine
  <1>4. ASSUME NEW x \in Ensurer
        PROVE  /\ ensure'[x] \in EnsureRecord /\ ensure'[x].conn = ensure[x].conn
               /\ ensure'[x].conn # None => ensure'[x].pc = "store"
    <2>1. CASE x \in Range(g)
      <3>1. ensure'[x] = [Idle EXCEPT !.pc = "status", !.slot = mine(x)] /\ mine(x) \in Slot
        BY <1>1, <1>2, <2>1, ZenonT(60)
      <3>2. ensure'[x] \in EnsureRecord /\ ensure'[x].conn = None
        BY <3>1, IdleTyped, ZenonT(60) DEF EnsureRecord
      <3>3. ensure[x].conn = None
        BY <1>1, <2>1 DEF Inv, HandsInv
      <3> QED
        BY <3>2, <3>3, SMTT(60)
    <2>2. CASE x \notin Range(g)
      BY <1>2, <2>2, ZenonT(60) DEF Inv, Typed, HandsInv
    <2> QED
      BY <2>1, <2>2, SMTT(60)
  <1>5. ensure' \in [Ensurer -> EnsureRecord]
    BY <1>3, <1>4, SMTT(60)
  <1>6. Typed' /\ HandsInv'
    BY <1>4, <1>5, SMTT(60) DEF Inv, Typed, HandsInv
  <1>7. \A x \in Holder : held'[x] = held[x]
    BY <1>4, Holders, HeldAt, HeldAtNext, SMTT(60)
  <1> QED
    BY <1>6, <1>7, Stays, FreshOthers, SMTT(60) DEF Inv

LEMMA WarmTickKeeps ==
  ASSUME Inv, WarmTick
  PROVE  Inv'
  <1> DEFINE free == {x \in Ensurer : ensure[x].pc = "idle"}
  <1>1. PICK top \in pickTopN :
          /\ Cardinality(top \X Proto) <= Cardinality(free)
          /\ ensure' = Started(Assigned(top \X Proto, free))
    BY ZenonT(60) DEF WarmTick
  <1>2. top \subseteq Serving
    BY ZenonT(60) DEF pickTopN, kSubset
  <1>3. top \X Proto \subseteq Slot
    BY <1>2, ServingSlots
  <1>4. IsFiniteSet(top \X Proto) /\ IsFiniteSet(free)
    BY <1>2, ServingFinite, StandbyAssumption, FS_Subset, FS_Product, ZenonT(60)
  <1>5. Assigned(top \X Proto, free) \in [top \X Proto -> free]
    BY <1>1, <1>4, Assignable, ZenonT(60) DEF Assigned
  <1> QED
    BY <1>1, <1>3, <1>5, StartedKeeps, ZenonT(60) DEF WarmTick

-----------------------------------------------------------------------------
(* EnsureStandbyTCP and EnsureStandbyUDP.                                  *)

\* What the steps of an Ensure goroutine leave alone.
LEMMA EnsureRest ==
  ASSUME Inv, UNCHANGED <<loop, flow, dialSem>>, NEW g \in Ensurer, NEW e \in EnsureRecord,
         ensure' = [ensure EXCEPT ![g] = e], e.conn # None => e.pc = "store",
         standby' \in [Slot -> Conn \cup {None}], open' \subseteq Conn, gone' \subseteq open'
  PROVE  /\ Typed' /\ HandsInv'
         /\ ensure'[g].conn = e.conn /\ \A x \in Ensurer \ {g} : ensure'[x].conn = ensure[x].conn
  BY DEF Inv, Typed, HandsInv

\* The goroutine only goes on, or ends without a connection.
LEMMA EnsureQuiet ==
  ASSUME Inv, UNCHANGED <<standby, open, gone, loop, flow, dialSem>>, NEW g \in Ensurer,
         NEW e \in EnsureRecord, ensure' = [ensure EXCEPT ![g] = e], ensure[g].conn = None, e.conn = None
  PROVE  Inv'
  <1>1. Typed' /\ HandsInv' /\ \A x \in Ensurer : ensure'[x].conn = ensure[x].conn
    BY EnsureRest, ZenonT(60) DEF Inv, Typed
  <1>2. \A x \in Holder : held'[x] = held[x]
    BY <1>1, Holders, HeldAt, HeldAtNext, SMTT(60)
  <1> QED
    BY <1>1, <1>2, Stays, FreshOthers, SMTT(60) DEF Inv

LEMMA EnsureResetKeeps ==
  ASSUME Inv, NEW g \in Ensurer, EnsureReset(g)
  PROVE  Inv'
  <1> DEFINE s == ensure[g].slot
  <1>1. s \in Slot /\ ensure[g].conn = None
    BY DEF Inv, Typed, EnsureRecord, HandsInv, EnsureReset
  <1>2. /\ Close(standby[s]) /\ standby' = [standby EXCEPT ![s] = None]
        /\ ensure' = [ensure EXCEPT ![g] = Idle] /\ UNCHANGED <<loop, flow, dialSem>>
    BY DEF EnsureReset
  <1> HIDE DEF s
  <1>3. /\ standby' \in [Slot -> Conn \cup {None}] /\ standby'[s] = None
        /\ \A t \in Slot \ {s} : standby'[t] = standby[t]
    BY <1>1, <1>2, SMTT(60) DEF Inv, Typed
  <1>4. \A x \in Ensurer : ensure'[x].conn = ensure[x].conn
    BY <1>1, <1>2, IdleTyped, SMTT(60) DEF Inv, Typed
  <1>5. \A x \in Holder \ {<<"standby", s>>} : held'[x] = held[x]
    BY <1>2, <1>3, <1>4, Holders, HeldAt, HeldAtNext, SMTT(60)
  <1>6. /\ <<"standby", s>> \in Holder /\ held[<<"standby", s>>] = standby[s]
        /\ held'[<<"standby", s>>] = None /\ \A f \in Flow : <<"standby", s>> # <<"flow", f>>
    BY <1>1, <1>3, HeldAt, HeldAtNext, SMTT(60)
  <1>7. OwnInv' /\ FreshInv' /\ open' \subseteq Conn /\ gone' \subseteq open'
    BY <1>2, <1>5, <1>6, ClosedElsewhere, SMTT(60)
  <1>8. Typed' /\ HandsInv'
    BY <1>2, <1>3, <1>7, IdleTyped, EnsureRest, ZenonT(60)
  <1> QED
    BY <1>7, <1>8, SMTT(60) DEF Inv

LEMMA EnsureDialKeeps ==
  ASSUME Inv, NEW g \in Ensurer, EnsureDial(g)
  PROVE  Inv'
  <1>1. UNCHANGED <<standby, loop, flow, dialSem>> /\ ensure[g].conn = None /\ ensure[g] \in EnsureRecord
    BY SMTT(60) DEF Inv, Typed, HandsInv, EnsureDial
  <1>2. ASSUME NEW c \in Conn, Dialled(c), ensure' = [ensure EXCEPT ![g].pc = "store", ![g].conn = c]
        PROVE  Inv'
    <2> DEFINE e == [ensure[g] EXCEPT !.pc = "store", !.conn = c]
    <2>1. e \in EnsureRecord /\ e.conn = c /\ e.pc = "store"
      BY <1>1, ZenonT(60) DEF EnsureRecord
    <2>2. ensure' = [ensure EXCEPT ![g] = e]
      BY <1>2, ZenonT(60) DEF Inv, Typed
    <2> HIDE DEF e
    <2>3. c \notin open /\ open' = open \cup {c} /\ gone' = gone
      BY <1>2, SMTT(60) DEF Dialled
    <2>4. /\ Typed' /\ HandsInv' /\ ensure'[g].conn = c
          /\ \A x \in Ensurer \ {g} : ensure'[x].conn = ensure[x].conn
      BY <1>1, <2>1, <2>2, <2>3, EnsureRest, ZenonT(60) DEF Inv, Typed
    <2>5. \A x \in Holder \ {<<"ensure", g>>} : held'[x] = held[x]
      BY <1>1, <2>4, Holders, HeldAt, HeldAtNext, SMTT(60)
    <2>6. <<"ensure", g>> \in Holder /\ held[<<"ensure", g>>] = None /\ held'[<<"ensure", g>>] = c
      BY <1>1, <2>4, HeldAt, HeldAtNext, SMTT(60)
    <2>7. OwnInv'
      BY <2>3, <2>5, <2>6, Gets, SMTT(60) DEF Inv
    <2> QED
      BY <1>1, <2>3, <2>4, <2>7, FreshOthers, SMTT(60) DEF Inv
  <1>3. CASE Keep /\ ensure' = [ensure EXCEPT ![g] = Idle]
    BY <1>1, <1>3, IdleTyped, EnsureQuiet, ZenonT(60) DEF Keep
  <1> QED
    BY <1>2, <1>3, SMTT(60) DEF EnsureDial

LEMMA EnsureStoreKeeps ==
  ASSUME Inv, NEW g \in Ensurer, EnsureStore(g)
  PROVE  Inv'
  <1> DEFINE s == ensure[g].slot
  <1>1. /\ s \in Slot /\ ensure[g].conn \in Conn \cup {None}
        /\ ensure' = [ensure EXCEPT ![g] = Idle] /\ UNCHANGED <<loop, flow, dialSem>>
    BY SMTT(60) DEF Inv, Typed, EnsureRecord, EnsureStore
  <1>2. ensure'[g].conn = None /\ \A x \in Ensurer \ {g} : ensure'[x].conn = ensure[x].conn
    BY <1>1, IdleTyped, SMTT(60) DEF Inv, Typed
  <1>3. CASE standby[s] = None /\ standby' = [standby EXCEPT ![s] = ensure[g].conn] /\ Keep
    <2> HIDE DEF s
    <2>1. /\ standby' \in [Slot -> Conn \cup {None}] /\ standby'[s] = ensure[g].conn
          /\ \A t \in Slot \ {s} : standby'[t] = standby[t]
      BY <1>1, <1>3, SMTT(60) DEF Inv, Typed
    <2>2. Typed' /\ HandsInv'
      BY <1>1, <1>3, <2>1, IdleTyped, EnsureRest, ZenonT(60) DEF Inv, Typed, Keep
    <2>3. \A x \in Holder \ {<<"ensure", g>>, <<"standby", s>>} : held'[x] = held[x]
      BY <1>1, <1>2, <2>1, Holders, HeldAt, HeldAtNext, SMTT(60)
    <2>4. /\ <<"standby", s>> \in Holder /\ <<"ensure", g>> \in Holder /\ <<"ensure", g>> # <<"standby", s>>
          /\ held[<<"standby", s>>] = None /\ held'[<<"ensure", g>>] = None
          /\ held'[<<"standby", s>>] = held[<<"ensure", g>>]
      BY <1>1, <1>2, <1>3, <2>1, HeldAt, HeldAtNext, SMTT(60)
    <2>5. OwnInv'
      BY <1>3, <2>3, <2>4, Moves, SMTT(60) DEF Inv, Keep
    <2> QED
      BY <1>1, <1>3, <2>2, <2>5, FreshOthers, SMTT(60) DEF Inv, Keep
  <1>4. CASE UNCHANGED standby /\ Close(ensure[g].conn)
    <2>1. \A x \in Holder \ {<<"ensure", g>>} : held'[x] = held[x]
      BY <1>1, <1>2, <1>4, Holders, HeldAt, HeldAtNext, SMTT(60)
    <2>2. /\ <<"ensure", g>> \in Holder /\ held[<<"ensure", g>>] = ensure[g].conn
          /\ held'[<<"ensure", g>>] = None /\ \A f \in Flow : <<"ensure", g>> # <<"flow", f>>
      BY <1>2, HeldAt, HeldAtNext, SMTT(60)
    <2>3. OwnInv' /\ FreshInv' /\ open' \subseteq Conn /\ gone' \subseteq open'
      BY <1>1, <1>4, <2>1, <2>2, ClosedElsewhere, SMTT(60)
    <2>4. Typed' /\ HandsInv'
      BY <1>1, <1>4, <2>3, IdleTyped, EnsureRest, ZenonT(60) DEF Inv, Typed
    <2> QED
      BY <2>3, <2>4 DEF Inv
  <1> QED
    BY <1>3, <1>4, SMTT(60) DEF EnsureStore

LEMMA EnsureKeeps ==
  ASSUME Inv, NEW g \in Ensurer, EnsureStep(g)
  PROVE  Inv'
  <1>1. ensure[g] \in EnsureRecord /\ (ensure[g].pc \in {"status", "exists"} => ensure[g].conn = None)
    BY DEF Inv, Typed, HandsInv
  <1>2. ASSUME NEW pc \in {"exists", "reset", "dial"}, ensure[g].conn = None,
               ensure' = [ensure EXCEPT ![g].pc = pc],
               UNCHANGED <<standby, open, gone, loop, flow, dialSem>>
        PROVE  Inv'
    <2> DEFINE e == [ensure[g] EXCEPT !.pc = pc]
    <2>1. e \in EnsureRecord /\ e.conn = None
      BY <1>1, <1>2, SMTT(60) DEF EnsureRecord
    <2>2. ensure' = [ensure EXCEPT ![g] = e]
      BY <1>2 DEF Inv, Typed
    <2> HIDE DEF e
    <2> QED
      BY <1>2, <2>1, <2>2, EnsureQuiet, ZenonT(60)
  <1>3. CASE EnsureStatus(g)
    BY <1>1, <1>2, <1>3, ZenonT(60) DEF EnsureStatus, EnsureGoto
  <1>4. CASE EnsureExists(g)
    <2>1. CASE standby[ensure[g].slot] # None
      <3>1. ensure' = [ensure EXCEPT ![g] = Idle]
        BY <1>4, <2>1, SMTT(60) DEF EnsureExists, Inv, Typed
      <3> QED
        BY <1>1, <1>4, <3>1, IdleTyped, EnsureQuiet, ZenonT(60) DEF EnsureExists
    <2>2. CASE standby[ensure[g].slot] = None
      <3>1. ensure' = [ensure EXCEPT ![g].pc = "dial"]
        BY <1>4, <2>2, SMTT(60) DEF EnsureExists, Inv, Typed
      <3> QED
        BY <1>1, <1>2, <1>4, <3>1, ZenonT(60) DEF EnsureExists
    <2> QED
      BY <2>1, <2>2, SMTT(60)
  <1> QED
    BY <1>3, <1>4, EnsureResetKeeps, EnsureDialKeeps, EnsureStoreKeeps, SMTT(60) DEF EnsureStep

-----------------------------------------------------------------------------
(* Client flows.                                                           *)

FreshFlow(e) ==
  /\ e.pc = "check" /\ e.stale => e.conn \in gone'
  /\ e.pc \notin {"check", "using"} => ~e.stale
  /\ e.pc = "using" /\ e.slot[2] = "tcp" => ~e.stale

\* What the steps of a flow leave alone.
LEMMA FlowRest ==
  ASSUME Inv, UNCHANGED <<loop, ensure>>, NEW f \in Flow, NEW e \in FlowRecord,
         flow' = [flow EXCEPT ![f] = e], e.conn # None => e.pc \in {"check", "using"}, FreshFlow(e),
         standby' \in [Slot -> Conn \cup {None}], open' \subseteq Conn, gone' \subseteq open',
         dialSem' \in Nat,
         \A x \in Flow \ {f} : flow[x].conn \in gone => flow[x].conn \in gone'
  PROVE  /\ Typed' /\ HandsInv' /\ FreshInv'
         /\ flow'[f].conn = e.conn /\ \A x \in Flow \ {f} : flow'[x].conn = flow[x].conn
  <1>1. flow' \in [Flow -> FlowRecord] /\ flow'[f] = e /\ \A x \in Flow \ {f} : flow'[x] = flow[x]
    BY SMTT(60) DEF Inv, Typed
  <1>2. Typed'
    BY <1>1, SMTT(60) DEF Inv, Typed
  <1>3. HandsInv'
    BY <1>1, SMTT(60) DEF Inv, HandsInv
  <1>4. FreshInv'
    BY <1>1, SMTT(60) DEF Inv, FreshInv, FreshFlow
  <1> QED
    BY <1>1, <1>2, <1>3, <1>4, SMTT(60)

LEMMA IdleFlowTyped ==
  IdleFlow \in FlowRecord /\ IdleFlow.conn = None /\ IdleFlow.pc = "idle" /\ IdleFlow.stale = FALSE
  BY SlotAtSlot, Lengths, SMTT(60) DEF IdleFlow, FlowRecord

\* The flow only goes on, or ends without a connection.
LEMMA FlowQuiet ==
  ASSUME Inv, UNCHANGED <<standby, open, gone, loop, ensure>>, dialSem' \in Nat,
         NEW f \in Flow, NEW e \in FlowRecord, flow' = [flow EXCEPT ![f] = e],
         e.conn = flow[f].conn, e.conn # None => e.pc \in {"check", "using"}, FreshFlow(e)
  PROVE  Inv'
  <1>1. Typed' /\ HandsInv' /\ FreshInv' /\ \A x \in Flow : flow'[x].conn = flow[x].conn
    BY FlowRest, ZenonT(60) DEF Inv, Typed
  <1>2. \A x \in Holder : held'[x] = held[x]
    BY <1>1, Holders, HeldAt, HeldAtNext, SMTT(60)
  <1> QED
    BY <1>1, <1>2, Stays, SMTT(60) DEF Inv

\* The flow closes the connection it has.
LEMMA FlowCloses ==
  ASSUME Inv, UNCHANGED <<standby, loop, ensure, dialSem>>, NEW f \in Flow, Close(flow[f].conn),
         NEW e \in FlowRecord, flow' = [flow EXCEPT ![f] = e],
         e.conn = None, e.pc \notin {"check", "using"}, ~e.stale
  PROVE  Inv'
  <1> DEFINE a == <<"flow", f>>
  <1>1. flow'[f].conn = None /\ \A x \in Flow \ {f} : flow'[x].conn = flow[x].conn
    BY SMTT(60) DEF Inv, Typed
  <1>2. a \in Holder /\ held[a] = flow[f].conn /\ held'[a] = None
    BY <1>1, HeldAt, HeldAtNext, SMTT(60)
  <1>3. \A x \in Holder \ {a} : held'[x] = held[x]
    BY <1>1, Holders, HeldAt, HeldAtNext, SMTT(60)
  <1>4. \A x \in Flow \ {f} : <<"flow", x>> \in Holder \ {a} /\ held[<<"flow", x>>] = flow[x].conn
    BY HeldAt, ZenonT(60)
  <1> HIDE DEF a
  <1>5. OwnInv' /\ \A x \in Holder \ {a} : held[x] # None => held[x] # held[a]
    BY <1>2, <1>3, DropsOne, SMTT(60) DEF Inv, Close
  <1>6. open' \subseteq Conn /\ gone' \subseteq open'
    BY SMTT(60) DEF Inv, Typed, Close
  <1>7. \A x \in Flow \ {f} : flow[x].conn \in gone => flow[x].conn \in gone'
    <2>1. None \notin gone
      BY NoneIsNoConn DEF Inv, Typed
    <2> QED
      BY <1>2, <1>4, <1>5, <2>1, ZenonT(60) DEF Close
  <1>8. Typed' /\ HandsInv' /\ FreshInv'
    BY <1>6, <1>7, FlowRest, ZenonT(60) DEF Inv, Typed, FreshFlow
  <1> QED
    BY <1>5, <1>8, SMTT(60) DEF Inv

LEMMA AcquireTakeKeeps ==
  ASSUME Inv, NEW f \in Flow, NEW s \in Serving \X Proto, AcquireTake(f, s)
  PROVE  Inv'
  <1> DEFINE e == [pc |-> IF standby[s] = None THEN "slot"
                          ELSE IF s[2] = "tcp" THEN "check" ELSE "using",
                   slot |-> s, conn |-> standby[s], stale |-> standby[s] \in gone]
  <1>1. s \in Slot /\ flow[f].conn = None
    BY ServingSlots, SMTT(60) DEF Inv, HandsInv, AcquireTake
  <1>2. /\ standby' = [standby EXCEPT ![s] = None] /\ flow' = [flow EXCEPT ![f] = e]
        /\ UNCHANGED <<open, gone, loop, ensure, dialSem>>
    BY SMTT(60) DEF AcquireTake
  <1>3. e \in FlowRecord /\ e.conn = standby[s] /\ (e.conn # None => e.pc \in {"check", "using"})
    <2>1. standby[s] \in Conn \cup {None}
      BY <1>1, SMTT(60) DEF Inv, Typed
    <2>2. /\ e.pc \in {"slot", "check", "using"} /\ e.conn = standby[s]
          /\ (e.conn # None => e.pc \in {"check", "using"})
      BY SMTT(60)
    <2>3. e \in FlowRecord
      BY <1>1, <2>1 DEF FlowRecord
    <2> QED
      BY <2>2, <2>3, ZenonT(60)
  <1>4. FreshFlow(e)
    <2>1. None \notin gone
      BY NoneIsNoConn DEF Inv, Typed
    <2> QED
      BY <1>2, <2>1, ZenonT(60) DEF FreshFlow
  <1> HIDE DEF e
  <1>5. /\ standby' \in [Slot -> Conn \cup {None}] /\ standby'[s] = None
        /\ \A t \in Slot \ {s} : standby'[t] = standby[t]
    BY <1>1, <1>2 DEF Inv, Typed
  <1>6. /\ Typed' /\ HandsInv' /\ FreshInv'
        /\ flow'[f].conn = standby[s] /\ \A x \in Flow \ {f} : flow'[x].conn = flow[x].conn
    BY <1>2, <1>3, <1>4, <1>5, FlowRest, ZenonT(60) DEF Inv, Typed
  <1>7. \A x \in Holder \ {<<"standby", s>>, <<"flow", f>>} : held'[x] = held[x]
    <2> SUFFICES ASSUME NEW x \in Holder, x # <<"standby", s>>, x # <<"flow", f>>
                 PROVE  held'[x] = held[x]
      BY SMTT(60)
    <2>1. CASE \E t \in Slot : x = <<"standby", t>>
      <3>1. PICK t \in Slot : x = <<"standby", t>>
        BY <2>1
      <3>2. t # s
        BY <3>1, SMTT(60)
      <3> QED
        BY <1>5, <3>1, <3>2, HeldAt, HeldAtNext, SMTT(60)
    <2>2. CASE \E g \in Ensurer : x = <<"ensure", g>>
      <3>1. ensure' = ensure
        BY <1>2, SMTT(60)
      <3> QED
        BY <2>2, <3>1, HeldAt, HeldAtNext, SMTT(60)
    <2>3. CASE \E h \in Flow : x = <<"flow", h>>
      <3>1. PICK h \in Flow : x = <<"flow", h>>
        BY <2>3
      <3>2. h # f
        BY <3>1, SMTT(60)
      <3> QED
        BY <1>6, <3>1, <3>2, HeldAt, HeldAtNext, SMTT(60)
    <2>4. CASE x = <<"loop", 0>>
      <3>1. loop' = loop
        BY <1>2, SMTT(60)
      <3> QED
        BY <2>4, <3>1, HeldAt, HeldAtNext, SMTT(60)
    <2> QED
      BY <2>1, <2>2, <2>3, <2>4, Holders, SMTT(60)
  <1>8. /\ <<"standby", s>> \in Holder /\ <<"flow", f>> \in Holder /\ <<"standby", s>> # <<"flow", f>>
        /\ held[<<"flow", f>>] = None /\ held'[<<"standby", s>>] = None
        /\ held'[<<"flow", f>>] = held[<<"standby", s>>]
    BY <1>1, <1>5, <1>6, HeldAt, HeldAtNext, SMTT(60)
  <1>9. OwnInv'
    BY <1>2, <1>7, <1>8, Moves, SMTT(60) DEF Inv
  <1> QED
    BY <1>6, <1>9, SMTT(60) DEF Inv

\* A standby whose peer was gone cannot pass the check.
LEMMA AcquireCheckKeeps ==
  ASSUME Inv, NEW f \in Flow, AcquireCheck(f)
  PROVE  Inv'
  <1>1. /\ UNCHANGED <<standby, loop, ensure, dialSem>> /\ flow[f].pc = "check"
        /\ flow[f] \in FlowRecord /\ dialSem \in Nat
    BY DEF AcquireCheck, Inv, Typed
  <1>2. CASE TRUE \in wsAliveCheck(flow[f].conn) /\ flow' = [flow EXCEPT ![f].pc = "using"] /\ Keep
    <2> DEFINE e == [flow[f] EXCEPT !.pc = "using"]
    <2>1. flow[f].conn \notin gone
      BY <1>2, ZenonT(60) DEF wsAliveCheck
    <2>2. e \in FlowRecord /\ e.pc = "using" /\ e.conn = flow[f].conn /\ e.stale = flow[f].stale
      BY <1>1 DEF FlowRecord
    <2>3. flow' = [flow EXCEPT ![f] = e]
      BY <1>2, SMTT(60) DEF Inv, Typed
    <2> HIDE DEF e
    <2>4. ~e.stale
      BY <1>1, <2>1, <2>2, SMTT(60) DEF Inv, FreshInv
    <2>5. FreshFlow(e)
      BY <2>2, <2>4 DEF FreshFlow
    <2> QED
      BY <1>1, <1>2, <2>2, <2>3, <2>5, FlowQuiet, ZenonT(60) DEF Keep
  <1>3. CASE /\ flow' = [flow EXCEPT ![f] = [IdleFlow EXCEPT !.pc = "slot", !.slot = flow[f].slot]]
             /\ Close(flow[f].conn)
    <2> DEFINE e == [IdleFlow EXCEPT !.pc = "slot", !.slot = flow[f].slot]
    <2>1. e \in FlowRecord /\ e.pc = "slot" /\ e.conn = None /\ ~e.stale
      BY <1>1, IdleFlowTyped, ZenonT(60) DEF FlowRecord
    <2>2. flow' = [flow EXCEPT ![f] = e]
      BY <1>3
    <2> HIDE DEF e
    <2> QED
      BY <1>1, <1>3, <2>1, <2>2, FlowCloses, ZenonT(60)
  <1> QED
    BY <1>2, <1>3, ZenonT(60) DEF AcquireCheck

LEMMA FlowDialKeeps ==
  ASSUME Inv, NEW f \in Flow, FlowDial(f)
  PROVE  Inv'
  <1>1. /\ UNCHANGED <<standby, loop, ensure>> /\ dialSem' \in Nat /\ flow[f] \in FlowRecord
        /\ flow[f].conn = None /\ ~flow[f].stale
    BY DEF FlowDial, Inv, Typed, HandsInv, FreshInv
  <1>2. ASSUME NEW c \in Conn, Dialled(c), flow' = [flow EXCEPT ![f].pc = "using", ![f].conn = c]
        PROVE  Inv'
    <2> DEFINE e == [flow[f] EXCEPT !.pc = "using", !.conn = c]
    <2>1. e \in FlowRecord /\ e.conn = c /\ e.pc = "using" /\ e.stale = flow[f].stale
      BY <1>1, ZenonT(60) DEF FlowRecord
    <2>2. flow' = [flow EXCEPT ![f] = e]
      BY <1>2, ZenonT(60) DEF Inv, Typed
    <2> HIDE DEF e
    <2>3. c \notin open /\ open' = open \cup {c} /\ gone' = gone
      BY <1>2, SMTT(60) DEF Dialled
    <2>4. FreshFlow(e)
      BY <1>1, <2>1, SMTT(60) DEF FreshFlow
    <2>5. /\ Typed' /\ HandsInv' /\ FreshInv' /\ flow'[f].conn = c
          /\ \A x \in Flow \ {f} : flow'[x].conn = flow[x].conn
      BY <1>1, <2>1, <2>2, <2>3, <2>4, FlowRest, ZenonT(60) DEF Inv, Typed
    <2>6. \A x \in Holder \ {<<"flow", f>>} : held'[x] = held[x]
      BY <1>1, <2>5, Holders, HeldAt, HeldAtNext, SMTT(60)
    <2>7. <<"flow", f>> \in Holder /\ held[<<"flow", f>>] = None /\ held'[<<"flow", f>>] = c
      BY <1>1, <2>5, HeldAt, HeldAtNext, SMTT(60)
    <2>8. OwnInv'
      BY <2>3, <2>6, <2>7, Gets, SMTT(60) DEF Inv
    <2> QED
      BY <2>5, <2>8 DEF Inv
  <1>3. CASE Keep /\ flow' = [flow EXCEPT ![f] = IdleFlow]
    BY <1>1, <1>3, IdleFlowTyped, FlowQuiet, ZenonT(60) DEF Keep, FreshFlow
  <1> QED
    BY <1>2, <1>3, SMTT(60) DEF FlowDial

LEMMA FlowKeeps ==
  ASSUME Inv, NEW f \in Flow, FlowStep(f)
  PROVE  Inv'
  <1>1. flow[f] \in FlowRecord /\ dialSem \in Nat
    BY DEF Inv, Typed
  <1>2. CASE acquireDialSlot(f)
    <2>1. UNCHANGED <<standby, open, gone, loop, ensure>> /\ flow[f].conn = None /\ ~flow[f].stale
      BY <1>2, SMTT(60) DEF acquireDialSlot, Inv, HandsInv, FreshInv
    <2>2. CASE dialSem' = dialSem + 1 /\ flow' = [flow EXCEPT ![f].pc = "dial"]
      <3> DEFINE e == [flow[f] EXCEPT !.pc = "dial"]
      <3>1. e \in FlowRecord /\ e.pc = "dial" /\ e.conn = None /\ ~e.stale
        BY <1>1, <2>1 DEF FlowRecord
      <3>2. flow' = [flow EXCEPT ![f] = e]
        BY <2>2 DEF Inv, Typed
      <3> HIDE DEF e
      <3>3. FreshFlow(e) /\ dialSem' \in Nat
        BY <1>1, <2>2, <3>1, SMTT(60) DEF FreshFlow
      <3> QED
        BY <2>1, <3>1, <3>2, <3>3, FlowQuiet, ZenonT(60)
    <2>3. CASE UNCHANGED dialSem /\ flow' = [flow EXCEPT ![f] = IdleFlow]
      BY <1>1, <2>1, <2>3, IdleFlowTyped, FlowQuiet, ZenonT(60) DEF FreshFlow
    <2> QED
      BY <1>2, <2>2, <2>3, SMTT(60) DEF acquireDialSlot
  <1>3. CASE FlowEnd(f)
    BY <1>3, IdleFlowTyped, FlowCloses, ZenonT(60) DEF FlowEnd
  <1> QED
    BY <1>2, <1>3, AcquireTakeKeeps, AcquireCheckKeeps, FlowDialKeeps, SMTT(60) DEF FlowStep

-----------------------------------------------------------------------------
(* The invariant.                                                          *)

LEMMA StandbyInit == Init => Inv /\ SlotsInv
  <1> SUFFICES ASSUME Init PROVE Inv /\ SlotsInv
    OBVIOUS
  <1>1. Waiting \in LoopRecord /\ Waiting.conn = None /\ Waiting.pc = "select" /\ Waiting.i = 1
    BY Lengths, SMTT(60) DEF Waiting, LoopRecord
  <1>2. Typed
    BY <1>1, IdleTyped, IdleFlowTyped, SMTT(60) DEF Init, Typed
  <1>3. HandsInv
    BY <1>1, IdleTyped, IdleFlowTyped, SMTT(60) DEF Init, HandsInv
  <1>4. \A x \in Holder : held[x] = None
    BY <1>1, IdleTyped, IdleFlowTyped, Holders, HeldAt, SMTT(60) DEF Init
  <1>5. OwnInv
    BY <1>4, SMTT(60) DEF Init, OwnInv, One
  <1>6. FreshInv
    BY IdleFlowTyped, SMTT(60) DEF Init, FreshInv
  <1>7. SlotsInv
    <2>1. Dialling = {}
      BY IdleFlowTyped DEF Init, Dialling
    <2> QED
      BY <2>1, FS_EmptySet, StandbyAssumption, SMTT(60) DEF Init, SlotsInv
  <1> QED
    BY <1>2, <1>3, <1>5, <1>6, <1>7, SMTT(60) DEF Inv

LEMMA StandbyStep == Inv /\ [Next]_vars => Inv'
  <1> SUFFICES ASSUME Inv, [Next]_vars PROVE Inv'
    OBVIOUS
  <1>1. CASE LoopStep
    BY <1>1, WarmTickKeeps, KeepaliveTakeKeeps, KeepaliveCheckKeeps, KeepalivePutKeeps,
       CloseUpstreamKeeps, SMTT(60), SMTT(60) DEF LoopStep
  <1>2. ASSUME NEW g \in Ensurer, EnsureStep(g) PROVE Inv'
    BY <1>2, EnsureKeeps
  <1>3. ASSUME NEW f \in Flow, FlowStep(f) PROVE Inv'
    BY <1>3, FlowKeeps, SMTT(60)
  <1>4. ASSUME UNCHANGED <<standby, open, loop, ensure, flow, dialSem>>,
               gone \subseteq gone', gone' \subseteq open
        PROVE  Inv'
    <2>1. Typed' /\ HandsInv'
      BY <1>4, SMTT(60) DEF Inv, Typed, HandsInv
    <2>2. \A x \in Holder : held'[x] = held[x]
      BY <1>4, Holders, HeldAt, HeldAtNext, SMTT(60)
    <2> QED
      BY <1>4, <2>1, <2>2, Stays, FreshOthers, SMTT(60) DEF Inv
  <1>5. ASSUME NEW c \in Conn, PeerGone(c) PROVE Inv'
    BY <1>4, <1>5, SMTT(60) DEF PeerGone, Inv, Typed
  <1>6. CASE (\E e \in Endpoint : ChangeStatus(e)) \/ Shutdown \/ UNCHANGED vars
    BY <1>4, <1>6, SMTT(60) DEF ChangeStatus, Shutdown, vars, Inv, Typed
  <1> QED
    BY <1>1, <1>2, <1>3, <1>5, <1>6, SMTT(60) DEF Next

LEMMA SameDialling ==
  ASSUME SlotsInv, dialSem' = dialSem, \A f \in Flow : flow'[f].pc = "dial" <=> flow[f].pc = "dial"
  PROVE  SlotsInv'
  <1>1. Dialling' = Dialling
    BY DEF Dialling
  <1> QED
    BY <1>1 DEF SlotsInv

LEMMA DiallingFinite == IsFiniteSet(Dialling) /\ Cardinality(Dialling) \in Nat
  <1>1. Dialling \in SUBSET Flow
    BY DEF Dialling
  <1> QED
    BY <1>1, StandbyAssumption, FS_Subset, FS_CardinalityType, SMTT(60)

\* A token is taken when a flow begins to dial and given back when the dial is over.
LEMMA SlotsStep == Inv /\ SlotsInv /\ [Next]_vars => SlotsInv'
  <1> SUFFICES ASSUME Inv, SlotsInv, [Next]_vars PROVE SlotsInv'
    OBVIOUS
  <1>1. ASSUME NEW f \in Flow, acquireDialSlot(f) PROVE SlotsInv'
    <2>1. CASE dialSem < DialLimit /\ dialSem' = dialSem + 1 /\ flow' = [flow EXCEPT ![f].pc = "dial"]
      <3>1. f \notin Dialling
        BY <1>1 DEF acquireDialSlot, Dialling
      <3>2. Dialling' = Dialling \cup {f}
        BY <2>1 DEF Dialling, Inv, Typed, FlowRecord
      <3>3. Cardinality(Dialling \cup {f}) = Cardinality(Dialling) + 1
        BY <3>1, DiallingFinite, FS_AddElement, ZenonT(60)
      <3> QED
        BY <2>1, <3>2, <3>3, DiallingFinite, StandbyAssumption, SMTT(60) DEF SlotsInv
    <2>2. CASE UNCHANGED dialSem /\ flow' = [flow EXCEPT ![f] = IdleFlow]
      BY <1>1, <2>2, IdleFlowTyped, SameDialling, SMTT(60) DEF acquireDialSlot, Inv, Typed
    <2> QED
      BY <1>1, <2>1, <2>2, SMTT(60) DEF acquireDialSlot
  <1>2. ASSUME NEW f \in Flow, FlowDial(f) PROVE SlotsInv'
    <2>1. f \in Dialling
      BY <1>2 DEF FlowDial, Dialling
    <2>2. /\ \A x \in Flow \ {f} : flow'[x] = flow[x]
          /\ flow'[f].pc \in {"using", "idle"}
      BY <1>2, IdleFlowTyped, SMTT(60) DEF FlowDial, Inv, Typed, FlowRecord
    <2>3. Dialling' = Dialling \ {f}
      BY <2>2, SMTT(60) DEF Dialling
    <2>4. Cardinality(Dialling \ {f}) = Cardinality(Dialling) - 1 /\ Cardinality(Dialling \ {f}) \in Nat
      BY <2>1, DiallingFinite, FS_RemoveElement, FS_CardinalityType, SMTT(60)
    <2>5. dialSem' = dialSem - 1
      BY <1>2, <2>4, DiallingFinite, SMTT(60) DEF FlowDial, SlotsInv
    <2> QED
      BY <2>3, <2>4, <2>5, DiallingFinite, StandbyAssumption, SMTT(60) DEF SlotsInv
  <1>3. ASSUME NEW f \in Flow, (\E s \in Serving \X Proto : AcquireTake(f, s)) \/ AcquireCheck(f) \/ FlowEnd(f)
        PROVE  SlotsInv'
    <2>1. /\ dialSem' = dialSem /\ flow[f].pc # "dial"
          /\ \A x \in Flow \ {f} : flow'[x] = flow[x]
      BY <1>3, SMTT(60) DEF AcquireTake, AcquireCheck, FlowEnd, Inv, Typed
    <2>2. flow'[f].pc # "dial"
      <3>1. flow \in [Flow -> FlowRecord] /\ flow[f] \in FlowRecord
        BY SMTT(60) DEF Inv, Typed
      <3>2. ASSUME NEW s \in Serving \X Proto, AcquireTake(f, s) PROVE flow'[f].pc # "dial"
        BY <3>1, <3>2 DEF AcquireTake
      <3>3. CASE AcquireCheck(f)
        <4>1. [IdleFlow EXCEPT !.pc = "slot", !.slot = flow[f].slot].pc = "slot"
          BY IdleFlowTyped DEF FlowRecord
        <4>2. [flow[f] EXCEPT !.pc = "using"].pc = "using"
          BY <3>1 DEF FlowRecord
        <4> QED
          BY <3>1, <3>3, <4>1, <4>2, ZenonT(60) DEF AcquireCheck
      <3>4. CASE FlowEnd(f)
        BY <3>1, <3>4, IdleFlowTyped, SMTT(60) DEF FlowEnd
      <3> QED
        BY <1>3, <3>2, <3>3, <3>4, SMTT(60)
    <2> QED
      BY <2>1, <2>2, SameDialling, SMTT(60)
  <1>4. CASE UNCHANGED <<flow, dialSem>>
    BY <1>4, SameDialling
  <1>5. ASSUME ~UNCHANGED <<flow, dialSem>> PROVE \E f \in Flow : FlowStep(f)
    BY <1>5, ZenonT(60) DEF Next, vars, LoopStep, WarmTick, KeepaliveTake, KeepaliveCheck, KeepalivePut,
       CloseUpstream, EnsureStep, EnsureStatus, EnsureReset, EnsureExists, EnsureDial, EnsureStore,
       ChangeStatus, PeerGone, Shutdown
  <1> QED
    BY <1>1, <1>2, <1>3, <1>4, <1>5, SMTT(60) DEF FlowStep

-----------------------------------------------------------------------------
LEMMA OwnersCounted == Inv => ExactlyOneOwner
  <1> SUFFICES ASSUME Inv, NEW c \in Conn
               PROVE  Cardinality(Owners(c)) = IF c \in open THEN 1 ELSE 0
    BY DEF ExactlyOneOwner
  <1>1. c # None
    BY NoneIsNoConn, SMTT(60)
  <1>2. \A o : o \in Owners(c) <=>
          \/ \E s \in Slot : o = <<"standby", s>> /\ standby[s] = c
          \/ \E g \in Ensurer : o = <<"ensure", g>> /\ ensure[g].conn = c
          \/ \E f \in Flow : o = <<"flow", f>> /\ flow[f].conn = c
          \/ o = <<"loop", c>> /\ loop.conn = c
    BY DEF Owners
  <1>3. CASE c \in open
    <2>1. PICK a \in Holder : held[a] = c
      BY <1>3, SMTT(60) DEF Inv, OwnInv, One
    <2>2. \A x \in Holder : held[x] = c => x = a
      BY <1>1, <2>1 DEF Inv, OwnInv, One
    <2>3. \E o : Owners(c) = {o}
      <3>1. CASE a = <<"loop", 0>>
        <4>1. \A o : o \in Owners(c) <=> o = <<"loop", c>>
          <5>1. \A s \in Slot : <<"standby", s>> # a
            BY <3>1
          <5>2. \A g \in Ensurer : <<"ensure", g>> # a
            BY <3>1
          <5>3. \A f \in Flow : <<"flow", f>> # a
            BY <3>1, SMTT(60)
          <5>4. loop.conn = c
            BY <2>1, <3>1, HeldAt, SMTT(60)
          <5> QED
            BY <1>2, <2>2, <5>1, <5>2, <5>3, <5>4, HeldAt, SMTT(60)
        <4>2. Owners(c) = {<<"loop", c>>}
          BY <4>1, Zenon
        <4> QED
          BY <4>2, ZenonT(60)
      <3>2. CASE a # <<"loop", 0>>
        <4>1. a \in Owners(c)
          BY <1>2, <2>1, <3>2, Holders, HeldAt, SMTT(60)
        <4>2. ASSUME NEW o \in Owners(c) PROVE o = a
          <5>1. loop.conn # c
            BY <2>2, <3>2, HeldAt, SMTT(60)
          <5>2. o \in Holder /\ held[o] = c
            BY <1>2, <5>1, HeldAt, SMTT(60)
          <5> QED
            BY <2>2, <5>2, SMTT(60)
        <4> QED
          BY <4>1, <4>2, SMTT(60)
      <3> QED
        BY <3>1, <3>2, ZenonT(60)
    <2> QED
      BY <1>3, <2>3, FS_Singleton, ZenonT(60)
  <1>4. CASE c \notin open
    <2>1. \A x \in Holder : held[x] # c
      BY <1>1, <1>4, SMTT(60) DEF Inv, OwnInv, One
    <2>2. Owners(c) = {}
      BY <1>2, <2>1, HeldAt
    <2> QED
      BY <1>4, <2>2, FS_EmptySet, SMTT(60)
  <1> QED
    BY <1>3, <1>4

\* However many flows, Ensure goroutines and upstreams there are, a connection that
\* is open belongs to exactly one of them, and one that is closed to none
\* (warm_standby.go: the swaps under standbyMu).
THEOREM SingleOwner == Spec => []ExactlyOneOwner
  BY StandbyInit, StandbyStep, OwnersCounted, PTL DEF Spec

\* No TCP flow is ever handed a standby whose peer was gone when it asked
\* (acquireTCPWS).  It rests on ownership: nobody else closes what a flow is checking.
THEOREM FreshStandby == Spec => []FreshHandoff
  <1>1. Inv => FreshHandoff
    BY DEF Inv, FreshInv, FreshHandoff
  <1> QED
    BY <1>1, StandbyInit, StandbyStep, PTL DEF Spec

\* The dial limit is kept, token by token, for any number of flows and any limit
\* (acquireDialSlot and releaseDialSlot, lb.go).
THEOREM DialLimitKept == Spec => []DialSlotsExact
  <1>1. SlotsInv => DialSlotsExact
    BY DEF SlotsInv, Dialling, DialSlotsExact
  <1> QED
    BY <1>1, StandbyInit, StandbyStep, SlotsStep, PTL DEF Spec
=============================================================================
