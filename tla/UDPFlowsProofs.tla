--------------------------- MODULE UDPFlowsProofs ---------------------------
(***************************************************************************)
(* Theorems about UDPFlows, for any number of ports and destinations and   *)
(* any limits: no session is leaked, and every subscription is served by   *)
(* exactly one reply goroutine.                                            *)
(***************************************************************************)
EXTENDS UDPFlows, FiniteSetTheorems, WellFoundedInduction, TLAPS

HandlerPc == {"idle", "dial", "insert", "subscribe", "send", "touch", "touchPort", "serve", "cleanup", "unsub"}
ReplyPc   == {"wait", "write", "touch", "touchPort", "unsub"}
ReplyRecord == [pc : ReplyPc, sess : Sess, of : Handler, ch : Chan, orphan : BOOLEAN]

Typed ==
  /\ ports \in [Port -> Sess \cup {None}]
  /\ flows \in [Sess -> [Dst -> Mark \cup {"none"}]]
  /\ conn \in [Sess -> {"open", "dead", "closed"}]
  /\ subs \in [Sess -> [Dst -> Chan \cup {None}]]
  /\ handler \in [Handler -> [pc : HandlerPc, sess : Sess \cup {None}]]
  /\ \A h \in Handler : handler[h].pc \notin {"idle", "dial"} => handler[h].sess \in Sess
  /\ reply \in [Reply -> ReplyRecord \cup {NoReply}]
  /\ toClose \subseteq Sess

\* The table and the handlers of one port only refer to a session.
Refers(p, s) == ports[p] = s \/ \E h \in Handler : h[1] = p /\ handler[h].sess = s

OnePort == \A s \in Sess : \A p, q \in Port : Refers(p, s) /\ Refers(q, s) => p = q

\* A destination that is still subscribed although the session has forgotten it is
\* about to be unsubscribed by its own handler.
Forgotten ==
  \A s \in Sess, d \in Dst : flows[s][d] = "none" /\ subs[s][d] # None =>
    \E h \in Handler : handler[h].pc = "unsub" /\ handler[h].sess = s /\ h[2] = d

\* SubscribedOnce without counting.
Serves(r, s, d) == reply[r].ch = subs[s][d] /\ reply[r].sess = s /\ reply[r].of[2] = d
Served ==
  \A s \in Sess, d \in Dst : subs[s][d] # None =>
    \E r \in Reply : Serves(r, s, d) /\ \A q \in Reply : reply[q].ch = subs[s][d] => q = r

Inv == Typed /\ NoSessionLeak /\ OnePort /\ Forgotten /\ Served

-----------------------------------------------------------------------------
(* Facts about the operators.                                              *)

\* A nonempty set of numbers contains its minimum.
LEMMA MinMember ==
  ASSUME NEW S \in SUBSET Nat, S # {}
  PROVE  Min(S) \in S
<1> DEFINE R == OpToRel(<, Nat)
<1>1. PICK x \in S : \A y \in S : ~(<<y, x>> \in R)
  <2>1. IsWellFoundedOn(R, Nat)
    BY NatLessThanWellFounded, Zenon
  <2> HIDE DEF R
  <2> QED  BY <2>1, WFMin, ZenonT(60)
<1>2. \A y \in S : x =< y
  <2> TAKE y \in S
  <2>1. x \in Nat /\ y \in Nat
    OBVIOUS
  <2>2. ~(y < x)
    BY <1>1, <2>1, ZenonT(60) DEF OpToRel
  <2> QED  BY <2>1, <2>2
<1> QED  BY <1>2, ZenonT(60) DEF Min

\* No identifier is None.
LEMMA Identifiers == /\ Sess \subseteq Nat /\ Chan \subseteq Nat /\ Reply \subseteq Nat
                     /\ None \notin Sess /\ None \notin Chan
BY UDPAssumption DEF Sess, Chan, Reply, None

\* A running reply goroutine has a full record.
LEMMA Running ==
  ASSUME Typed, NEW r \in Reply, reply[r].pc # "free"
  PROVE  reply[r] \in ReplyRecord
BY DEF Typed, NoReply

\* One that is not running has no channel.
LEMMA Unused ==
  ASSUME Typed, NEW r \in FreeReply
  PROVE  r \in Reply /\ reply[r].ch = None
<1>1. r \in Reply /\ reply[r].pc = "free" /\ reply[r] \in ReplyRecord \cup {NoReply}
  BY DEF FreeReply, Typed
<1>2. reply[r] \notin ReplyRecord
  BY <1>1 DEF ReplyRecord, ReplyPc
<1> QED  BY <1>1, <1>2 DEF NoReply

\* The handler that is about to unsubscribe a forgotten destination.
LEMMA Leaver ==
  ASSUME Forgotten, NEW s \in Sess, NEW d \in Dst, flows[s][d] = "none", subs[s][d] # None
  PROVE  \E h \in Handler : handler[h].pc = "unsub" /\ handler[h].sess = s /\ h[2] = d
BY DEF Forgotten

\* Without new references the sessions keep belonging to one port.
LEMMA OnePortKept ==
  ASSUME OnePort, \A p \in Port, s \in Sess : Refers(p, s)' => Refers(p, s)
  PROVE  OnePort'
BY DEF OnePort

LEMMA SameReferences ==
  ASSUME OnePort, UNCHANGED <<ports, handler>>
  PROVE  OnePort'
<1>1. \A p \in Port, s \in Sess : Refers(p, s)' => Refers(p, s)
  BY DEF Refers
<1> QED  BY <1>1, OnePortKept

\* Nor is a session leaked if nothing but the connections that close changes.
LEMMA NoLeakKept ==
  ASSUME NoSessionLeak, UNCHANGED <<ports, handler>>,
         \A s \in Sess : conn'[s] # "closed" => conn[s] # "closed" /\ (s \in toClose => s \in toClose')
  PROVE  NoSessionLeak'
BY DEF NoSessionLeak

\* Subscriptions that are removed may lose their reply goroutines.
LEMMA ServedKept ==
  ASSUME Typed, Served, NEW Gone,
         \A s \in Sess, d \in Dst : subs'[s][d] # None => subs'[s][d] = subs[s][d],
         \A r \in Reply \ Gone : /\ reply'[r].ch = reply[r].ch /\ reply'[r].sess = reply[r].sess
                                 /\ reply'[r].of = reply[r].of,
         \A r \in Reply \cap Gone : reply'[r].ch = None,
         \A r \in Reply \cap Gone, s \in Sess, d \in Dst : Serves(r, s, d) => subs'[s][d] = None
  PROVE  Served'
<1> SUFFICES ASSUME NEW s \in Sess, NEW d \in Dst, subs'[s][d] # None
             PROVE  \E r \in Reply : Serves(r, s, d)' /\ \A q \in Reply : reply'[q].ch = subs'[s][d] => q = r
  BY DEF Served
<1>1. subs'[s][d] = subs[s][d]
  OBVIOUS
<1>2. PICK r \in Reply : Serves(r, s, d) /\ \A q \in Reply : reply[q].ch = subs[s][d] => q = r
  BY <1>1 DEF Served
<1>3. r \notin Gone
  BY <1>2
<1>4. Serves(r, s, d)'
  BY <1>1, <1>2, <1>3 DEF Serves
<1>5. ASSUME NEW q \in Reply, reply'[q].ch = subs'[s][d] PROVE q = r
  BY <1>1, <1>2, <1>5
<1> QED  BY <1>4, <1>5

\* No destination is forgotten.
FlowsKept == /\ flows' \in [Sess -> [Dst -> Mark \cup {"none"}]]
             /\ \A s \in Sess, d \in Dst : flows'[s][d] = "none" => flows[s][d] = "none"

\* The subscriptions only shrink.
SubsShrink == /\ subs' \in [Sess -> [Dst -> Chan \cup {None}]]
              /\ \A s \in Sess, d \in Dst : subs'[s][d] # None => subs'[s][d] = subs[s][d]

\* The reply goroutines keep their channels.
RepliesKept == /\ reply' \in [Reply -> ReplyRecord \cup {NoReply}]
               /\ \A r \in Reply : /\ reply'[r].ch = reply[r].ch /\ reply'[r].sess = reply[r].sess
                                   /\ reply'[r].of = reply[r].of

LEMMA SameSubs ==
  ASSUME Typed, UNCHANGED subs
  PROVE  SubsShrink
BY DEF Typed, SubsShrink

LEMMA SameReplies ==
  ASSUME Typed, UNCHANGED reply
  PROVE  RepliesKept
BY DEF Typed, RepliesKept

\* Both together keep every remaining subscription served.
LEMMA StillServed ==
  ASSUME Served, SubsShrink, RepliesKept
  PROVE  Served'
<1> SUFFICES ASSUME NEW s \in Sess, NEW d \in Dst, subs'[s][d] # None
             PROVE  \E r \in Reply : Serves(r, s, d)' /\ \A q \in Reply : reply'[q].ch = subs'[s][d] => q = r
  BY DEF Served
<1>1. subs'[s][d] = subs[s][d]
  BY DEF SubsShrink
<1>2. PICK r \in Reply : Serves(r, s, d) /\ \A q \in Reply : reply[q].ch = subs[s][d] => q = r
  BY <1>1 DEF Served
<1>3. Serves(r, s, d)'
  BY <1>1, <1>2 DEF Serves, RepliesKept
<1>4. \A q \in Reply : reply'[q].ch = subs'[s][d] => q = r
  BY <1>1, <1>2 DEF RepliesKept
<1> QED  BY <1>3, <1>4

\* The handlers that are about to unsubscribe are still there.
LEMMA ForgottenKept ==
  ASSUME Forgotten, UNCHANGED handler, FlowsKept, SubsShrink
  PROVE  Forgotten'
<1> SUFFICES ASSUME NEW s \in Sess, NEW d \in Dst, flows'[s][d] = "none", subs'[s][d] # None
             PROVE  \E h \in Handler : handler'[h].pc = "unsub" /\ handler'[h].sess = s /\ h[2] = d
  BY DEF Forgotten
<1>1. flows[s][d] = "none"
  BY DEF FlowsKept
<1>2. subs[s][d] # None
  BY DEF SubsShrink
<1> QED  BY <1>1, <1>2, Leaver

-----------------------------------------------------------------------------
(* The three kinds of steps that leave the subscriptions alone.            *)

\* A handler moves on: with the session it has, or with the one of its port.
LEMMA HandlerMoves ==
  ASSUME Inv, NEW h \in Handler, NEW pc \in HandlerPc, NEW t \in Sess \cup {None},
         Goto(h, pc, t),
         handler[h].pc \notin {"insert", "unsub"},
         t = handler[h].sess \/ t = ports[h[1]] \/ t = None,
         pc \notin {"idle", "dial"} => t \in Sess,
         UNCHANGED <<ports, conn, subs, reply, toClose>>,
         flows' \in [Sess -> [Dst -> Mark \cup {"none"}]],
         \A s \in Sess, d \in Dst :
           flows'[s][d] = "none" => flows[s][d] = "none" \/ (pc = "unsub" /\ s = t /\ d = h[2])
  PROVE  Inv'
<1>1. Typed'
  BY DEF Inv, Typed, Goto
<1>2. /\ handler'[h].pc = pc /\ handler'[h].sess = t
      /\ \A g \in Handler : g # h => handler'[g] = handler[g]
  BY DEF Inv, Typed, Goto
<1>3. NoSessionLeak'
  BY <1>2 DEF Inv, NoSessionLeak
<1>4. OnePort'
  <2> SUFFICES ASSUME NEW p \in Port, NEW s \in Sess, Refers(p, s)' PROVE Refers(p, s)
    BY OnePortKept DEF Inv
  <2>1. CASE ports'[p] = s
    BY <2>1 DEF Refers
  <2>2. ASSUME NEW g \in Handler, g[1] = p, handler'[g].sess = s PROVE Refers(p, s)
    BY Identifiers, <1>2, <2>2, SMTT(60) DEF Refers
  <2> QED  BY <2>1, <2>2 DEF Refers
<1>5. Forgotten'
  <2> SUFFICES ASSUME NEW s \in Sess, NEW d \in Dst, flows'[s][d] = "none", subs'[s][d] # None
               PROVE  \E g \in Handler : handler'[g].pc = "unsub" /\ handler'[g].sess = s /\ g[2] = d
    BY DEF Forgotten
  <2>1. CASE flows[s][d] = "none"
    <3>1. PICK g \in Handler : handler[g].pc = "unsub" /\ handler[g].sess = s /\ g[2] = d
      BY <2>1, Leaver, SMTT(60) DEF Inv
    <3> QED  BY <1>2, <3>1, SMTT(60)
  <2>2. CASE pc = "unsub" /\ s = t /\ d = h[2]
    BY <1>2, <2>2
  <2> QED  BY <2>1, <2>2, SMTT(60)
<1>6. Served'
  BY SameSubs, SameReplies, StillServed, SMTT(60) DEF Inv
<1> QED  BY <1>1, <1>3, <1>4, <1>5, <1>6, SMTT(60) DEF Inv

\* A reply goroutine moves on.
LEMMA ReplyMoves ==
  ASSUME Inv, NEW r \in Reply, reply[r].pc # "free", NEW pc \in ReplyPc,
         ReplyGoto(r, pc), FlowsKept,
         UNCHANGED <<ports, conn, subs, handler, toClose>>
  PROVE  Inv'
<1>1. reply[r] \in ReplyRecord
  BY Running DEF Inv
<1>2. reply' \in [Reply -> ReplyRecord \cup {NoReply}]
  <2>1. reply \in [Reply -> ReplyRecord \cup {NoReply}]
    BY DEF Inv, Typed
  <2>2. PICK x \in ReplyRecord : x = [reply[r] EXCEPT !.pc = pc]
    BY <1>1, ZenonT(60) DEF ReplyRecord
  <2>3. reply' = [reply EXCEPT ![r] = x]
    BY <2>2 DEF ReplyGoto
  <2> QED  BY <2>1, <2>3
<1>3. \A q \in Reply : /\ reply'[q].ch = reply[q].ch /\ reply'[q].sess = reply[q].sess
                       /\ reply'[q].of = reply[q].of
  BY <1>1 DEF Inv, Typed, ReplyGoto, ReplyRecord
<1>4. Typed'
  BY <1>2, SMTT(60) DEF Inv, Typed, FlowsKept
<1>5. NoSessionLeak' /\ OnePort'
  BY NoLeakKept, SameReferences, SMTT(60) DEF Inv
<1>6. Forgotten'
  BY SameSubs, ForgottenKept, SMTT(60) DEF Inv
<1>7. Served'
  BY <1>2, <1>3, SameSubs, StillServed DEF Inv, RepliesKept
<1> QED  BY <1>4, <1>5, <1>6, <1>7, SMTT(60) DEF Inv

\* The upstream or the clock moves on.
LEMMA OthersMove ==
  ASSUME Inv, FlowsKept, UNCHANGED <<ports, subs, handler, reply, toClose>>,
         conn' \in [Sess -> {"open", "dead", "closed"}],
         \A s \in Sess : conn'[s] # "closed" => conn[s] # "closed"
  PROVE  Inv'
<1>1. Typed'
  BY DEF Inv, Typed, FlowsKept
<1>2. NoSessionLeak' /\ OnePort'
  BY NoLeakKept, SameReferences DEF Inv
<1>3. Forgotten' /\ Served'
  BY SameSubs, SameReplies, ForgottenKept, StillServed, SMTT(60) DEF Inv
<1> QED  BY <1>1, <1>2, <1>3, SMTT(60) DEF Inv

-----------------------------------------------------------------------------
(* What Close, Unsubscribe and a return of the handler leave alone.        *)

LEMMA Closing ==
  ASSUME Typed, NEW s \in Sess, CloseSess(s)
  PROVE  /\ SubsShrink
         /\ conn' \in [Sess -> {"open", "dead", "closed"}]
         /\ \A x \in Sess : conn'[x] # "closed" => x # s /\ conn[x] # "closed"
BY Identifiers DEF Typed, CloseSess, SubsShrink

LEMMA Unsubscribing ==
  ASSUME Typed, NEW K, Unsubscribe(K)
  PROVE  /\ SubsShrink /\ conn' = conn
         /\ \A s \in Sess, d \in Dst : <<s, d>> \in K => subs'[s][d] = None
BY Identifiers DEF Typed, Unsubscribe, SubsShrink

LEMMA Returning ==
  ASSUME Typed, NEW h \in Handler, handler[h].sess \in Sess, Return(h)
  PROVE  RepliesKept
<1>1. ASSUME NEW r \in Reply
      PROVE  /\ reply'[r] \in ReplyRecord \cup {NoReply}
             /\ reply'[r].ch = reply[r].ch /\ reply'[r].sess = reply[r].sess /\ reply'[r].of = reply[r].of
  <2>1. CASE reply[r] = NoReply
    <3>1. reply[r].sess # handler[h].sess
      BY <2>1, Identifiers DEF NoReply
    <3> QED  BY <2>1, <3>1 DEF Return
  <2>2. CASE reply[r] \in ReplyRecord
    BY <2>2, ZenonT(60) DEF Return, ReplyRecord
  <2> QED  BY <2>1, <2>2 DEF Typed
<1>2. reply' \in [Reply -> ReplyRecord \cup {NoReply}]
  BY <1>1 DEF Return
<1> QED  BY <1>1, <1>2, SMTT(60) DEF RepliesKept

-----------------------------------------------------------------------------
(* The handler.                                                            *)

LEMMA LookupKeeps == ASSUME Inv, NEW h \in Handler, Lookup(h) PROVE Inv'
<1>1. h[1] \in Port /\ ports[h[1]] \in Sess \cup {None} /\ flows' \in [Sess -> [Dst -> Mark \cup {"none"}]]
  BY DEF Handler, Inv, Typed, Lookup
<1>2. UNCHANGED <<ports, conn, subs, reply, toClose, flows>> /\ handler[h].pc = "idle"
  BY DEF Lookup, sessVars
<1>3. CASE ports[h[1]] # None /\ Goto(h, "subscribe", ports[h[1]])
  BY <1>1, <1>2, <1>3, HandlerMoves, ZenonT(60) DEF HandlerPc
<1>4. CASE Goto(h, "dial", None)
  BY <1>1, <1>2, <1>4, HandlerMoves, ZenonT(60) DEF HandlerPc
<1> QED  BY <1>3, <1>4 DEF Lookup

\* A session identifier that is free for a new dial is not in use anywhere.
LEMMA FreeSessions ==
  ASSUME Inv, NEW s \in FreeSess
  PROVE  /\ s \in Sess /\ conn[s] = "closed" /\ ~(\E p \in Port : Refers(p, s))
         /\ \A d \in Dst : subs[s][d] = None
<1>1. /\ s \in Sess /\ conn[s] = "closed"
      /\ \A p \in Port : ports[p] # s
      /\ \A h \in Handler : handler[h].sess # s
      /\ \A r \in Reply : reply[r].sess # s
  BY DEF FreeSess
<1>2. ASSUME NEW p \in Port, Refers(p, s) PROVE FALSE
  BY <1>1, <1>2 DEF Refers
<1>3. ASSUME NEW d \in Dst, subs[s][d] # None PROVE FALSE
  <2>1. Served
    BY DEF Inv
  <2>2. PICK r \in Reply : Serves(r, s, d)
    BY <1>1, <1>3, <2>1, SMTT(60) DEF Served
  <2> QED  BY <1>1, <2>2 DEF Serves
<1> QED  BY <1>1, <1>2, <1>3

LEMMA DialKeeps == ASSUME Inv, NEW h \in Handler, Dial(h) PROVE Inv'
<1>1. UNCHANGED <<ports, subs, reply, toClose>> /\ handler[h].pc = "dial"
  BY DEF Dial
<1>2. CASE Goto(h, "idle", None) /\ UNCHANGED <<flows, conn>>
  <2>1. flows' \in [Sess -> [Dst -> Mark \cup {"none"}]]
    BY <1>2 DEF Inv, Typed
  <2> QED  BY <1>1, <1>2, <2>1, HandlerMoves, ZenonT(60) DEF HandlerPc
<1>3. CASE FreeSess # {} /\ LET s == Min(FreeSess)
                            IN  /\ conn' = [conn EXCEPT ![s] = "open"]
                                /\ flows' = [flows EXCEPT ![s] = [d \in Dst |-> "none"]]
                                /\ Goto(h, "insert", s)
  <2>1. FreeSess \in SUBSET Nat /\ FreeSess # {}
    BY Identifiers, <1>3, ZenonT(60) DEF FreeSess
  <2>2. Min(FreeSess) \in FreeSess
    BY <2>1, MinMember, Zenon
  <2> PICK s \in FreeSess : s = Min(FreeSess)
    BY <2>2, Zenon
  <2>3. /\ s \in Sess /\ conn[s] = "closed" /\ ~(\E p \in Port : Refers(p, s))
        /\ \A d \in Dst : subs[s][d] = None
    BY FreeSessions
  <2>4. /\ conn' = [conn EXCEPT ![s] = "open"] /\ flows' = [flows EXCEPT ![s] = [d \in Dst |-> "none"]]
        /\ handler' = [handler EXCEPT ![h] = [pc |-> "insert", sess |-> s]]
    BY <1>3, SMTT(60) DEF Goto
  <2>5. Typed'
    BY <1>1, <2>3, <2>4, SMTT(60) DEF Inv, Typed, HandlerPc
  <2>6. /\ handler'[h].pc = "insert" /\ handler'[h].sess = s
        /\ \A g \in Handler : g # h => handler'[g] = handler[g]
    BY <2>4, SMTT(60) DEF Inv, Typed
  <2>7. NoSessionLeak'
    BY <1>1, <2>3, <2>4, <2>6 DEF Inv, Typed, NoSessionLeak
  <2>8. OnePort'
    <3> SUFFICES ASSUME NEW x \in Sess, NEW p \in Port, NEW q \in Port, Refers(p, x)', Refers(q, x)'
                 PROVE  p = q
      BY SMTT(60) DEF OnePort
    <3>1. ASSUME NEW o \in Port, Refers(o, x)' PROVE Refers(o, x) \/ (x = s /\ o = h[1])
      BY <1>1, <2>6, <3>1, SMTT(60) DEF Refers
    <3>2. CASE x = s
      BY <2>3, <3>1, <3>2
    <3>3. CASE x # s
      BY <3>1, <3>3, SMTT(60) DEF Inv, OnePort
    <3> QED  BY <3>2, <3>3
  <2>9. Forgotten'
    <3> SUFFICES ASSUME NEW x \in Sess, NEW d \in Dst, flows'[x][d] = "none", subs'[x][d] # None
                 PROVE  \E g \in Handler : handler'[g].pc = "unsub" /\ handler'[g].sess = x /\ g[2] = d
      BY DEF Forgotten
    <3>1. flows[x][d] = "none" /\ subs[x][d] # None
      BY <1>1, <2>3, <2>4 DEF Inv, Typed
    <3>2. Forgotten
      BY SMTT(60) DEF Inv
    <3>3. PICK g \in Handler : handler[g].pc = "unsub" /\ handler[g].sess = x /\ g[2] = d
      BY <3>1, <3>2, Leaver, SMTT(60)
    <3> QED  BY <1>1, <2>6, <3>3, SMTT(60)
  <2>10. Served'
    BY <1>1, SameSubs, SameReplies, StillServed DEF Inv
  <2> QED  BY <2>5, <2>7, <2>8, <2>9, <2>10, SMTT(60) DEF Inv
<1> QED  BY <1>2, <1>3, SMTT(60) DEF Dial

\* The second critical section of getOrCreate gives up the handler's session or
\* stores it for the handler's own port.
LEMMA InsertKeeps == ASSUME Inv, NEW h \in Handler, Insert(h) PROVE Inv'
<1> DEFINE p == h[1]
           s == handler[h].sess
<1>1. p \in Port /\ s \in Sess /\ handler[h].pc = "insert" /\ Typed
  BY SMTT(60) DEF Handler, Inv, Typed, Insert
<1>2. UNCHANGED <<flows, reply, toClose>>
  BY SMTT(60) DEF Insert
<1>3. /\ SubsShrink /\ conn' \in [Sess -> {"open", "dead", "closed"}]
      /\ ports' \in [Port -> Sess \cup {None}] /\ ports'[p] \in Sess
      /\ \A q \in Port : ports'[q] = ports[q] \/ (q = p /\ ports[q] = None /\ ports'[q] = s)
      /\ \A x \in Sess : conn'[x] # "closed" => conn[x] # "closed" /\ (x = s => ports'[p] = s)
      /\ handler' = [handler EXCEPT ![h] = [pc |-> "subscribe", sess |-> ports'[p]]]
  <2>1. CASE ports[p] # None /\ CloseSess(s) /\ Goto(h, "subscribe", ports[p]) /\ UNCHANGED ports
    <3>1. ports[p] \in Sess
      BY <1>1, <2>1 DEF Typed
    <3> QED  BY <1>1, <2>1, <3>1, Closing, ZenonT(60) DEF Typed, Goto
  <2>2. CASE /\ ports[p] = None /\ ports' = [ports EXCEPT ![p] = s] /\ Goto(h, "subscribe", s)
             /\ UNCHANGED <<conn, subs>>
    BY <1>1, <2>2, ZenonT(60) DEF Typed, Goto, SubsShrink
  <2> QED  BY <2>1, <2>2 DEF Insert, sessVars
<1>4. /\ handler'[h].sess = ports'[p] /\ \A g \in Handler : g # h => handler'[g] = handler[g]
  BY <1>1, <1>3, SMTT(60) DEF Typed
<1>5. Typed'
  BY <1>1, <1>2, <1>3, SMTT(60) DEF Typed, SubsShrink, HandlerPc
<1>6. NoSessionLeak'
  <2> SUFFICES ASSUME NEW x \in Sess, conn'[x] # "closed"
               PROVE  \/ x \in toClose'
                      \/ \E q \in Port : ports'[q] = x
                      \/ \E g \in Handler : handler'[g].pc = "insert" /\ handler'[g].sess = x
    BY DEF NoSessionLeak
  <2>1. CASE x = s
    BY <1>1, <1>3, <2>1, SMTT(60)
  <2>2. CASE x # s
    <3>1. \/ x \in toClose
          \/ \E q \in Port : ports[q] = x
          \/ \E g \in Handler : handler[g].pc = "insert" /\ handler[g].sess = x
      BY <1>3, SMTT(60) DEF Inv, NoSessionLeak
    <3>2. ASSUME NEW q \in Port, ports[q] = x PROVE ports'[q] = x
      BY Identifiers, <1>3, <3>2
    <3>3. ASSUME NEW g \in Handler, handler[g].pc = "insert", handler[g].sess = x
          PROVE  handler'[g].pc = "insert" /\ handler'[g].sess = x
      BY <1>4, <2>2, <3>3, SMTT(60)
    <3> QED  BY <1>2, <3>1, <3>2, <3>3, SMTT(60)
  <2> QED  BY <2>1, <2>2
<1>7. OnePort'
  <2> SUFFICES ASSUME NEW q \in Port, NEW x \in Sess, Refers(q, x)' PROVE Refers(q, x)
    BY OnePortKept, SMTT(60) DEF Inv
  <2>1. CASE ports'[q] = x
    BY <1>1, <1>3, <2>1, SMTT(60) DEF Refers
  <2>2. ASSUME NEW g \in Handler, g[1] = q, handler'[g].sess = x PROVE Refers(q, x)
    BY <1>1, <1>3, <1>4, <2>2, SMTT(60) DEF Refers
  <2> QED  BY <2>1, <2>2 DEF Refers
<1>8. Forgotten'
  <2> SUFFICES ASSUME NEW x \in Sess, NEW d \in Dst, flows'[x][d] = "none", subs'[x][d] # None
               PROVE  \E g \in Handler : handler'[g].pc = "unsub" /\ handler'[g].sess = x /\ g[2] = d
    BY DEF Forgotten
  <2>1. flows[x][d] = "none" /\ subs[x][d] # None /\ Forgotten
    <3>1. SubsShrink
      BY <1>3
    <3>2. subs'[x][d] = subs[x][d]
      BY <3>1 DEF SubsShrink
    <3> QED  BY <1>2, <3>2, SMTT(60) DEF Inv
  <2>2. PICK g \in Handler : handler[g].pc = "unsub" /\ handler[g].sess = x /\ g[2] = d
    BY <2>1, Leaver, ZenonT(60)
  <2> QED  BY <1>1, <1>4, <2>2, SMTT(60)
<1>9. Served'
  BY <1>1, <1>2, <1>3, SameReplies, StillServed DEF Inv
<1> QED  BY <1>5, <1>6, <1>7, <1>8, <1>9, SMTT(60) DEF Inv

\* A handler that attaches a destination finds no channel of it: the only handler
\* that could have left one is this handler itself.
LEMMA NothingLeft ==
  ASSUME Inv, NEW h \in Handler, handler[h].pc = "subscribe", handler[h].sess \in Sess,
         flows[handler[h].sess][h[2]] = "none"
  PROVE  subs[handler[h].sess][h[2]] = None
<1> DEFINE s == handler[h].sess
<1> SUFFICES ASSUME subs[s][h[2]] # None PROVE FALSE
  OBVIOUS
<1>1. h[1] \in Port /\ h[2] \in Dst /\ h = <<h[1], h[2]>>
  BY DEF Handler
<1>2. PICK g \in Handler : handler[g].pc = "unsub" /\ handler[g].sess = s /\ g[2] = h[2]
  BY <1>1, Leaver DEF Inv
<1>3. g[1] \in Port /\ g = <<g[1], g[2]>>
  BY DEF Handler
<1>4. Refers(g[1], s) /\ Refers(h[1], s)
  BY <1>2 DEF Refers
<1>5. g[1] = h[1]
  BY <1>1, <1>3, <1>4, SMTT(60) DEF Inv, OnePort
<1> QED  BY <1>1, <1>2, <1>3, <1>5

\* A handler returns without leaving a channel behind.
LEMMA ReturnKeeps ==
  ASSUME Inv, NEW h \in Handler, handler[h].pc \in {"subscribe", "unsub"}, Return(h), SubsShrink,
         handler[h].pc = "unsub" => subs'[handler[h].sess][h[2]] = None,
         UNCHANGED <<ports, conn, flows, toClose>>
  PROVE  Inv'
<1>1. Typed /\ handler[h].sess \in Sess
  BY SMTT(60) DEF Inv, Typed
<1>2. RepliesKept
  BY <1>1, Returning
<1>3. /\ handler' \in [Handler -> [pc : HandlerPc, sess : Sess \cup {None}]]
      /\ handler'[h].pc = "idle" /\ handler'[h].sess = None
      /\ \A g \in Handler : g # h => handler'[g] = handler[g]
  BY <1>1, SMTT(60) DEF Typed, Return, IdleHandler, HandlerPc
<1>4. Typed'
  BY <1>1, <1>2, <1>3, SMTT(60) DEF Typed, RepliesKept, SubsShrink
<1>5. NoSessionLeak'
  BY <1>3, SMTT(60) DEF Inv, NoSessionLeak
<1>6. OnePort'
  <2> SUFFICES ASSUME NEW p \in Port, NEW s \in Sess, Refers(p, s)' PROVE Refers(p, s)
    BY OnePortKept, ZenonT(60) DEF Inv
  <2> QED  BY Identifiers, <1>3 DEF Refers
<1>7. Forgotten'
  <2> SUFFICES ASSUME NEW s \in Sess, NEW d \in Dst, flows'[s][d] = "none", subs'[s][d] # None
               PROVE  \E g \in Handler : handler'[g].pc = "unsub" /\ handler'[g].sess = s /\ g[2] = d
    BY DEF Forgotten
  <2>1. subs'[s][d] = subs[s][d]
    BY SMTT(60) DEF SubsShrink
  <2>2. PICK g \in Handler : handler[g].pc = "unsub" /\ handler[g].sess = s /\ g[2] = d
    BY <2>1, Leaver, SMTT(60) DEF Inv
  <2>3. g # h
    BY <2>2, SMTT(60)
  <2> QED  BY <1>3, <2>2, <2>3, SMTT(60)
<1>8. Served'
  BY <1>2, StillServed, SMTT(60) DEF Inv
<1> QED  BY <1>4, <1>5, <1>6, <1>7, <1>8, SMTT(60) DEF Inv

\* A new destination gets a channel and a goroutine nobody else uses.
LEMMA AttachKeeps ==
  ASSUME Inv, NEW h \in Handler, handler[h].pc = "subscribe", NEW s, s = handler[h].sess,
         flows[s][h[2]] = "none", Attach(h, s, h[2]), UNCHANGED <<ports, conn, toClose>>
  PROVE  Inv'
<1> DEFINE d == h[2]
<1>1. Typed /\ s \in Sess /\ d \in Dst /\ handler[h].sess \in Sess
  BY SMTT(60) DEF Inv, Typed, Handler
<1>2. subs[s][d] = None
  BY <1>1, NothingLeft, SMTT(60)
<1>3. PICK c \in FreeChan, r0 \in FreeReply : c = Min(FreeChan) /\ r0 = Min(FreeReply)
  <2>1. FreeChan \in SUBSET Nat /\ FreeReply \in SUBSET Nat
    BY Identifiers, ZenonT(60) DEF FreeChan, FreeReply
  <2>2. FreeChan # {} /\ FreeReply # {}
    BY DEF Attach
  <2>3. Min(FreeChan) \in FreeChan
    BY <2>1, <2>2, MinMember, Zenon
  <2>4. Min(FreeReply) \in FreeReply
    BY <2>1, <2>2, MinMember, Zenon
  <2> QED  BY <2>3, <2>4
<1>4. /\ c \in Chan /\ \A x \in Sess, e \in Dst : subs[x][e] # c
      /\ \A r \in Reply : reply[r].ch # c
  BY SMTT(60) DEF FreeChan
<1>5. r0 \in Reply /\ reply[r0].ch = None
  BY <1>1, Unused, SMTT(60)
<1>6. /\ subs' = [subs EXCEPT ![s][d] = c]
      /\ reply' = [reply EXCEPT ![r0] = [pc |-> "wait", sess |-> s, of |-> h, ch |-> c, orphan |-> FALSE]]
      /\ flows' = [flows EXCEPT ![s][d] = "fresh"]
      /\ handler' = [handler EXCEPT ![h] = [pc |-> "send", sess |-> s]]
  BY <1>2, <1>3, SMTT(60) DEF Attach, Goto
<1>7. Typed'
  <2>1. [pc |-> "wait", sess |-> s, of |-> h, ch |-> c, orphan |-> FALSE] \in ReplyRecord
    BY <1>1, <1>4, SMTT(60) DEF ReplyRecord, ReplyPc
  <2>2. reply' \in [Reply -> ReplyRecord \cup {NoReply}]
    BY <1>1, <1>6, <2>1, ZenonT(60) DEF Typed
  <2>3. /\ subs' \in [Sess -> [Dst -> Chan \cup {None}]]
        /\ flows' \in [Sess -> [Dst -> Mark \cup {"none"}]]
    BY <1>1, <1>4, <1>6, SMTT(60) DEF Typed, Mark
  <2>4. /\ handler' \in [Handler -> [pc : HandlerPc, sess : Sess \cup {None}]]
        /\ \A g \in Handler : handler'[g].pc \notin {"idle", "dial"} => handler'[g].sess \in Sess
    BY <1>1, <1>6, SMTT(60) DEF Typed, HandlerPc
  <2> QED  BY <1>1, <2>2, <2>3, <2>4, SMTT(60) DEF Typed
<1>8. /\ handler'[h].pc = "send" /\ handler'[h].sess = handler[h].sess
      /\ \A g \in Handler : g # h => handler'[g] = handler[g]
  BY <1>1, <1>6, SMTT(60) DEF Typed
<1>9. NoSessionLeak'
  <2> SUFFICES ASSUME NEW x \in Sess, conn'[x] # "closed"
               PROVE  \/ x \in toClose' \/ \E p \in Port : ports'[p] = x
                      \/ \E g \in Handler : handler'[g].pc = "insert" /\ handler'[g].sess = x
    BY ZenonT(60) DEF NoSessionLeak
  <2>1. \/ x \in toClose \/ \E p \in Port : ports[p] = x
        \/ \E g \in Handler : handler[g].pc = "insert" /\ handler[g].sess = x
    BY ZenonT(60) DEF Inv, NoSessionLeak
  <2> QED  BY <1>8, <2>1
<1>10. OnePort'
  <2> SUFFICES ASSUME NEW p \in Port, NEW x \in Sess, Refers(p, x)' PROVE Refers(p, x)
    BY OnePortKept, ZenonT(60) DEF Inv
  <2> QED  BY <1>8, SMTT(60) DEF Refers
<1>11. Forgotten'
  <2> SUFFICES ASSUME NEW x \in Sess, NEW e \in Dst, flows'[x][e] = "none", subs'[x][e] # None
               PROVE  \E g \in Handler : handler'[g].pc = "unsub" /\ handler'[g].sess = x /\ g[2] = e
    BY SMTT(60) DEF Forgotten
  <2>1. flows[x][e] = "none" /\ subs[x][e] # None
    BY <1>1, <1>6, SMTT(60) DEF Typed
  <2>2. PICK g \in Handler : handler[g].pc = "unsub" /\ handler[g].sess = x /\ g[2] = e
    BY <2>1, Leaver, ZenonT(60) DEF Inv
  <2> QED  BY <1>8, <2>2, SMTT(60)
<1>12. Served'
  <2> SUFFICES ASSUME NEW x \in Sess, NEW e \in Dst, subs'[x][e] # None
               PROVE  \E r \in Reply : Serves(r, x, e)' /\ \A q \in Reply : reply'[q].ch = subs'[x][e] => q = r
    BY SMTT(60) DEF Served
  <2>1. /\ reply'[r0].ch = c /\ reply'[r0].sess = s /\ reply'[r0].of = h
        /\ \A q \in Reply : q # r0 => reply'[q] = reply[q]
    BY <1>1, <1>5, <1>6, SMTT(60) DEF Typed
  <2>2. CASE x = s /\ e = d
    <3>1. subs'[x][e] = c
      BY <1>1, <1>6, <2>2, SMTT(60) DEF Typed
    <3>2. Serves(r0, x, e)'
      BY <2>1, <2>2, <3>1, SMTT(60) DEF Serves
    <3>3. \A q \in Reply : reply'[q].ch = subs'[x][e] => q = r0
      BY <1>4, <2>1, <3>1, SMTT(60)
    <3> QED  BY <1>5, <3>2, <3>3, SMTT(60)
  <2>3. CASE ~(x = s /\ e = d)
    <3>1. subs'[x][e] = subs[x][e] /\ subs[x][e] # c
      BY <1>1, <1>4, <1>6, <2>3 DEF Typed
    <3>2. PICK r \in Reply : Serves(r, x, e) /\ \A q \in Reply : reply[q].ch = subs[x][e] => q = r
      BY <3>1, ZenonT(60) DEF Inv, Served
    <3>3. r # r0
      BY <1>5, <3>1, <3>2, SMTT(60) DEF Serves
    <3>4. Serves(r, x, e)'
      BY <2>1, <3>1, <3>2, <3>3, SMTT(60) DEF Serves
    <3>5. \A q \in Reply : reply'[q].ch = subs'[x][e] => q = r
      BY <2>1, <3>1, <3>2, SMTT(60)
    <3> QED  BY <3>4, <3>5, ZenonT(60)
  <2> QED  BY <2>2, <2>3, ZenonT(60)
<1> QED  BY <1>7, <1>9, <1>10, <1>11, <1>12, SMTT(60) DEF Inv

LEMMA SubscribeKeeps == ASSUME Inv, NEW h \in Handler, SubscribeDst(h) PROVE Inv'
<1>1. Typed /\ handler[h].pc = "subscribe" /\ handler[h].sess \in Sess /\ h[2] \in Dst
  <2>1. handler[h].pc = "subscribe"
    BY ZenonT(60) DEF SubscribeDst
  <2>2. Typed /\ h[2] \in Dst
    BY DEF Inv, Handler
  <2>3. handler[h].sess \in Sess
    BY <2>1, <2>2, ZenonT(60) DEF Typed
  <2> QED  BY <2>1, <2>2, <2>3
<1>2. UNCHANGED <<ports, conn, toClose>>
  BY ZenonT(60) DEF SubscribeDst
<1>3. CASE flows[handler[h].sess][h[2]] = "none" /\ Attach(h, handler[h].sess, h[2])
  BY <1>1, <1>2, <1>3, AttachKeeps, ZenonT(60)
<1>4. CASE Return(h) /\ UNCHANGED <<subs, flows>>
  <2>1. SubsShrink
    BY <1>1, <1>4, SMTT(60) DEF Typed, SubsShrink
  <2> QED  BY <1>1, <1>2, <1>4, <2>1, ReturnKeeps, SMTT(60)
<1>5. CASE Goto(h, "send", handler[h].sess) /\ UNCHANGED <<subs, flows, reply>>
  <2>1. flows' \in [Sess -> [Dst -> Mark \cup {"none"}]]
    BY <1>1, <1>5, SMTT(60) DEF Typed
  <2> QED  BY <1>1, <1>2, <1>5, <2>1, HandlerMoves, ZenonT(60) DEF HandlerPc
<1> DEFINE s == handler[h].sess
           d == h[2]
           known == {x \in Dst : flows[s][x] # "none"}
<1>6. d \notin known => flows[s][d] = "none"
  BY <1>1, SMTT(60)
<1>7. \/ d \notin known /\ Attach(h, s, d)
      \/ Return(h) /\ UNCHANGED <<subs, flows>>
      \/ Goto(h, "send", s) /\ UNCHANGED <<subs, flows, reply>>
  BY ZenonT(60) DEF SubscribeDst
<1> HIDE DEF known
<1> QED  BY <1>3, <1>4, <1>5, <1>6, <1>7, ZenonT(60)

\* The steps in which the handler keeps its session.
LEMMA ServingKeeps ==
  ASSUME Inv, NEW h \in Handler,
         Send(h) \/ HandlerTouchFlow(h) \/ HandlerTouchPort(h) \/ Packet(h) \/ HandlerCleanup(h)
  PROVE  Inv'
<1>1. Typed /\ handler[h].pc \notin {"insert", "unsub"} /\ handler[h].sess \in Sess /\ h[2] \in Dst
  BY SMTT(60) DEF Send, HandlerTouchFlow, HandlerTouchPort, Packet, HandlerCleanup, Inv, Typed, Handler
<1> PICK s \in Sess : s = handler[h].sess
  BY <1>1, ZenonT(60)
<1>2. UNCHANGED <<ports, conn, subs, reply, toClose>>
  BY SMTT(60) DEF Send, HandlerTouchFlow, HandlerTouchPort, Packet, HandlerCleanup, sessVars
<1>3. flows \in [Sess -> [Dst -> Mark \cup {"none"}]]
  BY <1>1, SMTT(60) DEF Typed
<1>4. PICK pc \in HandlerPc \ {"idle", "dial"} :
        /\ Goto(h, pc, s)
        /\ \/ UNCHANGED flows
           \/ flows' = [flows EXCEPT ![s][h[2]] = "fresh"]
           \/ flows' = [flows EXCEPT ![s][h[2]] = "none"] /\ pc = "unsub"
  BY SMTT(60) DEF Send, HandlerTouchFlow, HandlerTouchPort, Packet, HandlerCleanup, TouchFlow, HandlerPc
<1>5. flows' \in [Sess -> [Dst -> Mark \cup {"none"}]]
  BY <1>1, <1>3, <1>4, SMTT(60) DEF Mark
<1>6. \A x \in Sess, d \in Dst :
        flows'[x][d] = "none" => flows[x][d] = "none" \/ (pc = "unsub" /\ x = s /\ d = h[2])
  <2> TAKE x \in Sess, d \in Dst
  <2>1. CASE UNCHANGED flows
    BY <2>1, SMTT(60)
  <2>2. CASE flows' = [flows EXCEPT ![s][h[2]] = "fresh"]
    <3>1. flows'[x][d] = IF x = s /\ d = h[2] THEN "fresh" ELSE flows[x][d]
      BY <1>1, <1>3, <2>2, SMTT(60)
    <3> QED  BY <3>1, SMTT(60)
  <2>3. CASE flows' = [flows EXCEPT ![s][h[2]] = "none"] /\ pc = "unsub"
    <3>1. flows'[x][d] = IF x = s /\ d = h[2] THEN "none" ELSE flows[x][d]
      BY <1>1, <1>3, <2>3, SMTT(60)
    <3> QED  BY <2>3, <3>1, SMTT(60)
  <2> QED  BY <1>4, <2>1, <2>2, <2>3, SMTT(60)
<1> QED  BY <1>1, <1>2, <1>4, <1>5, <1>6, HandlerMoves, SMTT(60)

LEMMA HandlerUnsubscribeKeeps == ASSUME Inv, NEW h \in Handler, HandlerUnsubscribe(h) PROVE Inv'
<1>1. Typed /\ handler[h].pc = "unsub" /\ handler[h].sess \in Sess /\ h[2] \in Dst
  BY SMTT(60) DEF HandlerUnsubscribe, Inv, Typed, Handler
<1>2. /\ SubsShrink /\ conn' = conn
      /\ subs'[handler[h].sess][h[2]] = None
  BY <1>1, Unsubscribing, ZenonT(60) DEF HandlerUnsubscribe
<1> QED  BY <1>1, <1>2, ReturnKeeps, SMTT(60) DEF HandlerUnsubscribe

-----------------------------------------------------------------------------
(* The reply goroutine and gcOnce.                                         *)

LEMMA ReplyMovesKeeps ==
  ASSUME Inv, NEW r \in Reply, Receive(r) \/ WriteBack(r) \/ ReplyTouchFlow(r) \/ ReplyTouchPort(r)
  PROVE  Inv'
<1>1. Typed /\ reply[r].pc # "free" /\ UNCHANGED <<ports, conn, subs, handler, toClose>>
  BY SMTT(60) DEF Receive, WriteBack, ReplyTouchFlow, ReplyTouchPort, Inv, sessVars
<1>2. reply[r].sess \in Sess /\ reply[r].of[2] \in Dst
  BY <1>1, Running, SMTT(60) DEF ReplyRecord, Handler
<1>3. FlowsKept
  <2>1. CASE UNCHANGED flows
    BY <1>1, <2>1, SMTT(60) DEF Typed, FlowsKept
  <2>2. CASE TouchFlow(reply[r].sess, reply[r].of[2])
    BY <1>1, <1>2, <2>2, SMTT(60) DEF Typed, FlowsKept, TouchFlow, Mark
  <2> QED  BY <2>1, <2>2, ZenonT(60) DEF Receive, WriteBack, ReplyTouchFlow, ReplyTouchPort
<1>4. \E pc \in ReplyPc : ReplyGoto(r, pc)
  BY DEF Receive, WriteBack, ReplyTouchFlow, ReplyTouchPort, ReplyPc
<1> QED  BY <1>1, <1>3, <1>4, ReplyMoves, SMTT(60)

\* The deferred Unsubscribe takes the subscription with it that the goroutine serves.
LEMMA ReplyUnsubscribeKeeps == ASSUME Inv, NEW r \in Reply, ReplyUnsubscribe(r) PROVE Inv'
<1>1. Typed /\ reply[r].pc = "unsub" /\ UNCHANGED <<ports, flows, handler, toClose>>
  BY SMTT(60) DEF Inv, ReplyUnsubscribe
<1>2. reply[r].sess \in Sess /\ reply[r].of[2] \in Dst
  BY <1>1, Running, SMTT(60) DEF ReplyRecord, Handler
<1>3. /\ SubsShrink /\ conn' = conn /\ subs'[reply[r].sess][reply[r].of[2]] = None
  BY <1>1, <1>2, Unsubscribing, ZenonT(60) DEF ReplyUnsubscribe
<1>4. /\ reply' \in [Reply -> ReplyRecord \cup {NoReply}] /\ reply'[r].ch = None
      /\ \A q \in Reply : q # r => reply'[q] = reply[q]
  BY <1>1, SMTT(60) DEF ReplyUnsubscribe, Typed, NoReply
<1>5. Typed'
  BY <1>1, <1>3, <1>4, SMTT(60) DEF Typed, SubsShrink
<1>6. NoSessionLeak' /\ OnePort'
  BY <1>1, <1>3, NoLeakKept, SameReferences, SMTT(60) DEF Inv
<1>7. Forgotten'
  <2>1. FlowsKept
    BY <1>1 DEF Typed, FlowsKept
  <2> QED  BY <1>1, <1>3, <2>1, ForgottenKept, SMTT(60) DEF Inv
<1>8. Served'
  <2>1. \A s \in Sess, d \in Dst : Serves(r, s, d) => subs'[s][d] = None
    BY <1>3 DEF Serves
  <2>2. \A s \in Sess, d \in Dst : subs'[s][d] # None => subs'[s][d] = subs[s][d]
    BY <1>3, ZenonT(60) DEF SubsShrink
  <2>3. \A q \in Reply \ {r} : /\ reply'[q].ch = reply[q].ch /\ reply'[q].sess = reply[q].sess
                               /\ reply'[q].of = reply[q].of
    BY <1>4
  <2>4. \A q \in Reply \cap {r} : reply'[q].ch = None
    BY <1>4
  <2>5. \A q \in Reply \cap {r}, s \in Sess, d \in Dst : Serves(q, s, d) => subs'[s][d] = None
    BY <2>1, ZenonT(60)
  <2>6. Served
    BY DEF Inv
  <2> QED  BY <1>1, <2>2, <2>3, <2>4, <2>5, <2>6, ServedKept, Zenon
<1> QED  BY <1>5, <1>6, <1>7, <1>8, SMTT(60) DEF Inv

\* What is pruned from a session is unsubscribed, what leaves the table is closed next.
LEMMA GCPruneKeeps == ASSUME Inv, GCPrune PROVE Inv'
<1> DEFINE stale == {<<ports[p], d>> : p \in Occupied, d \in Dst}
                      \cap {k \in Sess \X Dst : flows[k[1]][k[2]] = "idle"}
           old   == {p \in Occupied : seen[ports[p]] = "idle"}
<1>1. Typed /\ UNCHANGED <<handler, reply>> /\ toClose = {}
  BY SMTT(60) DEF Inv, GCPrune
<1>2. \A p \in old : p \in Port /\ ports[p] \in Sess
  BY <1>1, SMTT(60) DEF Occupied, Typed
<1>3. /\ Unsubscribe(stale) /\ toClose' = {ports[p] : p \in old}
      /\ flows' = [s \in Sess |-> [d \in Dst |-> IF <<s, d>> \in stale THEN "none" ELSE flows[s][d]]]
      /\ ports' = [p \in Port |-> IF p \in old THEN None ELSE ports[p]]
  BY SMTT(60) DEF GCPrune
<1> HIDE DEF stale, old
<1>4. /\ SubsShrink /\ conn' = conn
      /\ \A s \in Sess, d \in Dst : <<s, d>> \in stale => subs'[s][d] = None
  BY <1>1, <1>3, Unsubscribing, SMTT(60)
<1>5. Typed'
  <2>1. /\ ports' \in [Port -> Sess \cup {None}] /\ toClose' \subseteq Sess
        /\ flows' \in [Sess -> [Dst -> Mark \cup {"none"}]]
    BY <1>1, <1>2, <1>3, SMTT(60) DEF Typed
  <2> QED  BY <1>1, <1>4, <2>1, SMTT(60) DEF Typed, SubsShrink
<1>6. NoSessionLeak'
  <2> SUFFICES ASSUME NEW s \in Sess, conn'[s] # "closed"
               PROVE  \/ s \in toClose'
                      \/ \E p \in Port : ports'[p] = s
                      \/ \E h \in Handler : handler'[h].pc = "insert" /\ handler'[h].sess = s
    BY SMTT(60) DEF NoSessionLeak
  <2>1. \/ \E p \in Port : ports[p] = s
        \/ \E h \in Handler : handler[h].pc = "insert" /\ handler[h].sess = s
    BY <1>1, <1>4, SMTT(60) DEF Inv, NoSessionLeak
  <2>2. ASSUME NEW p \in Port, ports[p] = s PROVE s \in toClose' \/ ports'[p] = s
    BY <1>3, <2>2, SMTT(60)
  <2> QED  BY <1>1, <2>1, <2>2, SMTT(60)
<1>7. OnePort'
  <2> SUFFICES ASSUME NEW p \in Port, NEW s \in Sess, Refers(p, s)' PROVE Refers(p, s)
    BY OnePortKept, SMTT(60) DEF Inv
  <2> QED  BY Identifiers, <1>1, <1>3, SMTT(60) DEF Refers
<1>8. Forgotten'
  <2> SUFFICES ASSUME NEW s \in Sess, NEW d \in Dst, flows'[s][d] = "none", subs'[s][d] # None
               PROVE  \E h \in Handler : handler'[h].pc = "unsub" /\ handler'[h].sess = s /\ h[2] = d
    BY SMTT(60) DEF Forgotten
  <2>1. flows[s][d] = "none"
    BY <1>3, <1>4
  <2>2. subs[s][d] # None
    BY <1>4, ZenonT(60) DEF SubsShrink
  <2> QED  BY <1>1, <2>1, <2>2, Leaver, SMTT(60) DEF Inv
<1>9. Served'
  <2>1. RepliesKept
    BY <1>1, SMTT(60) DEF Typed, RepliesKept
  <2> QED  BY <1>4, <2>1, StillServed, SMTT(60) DEF Inv
<1> QED  BY <1>5, <1>6, <1>7, <1>8, <1>9, SMTT(60) DEF Inv

LEMMA GCCloseKeeps == ASSUME Inv, NEW s \in Sess, GCClose(s) PROVE Inv'
<1>1. Typed /\ UNCHANGED <<ports, flows, handler, reply>> /\ toClose' = toClose \ {s}
  BY DEF Inv, GCClose
<1>2. /\ SubsShrink /\ conn' \in [Sess -> {"open", "dead", "closed"}]
      /\ \A x \in Sess : conn'[x] # "closed" => x # s /\ conn[x] # "closed"
  BY <1>1, Closing, SMTT(60) DEF GCClose
<1>3. Typed'
  BY <1>1, <1>2 DEF Typed, SubsShrink
<1>4. NoSessionLeak' /\ OnePort'
  BY <1>1, <1>2, NoLeakKept, SameReferences, SMTT(60) DEF Inv
<1>5. Forgotten'
  <2>1. FlowsKept
    BY <1>1 DEF Typed, FlowsKept
  <2> QED  BY <1>1, <1>2, <2>1, ForgottenKept, SMTT(60) DEF Inv
<1>6. Served'
  <2>1. RepliesKept
    BY <1>1, SMTT(60) DEF Typed, RepliesKept
  <2> QED  BY <1>2, <2>1, StillServed, SMTT(60) DEF Inv
<1> QED  BY <1>3, <1>4, <1>5, <1>6 DEF Inv

\* readLoop, the connection and the clock.
LEMMA OthersKeep ==
  ASSUME Inv, NEW s \in Sess,
         \/ \E d \in Dst : ReadLookup(s, d)
         \/ ReadSend(s) \/ ReadEnds(s) \/ ConnDies(s) \/ Age(s)
  PROVE  Inv'
<1>1. Typed /\ UNCHANGED <<ports, subs, handler, reply, toClose>>
  BY DEF Inv, ReadLookup, ReadSend, ReadEnds, ConnDies, Age, sessVars
<1>2. conn' = conn \/ (conn[s] = "open" /\ conn' = [conn EXCEPT ![s] = "dead"])
  BY DEF ReadLookup, ReadSend, ReadEnds, ConnDies, Age, sessVars
<1>3. \/ flows' = flows
      \/ \E d \in Dst : flows' = [flows EXCEPT ![s][d] = "idle"]
  BY DEF ReadLookup, ReadSend, ReadEnds, ConnDies, Age
<1>4. FlowsKept
  <2>1. flows \in [Sess -> [Dst -> Mark \cup {"none"}]]
    BY <1>1 DEF Typed
  <2>2. CASE flows' = flows
    BY <2>1, <2>2, SMTT(60) DEF FlowsKept
  <2>3. ASSUME NEW d \in Dst, flows' = [flows EXCEPT ![s][d] = "idle"] PROVE FlowsKept
    BY <2>1, <2>3, SMTT(60) DEF FlowsKept, Mark
  <2> QED  BY <1>3, <2>2, <2>3, SMTT(60)
<1>5. /\ conn' \in [Sess -> {"open", "dead", "closed"}]
      /\ \A x \in Sess : conn'[x] # "closed" => conn[x] # "closed"
  BY <1>1, <1>2, SMTT(60) DEF Typed
<1> QED  BY <1>1, <1>4, <1>5, OthersMove, SMTT(60)

-----------------------------------------------------------------------------
LEMMA InitInv == ASSUME Init PROVE Inv
<1>1. Typed
  BY SMTT(60) DEF Init, Typed, IdleHandler, HandlerPc
<1>2. NoSessionLeak
  BY SMTT(60) DEF Init, NoSessionLeak
<1>3. Forgotten /\ Served
  BY DEF Init, Forgotten, Served
<1>4. OnePort
  <2>1. \A p \in Port, s \in Sess : ~Refers(p, s)
    BY Identifiers, SMTT(60) DEF Init, Refers, IdleHandler
  <2> QED  BY <2>1, SMTT(60) DEF OnePort
<1> QED  BY <1>1, <1>2, <1>3, <1>4 DEF Inv

LEMMA NextInv == ASSUME Inv, [Next]_vars PROVE Inv'
<1>1. CASE Traffic
  BY <1>1, LookupKeeps, ServingKeeps, OthersKeep, SMTT(60) DEF Traffic
<1>2. ASSUME NEW h \in Handler, HandlerStep(h) PROVE Inv'
  BY <1>2, DialKeeps, InsertKeeps, SubscribeKeeps, ServingKeeps, HandlerUnsubscribeKeeps, SMTT(60) DEF HandlerStep
<1>3. ASSUME NEW r \in Reply, ReplyStep(r) PROVE Inv'
  BY <1>3, ReplyMovesKeeps, ReplyUnsubscribeKeeps, SMTT(60) DEF ReplyStep
<1>4. ASSUME NEW s \in Sess, SessStep(s) \/ ConnDies(s) PROVE Inv'
  BY <1>4, OthersKeep, GCCloseKeeps, SMTT(60) DEF SessStep
<1>5. CASE GCPrune
  BY <1>5, GCPruneKeeps, SMTT(60)
<1>6. CASE UNCHANGED vars
  <2>1. FlowsKept /\ UNCHANGED <<ports, subs, handler, reply, toClose, conn>>
    BY <1>6, SMTT(60) DEF vars, sessVars, FlowsKept, Inv, Typed
  <2>2. conn' \in [Sess -> {"open", "dead", "closed"}]
    BY <2>1 DEF Inv, Typed
  <2> QED  BY <2>1, <2>2, OthersMove, SMTT(60)
<1> QED  BY <1>1, <1>2, <1>3, <1>4, <1>5, <1>6, SMTT(60) DEF Next

LEMMA AlwaysInv == Spec => []Inv
BY InitInv, NextInv, PTL DEF Spec

\* getOrCreate and gcOnce leak no session: in every reachable state, for any number
\* of ports, destinations and sessions, a connection that is not closed is in the
\* table, with the handler that dialled it, or on the list of the collector.
THEOREM SessionsKept == Spec => []NoSessionLeak
<1>1. Inv => NoSessionLeak
  BY SMTT(60) DEF Inv
<1> QED  BY <1>1, AlwaysInv, PTL

\* Whatever the order in which handlers, reply goroutines and the collector
\* unsubscribe, a subscribed channel has exactly one reply goroutine, the one of its
\* destination, for any number of ports, destinations, channels and goroutines.
THEOREM OneReplier == Spec => []SubscribedOnce
<1>1. Inv => SubscribedOnce
  <2> SUFFICES ASSUME Inv, NEW s \in Sess, NEW d \in Dst, subs[s][d] # None
               PROVE  /\ \E r \in Reply : reply[r].ch = subs[s][d] /\ reply[r].sess = s /\ reply[r].of[2] = d
                      /\ Cardinality({r \in Reply : reply[r].ch = subs[s][d]}) = 1
    BY SMTT(60) DEF SubscribedOnce
  <2>1. PICK r \in Reply : Serves(r, s, d) /\ \A q \in Reply : reply[q].ch = subs[s][d] => q = r
    BY SMTT(60) DEF Inv, Served
  <2>2. {q \in Reply : reply[q].ch = subs[s][d]} = {r}
    BY <2>1 DEF Serves
  <2>3. Cardinality({r}) = 1
    BY FS_Singleton, ZenonT(60)
  <2> QED  BY <2>1, <2>2, <2>3, SMTT(60) DEF Serves
<1> QED  BY <1>1, AlwaysInv, PTL
=============================================================================
