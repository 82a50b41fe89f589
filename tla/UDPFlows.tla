------------------------------- MODULE UDPFlows -------------------------------
(***************************************************************************)
(* UDP in TUN mode: the handler and reply goroutines of tunHandleUDP       *)
(* (internal/tun_native.go), the table of port sessions they share         *)
(* (internal/tun_udp_porttable.go) with its garbage collector, and the     *)
(* sessions themselves (internal/outline_udp_session.go) with their        *)
(* readLoop.                                                               *)
(*                                                                         *)
(* The network stack runs one handler per pair of a source port and a      *)
(* destination until that handler returns.  One step is one critical       *)
(* section of t.mu, ps.mu or s.mu, or one channel operation.  Time is      *)
(* abstracted to a mark: an entry is "idle" once its timeout has passed    *)
(* since it was last touched.  The root context ends with the process and  *)
(* is not modelled.                                                        *)
(***************************************************************************)
EXTENDS Integers, FiniteSets, FiniteSetsExt

CONSTANTS
  Port,              \* source ports (udpPortKey)
  Dst,               \* destinations
  MaxSess,           \* bound on the sessions referenced at once
  MaxChan,           \* bound on the channels referenced at once
  MaxReply,          \* bound on the reply goroutines running at once
  ChanCap,           \* capacity of a subscription (128)
  UDPMaxFlows,       \* tun.udp_max_flows
  UDPMaxDstPerPort,  \* tun.udp_max_dst_per_port
  UpstreamMayFail    \* a dial or a connection may fail

None    == 0
Sess    == 1 .. MaxSess
Chan    == 1 .. MaxChan
Reply   == 1 .. MaxReply
Handler == Port \X Dst

ASSUME UDPAssumption ==
  /\ {MaxSess, MaxChan, MaxReply, ChanCap, UDPMaxFlows, UDPMaxDstPerPort} \subseteq Nat \ {0}
  /\ UpstreamMayFail \in BOOLEAN

VARIABLES
  ports,     \* ports[p]: udpPortTable.ports
  seen,      \* seen[s]: the mark of lastSeen
  flows,     \* flows[s][d]: the mark of ps.flows[d], or "none"
  conn,      \* conn[s]: the WebSocket connection: "open", "dead" (writes fail) or "closed"
  subs,      \* subs[s][d]: the subscribed channel; it is closed when it is removed
  reader,    \* reader[s]: readLoop
  buf,       \* buf[c]: payloads waiting in channel c
  handler,   \* handler[h]: tunHandleUDP
  reply,     \* reply[r]: a reply goroutine
  toClose,   \* gcOnce: the sessions it still has to close
  panicked   \* a goroutine has sent on a closed channel

sessVars == <<conn, subs, reader, buf>>
vars == <<ports, seen, flows, sessVars, handler, reply, toClose, panicked>>

Mark        == {"fresh", "idle"}
IdleHandler == [pc |-> "idle", sess |-> None]
NoReply     == [pc |-> "free", sess |-> None, of |-> None, ch |-> None, orphan |-> FALSE]
Reading     == [pc |-> "read", ch |-> None]

Init ==
  /\ ports = [p \in Port |-> None]
  /\ seen = [s \in Sess |-> "idle"]
  /\ flows = [s \in Sess |-> [d \in Dst |-> "none"]]
  /\ conn = [s \in Sess |-> "closed"]
  /\ subs = [s \in Sess |-> [d \in Dst |-> None]]
  /\ reader = [s \in Sess |-> [pc |-> "done", ch |-> None]]
  /\ buf = [c \in Chan |-> 0]
  /\ handler = [h \in Handler |-> IdleHandler]
  /\ reply = [r \in Reply |-> NoReply]
  /\ toClose = {}
  /\ panicked = FALSE

\* Identifiers nothing refers to any more.
FreeSess ==
  {s \in Sess :
    /\ conn[s] = "closed" /\ reader[s].pc = "done"
    /\ s \notin toClose
    /\ \A p \in Port : ports[p] # s
    /\ \A h \in Handler : handler[h].sess # s
    /\ \A r \in Reply : reply[r].sess # s}
FreeChan ==
  {c \in Chan :
    /\ \A s \in Sess : reader[s].ch # c /\ \A d \in Dst : subs[s][d] # c
    /\ \A r \in Reply : reply[r].ch # c}
FreeReply == {r \in Reply : reply[r].pc = "free"}

\* The sessions put every channel they create into subs, and take it out to close it.
Shut(c) == \A s \in Sess, d \in Dst : subs[s][d] # c

Occupied == {p \in Port : ports[p] # None}

-----------------------------------------------------------------------------
(* OutlineUDPSession.                                                      *)

\* Close: the connection ends, every subscription is closed and drained.
CloseSess(s) ==
  /\ conn' = [conn EXCEPT ![s] = "closed"]
  /\ buf' = [c \in Chan |-> IF \E d \in Dst : subs[s][d] = c THEN 0 ELSE buf[c]]
  /\ subs' = [subs EXCEPT ![s] = [d \in Dst |-> None]]
  /\ UNCHANGED reader

\* Unsubscribe, for the pairs <<session, destination>> of K: the channel leaves
\* the map, is closed and drained.
Unsubscribe(K) ==
  /\ subs' = [s \in Sess |-> [d \in Dst |-> IF <<s, d>> \in K THEN None ELSE subs[s][d]]]
  /\ buf' = [c \in Chan |-> IF \E k \in K : subs[k[1]][k[2]] = c THEN 0 ELSE buf[c]]
  /\ UNCHANGED <<conn, reader>>

\* readLoop gets a payload from d and looks its channel up; without one the
\* payload is dropped.
ReadLookup(s, d) ==
  /\ reader[s].pc = "read" /\ conn[s] = "open"
  /\ subs[s][d] # None
  /\ reader' = [reader EXCEPT ![s] = [pc |-> "send", ch |-> subs[s][d]]]
  /\ UNCHANGED <<ports, seen, flows, conn, subs, buf, handler, reply, toClose, panicked>>

\* The non-blocking send: a full channel drops the payload, a closed one panics.
ReadSend(s) ==
  LET c == reader[s].ch
  IN  /\ reader[s].pc = "send"
      /\ panicked' = Shut(c)
      /\ buf' = IF Shut(c) \/ buf[c] = ChanCap THEN buf ELSE [buf EXCEPT ![c] = @ + 1]
      /\ reader' = [reader EXCEPT ![s] = Reading]
      /\ UNCHANGED <<ports, seen, flows, conn, subs, handler, reply, toClose>>

\* ReadFrom fails, for sure once the connection is dead or closed.
ReadEnds(s) ==
  /\ reader[s].pc = "read"
  /\ UpstreamMayFail \/ conn[s] # "open"
  /\ reader' = [reader EXCEPT ![s].pc = "done"]
  /\ UNCHANGED <<ports, seen, flows, conn, subs, buf, handler, reply, toClose, panicked>>

\* The connection breaks: writes fail from now on.
ConnDies(s) ==
  /\ UpstreamMayFail /\ conn[s] = "open"
  /\ conn' = [conn EXCEPT ![s] = "dead"]
  /\ UNCHANGED <<ports, seen, flows, subs, reader, buf, handler, reply, toClose, panicked>>

-----------------------------------------------------------------------------
(* tunHandleUDP, the handler of h = <<p, d>>.                              *)

Goto(h, pc, s) == handler' = [handler EXCEPT ![h] = [pc |-> pc, sess |-> s]]

\* The handler returns: its endpoint is closed under the reply goroutines.
Return(h) ==
  /\ handler' = [handler EXCEPT ![h] = IdleHandler]
  /\ reply' = [r \in Reply |-> IF reply[r].sess = handler[h].sess /\ reply[r].of = h
                               THEN [reply[r] EXCEPT !.orphan = TRUE] ELSE reply[r]]

\* A first packet starts the handler: getOrCreate up to its first unlock.
Lookup(h) ==
  LET s == ports[h[1]]
  IN  /\ handler[h].pc = "idle"
      /\ \/ /\ s # None
            /\ seen' = [seen EXCEPT ![s] = "fresh"]
            /\ Goto(h, "subscribe", s)
         \/ /\ s = None
            /\ Cardinality(Occupied) < UDPMaxFlows
            /\ Goto(h, "dial", None)
            /\ UNCHANGED seen
      /\ UNCHANGED <<ports, flows, sessVars, reply, toClose, panicked>>

\* PickUDP and NewOutlineUDPSession, outside the lock.
Dial(h) ==
  /\ handler[h].pc = "dial"
  /\ \/ /\ UpstreamMayFail
        /\ Goto(h, "idle", None)
        /\ UNCHANGED <<seen, flows, conn, reader>>
     \/ /\ FreeSess # {}
        /\ LET s == Min(FreeSess)
           IN  /\ conn' = [conn EXCEPT ![s] = "open"]
               /\ reader' = [reader EXCEPT ![s] = Reading]
               /\ flows' = [flows EXCEPT ![s] = [d \in Dst |-> "none"]]
               /\ seen' = [seen EXCEPT ![s] = "fresh"]
               /\ Goto(h, "insert", s)
  /\ UNCHANGED <<ports, subs, buf, reply, toClose, panicked>>

\* Mutant of Insert: a session stored meanwhile is overwritten.
Insert_Overwrites(h) ==
  /\ handler[h].pc = "insert"
  /\ ports' = [ports EXCEPT ![h[1]] = handler[h].sess]
  /\ Goto(h, "subscribe", handler[h].sess)
  /\ UNCHANGED <<seen, flows, sessVars, reply, toClose, panicked>>

\* getOrCreate's second critical section: the first one to store a session wins.
Insert(h) ==
  LET p == h[1]
      s == handler[h].sess
  IN  /\ handler[h].pc = "insert"
      /\ \/ /\ ports[p] # None
            /\ CloseSess(s)
            /\ seen' = [seen EXCEPT ![s] = "idle"]
            /\ Goto(h, "subscribe", ports[p])
            /\ UNCHANGED ports
         \/ /\ ports[p] = None
            /\ ports' = [ports EXCEPT ![p] = s]
            /\ Goto(h, "subscribe", s)
            /\ UNCHANGED <<seen, sessVars>>
      /\ UNCHANGED <<flows, reply, toClose, panicked>>

\* Subscribe and the go statement, for a destination the session does not know.
Attach(h, s, d) ==
  /\ FreeReply # {} /\ FreeChan # {}
  /\ LET c == IF subs[s][d] = None THEN Min(FreeChan) ELSE subs[s][d]
     IN  /\ subs' = [subs EXCEPT ![s][d] = c]
         /\ reply' = [reply EXCEPT ![Min(FreeReply)] =
                        [pc |-> "wait", sess |-> s, of |-> h, ch |-> c, orphan |-> FALSE]]
  /\ flows' = [flows EXCEPT ![s][d] = "fresh"]
  /\ Goto(h, "send", s)

\* ps.mu: the destination is new, known, or one too many.
SubscribeDst(h) ==
  LET s == handler[h].sess
      d == h[2]
      known == {x \in Dst : flows[s][x] # "none"}
  IN  /\ handler[h].pc = "subscribe"
      /\ \/ /\ d \notin known /\ Cardinality(known) < UDPMaxDstPerPort
            /\ Attach(h, s, d)
         \/ /\ d \notin known /\ Cardinality(known) >= UDPMaxDstPerPort
            /\ Return(h)
            /\ UNCHANGED <<subs, flows>>
         \/ /\ d \in known
            /\ Goto(h, "send", s)
            /\ UNCHANGED <<subs, flows, reply>>
      /\ UNCHANGED <<ports, seen, conn, reader, buf, toClose, panicked>>

\* Send: a failure is reported and ends the handler.
Send(h) ==
  LET s == handler[h].sess
  IN  /\ handler[h].pc = "send"
      /\ \/ conn[s] = "open" /\ Goto(h, "touch", s)
         \/ conn[s] # "open" /\ Goto(h, "cleanup", s)
      /\ UNCHANGED <<ports, seen, flows, sessVars, reply, toClose, panicked>>

TouchFlow(s, d) == flows' = [flows EXCEPT ![s][d] = "fresh"]
TouchPort(p)    == seen' = IF ports[p] = None THEN seen ELSE [seen EXCEPT ![ports[p]] = "fresh"]

\* ps.mu, then pt.mu: the packet counts as activity.
HandlerTouchFlow(h) ==
  /\ handler[h].pc = "touch"
  /\ TouchFlow(handler[h].sess, h[2])
  /\ Goto(h, "touchPort", handler[h].sess)
  /\ UNCHANGED <<ports, seen, sessVars, reply, toClose, panicked>>

HandlerTouchPort(h) ==
  /\ handler[h].pc = "touchPort"
  /\ TouchPort(h[1])
  /\ Goto(h, "serve", handler[h].sess)
  /\ UNCHANGED <<ports, flows, sessVars, reply, toClose, panicked>>

\* ReadFrom returns the next packet of the client, or an error of the stack.
Packet(h) ==
  /\ handler[h].pc = "serve"
  /\ \E pc \in {"send", "cleanup"} : Goto(h, pc, handler[h].sess)
  /\ UNCHANGED <<ports, seen, flows, sessVars, reply, toClose, panicked>>

\* ps.mu, then s.mu: the handler removes its destination and returns.
HandlerCleanup(h) ==
  /\ handler[h].pc = "cleanup"
  /\ flows' = [flows EXCEPT ![handler[h].sess][h[2]] = "none"]
  /\ Goto(h, "unsub", handler[h].sess)
  /\ UNCHANGED <<ports, seen, sessVars, reply, toClose, panicked>>

\* Mutant of HandlerUnsubscribe: the subscription is left to the collector.
HandlerUnsubscribe_LeftToGC(h) ==
  /\ handler[h].pc = "unsub"
  /\ Return(h)
  /\ UNCHANGED <<ports, seen, flows, sessVars, toClose, panicked>>

HandlerUnsubscribe(h) ==
  /\ handler[h].pc = "unsub"
  /\ Unsubscribe({<<handler[h].sess, h[2]>>})
  /\ Return(h)
  /\ UNCHANGED <<ports, seen, flows, toClose, panicked>>

-----------------------------------------------------------------------------
(* The reply goroutine r.                                                  *)

ReplyGoto(r, pc) == reply' = [reply EXCEPT ![r].pc = pc]

\* A payload, or the end of the channel.
Receive(r) ==
  LET c == reply[r].ch
  IN  /\ reply[r].pc = "wait"
      /\ \/ buf[c] > 0 /\ buf' = [buf EXCEPT ![c] = @ - 1] /\ ReplyGoto(r, "write")
         \/ buf[c] = 0 /\ Shut(c) /\ UNCHANGED buf /\ ReplyGoto(r, "unsub")
      /\ UNCHANGED <<ports, seen, flows, conn, subs, reader, handler, toClose, panicked>>

\* nsUDP.Write fails for sure once the handler has returned.
WriteBack(r) ==
  /\ reply[r].pc = "write"
  /\ \/ ~reply[r].orphan /\ ReplyGoto(r, "touch")
     \/ ReplyGoto(r, "unsub")
  /\ UNCHANGED <<ports, seen, flows, sessVars, handler, toClose, panicked>>

ReplyTouchFlow(r) ==
  /\ reply[r].pc = "touch"
  /\ TouchFlow(reply[r].sess, reply[r].of[2])
  /\ ReplyGoto(r, "touchPort")
  /\ UNCHANGED <<ports, seen, sessVars, handler, toClose, panicked>>

ReplyTouchPort(r) ==
  /\ reply[r].pc = "touchPort"
  /\ TouchPort(reply[r].of[1])
  /\ ReplyGoto(r, "wait")
  /\ UNCHANGED <<ports, flows, sessVars, handler, toClose, panicked>>

\* The deferred Unsubscribe, by destination and not by channel.
ReplyUnsubscribe(r) ==
  /\ reply[r].pc = "unsub"
  /\ Unsubscribe({<<reply[r].sess, reply[r].of[2]>>})
  /\ reply' = [reply EXCEPT ![r] = NoReply]
  /\ UNCHANGED <<ports, seen, flows, handler, toClose, panicked>>

-----------------------------------------------------------------------------
(* gcOnce.                                                                 *)

\* t.mu: idle destinations are unsubscribed, idle sessions leave the table.
GCPrune ==
  LET stale == {<<ports[p], d>> : p \in Occupied, d \in Dst}
                 \cap {k \in Sess \X Dst : flows[k[1]][k[2]] = "idle"}
      old   == {p \in Occupied : seen[ports[p]] = "idle"}
  IN  /\ toClose = {}
      /\ stale # {} \/ old # {}
      /\ flows' = [s \in Sess |-> [d \in Dst |-> IF <<s, d>> \in stale THEN "none" ELSE flows[s][d]]]
      /\ Unsubscribe(stale)
      /\ ports' = [p \in Port |-> IF p \in old THEN None ELSE ports[p]]
      /\ toClose' = {ports[p] : p \in old}
      /\ UNCHANGED <<seen, handler, reply, panicked>>

\* Mutant of GCClose: the sessions are dropped without a Close.
GCClose_Forgets(s) ==
  /\ s \in toClose
  /\ toClose' = toClose \ {s}
  /\ UNCHANGED <<ports, seen, flows, sessVars, handler, reply, panicked>>

\* After the unlock they are closed one by one.
GCClose(s) ==
  /\ s \in toClose
  /\ CloseSess(s)
  /\ toClose' = toClose \ {s}
  /\ UNCHANGED <<ports, seen, flows, handler, reply, panicked>>

\* An idle timeout of a session in the table passes.
Age(s) ==
  /\ \E p \in Port : ports[p] = s
  /\ \/ /\ seen[s] = "fresh"
        /\ seen' = [seen EXCEPT ![s] = "idle"]
        /\ UNCHANGED flows
     \/ /\ \E d \in Dst : flows[s][d] = "fresh" /\ flows' = [flows EXCEPT ![s][d] = "idle"]
        /\ UNCHANGED seen
  /\ UNCHANGED <<ports, sessVars, handler, reply, toClose, panicked>>

-----------------------------------------------------------------------------
HandlerStep(h) ==
  \/ Dial(h) \/ Insert(h) \/ SubscribeDst(h) \/ Send(h)
  \/ HandlerTouchFlow(h) \/ HandlerTouchPort(h)
  \/ HandlerCleanup(h) \/ HandlerUnsubscribe(h)

ReplyStep(r) ==
  Receive(r) \/ WriteBack(r) \/ ReplyTouchFlow(r) \/ ReplyTouchPort(r) \/ ReplyUnsubscribe(r)

SessStep(s) == ReadSend(s) \/ ReadEnds(s) \/ GCClose(s) \/ Age(s)

\* What the client and the upstream do.
Traffic ==
  \/ \E h \in Handler : Lookup(h) \/ Packet(h)
  \/ \E s \in Sess, d \in Dst : ReadLookup(s, d)

Next ==
  /\ ~panicked
  /\ \/ Traffic
     \/ \E h \in Handler : HandlerStep(h)
     \/ \E r \in Reply : ReplyStep(r)
     \/ \E s \in Sess : SessStep(s) \/ ConnDies(s)
     \/ GCPrune

Spec == Init /\ [][Next]_vars

\* Goroutines are scheduled, the ticker of the collector fires, time passes.
Fairness ==
  /\ \A h \in Handler : WF_vars(~panicked /\ HandlerStep(h))
  /\ \A r \in Reply : WF_vars(~panicked /\ ReplyStep(r))
  /\ \A s \in Sess :
       /\ WF_vars(~panicked /\ (ReadSend(s) \/ ReadEnds(s)))
       /\ WF_vars(~panicked /\ GCClose(s)) /\ WF_vars(~panicked /\ Age(s))
  /\ WF_vars(~panicked /\ GCPrune)

FairSpec == Spec /\ Fairness

-----------------------------------------------------------------------------
TypeOK ==
  /\ ports \in [Port -> Sess \cup {None}]
  /\ seen \in [Sess -> Mark]
  /\ flows \in [Sess -> [Dst -> Mark \cup {"none"}]]
  /\ conn \in [Sess -> {"open", "dead", "closed"}]
  /\ subs \in [Sess -> [Dst -> Chan \cup {None}]]
  /\ reader \in [Sess -> [pc : {"read", "send", "done"}, ch : Chan \cup {None}]]
  /\ buf \in [Chan -> 0 .. ChanCap]
  /\ \A h \in Handler :
       /\ handler[h].pc \in {"idle", "dial", "insert", "subscribe", "send", "touch",
                             "touchPort", "serve", "cleanup", "unsub"}
       /\ handler[h].sess \in IF handler[h].pc \in {"idle", "dial"} THEN {None} ELSE Sess
  /\ \A r \in Reply :
       \/ reply[r] = NoReply
       \/ /\ reply[r].pc \in {"wait", "write", "touch", "touchPort", "unsub"}
          /\ reply[r].sess \in Sess /\ reply[r].of \in Handler /\ reply[r].ch \in Chan
  /\ toClose \subseteq Sess
  /\ panicked \in BOOLEAN

\* A session whose connection has not been closed is in the table, about to be
\* stored by the handler that dialled it, or about to be closed by gcOnce: neither
\* two handlers racing in getOrCreate nor the collector leaks one (getOrCreate:
\* "close the duplicate to avoid leaking ws/crypto state and background readers").
NoSessionLeak ==
  \A s \in Sess : conn[s] # "closed" =>
    \/ s \in toClose
    \/ \E p \in Port : ports[p] = s
    \/ \E h \in Handler : handler[h].pc = "insert" /\ handler[h].sess = s

\* A subscribed channel has exactly one reply goroutine, which serves
\* that destination: payloads are neither shared between two goroutines nor queued
\* for nobody, whatever the order of the four places that unsubscribe.
SubscribedOnce ==
  \A s \in Sess, d \in Dst : subs[s][d] # None =>
    /\ \E r \in Reply : reply[r].ch = subs[s][d] /\ reply[r].sess = s /\ reply[r].of[2] = d
    /\ Cardinality({r \in Reply : reply[r].ch = subs[s][d]}) = 1

\* Once the traffic has stopped for good, gcOnce empties the table, closes every
\* connection and thereby ends every reply goroutine and readLoop.
QuietDrains ==
  <>[][~Traffic]_vars =>
    <>[](\/ panicked
         \/ /\ Occupied = {}
            /\ \A s \in Sess : conn[s] = "closed" /\ reader[s].pc = "done"
            /\ \A r \in Reply : reply[r].pc = "free")

\* readLoop never sends on a channel that Unsubscribe or Close has closed meanwhile
\* (README: "High concurrency safe").
NoPanic == ~panicked
=============================================================================
