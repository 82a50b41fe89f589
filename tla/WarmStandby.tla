----------------------------- MODULE WarmStandby -----------------------------
(***************************************************************************)
(* Warm standby connections (internal/warm_standby.go and RunWarmStandby,  *)
(* DialWSStreamLimited of internal/lb.go).                                 *)
(*                                                                         *)
(* Every upstream has one standby connection per protocol; a slot is such  *)
(* a pair.  Four kinds of goroutines move connections about, locking       *)
(* standbyMu only for the moment of a swap: the RunWarmStandby loop with   *)
(* its keepalive pass, the Ensure goroutines the loop spawns, and client   *)
(* flows that acquire.  A connection is an identifier that is free, or     *)
(* open with a peer that is alive or gone; a closed one becomes free.      *)
(***************************************************************************)
EXTENDS Integers, FiniteSets, FiniteSetsExt, Sequences, Functions

CONSTANTS
  Pool,          \* lb.pool, a sequence of upstreams
  Protos,        \* the protocols of this instance, <<"tcp", "udp">> in the code's order
  Flow,          \* client flows
  Ensurer,       \* goroutines running EnsureStandbyTCP / EnsureStandbyUDP
  Serving,       \* the upstreams that ever become usable
  MaxConn,       \* bound on the connections open at once
  WarmStandbyN,  \* selection.warm_standby_n
  DialLimit,     \* capacity of dialSem
  Keepalive,     \* selection.standby_keepalive
  Transports     \* what may implement WSConn: "h1", "h2", "h3", or "pong", see wsAliveCheck

None     == 0
Upstream == Range(Pool)
Proto    == Range(Protos)
Slot     == Upstream \X Proto
Endpoint == Serving \X (Proto \cup {"tcp"})
Conn     == 1 .. MaxConn

\* The i-th slot checkStandbyKeepalive visits, and how many there are.
SlotAt(i) == <<Pool[((i - 1) \div Len(Protos)) + 1], Protos[((i - 1) % Len(Protos)) + 1]>>
SlotCount == Len(Protos) * Len(Pool)

ASSUME StandbyAssumption ==
  /\ Pool \in Seq(Upstream) /\ Len(Pool) > 0
  /\ Protos \in Seq({"tcp", "udp"}) /\ Len(Protos) > 0
  /\ IsFiniteSet(Flow) /\ IsFiniteSet(Ensurer)
  /\ MaxConn \in Nat /\ Serving \subseteq Upstream
  /\ WarmStandbyN \in Nat /\ DialLimit \in Nat \ {0}
  /\ Keepalive \in BOOLEAN
  /\ Transports \subseteq {"pong", "h1", "h2", "h3"}

VARIABLES
  standby,   \* standby[s]: standbyTCP / standbyUDP
  open,      \* the open connections
  gone,      \* the open connections whose peer has silently closed
  usable,    \* usable[e]: the endpoint is healthy and not cooling down
  loop,      \* the RunWarmStandby goroutine
  ensure,    \* ensure[g]: an Ensure goroutine
  flow,      \* flow[f]: a client flow acquiring or using a connection
  dialSem,   \* tokens in dialSem
  ctxDone,   \* the root context is cancelled
  transport  \* what the URLs of the upstreams make DialWSStream return

vars == <<standby, open, gone, usable, loop, ensure, flow, dialSem, ctxDone, transport>>

\* stale is a history field: the peer of the connection was gone already when the
\* flow asked for one.
Idle     == [pc |-> "idle", slot |-> SlotAt(1), conn |-> None]
IdleFlow == [pc |-> "idle", slot |-> SlotAt(1), conn |-> None, stale |-> FALSE]
Waiting  == [pc |-> "select", i |-> 1, conn |-> None]

Init ==
  /\ standby = [s \in Slot |-> None]
  /\ open = {} /\ gone = {}
  /\ usable = [e \in Endpoint |-> FALSE]
  /\ loop = Waiting
  /\ ensure = [g \in Ensurer |-> Idle]
  /\ flow = [f \in Flow |-> IdleFlow]
  /\ dialSem = 0
  /\ ctxDone = FALSE
  /\ transport \in Transports

Close(c) == open' = open \ {c} /\ gone' = gone \ {c}
Keep     == UNCHANGED <<open, gone>>

\* DialWSStream returns the fresh connection c, for which any free identifier
\* will do.
Dialled(c) == c \notin open /\ (\A d \in 1 .. c - 1 : d \in open) /\ open' = open \cup {c} /\ gone' = gone

\* The answers wsAliveCheck may give on c; none means that it does not return.
\* "pong" is the WSConn it is written for (and tested with): Read returns the Pong,
\* which may be late, or the context's error.  The real ones keep the Pong to
\* themselves: coderConn (h1) sends the Ping as data and waits for the deadline;
\* framedWSConn skips the Pong and blocks in the next read, which on h2 ends when a
\* frame arrives (the context of the dial is over by then, so readLoop stops) and
\* on h3 at the idle timeout of QUIC.
wsAliveCheck(c) ==
  CASE transport = "pong" -> IF c \in gone THEN {FALSE} ELSE BOOLEAN
    [] transport = "h2"   -> IF c \in gone THEN {} ELSE {FALSE}
    [] OTHER              -> {FALSE}   \* h1, h3

-----------------------------------------------------------------------------
(* RunWarmStandby.                                                         *)

\* pickTopN: N upstreams usable for TCP, or all of them if there are fewer.
pickTopN ==
  LET ok == {u \in Serving : usable[<<u, "tcp">>]}
  IN  kSubset(Min({WarmStandbyN, Cardinality(ok)}), ok)

\* An idle goroutine for each slot, and the state in which they start.
Assigned(slots, free) == CHOOSE g \in [slots -> free] : IsInjective(g)

Started(g) ==
  [x \in Ensurer |-> IF x \in Range(g)
                     THEN [Idle EXCEPT !.pc = "status", !.slot = CHOOSE s \in DOMAIN g : g[s] = x]
                     ELSE ensure[x]]

\* The ticker: an Ensure goroutine per protocol is started for each top upstream.
WarmTick ==
  /\ loop.pc = "select"
  /\ \E top \in pickTopN :
       LET slots == top \X Proto
           free  == {x \in Ensurer : ensure[x].pc = "idle"}
       IN  /\ slots # {} /\ Cardinality(slots) <= Cardinality(free)
           /\ ensure' = Started(Assigned(slots, free))
  /\ UNCHANGED <<standby, open, gone, usable, loop, flow, dialSem, ctxDone, transport>>

\* The keepalive pass goes on with the next slot, or is over.
AfterSlot == IF loop.i = SlotCount THEN Waiting
             ELSE [pc |-> "next", i |-> loop.i + 1, conn |-> None]

\* keepaliveOneStandby takes the connection out of its slot.
KeepaliveTake ==
  /\ Keepalive
  /\ loop.pc \in {"select", "next"}
  /\ LET s == SlotAt(loop.i)
     IN  /\ standby' = [standby EXCEPT ![s] = None]
         /\ loop' = IF standby[s] = None THEN AfterSlot
                    ELSE [loop EXCEPT !.pc = "check", !.conn = standby[s]]
  /\ UNCHANGED <<open, gone, usable, ensure, flow, dialSem, ctxDone, transport>>

KeepaliveCheck ==
  /\ loop.pc = "check"
  /\ \E ok \in wsAliveCheck(loop.conn) :
       \/ ok /\ loop' = [loop EXCEPT !.pc = "put"] /\ Keep
       \/ ~ok /\ loop' = AfterSlot /\ Close(loop.conn)
  /\ UNCHANGED <<standby, usable, ensure, flow, dialSem, ctxDone, transport>>

\* Back into the slot, unless somebody has filled it meanwhile.
KeepalivePut ==
  /\ loop.pc = "put"
  /\ LET s == SlotAt(loop.i)
     IN  \/ standby[s] = None /\ standby' = [standby EXCEPT ![s] = loop.conn] /\ Keep
         \/ standby[s] # None /\ UNCHANGED standby /\ Close(loop.conn)
  /\ loop' = AfterSlot
  /\ UNCHANGED <<usable, ensure, flow, dialSem, ctxDone, transport>>

\* Mutant of CloseUpstream: the loop goes on after the last upstream.
CloseUpstream_NoReturn ==
  /\ \/ loop.pc = "select" /\ ctxDone
     \/ loop.pc = "closing"
  /\ LET mine == {Pool[loop.i]} \X Proto
     IN  /\ standby' = [s \in Slot |-> IF s \in mine THEN None ELSE standby[s]]
         /\ open' = open \ {standby[s] : s \in mine}
         /\ gone' = gone \ {standby[s] : s \in mine}
  /\ loop' = IF loop.i = Len(Pool) THEN Waiting
             ELSE [loop EXCEPT !.pc = "closing", !.i = loop.i + 1]
  /\ UNCHANGED <<usable, ensure, flow, dialSem, ctxDone, transport>>

\* ctx.Done(): the standby connections are closed, one upstream after the other.
CloseUpstream ==
  /\ \/ loop.pc = "select" /\ ctxDone
     \/ loop.pc = "closing"
  /\ LET mine == {Pool[loop.i]} \X Proto
     IN  /\ standby' = [s \in Slot |-> IF s \in mine THEN None ELSE standby[s]]
         /\ open' = open \ {standby[s] : s \in mine}
         /\ gone' = gone \ {standby[s] : s \in mine}
  /\ loop' = IF loop.i = Len(Pool) THEN [Waiting EXCEPT !.pc = "returned"]
             ELSE [loop EXCEPT !.pc = "closing", !.i = loop.i + 1]
  /\ UNCHANGED <<usable, ensure, flow, dialSem, ctxDone, transport>>

-----------------------------------------------------------------------------
(* EnsureStandbyTCP / EnsureStandbyUDP, goroutine g.                       *)

EnsureGoto(g, pc) == ensure' = [ensure EXCEPT ![g].pc = pc]

\* up.mu: is the endpoint fine?
EnsureStatus(g) ==
  /\ ensure[g].pc = "status"
  /\ EnsureGoto(g, IF usable[ensure[g].slot] THEN "exists" ELSE "reset")
  /\ UNCHANGED <<standby, open, gone, usable, loop, flow, dialSem, ctxDone, transport>>

\* standbyMu: the standby of a bad endpoint is dropped.
EnsureReset(g) ==
  LET s == ensure[g].slot
  IN  /\ ensure[g].pc = "reset"
      /\ Close(standby[s])
      /\ standby' = [standby EXCEPT ![s] = None]
      /\ ensure' = [ensure EXCEPT ![g] = Idle]
      /\ UNCHANGED <<usable, loop, flow, dialSem, ctxDone, transport>>

\* Mutant of EnsureExists: the test is inverted.
EnsureExists_Inverted(g) ==
  /\ ensure[g].pc = "exists"
  /\ ensure' = [ensure EXCEPT ![g] = IF standby[@.slot] = None THEN Idle ELSE [@ EXCEPT !.pc = "dial"]]
  /\ UNCHANGED <<standby, open, gone, usable, loop, flow, dialSem, ctxDone, transport>>

\* standbyMu: is there one already?
EnsureExists(g) ==
  /\ ensure[g].pc = "exists"
  /\ ensure' = [ensure EXCEPT ![g] = IF standby[@.slot] # None THEN Idle ELSE [@ EXCEPT !.pc = "dial"]]
  /\ UNCHANGED <<standby, open, gone, usable, loop, flow, dialSem, ctxDone, transport>>

\* DialWSStream, outside the locks and outside the dial limit.
EnsureDial(g) ==
  /\ ensure[g].pc = "dial"
  /\ \/ \E c \in Conn : Dialled(c) /\ ensure' = [ensure EXCEPT ![g].pc = "store", ![g].conn = c]
     \/ Keep /\ ensure' = [ensure EXCEPT ![g] = Idle]
  /\ UNCHANGED <<standby, usable, loop, flow, dialSem, ctxDone, transport>>

\* Mutant of EnsureStore: a standby stored meanwhile is overwritten.
EnsureStore_Overwrites(g) ==
  /\ ensure[g].pc = "store"
  /\ standby' = [standby EXCEPT ![ensure[g].slot] = ensure[g].conn]
  /\ ensure' = [ensure EXCEPT ![g] = Idle]
  /\ UNCHANGED <<open, gone, usable, loop, flow, dialSem, ctxDone, transport>>

\* standbyMu: stored, unless somebody was faster.
EnsureStore(g) ==
  LET s == ensure[g].slot
  IN  /\ ensure[g].pc = "store"
      /\ \/ standby[s] = None /\ standby' = [standby EXCEPT ![s] = ensure[g].conn] /\ Keep
         \/ standby[s] # None /\ UNCHANGED standby /\ Close(ensure[g].conn)
      /\ ensure' = [ensure EXCEPT ![g] = Idle]
      /\ UNCHANGED <<usable, loop, flow, dialSem, ctxDone, transport>>

-----------------------------------------------------------------------------
(* acquireTCPWS / AcquireUDPWS and the flow that calls it.                 *)

\* standbyMu: the standby is taken; a UDP one is used as it is.
AcquireTake(f, s) ==
  /\ flow[f].pc = "idle"
  /\ standby' = [standby EXCEPT ![s] = None]
  /\ flow' = [flow EXCEPT ![f] =
                [pc |-> IF standby[s] = None THEN "slot"
                        ELSE IF s[2] = "tcp" THEN "check" ELSE "using",
                 slot |-> s, conn |-> standby[s], stale |-> standby[s] \in gone]]
  /\ UNCHANGED <<open, gone, usable, loop, ensure, dialSem, ctxDone, transport>>

\* Mutant of AcquireCheck: a failed check is ignored.
AcquireCheck_Ignored(f) ==
  /\ flow[f].pc = "check"
  /\ flow' = [flow EXCEPT ![f].pc = "using"]
  /\ UNCHANGED <<standby, open, gone, usable, loop, ensure, dialSem, ctxDone, transport>>

\* A standby that does not answer is closed and a fresh connection dialled.
AcquireCheck(f) ==
  /\ flow[f].pc = "check"
  /\ \E ok \in wsAliveCheck(flow[f].conn) :
       \/ ok /\ flow' = [flow EXCEPT ![f].pc = "using"] /\ Keep
       \/ ~ok /\ flow' = [flow EXCEPT ![f] = [IdleFlow EXCEPT !.pc = "slot", !.slot = flow[f].slot]]
              /\ Close(flow[f].conn)
  /\ UNCHANGED <<standby, usable, loop, ensure, dialSem, ctxDone, transport>>

\* acquireDialSlot: a token, or the end of the context.
acquireDialSlot(f) ==
  /\ flow[f].pc = "slot"
  /\ \/ dialSem < DialLimit /\ dialSem' = dialSem + 1 /\ flow' = [flow EXCEPT ![f].pc = "dial"]
     \/ ctxDone /\ UNCHANGED dialSem /\ flow' = [flow EXCEPT ![f] = IdleFlow]
  /\ UNCHANGED <<standby, open, gone, usable, loop, ensure, ctxDone, transport>>

\* Mutant of FlowDial: the token of a failed dial is kept.
FlowDial_KeepsToken(f) ==
  /\ flow[f].pc = "dial"
  /\ \/ /\ \E c \in Conn : Dialled(c) /\ flow' = [flow EXCEPT ![f].pc = "using", ![f].conn = c]
        /\ dialSem' = dialSem - 1
     \/ Keep /\ UNCHANGED dialSem /\ flow' = [flow EXCEPT ![f] = IdleFlow]
  /\ UNCHANGED <<standby, usable, loop, ensure, ctxDone, transport>>

\* DialWSStream returns and releaseDialSlot gives the token back.
FlowDial(f) ==
  /\ flow[f].pc = "dial"
  /\ \/ \E c \in Conn : Dialled(c) /\ flow' = [flow EXCEPT ![f].pc = "using", ![f].conn = c]
     \/ Keep /\ flow' = [flow EXCEPT ![f] = IdleFlow]
  /\ dialSem' = IF dialSem > 0 THEN dialSem - 1 ELSE dialSem
  /\ UNCHANGED <<standby, usable, loop, ensure, ctxDone, transport>>

\* The flow ends and closes its connection.
FlowEnd(f) ==
  /\ flow[f].pc = "using"
  /\ Close(flow[f].conn)
  /\ flow' = [flow EXCEPT ![f] = IdleFlow]
  /\ UNCHANGED <<standby, usable, loop, ensure, dialSem, ctxDone, transport>>

-----------------------------------------------------------------------------
(* The environment.                                                        *)

\* Checks and reports change the status of an endpoint (EndpointStatus).
ChangeStatus(e) ==
  /\ usable' = [usable EXCEPT ![e] = ~@]
  /\ UNCHANGED <<standby, open, gone, loop, ensure, flow, dialSem, ctxDone, transport>>

\* A server silently drops a connection nobody is using.
PeerGone(c) ==
  /\ c \in open \ gone
  /\ \A f \in Flow : ~(flow[f].pc = "using" /\ flow[f].conn = c)
  /\ gone' = gone \cup {c}
  /\ UNCHANGED <<standby, open, usable, loop, ensure, flow, dialSem, ctxDone, transport>>

Shutdown ==
  /\ ~ctxDone
  /\ ctxDone' = TRUE
  /\ UNCHANGED <<standby, open, gone, usable, loop, ensure, flow, dialSem, transport>>

LoopStep == WarmTick \/ KeepaliveTake \/ KeepaliveCheck \/ KeepalivePut \/ CloseUpstream

EnsureStep(g) ==
  EnsureStatus(g) \/ EnsureReset(g) \/ EnsureExists(g) \/ EnsureDial(g) \/ EnsureStore(g)

FlowStep(f) ==
  \/ \E s \in Serving \X Proto : AcquireTake(f, s)
  \/ AcquireCheck(f) \/ acquireDialSlot(f) \/ FlowDial(f) \/ FlowEnd(f)

Next ==
  \/ LoopStep
  \/ \E g \in Ensurer : EnsureStep(g)
  \/ \E f \in Flow : FlowStep(f)
  \/ \E e \in Endpoint : ChangeStatus(e)
  \/ \E c \in Conn : PeerGone(c)
  \/ Shutdown

Spec == Init /\ [][Next]_vars

\* The goroutine is in a dial that neither its timeout nor the cancel need end.
MayBlock(g) == transport = "h2" /\ ensure[g].pc = "dial"

\* The keepalive pass is blocked in the check of a peer that has gone silent.
LoopStuck == loop.pc = "check" /\ wsAliveCheck(loop.conn) = {}

\* The tickers fire, Go's select takes a ready branch sooner or later.  A dial ends,
\* because it runs under a timeout, except over raw HTTP/2, where it may wait for the
\* server whatever its context says.  An alive check that has an answer returns.
Fairness ==
  /\ SF_vars(WarmTick) /\ SF_vars(CloseUpstream)
  /\ WF_vars(KeepaliveCheck) /\ WF_vars(KeepalivePut)
  /\ WF_vars(loop.pc = "next" /\ KeepaliveTake)
  /\ \A g \in Ensurer : WF_vars(EnsureStep(g) /\ ~MayBlock(g))

FairSpec == Spec /\ Fairness

-----------------------------------------------------------------------------
TypeOK ==
  /\ standby \in [Slot -> Conn \cup {None}]
  /\ open \subseteq Conn /\ gone \subseteq open
  /\ usable \in [Endpoint -> BOOLEAN]
  /\ loop \in [pc : {"select", "next", "check", "put", "closing", "returned"},
               i : 1 .. SlotCount, conn : Conn \cup {None}]
  /\ ensure \in [Ensurer -> [pc : {"idle", "status", "reset", "exists", "dial", "store"},
                             slot : Slot, conn : Conn \cup {None}]]
  /\ flow \in [Flow -> [pc : {"idle", "check", "slot", "dial", "using"}, slot : Slot,
                        conn : Conn \cup {None}, stale : BOOLEAN]]
  /\ dialSem \in 0 .. DialLimit
  /\ ctxDone \in BOOLEAN
  /\ transport \in Transports

\* Who holds a reference to c.
Owners(c) ==
  {<<"standby", s>> : s \in {s \in Slot : standby[s] = c}}
    \cup {<<"ensure", g>> : g \in {g \in Ensurer : ensure[g].conn = c}}
    \cup {<<"flow", f>> : f \in {f \in Flow : flow[f].conn = c}}
    \cup {<<"loop", x>> : x \in {x \in {c} : loop.conn = c}}

\* Every open connection has exactly one owner (a slot, the keepalive pass, an
\* Ensure goroutine or a flow) and a closed one has none: no interleaving of the
\* swaps under standbyMu leaks a connection, hands one to two flows, or closes
\* one a flow is using.
ExactlyOneOwner ==
  \A c \in Conn : Cardinality(Owners(c)) = IF c \in open THEN 1 ELSE 0

\* A TCP flow never gets a standby whose peer was gone when the flow asked for it
\* (README: "TCP: warm standby with active liveness validation before handoff").
FreshHandoff ==
  \A f \in Flow : flow[f].pc = "using" /\ flow[f].slot[2] = "tcp" => ~flow[f].stale

\* dialSem holds one token per flow inside DialWSStreamLimited, never more than the
\* limit, whichever dials fail and whichever flows give up waiting.
DialSlotsExact ==
  /\ dialSem = Cardinality({f \in Flow : flow[f].pc = "dial"})
  /\ dialSem <= DialLimit

\* The slot of an endpoint that stays usable, on one of the top upstreams (no more
\* of them are usable than warm_standby_n), is filled again and again, whoever
\* empties it (README: "stale standby links are dropped and recreated on the next
\* warm cycle").  Two premises: a dial that is tried again and again succeeds at last
\* (a step of EnsureDial that changes open), and the warm loop is not blocked for ever
\* in the alive check of a silent peer, which on h2 nothing ends (LoopStuck).
Restocks ==
  \A s \in Serving \X Proto :
    /\ []~ctxDone
    /\ <>[](/\ usable[s] /\ usable[<<s[1], "tcp">>]
           /\ Cardinality({u \in Serving : usable[<<u, "tcp">>]}) <= WarmStandbyN)
    /\ \A g \in Ensurer : SF_open(EnsureDial(g))
    => []<>(standby[s] # None \/ LoopStuck)

\* Cancelling the root context ends the loop, also in the middle of a keepalive pass,
\* and every Ensure goroutine.  On h2 two calls do not look at the cancel and may
\* outlive it: the alive check of a silent peer, in which the loop then stays, and the
\* dial of an Ensure goroutine.
ShutdownEnds ==
  ctxDone ~> /\ loop.pc = "returned" \/ LoopStuck
             /\ \A g \in Ensurer : ensure[g].pc = "idle" \/ MayBlock(g)
=============================================================================
