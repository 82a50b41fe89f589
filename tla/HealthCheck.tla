----------------------------- MODULE HealthCheck -----------------------------
(***************************************************************************)
(* The adaptive health checker of the load balancer (internal/lb.go).      *)
(*                                                                         *)
(* An endpoint is an <<upstream, protocol>> pair: every upstream carries   *)
(* one hcState for TCP and one for UDP, and checkOneTCP / checkOneUDP are  *)
(* the same procedure on the two.  The scheduler starts one goroutine      *)
(* per due endpoint; the goroutine takes one of ProbeLimit execution       *)
(* slots, probes under one of DialLimit dial slots, optionally probes the  *)
(* quality of the path, applies the result and returns its slot.  Client   *)
(* flows report failures concurrently.                                     *)
(*                                                                         *)
(* Time is kept as countdowns: nextHC[e] and cooldown[e] hold the ticks    *)
(* left until the code's absolute deadline.  nextHC stops at 0 ("not       *)
(* After(now)").  cooldown stops at -1, so that -1, 0 and a positive       *)
(* number are the deadline in the past (or the zero time), exactly now,    *)
(* and in the future.                                                      *)
(***************************************************************************)
EXTENDS Integers, FiniteSets

CONSTANTS
  Upstream,          \* the pool
  Worker,            \* goroutines running checkOneTCP / checkOneUDP
  ProbeLimit,        \* probeParallelLimit, capacity of probeSem
  DialLimit,         \* probeDialParallelLimit, capacity of probeDialSem
  FailThreshold,     \* hc.fail_threshold
  SuccessThreshold,  \* hc.success_threshold
  Interval,          \* hc.interval, in ticks
  MinInterval,       \* hc.min_interval
  MaxInterval,       \* hc.max_interval
  Jitter,            \* hc.jitter
  BackoffNum,        \* hc.backoff_factor = BackoffNum / BackoffDen
  BackoffDen,
  MaxRTTAdd,         \* the largest rttEWMA * rtt_scale, in ticks
  Cooldown,          \* selection.cooldown
  QualityProtos,     \* protocols with probe.enable_tcp / probe.enable_udp
  FlowProtos,        \* protocols the client flows use
  StallingProtos     \* protocols dialled over raw HTTP/2, whose reads ignore the context

Proto    == {"tcp", "udp"}
Endpoint == Upstream \X Proto

ASSUME LimitsAssumption ==
  /\ Upstream # {}
  /\ ProbeLimit \in Nat \ {0}
  /\ DialLimit \in Nat \ {0}
  /\ IsFiniteSet(Worker)

ASSUME ThresholdAssumption ==
  /\ FailThreshold \in Nat \ {0}
  /\ SuccessThreshold \in Nat \ {0}

ASSUME IntervalAssumption ==
  /\ Interval \in Nat \ {0}
  /\ MinInterval \in Nat \ {0}
  /\ MaxInterval \in Nat \ {0}
  /\ Jitter \in Nat
  /\ BackoffNum \in Nat \ {0}
  /\ BackoffDen \in Nat \ {0}
  /\ MaxRTTAdd \in Nat
  /\ Cooldown \in Nat \ {0}

ASSUME ProbeAssumption ==
  /\ QualityProtos \subseteq Proto
  /\ FlowProtos \subseteq Proto
  /\ StallingProtos \subseteq Proto

VARIABLES
  hc,            \* hc[e]: the hcState of endpoint e
  cooldown,      \* cooldown[e]: ticks left of tcpCooldownUntil / udpCooldownUntil
  work,          \* work[w]: the check goroutine w
  probeSem,      \* number of tokens in the channel probeSem
  probeDialSem,  \* number of tokens in the channel probeDialSem
  sched,         \* the scheduler goroutine: "running", "stopped", or "off" (-no-probes)
  ctxDone,       \* the root context is cancelled
  reachable,     \* reachable[e]: how the server of e treats a probe (environment)
  held           \* endpoints some client flow has picked and may report

vars == <<hc, cooldown, work, probeSem, probeDialSem, sched, ctxDone, reachable, held>>

Pc == {"idle", "slot", "dial", "probe", "qdial", "quality", "apply", "release"}

\* A goroutine that has been launched and has not yet cleared inFlight.
Checking == {"slot", "dial", "probe", "qdial", "quality", "apply"}
\* A goroutine that holds an execution slot; one that holds a dial slot.
Holding  == {"dial", "probe", "qdial", "quality", "apply", "release"}
Dialling == {"probe", "quality"}

\* A server accepts a probe, refuses it, or takes the connection and says nothing.
Answer == {"up", "down", "silent"}

\* A probe of a silent server runs into its deadline, so the server counts as down,
\* except over raw HTTP/2, where readFrame and the framed Read wait for the server.
CanBeSilent(e) == e[2] \in StallingProtos

Reachability == {r \in [Endpoint -> Answer] : \A e \in Endpoint : r[e] = "silent" => CanBeSilent(e)}

Status == INSTANCE EndpointStatus WITH healthy <- [e \in Endpoint |-> hc[e].healthy]

CountDown(n, floor) == IF n > floor THEN n - 1 ELSE floor

Busy(S) == {w \in Worker : work[w].pc \in S}

-----------------------------------------------------------------------------
(* Interval arithmetic (util.go, lb.go).                                   *)

\* The deadlines applyJitter may return for the duration d.
applyJitter(d) == {IF d + j < 0 THEN d ELSE d + j : j \in (-Jitter) .. Jitter}

minDur(a, b) == IF a < b THEN a ELSE b

Clamp(d) ==
  LET raised == IF d < MinInterval THEN MinInterval ELSE d
  IN  IF raised > MaxInterval THEN MaxInterval ELSE raised

nextIntervalOnFailure(every, healthy) ==
  LET base == IF every > 0 /\ ~healthy THEN every ELSE MinInterval
  IN  Clamp((base * BackoffNum) \div BackoffDen)

\* add is the contribution rttEWMA * rtt_scale.
nextIntervalOnSuccess(every, successCount, add) ==
  LET base == IF every = 0 THEN Interval ELSE every
      b    == IF successCount < 3 THEN minDur(base, Interval) ELSE base
  IN  Clamp((b * 6) \div 5 + add)

\* The counters saturate at the largest value the code tells apart.
FailCap    == FailThreshold
SuccessCap == IF SuccessThreshold < 3 THEN 3 ELSE SuccessThreshold

Bump(n, cap) == IF n < cap THEN n + 1 ELSE n

-----------------------------------------------------------------------------
(* What a finished check does to an hcState.  lastError is kept as a flag. *)

hcState ==
  [healthy : BOOLEAN, failCount : 0 .. FailCap, successCount : 0 .. SuccessCap,
   inFlight : BOOLEAN, lastError : BOOLEAN, nextHC : Nat, hcEvery : Nat]

\* applyHCResult on a probe error; n is the jittered delay to the next check.
FailedCheck(h, n) ==
  LET fails   == Bump(h.failCount, FailCap)
      healthy == h.healthy /\ fails < FailThreshold
  IN  [h EXCEPT !.lastError = TRUE, !.successCount = 0, !.failCount = fails,
                !.healthy = healthy,
                !.hcEvery = nextIntervalOnFailure(h.hcEvery, healthy),
                !.nextHC = n]

\* Mutants of PassedCheck: one success too few re-admits the endpoint; the failure
\* counter survives a success.
PassedCheck_TooEarly(h, add, n) ==
  LET oks == Bump(h.successCount, SuccessCap)
  IN  [h EXCEPT !.lastError = FALSE, !.failCount = 0, !.successCount = oks,
                !.healthy = h.healthy \/ oks >= SuccessThreshold - 1,
                !.hcEvery = nextIntervalOnSuccess(h.hcEvery, oks, add),
                !.nextHC = n]

PassedCheck_KeepsFailCount(h, add, n) ==
  LET oks == Bump(h.successCount, SuccessCap)
  IN  [h EXCEPT !.lastError = FALSE, !.successCount = oks,
                !.healthy = h.healthy \/ oks >= SuccessThreshold,
                !.hcEvery = nextIntervalOnSuccess(h.hcEvery, oks, add),
                !.nextHC = n]

\* applyHCResult on success.
PassedCheck(h, add, n) ==
  LET oks == Bump(h.successCount, SuccessCap)
  IN  [h EXCEPT !.lastError = FALSE, !.failCount = 0, !.successCount = oks,
                !.healthy = h.healthy \/ oks >= SuccessThreshold,
                !.hcEvery = nextIntervalOnSuccess(h.hcEvery, oks, add),
                !.nextHC = n]

\* The hcStates applyHCResult may leave behind.
applyHCResult(h, err) ==
  IF err
  THEN {FailedCheck(h, n) : n \in applyJitter(FailedCheck(h, 0).hcEvery)}
  ELSE UNION {{PassedCheck(h, add, n) : n \in applyJitter(PassedCheck(h, add, 0).hcEvery)}
                : add \in 0 .. MaxRTTAdd}

\* What a failure report does to it.
FailedFlow(h, n) ==
  [h EXCEPT !.lastError = TRUE, !.failCount = Bump(h.failCount, FailCap), !.successCount = 0,
            !.healthy = FALSE, !.hcEvery = MinInterval, !.nextHC = n]

-----------------------------------------------------------------------------
\* No goroutine.  outdated is a history flag: a failure of the endpoint was
\* reported after the goroutine had obtained its successful probe result.
NoCheck == [pc |-> "idle", ep |-> CHOOSE e \in Endpoint : TRUE, err |-> FALSE, outdated |-> FALSE]

\* A goroutine just started for e.
NewCheck(e) == [NoCheck EXCEPT !.pc = "slot", !.ep = e]

\* RunHealthChecks has scheduled every endpoint for now.
ScheduledState ==
  [healthy |-> FALSE, failCount |-> 0, successCount |-> 0, inFlight |-> FALSE,
   lastError |-> FALSE, nextHC |-> 0, hcEvery |-> Interval]

\* DisableBackgroundProbes: everything is declared healthy and stays unchecked.
UncheckedState ==
  [healthy |-> TRUE, failCount |-> 0, successCount |-> 1, inFlight |-> FALSE,
   lastError |-> FALSE, nextHC |-> 0, hcEvery |-> 0]

Init ==
  /\ \/ sched = "running" /\ hc = [e \in Endpoint |-> ScheduledState]
     \/ sched = "off" /\ hc = [e \in Endpoint |-> UncheckedState]
  /\ cooldown = [e \in Endpoint |-> -1]
  /\ work = [w \in Worker |-> NoCheck]
  /\ probeSem = 0
  /\ probeDialSem = 0
  /\ ctxDone = FALSE
  /\ reachable \in Reachability
  /\ held = {}

-----------------------------------------------------------------------------
(* The scheduler.                                                          *)

\* The due endpoints are marked in flight and get a goroutine each.
StartChecks(due) ==
  /\ due # {}
  /\ \E g \in [due -> Busy({"idle"})] :
       /\ \A e, f \in due : g[e] = g[f] => e = f
       /\ work' = [w \in Worker |->
                     IF \E e \in due : g[e] = w
                     THEN NewCheck(CHOOSE e \in due : g[e] = w)
                     ELSE work[w]]
  /\ hc' = [e \in Endpoint |->
              IF e \in due THEN [hc[e] EXCEPT !.inFlight = TRUE] ELSE hc[e]]
  /\ UNCHANGED <<cooldown, probeSem, probeDialSem, sched, ctxDone, reachable, held>>

\* Mutants of runDueChecks: inFlight is not consulted; probes that -no-probes
\* disabled are started all the same.
runDueChecks_IgnoringInFlight(u) ==
  sched = "running" /\ StartChecks({e \in {u} \X Proto : hc[e].nextHC = 0})

runDueChecks_WhenOff(u) ==
  sched # "stopped" /\ StartChecks({e \in {u} \X Proto : ~hc[e].inFlight /\ hc[e].nextHC = 0})

\* runDueChecks on upstream u: under u.mu both protocols are examined, those
\* that are due and not in flight are marked and get a goroutine each.
runDueChecks(u) ==
  /\ sched = "running"
  /\ StartChecks({e \in {u} \X Proto : ~hc[e].inFlight /\ hc[e].nextHC = 0})

\* The select of RunHealthChecks takes the ctx.Done() branch.
StopScheduler ==
  /\ sched = "running"
  /\ ctxDone
  /\ sched' = "stopped"
  /\ UNCHANGED <<hc, cooldown, work, probeSem, probeDialSem, ctxDone, reachable, held>>

-----------------------------------------------------------------------------
(* checkOneTCP / checkOneUDP, one goroutine w.                             *)

Goto(w, pc) == work' = [work EXCEPT ![w].pc = pc]

\* Mutant of acquireProbeSlot: one token too many.
acquireProbeSlot_OffByOne(w) ==
  /\ work[w].pc = "slot"
  /\ probeSem <= ProbeLimit
  /\ probeSem' = probeSem + 1
  /\ Goto(w, "dial")
  /\ UNCHANGED <<hc, cooldown, probeDialSem, sched, ctxDone, reachable, held>>

acquireProbeSlot(w) ==
  /\ work[w].pc = "slot"
  /\ probeSem < ProbeLimit
  /\ probeSem' = probeSem + 1
  /\ Goto(w, "dial")
  /\ UNCHANGED <<hc, cooldown, probeDialSem, sched, ctxDone, reachable, held>>

\* Mutant of GiveUpSlot: the deferred release runs although no slot was acquired.
GiveUpSlot_Releasing(w) ==
  /\ work[w].pc = "slot"
  /\ ctxDone
  /\ hc' = [hc EXCEPT ![work[w].ep].inFlight = FALSE]
  /\ work' = [work EXCEPT ![w] = NoCheck]
  /\ probeSem' = IF probeSem > 0 THEN probeSem - 1 ELSE probeSem
  /\ UNCHANGED <<cooldown, probeDialSem, sched, ctxDone, reachable, held>>

\* The context ends while the goroutine waits for a slot.
GiveUpSlot(w) ==
  /\ work[w].pc = "slot"
  /\ ctxDone
  /\ hc' = [hc EXCEPT ![work[w].ep].inFlight = FALSE]
  /\ work' = [work EXCEPT ![w] = NoCheck]
  /\ UNCHANGED <<cooldown, probeSem, probeDialSem, sched, ctxDone, reachable, held>>

acquireProbeDialSlot(w) ==
  /\ work[w].pc \in {"dial", "qdial"}
  /\ probeDialSem < DialLimit
  /\ probeDialSem' = probeDialSem + 1
  /\ Goto(w, IF work[w].pc = "dial" THEN "probe" ELSE "quality")
  /\ UNCHANGED <<hc, cooldown, probeSem, sched, ctxDone, reachable, held>>

\* The probe's deadline, or the root context, ends before a dial slot is free.
\* A missed transport probe is an error, a missed quality probe is ignored.
DialSlotTimeout(w) ==
  /\ work[w].pc \in {"dial", "qdial"}
  /\ ctxDone \/ probeDialSem = DialLimit
  /\ work' = [work EXCEPT ![w].pc = "apply", ![w].err = (work[w].pc = "dial")]
  /\ UNCHANGED <<hc, cooldown, probeSem, probeDialSem, sched, ctxDone, reachable, held>>

releaseProbeDialSlot == probeDialSem' = IF probeDialSem > 0 THEN probeDialSem - 1 ELSE probeDialSem

\* The goroutine is blocked in a read that neither the probe's deadline nor the
\* root context ends: a silent server over raw HTTP/2.
Stuck(w) == work[w].pc \in Dialling /\ reachable[work[w].ep] = "silent"

\* runProbeDialLimited returns from the transport probe.
TransportProbe(w) ==
  /\ work[w].pc = "probe"
  /\ ~Stuck(w)
  /\ \E err \in (IF ctxDone THEN {TRUE} ELSE {}) \cup {reachable[work[w].ep] # "up"} :
       work' = [work EXCEPT ![w].err = err,
                            ![w].pc = IF ~err /\ work[w].ep[2] \in QualityProtos
                                      THEN "qdial" ELSE "apply"]
  /\ releaseProbeDialSlot
  /\ UNCHANGED <<hc, cooldown, probeSem, sched, ctxDone, reachable, held>>

\* The quality probe returns; its error is logged and ignored.
QualityProbe(w) ==
  /\ work[w].pc = "quality"
  /\ ~Stuck(w)
  /\ Goto(w, "apply")
  /\ releaseProbeDialSlot
  /\ UNCHANGED <<hc, cooldown, probeSem, sched, ctxDone, reachable, held>>

\* Mutants of ApplyResult: the cooldown outlives the recovery; it is lifted on
\* every result; inFlight is not cleared.
ApplyResult_KeepsCooldown(w) ==
  LET e == work[w].ep
  IN  /\ work[w].pc = "apply"
      /\ \E h \in applyHCResult(hc[e], work[w].err) :
           hc' = [hc EXCEPT ![e] = [h EXCEPT !.inFlight = FALSE]]
      /\ Goto(w, "release")
      /\ UNCHANGED <<cooldown, probeSem, probeDialSem, sched, ctxDone, reachable, held>>

ApplyResult_AlwaysLifts(w) ==
  LET e == work[w].ep
  IN  /\ work[w].pc = "apply"
      /\ \E h \in applyHCResult(hc[e], work[w].err) :
           hc' = [hc EXCEPT ![e] = [h EXCEPT !.inFlight = FALSE]]
      /\ cooldown' = [cooldown EXCEPT ![e] = -1]
      /\ Goto(w, "release")
      /\ UNCHANGED <<probeSem, probeDialSem, sched, ctxDone, reachable, held>>

ApplyResult_StaysInFlight(w) ==
  LET e == work[w].ep
  IN  /\ work[w].pc = "apply"
      /\ \E h \in applyHCResult(hc[e], work[w].err) :
           /\ hc' = [hc EXCEPT ![e] = h]
           /\ cooldown' = [cooldown EXCEPT ![e] = IF h.healthy THEN -1 ELSE @]
      /\ Goto(w, "release")
      /\ UNCHANGED <<probeSem, probeDialSem, sched, ctxDone, reachable, held>>

\* The critical section that ends a check: the result is applied, a healthy
\* endpoint loses its cooldown, inFlight is cleared.
ApplyResult(w) ==
  LET e == work[w].ep
  IN  /\ work[w].pc = "apply"
      /\ \E h \in applyHCResult(hc[e], work[w].err) :
           /\ hc' = [hc EXCEPT ![e] = [h EXCEPT !.inFlight = FALSE]]
           /\ cooldown' = [cooldown EXCEPT ![e] = IF h.healthy THEN -1 ELSE @]
      /\ Goto(w, "release")
      /\ UNCHANGED <<probeSem, probeDialSem, sched, ctxDone, reachable, held>>

\* Mutant of releaseProbeSlot: the token is not returned.
releaseProbeSlot_Leaking(w) ==
  /\ work[w].pc = "release"
  /\ work' = [work EXCEPT ![w] = NoCheck]
  /\ UNCHANGED <<hc, cooldown, probeSem, probeDialSem, sched, ctxDone, reachable, held>>

releaseProbeSlot(w) ==
  /\ work[w].pc = "release"
  /\ probeSem' = IF probeSem > 0 THEN probeSem - 1 ELSE probeSem
  /\ work' = [work EXCEPT ![w] = NoCheck]
  /\ UNCHANGED <<hc, cooldown, probeDialSem, sched, ctxDone, reachable, held>>

-----------------------------------------------------------------------------
(* Client flows and the environment.                                       *)

\* A flow picks e: pickBestCandidateByEndpoint skips endpoints that are
\* unhealthy or cooling down.  The choice among the others is Selection.tla.
PickFlow(e) ==
  /\ e[2] \in FlowProtos
  /\ e \notin held
  /\ hc[e].healthy
  /\ ~(cooldown[e] > 0)
  /\ held' = held \cup {e}
  /\ UNCHANGED <<hc, cooldown, work, probeSem, probeDialSem, sched, ctxDone, reachable>>

\* ReportTCPFailure / ReportUDPFailure by a flow that had picked e.
ReportFailure(e) ==
  /\ e \in held
  /\ \E n \in applyJitter(MinInterval) :
       hc' = [hc EXCEPT ![e] = FailedFlow(@, n)]
  /\ cooldown' = [cooldown EXCEPT ![e] = Cooldown]
  /\ work' = [w \in Worker |->
                IF work[w].ep = e /\ work[w].pc \in {"qdial", "quality", "apply"} /\ ~work[w].err
                THEN [work[w] EXCEPT !.outdated = TRUE] ELSE work[w]]
  /\ held' \in {held, held \ {e}}
  /\ UNCHANGED <<probeSem, probeDialSem, sched, ctxDone, reachable>>

\* The server of e, or the path to it, fails, falls silent or comes back.
ChangeReachability(e) ==
  /\ \E r \in Answer \ {reachable[e]} :
       /\ r = "silent" => CanBeSilent(e)
       /\ reachable' = [reachable EXCEPT ![e] = r]
  /\ UNCHANGED <<hc, cooldown, work, probeSem, probeDialSem, sched, ctxDone, held>>

\* main cancels the root context on SIGINT / SIGTERM.
Shutdown ==
  /\ ~ctxDone
  /\ ctxDone' = TRUE
  /\ UNCHANGED <<hc, cooldown, work, probeSem, probeDialSem, sched, reachable, held>>

\* One tick of time passes.
Tick ==
  /\ \E e \in Endpoint : hc[e].nextHC > 0 \/ cooldown[e] > -1
  /\ hc' = [e \in Endpoint |-> [hc[e] EXCEPT !.nextHC = CountDown(hc[e].nextHC, 0)]]
  /\ cooldown' = [e \in Endpoint |-> CountDown(cooldown[e], -1)]
  /\ UNCHANGED <<work, probeSem, probeDialSem, sched, ctxDone, reachable, held>>

-----------------------------------------------------------------------------
Check(w) ==
  \/ acquireProbeSlot(w)
  \/ GiveUpSlot(w)
  \/ acquireProbeDialSlot(w)
  \/ DialSlotTimeout(w)
  \/ TransportProbe(w)
  \/ QualityProbe(w)
  \/ ApplyResult(w)
  \/ releaseProbeSlot(w)

Next ==
  \/ \E u \in Upstream : runDueChecks(u)
  \/ StopScheduler
  \/ \E w \in Worker : Check(w)
  \/ \E e \in Endpoint : PickFlow(e) \/ ReportFailure(e) \/ ChangeReachability(e)
  \/ Shutdown
  \/ Tick

Spec == Init /\ [][Next]_vars

\* The ticker keeps firing, time passes, a waiting goroutine eventually gets a
\* slot (channel senders queue in FIFO order), and a probe that is not Stuck ends:
\* its server answers, or its context runs into the timeout.  Nothing ends a stuck one.
Fairness ==
  /\ WF_vars(Tick)
  /\ WF_vars(StopScheduler)
  /\ \A u \in Upstream : WF_vars(runDueChecks(u))
  /\ \A w \in Worker : SF_vars(Check(w))

FairSpec == Spec /\ Fairness

-----------------------------------------------------------------------------
TypeOK ==
  /\ hc \in [Endpoint -> hcState]
  /\ cooldown \in [Endpoint -> -1 .. Cooldown]
  /\ work \in [Worker -> [pc : Pc, ep : Endpoint, err : BOOLEAN, outdated : BOOLEAN]]
  /\ probeSem \in 0 .. ProbeLimit
  /\ probeDialSem \in 0 .. DialLimit
  /\ sched \in {"running", "stopped", "off"}
  /\ ctxDone \in BOOLEAN
  /\ reachable \in Reachability
  /\ held \subseteq Endpoint

-----------------------------------------------------------------------------
(* Safety.                                                                 *)

\* At most one check of an endpoint is under way, however long it takes: what
\* the comment on hcState.inFlight promises of the scheduler.
OneCheckPerEndpoint ==
  \A w, v \in Busy(Checking) : work[w].ep = work[v].ep => w = v

\* The two semaphores count exactly the goroutines inside the limited regions
\* (the non-blocking receives of releaseProbeSlot never drop or steal a token),
\* and a dial slot is only ever held under an execution slot, so with
\* ProbeLimit <= DialLimit no probe ever waits for a dial slot.
SlotsExact ==
  /\ probeSem = Cardinality(Busy(Holding))
  /\ probeDialSem = Cardinality(Busy(Dialling))
  /\ probeDialSem <= probeSem

\* A healthy endpoint is never cooling down: ReportTCPFailure sets both the
\* cooldown and healthy = false under one lock, and checkOneTCP clears the
\* cooldown in the critical section that makes the endpoint healthy again.
HealthyNotCoolingDown ==
  \A e \in Endpoint : hc[e].healthy => cooldown[e] = -1

\* The counters applyHCResult and ReportTCPFailure keep agree with each other:
\* an error is remembered exactly while failures are counted, failures and
\* successes are never counted together, and a healthy endpoint is below the
\* failure threshold.
CountersCoherent ==
  \A e \in Endpoint :
    /\ hc[e].lastError <=> hc[e].failCount > 0
    /\ hc[e].failCount > 0 => hc[e].successCount = 0
    /\ hc[e].healthy => hc[e].failCount < FailThreshold

\* With background probes disabled nothing re-admits an endpoint: the first
\* reported failure takes it out of the pool for good.
NoProbesNoRecovery ==
  [][\A e \in Endpoint : sched = "off" /\ ~hc[e].healthy => ~hc'[e].healthy]_vars

\* With a success threshold above 1 a check re-admits an endpoint only on a probe
\* that ended after the last failure report: the report resets successCount, and no
\* other check of the endpoint can have counted a success since.  (With a threshold
\* of 1 the older success alone is enough, and lifts the new cooldown: lb.go:606.)
RecoveryIsFresh ==
  [][\A w \in Worker :
       SuccessThreshold > 1 /\ ApplyResult(w) /\ work[w].outdated =>
         (hc'[work[w].ep].healthy => hc[work[w].ep].healthy)]_vars

\* The checker, its counters, slots and goroutines hidden, is EndpointStatus.
ImplementsStatus == Status!StatusSpec

-----------------------------------------------------------------------------
(* Liveness.                                                               *)

\* From some point on the server of e neither fails nor comes back and no flow
\* complains about it, while the scheduler runs.
Settled(e) ==
  /\ [](~ctxDone /\ sched = "running")
  /\ <>[][~ReportFailure(e) /\ ~ChangeReachability(e)]_vars

\* From some point on no server keeps a probe over raw HTTP/2 waiting.
ServersAnswer ==
  <>[](\A e \in Endpoint : reachable[e] # "silent")

\* Once the server of an endpoint stays up, or stays down, and no flow complains
\* any more, the health the checker keeps is the truth from some point on, although
\* its checks compete with those of other endpoints for slots (checkOneTCP,
\* runDueChecks).  The premise: no server over raw HTTP/2 stays silent for ever.  One
\* that does keeps the probe of its endpoint, and with it a slot (lb.go:554).
HealthConverges ==
  ServersAnswer =>
    \A e \in Endpoint : Settled(e) => <>[](hc[e].healthy = (reachable[e] = "up"))

\* After the root context is cancelled the scheduler stops and every check goroutine
\* ends, except one that is blocked on a silent server over raw HTTP/2 (a dial in
\* readFrame, a quality probe in the framed Read): the cancel does not reach it, and
\* it keeps its slots.  When no such server stays silent for ever, every goroutine
\* ends and every slot is returned.
ShutdownQuiesces ==
  /\ ctxDone ~> (sched # "running" /\ \A w \in Worker : work[w].pc = "idle" \/ Stuck(w))
  /\ ServersAnswer =>
       (ctxDone ~> (/\ sched # "running"
                    /\ Busy({"idle"}) = Worker
                    /\ probeSem = 0
                    /\ probeDialSem = 0))
=============================================================================
