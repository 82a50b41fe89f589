------------------------------ MODULE Selection ------------------------------
(***************************************************************************)
(* How a flow picks an upstream (internal/lb.go: pickByEndpoint,           *)
(* pickBestCandidateByEndpoint, ReportTCPFailure, ReportUDPFailure).       *)
(*                                                                         *)
(* A pick is not atomic: it copies lb.current and lb.stickyUntil under     *)
(* lb.mu, then locks one upstream after the other, then locks lb.mu again  *)
(* to write its choice.  Health checks, reports and other picks interleave *)
(* at every lock.  The health state is that of EndpointStatus, for the     *)
(* endpoints of one protocol, chosen in Init: the TCP and the UDP picks    *)
(* share no state, and only the former use current and stickyUntil.        *)
(*                                                                         *)
(* sticky is the number of ticks left until stickyUntil.  A pick does no   *)
(* I/O, so time only passes between picks.                                 *)
(*                                                                         *)
(* RTTs are durations in clock units; the score looks at their whole       *)
(* milliseconds, the hysteresis at the durations.  A weight, a float64, is *)
(* a number of units, of which UnitWeight make 1.0 (every float64 is a     *)
(* multiple of one small enough).  Penalties are in fifths of a            *)
(* millisecond: stalePenalty is 0.2 for each, the others are multiples of  *)
(* 500.                                                                    *)
(***************************************************************************)
EXTENDS EndpointStatus, Sequences

CONSTANTS
  Picker,       \* goroutines of client flows
  Pool,         \* lb.pool, a sequence of the endpoints
  Weight,       \* cfg.Weight of each endpoint (values <= 0 count as 1.0)
  UnitWeight,   \* the weight 1.0
  RTTs,         \* the values of rttEWMA, 0 when unknown
  Penalties,    \* the values of stalePenalty + failPenalty + errPenalty
  Millisecond,  \* a millisecond, in the unit of RTTs and MinSwitch
  UnknownRTT,   \* the base score of an endpoint without an RTT, in milliseconds
  MaxScore,     \* 1e18, the value bestScore starts with
  Quotient(_, _),  \* the float64 arithmetic of the score: n fifths times 1.0 / w,
                   \* rounded; float64 values stand for their rank among the integers
  StickyTTL,    \* selection.sticky_ttl
  MinSwitch     \* selection.min_switch

None == "none"

ASSUME SelectionAssumption ==
  /\ Pool \in Seq(Endpoint) /\ Len(Pool) > 0
  /\ None \notin Endpoint \cup Picker
  /\ Weight \in [Endpoint -> Int] /\ UnitWeight \in Nat \ {0}
  /\ Millisecond \in Nat \ {0} /\ MaxScore \in Int
  /\ RTTs \subseteq Nat /\ Penalties \subseteq Nat
  /\ UnknownRTT \in Nat \ {0}
  /\ StickyTTL \in Nat /\ MinSwitch \in Nat

VARIABLES
  isTCP,     \* the protocol of the endpoints and flows, chosen once
  rtt,       \* rtt[e]: rttEWMA
  penalty,   \* penalty[e]: what staleness, failures and errors add to the score
  current,   \* lb.current
  sticky,    \* ticks left until lb.stickyUntil
  pick,      \* pick[p]: the pick goroutine p is executing
  seen       \* history: what p could have seen during its pick

lbVars   == <<current, sticky>>
envVars  == <<isTCP, healthy, cooldown, rtt, penalty>>
vars     == <<isTCP, healthy, cooldown, rtt, penalty, current, sticky, pick, seen>>

NoPick == [pc |-> "idle", cur |-> None, i |-> 1, best |-> None, bestScore |-> MaxScore, bestRTT |-> 0,
           res |-> None]

NothingSeen == [usable |-> {}, unusable |-> {}, alone |-> TRUE]

\* pickByEndpoint has returned e.
Picked(e) == [NoPick EXCEPT !.pc = "done", !.res = e]

Pc == {"idle", "sticky", "scan", "hysteresis", "write", "done", "failed", "report"}

\* The goroutines inside pickByEndpoint.
Picking == {"sticky", "scan", "hysteresis", "write"}

-----------------------------------------------------------------------------
(* The score, (base + penalties) * (1.0 / weight), of an upstream.         *)

EffWeight(e) == IF Weight[e] <= 0 THEN UnitWeight ELSE Weight[e]

\* float64(d.Milliseconds()): whole milliseconds, and less than one counts as unknown.
Base(d) == LET ms == d \div Millisecond IN IF ms <= 0 THEN UnknownRTT ELSE ms

Numerator(e) == 5 * Base(rtt[e]) + penalty[e]

Score(e) == Quotient(Numerator(e), EffWeight(e))

\* No score reaches the initial bestScore, 1e18: the weights are not that small (below
\* 1e-15 for an unknown RTT) and are numbers.
ASSUME ScoreAssumption ==
  \A e \in Endpoint, d \in RTTs \cup {0}, n \in Penalties :
    LET q == Quotient(5 * Base(d) + n, EffWeight(e)) IN q \in Int /\ q < MaxScore

\* now.After(cooldownUntil) in the sticky and hysteresis checks is stricter than
\* !now.Before(cooldownUntil) in the scan.
CurrentOK(e) == healthy[e] /\ cooldown[e] < 0

-----------------------------------------------------------------------------
Init ==
  /\ isTCP \in BOOLEAN
  /\ StatusInit
  /\ rtt = [e \in Endpoint |-> 0]
  /\ penalty \in [Endpoint -> Penalties]
  /\ current = None
  /\ sticky = 0
  /\ pick = [p \in Picker |-> NoPick]
  /\ seen = [p \in Picker |-> NothingSeen]

\* History.  While p picks, seen[p] collects the endpoints that were usable, and
\* those that were not, at some moment; alone says that nobody else has taken a
\* step since.
Observe(p, mover) ==
  LET now  == [usable   |-> {e \in Endpoint : Usable(e)'},
               unusable |-> {e \in Endpoint : ~Usable(e)'},
               alone    |-> TRUE]
      old  == seen[p]
  IN  IF pick'[p].pc \in {"idle", "report"} THEN NothingSeen
      ELSE IF pick'[p].pc \notin Picking THEN [old EXCEPT !.alone = TRUE]
      ELSE IF pick[p].pc \notin Picking THEN now
      ELSE [usable |-> old.usable \cup now.usable, unusable |-> old.unusable \cup now.unusable,
            alone |-> old.alone /\ mover = p]

Watch(mover) == seen' = [p \in Picker |-> Observe(p, mover)]

-----------------------------------------------------------------------------
(* pickByEndpoint, goroutine p.                                            *)

\* lb.mu: copy the pool, current and stickyUntil.
Begin(p) ==
  /\ pick[p].pc = "idle"
  /\ pick' = [pick EXCEPT ![p] = [NoPick EXCEPT
                !.cur = current,
                !.pc = IF isTCP /\ current # None /\ sticky > 0 THEN "sticky" ELSE "scan"]]
  /\ UNCHANGED <<envVars, lbVars>>
  /\ Watch(p)

\* cur.mu: a sticky upstream that is still fine is returned at once.
StickyCheck(p) ==
  LET k == pick[p]
  IN  /\ k.pc = "sticky"
      /\ pick' = [pick EXCEPT ![p] = IF CurrentOK(k.cur)
                                     THEN Picked(k.cur)
                                     ELSE [k EXCEPT !.pc = "scan"]]
      /\ UNCHANGED <<envVars, lbVars>>
      /\ Watch(p)

\* Where the loop of pickBestCandidateByEndpoint leads after its last iteration.
AfterScan(k) ==
  CASE k.best = None               -> [NoPick EXCEPT !.pc = "failed"]
    [] ~isTCP /\ k.best # None     -> Picked(k.best)
    [] isTCP /\ k.best # None      -> [k EXCEPT !.pc = IF k.cur # None THEN "hysteresis" ELSE "write",
                                                !.res = k.best]

\* One iteration of the loop: the endpoint at i becomes the best so far if it is
\* better; the loop ends after index last.
ScanStep(p, better, last) ==
  LET k == pick[p]
      e == Pool[k.i]
      next == [(IF better
                THEN [k EXCEPT !.best = e, !.bestScore = Score(e), !.bestRTT = rtt[e]]
                ELSE k) EXCEPT !.i = k.i + 1]
  IN  /\ k.pc = "scan"
      /\ pick' = [pick EXCEPT ![p] = IF next.i > last THEN AfterScan(next) ELSE next]
      /\ UNCHANGED <<envVars, lbVars>>
      /\ Watch(p)

\* The endpoint at k.i beats the best so far.
Beats(k) == Score(Pool[k.i]) < k.bestScore

\* Mutant of ScanOne: the last upstream is not examined.
ScanOne_SkipsLast(p) ==
  ScanStep(p, Usable(Pool[pick[p].i]) /\ Beats(pick[p]), Len(Pool) - 1)

\* s.mu: one iteration of pickBestCandidateByEndpoint.
ScanOne(p) == ScanStep(p, Usable(Pool[pick[p].i]) /\ Beats(pick[p]), Len(Pool))

\* The hysteresis step keeps the current upstream or takes the best one.
Settle(p, keep) ==
  LET k == pick[p]
  IN  /\ k.pc = "hysteresis"
      /\ pick' = [pick EXCEPT ![p] = [Picked(IF keep THEN k.cur ELSE k.best) EXCEPT
                                        !.pc = "write", !.cur = k.cur]]
      /\ UNCHANGED <<envVars, lbVars>>
      /\ Watch(p)

\* Mutants of Hysteresis: the health of the current upstream is not read again;
\* a difference of exactly MinSwitch does not switch.
Hysteresis_Unchecked(p) ==
  LET k == pick[p]
  IN  Settle(p, rtt[k.cur] > 0 /\ k.bestRTT > 0 /\ rtt[k.cur] - k.bestRTT < MinSwitch)

Hysteresis_Inclusive(p) ==
  LET k == pick[p]
  IN  Settle(p, /\ CurrentOK(k.cur) /\ rtt[k.cur] > 0 /\ k.bestRTT > 0
                /\ rtt[k.cur] - k.bestRTT <= MinSwitch)

\* cur.mu: the current upstream is kept unless the best one is faster by MinSwitch.
Hysteresis(p) ==
  LET k == pick[p]
  IN  Settle(p, /\ k.cur # k.best /\ CurrentOK(k.cur)
                /\ rtt[k.cur] > 0 /\ k.bestRTT > 0
                /\ rtt[k.cur] - k.bestRTT < MinSwitch)

\* lb.mu: the choice becomes current and is sticky for StickyTTL.
WriteCurrent(p) ==
  /\ pick[p].pc = "write"
  /\ current' = pick[p].res
  /\ sticky' = StickyTTL
  /\ pick' = [pick EXCEPT ![p] = Picked(@.res)]
  /\ UNCHANGED envVars
  /\ Watch(p)

-----------------------------------------------------------------------------
(* The flow after its pick.                                                *)

\* The flow ends without complaint, or the pick had failed.
EndFlow(p) ==
  /\ pick[p].pc \in {"done", "failed"}
  /\ pick' = [pick EXCEPT ![p] = NoPick]
  /\ UNCHANGED <<envVars, lbVars>>
  /\ Watch(p)

\* ReportTCPFailure / ReportUDPFailure, s.mu: the failure is recorded.
ReportStatus(p) ==
  /\ pick[p].pc = "done"
  /\ Report(pick[p].res)
  /\ pick' = [pick EXCEPT ![p] = IF isTCP THEN [@ EXCEPT !.pc = "report"] ELSE NoPick]
  /\ UNCHANGED <<isTCP, rtt, penalty, lbVars>>
  /\ Watch(p)

\* ReportTCPFailure, lb.mu: stickiness to the failed upstream ends.
ResetSticky(p) ==
  /\ pick[p].pc = "report"
  /\ sticky' = IF current = pick[p].res THEN 0 ELSE sticky
  /\ pick' = [pick EXCEPT ![p] = NoPick]
  /\ UNCHANGED <<envVars, current>>
  /\ Watch(p)

-----------------------------------------------------------------------------
(* The health checker and the clock.                                       *)

\* A check ends and leaves e healthy, with a new RTT and new penalties.
CheckAdmits(e) ==
  /\ Admit(e)
  /\ \E r \in RTTs, n \in Penalties :
       rtt' = [rtt EXCEPT ![e] = r] /\ penalty' = [penalty EXCEPT ![e] = n]
  /\ UNCHANGED <<isTCP, lbVars, pick>>
  /\ Watch(None)

CheckDemotes(e) ==
  /\ healthy[e]
  /\ Demote(e)
  /\ UNCHANGED <<isTCP, rtt, penalty, lbVars, pick>>
  /\ Watch(None)

\* Results get older, which can only raise stalePenalty.
Tick ==
  /\ \A p \in Picker : pick[p].pc \notin Picking
  /\ sticky > 0 \/ \E e \in Endpoint : cooldown[e] > -1
  /\ Elapse
  /\ sticky' = CountDown(sticky, 0)
  /\ penalty' \in {n \in [Endpoint -> Penalties] : \A e \in Endpoint : n[e] >= penalty[e]}
  /\ UNCHANGED <<isTCP, rtt, current, pick>>
  /\ Watch(None)

PickStep(p) ==
  \/ Begin(p) \/ StickyCheck(p) \/ ScanOne(p) \/ Hysteresis(p) \/ WriteCurrent(p)
  \/ EndFlow(p) \/ ReportStatus(p) \/ ResetSticky(p)

Next ==
  \/ \E p \in Picker : PickStep(p)
  \/ \E e \in Endpoint : CheckAdmits(e) \/ CheckDemotes(e)
  \/ Tick

Spec == Init /\ [][Next]_vars

-----------------------------------------------------------------------------
TypeOK ==
  /\ isTCP \in BOOLEAN
  /\ healthy \in [Endpoint -> BOOLEAN] /\ cooldown \in [Endpoint -> -1 .. Cooldown]
  /\ rtt \in [Endpoint -> RTTs \cup {0}] /\ penalty \in [Endpoint -> Penalties]
  /\ current \in Endpoint \cup {None}
  /\ sticky \in 0 .. StickyTTL
  /\ pick \in [Picker -> [pc : Pc, cur : Endpoint \cup {None}, i : 1 .. Len(Pool) + 1,
                          best : Endpoint \cup {None}, bestScore : Int, bestRTT : RTTs \cup {0},
                          res : Endpoint \cup {None}]]
  /\ seen \in [Picker -> [usable : SUBSET Endpoint, unusable : SUBSET Endpoint, alone : BOOLEAN]]

\* Whatever happens between its locks, a pick returns an upstream that was
\* healthy and not cooling down at some moment of that very pick: an upstream
\* that failed before the pick began and has not been re-admitted is never
\* returned, neither by stickiness nor by hysteresis (README: "Runtime failover
\* (instant switch on error)").
PickWasUsable ==
  \A p \in Picker : pick[p].pc \in {"write", "done"} => pick[p].res \in seen[p].usable

\* "no healthy upstreams" is only returned when no upstream of the pool was usable
\* all the way through the pick.
ErrorWasJustified ==
  \A p \in Picker : pick[p].pc = "failed" => \A i \in DOMAIN Pool : Pool[i] \in seen[p].unusable

\* The upstream pickByEndpoint is meant to return for a given lb.current: the
\* sticky one if it is fine, else the candidate with the lowest score, the first
\* in pool order among equals, unless the current one is fine and its RTT, with its
\* fraction of a millisecond, is not longer by MinSwitch.
Intended(cur) ==
  LET cand == {j \in 1 .. Len(Pool) : Usable(Pool[j])}
      best == Pool[CHOOSE j \in cand : \A k \in cand :
                     /\ Score(Pool[j]) <= Score(Pool[k])
                     /\ k < j => Score(Pool[j]) < Score(Pool[k])]
      curFine == isTCP /\ cur # None /\ CurrentOK(cur)
  IN  IF curFine /\ sticky > 0 THEN cur
      ELSE IF cand = {} THEN None
      ELSE IF curFine /\ rtt[cur] > 0 /\ rtt[best] > 0 /\ rtt[cur] - rtt[best] < MinSwitch
           THEN cur ELSE best

\* A pick during which nobody else takes a step returns the intended upstream: the loop
\* over the pool finds the minimum of the scores as float64 arithmetic has them, with
\* RTTs in whole milliseconds, those below one as unknown and ties to the first, and the
\* hysteresis that follows compares the RTTs themselves.
UndisturbedPickIsIntended ==
  [][\A p \in Picker :
       /\ pick[p].pc \in Picking
       /\ pick'[p].pc \in {"done", "failed"}
       /\ seen[p].alone
       => pick'[p].res = Intended(pick[p].cur)]_vars
=============================================================================
