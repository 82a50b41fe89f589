-------------------------- MODULE HealthCheckProofs --------------------------
(***************************************************************************)
(* Theorems about HealthCheck, for every pool, every number of goroutines, *)
(* every limit and every interval.                                         *)
(***************************************************************************)
EXTENDS HealthCheck, FiniteSetTheorems, TLAPS

WorkRecord == [pc : Pc, ep : Endpoint, err : BOOLEAN, outdated : BOOLEAN]

-----------------------------------------------------------------------------
(* Interval arithmetic.                                                    *)

\* Every deadline applyJitter returns for a delay is itself a delay, however
\* large the jitter is compared with the interval.
LEMMA JitterNat == \A d \in Nat : applyJitter(d) \subseteq Nat
  BY IntervalAssumption DEF applyJitter

\* The adaptive interval always lies between MinInterval and MaxInterval, or is
\* MaxInterval when the configuration inverts the two.
LEMMA ClampBounds ==
  \A d \in Int :
    /\ Clamp(d) \in Nat \ {0}
    /\ Clamp(d) <= MaxInterval
    /\ MinInterval <= MaxInterval => Clamp(d) >= MinInterval
  BY IntervalAssumption DEF Clamp

LEMMA FailureIntervalNat ==
  \A every \in Nat, healthy \in BOOLEAN : nextIntervalOnFailure(every, healthy) \in Nat
  <1> TAKE every \in Nat, healthy \in BOOLEAN
  <1> DEFINE base == IF every > 0 /\ ~healthy THEN every ELSE MinInterval
  <1>1. base \in Nat
    BY IntervalAssumption
  <1>2. base * BackoffNum \in Int /\ BackoffDen \in Nat \ {0}
    BY <1>1, IntervalAssumption
  <1> HIDE DEF base
  <1>3. (base * BackoffNum) \div BackoffDen \in Int
    BY <1>2
  <1>4. Clamp((base * BackoffNum) \div BackoffDen) \in Nat
    BY <1>3, ClampBounds
  <1> QED
    BY <1>4 DEF nextIntervalOnFailure, base

LEMMA SuccessIntervalNat ==
  \A every \in Nat, oks \in Nat, add \in Nat : nextIntervalOnSuccess(every, oks, add) \in Nat
  <1> TAKE every \in Nat, oks \in Nat, add \in Nat
  <1> DEFINE base == IF every = 0 THEN Interval ELSE every
             b    == IF oks < 3 THEN minDur(base, Interval) ELSE base
  <1>1. b \in Nat
    BY IntervalAssumption DEF minDur
  <1> HIDE DEF b
  <1>2. (b * 6) \div 5 + add \in Int
    BY <1>1
  <1>3. Clamp((b * 6) \div 5 + add) \in Nat
    BY <1>2, ClampBounds
  <1> QED
    BY <1>3 DEF nextIntervalOnSuccess, b

-----------------------------------------------------------------------------
(* Results of a check.                                                     *)

\* A failed check turns an hcState into an hcState.
LEMMA FailedCheckType ==
  ASSUME NEW h \in hcState, NEW n \in Nat
  PROVE  FailedCheck(h, n) \in hcState
  <1> DEFINE fails   == Bump(h.failCount, FailCap)
             healthy == h.healthy /\ fails < FailThreshold
  <1>1. fails \in 0 .. FailCap
    BY ThresholdAssumption DEF Bump, hcState, FailCap
  <1>2. healthy \in BOOLEAN /\ h.hcEvery \in Nat
    BY DEF hcState
  <1> HIDE DEF healthy, fails
  <1>3. nextIntervalOnFailure(h.hcEvery, healthy) \in Nat
    BY <1>2, FailureIntervalNat
  <1>4. 0 \in 0 .. SuccessCap
    BY ThresholdAssumption DEF SuccessCap
  <1>5. FailedCheck(h, n) =
          [h EXCEPT !.lastError = TRUE, !.successCount = 0, !.failCount = fails,
                    !.healthy = healthy,
                    !.hcEvery = nextIntervalOnFailure(h.hcEvery, healthy), !.nextHC = n]
    BY DEF FailedCheck, fails, healthy
  <1> QED
    BY <1>1, <1>2, <1>3, <1>4, <1>5, Zenon DEF hcState

\* So does a passed one.
LEMMA PassedCheckType ==
  ASSUME NEW h \in hcState, NEW add \in 0 .. MaxRTTAdd, NEW n \in Nat
  PROVE  PassedCheck(h, add, n) \in hcState
  <1> DEFINE oks     == Bump(h.successCount, SuccessCap)
             healthy == h.healthy \/ oks >= SuccessThreshold
  <1>1. oks \in 0 .. SuccessCap /\ oks \in Nat
    BY ThresholdAssumption DEF Bump, hcState, SuccessCap
  <1>2. healthy \in BOOLEAN /\ h.hcEvery \in Nat /\ add \in Nat
    BY IntervalAssumption DEF hcState
  <1> HIDE DEF healthy, oks
  <1>3. nextIntervalOnSuccess(h.hcEvery, oks, add) \in Nat
    BY <1>1, <1>2, SuccessIntervalNat, Zenon
  <1>4. 0 \in 0 .. FailCap
    BY ThresholdAssumption DEF FailCap
  <1>5. PassedCheck(h, add, n) =
          [h EXCEPT !.lastError = FALSE, !.failCount = 0, !.successCount = oks,
                    !.healthy = healthy,
                    !.hcEvery = nextIntervalOnSuccess(h.hcEvery, oks, add), !.nextHC = n]
    BY DEF PassedCheck, oks, healthy
  <1> QED
    BY <1>1, <1>2, <1>3, <1>4, <1>5, Zenon DEF hcState

\* The two fields the scheduler and the clock change on their own.
LEMMA SetField ==
  ASSUME NEW h \in hcState
  PROVE  /\ \A n \in Nat : [h EXCEPT !.nextHC = n] \in hcState
         /\ \A b \in BOOLEAN : [h EXCEPT !.inFlight = b] \in hcState
  BY DEF hcState

\* What the provers need of applyHCResult: every outcome is a failed or a passed
\* check with a delay for the next one.
LEMMA ResultForm ==
  ASSUME NEW h \in hcState, NEW err \in BOOLEAN, NEW r \in applyHCResult(h, err)
  PROVE  \/ err /\ \E n \in Nat : r = FailedCheck(h, n)
         \/ ~err /\ \E add \in 0 .. MaxRTTAdd, n \in Nat : r = PassedCheck(h, add, n)
  <1>1. CASE err
    <2>1. PICK n \in applyJitter(FailedCheck(h, 0).hcEvery) : r = FailedCheck(h, n)
      BY <1>1 DEF applyHCResult
    <2>2. FailedCheck(h, 0).hcEvery \in Nat
      BY FailedCheckType DEF hcState
    <2> QED
      BY <1>1, <2>1, <2>2, JitterNat
  <1>2. CASE ~err
    <2>1. PICK add \in 0 .. MaxRTTAdd :
            r \in {PassedCheck(h, add, n) : n \in applyJitter(PassedCheck(h, add, 0).hcEvery)}
      BY <1>2 DEF applyHCResult
    <2>2. PICK n \in applyJitter(PassedCheck(h, add, 0).hcEvery) : r = PassedCheck(h, add, n)
      BY <2>1
    <2>3. PassedCheck(h, add, 0).hcEvery \in Nat
      BY PassedCheckType DEF hcState
    <2> QED
      BY <1>2, <2>2, <2>3, JitterNat
  <1> QED
    BY <1>1, <1>2

LEMMA ResultType ==
  ASSUME NEW h \in hcState, NEW err \in BOOLEAN, NEW r \in applyHCResult(h, err)
  PROVE  r \in hcState
  BY ResultForm, FailedCheckType, PassedCheckType

-----------------------------------------------------------------------------
(* Type correctness.                                                       *)

LEMMA NoCheckType == NoCheck \in WorkRecord /\ NoCheck.pc = "idle"
  <1>1. PICK u \in Upstream : TRUE
    BY LimitsAssumption
  <1>2. <<u, "tcp">> \in Endpoint
    BY DEF Endpoint, Proto
  <1>3. (CHOOSE e \in Endpoint : TRUE) \in Endpoint
    BY <1>2
  <1> QED
    BY <1>3 DEF NoCheck, WorkRecord, Pc

\* A goroutine runDueChecks starts: which endpoint it got, and who kept still.
LEMMA Launch ==
  ASSUME NEW u \in Upstream, TypeOK, runDueChecks(u)
  PROVE  /\ work' \in [Worker -> WorkRecord]
         /\ \A w \in Worker :
              \/ work'[w] = work[w]
              \/ /\ work[w].pc = "idle" /\ work'[w].pc = "slot" /\ ~work'[w].outdated
                 /\ work'[w].ep \in Endpoint
                 /\ ~hc[work'[w].ep].inFlight /\ hc'[work'[w].ep].inFlight
                 /\ \A v \in Worker : work'[v] # work[v] /\ work'[v].ep = work'[w].ep => v = w
  <1> DEFINE due == {e \in {u} \X Proto : ~hc[e].inFlight /\ hc[e].nextHC = 0}
  <1>1. due \subseteq Endpoint
    BY DEF Endpoint
  <1>2. PICK g \in [due -> Busy({"idle"})] :
          /\ \A e, f \in due : g[e] = g[f] => e = f
          /\ work' = [w \in Worker |->
                        IF \E e \in due : g[e] = w
                        THEN NewCheck(CHOOSE e \in due : g[e] = w)
                        ELSE work[w]]
    BY Zenon DEF runDueChecks, StartChecks
  <1>3. hc' = [e \in Endpoint |-> IF e \in due THEN [hc[e] EXCEPT !.inFlight = TRUE] ELSE hc[e]]
    BY DEF runDueChecks, StartChecks
  <1>4. \A e \in due : ~hc[e].inFlight /\ hc'[e].inFlight
    <2> TAKE e \in due
    <2>1. hc[e] \in hcState
      BY <1>1 DEF TypeOK
    <2> QED
      BY <1>1, <1>3, <2>1 DEF hcState
  <1> HIDE DEF due
  <1>5. \A w \in Worker :
          \/ work'[w] = work[w] /\ ~ \E e \in due : g[e] = w
          \/ \E e \in due : /\ g[e] = w
                            /\ work'[w] = NewCheck(e)
    <2> TAKE w \in Worker
    <2>1. CASE \E e \in due : g[e] = w
      <3> DEFINE e == CHOOSE e \in due : g[e] = w
      <3>1. e \in due /\ g[e] = w
        BY <2>1
      <3>2. work'[w] = NewCheck(e)
        BY <1>2, <2>1
      <3> QED
        BY <3>1, <3>2, Zenon
    <2>2. CASE ~ \E e \in due : g[e] = w
      BY <1>2, <2>2
    <2> QED
      BY <2>1, <2>2
  <1>6. \A e \in due : /\ NewCheck(e) \in WorkRecord
                       /\ NewCheck(e).pc = "slot" /\ NewCheck(e).ep = e /\ ~NewCheck(e).outdated
    BY <1>1, NoCheckType, Zenon DEF WorkRecord, Pc, NoCheck, NewCheck
  <1>7. work \in [Worker -> WorkRecord]
    BY DEF TypeOK, WorkRecord
  <1>8. work' \in [Worker -> WorkRecord]
    <2>1. \A w \in Worker : work'[w] \in WorkRecord
      BY <1>5, <1>6, <1>7, SMTT(60)
    <2> QED
      BY <1>2, <2>1
  <1>9. ASSUME NEW w \in Worker, work'[w] # work[w]
        PROVE  /\ work[w].pc = "idle" /\ work'[w].pc = "slot" /\ ~work'[w].outdated
               /\ work'[w].ep \in Endpoint
               /\ ~hc[work'[w].ep].inFlight /\ hc'[work'[w].ep].inFlight
               /\ \A v \in Worker : work'[v] # work[v] /\ work'[v].ep = work'[w].ep => v = w
    <2>1. PICK e \in due : g[e] = w /\ work'[w] = NewCheck(e)
      BY <1>5, <1>9
    <2>2. work[w].pc = "idle"
      BY <1>2, <2>1 DEF Busy
    <2>3. ASSUME NEW v \in Worker, work'[v] # work[v], work'[v].ep = work'[w].ep
          PROVE  v = w
      <3>1. PICK f \in due : g[f] = v /\ work'[v] = NewCheck(f)
        BY <1>5, <2>3
      <3> QED
        BY <1>6, <2>1, <2>3, <3>1
    <2> QED
      BY <1>1, <1>4, <1>6, <2>1, <2>2, <2>3
  <1> QED
    BY <1>8, <1>9

LEMMA InitType == Init => TypeOK
  <1> SUFFICES ASSUME Init PROVE TypeOK
    OBVIOUS
  <1>1. ScheduledState \in hcState /\ UncheckedState \in hcState
    <2>1. 1 \in 0 .. SuccessCap /\ 0 \in 0 .. SuccessCap /\ 0 \in 0 .. FailCap /\ Interval \in Nat
      BY ThresholdAssumption, IntervalAssumption DEF SuccessCap, FailCap
    <2> QED
      BY <2>1 DEF ScheduledState, UncheckedState, hcState
  <1>2. hc \in [Endpoint -> hcState]
    BY <1>1 DEF Init
  <1>3. work \in [Worker -> WorkRecord]
    BY NoCheckType DEF Init
  <1>4. -1 \in -1 .. Cooldown /\ 0 \in 0 .. ProbeLimit /\ 0 \in 0 .. DialLimit
    BY IntervalAssumption, LimitsAssumption
  <1> QED
    BY <1>2, <1>3, <1>4, Zenon DEF Init, TypeOK, WorkRecord

\* The updates of a goroutine's own record.
LEMMA WorkUpdates ==
  ASSUME TypeOK, NEW w \in Worker
  PROVE  /\ work \in [Worker -> WorkRecord] /\ work[w].ep \in Endpoint /\ work[w].err \in BOOLEAN
         /\ [work EXCEPT ![w] = NoCheck] \in [Worker -> WorkRecord]
         /\ \A p \in Pc : [work EXCEPT ![w].pc = p] \in [Worker -> WorkRecord]
         /\ \A p \in Pc, err \in BOOLEAN :
              /\ [work EXCEPT ![w].pc = p, ![w].err = err] \in [Worker -> WorkRecord]
              /\ [work EXCEPT ![w].err = err, ![w].pc = p] \in [Worker -> WorkRecord]
  <1>1. work \in [Worker -> WorkRecord]
    BY DEF TypeOK, WorkRecord
  <1>2. [work EXCEPT ![w] = NoCheck] \in [Worker -> WorkRecord]
    BY <1>1, NoCheckType
  <1>3. \A p \in Pc : [work EXCEPT ![w].pc = p] \in [Worker -> WorkRecord]
    BY <1>1 DEF WorkRecord
  <1>4. ASSUME NEW p \in Pc, NEW err \in BOOLEAN
        PROVE  /\ [work EXCEPT ![w].pc = p, ![w].err = err] \in [Worker -> WorkRecord]
               /\ [work EXCEPT ![w].err = err, ![w].pc = p] \in [Worker -> WorkRecord]
    BY <1>1, Zenon DEF WorkRecord
  <1>5. work[w].ep \in Endpoint /\ work[w].err \in BOOLEAN
    BY <1>1 DEF WorkRecord
  <1> QED
    BY <1>1, <1>2, <1>3, <1>4, <1>5, Zenon

LEMMA CheckType ==
  ASSUME TypeOK, NEW w \in Worker, Check(w)
  PROVE  TypeOK'
  <1>w. /\ work[w].ep \in Endpoint /\ work[w].err \in BOOLEAN
        /\ [work EXCEPT ![w] = NoCheck] \in [Worker -> WorkRecord]
        /\ \A p \in Pc : [work EXCEPT ![w].pc = p] \in [Worker -> WorkRecord]
        /\ \A p \in Pc, err \in BOOLEAN :
             /\ [work EXCEPT ![w].pc = p, ![w].err = err] \in [Worker -> WorkRecord]
             /\ [work EXCEPT ![w].err = err, ![w].pc = p] \in [Worker -> WorkRecord]
    BY WorkUpdates, Zenon
  <1>h. /\ hc \in [Endpoint -> hcState]
        /\ cooldown \in [Endpoint -> -1 .. Cooldown]
        /\ probeSem \in 0 .. ProbeLimit /\ probeDialSem \in 0 .. DialLimit
        /\ reachable \in Reachability
    BY DEF TypeOK
  <1>e. work[w].ep \in Endpoint /\ work[w].err \in BOOLEAN
    BY <1>w, Zenon
  <1>p. /\ "dial" \in Pc /\ "probe" \in Pc /\ "quality" \in Pc /\ "qdial" \in Pc
        /\ "apply" \in Pc /\ "release" \in Pc
    BY DEF Pc
  <1>0. ASSUME work' \in [Worker -> WorkRecord], hc' \in [Endpoint -> hcState],
               cooldown' \in [Endpoint -> -1 .. Cooldown],
               probeSem' \in 0 .. ProbeLimit, probeDialSem' \in 0 .. DialLimit,
               UNCHANGED <<sched, ctxDone, reachable, held>>
        PROVE  TypeOK'
    BY <1>0 DEF TypeOK, WorkRecord
  <1>1. CASE acquireProbeSlot(w)
    <2>1. work' \in [Worker -> WorkRecord]
      BY <1>1, <1>w, <1>p, Zenon DEF acquireProbeSlot, Goto
    <2>2. probeSem' \in 0 .. ProbeLimit
      BY <1>1, <1>h, LimitsAssumption DEF acquireProbeSlot
    <2> QED
      BY <1>0, <1>h, <1>1, <2>1, <2>2, Zenon DEF acquireProbeSlot
  <1>2. CASE GiveUpSlot(w)
    <2>1. hc' = [hc EXCEPT ![work[w].ep] = [hc[work[w].ep] EXCEPT !.inFlight = FALSE]]
      BY <1>2, <1>h DEF GiveUpSlot
    <2>2. [hc[work[w].ep] EXCEPT !.inFlight = FALSE] \in hcState
      BY <1>h, <1>e, SetField, Zenon
    <2>3. hc' \in [Endpoint -> hcState]
      BY <1>h, <1>e, <2>1, <2>2
    <2> QED
      BY <1>0, <1>h, <1>2, <1>w, <2>3, Zenon DEF GiveUpSlot
  <1>3. CASE acquireProbeDialSlot(w)
    <2>1. work' \in [Worker -> WorkRecord]
      BY <1>3, <1>w, <1>p, Zenon DEF acquireProbeDialSlot, Goto
    <2>2. probeDialSem' \in 0 .. DialLimit
      BY <1>3, <1>h, LimitsAssumption DEF acquireProbeDialSlot
    <2> QED
      BY <1>0, <1>h, <1>3, <2>1, <2>2, Zenon DEF acquireProbeDialSlot
  <1>4. CASE DialSlotTimeout(w)
    <2>1. work' \in [Worker -> WorkRecord]
      BY <1>4, <1>w, <1>p, Zenon DEF DialSlotTimeout
    <2> QED
      BY <1>0, <1>h, <1>4, <2>1, Zenon DEF DialSlotTimeout
  <1>r. releaseProbeDialSlot => probeDialSem' \in 0 .. DialLimit
    BY <1>h, LimitsAssumption DEF releaseProbeDialSlot
  <1>5. CASE TransportProbe(w)
    <2>1. PICK err \in BOOLEAN :
            work' = [work EXCEPT ![w].err = err,
                                 ![w].pc = IF ~err /\ work[w].ep[2] \in QualityProtos
                                           THEN "qdial" ELSE "apply"]
      BY <1>5, <1>e, <1>h, Zenon DEF TransportProbe
    <2>2. work' \in [Worker -> WorkRecord]
      BY <1>w, <1>p, <2>1, Zenon
    <2> QED
      BY <1>0, <1>h, <1>5, <1>r, <2>2, Zenon DEF TransportProbe
  <1>6. CASE QualityProbe(w)
    <2>1. work' \in [Worker -> WorkRecord]
      BY <1>6, <1>w, <1>p, Zenon DEF QualityProbe, Goto
    <2> QED
      BY <1>0, <1>h, <1>6, <1>r, <2>1, Zenon DEF QualityProbe
  <1>7. CASE ApplyResult(w)
    <2>1. PICK h \in applyHCResult(hc[work[w].ep], work[w].err) :
            /\ hc' = [hc EXCEPT ![work[w].ep] = [h EXCEPT !.inFlight = FALSE]]
            /\ cooldown' = [cooldown EXCEPT ![work[w].ep] = IF h.healthy THEN -1 ELSE @]
      BY <1>7, Zenon DEF ApplyResult
    <2>2. h \in hcState
      BY <1>h, <1>e, <2>1, ResultType
    <2>3. [h EXCEPT !.inFlight = FALSE] \in hcState
      BY <2>2, SetField, Zenon
    <2>4. hc' \in [Endpoint -> hcState]
      BY <1>h, <1>e, <2>1, <2>3, SMTT(60)
    <2>5. cooldown' \in [Endpoint -> -1 .. Cooldown]
      BY <1>e, <1>h, <2>1, IntervalAssumption
    <2>6. work' \in [Worker -> WorkRecord]
      BY <1>7, <1>w, <1>p, Zenon DEF ApplyResult, Goto
    <2> QED
      BY <1>0, <1>h, <1>7, <2>4, <2>5, <2>6, Zenon DEF ApplyResult
  <1>8. CASE releaseProbeSlot(w)
    <2>1. probeSem' \in 0 .. ProbeLimit
      BY <1>8, <1>h, LimitsAssumption, SMTT(60) DEF releaseProbeSlot
    <2> QED
      BY <1>0, <1>h, <1>8, <1>w, <2>1, Zenon DEF releaseProbeSlot
  <1> QED
    BY <1>1, <1>2, <1>3, <1>4, <1>5, <1>6, <1>7, <1>8 DEF Check

LEMMA ReportType ==
  ASSUME TypeOK, NEW e \in Endpoint, ReportFailure(e)
  PROVE  /\ TypeOK'
         /\ ~hc'[e].healthy /\ cooldown'[e] = Cooldown
         /\ hc'[e].lastError /\ hc'[e].failCount > 0 /\ hc'[e].successCount = 0
         /\ hc'[e].inFlight = hc[e].inFlight
         /\ \A f \in Endpoint : f # e => hc'[f] = hc[f] /\ cooldown'[f] = cooldown[f]
         /\ \A w \in Worker : work'[w].pc = work[w].pc /\ work'[w].ep = work[w].ep
  <1> USE DEF TypeOK
  <1>1. PICK n \in applyJitter(MinInterval) :
          hc' = [hc EXCEPT ![e] = FailedFlow(@, n)]
    BY Zenon DEF ReportFailure
  <1>2. n \in Nat /\ MinInterval \in Nat
    BY JitterNat, IntervalAssumption
  <1>3. hc[e] \in hcState
    OBVIOUS
  <1>4. /\ Bump(hc[e].failCount, FailCap) \in 0 .. FailCap
        /\ Bump(hc[e].failCount, FailCap) > 0
        /\ 0 \in 0 .. SuccessCap
    BY <1>3, ThresholdAssumption DEF Bump, hcState, FailCap, SuccessCap
  <1>5. hc'[e] = FailedFlow(hc[e], n)
    BY <1>1
  <1>6. /\ hc'[e] \in hcState
        /\ ~hc'[e].healthy /\ hc'[e].lastError /\ hc'[e].failCount > 0
        /\ hc'[e].successCount = 0 /\ hc'[e].inFlight = hc[e].inFlight
    BY <1>2, <1>3, <1>4, <1>5, Zenon DEF hcState, FailedFlow
  <1>7. hc' \in [Endpoint -> hcState] /\ \A f \in Endpoint : f # e => hc'[f] = hc[f]
    BY <1>1, <1>6
  <1>8. /\ cooldown' \in [Endpoint -> -1 .. Cooldown] /\ cooldown'[e] = Cooldown
        /\ \A f \in Endpoint : f # e => cooldown'[f] = cooldown[f]
    BY IntervalAssumption DEF ReportFailure
  <1>9. /\ work' \in [Worker -> WorkRecord]
        /\ \A w \in Worker : work'[w].pc = work[w].pc /\ work'[w].ep = work[w].ep
    <2>1. \A w \in Worker : /\ work[w] \in WorkRecord
                           /\ work'[w] \in {work[w], [work[w] EXCEPT !.outdated = TRUE]}
      BY DEF ReportFailure, WorkRecord
    <2>2. \A w \in Worker : /\ work'[w] \in WorkRecord
                           /\ work'[w].pc = work[w].pc /\ work'[w].ep = work[w].ep
      <3> TAKE w \in Worker
      <3> DEFINE r == work[w]
      <3>1. /\ r \in WorkRecord => [r EXCEPT !.outdated = TRUE] \in WorkRecord
            /\ [r EXCEPT !.outdated = TRUE].pc = r.pc \/ r \notin WorkRecord
            /\ [r EXCEPT !.outdated = TRUE].ep = r.ep \/ r \notin WorkRecord
        BY Zenon DEF WorkRecord
      <3> QED
        BY <2>1, <3>1, Zenon
    <2> QED
      BY <2>2 DEF ReportFailure
  <1> QED
    BY <1>6, <1>7, <1>8, <1>9 DEF ReportFailure, WorkRecord

LEMMA TickType ==
  ASSUME TypeOK, Tick
  PROVE  /\ TypeOK'
         /\ \A e \in Endpoint : \E n \in Nat : hc'[e] = [hc[e] EXCEPT !.nextHC = n]
         /\ \A e \in Endpoint : cooldown'[e] = CountDown(cooldown[e], -1)
  <1> USE DEF TypeOK
  <1>1. \A e \in Endpoint : hc[e] \in hcState /\ CountDown(hc[e].nextHC, 0) \in Nat
    BY DEF hcState, CountDown
  <1>2. \A e \in Endpoint : hc'[e] = [hc[e] EXCEPT !.nextHC = CountDown(hc[e].nextHC, 0)]
    BY DEF Tick
  <1>3. \A e \in Endpoint : hc'[e] \in hcState
    <2> TAKE e \in Endpoint
    <2>1. hc[e] \in hcState /\ CountDown(hc[e].nextHC, 0) \in Nat
      BY <1>1
    <2> HIDE DEF TypeOK
    <2>2. [hc[e] EXCEPT !.nextHC = CountDown(hc[e].nextHC, 0)] \in hcState
      BY <2>1, SetField
    <2> QED
      BY <1>2, <2>2
  <1>4. hc' \in [Endpoint -> hcState]
    BY <1>3 DEF Tick
  <1>5. /\ cooldown' \in [Endpoint -> -1 .. Cooldown]
        /\ \A e \in Endpoint : cooldown'[e] = CountDown(cooldown[e], -1)
    BY IntervalAssumption DEF Tick, CountDown
  <1> QED
    BY <1>1, <1>2, <1>4, <1>5, SMTT(60) DEF Tick

LEMMA NextType ==
  ASSUME TypeOK, [Next]_vars
  PROVE  TypeOK'
  <1>1. ASSUME NEW u \in Upstream, runDueChecks(u)
        PROVE  TypeOK'
    <2>1. hc' \in [Endpoint -> hcState]
      <3>1. \A e \in Endpoint : hc'[e] \in {hc[e], [hc[e] EXCEPT !.inFlight = TRUE]}
        BY <1>1 DEF runDueChecks, StartChecks
      <3>2. \A e \in Endpoint : hc'[e] \in hcState
        <4> TAKE e \in Endpoint
        <4>1. hc[e] \in hcState
          BY DEF TypeOK
        <4> QED
          BY <3>1, <4>1, SetField, Zenon
      <3> QED
        BY <1>1, <3>2 DEF runDueChecks, StartChecks
    <2>2. work' \in [Worker -> WorkRecord]
      BY <1>1, Launch
    <2> QED
      BY <1>1, <2>1, <2>2 DEF runDueChecks, StartChecks, TypeOK, WorkRecord
  <1>2. CASE StopScheduler
    BY <1>2 DEF StopScheduler, TypeOK
  <1>3. ASSUME NEW w \in Worker, Check(w)
        PROVE  TypeOK'
    BY <1>3, CheckType
  <1>4. ASSUME NEW e \in Endpoint, PickFlow(e)
        PROVE  TypeOK'
    BY <1>4 DEF PickFlow, TypeOK
  <1>5. ASSUME NEW e \in Endpoint, ReportFailure(e)
        PROVE  TypeOK'
    BY <1>5, ReportType
  <1>6. ASSUME NEW e \in Endpoint, ChangeReachability(e)
        PROVE  TypeOK'
    BY <1>6 DEF ChangeReachability, TypeOK, Reachability, Answer
  <1>7. CASE Shutdown
    BY <1>7 DEF Shutdown, TypeOK
  <1>8. CASE Tick
    BY <1>8, TickType
  <1>9. CASE UNCHANGED vars
    BY <1>9 DEF vars, TypeOK
  <1> QED
    BY <1>1, <1>2, <1>3, <1>4, <1>5, <1>6, <1>7, <1>8, <1>9, SMTT(60) DEF Next

\* The program only ever reaches states TypeOK describes: in particular neither
\* semaphore of lb.go goes below zero or above its capacity, and no deadline that
\* the interval arithmetic computes is negative.
THEOREM TypeCorrect == Spec => []TypeOK
  <1>1. Init => TypeOK
    BY InitType
  <1>2. TypeOK /\ [Next]_vars => TypeOK'
    BY NextType
  <1> QED
    BY <1>1, <1>2, PTL DEF Spec

-----------------------------------------------------------------------------
(* One check per endpoint.  The property is not inductive by itself: what   *)
(* keeps runDueChecks from starting a second check is the inFlight flag, so *)
(* the invariant says that it is raised as long as the check runs.          *)

Flagged == \A w \in Busy(Checking) : hc[work[w].ep].inFlight

CheckInv == TypeOK /\ Flagged /\ OneCheckPerEndpoint

\* A step in which no goroutine enters a check and no flag is lowered.
LEMMA QuietStep ==
  ASSUME CheckInv,
         \A w \in Worker : work'[w].ep = work[w].ep \/ work'[w].pc \notin Checking,
         \A w \in Worker : work'[w].pc \in Checking => work[w].pc \in Checking,
         \A e \in Endpoint : hc[e].inFlight => hc'[e].inFlight
  PROVE  Flagged' /\ OneCheckPerEndpoint'
  <1>1. \A w \in Worker : work[w].ep \in Endpoint
    BY DEF CheckInv, TypeOK
  <1> QED
    BY <1>1 DEF CheckInv, Flagged, OneCheckPerEndpoint, Busy

\* A step of goroutine w that ends its check of endpoint work[w].ep.
LEMMA EndStep ==
  ASSUME CheckInv, NEW w \in Worker, work[w].pc \in Checking,
         work'[w].pc \notin Checking,
         \A v \in Worker : v # w => work'[v] = work[v],
         \A e \in Endpoint : e # work[w].ep => hc'[e].inFlight = hc[e].inFlight
  PROVE  Flagged' /\ OneCheckPerEndpoint'
  <1>1. \A v \in Worker : work[v].ep \in Endpoint
    BY DEF CheckInv, TypeOK
  <1>2. \A v \in Worker : v # w /\ work[v].pc \in Checking => work[v].ep # work[w].ep
    BY DEF CheckInv, OneCheckPerEndpoint, Busy
  <1> QED
    BY <1>1, <1>2 DEF CheckInv, Flagged, OneCheckPerEndpoint, Busy

\* The step of a check goroutine, as the others and the flags see it.
LEMMA CheckStep ==
  ASSUME CheckInv, NEW w \in Worker, Check(w)
  PROVE  Flagged' /\ OneCheckPerEndpoint'
  <1>w. work \in [Worker -> WorkRecord] /\ work[w].ep \in Endpoint /\ hc \in [Endpoint -> hcState]
    BY DEF CheckInv, TypeOK, WorkRecord
  <1> USE DEF Checking
  <1>1. CASE acquireProbeSlot(w)
    BY <1>1, <1>w, QuietStep DEF acquireProbeSlot, Goto, WorkRecord
  <1>2. CASE GiveUpSlot(w)
    <2>1. work[w].pc \in Checking /\ work'[w].pc \notin Checking
      BY <1>2, <1>w, NoCheckType DEF GiveUpSlot
    <2>2. \A v \in Worker : v # w => work'[v] = work[v]
      BY <1>2, <1>w DEF GiveUpSlot
    <2>3. \A e \in Endpoint : e # work[w].ep => hc'[e].inFlight = hc[e].inFlight
      BY <1>2, <1>w DEF GiveUpSlot
    <2> QED
      BY <2>1, <2>2, <2>3, EndStep
  <1>3. CASE acquireProbeDialSlot(w)
    BY <1>3, <1>w, QuietStep DEF acquireProbeDialSlot, Goto, WorkRecord
  <1>4. CASE DialSlotTimeout(w)
    BY <1>4, <1>w, QuietStep DEF DialSlotTimeout, WorkRecord
  <1>5. CASE TransportProbe(w)
    <2>1. /\ work[w].pc \in Checking /\ work'[w].ep = work[w].ep
          /\ \A v \in Worker : v # w => work'[v] = work[v]
      BY <1>5, <1>w DEF TransportProbe, WorkRecord
    <2> QED
      BY <1>5, <2>1, QuietStep, Zenon DEF TransportProbe
  <1>6. CASE QualityProbe(w)
    BY <1>6, <1>w, QuietStep, SMTT(60) DEF QualityProbe, Goto, WorkRecord
  <1>7. CASE ApplyResult(w)
    <2>1. work[w].pc \in Checking /\ work'[w].pc \notin Checking
      BY <1>7, <1>w DEF ApplyResult, Goto, WorkRecord
    <2>2. \A v \in Worker : v # w => work'[v] = work[v]
      BY <1>7, <1>w DEF ApplyResult, Goto
    <2>3. \A e \in Endpoint : e # work[w].ep => hc'[e].inFlight = hc[e].inFlight
      BY <1>7, <1>w DEF ApplyResult
    <2> QED
      BY <2>1, <2>2, <2>3, EndStep
  <1>8. CASE releaseProbeSlot(w)
    BY <1>8, <1>w, QuietStep, NoCheckType DEF releaseProbeSlot, WorkRecord
  <1> QED
    BY <1>1, <1>2, <1>3, <1>4, <1>5, <1>6, <1>7, <1>8, SMTT(60) DEF Check

LEMMA CheckInvStep ==
  ASSUME CheckInv, [Next]_vars
  PROVE  CheckInv'
  <1>t. TypeOK /\ TypeOK'
    BY NextType DEF CheckInv
  <1> SUFFICES Flagged' /\ OneCheckPerEndpoint'
    BY <1>t DEF CheckInv
  <1>1. ASSUME NEW u \in Upstream, runDueChecks(u)
        PROVE  Flagged' /\ OneCheckPerEndpoint'
    <2>1. \A w \in Worker :
            \/ work'[w] = work[w]
            \/ /\ work[w].pc = "idle" /\ work'[w].ep \in Endpoint
               /\ ~hc[work'[w].ep].inFlight /\ hc'[work'[w].ep].inFlight
               /\ \A v \in Worker : work'[v] # work[v] /\ work'[v].ep = work'[w].ep => v = w
      BY <1>1, <1>t, Launch
    <2>2. \A e \in Endpoint : hc[e].inFlight => hc'[e].inFlight
      <3>1. \A e \in Endpoint : hc[e].inFlight => hc'[e] = hc[e]
        BY <1>1 DEF runDueChecks, StartChecks
      <3> QED
        BY <3>1
    <2>3. \A w \in Worker : work[w].ep \in Endpoint
      BY <1>t DEF TypeOK
    <2>4. Flagged'
      BY <2>1, <2>2, <2>3, SMTT(60) DEF Flagged, CheckInv, Busy
    <2>5. OneCheckPerEndpoint'
      BY <2>1, <2>3 DEF OneCheckPerEndpoint, Flagged, CheckInv, Busy
    <2> QED
      BY <2>4, <2>5
  <1>2. CASE StopScheduler
    BY <1>2, QuietStep DEF StopScheduler
  <1>3. ASSUME NEW w \in Worker, Check(w)
        PROVE  Flagged' /\ OneCheckPerEndpoint'
    BY <1>3, CheckStep, SMTT(60)
  <1>4. ASSUME NEW e \in Endpoint, PickFlow(e)
        PROVE  Flagged' /\ OneCheckPerEndpoint'
    BY <1>4, QuietStep DEF PickFlow
  <1>5. ASSUME NEW e \in Endpoint, ReportFailure(e)
        PROVE  Flagged' /\ OneCheckPerEndpoint'
    <2>1. /\ \A f \in Endpoint : hc'[f].inFlight = hc[f].inFlight
          /\ \A w \in Worker : work'[w].pc = work[w].pc /\ work'[w].ep = work[w].ep
      BY <1>5, <1>t, ReportType
    <2> QED
      BY <2>1, QuietStep
  <1>6. ASSUME NEW e \in Endpoint, ChangeReachability(e)
        PROVE  Flagged' /\ OneCheckPerEndpoint'
    BY <1>6, QuietStep DEF ChangeReachability
  <1>7. CASE Shutdown
    BY <1>7, QuietStep DEF Shutdown
  <1>8. CASE Tick
    <2>1. \A e \in Endpoint : hc'[e].inFlight = hc[e].inFlight
      <3> TAKE e \in Endpoint
      <3>1. PICK n \in Nat : hc'[e] = [hc[e] EXCEPT !.nextHC = n]
        BY <1>8, <1>t, TickType
      <3>2. hc[e] \in hcState
        BY <1>t DEF TypeOK
      <3> QED
        BY <3>1, <3>2 DEF hcState
    <2>2. work' = work
      BY <1>8 DEF Tick
    <2> QED
      BY <2>1, <2>2, QuietStep
  <1>9. CASE UNCHANGED vars
    BY <1>9, QuietStep DEF vars
  <1> QED
    BY <1>1, <1>2, <1>3, <1>4, <1>5, <1>6, <1>7, <1>8, <1>9, SMTT(60) DEF Next

\* However long a probe takes and whatever flows report in the meantime, an
\* endpoint is never checked by two goroutines at once.
THEOREM SingleCheck == Spec => []OneCheckPerEndpoint
  <1>1. Init => CheckInv
    <2> SUFFICES ASSUME Init PROVE CheckInv
      OBVIOUS
    <2>1. \A w \in Worker : work[w].pc = "idle"
      BY NoCheckType DEF Init
    <2> QED
      BY <2>1, InitType DEF CheckInv, Flagged, OneCheckPerEndpoint, Busy, Checking
  <1>2. CheckInv /\ [Next]_vars => CheckInv'
    BY CheckInvStep
  <1>3. CheckInv => OneCheckPerEndpoint
    BY DEF CheckInv
  <1> QED
    BY <1>1, <1>2, <1>3, PTL DEF Spec

-----------------------------------------------------------------------------
(* What one step may do to the health of the endpoints.                     *)

SameHealth(e) ==
  /\ hc'[e].healthy = hc[e].healthy
  /\ hc'[e].lastError = hc[e].lastError
  /\ hc'[e].failCount = hc[e].failCount
  /\ hc'[e].successCount = hc[e].successCount

OnlyAt(e) == \A f \in Endpoint : f # e => SameHealth(f) /\ cooldown'[f] = cooldown[f]

Result(e, err) ==
  /\ OnlyAt(e)
  /\ \E h \in applyHCResult(hc[e], err) :
       /\ hc'[e] = [h EXCEPT !.inFlight = FALSE]
       /\ cooldown'[e] = IF h.healthy THEN -1 ELSE cooldown[e]

Reported(e) ==
  /\ OnlyAt(e)
  /\ ~hc'[e].healthy /\ cooldown'[e] = Cooldown
  /\ hc'[e].lastError /\ hc'[e].failCount > 0 /\ hc'[e].successCount = 0

\* Only three things touch the health of an endpoint: a finished check, a failure
\* report, and the clock, which counts every cooldown down.
LEMMA HealthSteps ==
  ASSUME TypeOK, [Next]_vars
  PROVE  \/ (\A e \in Endpoint : SameHealth(e)) /\ cooldown' = cooldown
         \/ /\ \A e \in Endpoint : SameHealth(e)
            /\ \A e \in Endpoint : cooldown'[e] = CountDown(cooldown[e], -1)
         \/ \E e \in Endpoint : Reported(e)
         \/ \E w \in Worker : ApplyResult(w) /\ Result(work[w].ep, work[w].err)
  <1> DEFINE Goal == \/ (\A e \in Endpoint : SameHealth(e)) /\ cooldown' = cooldown
                     \/ /\ \A e \in Endpoint : SameHealth(e)
                        /\ \A e \in Endpoint : cooldown'[e] = CountDown(cooldown[e], -1)
                     \/ \E e \in Endpoint : Reported(e)
                     \/ \E w \in Worker : ApplyResult(w) /\ Result(work[w].ep, work[w].err)
  <1> SUFFICES Goal
    OBVIOUS
  <1>h. \A e \in Endpoint : hc[e] \in hcState
    BY DEF TypeOK
  <1>0. hc' = hc /\ cooldown' = cooldown => Goal
    BY DEF SameHealth
  <1>1. ASSUME NEW u \in Upstream, runDueChecks(u)
        PROVE  Goal
    <2>1. \A e \in Endpoint : hc'[e] \in {hc[e], [hc[e] EXCEPT !.inFlight = TRUE]}
      BY <1>1 DEF runDueChecks, StartChecks
    <2>2. \A e \in Endpoint : SameHealth(e)
      BY <1>h, <2>1, SMTT(60) DEF SameHealth, hcState
    <2> QED
      BY <1>1, <2>2 DEF runDueChecks, StartChecks
  <1>2. CASE StopScheduler \/ Shutdown \/ UNCHANGED vars
    BY <1>0, <1>2, SMTT(60) DEF StopScheduler, Shutdown, vars
  <1>3. ASSUME NEW w \in Worker, Check(w)
        PROVE  Goal
    <2> DEFINE e == work[w].ep
    <2>e. e \in Endpoint
      BY DEF TypeOK
    <2>1. CASE GiveUpSlot(w)
      <3>1. hc' = [hc EXCEPT ![e].inFlight = FALSE] /\ cooldown' = cooldown
        BY <2>1 DEF GiveUpSlot
      <3>2. \A f \in Endpoint : SameHealth(f)
        BY <1>h, <2>e, <3>1, SMTT(60) DEF SameHealth, hcState, TypeOK
      <3> QED
        BY <3>1, <3>2
    <2>2. CASE ApplyResult(w)
      <3>1. PICK h \in applyHCResult(hc[e], work[w].err) :
              /\ hc' = [hc EXCEPT ![e] = [h EXCEPT !.inFlight = FALSE]]
              /\ cooldown' = [cooldown EXCEPT ![e] = IF h.healthy THEN -1 ELSE @]
        BY <2>2, Zenon DEF ApplyResult
      <3>2. OnlyAt(e)
        BY <2>e, <3>1, SMTT(60) DEF OnlyAt, SameHealth, TypeOK
      <3>3. /\ hc'[e] = [h EXCEPT !.inFlight = FALSE]
            /\ cooldown'[e] = IF h.healthy THEN -1 ELSE cooldown[e]
        BY <2>e, <3>1, SMTT(60) DEF TypeOK
      <3>4. Result(e, work[w].err)
        BY <3>2, <3>3, Zenon DEF Result
      <3> QED
        BY <2>2, <3>4
    <2>3. CASE /\ ~GiveUpSlot(w)
               /\ ~ApplyResult(w)
      BY <1>0, <1>3, <2>3, ZenonT(60) DEF Check, acquireProbeSlot, acquireProbeDialSlot, DialSlotTimeout,
                              TransportProbe, QualityProbe, releaseProbeSlot
    <2> QED
      BY <2>1, <2>2, <2>3
  <1>4. ASSUME NEW e \in Endpoint, PickFlow(e) \/ ChangeReachability(e)
        PROVE  Goal
    BY <1>0, <1>4, SMTT(60) DEF PickFlow, ChangeReachability
  <1>5. ASSUME NEW e \in Endpoint, ReportFailure(e)
        PROVE  Goal
    <2>1. Reported(e)
      BY <1>5, ReportType DEF Reported, OnlyAt, SameHealth
    <2> QED
      BY <2>1, SMTT(60)
  <1>6. CASE Tick
    <2>1. \A e \in Endpoint : SameHealth(e)
      <3> TAKE e \in Endpoint
      <3>1. PICK n \in Nat : hc'[e] = [hc[e] EXCEPT !.nextHC = n]
        BY <1>6, TickType, SMTT(60)
      <3> QED
        BY <1>h, <3>1, SMTT(60) DEF hcState, SameHealth
    <2> QED
      BY <1>6, <2>1, TickType
  <1> HIDE DEF Goal
  <1> QED
    BY <1>1, <1>2, <1>3, <1>4, <1>5, <1>6, SMTT(60) DEF Next

\* The verdict of a finished check, in the terms of the invariants below.
LEMMA Verdict ==
  ASSUME NEW h \in hcState, NEW err \in BOOLEAN, NEW r \in applyHCResult(h, err)
  PROVE  /\ r \in hcState
         /\ r.lastError = err
         /\ err => /\ r.failCount > 0 /\ r.successCount = 0
                   /\ r.healthy => h.healthy /\ r.failCount < FailThreshold
         /\ ~err => r.failCount = 0
  <1>1. r \in hcState
    BY ResultType
  <1>2. CASE err
    <2>1. PICK n \in Nat : r = FailedCheck(h, n)
      BY <1>2, ResultForm, Zenon
    <2> DEFINE fails   == Bump(h.failCount, FailCap)
               healthy == h.healthy /\ fails < FailThreshold
               every   == nextIntervalOnFailure(h.hcEvery, healthy)
    <2>2. fails > 0
      BY ThresholdAssumption DEF Bump, FailCap, hcState
    <2>3. r = [h EXCEPT !.lastError = TRUE, !.successCount = 0, !.failCount = fails,
                        !.healthy = healthy, !.hcEvery = every, !.nextHC = n]
      BY <2>1 DEF FailedCheck
    <2> HIDE DEF fails, every
    <2>4. /\ r.lastError = TRUE /\ r.successCount = 0 /\ r.failCount = fails
          /\ r.healthy = healthy
      BY <2>3 DEF hcState
    <2> QED
      BY <1>1, <1>2, <2>2, <2>4, Zenon
  <1>3. CASE ~err
    <2>1. PICK add \in 0 .. MaxRTTAdd, n \in Nat : r = PassedCheck(h, add, n)
      BY <1>3, ResultForm, SMTT(60)
    <2> QED
      BY <1>1, <1>3, <2>1, Zenon DEF PassedCheck, hcState
  <1> QED
    BY <1>2, <1>3, SMTT(60)

HealthInv == TypeOK /\ HealthyNotCoolingDown /\ CountersCoherent

LEMMA HealthInvStep ==
  ASSUME HealthInv, [Next]_vars
  PROVE  HealthInv'
  <1>t. TypeOK /\ TypeOK'
    BY NextType, SMTT(60) DEF HealthInv
  <1>f. FailThreshold \in Nat \ {0} /\ Cooldown \in Nat \ {0}
    BY ThresholdAssumption, IntervalAssumption, SMTT(60)
  <1>h. \A e \in Endpoint : /\ hc[e] \in hcState /\ hc'[e] \in hcState
                            /\ cooldown[e] \in -1 .. Cooldown
    BY <1>t, SMTT(60) DEF TypeOK
  <1> DEFINE Good(e) == /\ hc[e].healthy => cooldown[e] = -1
                        /\ hc[e].lastError <=> hc[e].failCount > 0
                        /\ hc[e].failCount > 0 => hc[e].successCount = 0
                        /\ hc[e].healthy => hc[e].failCount < FailThreshold
  <1>g. \A e \in Endpoint : Good(e)
    BY SMTT(60) DEF HealthInv, HealthyNotCoolingDown, CountersCoherent
  <1>1. SUFFICES ASSUME NEW e \in Endpoint PROVE Good(e)'
    BY <1>t, SMTT(60) DEF HealthInv, HealthyNotCoolingDown, CountersCoherent
  <1>2. CASE SameHealth(e) /\ cooldown'[e] = cooldown[e]
    BY <1>2, <1>g, SMTT(60) DEF SameHealth
  <1>3. CASE SameHealth(e) /\ cooldown'[e] = CountDown(cooldown[e], -1)
    BY <1>3, <1>g, <1>h, SMTT(60) DEF SameHealth, CountDown
  <1>4. CASE Reported(e)
    BY <1>4, <1>h DEF Reported, hcState
  <1>5. ASSUME NEW err \in BOOLEAN, Result(e, err)
        PROVE  Good(e)'
    <2>1. PICK h \in applyHCResult(hc[e], err) :
            /\ hc'[e] = [h EXCEPT !.inFlight = FALSE]
            /\ cooldown'[e] = IF h.healthy THEN -1 ELSE cooldown[e]
      BY <1>5, Zenon DEF Result
    <2>2. /\ h \in hcState
          /\ h.lastError = err
          /\ err => /\ h.failCount > 0 /\ h.successCount = 0
                    /\ h.healthy => hc[e].healthy /\ h.failCount < FailThreshold
          /\ ~err => h.failCount = 0
      BY <1>h, <2>1, Verdict
    <2>3. /\ hc'[e].healthy = h.healthy /\ hc'[e].lastError = h.lastError
          /\ hc'[e].failCount = h.failCount /\ hc'[e].successCount = h.successCount
      BY <2>1, <2>2 DEF hcState
    <2> QED
      BY <1>f, <2>1, <2>2, <2>3
  <1>6. \A f \in Endpoint : OnlyAt(f) /\ f # e => SameHealth(e) /\ cooldown'[e] = cooldown[e]
    BY SMTT(60) DEF OnlyAt
  <1>7. \A f \in Endpoint : Reported(f) => Good(e)'
    BY <1>2, <1>4, <1>6 DEF Reported
  <1>8. \A w \in Worker : Result(work[w].ep, work[w].err) => Good(e)'
    <2> TAKE w \in Worker
    <2>1. work[w].ep \in Endpoint /\ work[w].err \in BOOLEAN
      BY <1>t, SMTT(60) DEF TypeOK
    <2> QED
      BY <1>2, <1>5, <1>6, <2>1, Zenon DEF Result
  <1> HIDE DEF Good
  <1> QED
    BY <1>t, <1>2, <1>3, <1>7, <1>8, HealthSteps, SMTT(60)

LEMMA HealthInvInit == Init => HealthInv
  <1> SUFFICES ASSUME Init PROVE HealthInv
    OBVIOUS
  <1>1. \A e \in Endpoint : hc[e] \in {ScheduledState, UncheckedState} /\ cooldown[e] = -1
    BY DEF Init
  <1> QED
    BY <1>1, InitType, ThresholdAssumption
    DEF HealthInv, HealthyNotCoolingDown, CountersCoherent, ScheduledState, UncheckedState

\* An endpoint the selector may see as healthy never carries a running cooldown:
\* ReportTCPFailure and the end of a check keep the two in step.
THEOREM NoHealthyCooldown == Spec => []HealthyNotCoolingDown
  <1>1. HealthInv /\ [Next]_vars => HealthInv'
    BY HealthInvStep
  <1>2. HealthInv => HealthyNotCoolingDown
    BY DEF HealthInv
  <1> QED
    BY HealthInvInit, <1>1, <1>2, PTL DEF Spec

\* The failure and success counters, the remembered error and the health bit of
\* an hcState stay consistent whichever of checks and reports writes them.
THEOREM CountersAgree == Spec => []CountersCoherent
  <1>1. HealthInv /\ [Next]_vars => HealthInv'
    BY HealthInvStep
  <1>2. HealthInv => CountersCoherent
    BY DEF HealthInv
  <1> QED
    BY HealthInvInit, <1>1, <1>2, PTL DEF Spec

-----------------------------------------------------------------------------
(* With a success threshold above 1 outdated successes re-admit nothing.    *)
(* Two checks of one endpoint would break the argument (the other one could *)
(* count a success after the report), so the invariant builds on CheckInv.  *)

OutdatedReset == \A w \in Busy(Checking) : work[w].outdated => hc[work[w].ep].successCount = 0

FreshInv == CheckInv /\ OutdatedReset

\* What a step of goroutine w leaves of a check that is still under way.
LEMMA CheckKeepsHistory ==
  ASSUME TypeOK, NEW w \in Worker, Check(w), NEW v \in Worker, work'[v].pc \in Checking
  PROVE  /\ work[v].pc \in Checking /\ work'[v].outdated = work[v].outdated
         /\ work'[v].ep = work[v].ep
  <1>w. work \in [Worker -> WorkRecord]
    BY DEF TypeOK, WorkRecord
  <1>0. CASE v # w
    <2>1. work'[v] = work[v]
      BY <1>0, <1>w, ZenonT(60) DEF Check, Goto, acquireProbeSlot, GiveUpSlot, acquireProbeDialSlot, DialSlotTimeout,
                        TransportProbe, QualityProbe, ApplyResult, releaseProbeSlot
    <2> QED
      BY <2>1, SMTT(60)
  <1>1. CASE v = w
    <2> USE <1>1, <1>w DEF WorkRecord, Checking
    <2>1. CASE acquireProbeSlot(w)
      BY <2>1 DEF acquireProbeSlot, Goto
    <2>2. CASE GiveUpSlot(w) \/ releaseProbeSlot(w)
      BY <2>2, NoCheckType DEF GiveUpSlot, releaseProbeSlot
    <2>3. CASE acquireProbeDialSlot(w)
      BY <2>3 DEF acquireProbeDialSlot, Goto
    <2>4. CASE DialSlotTimeout(w)
      BY <2>4 DEF DialSlotTimeout
    <2>5. CASE TransportProbe(w)
      BY <2>5 DEF TransportProbe
    <2>6. CASE QualityProbe(w)
      BY <2>6 DEF QualityProbe, Goto
    <2>7. CASE ApplyResult(w)
      BY <2>7, SMTT(60) DEF ApplyResult, Goto
    <2> QED
      BY <2>1, <2>2, <2>3, <2>4, <2>5, <2>6, <2>7, SMTT(60) DEF Check
  <1> QED
    BY <1>0, <1>1

LEMMA FreshInvStep ==
  ASSUME FreshInv, [Next]_vars
  PROVE  FreshInv'
  <1>c. CheckInv /\ CheckInv' /\ TypeOK
    BY CheckInvStep, SMTT(60) DEF FreshInv, CheckInv
  <1>1. SUFFICES ASSUME NEW v \in Worker, work'[v].pc \in Checking, work'[v].outdated
                 PROVE  hc'[work'[v].ep].successCount = 0
    BY <1>c DEF FreshInv, OutdatedReset, Busy
  <1>e. work[v].ep \in Endpoint
    BY <1>c, SMTT(60) DEF TypeOK
  <1>2. ASSUME NEW e \in Endpoint, ReportFailure(e)
        PROVE  hc'[work'[v].ep].successCount = 0
    <2>1. /\ work'[v].pc = work[v].pc /\ work'[v].ep = work[v].ep
          /\ hc'[e].successCount = 0
          /\ \A f \in Endpoint : f # e => hc'[f] = hc[f]
      BY <1>2, <1>c, ReportType, SMTT(60)
    <2>2. CASE work[v].ep # e
      <3>1. work'[v] = work[v]
        BY <1>2, <2>2, SMTT(60) DEF ReportFailure
      <3> QED
        BY <1>1, <1>e, <2>1, <2>2, <3>1, SMTT(60) DEF FreshInv, OutdatedReset, Busy
    <2> QED
      BY <2>1, <2>2, SMTT(60)
  <1>3. CASE \A e \in Endpoint : ~ReportFailure(e)
    <2>1. /\ work[v].pc \in Checking /\ work[v].outdated
          /\ work'[v].ep = work[v].ep
      <3>1. ASSUME NEW u \in Upstream, runDueChecks(u)
            PROVE  work'[v] = work[v]
        BY <1>1, <1>c, <3>1, Launch
      <3>2. ASSUME NEW w \in Worker, Check(w)
            PROVE  /\ work[v].pc \in Checking /\ work'[v].outdated = work[v].outdated
                   /\ work'[v].ep = work[v].ep
        BY <1>1, <1>c, <3>2, CheckKeepsHistory, ZenonT(60)
      <3>3. \/ \E u \in Upstream : runDueChecks(u)
            \/ \E w \in Worker : Check(w)
            \/ work' = work
        BY <1>3, Zenon DEF Next, vars, StopScheduler, PickFlow, ChangeReachability, Shutdown, Tick
      <3> QED
        BY <1>1, <3>1, <3>2, <3>3, ZenonT(60)
    <2>2. hc[work[v].ep].successCount = 0
      BY <2>1, SMTT(60) DEF FreshInv, OutdatedReset, Busy
    <2>3. ASSUME NEW w \in Worker, ApplyResult(w)
          PROVE  work[w].ep # work[v].ep
      <3>1. work[w].pc \in Checking /\ work'[w].pc \notin Checking
        BY <1>c, <2>3, SMTT(60) DEF ApplyResult, Goto, Checking, TypeOK
      <3> QED
        BY <1>1, <1>c, <2>1, <3>1 DEF CheckInv, OneCheckPerEndpoint, Busy
    <2>4. \A f \in Endpoint : Reported(f) => hc'[work[v].ep].successCount = 0
      BY <1>e, <2>2 DEF Reported, OnlyAt, SameHealth
    <2>5. \A w \in Worker : ApplyResult(w) /\ Result(work[w].ep, work[w].err) => SameHealth(work[v].ep)
      BY <1>e, <2>3, Zenon DEF Result, OnlyAt
    <2> QED
      BY <1>c, <1>e, <2>1, <2>2, <2>4, <2>5, HealthSteps, SMTT(60) DEF SameHealth
  <1> QED
    BY <1>2, <1>3

\* With a success threshold above 1, a probe result that is older than the last
\* failure report of its endpoint never makes the endpoint healthy.
THEOREM FreshRecovery == Spec => RecoveryIsFresh
  <1> DEFINE Fresh == \A w \in Worker :
                        SuccessThreshold > 1 /\ ApplyResult(w) /\ work[w].outdated =>
                          (hc'[work[w].ep].healthy => hc[work[w].ep].healthy)
  <1>1. Init => FreshInv
    <2> SUFFICES ASSUME Init PROVE FreshInv
      OBVIOUS
    <2>1. \A w \in Worker : work[w].pc = "idle"
      BY NoCheckType DEF Init
    <2> QED
      BY <2>1, InitType, SMTT(60) DEF FreshInv, OutdatedReset, CheckInv, Flagged, OneCheckPerEndpoint, Busy, Checking
  <1>2. FreshInv /\ [Next]_vars => FreshInv'
    BY FreshInvStep
  <1>3. FreshInv => Fresh
    <2> SUFFICES ASSUME FreshInv, NEW w \in Worker, SuccessThreshold > 1, ApplyResult(w), work[w].outdated,
                        hc'[work[w].ep].healthy
                 PROVE  hc[work[w].ep].healthy
      BY SMTT(60)
    <2> DEFINE e == work[w].ep
    <2>1. /\ TypeOK /\ e \in Endpoint /\ work[w].err \in BOOLEAN
          /\ hc \in [Endpoint -> hcState] /\ hc[e] \in hcState
      BY DEF FreshInv, CheckInv, TypeOK
    <2>2. hc[e].successCount = 0
      BY DEF FreshInv, OutdatedReset, Busy, Checking, ApplyResult
    <2>3. PICK h \in applyHCResult(hc[e], work[w].err) : hc' = [hc EXCEPT ![e] = [h EXCEPT !.inFlight = FALSE]]
      BY Zenon DEF ApplyResult
    <2>4. h \in hcState
      BY <2>1, <2>3, ResultType, SMTT(60)
    <2>5. h.healthy
      BY <2>1, <2>3, <2>4 DEF hcState
    <2>6. CASE work[w].err
      BY <2>1, <2>3, <2>5, <2>6, Verdict, ZenonT(60)
    <2>7. CASE ~work[w].err
      <3>1. PICK add \in 0 .. MaxRTTAdd, n \in Nat : h = PassedCheck(hc[e], add, n)
        BY <2>1, <2>3, <2>7, ResultForm, SMTT(60)
      <3> DEFINE oks == Bump(hc[e].successCount, SuccessCap)
      <3>2. ~(oks >= SuccessThreshold)
        BY <2>2, ThresholdAssumption DEF Bump, SuccessCap
      <3> HIDE DEF oks
      <3>3. h.healthy = (hc[e].healthy \/ oks >= SuccessThreshold)
        BY <2>1, <3>1, Zenon DEF PassedCheck, hcState, oks
      <3> QED
        BY <2>5, <3>2, <3>3, ZenonT(60)
    <2> QED
      BY <2>6, <2>7, SMTT(60)
  <1> QED
    BY <1>1, <1>2, <1>3, PTL DEF Spec, RecoveryIsFresh

-----------------------------------------------------------------------------
(* Without background probes no check ever runs.                           *)

OffInv == TypeOK /\ (sched = "off" => \A w \in Worker : work[w].pc = "idle")

LEMMA OffInvStep ==
  ASSUME OffInv, [Next]_vars
  PROVE  OffInv'
  <1>t. TypeOK /\ TypeOK'
    BY NextType DEF OffInv
  <1>1. SUFFICES ASSUME sched' = "off", NEW w \in Worker PROVE work'[w].pc = "idle"
    BY <1>t, Zenon DEF OffInv
  <1>2. sched = "off"
    BY <1>1, Zenon DEF Next, vars, runDueChecks, StartChecks, StopScheduler, Check, acquireProbeSlot, GiveUpSlot,
                acquireProbeDialSlot, DialSlotTimeout, TransportProbe, QualityProbe, ApplyResult,
                releaseProbeSlot, PickFlow, ReportFailure, ChangeReachability, Shutdown, Tick
  <1>3. \A v \in Worker : work[v].pc = "idle"
    BY <1>2 DEF OffInv
  <1>4. \A v \in Worker : ~Check(v)
    BY <1>3, Zenon DEF Check, acquireProbeSlot, GiveUpSlot, acquireProbeDialSlot, DialSlotTimeout,
                TransportProbe, QualityProbe, ApplyResult, releaseProbeSlot
  <1>5. \A e \in Endpoint : ReportFailure(e) => work'[w].pc = work[w].pc
    BY <1>t, ReportType
  <1> QED
    BY <1>2, <1>3, <1>4, <1>5, SMTT(60) DEF Next, vars, runDueChecks, StartChecks, StopScheduler, PickFlow,
                                  ChangeReachability, Shutdown, Tick

\* With -no-probes the first reported failure of an endpoint is final: no step of
\* the program makes it healthy again.
THEOREM FirstFailureIsFinal == Spec => NoProbesNoRecovery
  <1> DEFINE Stays == \A e \in Endpoint : sched = "off" /\ ~hc[e].healthy => ~hc'[e].healthy
  <1>1. Init => OffInv
    <2> SUFFICES ASSUME Init PROVE OffInv
      OBVIOUS
    <2>1. \A w \in Worker : work[w].pc = "idle"
      BY NoCheckType DEF Init
    <2> QED
      BY <2>1, InitType, SMTT(60) DEF OffInv
  <1>2. OffInv /\ [Next]_vars => OffInv'
    BY OffInvStep
  <1>3. OffInv /\ [Next]_vars => [Stays]_vars
    <2> SUFFICES ASSUME OffInv, [Next]_vars, NEW e \in Endpoint, sched = "off", ~hc[e].healthy
                 PROVE  ~hc'[e].healthy
      OBVIOUS
    <2>1. \A w \in Worker : ~ApplyResult(w)
      BY DEF OffInv, ApplyResult
    <2>2. TypeOK
      BY DEF OffInv
    <2> QED
      BY <2>1, <2>2, HealthSteps, SMTT(60) DEF Reported, OnlyAt, SameHealth
  <1> QED
    BY <1>1, <1>2, <1>3, PTL DEF Spec, NoProbesNoRecovery

-----------------------------------------------------------------------------
(* HealthCheck implements EndpointStatus.                                  *)

LEMMA StatusStep ==
  ASSUME TypeOK, TypeOK', [Next]_vars
  PROVE  [Status!StatusNext]_(Status!statusVars)
  <1> DEFINE hlt == [e \in Endpoint |-> hc[e].healthy]
  <1>h. \A e \in Endpoint : hc[e] \in hcState /\ hc'[e] \in hcState
    BY DEF TypeOK
  <1>c. /\ cooldown \in [Endpoint -> -1 .. Cooldown]
        /\ cooldown' \in [Endpoint -> -1 .. Cooldown]
    BY DEF TypeOK
  <1>1. CASE (\A e \in Endpoint : SameHealth(e)) /\ cooldown' = cooldown
    <2>1. hlt' = hlt
      BY <1>1 DEF SameHealth
    <2> QED
      BY <1>1, <2>1, SMTT(60) DEF Status!statusVars
  <1>2. CASE /\ \A e \in Endpoint : SameHealth(e)
             /\ \A e \in Endpoint : cooldown'[e] = CountDown(cooldown[e], -1)
    <2>1. hlt' = hlt
      BY <1>2 DEF SameHealth
    <2>2. cooldown' = [e \in Endpoint |-> CountDown(cooldown[e], -1)]
      BY <1>2, <1>c, SMTT(60)
    <2>3. Status!Elapse
      BY <2>1, <2>2 DEF Status!Elapse, Status!CountDown, CountDown
    <2> QED
      BY <2>3 DEF Status!StatusNext
  <1>3. ASSUME NEW e \in Endpoint, Reported(e)
        PROVE  Status!StatusNext
    <2>1. hlt' = [hlt EXCEPT ![e] = FALSE]
      BY <1>3, <1>h, Zenon DEF Reported, OnlyAt, SameHealth, hcState
    <2>2. cooldown' = [cooldown EXCEPT ![e] = Cooldown]
      BY <1>3, <1>c DEF Reported, OnlyAt
    <2>3. Status!Report(e)
      BY <2>1, <2>2 DEF Status!Report
    <2> QED
      BY <2>3 DEF Status!StatusNext
  <1>4. ASSUME NEW e \in Endpoint, NEW err \in BOOLEAN, Result(e, err)
        PROVE  Status!StatusNext
    <2>1. PICK h \in applyHCResult(hc[e], err) :
            /\ hc'[e] = [h EXCEPT !.inFlight = FALSE]
            /\ cooldown'[e] = IF h.healthy THEN -1 ELSE cooldown[e]
      BY <1>4, Zenon DEF Result
    <2>2. h \in hcState
      BY <1>h, <2>1, ResultType
    <2>3. hc'[e].healthy = h.healthy /\ h.healthy \in BOOLEAN
      BY <2>1, <2>2 DEF hcState
    <2>4. OnlyAt(e)
      BY <1>4 DEF Result
    <2>5. hlt' = [hlt EXCEPT ![e] = h.healthy]
      BY <2>3, <2>4, Zenon DEF OnlyAt, SameHealth
    <2>6. CASE h.healthy
      <3>1. cooldown' = [cooldown EXCEPT ![e] = -1]
        BY <1>c, <2>1, <2>4, <2>6, SMTT(60) DEF OnlyAt
      <3>2. hlt' = [hlt EXCEPT ![e] = TRUE]
        BY <2>3, <2>5, <2>6, SMTT(60)
      <3>3. Status!Admit(e)
        BY <3>1, <3>2 DEF Status!Admit
      <3> QED
        BY <3>3 DEF Status!StatusNext
    <2>7. CASE ~h.healthy
      <3>1. cooldown' = cooldown
        BY <1>c, <2>1, <2>4, <2>7 DEF OnlyAt
      <3>2. hlt' = [hlt EXCEPT ![e] = FALSE]
        BY <2>3, <2>5, <2>7, Zenon
      <3>3. Status!Demote(e)
        BY <3>1, <3>2 DEF Status!Demote
      <3> QED
        BY <3>3 DEF Status!StatusNext
    <2> QED
      BY <2>6, <2>7
  <1>5. \A w \in Worker : Result(work[w].ep, work[w].err) => Status!StatusNext
    <2> TAKE w \in Worker
    <2>1. work[w].ep \in Endpoint /\ work[w].err \in BOOLEAN
      BY DEF TypeOK
    <2> QED
      BY <1>4, <2>1, Zenon DEF Result
  <1> QED
    BY <1>1, <1>2, <1>3, <1>5, HealthSteps, SMTT(60)

\* Seen through its health bits and cooldowns, the checker behaves as
\* EndpointStatus says: an endpoint is admitted and its cooldown lifted together,
\* demoted, reported, or left to the clock, one endpoint at a time.
THEOREM StatusRefinement == Spec => ImplementsStatus
  <1>1. Init => Status!StatusInit
    <2> SUFFICES ASSUME Init PROVE Status!StatusInit
      OBVIOUS
    <2>1. ScheduledState.healthy = FALSE /\ UncheckedState.healthy = TRUE
      BY DEF ScheduledState, UncheckedState
    <2>2. \/ [e \in Endpoint |-> hc[e].healthy] = [e \in Endpoint |-> FALSE]
          \/ [e \in Endpoint |-> hc[e].healthy] = [e \in Endpoint |-> TRUE]
      BY <2>1, Zenon DEF Init
    <2> QED
      BY <2>2, Zenon DEF Init, Status!StatusInit
  <1>2. TypeOK /\ TypeOK' /\ [Next]_vars => [Status!StatusNext]_(Status!statusVars)
    BY StatusStep, SMTT(60)
  <1> QED
    BY <1>1, <1>2, TypeCorrect, PTL DEF Spec, ImplementsStatus, Status!StatusSpec

-----------------------------------------------------------------------------
(* The semaphores count the goroutines in the regions they limit.          *)

LEMMA BusyFinite ==
  ASSUME NEW S
  PROVE  IsFiniteSet(Busy(S)) /\ Cardinality(Busy(S)) \in Nat
  BY LimitsAssumption, FS_Subset, FS_CardinalityType, SMTT(60) DEF Busy

LEMMA BusyKeep ==
  ASSUME NEW S, \A v \in Worker : work'[v].pc \in S <=> work[v].pc \in S
  PROVE  Cardinality(Busy(S)') = Cardinality(Busy(S))
  <1>1. Busy(S)' = Busy(S)
    BY DEF Busy
  <1> QED
    BY <1>1, SMTT(60)

LEMMA BusyEnter ==
  ASSUME NEW S, NEW w \in Worker, work[w].pc \notin S, work'[w].pc \in S,
         \A v \in Worker : v # w => work'[v] = work[v]
  PROVE  Cardinality(Busy(S)') = Cardinality(Busy(S)) + 1
  <1>1. Busy(S)' = Busy(S) \cup {w} /\ w \notin Busy(S)
    BY SMTT(60) DEF Busy
  <1> QED
    BY <1>1, BusyFinite, FS_AddElement, Zenon

LEMMA BusyLeave ==
  ASSUME NEW S, NEW w \in Worker, work[w].pc \in S, work'[w].pc \notin S,
         \A v \in Worker : v # w => work'[v] = work[v]
  PROVE  /\ Cardinality(Busy(S)') = Cardinality(Busy(S)) - 1
         /\ Cardinality(Busy(S)) > 0
  <1>1. Busy(S)' = Busy(S) \ {w} /\ w \in Busy(S)
    BY DEF Busy
  <1>2. Cardinality(Busy(S) \ {w}) = Cardinality(Busy(S)) - 1
    BY <1>1, BusyFinite, FS_RemoveElement, Zenon
  <1>3. IsFiniteSet(Busy(S) \ {w})
    BY BusyFinite, FS_Subset, SMTT(60)
  <1>4. Cardinality(Busy(S) \ {w}) \in Nat
    BY <1>3, FS_CardinalityType
  <1> QED
    BY <1>1, <1>2, <1>4, BusyFinite, SMTT(60)

\* The two equations of SlotsExact; the third conjunct follows from them.
Exact == /\ probeSem = Cardinality(Busy(Holding))
         /\ probeDialSem = Cardinality(Busy(Dialling))

LEMMA ExactSlots == Exact => SlotsExact
  <1>1. Busy(Dialling) \subseteq Busy(Holding)
    BY DEF Busy, Dialling, Holding
  <1>2. Cardinality(Busy(Dialling)) <= Cardinality(Busy(Holding))
    BY <1>1, BusyFinite, FS_Subset, SMTT(60)
  <1> QED
    BY <1>2 DEF Exact, SlotsExact

LEMMA CheckExact ==
  ASSUME TypeOK, Exact, NEW w \in Worker, Check(w)
  PROVE  Exact'
  <1>w. work \in [Worker -> WorkRecord]
    BY DEF TypeOK, WorkRecord
  <1>b. \A S : Cardinality(Busy(S)) \in Nat
    BY BusyFinite, SMTT(60)
  <1> USE DEF Exact
  <1>1. CASE acquireProbeSlot(w)
    <2>1. work'[w].pc = "dial" /\ work[w].pc = "slot" /\ \A v \in Worker : v # w => work'[v] = work[v]
      BY <1>1, <1>w, SMTT(60) DEF acquireProbeSlot, Goto, WorkRecord
    <2>2. Cardinality(Busy(Holding)') = Cardinality(Busy(Holding)) + 1
      BY <2>1, BusyEnter, SMTT(60) DEF Holding
    <2>3. Cardinality(Busy(Dialling)') = Cardinality(Busy(Dialling))
      BY <2>1, BusyKeep DEF Dialling
    <2> QED
      BY <1>1, <2>2, <2>3 DEF acquireProbeSlot
  <1>2. CASE GiveUpSlot(w)
    <2>1. work'[w].pc = "idle" /\ work[w].pc = "slot" /\ \A v \in Worker : v # w => work'[v] = work[v]
      BY <1>2, <1>w, NoCheckType, SMTT(60) DEF GiveUpSlot
    <2>2. Cardinality(Busy(Holding)') = Cardinality(Busy(Holding))
      BY <2>1, BusyKeep, SMTT(60) DEF Holding
    <2>3. Cardinality(Busy(Dialling)') = Cardinality(Busy(Dialling))
      BY <2>1, BusyKeep, SMTT(60) DEF Dialling
    <2> QED
      BY <1>2, <2>2, <2>3 DEF GiveUpSlot
  <1>3. CASE acquireProbeDialSlot(w)
    <2>1. /\ work'[w].pc \in {"probe", "quality"} /\ work[w].pc \in {"dial", "qdial"}
          /\ \A v \in Worker : v # w => work'[v] = work[v]
      BY <1>3, <1>w, SMTT(60) DEF acquireProbeDialSlot, Goto, WorkRecord
    <2>2. Cardinality(Busy(Holding)') = Cardinality(Busy(Holding))
      BY <2>1, BusyKeep, SMTT(60) DEF Holding
    <2>3. Cardinality(Busy(Dialling)') = Cardinality(Busy(Dialling)) + 1
      BY <2>1, BusyEnter DEF Dialling
    <2> QED
      BY <1>3, <2>2, <2>3 DEF acquireProbeDialSlot
  <1>4. CASE DialSlotTimeout(w)
    <2>1. /\ work'[w].pc = "apply" /\ work[w].pc \in {"dial", "qdial"}
          /\ \A v \in Worker : v # w => work'[v] = work[v]
      BY <1>4, <1>w, SMTT(60) DEF DialSlotTimeout, WorkRecord
    <2>2. Cardinality(Busy(Holding)') = Cardinality(Busy(Holding))
      BY <2>1, BusyKeep, SMTT(60) DEF Holding
    <2>3. Cardinality(Busy(Dialling)') = Cardinality(Busy(Dialling))
      BY <2>1, BusyKeep DEF Dialling
    <2> QED
      BY <1>4, <2>2, <2>3 DEF DialSlotTimeout
  <1>5. CASE TransportProbe(w) \/ QualityProbe(w)
    <2>1. /\ work'[w].pc \in {"qdial", "apply"} /\ work[w].pc \in {"probe", "quality"}
          /\ \A v \in Worker : v # w => work'[v] = work[v]
      <3>1. CASE TransportProbe(w)
        <4>1. PICK err : work' = [work EXCEPT ![w].err = err,
                                    ![w].pc = IF ~err /\ work[w].ep[2] \in QualityProtos
                                              THEN "qdial" ELSE "apply"]
          BY <3>1, Zenon DEF TransportProbe
        <4> QED
          BY <3>1, <4>1, <1>w DEF TransportProbe, WorkRecord
      <3>2. CASE QualityProbe(w)
        BY <3>2, <1>w, SMTT(60) DEF QualityProbe, Goto, WorkRecord
      <3> QED
        BY <1>5, <3>1, <3>2, SMTT(60)
    <2>2. Cardinality(Busy(Holding)') = Cardinality(Busy(Holding))
      BY <2>1, BusyKeep, SMTT(60) DEF Holding
    <2>3. /\ Cardinality(Busy(Dialling)') = Cardinality(Busy(Dialling)) - 1
          /\ Cardinality(Busy(Dialling)) > 0
      BY <2>1, BusyLeave DEF Dialling
    <2> QED
      BY <1>5, <2>2, <2>3, Zenon DEF TransportProbe, QualityProbe, releaseProbeDialSlot
  <1>6. CASE ApplyResult(w)
    <2>1. /\ work'[w].pc = "release" /\ work[w].pc = "apply"
          /\ \A v \in Worker : v # w => work'[v] = work[v]
      BY <1>6, <1>w, SMTT(60) DEF ApplyResult, Goto, WorkRecord
    <2>2. Cardinality(Busy(Holding)') = Cardinality(Busy(Holding))
      BY <2>1, BusyKeep, SMTT(60) DEF Holding
    <2>3. Cardinality(Busy(Dialling)') = Cardinality(Busy(Dialling))
      BY <2>1, BusyKeep, SMTT(60) DEF Dialling
    <2> QED
      BY <1>6, <2>2, <2>3 DEF ApplyResult
  <1>7. CASE releaseProbeSlot(w)
    <2>1. work'[w].pc = "idle" /\ work[w].pc = "release" /\ \A v \in Worker : v # w => work'[v] = work[v]
      BY <1>7, <1>w, NoCheckType, SMTT(60) DEF releaseProbeSlot
    <2>2. /\ Cardinality(Busy(Holding)') = Cardinality(Busy(Holding)) - 1
          /\ Cardinality(Busy(Holding)) > 0
      BY <2>1, BusyLeave, SMTT(60) DEF Holding
    <2>3. Cardinality(Busy(Dialling)') = Cardinality(Busy(Dialling))
      BY <2>1, BusyKeep, SMTT(60) DEF Dialling
    <2> QED
      BY <1>7, <2>2, <2>3, SMTT(60) DEF releaseProbeSlot
  <1> QED
    BY <1>1, <1>2, <1>3, <1>4, <1>5, <1>6, <1>7, SMTT(60) DEF Check

LEMMA ExactStep ==
  ASSUME TypeOK, Exact, [Next]_vars
  PROVE  Exact'
  <1>0. ASSUME \A v \in Worker : work'[v].pc = work[v].pc,
               probeSem' = probeSem, probeDialSem' = probeDialSem
        PROVE  Exact'
    <2>1. \A S : (\A v \in Worker : work'[v].pc \in S <=> work[v].pc \in S)
      BY <1>0, SMTT(60)
    <2>2. /\ Cardinality(Busy(Holding)') = Cardinality(Busy(Holding))
          /\ Cardinality(Busy(Dialling)') = Cardinality(Busy(Dialling))
      BY <2>1, BusyKeep, SMTT(60)
    <2> QED
      BY <1>0, <2>2, SMTT(60) DEF Exact
  <1>1. ASSUME NEW u \in Upstream, runDueChecks(u)
        PROVE  Exact'
    <2>1. \A w \in Worker : work'[w] = work[w] \/ (work[w].pc = "idle" /\ work'[w].pc = "slot")
      BY <1>1, Launch, SMTT(60)
    <2>2. /\ \A w \in Worker : work'[w].pc \in Holding <=> work[w].pc \in Holding
          /\ \A w \in Worker : work'[w].pc \in Dialling <=> work[w].pc \in Dialling
      BY <2>1, SMTT(60) DEF Holding, Dialling
    <2>3. /\ Cardinality(Busy(Holding)') = Cardinality(Busy(Holding))
          /\ Cardinality(Busy(Dialling)') = Cardinality(Busy(Dialling))
      BY <2>2, BusyKeep
    <2> QED
      BY <1>1, <2>3, SMTT(60) DEF Exact, runDueChecks, StartChecks
  <1>2. ASSUME NEW e \in Endpoint, ReportFailure(e)
        PROVE  Exact'
    <2>1. \A v \in Worker : work'[v].pc = work[v].pc
      BY <1>2, ReportType
    <2> QED
      BY <1>0, <1>2, <2>1, SMTT(60) DEF ReportFailure
  <1>3. ASSUME NEW w \in Worker, Check(w)
        PROVE  Exact'
    BY <1>3, CheckExact
  <1> QED
    BY <1>0, <1>1, <1>2, <1>3, SMTT(60) DEF Next, vars, StopScheduler, PickFlow, ChangeReachability,
                                  Shutdown, Tick

\* The channels probeSem and probeDialSem always hold exactly one token per
\* goroutine in the region they limit, and a dial slot is only held under an
\* execution slot: no early return of checkOneTCP / checkOneUDP leaks or steals one.
THEOREM SlotAccounting == Spec => []SlotsExact
  <1> DEFINE SlotInv == TypeOK /\ Exact
  <1>1. Init => SlotInv
    <2> SUFFICES ASSUME Init PROVE Exact
      BY InitType, SMTT(60)
    <2>1. \A w \in Worker : work[w].pc = "idle"
      BY NoCheckType DEF Init
    <2>2. Busy(Holding) = {} /\ Busy(Dialling) = {}
      BY <2>1 DEF Busy, Holding, Dialling
    <2> QED
      BY <2>2, FS_EmptySet DEF Init, Exact
  <1>2. SlotInv /\ [Next]_vars => SlotInv'
    BY NextType, ExactStep
  <1>3. SlotInv => SlotsExact
    BY ExactSlots
  <1> QED
    BY <1>1, <1>2, <1>3, PTL DEF Spec
=============================================================================
