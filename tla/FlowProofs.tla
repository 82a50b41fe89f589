------------------------------ MODULE FlowProofs ------------------------------
(***************************************************************************)
(* Proofs about a TCP flow, from the pick of its upstream to its end.      *)
(*                                                                         *)
(* Selection: for every pool, every weight, RTT and penalty and any number *)
(* of flows, a pick returns an upstream that was usable while it ran,      *)
(* fails only if each upstream was unusable at some moment of it, and      *)
(* returns the intended upstream when nobody disturbs it.                  *)
(*                                                                         *)
(* TCPRelay: no downstream data is lost, however many chunks the peers     *)
(* send, in whichever order the two directions end.                        *)
(***************************************************************************)
EXTENDS Selection, TCPRelay, TLAPS

-----------------------------------------------------------------------------
(* The pick.                                                               *)

PickRecord == [pc : Pc, cur : Endpoint \cup {None}, i : 1 .. Len(Pool) + 1,
               best : Endpoint \cup {None}, bestScore : Int, bestRTT : RTTs \cup {0},
               res : Endpoint \cup {None}]
SeenRecord == [usable : SUBSET Endpoint, unusable : SUBSET Endpoint, alone : BOOLEAN]

\* seen has everything that holds now.
UpToDate(s) == \A e \in Endpoint : IF Usable(e) THEN e \in s.usable ELSE e \in s.unusable

\* What a pick k knows about what it has seen, s.
Sound(k, s) ==
  /\ k.pc \in {"sticky", "scan"} /\ k.best = None => k.bestScore = MaxScore
  /\ k.pc = "sticky" => k.cur \in Endpoint /\ k.i = 1 /\ k.best = None
  /\ k.pc = "scan" => /\ k.i <= Len(Pool)
                      /\ k.best = None => \A j \in 1 .. k.i - 1 : Pool[j] \in s.unusable
  /\ k.pc = "hysteresis" => k.cur \in Endpoint /\ k.best \in Endpoint
  /\ k.pc \in {"scan", "hysteresis"} /\ k.best # None => k.best \in s.usable
  /\ k.pc \in {"write", "done"} => k.res \in s.usable
  /\ k.pc = "failed" => \A j \in DOMAIN Pool : Pool[j] \in s.unusable
  /\ k.pc = "report" => k.res \in Endpoint

PickInv == \A p \in Picker : /\ pick[p].pc \in Picking => UpToDate(seen[p])
                             /\ Sound(pick[p], seen[p])

Inv == TypeOK /\ PickInv

-----------------------------------------------------------------------------
\* Every upstream has a score below the initial bestScore.
LEMMA Scores ==
  ASSUME TypeOK, NEW e \in Endpoint
  PROVE  Score(e) \in Int /\ Score(e) < MaxScore /\ rtt[e] \in RTTs \cup {0} /\ rtt[e] \in Nat
<1>1. rtt[e] \in RTTs \cup {0} /\ penalty[e] \in Penalties
  BY DEF TypeOK
<1>2. RTTs \cup {0} \subseteq Nat
  BY SelectionAssumption
<1>3. rtt[e] \in Nat
  BY <1>1, <1>2, Zenon
<1>4. Score(e) \in Int /\ Score(e) < MaxScore
  BY <1>1, ScoreAssumption, Zenon DEF Score, Numerator
<1> QED  BY <1>1, <1>3, <1>4

LEMMA Pools == /\ Len(Pool) \in Nat /\ Len(Pool) > 0 /\ DOMAIN Pool = 1 .. Len(Pool)
               /\ \A j \in 1 .. Len(Pool) : Pool[j] \in Endpoint
  BY SelectionAssumption

LEMMA NoPickTyped ==
  /\ NoPick \in PickRecord /\ NoPick.pc = "idle" /\ NoPick.cur = None /\ NoPick.i = 1
  /\ NoPick.best = None /\ NoPick.res = None /\ NoPick.bestScore = MaxScore
  BY Pools, SelectionAssumption DEF NoPick, PickRecord, Pc

\* A pick is over, with the result e.
LEMMA PickedTyped ==
  ASSUME NEW e \in Endpoint \cup {None}
  PROVE  /\ Picked(e) \in PickRecord /\ Picked(e).pc = "done" /\ Picked(e).res = e
         /\ Picked(e).cur = None
  BY NoPickTyped, ZenonT(60) DEF Picked, PickRecord, Pc

LEMMA FineIsUsable ==
  ASSUME TypeOK, NEW e \in Endpoint, CurrentOK(e)
  PROVE  Usable(e)
  BY CooldownAssumption DEF TypeOK, CurrentOK, Usable

-----------------------------------------------------------------------------
(* What the history does.                                                  *)

LEMMA Observed ==
  ASSUME TypeOK, NEW m, Watch(m), NEW p \in Picker,
         \A q \in Picker : pick'[q].pc \in Pc
  PROVE  /\ seen' \in [Picker -> SeenRecord]
         /\ pick'[p].pc \in Picking => UpToDate(seen[p])'
         /\ pick[p].pc \in Picking /\ pick'[p].pc \in Picking =>
              seen[p].usable \subseteq seen'[p].usable /\ seen[p].unusable \subseteq seen'[p].unusable
         /\ pick'[p].pc \in {"done", "failed"} =>
              seen'[p].usable = seen[p].usable /\ seen'[p].unusable = seen[p].unusable
  <1> DEFINE now == [usable   |-> {e \in Endpoint : Usable(e)'},
                     unusable |-> {e \in Endpoint : ~Usable(e)'},
                     alone    |-> TRUE]
             both(q) == [usable   |-> seen[q].usable \cup now.usable,
                         unusable |-> seen[q].unusable \cup now.unusable,
                         alone    |-> seen[q].alone /\ m = q]
  <1>1. now \in SeenRecord /\ NothingSeen \in SeenRecord
    BY DEF SeenRecord, NothingSeen
  <1>2. ASSUME NEW q \in Picker
        PROVE  /\ seen[q] \in SeenRecord /\ [seen[q] EXCEPT !.alone = TRUE] \in SeenRecord
               /\ [seen[q] EXCEPT !.alone = TRUE].usable = seen[q].usable
               /\ [seen[q] EXCEPT !.alone = TRUE].unusable = seen[q].unusable
    BY ZenonT(60) DEF TypeOK, SeenRecord
  <1>3. ASSUME NEW q \in Picker
        PROVE  both(q) \in SeenRecord
    BY <1>1, <1>2, ZenonT(60) DEF SeenRecord
  <1>4. ASSUME NEW q \in Picker
        PROVE  Observe(q, m) = IF pick'[q].pc \in {"idle", "report"} THEN NothingSeen
                               ELSE IF pick'[q].pc \notin Picking THEN [seen[q] EXCEPT !.alone = TRUE]
                               ELSE IF pick[q].pc \notin Picking THEN now
                               ELSE both(q)
    BY DEF Observe
  <1>5. /\ \A e \in Endpoint : IF Usable(e)' THEN e \in now.usable ELSE e \in now.unusable
        /\ now.usable \subseteq both(p).usable /\ now.unusable \subseteq both(p).unusable
        /\ seen[p].usable \subseteq both(p).usable /\ seen[p].unusable \subseteq both(p).unusable
    OBVIOUS
  <1> HIDE DEF now, both
  <1>6. seen' = [q \in Picker |-> Observe(q, m)]
    BY DEF Watch
  <1>7. seen' \in [Picker -> SeenRecord]
    BY <1>1, <1>2, <1>3, <1>4, <1>6
  <1>8. pick'[p].pc \in Picking => seen'[p] = IF pick[p].pc \notin Picking THEN now ELSE both(p)
    BY <1>4, <1>6 DEF Picking
  <1>9. pick'[p].pc \in {"done", "failed"} => seen'[p] = [seen[p] EXCEPT !.alone = TRUE]
    BY <1>4, <1>6 DEF Picking
  <1>10. pick'[p].pc \in Picking => UpToDate(seen[p])'
    BY <1>5, <1>8 DEF UpToDate
  <1> QED
    BY <1>2, <1>5, <1>7, <1>8, <1>9, <1>10, ZenonT(60)

\* A goroutine that does not move keeps what it knows.
LEMMA OthersKeep ==
  ASSUME Inv, NEW m, Watch(m), NEW p \in Picker, pick'[p] = pick[p],
         \A q \in Picker : pick'[q].pc \in Pc
  PROVE  (pick'[p].pc \in Picking => UpToDate(seen[p])') /\ Sound(pick'[p], seen'[p])
  <1>1. Sound(pick[p], seen[p]) /\ pick[p].pc \in Pc
    BY DEF Inv, PickInv
  <1>2. /\ pick'[p].pc \in Picking => UpToDate(seen[p])'
        /\ pick[p].pc \in Picking \cup {"done", "failed"} =>
              seen[p].usable \subseteq seen'[p].usable /\ seen[p].unusable \subseteq seen'[p].unusable
    BY Observed DEF Inv
  <1> QED
    BY <1>1, <1>2 DEF Sound, Picking

\* The step of a goroutine p, of the checker or of the clock: it suffices to look at p.
LEMMA PickMoves ==
  ASSUME Inv, NEW p \in Picker, NEW k \in PickRecord, pick' = [pick EXCEPT ![p] = k], Watch(p),
         UNCHANGED <<isTCP, rtt, penalty>>, healthy' \in [Endpoint -> BOOLEAN],
         cooldown' \in [Endpoint -> -1 .. Cooldown],
         current' \in Endpoint \cup {None}, sticky' \in 0 .. StickyTTL,
         Sound(k, seen'[p])
  PROVE  Inv'
  <1>1. pick' \in [Picker -> PickRecord] /\ pick'[p] = k /\ \A q \in Picker \ {p} : pick'[q] = pick[q]
    BY DEF Inv, TypeOK, PickRecord
  <1>2. \A q \in Picker : pick'[q].pc \in Pc
    BY <1>1 DEF PickRecord
  <1>3. TypeOK'
    BY <1>1, <1>2, Observed, ZenonT(60) DEF Inv, TypeOK, PickRecord, SeenRecord
  <1>4. pick'[p].pc \in Picking => UpToDate(seen[p])'
    BY <1>2, Observed DEF Inv
  <1>5. ASSUME NEW q \in Picker
        PROVE  (pick'[q].pc \in Picking => UpToDate(seen[q])') /\ Sound(pick'[q], seen'[q])
    BY <1>1, <1>2, <1>4, OthersKeep
  <1>6. PickInv'
    BY <1>5 DEF PickInv
  <1> QED
    BY <1>3, <1>6 DEF Inv

LEMMA NobodyMoves ==
  ASSUME Inv, pick' = pick, NEW m, Watch(m), isTCP' = isTCP,
         rtt' \in [Endpoint -> RTTs \cup {0}], penalty' \in [Endpoint -> Penalties],
         healthy' \in [Endpoint -> BOOLEAN], cooldown' \in [Endpoint -> -1 .. Cooldown],
         current' \in Endpoint \cup {None}, sticky' \in 0 .. StickyTTL
  PROVE  Inv'
  <1>1. \A q \in Picker : pick'[q].pc \in Pc
    BY DEF Inv, TypeOK
  <1>2. ASSUME NEW q \in Picker
        PROVE  (pick'[q].pc \in Picking => UpToDate(seen[q])') /\ Sound(pick'[q], seen'[q])
    BY <1>1, OthersKeep
  <1>3. PickInv'
    BY <1>2 DEF PickInv
  <1>4. seen' \in [Picker -> SeenRecord] \/ Picker = {}
    BY <1>1, Observed DEF Inv
  <1>5. Picker = {} => seen' \in [Picker -> SeenRecord]
    BY DEF Watch
  <1>6. TypeOK'
    BY <1>4, <1>5, SMTT(60) DEF Inv, TypeOK, SeenRecord
  <1> QED
    BY <1>3, <1>6 DEF Inv

-----------------------------------------------------------------------------
(* The steps of a pick.                                                    *)

LEMMA BeginKeeps ==
  ASSUME Inv, NEW p \in Picker, Begin(p)
  PROVE  Inv'
  <1> DEFINE k == [NoPick EXCEPT !.cur = current,
                                 !.pc = IF isTCP /\ current # None /\ sticky > 0 THEN "sticky" ELSE "scan"]
  <1>1. pick' = [pick EXCEPT ![p] = k] /\ Watch(p) /\ UNCHANGED <<envVars, lbVars>>
    BY DEF Begin
  <1>2. /\ k \in PickRecord /\ k.cur = current /\ k.i = 1 /\ k.best = None /\ k.bestScore = MaxScore
        /\ k.pc \in {"sticky", "scan"} /\ (k.pc = "sticky" => current # None)
    BY NoPickTyped, ZenonT(60) DEF PickRecord, Pc, Inv, TypeOK
  <1> HIDE DEF k
  <1>3. Sound(k, seen'[p])
    BY <1>2, Pools, SMTT(60) DEF Sound, Inv, TypeOK
  <1> QED
    BY <1>1, <1>2, <1>3, PickMoves, ZenonT(60) DEF envVars, lbVars, Inv, TypeOK

LEMMA StickyCheckKeeps ==
  ASSUME Inv, NEW p \in Picker, StickyCheck(p)
  PROVE  Inv'
  <1> DEFINE cur == pick[p].cur
             k == IF CurrentOK(cur) THEN Picked(cur) ELSE [pick[p] EXCEPT !.pc = "scan"]
  <1>1. /\ pick[p].pc = "sticky" /\ pick' = [pick EXCEPT ![p] = k]
        /\ Watch(p) /\ UNCHANGED <<envVars, lbVars>>
    BY DEF StickyCheck
  <1>2. /\ pick[p] \in PickRecord /\ UpToDate(seen[p])
        /\ cur \in Endpoint /\ pick[p].i = 1 /\ pick[p].best = None /\ pick[p].bestScore = MaxScore
    BY <1>1 DEF Inv, TypeOK, PickInv, Sound, Picking, PickRecord
  <1>3. CASE CurrentOK(cur)
    <2>1. k = Picked(cur) /\ k \in PickRecord /\ k.pc = "done" /\ k.res = cur
      BY <1>2, <1>3, PickedTyped
    <2> HIDE DEF k
    <2>2. pick'[p] = k /\ \A q \in Picker : pick'[q].pc \in Pc
      BY <1>1, <2>1 DEF Inv, TypeOK, PickRecord
    <2>3. seen'[p].usable = seen[p].usable
      BY <1>1, <2>1, <2>2, Observed DEF Inv
    <2>4. cur \in seen[p].usable
      BY <1>2, <1>3, FineIsUsable DEF Inv, UpToDate
    <2>5. Sound(k, seen'[p])
      BY <2>1, <2>3, <2>4 DEF Sound
    <2> QED
      BY <1>1, <2>1, <2>5, PickMoves, ZenonT(60) DEF envVars, lbVars, Inv, TypeOK
  <1>4. CASE ~CurrentOK(cur)
    <2>1. k = [pick[p] EXCEPT !.pc = "scan"]
      BY <1>4
    <2> HIDE DEF k, cur
    <2>2. k \in PickRecord /\ k.pc = "scan" /\ k.i = 1 /\ k.best = None /\ k.bestScore = MaxScore
      BY <1>2, <2>1 DEF PickRecord, Pc
    <2>3. Sound(k, seen'[p])
      BY <2>2, Pools DEF Sound
    <2> QED
      BY <1>1, <2>2, <2>3, PickMoves, ZenonT(60) DEF envVars, lbVars, Inv, TypeOK
  <1> QED
    BY <1>3, <1>4

LEMMA HysteresisKeeps ==
  ASSUME Inv, NEW p \in Picker, Hysteresis(p)
  PROVE  Inv'
  <1> DEFINE cur  == pick[p].cur
             keep == /\ cur # pick[p].best /\ CurrentOK(cur)
                     /\ rtt[cur] > 0 /\ pick[p].bestRTT > 0
                     /\ rtt[cur] - pick[p].bestRTT < MinSwitch
             e == IF keep THEN cur ELSE pick[p].best
             k == [Picked(e) EXCEPT !.pc = "write", !.cur = cur]
  <1>1. /\ pick[p].pc = "hysteresis" /\ pick' = [pick EXCEPT ![p] = k]
        /\ Watch(p) /\ UNCHANGED <<envVars, lbVars>>
    BY DEF Hysteresis, Settle
  <1>2. /\ UpToDate(seen[p]) /\ cur \in Endpoint
        /\ pick[p].best \in Endpoint /\ pick[p].best \in seen[p].usable
    BY <1>1, SelectionAssumption DEF Inv, PickInv, Sound, Picking
  <1>3. keep => cur \in seen[p].usable
    BY <1>2, FineIsUsable DEF Inv, UpToDate
  <1>4. e \in Endpoint /\ e \in seen[p].usable
    BY <1>2, <1>3
  <1> HIDE DEF e, cur
  <1>5. k \in PickRecord /\ k.pc = "write" /\ k.res = e
    <2>1. Picked(e) \in PickRecord /\ Picked(e).res = e
      BY <1>4, PickedTyped
    <2> QED
      BY <1>2, <2>1, ZenonT(60) DEF PickRecord, Pc
  <1> HIDE DEF k
  <1>6. pick'[p] = k /\ \A q \in Picker : pick'[q].pc \in Pc
    BY <1>1, <1>5 DEF Inv, TypeOK, PickRecord
  <1>7. seen[p].usable \subseteq seen'[p].usable
    BY <1>1, <1>5, <1>6, Observed DEF Inv, Picking
  <1>8. Sound(k, seen'[p])
    BY <1>4, <1>5, <1>7 DEF Sound
  <1> QED
    BY <1>1, <1>5, <1>8, PickMoves, ZenonT(60) DEF envVars, lbVars, Inv, TypeOK

LEMMA WriteCurrentKeeps ==
  ASSUME Inv, NEW p \in Picker, WriteCurrent(p)
  PROVE  Inv'
  <1> DEFINE e == pick[p].res
             k == Picked(e)
  <1>1. /\ pick[p].pc = "write" /\ pick' = [pick EXCEPT ![p] = k]
        /\ Watch(p) /\ UNCHANGED envVars /\ current' = e /\ sticky' = StickyTTL
    BY DEF WriteCurrent
  <1>2. e \in seen[p].usable /\ e \in Endpoint \cup {None}
    BY <1>1 DEF Inv, TypeOK, PickInv, Sound
  <1> HIDE DEF e
  <1>3. k \in PickRecord /\ k.pc = "done" /\ k.res = e
    BY <1>2, PickedTyped
  <1> HIDE DEF k
  <1>4. pick'[p] = k /\ \A q \in Picker : pick'[q].pc \in Pc
    BY <1>1, <1>3 DEF Inv, TypeOK, PickRecord
  <1>5. seen'[p].usable = seen[p].usable
    BY <1>1, <1>3, <1>4, Observed DEF Inv
  <1>6. Sound(k, seen'[p])
    BY <1>2, <1>3, <1>5 DEF Sound
  <1>7. sticky' \in 0 .. StickyTTL
    BY <1>1, SelectionAssumption
  <1> QED
    BY <1>1, <1>2, <1>3, <1>6, <1>7, PickMoves, ZenonT(60) DEF envVars, Inv, TypeOK

-----------------------------------------------------------------------------
(* The scan.                                                               *)

\* What one iteration makes of a scan k: it has looked at one more endpoint.
LEMMA AfterScanSound ==
  ASSUME NEW k \in PickRecord, NEW u, NEW s, k.pc = "scan", k.i > Len(Pool),
         k.best = None => \A j \in 1 .. Len(Pool) : Pool[j] \in u,
         k.best # None => k.best \in s
  PROVE  /\ AfterScan(k) \in PickRecord
         /\ AfterScan(k).pc = "failed" => \A j \in DOMAIN Pool : Pool[j] \in u
         /\ AfterScan(k).pc = "done" => AfterScan(k).res \in s
         /\ AfterScan(k).pc = "write" => AfterScan(k).res \in s
         /\ AfterScan(k).pc = "hysteresis" =>
              AfterScan(k).cur \in Endpoint /\ AfterScan(k).best \in Endpoint /\ AfterScan(k).best \in s
         /\ AfterScan(k).pc \in {"failed", "done", "write", "hysteresis"}
  <1>1. CASE k.best = None
    <2>1. AfterScan(k) = [NoPick EXCEPT !.pc = "failed"]
      BY <1>1 DEF AfterScan
    <2>2. AfterScan(k) \in PickRecord /\ AfterScan(k).pc = "failed"
      BY <2>1, NoPickTyped DEF PickRecord, Pc
    <2> QED
      BY <1>1, <2>2, Pools
  <1>2. CASE k.best # None /\ ~isTCP
    <2>1. AfterScan(k) = Picked(k.best)
      BY <1>2 DEF AfterScan
    <2>2. k.best \in Endpoint \cup {None}
      BY DEF PickRecord
    <2> QED
      BY <1>2, <2>1, <2>2, PickedTyped
  <1>3. CASE k.best # None /\ isTCP
    <2> DEFINE pc == IF k.cur # None THEN "hysteresis" ELSE "write"
    <2>1. AfterScan(k) = [k EXCEPT !.pc = pc, !.res = k.best]
      BY <1>3 DEF AfterScan
    <2>2. pc \in {"hysteresis", "write"} /\ (pc = "hysteresis" => k.cur # None)
      OBVIOUS
    <2> HIDE DEF pc
    <2>3. /\ AfterScan(k) \in PickRecord /\ AfterScan(k).pc = pc /\ AfterScan(k).res = k.best
          /\ AfterScan(k).best = k.best /\ AfterScan(k).cur = k.cur
      BY <2>1, <2>2, ZenonT(60) DEF PickRecord, Pc
    <2> QED
      BY <1>3, <2>2, <2>3 DEF PickRecord
  <1> QED
    BY <1>1, <1>2, <1>3

LEMMA ScanOneKeeps ==
  ASSUME Inv, NEW p \in Picker, ScanOne(p)
  PROVE  Inv'
  <1> DEFINE k    == pick[p]
             e    == Pool[k.i]
             won  == Usable(e) /\ Beats(k)
             mid  == IF won THEN [k EXCEPT !.best = e, !.bestScore = Score(e), !.bestRTT = rtt[e]] ELSE k
             next == [mid EXCEPT !.i = k.i + 1]
             new  == IF next.i > Len(Pool) THEN AfterScan(next) ELSE next
  <1>1. /\ k.pc = "scan" /\ pick' = [pick EXCEPT ![p] = new]
        /\ Watch(p) /\ UNCHANGED <<envVars, lbVars>>
    BY DEF ScanOne, ScanStep
  <1>2. /\ k \in PickRecord /\ k.i \in 1 .. Len(Pool) /\ UpToDate(seen[p])
        /\ k.best # None => k.best \in seen[p].usable
        /\ k.best = None => /\ k.bestScore = MaxScore
                            /\ \A j \in 1 .. k.i - 1 : Pool[j] \in seen[p].unusable
    BY <1>1, Pools DEF Inv, TypeOK, PickInv, Sound, Picking, PickRecord
  <1>3. e \in Endpoint /\ e # None
    BY <1>2, Pools, SelectionAssumption
  <1>4. Score(e) \in Int /\ Score(e) < MaxScore /\ rtt[e] \in RTTs \cup {0}
    <2> HIDE DEF e
    <2> QED
      BY <1>3, Scores DEF Inv
  <1>5. /\ Usable(e) => e \in seen[p].usable
        /\ ~Usable(e) => e \in seen[p].unusable
    BY <1>2, <1>3 DEF UpToDate
  <1>6. k.best = None /\ ~won => ~Usable(e)
    BY <1>2, <1>4 DEF Beats
  <1>7. /\ mid \in PickRecord /\ mid.pc = "scan" /\ mid.best \in Endpoint \cup {None}
        /\ mid.best # None => mid.best \in seen[p].usable
        /\ mid.best = None => k.best = None /\ ~won /\ mid.bestScore = MaxScore
    <2>1. CASE won
      <3>1. mid = [k EXCEPT !.best = e, !.bestScore = Score(e), !.bestRTT = rtt[e]]
        BY <2>1
      <3>2. e \in seen[p].usable
        BY <1>5, <2>1
      <3> HIDE DEF mid, e, k, won
      <3>3. mid \in PickRecord /\ mid.pc = k.pc /\ mid.best = e
        BY <1>2, <1>3, <1>4, <3>1, ZenonT(60) DEF PickRecord
      <3> QED
        BY <1>1, <1>3, <3>2, <3>3
    <2>2. CASE ~won
      <3>1. mid = k
        BY <2>2
      <3> HIDE DEF mid, k, won
      <3> QED
        BY <1>1, <1>2, <2>2, <3>1 DEF PickRecord
    <2> QED
      BY <2>1, <2>2
  <1>8. mid.best = None => \A j \in 1 .. k.i : Pool[j] \in seen[p].unusable
    <2>1. mid.best = None => e \in seen[p].unusable /\ \A j \in 1 .. k.i - 1 : Pool[j] \in seen[p].unusable
      BY <1>2, <1>5, <1>6, <1>7
    <2> HIDE DEF mid, k
    <2>2. \A j \in 1 .. k.i : j = k.i \/ j \in 1 .. k.i - 1
      BY <1>2
    <2> QED
      BY <2>1, <2>2, SMTT(60)
  <1> HIDE DEF mid, e, won
  <1>9. /\ next \in PickRecord /\ next.pc = "scan" /\ next.best = mid.best /\ next.i = k.i + 1
        /\ next.bestScore = mid.bestScore
    BY <1>2, <1>7, Pools, SMTT(60) DEF PickRecord
  <1> HIDE DEF next, k
  <1>10. new \in PickRecord /\ Sound(new, seen[p]) /\ new.pc \in {"scan", "hysteresis", "write", "done", "failed"}
    <2>1. CASE next.i > Len(Pool)
      <3>1. \A j \in 1 .. Len(Pool) : j \in 1 .. k.i
        BY <1>2, <1>9, <2>1, Pools
      <3>2. new = AfterScan(next)
        BY <2>1
      <3>3. /\ next.best = None => \A j \in 1 .. Len(Pool) : Pool[j] \in seen[p].unusable
            /\ next.best # None => next.best \in seen[p].usable
        BY <1>7, <1>8, <1>9, <3>1
      <3> HIDE DEF new
      <3>4. /\ new \in PickRecord
            /\ new.pc = "failed" => \A j \in DOMAIN Pool : Pool[j] \in seen[p].unusable
            /\ new.pc = "done" => new.res \in seen[p].usable
            /\ new.pc = "write" => new.res \in seen[p].usable
            /\ new.pc = "hysteresis" => new.cur \in Endpoint /\ new.best \in Endpoint /\ new.best \in seen[p].usable
            /\ new.pc \in {"failed", "done", "write", "hysteresis"}
        BY <1>9, <2>1, <3>2, <3>3, AfterScanSound, ZenonT(60)
      <3> QED
        BY <3>4 DEF Sound
    <2>2. CASE ~(next.i > Len(Pool))
      <3>1. new = next
        BY <2>2
      <3>2. next.i <= Len(Pool) /\ next.i - 1 = k.i
        BY <1>2, <1>9, <2>2, Pools
      <3> HIDE DEF new
      <3> QED
        BY <1>7, <1>8, <1>9, <3>1, <3>2 DEF Sound
    <2> QED
      BY <2>1, <2>2
  <1> HIDE DEF new
  <1>11. pick'[p] = new /\ \A q \in Picker : pick'[q].pc \in Pc
    BY <1>1, <1>10 DEF Inv, TypeOK, PickRecord
  <1>12. seen[p].usable \subseteq seen'[p].usable /\ seen[p].unusable \subseteq seen'[p].unusable
    BY <1>1, <1>10, <1>11, Observed DEF Inv, Picking, k
  <1>13. Sound(new, seen'[p])
    BY <1>10, <1>12 DEF Sound
  <1> QED
    BY <1>1, <1>10, <1>13, PickMoves, ZenonT(60) DEF envVars, lbVars, Inv, TypeOK

-----------------------------------------------------------------------------
(* The rest, and the theorems.                                             *)

LEMMA IdleSound == \A s : Sound(NoPick, s)
  BY NoPickTyped DEF Sound

LEMMA EndFlowKeeps ==
  ASSUME Inv, NEW p \in Picker, EndFlow(p)
  PROVE  Inv'
  BY NoPickTyped, IdleSound, PickMoves, ZenonT(60) DEF EndFlow, envVars, lbVars, Inv, TypeOK

LEMMA ResetStickyKeeps ==
  ASSUME Inv, NEW p \in Picker, ResetSticky(p)
  PROVE  Inv'
  <1>1. sticky' \in 0 .. StickyTTL
    BY SelectionAssumption DEF ResetSticky, Inv, TypeOK
  <1> QED
    BY <1>1, NoPickTyped, IdleSound, PickMoves, ZenonT(60) DEF ResetSticky, envVars, Inv, TypeOK

LEMMA ReportStatusKeeps ==
  ASSUME Inv, NEW p \in Picker, ReportStatus(p)
  PROVE  Inv'
  <1> DEFINE k == IF isTCP THEN [pick[p] EXCEPT !.pc = "report"] ELSE NoPick
  <1>1. /\ pick[p].pc = "done" /\ pick' = [pick EXCEPT ![p] = k] /\ Watch(p) /\ Report(pick[p].res)
        /\ UNCHANGED <<isTCP, rtt, penalty, lbVars>>
    BY DEF ReportStatus
  <1>2. pick[p] \in PickRecord /\ pick[p].res \in Endpoint
    BY <1>1 DEF Inv, TypeOK, PickInv, Sound, PickRecord
  <1>3. healthy' \in [Endpoint -> BOOLEAN] /\ cooldown' \in [Endpoint -> -1 .. Cooldown]
    BY <1>1, <1>2, CooldownAssumption DEF Report, Inv, TypeOK
  <1>4. k \in PickRecord /\ \A s : Sound(k, s)
    <2>1. CASE isTCP
      <3>1. k = [pick[p] EXCEPT !.pc = "report"]
        BY <2>1
      <3> HIDE DEF k
      <3>2. k \in PickRecord /\ k.pc = "report" /\ k.res = pick[p].res
        BY <1>2, <3>1 DEF PickRecord, Pc
      <3> QED
        BY <1>2, <3>2 DEF Sound
    <2>2. CASE ~isTCP
      BY <2>2, NoPickTyped, IdleSound
    <2> QED
      BY <2>1, <2>2
  <1> HIDE DEF k
  <1> QED
    BY <1>1, <1>3, <1>4, PickMoves, ZenonT(60) DEF lbVars, Inv, TypeOK

LEMMA ChecksKeep ==
  ASSUME Inv, NEW e \in Endpoint, CheckAdmits(e) \/ CheckDemotes(e)
  PROVE  Inv'
  <1>1. /\ healthy' \in [Endpoint -> BOOLEAN] /\ cooldown' \in [Endpoint -> -1 .. Cooldown]
        /\ rtt' \in [Endpoint -> RTTs \cup {0}] /\ penalty' \in [Endpoint -> Penalties]
    <2>1. -1 \in -1 .. Cooldown
      BY CooldownAssumption
    <2>2. CASE CheckAdmits(e)
      <3>1. PICK r \in RTTs, n \in Penalties :
              rtt' = [rtt EXCEPT ![e] = r] /\ penalty' = [penalty EXCEPT ![e] = n]
        BY <2>2, ZenonT(60) DEF CheckAdmits
      <3> QED
        BY <2>1, <2>2, <3>1 DEF CheckAdmits, Admit, Inv, TypeOK
    <2>3. CASE CheckDemotes(e)
      BY <2>3 DEF CheckDemotes, Demote, Inv, TypeOK
    <2> QED
      BY <2>2, <2>3
  <1> QED
    BY <1>1, NobodyMoves, ZenonT(60) DEF CheckAdmits, CheckDemotes, lbVars, Inv, TypeOK

LEMMA TickKeeps ==
  ASSUME Inv, Tick
  PROVE  Inv'
  <1>1. /\ healthy' \in [Endpoint -> BOOLEAN] /\ cooldown' \in [Endpoint -> -1 .. Cooldown]
        /\ sticky' \in 0 .. StickyTTL
    <2>1. \A d \in -1 .. Cooldown : CountDown(d, -1) \in -1 .. Cooldown
      BY CooldownAssumption DEF CountDown
    <2>2. healthy' \in [Endpoint -> BOOLEAN] /\ cooldown' \in [Endpoint -> -1 .. Cooldown]
      BY <2>1 DEF Tick, Elapse, Inv, TypeOK
    <2>3. sticky' \in 0 .. StickyTTL
      BY SelectionAssumption DEF Tick, CountDown, Inv, TypeOK
    <2> QED
      BY <2>2, <2>3
  <1> QED
    BY <1>1, NobodyMoves, ZenonT(60) DEF Tick, Inv, TypeOK

LEMMA InvInit == Init => Inv
  <1> SUFFICES ASSUME Init PROVE Inv
    OBVIOUS
  <1>1. pick \in [Picker -> PickRecord] /\ \A p \in Picker : pick[p] = NoPick
    BY NoPickTyped DEF Init
  <1>2. seen \in [Picker -> SeenRecord]
    BY DEF Init, NothingSeen, SeenRecord
  <1>3. TypeOK
    <2>1. -1 \in -1 .. Cooldown /\ 0 \in 0 .. StickyTTL
      BY CooldownAssumption, SelectionAssumption
    <2>2. /\ healthy \in [Endpoint -> BOOLEAN] /\ cooldown \in [Endpoint -> -1 .. Cooldown]
          /\ rtt \in [Endpoint -> RTTs \cup {0}] /\ penalty \in [Endpoint -> Penalties]
      BY <2>1, ZenonT(60) DEF Init, StatusInit
    <2> QED
      BY <1>1, <1>2, <2>1, <2>2 DEF Init, TypeOK, PickRecord, SeenRecord
  <1>4. PickInv
    BY <1>1, IdleSound, NoPickTyped DEF PickInv, Picking
  <1> QED
    BY <1>3, <1>4 DEF Inv

LEMMA InvNext == Inv /\ [Next]_vars => Inv'
  <1> SUFFICES ASSUME Inv, [Next]_vars PROVE Inv'
    OBVIOUS
  <1>1. CASE \E p \in Picker : PickStep(p)
    BY <1>1, BeginKeeps, StickyCheckKeeps, ScanOneKeeps, HysteresisKeeps, WriteCurrentKeeps,
       EndFlowKeeps, ReportStatusKeeps, ResetStickyKeeps DEF PickStep
  <1>2. CASE \E e \in Endpoint : CheckAdmits(e) \/ CheckDemotes(e)
    BY <1>2, ChecksKeep
  <1>3. CASE Tick
    BY <1>3, TickKeeps, SMTT(60)
  <1>4. CASE UNCHANGED vars
    BY <1>4 DEF vars, Inv, TypeOK, PickInv, UpToDate, Usable, Sound
  <1> QED
    BY <1>1, <1>2, <1>3, <1>4 DEF Next

-----------------------------------------------------------------------------
(* A pick that nobody disturbs.                                            *)

\* j is the first of the best candidates among the first m of the pool.
Wins(j, m) ==
  /\ j \in 1 .. m /\ Usable(Pool[j])
  /\ \A c \in 1 .. m : Usable(Pool[c]) =>
       /\ Score(Pool[j]) <= Score(Pool[c])
       /\ c < j => Score(Pool[j]) < Score(Pool[c])

CurrentFine(cur) == isTCP /\ cur # None /\ CurrentOK(cur)

\* r is what the hysteresis leaves of the choice between cur and the best candidate.
Settled(cur, r) ==
  /\ ~(CurrentFine(cur) /\ sticky > 0)
  /\ \E j \in 1 .. Len(Pool) :
       /\ Wins(j, Len(Pool))
       /\ r = IF /\ CurrentFine(cur) /\ rtt[cur] > 0 /\ rtt[Pool[j]] > 0
                 /\ rtt[cur] - rtt[Pool[j]] < MinSwitch
              THEN cur ELSE Pool[j]

\* The best of the first m, as pickBestCandidateByEndpoint remembers it.
Found(k, m) ==
  /\ k.best = None => \A c \in 1 .. m : ~Usable(Pool[c])
  /\ k.best # None => \E j \in 1 .. m : /\ Wins(j, m) /\ k.best = Pool[j]
                                        /\ k.bestScore = Score(k.best) /\ k.bestRTT = rtt[k.best]

\* Where a pick is that has had the state for itself.
OnTrack(k) ==
  /\ k.pc = "sticky" => isTCP /\ k.cur # None /\ sticky > 0
  /\ k.pc \in {"scan", "hysteresis"} => ~(CurrentFine(k.cur) /\ sticky > 0)
  /\ k.pc = "scan" => Found(k, k.i - 1)
  /\ k.pc = "hysteresis" => isTCP /\ k.cur # None /\ k.best # None /\ Found(k, Len(Pool))
  /\ k.pc = "write" => Settled(k.cur, k.res)

AloneInv == \A p \in Picker : pick[p].pc \in Picking /\ seen[p].alone => OnTrack(pick[p])

\* One more upstream of the pool is looked at.
LEMMA FirstWins ==
  ASSUME TypeOK, NEW i \in 1 .. Len(Pool), Usable(Pool[i]), \A c \in 1 .. i - 1 : ~Usable(Pool[c])
  PROVE  Wins(i, i)
<1>1. \A c \in 1 .. i : c = i \/ c \in 1 .. i - 1
  BY Pools
<1>2. i \in 1 .. i /\ ~(i < i) /\ Pool[i] \in Endpoint
  BY Pools
<1>3. Score(Pool[i]) <= Score(Pool[i])
  BY <1>2, Scores
<1> QED  BY <1>1, <1>2, <1>3 DEF Wins

LEMMA StillWins ==
  ASSUME TypeOK, NEW i \in 1 .. Len(Pool), NEW j \in 1 .. i - 1, Wins(j, i - 1),
         ~Usable(Pool[i]) \/ Score(Pool[j]) <= Score(Pool[i])
  PROVE  Wins(j, i)
<1>1. \A c \in 1 .. i : c = i \/ c \in 1 .. i - 1
  BY Pools
<1>2. j \in 1 .. i /\ ~(i < j)
  BY Pools
<1> QED  BY <1>1, <1>2 DEF Wins

LEMMA NewWins ==
  ASSUME TypeOK, NEW i \in 1 .. Len(Pool), NEW j \in 1 .. i - 1, Wins(j, i - 1),
         Usable(Pool[i]), Score(Pool[i]) < Score(Pool[j])
  PROVE  Wins(i, i)
<1>1. \A c \in 1 .. i : c = i \/ c \in 1 .. i - 1
  BY Pools
<1>2. i \in 1 .. i /\ ~(i < i) /\ \A c \in 1 .. i : Pool[c] \in Endpoint
  BY Pools
<1>3. Score(Pool[i]) <= Score(Pool[i])
  BY <1>2, Scores
<1>4. ASSUME NEW c \in 1 .. i - 1, Usable(Pool[c])
      PROVE  /\ Score(Pool[i]) < Score(Pool[c])
             /\ Score(Pool[i]) <= Score(Pool[c])
  <2>1. Pool[c] \in Endpoint /\ Pool[j] \in Endpoint /\ Pool[i] \in Endpoint
    BY Pools
  <2>2. Score(Pool[i]) \in Int /\ Score(Pool[j]) \in Int /\ Score(Pool[c]) \in Int
    BY <2>1, Scores
  <2>3. Score(Pool[j]) <= Score(Pool[c])
    BY <1>4 DEF Wins
  <2> QED  BY <2>2, <2>3
<1> QED  BY <1>1, <1>2, <1>3, <1>4 DEF Wins

\* What Intended chooses is what the loop finds.
LEMMA WinsIntended ==
  ASSUME TypeOK, NEW cur, NEW r, Settled(cur, r)
  PROVE  r = Intended(cur)
<1> DEFINE cand == {j \in 1 .. Len(Pool) : Usable(Pool[j])}
           Q(j) == \A k \in cand :
                     /\ Score(Pool[j]) <= Score(Pool[k])
                     /\ k < j => Score(Pool[j]) < Score(Pool[k])
           b == CHOOSE j \in cand : Q(j)
<1>1. PICK j \in 1 .. Len(Pool) :
        /\ Wins(j, Len(Pool))
        /\ r = IF /\ CurrentFine(cur) /\ rtt[cur] > 0 /\ rtt[Pool[j]] > 0
                  /\ rtt[cur] - rtt[Pool[j]] < MinSwitch
               THEN cur ELSE Pool[j]
  BY SMTT(60) DEF Settled
<1>2. j \in cand /\ Q(j)
  BY <1>1 DEF Wins
<1>3. b \in cand /\ Q(b)
  <2> HIDE DEF cand, Q
  <2> QED  BY <1>2, Zenon
<1> HIDE DEF b
<1>4. b = j
  <2>1. b \in Int /\ j \in Int
    BY <1>3, Pools
  <2>0. Score(Pool[b]) \in Int /\ Score(Pool[j]) \in Int
    BY <1>3, Pools, Scores
  <2>2. ~(b < j)
    BY <1>2, <1>3, <2>0
  <2>3. ~(j < b)
    BY <1>2, <1>3, <2>0
  <2> QED  BY <2>1, <2>2, <2>3
<1>5. Intended(cur) =
        IF CurrentFine(cur) /\ sticky > 0 THEN cur
        ELSE IF cand = {} THEN None
        ELSE IF /\ CurrentFine(cur) /\ rtt[cur] > 0 /\ rtt[Pool[b]] > 0
                /\ rtt[cur] - rtt[Pool[b]] < MinSwitch
             THEN cur ELSE Pool[b]
  BY Zenon DEF Intended, CurrentFine, b
<1> HIDE DEF cand, Q
<1> QED  BY <1>1, <1>2, <1>4, <1>5, SMTT(60) DEF Settled

LEMMA NoneIntended ==
  ASSUME NEW cur, ~(CurrentFine(cur) /\ sticky > 0), \A c \in 1 .. Len(Pool) : ~Usable(Pool[c])
  PROVE  Intended(cur) = None
<1>1. {j \in 1 .. Len(Pool) : Usable(Pool[j])} = {}
  OBVIOUS
<1> QED  BY <1>1, Zenon DEF Intended, CurrentFine

LEMMA StickyIntended ==
  ASSUME NEW cur, CurrentFine(cur), sticky > 0
  PROVE  Intended(cur) = cur
BY Zenon DEF Intended, CurrentFine

LEMMA ScanFinds ==
  ASSUME TypeOK, NEW k \in PickRecord, k.pc = "scan", k.i \in 1 .. Len(Pool), Found(k, k.i - 1),
         k.best = None => k.bestScore = MaxScore,
         NEW next,
         next = [(IF Usable(Pool[k.i]) /\ Beats(k)
                  THEN [k EXCEPT !.best = Pool[k.i], !.bestScore = Score(Pool[k.i]), !.bestRTT = rtt[Pool[k.i]]]
                  ELSE k) EXCEPT !.i = k.i + 1]
  PROVE  /\ next \in PickRecord /\ next.pc = "scan" /\ next.cur = k.cur /\ next.i = k.i + 1
         /\ Found(next, k.i)
<1> DEFINE i == k.i
           e == Pool[i]
           n == Score(e)
           t == rtt[e]
           mid == [k EXCEPT !.best = e, !.bestScore = n, !.bestRTT = t]
<1>1. /\ i \in 1 .. Len(Pool) /\ i + 1 \in 1 .. Len(Pool) + 1 /\ e \in Endpoint /\ e # None
      /\ n \in Int /\ n < MaxScore /\ t \in RTTs \cup {0}
  <2>1. i \in 1 .. Len(Pool) /\ i + 1 \in 1 .. Len(Pool) + 1
    BY Pools
  <2>2. e \in Endpoint /\ e # None
    BY <2>1, Pools, SelectionAssumption
  <2> HIDE DEF e
  <2> QED  BY <2>1, <2>2, Scores
<1>2. n = Score(e) /\ t = rtt[e]
  OBVIOUS
<1>3. CASE Usable(e) /\ Beats(k)
  <2>1. next = [mid EXCEPT !.i = i + 1]
    BY <1>3
  <2> HIDE DEF i, e, n, t
  <2>2. /\ mid \in PickRecord /\ mid.pc = "scan" /\ mid.cur = k.cur
        /\ mid.best = e /\ mid.bestScore = n /\ mid.bestRTT = t
    BY <1>1, ZenonT(60) DEF PickRecord
  <2> HIDE DEF mid
  <2>3. /\ next \in PickRecord /\ next.pc = "scan" /\ next.cur = k.cur /\ next.i = i + 1
        /\ next.best = e /\ next.bestScore = n /\ next.bestRTT = t
    BY <1>1, <2>1, <2>2, ZenonT(60) DEF PickRecord
  <2>4. Wins(i, i)
    <3>1. CASE k.best = None
      <4>1. \A c \in 1 .. i - 1 : ~Usable(Pool[c])
        BY <3>1 DEF Found, i
      <4> QED  BY <1>1, <1>3, <4>1, FirstWins DEF e
    <3>2. CASE k.best # None
      <4>1. PICK j \in 1 .. i - 1 : Wins(j, i - 1) /\ k.best = Pool[j] /\ k.bestScore = Score(k.best)
        BY <3>2 DEF Found, i
      <4>2. Score(Pool[i]) < Score(Pool[j])
        BY <1>3, <3>2, <4>1 DEF Beats, i
      <4> QED  BY <1>1, <1>3, <4>1, <4>2, NewWins DEF e
    <3> QED  BY <3>1, <3>2
  <2>5. i \in 1 .. i
    BY <1>1, SMTT(60)
  <2>6. Found(next, i)
    BY <1>1, <1>2, <2>3, <2>4, <2>5, SMTT(60) DEF Found, e
  <2> QED  BY <2>3, <2>6 DEF i
<1>4. CASE ~(Usable(e) /\ Beats(k))
  <2>1. next = [k EXCEPT !.i = i + 1]
    BY <1>4
  <2>2. /\ next \in PickRecord /\ next.pc = "scan" /\ next.cur = k.cur /\ next.i = i + 1
        /\ next.best = k.best /\ next.bestScore = k.bestScore /\ next.bestRTT = k.bestRTT
    <3> HIDE DEF i
    <3> QED  BY <1>1, <2>1, ZenonT(60) DEF PickRecord
  <2>3. CASE k.best = None
    <3>1. ~Usable(e) /\ \A c \in 1 .. i - 1 : ~Usable(Pool[c])
      BY <1>1, <1>4, <2>3 DEF Beats, Found
    <3>2. \A c \in 1 .. i : c = i \/ c \in 1 .. i - 1
      BY <1>1
    <3> QED  BY <2>2, <2>3, <3>1, <3>2 DEF Found
  <2>4. CASE k.best # None
    <3>1. PICK j \in 1 .. i - 1 : /\ Wins(j, i - 1) /\ k.best = Pool[j]
                                  /\ k.bestScore = Score(k.best) /\ k.bestRTT = rtt[k.best]
      BY <2>4 DEF Found
    <3>0. Score(Pool[i]) \in Int /\ Score(Pool[j]) \in Int
      BY <1>1, Pools, Scores
    <3>2. ~Usable(Pool[i]) \/ Score(Pool[j]) <= Score(Pool[i])
      BY <1>4, <2>4, <3>0, <3>1 DEF Beats
    <3>3. Wins(j, i) /\ j \in 1 .. i
      <4> HIDE DEF i, e
      <4> QED  BY <1>1, <3>1, <3>2, StillWins, SMTT(60)
    <3> QED  BY <2>2, <2>4, <3>1, <3>3, ZenonT(60) DEF Found
  <2> QED  BY <2>3, <2>4
<1> QED  BY <1>3, <1>4

\* The loop is over.
LEMMA AfterScanOnTrack ==
  ASSUME TypeOK, NEW k \in PickRecord, k.pc = "scan", Found(k, Len(Pool)),
         ~(CurrentFine(k.cur) /\ sticky > 0)
  PROVE  /\ AfterScan(k).pc \in {"done", "failed"} => AfterScan(k).res = Intended(k.cur)
         /\ AfterScan(k).pc \in Picking => OnTrack(AfterScan(k))
<1>1. CASE k.best = None
  <2>1. AfterScan(k).pc = "failed" /\ AfterScan(k).res = None
    BY <1>1, NoPickTyped DEF AfterScan, PickRecord
  <2>2. Intended(k.cur) = None
    BY <1>1, NoneIntended DEF Found
  <2> QED  BY <2>1, <2>2 DEF Picking
<1>2. CASE k.best # None /\ (~isTCP \/ k.cur = None)
  <2>1. PICK j \in 1 .. Len(Pool) : Wins(j, Len(Pool)) /\ k.best = Pool[j]
    BY <1>2, SMTT(60) DEF Found
  <2>2. ~CurrentFine(k.cur)
    BY <1>2 DEF CurrentFine
  <2>3. Settled(k.cur, k.best)
    BY <2>1, <2>2 DEF Settled
  <2>4. CASE ~isTCP
    <3>1. AfterScan(k) = Picked(k.best) /\ k.best \in Endpoint \cup {None}
      BY <1>2, <2>4 DEF AfterScan, PickRecord
    <3>2. AfterScan(k).pc = "done" /\ AfterScan(k).res = k.best
      BY <3>1, PickedTyped
    <3>3. k.best = Intended(k.cur)
      BY <2>3, WinsIntended, SMTT(60)
    <3> QED  BY <3>2, <3>3 DEF Picking
  <2>5. CASE isTCP
    <3>1. AfterScan(k) = [k EXCEPT !.pc = "write", !.res = k.best]
      BY <1>2, <2>5, ZenonT(60) DEF AfterScan
    <3>2. AfterScan(k).pc = "write" /\ AfterScan(k).res = k.best /\ AfterScan(k).cur = k.cur
      BY <3>1, SMTT(60) DEF PickRecord
    <3> QED  BY <2>3, <3>2 DEF OnTrack
  <2> QED  BY <2>4, <2>5, SMTT(60)
<1>3. CASE k.best # None /\ isTCP /\ k.cur # None
  <2>1. AfterScan(k) = [k EXCEPT !.pc = "hysteresis", !.res = k.best]
    BY <1>3 DEF AfterScan
  <2>2. /\ AfterScan(k).pc = "hysteresis" /\ AfterScan(k).cur = k.cur /\ AfterScan(k).best = k.best
        /\ AfterScan(k).bestScore = k.bestScore /\ AfterScan(k).bestRTT = k.bestRTT
    BY <2>1, SMTT(60) DEF PickRecord
  <2>3. Found(AfterScan(k), Len(Pool))
    BY <2>2 DEF Found
  <2> QED  BY <1>3, <2>2, <2>3 DEF OnTrack
<1> QED  BY <1>1, <1>2, <1>3, SMTT(60)

-----------------------------------------------------------------------------
\* Whoever is disturbed is not alone any more.
LEMMA Disturbed ==
  ASSUME TypeOK, NEW m, Watch(m), NEW p \in Picker, pick'[p].pc \in Picking, seen'[p].alone
  PROVE  pick[p].pc \notin Picking \/ (m = p /\ seen[p].alone)
<1> SUFFICES ASSUME pick[p].pc \in Picking PROVE m = p /\ seen[p].alone
  OBVIOUS
<1>1. seen'[p] = Observe(p, m)
  BY DEF Watch
<1>2. pick'[p].pc \notin {"idle", "report"}
  BY DEF Picking
<1>3. Observe(p, m).alone = (seen[p].alone /\ m = p)
  BY <1>2, ZenonT(60) DEF Observe
<1> QED  BY <1>1, <1>3, ZenonT(60)

\* A pick stays where it is while nothing changes.
LEMMA TrackKept == ASSUME NEW k, OnTrack(k), UNCHANGED <<envVars, lbVars>> PROVE OnTrack(k)'
<1>1. /\ isTCP' = isTCP /\ healthy' = healthy /\ cooldown' = cooldown /\ rtt' = rtt
      /\ penalty' = penalty /\ sticky' = sticky
  BY SMTT(60) DEF envVars, lbVars
<1>2. \A j, m : Wins(j, m)' <=> Wins(j, m)
  BY <1>1 DEF Wins, Usable, Score, Numerator, EffWeight
<1>3. \A c : CurrentFine(c)' <=> CurrentFine(c)
  BY <1>1, SMTT(60) DEF CurrentFine, CurrentOK
<1>4. \A m : Found(k, m)' <=> Found(k, m)
  BY <1>1, <1>2, SMTT(60) DEF Found, Usable, Score, Numerator, EffWeight
<1>5. \A c, r : Settled(c, r)' <=> Settled(c, r)
  BY <1>1, <1>2, <1>3, SMTT(60) DEF Settled
<1> QED  BY <1>1, <1>3, <1>4, <1>5 DEF OnTrack

\* After a step too, OnTrack of a pick is OnTrack of its value.
LEMMA TrackOf ==
  ASSUME NEW q, NEW k
  PROVE  (k = pick[q] => (OnTrack(k) <=> OnTrack(pick[q])))'
<1>1. k = pick[q] => (OnTrack(k) <=> OnTrack(pick[q]))
  BY Zenon
<1> QED  BY <1>1, PTL

\* The step of a goroutine p: the others are disturbed.
LEMMA TrackMoves ==
  ASSUME Inv, AloneInv, NEW p \in Picker, NEW k, pick' = [pick EXCEPT ![p] = k], Watch(p),
         k.pc \in Picking =>
           /\ UNCHANGED <<envVars, lbVars>>
           /\ pick[p].pc \notin Picking \/ seen[p].alone => OnTrack(k)
  PROVE  AloneInv'
<1>1. TypeOK /\ pick'[p] = k /\ \A q \in Picker \ {p} : pick'[q] = pick[q]
  BY SMTT(60) DEF Inv, TypeOK
<1>2. SUFFICES ASSUME NEW q \in Picker, pick'[q].pc \in Picking, seen'[q].alone
               PROVE  (OnTrack(pick[q]))'
  BY SMTT(60) DEF AloneInv
<1>3. pick[q].pc \notin Picking \/ (p = q /\ seen[q].alone)
  BY <1>1, <1>2, Disturbed, SMTT(60)
<1>4. q = p
  BY <1>1, <1>2, <1>3, SMTT(60)
<1>5. OnTrack(k)'
  BY <1>1, <1>2, <1>3, <1>4, TrackKept
<1> QED  BY <1>1, <1>4, <1>5, TrackOf, Zenon

LEMMA BeginTracks == ASSUME Inv, AloneInv, NEW p \in Picker, Begin(p) PROVE AloneInv'
<1> DEFINE s == isTCP /\ current # None /\ sticky > 0
<1>1. PICK pc \in {"sticky", "scan"} : pc = IF s THEN "sticky" ELSE "scan"
  OBVIOUS
<1>2. PICK k : k = [NoPick EXCEPT !.cur = current, !.pc = pc]
  OBVIOUS
<1>3. k.pc = pc /\ k.cur = current /\ k.i = 1 /\ k.best = None
  BY <1>2 DEF NoPick
<1>4. pick' = [pick EXCEPT ![p] = k] /\ Watch(p) /\ UNCHANGED <<envVars, lbVars>>
  BY <1>1, <1>2 DEF Begin
<1>5. Found(k, k.i - 1)
  BY <1>3, SMTT(60) DEF Found
<1>6. OnTrack(k)
  BY <1>1, <1>3, <1>5, SMTT(60) DEF OnTrack, CurrentFine
<1> QED  BY <1>4, <1>6, TrackMoves, ZenonT(60)

LEMMA StickyTracks ==
  ASSUME Inv, AloneInv, NEW p \in Picker, StickyCheck(p)
  PROVE  /\ AloneInv'
         /\ seen[p].alone /\ pick'[p].pc \in {"done", "failed"} => pick'[p].res = Intended(pick[p].cur)
<1>1. PICK k \in PickRecord : k = pick[p]
  BY DEF Inv, TypeOK, PickRecord
<1>2. /\ k.pc = "sticky" /\ k.cur \in Endpoint /\ k.i = 1 /\ k.best = None
      /\ seen[p].alone => OnTrack(k)
  BY <1>1, SMTT(60) DEF StickyCheck, Inv, PickInv, Sound, AloneInv, Picking
<1>3. CASE CurrentOK(k.cur)
  <2>1. pick' = [pick EXCEPT ![p] = Picked(k.cur)] /\ Watch(p)
    BY <1>1, <1>3, SMTT(60) DEF StickyCheck
  <2>2. Picked(k.cur).pc = "done" /\ Picked(k.cur).res = k.cur
    BY <1>2, PickedTyped
  <2>3. AloneInv'
    BY <2>1, <2>2, TrackMoves, ZenonT(60) DEF Picking
  <2>4. seen[p].alone => Intended(k.cur) = k.cur
    BY <1>2, <1>3, StickyIntended, SMTT(60) DEF OnTrack, CurrentFine
  <2>5. pick'[p] = Picked(k.cur)
    BY <2>1, SMTT(60) DEF Inv, TypeOK
  <2> QED  BY <1>1, <2>2, <2>3, <2>4, <2>5
<1>4. CASE ~CurrentOK(k.cur)
  <2>1. PICK l : l = [k EXCEPT !.pc = "scan"]
    BY ZenonT(60)
  <2>2. l.pc = "scan" /\ l.cur = k.cur /\ l.i = 1 /\ l.best = None
    BY <1>2, <2>1 DEF PickRecord
  <2>3. pick' = [pick EXCEPT ![p] = l] /\ Watch(p) /\ UNCHANGED <<envVars, lbVars>>
    BY <1>1, <1>4, <2>1 DEF StickyCheck
  <2>4. Found(l, l.i - 1)
    BY <2>2, SMTT(60) DEF Found
  <2>5. OnTrack(l)
    BY <1>4, <2>2, <2>4 DEF OnTrack, CurrentFine
  <2>6. AloneInv' /\ pick'[p] = l
    BY <2>3, <2>5, TrackMoves, ZenonT(60) DEF Inv, TypeOK
  <2> QED  BY <2>2, <2>6
<1> QED  BY <1>3, <1>4

LEMMA ScanTracks ==
  ASSUME Inv, AloneInv, NEW p \in Picker, ScanOne(p)
  PROVE  /\ AloneInv'
         /\ seen[p].alone /\ pick'[p].pc \in {"done", "failed"} => pick'[p].res = Intended(pick[p].cur)
<1>1. PICK k \in PickRecord : k = pick[p]
  BY DEF Inv, TypeOK, PickRecord
<1>2. /\ k.pc = "scan" /\ k.i \in 1 .. Len(Pool) /\ TypeOK
      /\ k.best = None => k.bestScore = MaxScore
      /\ seen[p].alone => Found(k, k.i - 1) /\ ~(CurrentFine(k.cur) /\ sticky > 0)
  <2>1. /\ k.pc = "scan" /\ k.i <= Len(Pool) /\ TypeOK /\ (seen[p].alone => OnTrack(k))
        /\ k.best = None => k.bestScore = MaxScore
    BY <1>1 DEF ScanOne, ScanStep, Inv, PickInv, Sound, AloneInv, Picking
  <2>2. k.i \in 1 .. Len(Pool)
    BY <2>1, Pools DEF PickRecord
  <2> QED  BY <2>1, <2>2, SMTT(60) DEF OnTrack
<1>3. PICK next : next = [(IF Usable(Pool[k.i]) /\ Beats(k)
                           THEN [k EXCEPT !.best = Pool[k.i], !.bestScore = Score(Pool[k.i]), !.bestRTT = rtt[Pool[k.i]]]
                           ELSE k) EXCEPT !.i = k.i + 1]
  BY ZenonT(60)
<1>4. PICK new : new = IF next.i > Len(Pool) THEN AfterScan(next) ELSE next
  OBVIOUS
<1>5. pick' = [pick EXCEPT ![p] = new] /\ Watch(p) /\ UNCHANGED <<envVars, lbVars>>
  BY <1>1, <1>3, <1>4, Zenon DEF ScanOne, ScanStep
<1>6. seen[p].alone => /\ next \in PickRecord /\ next.pc = "scan" /\ next.cur = k.cur /\ next.i = k.i + 1
                       /\ Found(next, k.i)
  BY <1>2, <1>3, ScanFinds, ZenonT(120)
<1>7. seen[p].alone =>
        /\ new.pc \in {"done", "failed"} => new.res = Intended(k.cur)
        /\ new.pc \in Picking => OnTrack(new)
  <2> SUFFICES ASSUME seen[p].alone
               PROVE  /\ new.pc \in {"done", "failed"} => new.res = Intended(k.cur)
                      /\ new.pc \in Picking => OnTrack(new)
    OBVIOUS
  <2>1. CASE next.i > Len(Pool)
    <3>1. k.i = Len(Pool)
      BY <1>2, <1>6, <2>1, Pools
    <3>2. new = AfterScan(next)
      BY <1>4, <2>1
    <3> QED  BY <1>2, <1>6, <3>1, <3>2, AfterScanOnTrack
  <2>2. CASE ~(next.i > Len(Pool))
    <3>1. new = next /\ next.i - 1 = k.i
      BY <1>2, <1>4, <1>6, <2>2
    <3> QED  BY <1>2, <1>6, <3>1 DEF OnTrack
  <2> QED  BY <2>1, <2>2
<1>8. pick[p].pc \in Picking
  BY <1>1, <1>2 DEF Picking
<1>9. AloneInv' /\ pick'[p] = new
  BY <1>5, <1>7, <1>8, TrackMoves, ZenonT(60) DEF Inv, TypeOK
<1> QED  BY <1>1, <1>7, <1>9, SMTT(60)

LEMMA HysteresisTracks ==
  ASSUME Inv, AloneInv, NEW p \in Picker, Hysteresis(p)
  PROVE  AloneInv' /\ pick'[p].pc = "write"
<1>1. PICK k \in PickRecord : k = pick[p]
  BY DEF Inv, TypeOK, PickRecord
<1>2. /\ k.pc = "hysteresis" /\ k.cur \in Endpoint /\ k.best \in Endpoint
      /\ seen[p].alone => OnTrack(k)
  BY <1>1 DEF Hysteresis, Settle, Inv, PickInv, Sound, AloneInv, Picking
<1> DEFINE keep == /\ k.cur # k.best /\ CurrentOK(k.cur) /\ rtt[k.cur] > 0 /\ k.bestRTT > 0
                   /\ rtt[k.cur] - k.bestRTT < MinSwitch
<1>3. PICK r \in Endpoint : r = IF keep THEN k.cur ELSE k.best
  BY <1>2
<1>4. PICK l : l = [Picked(r) EXCEPT !.pc = "write", !.cur = k.cur]
  OBVIOUS
<1>5. pick' = [pick EXCEPT ![p] = l] /\ Watch(p) /\ UNCHANGED <<envVars, lbVars>>
  BY <1>1, <1>3, <1>4, Zenon DEF Hysteresis, Settle
<1>6. l.pc = "write" /\ l.cur = k.cur /\ l.res = r
  <2>1. Picked(r) \in PickRecord /\ Picked(r).res = r
    BY PickedTyped
  <2> QED  BY <1>4, <2>1 DEF PickRecord
<1>7. seen[p].alone => Settled(k.cur, r)
  <2> SUFFICES ASSUME seen[p].alone PROVE Settled(k.cur, r)
    OBVIOUS
  <2>1. /\ isTCP /\ k.cur # None /\ k.best # None /\ Found(k, Len(Pool))
        /\ ~(CurrentFine(k.cur) /\ sticky > 0)
    BY <1>2 DEF OnTrack
  <2>2. PICK j \in 1 .. Len(Pool) : Wins(j, Len(Pool)) /\ k.best = Pool[j] /\ k.bestRTT = rtt[Pool[j]]
    BY <2>1, SMTT(60) DEF Found
  <2>3. r = IF /\ CurrentFine(k.cur) /\ rtt[k.cur] > 0 /\ rtt[Pool[j]] > 0
               /\ rtt[k.cur] - rtt[Pool[j]] < MinSwitch
            THEN k.cur ELSE Pool[j]
    BY <1>3, <2>1, <2>2 DEF CurrentFine
  <2> QED  BY <2>1, <2>2, <2>3 DEF Settled
<1>8. pick[p].pc \in Picking
  BY <1>1, <1>2, SMTT(60) DEF Picking
<1>9. seen[p].alone => OnTrack(l)
  BY <1>6, <1>7 DEF OnTrack
<1>10. AloneInv' /\ pick'[p] = l
  BY <1>5, <1>8, <1>9, TrackMoves, ZenonT(60) DEF Inv, TypeOK
<1> QED  BY <1>6, <1>10

LEMMA WriteTracks ==
  ASSUME Inv, AloneInv, NEW p \in Picker, WriteCurrent(p)
  PROVE  /\ AloneInv'
         /\ seen[p].alone => pick'[p].res = Intended(pick[p].cur)
<1>1. PICK k \in PickRecord : k = pick[p]
  BY DEF Inv, TypeOK, PickRecord
<1>2. /\ k.pc = "write" /\ k.res \in Endpoint \cup {None}
      /\ seen[p].alone => Settled(k.cur, k.res)
  BY <1>1 DEF WriteCurrent, AloneInv, Picking, OnTrack, PickRecord
<1>3. pick' = [pick EXCEPT ![p] = Picked(k.res)] /\ Watch(p)
  BY <1>1, SMTT(60) DEF WriteCurrent
<1>4. Picked(k.res).pc = "done" /\ Picked(k.res).res = k.res
  BY <1>2, PickedTyped
<1>5. AloneInv'
  BY <1>3, <1>4, TrackMoves, ZenonT(60) DEF Picking
<1>6. seen[p].alone => k.res = Intended(k.cur)
  BY <1>2, WinsIntended, SMTT(60) DEF Inv
<1>7. pick'[p] = Picked(k.res)
  BY <1>3 DEF Inv, TypeOK
<1> QED  BY <1>1, <1>4, <1>5, <1>6, <1>7, SMTT(60)

LEMMA FlowTracks ==
  ASSUME Inv, AloneInv, NEW p \in Picker, EndFlow(p) \/ ReportStatus(p) \/ ResetSticky(p)
  PROVE  AloneInv' /\ pick[p].pc \notin Picking
<1>1. PICK k \in PickRecord : k = pick[p]
  BY DEF Inv, TypeOK, PickRecord
<1>2. PICK l : l = [k EXCEPT !.pc = "report"]
  BY ZenonT(60)
<1>3. l.pc = "report" /\ NoPick.pc = "idle"
  BY <1>2 DEF PickRecord, NoPick
<1>4. /\ pick' = [pick EXCEPT ![p] = NoPick] \/ pick' = [pick EXCEPT ![p] = l]
      /\ Watch(p) /\ pick[p].pc \notin Picking
  BY <1>1, <1>2 DEF EndFlow, ReportStatus, ResetSticky, Picking
<1>5. l.pc \notin Picking /\ NoPick.pc \notin Picking
  BY <1>3, SMTT(60) DEF Picking
<1> QED  BY <1>4, <1>5, TrackMoves, SMTT(60)

\* The steps of the health checker and of the clock disturb everybody.
LEMMA NobodyAlone == ASSUME Inv, AloneInv, pick' = pick, Watch(None) PROVE AloneInv'
<1> SUFFICES ASSUME NEW q \in Picker, pick'[q].pc \in Picking, seen'[q].alone PROVE FALSE
  BY DEF AloneInv
<1>1. None \notin Picker
  BY SelectionAssumption, SMTT(60)
<1> QED  BY <1>1, Disturbed, SMTT(60) DEF Inv

\* What a finished pick returns.
Returned ==
  \A p \in Picker :
    /\ pick[p].pc \in Picking
    /\ pick'[p].pc \in {"done", "failed"}
    /\ seen[p].alone
    => pick'[p].res = Intended(pick[p].cur)

LEMMA AloneInit == Init => AloneInv
BY NoPickTyped, SMTT(60) DEF Init, AloneInv, Picking, NoPick

LEMMA PickTracks == ASSUME Inv, AloneInv, NEW p \in Picker, PickStep(p) PROVE AloneInv' /\ Returned
<1>1. AloneInv' /\ (pick[p].pc \in Picking /\ pick'[p].pc \in {"done", "failed"} /\ seen[p].alone
                    => pick'[p].res = Intended(pick[p].cur))
  <2>1. CASE Begin(p)
    BY <2>1, BeginTracks, ZenonT(60) DEF Begin, Picking
  <2>2. CASE StickyCheck(p)
    BY <2>2, StickyTracks
  <2>3. CASE ScanOne(p)
    BY <2>3, ScanTracks
  <2>4. CASE Hysteresis(p)
    BY <2>4, HysteresisTracks, SMTT(60)
  <2>5. CASE WriteCurrent(p)
    BY <2>5, WriteTracks, SMTT(60)
  <2>6. CASE EndFlow(p) \/ ReportStatus(p) \/ ResetSticky(p)
    BY <2>6, FlowTracks, SMTT(60)
  <2> QED  BY <2>1, <2>2, <2>3, <2>4, <2>5, <2>6 DEF PickStep
<1>2. \A q \in Picker \ {p} : pick'[q] = pick[q]
  BY DEF PickStep, Begin, StickyCheck, ScanOne, ScanStep, Hysteresis, Settle, WriteCurrent, EndFlow,
         ReportStatus, ResetSticky, Inv, TypeOK
<1> QED  BY <1>1, <1>2, SMTT(60) DEF Returned, Picking

LEMMA AloneNext == Inv /\ AloneInv /\ [Next]_vars => AloneInv' /\ [Returned]_vars
<1> SUFFICES ASSUME Inv, AloneInv, [Next]_vars PROVE AloneInv' /\ [Returned]_vars
  OBVIOUS
<1>1. CASE \E p \in Picker : PickStep(p)
  BY <1>1, PickTracks
<1>2. CASE \E e \in Endpoint : CheckAdmits(e) \/ CheckDemotes(e)
  <2>1. pick' = pick /\ Watch(None)
    BY <1>2 DEF CheckAdmits, CheckDemotes
  <2> QED  BY <2>1, NobodyAlone DEF Returned, Picking
<1>3. CASE Tick
  <2>1. pick' = pick /\ Watch(None)
    BY <1>3, SMTT(60) DEF Tick
  <2> QED  BY <2>1, NobodyAlone DEF Returned, Picking
<1>4. CASE UNCHANGED vars
  <2>1. pick' = pick /\ seen' = seen /\ UNCHANGED <<envVars, lbVars>>
    BY <1>4 DEF vars, envVars, lbVars
  <2>2. SUFFICES ASSUME NEW q \in Picker, pick[q].pc \in Picking, seen[q].alone
                 PROVE  (OnTrack(pick[q]))'
    BY <1>4, <2>1 DEF AloneInv
  <2>3. PICK k : k = pick[q]
    OBVIOUS
  <2>4. OnTrack(k)'
    BY <2>1, <2>2, <2>3, TrackKept DEF AloneInv
  <2> QED  BY <2>1, <2>3, <2>4, TrackOf, Zenon
<1> QED  BY <1>1, <1>2, <1>3, <1>4 DEF Next

-----------------------------------------------------------------------------
\* Whatever happens between its locks, pickByEndpoint returns an upstream that was
\* healthy and not cooling down at some moment of that very pick.
THEOREM UsablePick == Spec => []PickWasUsable
  <1>1. Inv => PickWasUsable
    BY SMTT(60) DEF Inv, PickInv, Sound, PickWasUsable
  <1> QED
    BY <1>1, InvInit, InvNext, PTL DEF Spec

\* pickByEndpoint reports "no healthy upstreams" only if each upstream of the pool was
\* unhealthy or cooling down at some moment of the pick.
THEOREM JustifiedError == Spec => []ErrorWasJustified
  <1>1. Inv => ErrorWasJustified
    BY DEF Inv, PickInv, Sound, ErrorWasJustified
  <1> QED
    BY <1>1, InvInit, InvNext, PTL DEF Spec

\* pickByEndpoint does what it is written for: a pick during which nobody else
\* takes a step returns the sticky upstream, or the candidate with the lowest
\* score, the first in pool order among equals, or the current one when its RTT is
\* not longer by min_switch, or the error when nothing is usable.  A score is made of
\* whole milliseconds, so RTTs that differ by less tie; the hysteresis compares the
\* durations.  However float64 arithmetic rounds, the loop takes the minimum of the
\* scores it computes.
THEOREM IntendedPick == Spec => UndisturbedPickIsIntended
<1>1. Inv /\ AloneInv /\ [Next]_vars => Inv' /\ AloneInv' /\ [Returned]_vars
  BY InvNext, AloneNext
<1>2. Init => Inv /\ AloneInv
  BY InvInit, AloneInit
<1>3. Spec => [][Returned]_vars
  BY <1>1, <1>2, PTL DEF Spec
<1> QED  BY <1>3 DEF Returned, UndisturbedPickIsIntended

-----------------------------------------------------------------------------
(* The relay.                                                              *)

\* Nobody has broken or cancelled the flow.
Calm == client.end # "rst" /\ remote.end # "rst" /\ ~ctxDone

Peer == [sent : 0 .. MaxChunks, end : {"open", "fin", "rst"}, stalled : BOOLEAN]

Handlers == [pc : {"pick", "reply", "header", "first", "teardown", "second", "closing", "returned"},
             first : {"none", "nil", "eof", "err"}]

Typed ==
  /\ kind \in [tun : BOOLEAN, framed : BOOLEAN]
  /\ client \in Peer
  /\ remote \in Peer
  /\ up \in [pc : {"off", "read", "write", "done"}, moved : Nat, res : {"none", "nil", "eof", "err"}]
  /\ down \in [pc : {"off", "read", "write", "done"}, moved : Nat, res : {"none", "nil", "eof", "err"}]
  /\ main \in Handlers
  /\ clientClosed \in BOOLEAN /\ wsClosed \in BOOLEAN /\ ctxDone \in BOOLEAN

\* The goroutines start together, and errC has the results of those that have ended.
ResultsInv ==
  /\ up.pc = "off" <=> down.pc = "off"
  /\ main.pc \in {"pick", "reply", "header"} => down.pc = "off" /\ ~wsClosed
  /\ down.pc = "off" => main.pc \in {"pick", "reply", "header", "closing", "returned"}
  /\ errC \in {<<>>, <<"up">>, <<"down">>, <<"up", "down">>, <<"down", "up">>}
  /\ ~kind.tun => /\ up.pc = "done" <=> errC \in {<<"up">>, <<"up", "down">>, <<"down", "up">>}
                  /\ down.pc = "done" <=> errC \in {<<"down">>, <<"up", "down">>, <<"down", "up">>}
  /\ kind.tun => errC = <<>> /\ main.pc \notin {"teardown", "second"}

\* In a calm flow nothing is closed or about to be while the downstream copy runs, because the
\* upstream copy cannot fail before it; so that copy ends at the end of the stream only.
CalmInv ==
  Calm => /\ wsClosed = clientClosed
          /\ Cancelled => down.pc \in {"off", "done"}
          /\ down.pc # "done" => up.res # "err"
          /\ errC \in {<<"up">>, <<"up", "down">>} => up.res # "err"
          /\ down.pc = "done" => remote.end = "fin" /\ down.moved = remote.sent
          /\ down.pc = "write" => down.moved < remote.sent
          /\ down.moved <= remote.sent

RelayInv == Typed /\ ResultsInv /\ CalmInv

-----------------------------------------------------------------------------
LEMMA Tuples ==
  /\ \A d \in {"up", "down"} : Append(<<>>, d) = <<d>>
  /\ Append(<<"up">>, "down") = <<"up", "down">> /\ Append(<<"down">>, "up") = <<"down", "up">>
  /\ <<"up">> # <<>> /\ <<"down">> # <<>> /\ <<"up">> # <<"down">>
  /\ <<"up", "down">> # <<"down", "up">>
  /\ \A d, e \in {"up", "down"} : <<d, e>> # <<>> /\ <<d, e>> # <<"up">> /\ <<d, e>> # <<"down">>
  /\ \A d, e \in {"up", "down"} : Head(<<d>>) = d /\ Head(<<d, e>>) = d
  /\ Len(<<>>) # 2 /\ Len(<<"up">>) # 2 /\ Len(<<"down">>) # 2
  <1>1. Append(<<"up">>, "down") = <<"up", "down">> /\ Append(<<"down">>, "up") = <<"down", "up">>
    <2>1. \A d, e \in {"up", "down"} : /\ Append(<<d>>, e) \in Seq({"up", "down"}) /\ <<d, e>> \in Seq({"up", "down"})
                                       /\ Len(Append(<<d>>, e)) = 2 /\ Len(<<d, e>>) = 2
                                       /\ Append(<<d>>, e)[1] = d /\ Append(<<d>>, e)[2] = e
                                       /\ <<d, e>>[1] = d /\ <<d, e>>[2] = e
      OBVIOUS
    <2>2. ASSUME NEW d \in {"up", "down"}, NEW e \in {"up", "down"} PROVE Append(<<d>>, e) = <<d, e>>
      <3> DEFINE s == Append(<<d>>, e)
                 t == <<d, e>>
      <3>1. s \in Seq({"up", "down"}) /\ t \in Seq({"up", "down"}) /\ Len(s) = Len(t)
        BY <2>1
      <3>2. \A i \in 1 .. Len(s) : s[i] = t[i]
        BY <2>1
      <3>3. s = t
        <4> HIDE DEF s, t
        <4>1. s = [i \in 1 .. Len(s) |-> s[i]] /\ t = [i \in 1 .. Len(t) |-> t[i]]
          BY <3>1
        <4> QED
          BY <3>1, <3>2, <4>1, Zenon
      <3> QED
        BY <3>3
    <2> QED
      BY <2>2
  <1>0. \A d \in {"up", "down"} : Append(<<>>, d) = <<d>>
    OBVIOUS
  <1>2. /\ Len(<<>>) = 0 /\ \A d \in {"up", "down"} : Len(<<d>>) = 1
        /\ \A d, e \in {"up", "down"} : Len(<<d, e>>) = 2
    OBVIOUS
  <1>3. /\ \A d \in {"up", "down"} : <<d>>[1] = d
        /\ \A d, e \in {"up", "down"} : <<d, e>>[1] = d
    OBVIOUS
  <1>4. \A d, e \in {"up", "down"} : Head(<<d>>) = d /\ Head(<<d, e>>) = d
    OBVIOUS
  <1>5. <<"up">> # <<"down">> /\ <<"up", "down">> # <<"down", "up">>
    BY <1>3
  <1>6. \A d, e \in {"up", "down"} : <<d, e>> # <<>> /\ <<d, e>> # <<"up">> /\ <<d, e>> # <<"down">>
    BY <1>2
  <1>7. <<"up">> # <<>> /\ <<"down">> # <<>>
    BY <1>2
  <1>8. Len(<<>>) # 2 /\ Len(<<"up">>) # 2 /\ Len(<<"down">>) # 2
    BY <1>2
  <1> QED
    BY <1>0, <1>1, <1>4, <1>5, <1>6, <1>7, <1>8

LEMMA RelayInvInit == RelayInit => RelayInv
  <1> SUFFICES ASSUME RelayInit PROVE RelayInv
    OBVIOUS
  <1>0. /\ up.pc = "off" /\ down.pc = "off" /\ up.res = "none" /\ down.moved = 0
        /\ main.pc = "pick" /\ remote.sent = 0
        /\ errC = <<>> /\ wsClosed = FALSE /\ clientClosed = FALSE /\ ctxDone = FALSE
    BY DEF RelayInit, Idle
  <1>1. Typed
    <2>1. 0 \in 0 .. MaxChunks /\ 0 \in Nat
      BY RelayAssumption
    <2> QED
      BY <2>1, Zenon DEF RelayInit, Typed, Idle, Peer, Handlers
  <1>2. ResultsInv
    <2>1. errC \notin {<<"up">>, <<"up", "down">>, <<"down", "up">>} /\ errC \notin {<<"down">>, <<"up", "down">>, <<"down", "up">>}
      BY <1>0, Tuples, Zenon
    <2> QED
      BY <1>0, <2>1, Zenon DEF ResultsInv
  <1>3. CalmInv
    <2>1. 0 <= 0
      OBVIOUS
    <2> QED
      BY <1>0, <2>1, Zenon DEF CalmInv, Cancelled
  <1> QED
    BY <1>1, <1>2, <1>3, SMTT(60) DEF RelayInv

\* What a step of the peers or a cancel leaves alone, and what it does to the remote.
PeerStep ==
  /\ UNCHANGED <<up, down, errC, main, clientClosed, wsClosed, kind>>
  /\ client' \in Peer
  /\ remote' \in Peer
  /\ ctxDone' \in BOOLEAN
  /\ remote.sent <= remote'.sent
  /\ remote.end = "fin" => remote'.end = "fin" /\ remote'.sent = remote.sent
  /\ Calm' => Calm

\* The peers and the cancel: a calm flow was calm before.
LEMMA PeersKeep == ASSUME RelayInv, Peers PROVE RelayInv'
  <1>0. /\ client \in Peer
        /\ remote \in Peer
        /\ ctxDone \in BOOLEAN
    BY DEF RelayInv, Typed
  <1>e. ASSUME NEW p \in Peer, NEW e \in {"fin", "rst"}
        PROVE  Ended(p, e) \in Peer /\ Ended(p, e).end = e /\ Ended(p, e).sent = p.sent
    BY Zenon DEF Ended, Peer
  <1>s. ASSUME NEW p \in Peer
        PROVE  LET q == [p EXCEPT !.stalled = ~@] IN q \in Peer /\ q.end = p.end /\ q.sent = p.sent
    BY Zenon DEF Peer
  <1>n. \A p \in Peer : p.sent \in Nat
    BY RelayAssumption DEF Peer
  <1>1. ASSUME ClientSends PROVE PeerStep
    BY <1>0, <1>1, RelayAssumption DEF ClientSends, PeerStep, Calm, ends, Peer
  <1>2. ASSUME ClientEnds PROVE PeerStep
    BY <1>0, <1>2, <1>e, <1>n DEF ClientEnds, PeerStep, Calm, ends
  <1>3. ASSUME RemoteSends PROVE PeerStep
    BY <1>0, <1>3, RelayAssumption DEF RemoteSends, PeerStep, Calm, ends, Peer
  <1>4. ASSUME RemoteEnds PROVE PeerStep
    BY <1>0, <1>4, <1>e, <1>n, SMTT(60) DEF RemoteEnds, PeerStep, Calm, ends
  <1>5. ASSUME Cancel PROVE PeerStep
    BY <1>0, <1>5, RelayAssumption DEF Cancel, PeerStep, Calm, ends, Peer
  <1>a. ASSUME ClientStalls PROVE PeerStep
    BY <1>0, <1>a, <1>s, <1>n DEF ClientStalls, PeerStep, Calm, ends
  <1>b. ASSUME RemoteStalls PROVE PeerStep
    BY <1>0, <1>b, <1>s, <1>n DEF RemoteStalls, PeerStep, Calm, ends
  <1>6. PeerStep
    BY <1>1, <1>2, <1>3, <1>4, <1>5, <1>a, <1>b, SMTT(60) DEF Peers
  <1>7. Typed'
    BY <1>6, SMTT(60) DEF RelayInv, Typed, PeerStep
  <1>8. ResultsInv'
    BY <1>6, SMTT(60) DEF RelayInv, ResultsInv, PeerStep
  <1>9. CalmInv'
    <2> SUFFICES ASSUME Calm' PROVE CalmInv'
      BY DEF CalmInv
    <2>1. /\ Calm /\ UNCHANGED <<up, down, errC, wsClosed, clientClosed>>
          /\ remote.sent <= remote'.sent
          /\ remote.end = "fin" => remote'.end = "fin" /\ remote'.sent = remote.sent
      BY <1>6, SMTT(60) DEF PeerStep
    <2>2. remote.sent \in Nat /\ remote'.sent \in Nat /\ down.moved \in Nat
      BY <1>6, RelayAssumption DEF RelayInv, Typed, PeerStep, Peer
    <2>3. Cancelled' => Cancelled
      BY <1>6 DEF PeerStep, Cancelled, Calm
    <2> QED
      BY <2>1, <2>2, <2>3, SMTT(60) DEF RelayInv, CalmInv
  <1> QED
    BY <1>7, <1>8, <1>9 DEF RelayInv

\* The upstream copy takes a step, or ends with the result r.
LEMMA UpKeeps == ASSUME RelayInv, UpRead \/ UpWrite PROVE RelayInv'
  <1>0. UNCHANGED <<client, remote, down, main, clientClosed, wsClosed, ctxDone, kind>>
    BY DEF UpRead, UpWrite, ends
  <1>u. up.pc \in {"read", "write"} /\ down.pc # "off" /\ up \in [pc : {"off", "read", "write", "done"}, moved : Nat, res : {"none", "nil", "eof", "err"}]
    BY DEF UpRead, UpWrite, RelayInv, Typed, ResultsInv
  <1>v. Cancelled' = Cancelled
    BY <1>0 DEF Cancelled
  <1>1. CASE \E r \in {"nil", "eof", "err"} : Ends(up, "up", r) /\ (r = "err" /\ Calm => Cancelled \/ down.pc = "done")
    <2>1. PICK r \in {"nil", "eof", "err"} : Ends(up, "up", r) /\ (r = "err" /\ Calm => Cancelled \/ down.pc = "done")
      BY <1>1
    <2>2. up' \in [pc : {"done"}, moved : Nat, res : {"nil", "eof", "err"}] /\ up'.pc = "done" /\ up'.res = r
      BY <1>u, <2>1, ZenonT(60) DEF Ends
    <2>3. Typed'
      BY <1>0, <2>2 DEF RelayInv, Typed
    <2>4. errC' = IF kind.tun THEN errC ELSE Append(errC, "up")
      BY <2>1, SMTT(60) DEF Ends
    <2>5. ~kind.tun => errC \in {<<>>, <<"down">>} /\ (errC = <<"down">> <=> down.pc = "done")
      BY <1>u, Tuples DEF RelayInv, ResultsInv
    <2>6. ~kind.tun => errC' = IF down.pc = "done" THEN <<"down", "up">> ELSE <<"up">>
      BY <2>4, <2>5, Tuples, ZenonT(60)
    <2>7. ResultsInv'
      BY <1>0, <1>u, <2>2, <2>4, <2>6, Tuples, SMTT(60) DEF RelayInv, ResultsInv
    <2>8. Calm /\ r = "err" => down.pc = "done"
      BY <1>u, <2>1 DEF RelayInv, CalmInv
    <2>9. CalmInv'
      <3> SUFFICES ASSUME Calm' PROVE CalmInv'
        BY DEF CalmInv
      <3>1. Calm
        BY <1>0, SMTT(60) DEF Calm
      <3>2. errC' \in {<<"up">>, <<"up", "down">>} => down.pc # "done"
        BY <1>0, <2>4, <2>6, Tuples DEF RelayInv, ResultsInv
      <3> QED
        BY <1>0, <1>v, <2>2, <2>8, <3>1, <3>2, SMTT(60) DEF RelayInv, CalmInv
    <2> QED
      BY <2>3, <2>7, <2>9 DEF RelayInv
  <1>2. CASE up'.pc \in {"read", "write"} /\ up'.res = up.res /\ errC' = errC
             /\ up' \in [pc : {"read", "write"}, moved : Nat, res : {"none", "nil", "eof", "err"}]
    <2>1. Typed'
      BY <1>0, <1>2, SMTT(60) DEF RelayInv, Typed
    <2>2. ResultsInv'
      BY <1>0, <1>u, <1>2, SMTT(60) DEF RelayInv, ResultsInv
    <2>3. CalmInv'
      BY <1>0, <1>v, <1>2 DEF RelayInv, CalmInv, Calm
    <2> QED
      BY <2>1, <2>2, <2>3, SMTT(60) DEF RelayInv
  <1>3. UpRead => \/ Ends(up, "up", "nil")
                  \/ Ends(up, "up", "err") /\ (clientClosed \/ client.end = "rst" \/ Cancelled)
                  \/ up' = [up EXCEPT !.pc = "write"] /\ errC' = errC
    BY DEF UpRead, Moves
  <1>4. UpWrite => \/ Ends(up, "up", "eof")
                   \/ Ends(up, "up", "err") /\ (wsClosed \/ Cancelled \/ remote.end = "rst" \/ down.pc = "done")
                   \/ up' = [up EXCEPT !.pc = "read", !.moved = @ + 1] /\ errC' = errC
    BY DEF UpWrite, CloseRead
  <1>5. (Calm => wsClosed = clientClosed) /\ (wsClosed => Cancelled)
    BY DEF RelayInv, CalmInv, Cancelled
  <1>6. \/ Ends(up, "up", "nil") \/ Ends(up, "up", "eof")
        \/ Ends(up, "up", "err") /\ (Calm => Cancelled \/ down.pc = "done")
        \/ up' = [up EXCEPT !.pc = "write"] /\ errC' = errC
        \/ up' = [up EXCEPT !.pc = "read", !.moved = @ + 1] /\ errC' = errC
    BY <1>3, <1>4, <1>5 DEF Calm
  <1>7. up' = [up EXCEPT !.pc = "write"] =>
          /\ up'.pc \in {"read", "write"} /\ up'.res = up.res
          /\ up' \in [pc : {"read", "write"}, moved : Nat, res : {"none", "nil", "eof", "err"}]
    BY <1>u
  <1>8. up' = [up EXCEPT !.pc = "read", !.moved = @ + 1] =>
          /\ up'.pc \in {"read", "write"} /\ up'.res = up.res
          /\ up' \in [pc : {"read", "write"}, moved : Nat, res : {"none", "nil", "eof", "err"}]
    <2>1. up.moved + 1 \in Nat
      BY <1>u
    <2> QED
      BY <1>u, <2>1, Zenon
  <1> QED
    BY <1>1, <1>2, <1>6, <1>7, <1>8

\* The downstream copy takes a step, or ends; in a calm flow it ends at the end of
\* the remote's stream.
LEMMA DownKeeps == ASSUME RelayInv, DownRead \/ DownWrite PROVE RelayInv'
  <1> DEFINE Downs == [pc : {"off", "read", "write", "done"}, moved : Nat, res : {"none", "nil", "eof", "err"}]
  <1>0. UNCHANGED <<client, remote, up, main, clientClosed, wsClosed, ctxDone, kind>>
    BY DEF DownRead, DownWrite, ends
  <1>d. down.pc \in {"read", "write"} /\ up.pc # "off" /\ down \in Downs /\ remote.sent \in Nat
    BY RelayAssumption DEF DownRead, DownWrite, RelayInv, Typed, ResultsInv, Peer
  <1>v. Cancelled' = Cancelled /\ (wsClosed => Cancelled)
    BY <1>0 DEF Cancelled
  <1>c. Calm => ~Cancelled /\ ~wsClosed /\ ~clientClosed /\ client.end # "rst" /\ remote.end # "rst"
    BY <1>d, <1>v, SMTT(60) DEF RelayInv, CalmInv, Calm
  <1>1. CASE /\ down'.pc = "done" /\ down' \in Downs
             /\ errC' = IF kind.tun THEN errC ELSE Append(errC, "down")
             /\ Calm => remote.end = "fin" /\ down'.moved = remote.sent
    <2>1. Typed'
      BY <1>0, <1>1, SMTT(60) DEF RelayInv, Typed
    <2>2. ~kind.tun => errC \in {<<>>, <<"up">>} /\ (errC = <<"up">> <=> up.pc = "done")
      BY <1>d, Tuples DEF RelayInv, ResultsInv
    <2>3. ~kind.tun => errC' = IF up.pc = "done" THEN <<"up", "down">> ELSE <<"down">>
      BY <1>1, <2>2, Tuples, ZenonT(60)
    <2>4. ResultsInv'
      BY <1>0, <1>d, <1>1, <2>3, Tuples, SMTT(60) DEF RelayInv, ResultsInv
    <2>5. CalmInv'
      <3> SUFFICES ASSUME Calm' PROVE CalmInv'
        BY DEF CalmInv
      <3>1. Calm
        BY <1>0 DEF Calm
      <3>2. up.res # "err"
        BY <1>d, <3>1, SMTT(60) DEF RelayInv, CalmInv
      <3> QED
        BY <1>0, <1>1, <1>d, <1>v, <3>1, <3>2 DEF RelayInv, CalmInv
    <2> QED
      BY <2>1, <2>4, <2>5 DEF RelayInv
  <1>2. CASE /\ down'.pc \in {"read", "write"} /\ down' \in Downs /\ errC' = errC
             /\ Calm => down'.moved <= remote.sent /\ (down'.pc = "write" => down'.moved < remote.sent)
    <2>1. Typed'
      BY <1>0, <1>2, SMTT(60) DEF RelayInv, Typed
    <2>2. ResultsInv'
      BY <1>0, <1>d, <1>2, SMTT(60) DEF RelayInv, ResultsInv
    <2>3. CalmInv'
      BY <1>0, <1>d, <1>v, <1>2, <1>c DEF RelayInv, CalmInv, Calm
    <2> QED
      BY <2>1, <2>2, <2>3 DEF RelayInv
  <1>3. ASSUME NEW r \in {"nil", "err"}, Ends(down, "down", r),
               Calm => remote.end = "fin" /\ down.moved = remote.sent
        PROVE  RelayInv'
    BY <1>1, <1>3, <1>d, ZenonT(60) DEF Ends
  <1>4. CASE DownRead
    <2>1. ASSUME wsClosed /\ \E res \in {"nil", "err"} : Ends(down, "down", res) PROVE RelayInv'
      BY <1>3, <1>c, <2>1
    <2>2. ASSUME Cancelled /\ ~kind.framed /\ Ends(down, "down", "err") PROVE RelayInv'
      BY <1>3, <1>c, <2>2
    <2>3. ASSUME remote.end = "rst" /\ Ends(down, "down", "err") PROVE RelayInv'
      BY <1>3, <1>c, <2>3
    <2>4. ASSUME ~wsClosed /\ down.moved < remote.sent /\ Moves(down, "write") PROVE RelayInv'
      <3>1. down'.pc = "write" /\ down'.moved = down.moved /\ down' \in Downs /\ errC' = errC
        BY <1>d, <2>4 DEF Moves
      <3> QED
        BY <1>2, <1>d, <2>4, <3>1
    <2>5. ASSUME remote.end = "fin" /\ down.moved = remote.sent,
                 Ends(down, "down", IF kind.framed THEN "nil" ELSE "err")
          PROVE  RelayInv'
      <3>1. CASE kind.framed
        BY <1>3, <2>5, <3>1
      <3>2. CASE ~kind.framed
        BY <1>3, <2>5, <3>2
      <3> QED
        BY <3>1, <3>2
    <2> QED
      BY <1>4, <2>1, <2>2, <2>3, <2>4, <2>5, SMTT(60) DEF DownRead
  <1>5. CASE DownWrite
    <2>1. ASSUME clientClosed \/ client.end = "rst", Ends(down, "down", "err") PROVE RelayInv'
      BY <1>3, <1>c, <2>1
    <2>2. ASSUME down' = [down EXCEPT !.moved = @ + 1, !.pc = IF Cancelled THEN "done" ELSE "read",
                                      !.res = IF Cancelled THEN "err" ELSE @],
                 errC' = IF Cancelled /\ ~kind.tun THEN Append(errC, "down") ELSE errC
          PROVE  RelayInv'
      <3>0. down.moved + 1 \in Nat
        BY <1>d
      <3>1. CASE Cancelled
        <4>1. down' = [down EXCEPT !.moved = @ + 1, !.pc = "done", !.res = "err"]
          BY <2>2, <3>1
        <4>2. down' \in Downs /\ down'.pc = "done"
          BY <1>d, <3>0, <4>1, Zenon
        <4> QED
          BY <1>1, <1>c, <2>2, <3>1, <4>2
      <3>2. CASE ~Cancelled
        <4>1. down' = [down EXCEPT !.moved = @ + 1, !.pc = "read"]
          BY <1>d, <2>2, <3>2, ZenonT(60)
        <4>2. down' \in Downs /\ down'.pc = "read" /\ down'.moved = down.moved + 1
          BY <1>d, <3>0, <4>1, Zenon
        <4>3. Calm => down.moved < remote.sent
          BY <1>5 DEF DownWrite, RelayInv, CalmInv
        <4> QED
          BY <1>2, <1>d, <2>2, <3>2, <4>2, <4>3
      <3> QED
        BY <3>1, <3>2
    <2> QED
      BY <1>5, <2>1, <2>2 DEF DownWrite
  <1> QED
    BY <1>4, <1>5

\* A step of the handler that starts no goroutine: it closes the connections, or starts
\* to, only when a calm downstream copy is not running.
HandlerStep ==
  /\ UNCHANGED <<client, remote, up, down, errC, ctxDone, kind>>
  /\ main' \in Handlers
  /\ main'.pc \in {"pick", "reply", "header"} => down.pc = "off" /\ ~wsClosed'
  /\ down.pc = "off" => main'.pc \in {"pick", "reply", "header", "closing", "returned"}
  /\ kind.tun => main'.pc \notin {"teardown", "second"}
  /\ UNCHANGED <<clientClosed, wsClosed>> \/ CloseBoth
  /\ Calm /\ Cancelled' => down.pc \in {"off", "done"}

LEMMA HandlerKeeps == ASSUME RelayInv, HandlerStep PROVE RelayInv'
  <1>0. UNCHANGED <<client, remote, up, down, errC, ctxDone, kind>>
    BY DEF HandlerStep
  <1>1. Typed'
    BY <1>0, ZenonT(60) DEF RelayInv, Typed, HandlerStep, CloseBoth
  <1>2. ResultsInv'
    BY <1>0, Zenon DEF RelayInv, ResultsInv, HandlerStep
  <1>3. CalmInv'
    <2> SUFFICES ASSUME Calm' PROVE CalmInv'
      BY DEF CalmInv
    <2>1. Calm
      BY <1>0 DEF Calm
    <2>2. wsClosed' = clientClosed'
      <3>1. CASE UNCHANGED <<clientClosed, wsClosed>>
        BY <2>1, <3>1, Zenon DEF RelayInv, CalmInv
      <3>2. CASE CloseBoth
        BY <2>1, <3>2, Zenon DEF CloseBoth
      <3> QED
        BY <3>1, <3>2 DEF HandlerStep
    <2>3. Cancelled' => down.pc \in {"off", "done"}
      BY <2>1 DEF HandlerStep
    <2> QED
      BY <1>0, <2>1, <2>2, <2>3, Zenon DEF RelayInv, CalmInv
  <1> QED
    BY <1>1, <1>2, <1>3 DEF RelayInv

LEMMA ReturnStep ==
  ASSUME RelayInv, Return, UNCHANGED <<client, remote, up, down, errC, ctxDone, kind>>,
         Calm => down.pc \in {"off", "done"}
  PROVE  HandlerStep
  <1>1. /\ main' \in Handlers
        /\ main'.pc = "closing"
    BY DEF RelayInv, Typed, Handlers, Return
  <1> QED
    BY <1>1 DEF HandlerStep, Return, ends

LEMMA PickKeeps == ASSUME RelayInv, Pick PROVE RelayInv'
  <1>0. /\ UNCHANGED <<client, remote, up, down, errC, ctxDone, kind>> /\ main.pc = "pick" /\ down.pc = "off" /\ ~wsClosed
        /\ main \in Handlers
    BY DEF Pick, RelayInv, Typed, ResultsInv
  <1>1. CASE main' = [main EXCEPT !.pc = "returned"] /\ CloseBoth
    <2>1. main' \in Handlers /\ main'.pc = "returned"
      BY <1>0, <1>1 DEF Handlers
    <2>2. HandlerStep
      BY <1>0, <1>1, <2>1 DEF HandlerStep
    <2> QED
      BY <2>2, HandlerKeeps
  <1>2. CASE main' = [main EXCEPT !.pc = "reply"] /\ UNCHANGED ends
    <2>1. main' \in Handlers /\ main'.pc = "reply"
      BY <1>0, <1>2 DEF Handlers
    <2>2. HandlerStep
      BY <1>0, <1>2, <2>1 DEF HandlerStep, ends
    <2> QED
      BY <2>2, HandlerKeeps
  <1> QED
    BY <1>1, <1>2 DEF Pick

LEMMA ReplyKeeps == ASSUME RelayInv, Reply PROVE RelayInv'
  <1>0. /\ UNCHANGED <<client, remote, up, down, errC, ctxDone, kind>> /\ main.pc = "reply" /\ down.pc = "off" /\ ~wsClosed
        /\ main \in Handlers
    BY DEF Reply, RelayInv, Typed, ResultsInv
  <1>1. CASE Return
    BY <1>0, <1>1, ReturnStep, HandlerKeeps
  <1>2. CASE main' = [main EXCEPT !.pc = "header"] /\ UNCHANGED ends
    <2>1. main' \in Handlers /\ main'.pc = "header"
      BY <1>0, <1>2 DEF Handlers
    <2>2. HandlerStep
      BY <1>0, <1>2, <2>1 DEF HandlerStep, ends
    <2> QED
      BY <2>2, HandlerKeeps
  <1> QED
    BY <1>1, <1>2 DEF Reply

LEMMA ConnectKeeps == ASSUME RelayInv, Connect PROVE RelayInv'
  <1>0. /\ UNCHANGED <<client, remote, errC, ctxDone, kind>> /\ main.pc = "header"
        /\ up.pc = "off" /\ down.pc = "off" /\ ~wsClosed
    BY DEF Connect, RelayInv, ResultsInv
  <1>1. CASE Return /\ UNCHANGED <<up, down>>
    BY <1>0, <1>1, ReturnStep, HandlerKeeps
  <1>2. CASE /\ main' = [main EXCEPT !.pc = "first"]
             /\ up' = [up EXCEPT !.pc = "read"] /\ down' = [down EXCEPT !.pc = "read"]
             /\ UNCHANGED ends
    <2>1. main'.pc = "first" /\ up'.pc = "read" /\ down'.pc = "read"
      BY <1>2 DEF RelayInv, Typed, Handlers
    <2>2. up'.res = up.res /\ down'.moved = down.moved
      BY <1>2 DEF RelayInv, Typed
    <2>3. Typed'
      BY <1>0, <1>2, Zenon DEF RelayInv, Typed, Handlers, ends
    <2>4. ResultsInv'
      BY <1>0, <2>1, SMTT(60) DEF RelayInv, ResultsInv
    <2>5. CalmInv'
      <3> SUFFICES ASSUME Calm' PROVE CalmInv'
        BY DEF CalmInv
      <3>1. Calm
        BY <1>0 DEF Calm
      <3>2. wsClosed = clientClosed /\ up.res # "err" /\ down.moved <= remote.sent
        BY <1>0, <3>1, Zenon DEF RelayInv, CalmInv
      <3>3. UNCHANGED <<wsClosed, clientClosed>>
        BY <1>2, SMTT(60) DEF ends
      <3>4. ~Cancelled'
        BY <1>0, <2>1, <3>1, <3>3 DEF Cancelled, Calm
      <3> QED
        BY <1>0, <2>1, <2>2, <3>2, <3>3, <3>4 DEF CalmInv
    <2> QED
      BY <2>3, <2>4, <2>5 DEF RelayInv
  <1> QED
    BY <1>1, <1>2 DEF Connect

\* A hard first result of a calm flow is the downstream copy's.
LEMMA FirstKeeps == ASSUME RelayInv, First PROVE RelayInv'
  <1>0. /\ UNCHANGED <<client, remote, up, down, errC, ctxDone, kind>>
        /\ ~kind.tun /\ main.pc = "first" /\ errC # <<>>
    BY DEF First
  <1> DEFINE e1 == Result(Head(errC))
  <1>1. \/ errC \in {<<"up">>, <<"up", "down">>} /\ Head(errC) = "up"
        \/ errC \in {<<"down">>, <<"down", "up">>} /\ Head(errC) = "down" /\ down.pc = "done"
    <2>1. errC \in {<<"up">>, <<"down">>, <<"up", "down">>, <<"down", "up">>}
      BY <1>0 DEF RelayInv, ResultsInv
    <2>2. errC \in {<<"down">>, <<"down", "up">>} => down.pc = "done"
      BY <1>0 DEF RelayInv, ResultsInv
    <2>3. /\ Head(<<"up">>) = "up" /\ Head(<<"up", "down">>) = "up"
          /\ Head(<<"down">>) = "down" /\ Head(<<"down", "up">>) = "down"
      BY Tuples
    <2> QED
      BY <2>1, <2>2, <2>3, Zenon
  <1>2. e1 \in {"none", "nil", "eof", "err"}
    BY DEF RelayInv, Typed, Result
  <1>3. Calm /\ Hard(e1) => down.pc = "done"
    <2> SUFFICES ASSUME Calm, Hard(e1), Head(errC) = "up", errC \in {<<"up">>, <<"up", "down">>} PROVE FALSE
      BY <1>1
    <2>1. up.res = "err"
      BY DEF Hard, Result
    <2> QED
      BY <2>1 DEF RelayInv, CalmInv
  <1>4. /\ main' \in Handlers
        /\ main'.pc = IF Hard(e1) THEN "teardown" ELSE IF ctxDone THEN "closing" ELSE "second"
        /\ UNCHANGED <<clientClosed, wsClosed>>
    BY <1>2 DEF First, AfterFirst, Handlers, ends
  <1>5. down.pc # "off"
    BY <1>0 DEF RelayInv, ResultsInv
  <1>6. Calm /\ Cancelled' => down.pc \in {"off", "done"}
    <2> SUFFICES ASSUME Calm, Cancelled' PROVE down.pc \in {"off", "done"}
      OBVIOUS
    <2>1. ~ctxDone /\ ~ctxDone'
      BY <1>0 DEF Calm
    <2>2. CASE Hard(e1)
      BY <1>3, <2>2
    <2>3. CASE ~Hard(e1)
      BY <1>4, <2>1, <2>3 DEF Cancelled, RelayInv, CalmInv
    <2> QED
      BY <2>2, <2>3
  <1> QED
    BY <1>0, <1>4, <1>5, <1>6, HandlerKeeps, SMTT(60) DEF HandlerStep

\* The end of a Close: the closing has begun before.
LEMMA ClosesKeeps == ASSUME RelayInv, Closes PROVE RelayInv'
  <1>0. /\ UNCHANGED <<client, remote, up, down, errC, ctxDone, kind>>
        /\ main.pc \in {"teardown", "closing"} /\ CloseBoth
    BY DEF Closes
  <1>1. Cancelled
    BY <1>0 DEF Cancelled
  <1>2. Calm => down.pc \in {"off", "done"}
    BY <1>1 DEF RelayInv, CalmInv
  <1>3. /\ main' \in Handlers
        /\ main'.pc = IF main.pc = "closing" THEN "returned" ELSE IF ctxDone THEN "closing" ELSE "second"
    BY <1>0 DEF Closes, AfterFirst, RelayInv, Typed, Handlers
  <1>4. main.pc = "teardown" => down.pc # "off" /\ ~kind.tun
    BY DEF RelayInv, ResultsInv
  <1> QED
    BY <1>0, <1>2, <1>3, <1>4, HandlerKeeps, SMTT(60) DEF HandlerStep

LEMMA SecondKeeps == ASSUME RelayInv, Second PROVE RelayInv'
  <1>0. /\ UNCHANGED <<client, remote, up, down, errC, ctxDone, kind>> /\ main.pc = "second" /\ Return
        /\ Len(errC) = 2 \/ ctxDone
    BY DEF Second
  <1>1. ~kind.tun
    BY <1>0, SMTT(60) DEF RelayInv, ResultsInv
  <1>2. Len(errC) = 2 => errC \in {<<"up", "down">>, <<"down", "up">>}
    <2>1. errC \in {<<>>, <<"up">>, <<"down">>, <<"up", "down">>, <<"down", "up">>}
      BY DEF RelayInv, ResultsInv
    <2>2. Len(<<>>) # 2 /\ Len(<<"up">>) # 2 /\ Len(<<"down">>) # 2
      BY Tuples
    <2> QED
      BY <2>1, <2>2, ZenonT(60)
  <1>3. Calm => down.pc = "done"
    BY <1>0, <1>1, <1>2 DEF RelayInv, ResultsInv, Calm
  <1> QED
    BY <1>0, <1>3, ReturnStep, HandlerKeeps

LEMMA TunWaitsKeeps == ASSUME RelayInv, TunWaits PROVE RelayInv'
  BY ReturnStep, HandlerKeeps DEF TunWaits

LEMMA RelayInvNext == RelayInv /\ [RelayNext]_relayVars => RelayInv'
  <1> SUFFICES ASSUME RelayInv, [RelayNext]_relayVars PROVE RelayInv'
    OBVIOUS
  <1>1. CASE Main
    BY <1>1, ReplyKeeps, ConnectKeeps, FirstKeeps, SecondKeeps, TunWaitsKeeps, ClosesKeeps DEF Main
  <1>2. CASE Copy
    BY <1>2, UpKeeps, DownKeeps DEF Copy
  <1>3. CASE Peers
    BY <1>3, PeersKeep
  <1>4. CASE UNCHANGED relayVars
    <2>1. Typed' /\ ResultsInv'
      BY <1>4 DEF RelayInv, Typed, ResultsInv, relayVars
    <2>2. CalmInv'
      BY <1>4, Zenon DEF RelayInv, CalmInv, Calm, Cancelled, relayVars
    <2> QED
      BY <2>1, <2>2, SMTT(60) DEF RelayInv
  <1> QED
    BY <1>1, <1>2, <1>3, <1>4, PickKeeps DEF RelayNext

\* Whatever the peers send and in whichever order the two directions end: when the
\* downstream copy of ProxyTCPOverOutlineWS or tunHandleTCP has ended in a flow that
\* nobody broke or cancelled, the client has got everything the remote sent.
THEOREM NothingLost == RelaySpec => []NoLoss
  <1>1. RelayInv => NoLoss
    BY DEF RelayInv, CalmInv, Calm, NoLoss
  <1> QED
    BY <1>1, RelayInvInit, RelayInvNext, PTL DEF RelaySpec
=============================================================================
