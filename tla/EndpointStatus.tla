---------------------------- MODULE EndpointStatus ----------------------------
(***************************************************************************)
(* What the health checker promises the rest of the load balancer about an *)
(* endpoint: a health bit, and a cooldown that only a failure report       *)
(* starts.  HealthCheck implements this specification; Selection and       *)
(* WarmStandby read the two variables and rely on nothing else.            *)
(*                                                                         *)
(* cooldown[e] is the number of ticks left; -1 stands for a deadline in    *)
(* the past and for the zero time.                                         *)
(***************************************************************************)
EXTENDS Integers

CONSTANTS Endpoint, Cooldown

ASSUME CooldownAssumption == Cooldown \in Nat \ {0}

VARIABLES healthy, cooldown

statusVars == <<healthy, cooldown>>

StatusInit ==
  /\ healthy \in {[e \in Endpoint |-> FALSE], [e \in Endpoint |-> TRUE]}
  /\ cooldown = [e \in Endpoint |-> -1]

\* A check ends and leaves the endpoint healthy: its cooldown is lifted.
Admit(e) ==
  /\ healthy' = [healthy EXCEPT ![e] = TRUE]
  /\ cooldown' = [cooldown EXCEPT ![e] = -1]

\* A check ends and leaves the endpoint unhealthy.
Demote(e) ==
  /\ healthy' = [healthy EXCEPT ![e] = FALSE]
  /\ UNCHANGED cooldown

\* A flow reports a failure.
Report(e) ==
  /\ healthy' = [healthy EXCEPT ![e] = FALSE]
  /\ cooldown' = [cooldown EXCEPT ![e] = Cooldown]

CountDown(n, floor) == IF n > floor THEN n - 1 ELSE floor

Elapse ==
  /\ cooldown' = [e \in Endpoint |-> CountDown(cooldown[e], -1)]
  /\ UNCHANGED healthy

StatusNext == Elapse \/ \E e \in Endpoint : Admit(e) \/ Demote(e) \/ Report(e)

StatusSpec == StatusInit /\ [][StatusNext]_statusVars

\* The candidate filter of pickBestCandidateByEndpoint and pickTopN.
Usable(e) == healthy[e] /\ ~(cooldown[e] > 0)
=============================================================================
