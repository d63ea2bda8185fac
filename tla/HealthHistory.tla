---------------------------- MODULE HealthHistory ---------------------------
(***************************************************************************)
(* The health checker with a history variable: for each port, the failed   *)
(* dials begun since it was last registered or last found healthy.  It     *)
(* says what the verdicts are worth, in spite of a port that is removed    *)
(* and added again while the dial of its former registration is under way. *)
(***************************************************************************)
EXTENDS HealthChecker

VARIABLE failedDials    \* history; saturates at UnhealthyAfter

hhVars == <<up, health, loop, queue, probe, stopped, failedDials>>

DialBegun(p)  == probe = NoProbe /\ probe'.port = p
Recovered(p)  == probe.port = p /\ probe.ok /\ probe' = NoProbe
Registered(p) == p \in DOMAIN health' \ DOMAIN health

Tally(p) ==
    IF Registered(p) \/ Recovered(p) THEN 0
    ELSE IF DialBegun(p) /\ ~probe'.ok /\ failedDials[p] < UnhealthyAfter
         THEN failedDials[p] + 1
         ELSE failedDials[p]

HHInit == Init /\ failedDials = [p \in Ports |-> 0]
HHNext == Next /\ failedDials' = [p \in Ports |-> Tally(p)]

HHFairness == WF_hhVars(HHNext /\ LoopStep) /\ SF_hhVars(HHNext /\ SeeDone)

HHSpec == HHInit /\ [][HHNext]_hhVars /\ HHFairness
-----------------------------------------------------------------------------
(* A registered backend is condemned on evidence of its own: at least all  *)
(* but one of the UnhealthyAfter failed dials were begun after its present *)
(* registration and after its last recovery.  The one exception is the     *)
(* dial that was under way when the port was removed and added again, for  *)
(* checkAll looks the port up by number only.                              *)
CondemnedOnEvidence ==
    \A p \in DOMAIN health :
        ~health[p].healthy => failedDials[p] >= UnhealthyAfter - 1

Watched(p) == p \in DOMAIN health /\ loop # "off" /\ ~stopped

(* A registered backend that stays down is eventually and for good held    *)
(* unhealthy, and one that stays up healthy: whatever the owner does with  *)
(* the other ports meanwhile, and without giving up on a condemned one.    *)
ChangeIsNoticed ==
    \A p \in Ports :
        /\ <>[](Watched(p) /\ p \notin up) => <>[](~IsHealthy(p))
        /\ <>[](Watched(p) /\ p \in up) => <>[]IsHealthy(p)
=============================================================================
