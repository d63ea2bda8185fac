---------------------------- MODULE HealthChecker ---------------------------
(***************************************************************************)
(* The TCP health checker of one listener (internal/proxy/healthcheck.go). *)
(*                                                                         *)
(* One goroutine, loop, sweeps the registered ports: it copies the ports   *)
(* under the lock, then dials each of them WITHOUT the lock, and after     *)
(* each dial takes the lock again, looks the port up and records the       *)
(* verdict.  The owner adds and removes ports at any time between.         *)
(***************************************************************************)
EXTENDS Naturals, FiniteSets

CONSTANTS
    Ports,           \* backend ports
    NoPort,          \* no port is being dialled
    UnhealthyAfter   \* config.UnhealthyAfter: consecutive failures tolerated

ASSUME UnhealthyAfterAssumption == UnhealthyAfter \in Nat \ {0}
ASSUME NoPortAssumption == NoPort \notin Ports

VARIABLES
    up,       \* environment: the ports on which a backend accepts connections
    health,   \* hc.backends: a partial function from ports to their health
    loop,     \* the goroutine: "off", "first", "waiting", "sweeping", "ended"
    queue,    \* the ports of the running sweep not yet dialled
    probe,    \* the dial whose verdict is not yet recorded
    stopped   \* hc.done is closed

hcVars == <<up, health, loop, queue, probe, stopped>>

(* ConsecFails only matters up to the threshold, where it saturates here.  *)
BackendHealth == [healthy : BOOLEAN, fails : 0..UnhealthyAfter]
Probe         == [port : Ports \cup {NoPort}, ok : BOOLEAN]
NoProbe       == [port |-> NoPort, ok |-> FALSE]

(* The types of the checker's variables.                                   *)
TypeOK ==
    /\ up \subseteq Ports
    /\ DOMAIN health \subseteq Ports
    /\ health \in [DOMAIN health -> BackendHealth]
    /\ loop \in {"off", "first", "waiting", "sweeping", "ended"}
    /\ queue \subseteq Ports
    /\ probe \in Probe
    /\ stopped \in BOOLEAN

Init ==
    /\ up \in SUBSET Ports
    /\ health = [p \in {} |-> [healthy |-> TRUE, fails |-> 0]]
    /\ loop = "off"
    /\ queue = {}
    /\ probe = NoProbe
    /\ stopped = FALSE

(* Unknown ports are considered healthy.                                   *)
IsHealthy(p) == p \in DOMAIN health => health[p].healthy

(***************************************************************************)
(* What the owner does to the map, as the map's next value.                *)
(***************************************************************************)
Added(p) ==
    [q \in DOMAIN health \cup {p} |->
        IF q \in DOMAIN health THEN health[q] ELSE [healthy |-> TRUE, fails |-> 0]]

Removed(p) == [q \in DOMAIN health \ {p} |-> health[q]]

(* Verdicts gone wrong: one failure too early, failures that do not add    *)
(* up, and a backend that is never forgiven.                               *)
JudgedEarly(bh, ok) ==
    LET fails == IF bh.fails < UnhealthyAfter THEN bh.fails + 1 ELSE UnhealthyAfter
    IN  IF ok THEN [healthy |-> TRUE, fails |-> 0]
        ELSE [healthy |-> bh.healthy /\ fails < UnhealthyAfter - 1, fails |-> fails]

JudgedAfresh(bh, ok) ==
    IF ok THEN [healthy |-> TRUE, fails |-> 0]
    ELSE [healthy |-> bh.healthy /\ 1 < UnhealthyAfter, fails |-> 1]

JudgedForGood(bh, ok) ==
    LET fails == IF bh.fails < UnhealthyAfter THEN bh.fails + 1 ELSE UnhealthyAfter
    IN  IF ok THEN [healthy |-> bh.healthy, fails |-> 0]
        ELSE [healthy |-> bh.healthy /\ fails < UnhealthyAfter, fails |-> fails]

(* One dial's verdict on a registered port.                                *)
Judged(bh, ok) ==
    LET fails == IF bh.fails < UnhealthyAfter THEN bh.fails + 1 ELSE UnhealthyAfter
    IN  IF ok THEN [healthy |-> TRUE, fails |-> 0]
        ELSE [healthy |-> bh.healthy /\ fails < UnhealthyAfter, fails |-> fails]

AddBackend(p) ==
    /\ health' = Added(p)
    /\ UNCHANGED <<up, loop, queue, probe, stopped>>

RemoveBackend(p) ==
    /\ health' = Removed(p)
    /\ UNCHANGED <<up, loop, queue, probe, stopped>>

(***************************************************************************)
(* The goroutine.                                                          *)
(***************************************************************************)
Start ==
    /\ loop = "off"
    /\ loop' = "first"
    /\ UNCHANGED <<up, health, queue, probe, stopped>>

Stop ==
    /\ stopped' = TRUE
    /\ UNCHANGED <<up, health, loop, queue, probe>>

(* checkAll copies the registered ports: at once when the goroutine starts *)
(* and at every tick.  A tick and a closed done channel are chosen between *)
(* at random, so a stopped checker may sweep once more.                    *)
BeginSweep ==
    /\ loop \in {"first", "waiting"}
    /\ loop' = "sweeping"
    /\ queue' = DOMAIN health
    /\ UNCHANGED <<up, health, probe, stopped>>

(* checkBackend: the dial, whose outcome is what the port does now.  Go    *)
(* iterates over the map in an unspecified order.                          *)
Dial(p) ==
    /\ loop = "sweeping"
    /\ probe = NoProbe
    /\ p \in queue
    /\ probe' = [port |-> p, ok |-> p \in up]
    /\ queue' = queue \ {p}
    /\ UNCHANGED <<up, health, loop, stopped>>

(* The lock is taken again; a port removed meanwhile is skipped.           *)
Record ==
    /\ probe # NoProbe
    /\ health' = [q \in DOMAIN health |->
                    IF q = probe.port THEN Judged(health[q], probe.ok) ELSE health[q]]
    /\ probe' = NoProbe
    /\ UNCHANGED <<up, loop, queue, stopped>>

EndSweep ==
    /\ loop = "sweeping"
    /\ queue = {}
    /\ probe = NoProbe
    /\ loop' = "waiting"
    /\ UNCHANGED <<up, health, queue, probe, stopped>>

SeeDone ==
    /\ loop = "waiting"
    /\ stopped
    /\ loop' = "ended"
    /\ UNCHANGED <<up, health, queue, probe, stopped>>

LoopStep ==
    \/ BeginSweep
    \/ \E p \in Ports : Dial(p)
    \/ Record
    \/ EndSweep
    \/ SeeDone

(* The backends come up and go down by themselves.                         *)
Flip(p) ==
    /\ up' = IF p \in up THEN up \ {p} ELSE up \cup {p}
    /\ UNCHANGED <<health, loop, queue, probe, stopped>>

Next ==
    \/ \E p \in Ports : AddBackend(p) \/ RemoveBackend(p) \/ Flip(p)
    \/ Start
    \/ Stop
    \/ LoopStep

(* A dial has a timeout and the ticker ticks, so the goroutine never rests *)
(* for ever while it has a step to take; and a select that finds both a    *)
(* tick and the closed done channel ready does not choose the tick for     *)
(* ever, since Go chooses uniformly.                                       *)
Fairness == WF_hcVars(LoopStep) /\ SF_hcVars(SeeDone)

Spec == Init /\ [][Next]_hcVars /\ Fairness
=============================================================================
