-------------------------- MODULE HealthHistoryProofs -----------------------
(***************************************************************************)
(* Theorems about the health checker alone, for every set of ports and     *)
(* every threshold: a backend is held unhealthy only after the failed      *)
(* dials that CondemnedOnEvidence asks for, whatever is registered,        *)
(* removed and registered again while a dial is under way.                 *)
(***************************************************************************)
EXTENDS HealthHistory, TLAPS

USE UnhealthyAfterAssumption, NoPortAssumption

Verdicts == [healthy : BOOLEAN, fails : 0..UnhealthyAfter]

-----------------------------------------------------------------------------
(* The checker's types.                                                    *)

(* A verdict has the type of one; a failed dial is counted, up to the      *)
(* threshold, and condemns nobody before it.                               *)
LEMMA JudgedFacts ==
    ASSUME NEW bh \in Verdicts, NEW ok \in BOOLEAN
    PROVE  /\ Judged(bh, ok) \in Verdicts
           /\ ~ok => /\ Judged(bh, ok).fails <= bh.fails + 1
                     /\ ~Judged(bh, ok).healthy
                            => ~bh.healthy \/ Judged(bh, ok).fails = UnhealthyAfter
                     /\ bh.fails = UnhealthyAfter => Judged(bh, ok).fails = UnhealthyAfter
BY DEF Judged, Verdicts

(* A checker starts with nothing registered.                               *)
LEMMA TypeInitially == Init => TypeOK
<1> SUFFICES ASSUME Init PROVE TypeOK
    OBVIOUS
<1>1. DOMAIN health = {} /\ health \in [{} -> BackendHealth]
    BY DEF Init
<1>2. NoProbe \in Probe
    BY DEF NoProbe, Probe
<1>3. QED BY <1>1, <1>2 DEF Init, TypeOK

(* Every step keeps the types.                                             *)
LEMMA TypeStep == TypeOK /\ [Next]_hcVars => TypeOK'
<1> SUFFICES ASSUME TypeOK, [Next]_hcVars PROVE TypeOK'
    OBVIOUS
<1> USE DEF TypeOK, BackendHealth, Probe, NoProbe
<1>1. ASSUME NEW p \in Ports, AddBackend(p) PROVE TypeOK'
    BY <1>1 DEF AddBackend, Added
<1>2. ASSUME NEW p \in Ports, RemoveBackend(p) PROVE TypeOK'
    BY <1>2 DEF RemoveBackend, Removed
<1>3. ASSUME NEW p \in Ports, Flip(p) PROVE TypeOK'
    BY <1>3 DEF Flip
<1>4. CASE Start \/ Stop \/ BeginSweep \/ EndSweep \/ SeeDone
    BY <1>4 DEF Start, Stop, BeginSweep, EndSweep, SeeDone
<1>5. ASSUME NEW p \in Ports, Dial(p) PROVE TypeOK'
    <2>1. probe' \in Probe
        BY <1>5 DEF Dial
    <2>2. queue' \subseteq Ports
        BY <1>5 DEF Dial
    <2>3. QED BY <1>5, <2>1, <2>2 DEF Dial
<1>6. CASE Record
    <2>1. \A q \in DOMAIN health : Judged(health[q], probe.ok) \in Verdicts
        BY JudgedFacts DEF Verdicts
    <2>2. DOMAIN health' = DOMAIN health /\ health' \in [DOMAIN health' -> BackendHealth]
        BY <1>6, <2>1 DEF Record, Verdicts
    <2>3. QED BY <1>6, <2>2 DEF Record
<1>7. CASE UNCHANGED hcVars
    BY <1>7 DEF hcVars
<1>8. QED
    BY <1>1, <1>2, <1>3, <1>4, <1>5, <1>6, <1>7 DEF Next, LoopStep
-----------------------------------------------------------------------------
(* The evidence.                                                           *)

(* A failed dial of the port whose verdict is not yet recorded.            *)
Pending(p) == IF probe.port = p /\ ~probe.ok THEN 1 ELSE 0

(* The failures counted against a registered port, with the one that is    *)
(* about to be, exceed the failed dials begun since its registration or    *)
(* recovery by one at most, and one that is held unhealthy has them all.   *)
Counted(p) ==
    /\ ~health[p].healthy => health[p].fails = UnhealthyAfter
    /\ health[p].fails + Pending(p) <= failedDials[p] + 1

EvidencePart ==
    /\ TypeOK
    /\ failedDials \in [Ports -> 0..UnhealthyAfter]
    /\ \A p \in DOMAIN health : Counted(p)

(* With nothing registered there is nothing to be proved.                  *)
LEMMA EvidenceInitially == HHInit => EvidencePart
BY TypeInitially DEF HHInit, Init, EvidencePart

(* No step counts more against a port than dials of it have failed.        *)
LEMMA EvidenceStep == EvidencePart /\ [HHNext]_hhVars => EvidencePart'
<1> SUFFICES ASSUME EvidencePart, HHNext PROVE EvidencePart'
    BY DEF hhVars, hcVars, EvidencePart, TypeOK, Counted, Pending
<1>1. TypeOK /\ TypeOK'
    BY TypeStep DEF EvidencePart, HHNext
<1>2. failedDials' \in [Ports -> 0..UnhealthyAfter]
    BY DEF HHNext, EvidencePart, Tally
<1>3. ASSUME NEW p \in Ports, p \in DOMAIN health'
      PROVE  Counted(p)'
    <2> DEFINE fd == failedDials[p]
               bh == health[p]
    <2>1. /\ failedDials'[p] = Tally(p)
          /\ fd \in 0..UnhealthyAfter
          /\ health'[p] \in Verdicts
          /\ p \in DOMAIN health => Counted(p) /\ bh \in Verdicts
        BY <1>1, <1>3 DEF HHNext, EvidencePart, TypeOK, BackendHealth, Verdicts
    <2>2. probe \in Probe /\ probe' \in Probe /\ p # NoPort
        BY <1>1 DEF TypeOK
    <2>3. ASSUME NEW q \in Ports, AddBackend(q) PROVE Counted(p)'
        <3>1. probe' = probe /\ ~DialBegun(p) /\ ~Recovered(p)
            BY <2>3, <2>2 DEF AddBackend, DialBegun, Recovered, NoProbe
        <3>2. CASE p \in DOMAIN health
            BY <2>1, <2>3, <3>1, <3>2 DEF AddBackend, Added, Registered, Tally, Counted, Pending
        <3>3. CASE p \notin DOMAIN health
            BY <1>3, <2>1, <2>3, <3>1, <3>3
               DEF AddBackend, Added, Registered, Tally, Counted, Pending
        <3>4. QED BY <3>2, <3>3
    <2>4. ASSUME NEW q \in Ports, RemoveBackend(q) PROVE Counted(p)'
        <3>1. /\ probe' = probe /\ ~DialBegun(p) /\ ~Recovered(p)
              /\ p \in DOMAIN health /\ health'[p] = bh
            BY <1>3, <2>4, <2>2 DEF RemoveBackend, Removed, DialBegun, Recovered, NoProbe
        <3>2. QED BY <2>1, <3>1 DEF Registered, Tally, Counted, Pending
    <2>5. ASSUME NEW q \in Ports, Dial(q) PROVE Counted(p)'
        <3>1. /\ p \in DOMAIN health /\ health' = health /\ ~Registered(p)
              /\ probe = NoProbe /\ probe'.port = q
            BY <1>3, <2>5 DEF Dial, Registered
        <3>2. ~Recovered(p) /\ Pending(p) = 0
            BY <2>2, <3>1 DEF Recovered, NoProbe, Pending
        <3>3. CASE q = p
            BY <2>1, <2>2, <3>1, <3>2, <3>3
               DEF Tally, DialBegun, Counted, Pending, Verdicts, Probe
        <3>4. CASE q # p
            BY <2>1, <3>1, <3>2, <3>4 DEF Tally, DialBegun, Counted, Pending
        <3>5. QED BY <3>3, <3>4
    <2>6. CASE Record
        <3>1. /\ p \in DOMAIN health /\ ~Registered(p) /\ probe' = NoProbe
              /\ health'[p] = IF p = probe.port THEN Judged(bh, probe.ok) ELSE bh
              /\ ~DialBegun(p)
            BY <1>3, <2>6 DEF Record, Registered, DialBegun
        <3>2. Pending(p)' = 0
            BY <2>2, <3>1 DEF Pending, NoProbe
        <3>3. CASE probe.port = p /\ probe.ok
            <4>1. failedDials'[p] = 0
                BY <2>1, <3>1, <3>3 DEF Tally, Recovered
            <4>2. Judged(bh, TRUE) = [healthy |-> TRUE, fails |-> 0]
                BY DEF Judged
            <4>3. health'[p] = [healthy |-> TRUE, fails |-> 0]
                BY <2>2, <3>1, <3>3, <4>2 DEF Probe
            <4>4. health'[p].healthy /\ health'[p].fails + Pending(p)' <= failedDials'[p] + 1
                BY <3>2, <4>1, <4>3
            <4>5. QED BY <4>4 DEF Counted
        <3>4. CASE probe.port = p /\ ~probe.ok
            <4>1. failedDials'[p] = fd /\ Pending(p) = 1
                BY <2>1, <3>1, <3>4 DEF Tally, Recovered, Pending
            <4>2. /\ Judged(bh, FALSE).fails <= bh.fails + 1
                  /\ ~Judged(bh, FALSE).healthy
                        => ~bh.healthy \/ Judged(bh, FALSE).fails = UnhealthyAfter
                  /\ bh.fails = UnhealthyAfter
                        => Judged(bh, FALSE).fails = UnhealthyAfter
                BY <2>1, <3>1, JudgedFacts
            <4>3. health'[p] = Judged(bh, FALSE)
                BY <2>2, <3>1, <3>4 DEF Probe
            <4>4. (~health[p].healthy => bh.fails = UnhealthyAfter) /\ bh.fails + 1 <= fd + 1
                BY <2>1, <3>1, <4>1 DEF Counted
            <4>5. ~health'[p].healthy => health'[p].fails = UnhealthyAfter
                BY <4>2, <4>3, <4>4
            <4>6. health'[p].fails <= fd + 1
                <5>1. bh.fails \in Nat /\ health'[p].fails \in Nat /\ fd \in Nat
                    BY <2>1, <3>1 DEF Verdicts
                <5>2. health'[p].fails <= bh.fails + 1
                    BY <4>2, <4>3
                <5>3. QED BY <4>4, <5>1, <5>2
            <4>7. QED BY <2>1, <3>2, <4>1, <4>5, <4>6 DEF Counted, Verdicts
        <3>5. CASE probe.port # p
            BY <2>1, <3>1, <3>2, <3>5 DEF Counted, Tally, Recovered, Pending, Verdicts
        <3>6. QED BY <3>3, <3>4, <3>5
    <2>7. CASE Start \/ Stop \/ BeginSweep \/ EndSweep \/ SeeDone \/ (\E q \in Ports : Flip(q))
        <3>1. /\ health' = health /\ probe' = probe
              /\ ~DialBegun(p) /\ ~Recovered(p) /\ ~Registered(p)
            BY <2>2, <2>7 DEF Start, Stop, BeginSweep, EndSweep, SeeDone, Flip,
                DialBegun, Recovered, Registered, NoProbe
        <3>2. QED BY <1>3, <2>1, <3>1 DEF Tally, Counted, Pending
    <2>8. QED
        BY <2>3, <2>4, <2>5, <2>6, <2>7 DEF HHNext, Next, LoopStep
<1>4. QED BY <1>1, <1>2, <1>3 DEF EvidencePart, TypeOK

(* CondemnedOnEvidence: a registered backend that is held unhealthy has    *)
(* failed all but one of the dials it takes since it was registered and    *)
(* since it last recovered.                                                *)
THEOREM EvidenceCondemns == HHSpec => []CondemnedOnEvidence
<1>1. EvidencePart => CondemnedOnEvidence
    <2> SUFFICES ASSUME EvidencePart, NEW p \in DOMAIN health, ~health[p].healthy
                 PROVE  failedDials[p] >= UnhealthyAfter - 1
        BY DEF CondemnedOnEvidence
    <2>1. p \in Ports /\ failedDials[p] \in 0..UnhealthyAfter
        BY DEF EvidencePart, TypeOK
    <2>2. UnhealthyAfter + Pending(p) <= failedDials[p] + 1
        BY DEF EvidencePart, Counted
    <2>3. QED BY <2>1, <2>2 DEF Pending
<1>2. QED BY <1>1, EvidenceInitially, EvidenceStep, PTL DEF HHSpec
=============================================================================
