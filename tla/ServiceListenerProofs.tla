------------------------ MODULE ServiceListenerProofs -----------------------
(***************************************************************************)
(* Theorems about the listener, for every set of ports, connections,       *)
(* requests and stoppers and every threshold: it is type correct, its      *)
(* table stays sound, at most one backend is active and the listener       *)
(* implements the abstract switchboard (labels being unique), the checker  *)
(* watches exactly the listed backends, a pick is of listed backends, and  *)
(* the connection counters agree with the connections.                     *)
(***************************************************************************)
EXTENDS ServiceListener, BackendTableProofs, FiniteSetTheorems

-----------------------------------------------------------------------------
(* The list.  What a step can do to it, whatever else it does.             *)

ListStep ==
    \/ backends' = backends
    \/ \E r \in Requests : backends' = Enlist(backends, r)
    \/ \E p \in Ports : backends' = Delist(backends, p)
    \/ \E r \in Requests : backends' = Activate(backends, r.label)
    \/ \E r \in Requests : backends' = << EntryOf(r, TRUE) >>
    \/ backends' = << >>

(* Every step does to the list one of the things of ListStep.              *)
LEMMA StepOnList == [Next]_vars => ListStep
<1> SUFFICES ASSUME [Next]_vars PROVE ListStep
    OBVIOUS
<1>1. ASSUME NEW r \in Requests, AddBackend(r) PROVE ListStep
    BY <1>1 DEF AddBackend, ListStep
<1>2. ASSUME NEW r \in Requests, SetBackend(r) PROVE ListStep
    BY <1>2 DEF SetBackend, ListStep
<1>3. ASSUME NEW r \in Requests, SwitchBackend(r.label) PROVE ListStep
    BY <1>3 DEF SwitchBackend, ListStep
<1>4. ASSUME NEW p \in Ports, RemoveBackend(p) PROVE ListStep
    BY <1>4 DEF RemoveBackend, ListStep
<1>5. CASE ClearBackend
    BY <1>5 DEF ClearBackend, ListStep
<1>6. CASE Start \/ StartBlocked \/ AcceptFails \/ Checker
    BY <1>6 DEF Start, StartBlocked, AcceptFails, Checker, tableVars, ListStep
<1>7. ASSUME NEW c \in Conns, Accept(c) \/ ConnStep(c) \/ EndBridge(c)
      PROVE  ListStep
    BY <1>7 DEF Accept, ConnStep, EndBridge, BeginPick, AskPicks, AskPasses, AskNobody,
        Dial, Count, RecordConnect, Track, Untrack, RecordDisconnect, Uncount,
        tableVars, ListStep
<1>8. ASSUME NEW s \in Stoppers, StopStep(s) PROVE ListStep
    BY <1>8 DEF StopStep, TestDone, CloseDone, Shut, Poll, DrainTick, Deadline,
        tableVars, ListStep
<1>9. CASE UNCHANGED vars
    BY <1>9 DEF vars, tableVars, ListStep
<1>10. QED
    BY <1>1, <1>2, <1>3, <1>4, <1>5, <1>6, <1>7, <1>8, <1>9 DEF Next

TablePart == backends \in Seq(Entry) /\ TableSound

(* The empty list is sound.                                                *)
LEMMA TableInitially == Init => TablePart
BY DEF Init, TablePart, TableSound, Sound, DistinctPorts, SomeActive

(* The list that SetBackend leaves is sound and has one active entry.      *)
LEMMA SingleEntry ==
    ASSUME NEW r \in Requests
    PROVE  /\ << EntryOf(r, TRUE) >> \in Seq(Entry)
           /\ Sound(<< EntryOf(r, TRUE) >>)
           /\ AtMostOneActive(<< EntryOf(r, TRUE) >>)
           /\ PortsOf(<< EntryOf(r, TRUE) >>) = {r.port}
           /\ IsActive(<< EntryOf(r, TRUE) >>, r.port)
<1> DEFINE e == EntryOf(r, TRUE)
<1>1. e \in Entry /\ e.port = r.port /\ e.active
    BY RequestEntry DEF Entry
<1> HIDE DEF e
<1>2. << e >> \in Seq(Entry) /\ DOMAIN << e >> = {1} /\ << e >>[1] = e
    BY <1>1
<1>3. Sound(<< e >>) /\ AtMostOneActive(<< e >>)
    BY <1>1, <1>2 DEF Sound, DistinctPorts, SomeActive, ActiveAt, AtMostOneActive
<1>4. PortsOf(<< e >>) = {r.port} /\ IsActive(<< e >>, r.port)
    BY <1>1, <1>2 DEF PortsOf, IsActive
<1>5. QED BY <1>2, <1>3, <1>4 DEF e

(* No step makes a sound list unsound.                                     *)
LEMMA TableStep == TablePart /\ [Next]_vars => TablePart'
<1> SUFFICES ASSUME TablePart, ListStep PROVE TablePart'
    BY StepOnList
<1>1. backends \in Seq(EntriesOf(Requests)) /\ Sound(backends)
    BY DEF TablePart, TableSound, Entry
<1>2. CASE backends' = backends
    BY <1>1, <1>2 DEF TablePart, TableSound, Entry
<1>3. ASSUME NEW r \in Requests, backends' = Enlist(backends, r) PROVE TablePart'
    BY <1>1, <1>3, EnlistFacts DEF TablePart, TableSound, Entry
<1>4. ASSUME NEW p \in Ports, backends' = Delist(backends, p) PROVE TablePart'
    BY <1>1, <1>4, DelistFacts DEF TablePart, TableSound, Entry
<1>5. ASSUME NEW r \in Requests, backends' = Activate(backends, r.label) PROVE TablePart'
    BY <1>1, <1>5, ActivateFacts DEF TablePart, TableSound, Entry
<1>6. ASSUME NEW r \in Requests, backends' = << EntryOf(r, TRUE) >> PROVE TablePart'
    BY <1>6, SingleEntry DEF TablePart, TableSound
<1>7. CASE backends' = << >>
    BY <1>7 DEF TablePart, TableSound, Sound, DistinctPorts, SomeActive
<1>8. QED BY <1>2, <1>3, <1>4, <1>5, <1>6, <1>7 DEF ListStep

(* TableSound: however the list is changed, no port is listed twice and a  *)
(* list with entries has an active one.                                    *)
THEOREM TableStaysSound == SafeSpec => []TableSound
<1>1. TablePart => TableSound
    BY DEF TablePart
<1>2. QED BY <1>1, TableInitially, TableStep, PTL DEF SafeSpec
-----------------------------------------------------------------------------
(* One active backend, and the switchboard.                                *)

OnePart == TablePart /\ OneActive

(* The empty list has no two active entries.                               *)
LEMMA OneInitially == Init => OnePart
BY TableInitially DEF Init, OnePart, OneActive, AtMostOneActive, ActiveAt

(* No step makes a second entry active, the labels being unique.           *)
LEMMA OneStep == UniqueLabels /\ OnePart /\ [Next]_vars => OnePart'
<1> SUFFICES ASSUME UniqueLabels, OnePart, ListStep, TablePart' PROVE OneActive'
    BY StepOnList, TableStep DEF OnePart
<1>1. /\ backends \in Seq(EntriesOf(Requests))
      /\ Sound(backends)
      /\ AtMostOneActive(backends)
      /\ OneLabelEach(Requests)
    BY DEF OnePart, TablePart, TableSound, OneActive, Entry, UniqueLabels, OneLabelEach
<1>2. CASE backends' = backends
    BY <1>1, <1>2 DEF OneActive
<1>3. ASSUME NEW r \in Requests, backends' = Enlist(backends, r) PROVE OneActive'
    BY <1>1, <1>3, EnlistFacts DEF OneActive
<1>4. ASSUME NEW p \in Ports, backends' = Delist(backends, p) PROVE OneActive'
    BY <1>1, <1>4, DelistFacts DEF OneActive
<1>5. ASSUME NEW r \in Requests, backends' = Activate(backends, r.label) PROVE OneActive'
    BY <1>1, <1>5, ActivateFacts DEF OneActive
<1>6. ASSUME NEW r \in Requests, backends' = << EntryOf(r, TRUE) >> PROVE OneActive'
    BY <1>6, SingleEntry DEF OneActive
<1>7. CASE backends' = << >>
    BY <1>7 DEF OneActive, AtMostOneActive, ActiveAt
<1>8. QED BY <1>2, <1>3, <1>4, <1>5, <1>6, <1>7 DEF ListStep

(* OneActive: with labels of their own, never two backends are active.     *)
THEOREM NeverTwoActive == ASSUME UniqueLabels PROVE SafeSpec => []OneActive
<1>1. OnePart /\ [Next]_vars => OnePart'
    BY OneStep
<1>2. OnePart => OneActive
    BY DEF OnePart
<1>3. QED BY <1>1, <1>2, OneInitially, PTL DEF SafeSpec

(* Every change of the list is a step of the switchboard, or none.         *)
LEMMA SwitchboardStep ==
    ASSUME UniqueLabels, OnePart, [Next]_vars
    PROVE  [SB!Next]_<<PortsOf(backends), ActivePort(backends)>>
<1> DEFINE now  == backends
           next == backends'
<1>1. /\ backends \in Seq(EntriesOf(Requests))
      /\ Sound(backends)
      /\ AtMostOneActive(backends)
    BY DEF OnePart, TablePart, TableSound, OneActive, Entry
<1>2. /\ backends' \in Seq(EntriesOf(Requests))
      /\ Sound(backends')
      /\ AtMostOneActive(backends')
    BY OneStep DEF OnePart, TablePart, TableSound, OneActive, Entry
<1>3. ListStep
    BY StepOnList
<1>4. /\ now # << >> => IsActive(now, ActivePort(now)) /\ ActivePort(now) \in PortsOf(now)
      /\ next # << >> => IsActive(next, ActivePort(next)) /\ ActivePort(next) \in PortsOf(next)
      /\ now = << >> => ActivePort(now) = NoPort /\ PortsOf(now) = {}
      /\ next = << >> => ActivePort(next) = NoPort /\ PortsOf(next) = {}
    BY <1>1, <1>2, ActivePortFacts DEF PortsOf
<1>5. \A t \in {now, next} : PortsOf(t) = {} <=> t = << >>
    BY <1>4
<1>6. PortsOf(now) \subseteq Ports
    <2>1. \A e \in EntriesOf(Requests) : e.port \in Ports
        BY RequestsAssumption, RequestEntry DEF EntriesOf, EntryOf
    <2>2. QED BY <1>1, <2>1, LenProperties DEF PortsOf
<1>7. CASE next = now
    BY <1>7
<1>8. ASSUME NEW r \in Requests, next = Enlist(now, r)
      PROVE  SB!Register(r.port) \/ next = now
    <2>1. CASE r.port \in PortsOf(now)
        BY <1>8, <2>1 DEF Enlist
    <2>2. CASE r.port \notin PortsOf(now)
        <3>1. PortsOf(next) = PortsOf(now) \cup {r.port} /\ next # << >>
            BY <1>1, <1>8, EnlistFacts
        <3>2. ActivePort(next) = IF PortsOf(now) = {} THEN r.port ELSE ActivePort(now)
            <4>1. CASE now = << >>
                BY <1>4, <3>1, <4>1
            <4>2. CASE now # << >>
                <5>1. IsActive(next, ActivePort(now))
                    BY <1>1, <1>4, <1>8, <4>2, EnlistKeepsActive
                <5>2. QED BY <1>2, <1>5, <4>2, <5>1, ActivePortUnique
            <4>3. QED BY <4>1, <4>2
        <3>3. QED BY <2>2, <3>1, <3>2 DEF SB!Register
    <2>3. QED BY <2>1, <2>2
<1>9. ASSUME NEW p \in Ports, next = Delist(now, p)
      PROVE  SB!Unregister(p) \/ next = now
    <2>1. CASE p \notin PortsOf(now)
        BY <1>9, <2>1 DEF Delist
    <2>2. CASE p \in PortsOf(now)
        <3>1. PortsOf(next) = PortsOf(now) \ {p}
            BY <1>1, <1>9, DelistFacts
        <3>2. CASE p # ActivePort(now)
            <4>1. IsActive(next, ActivePort(now))
                BY <1>1, <1>4, <1>5, <1>9, <2>2, <3>2, DelistKeepsActive
            <4>2. ActivePort(next) = ActivePort(now)
                BY <1>2, <4>1, ActivePortUnique
            <4>3. QED BY <2>2, <3>1, <3>2, <4>2 DEF SB!Unregister
        <3>3. CASE p = ActivePort(now)
            BY <1>4, <1>5, <2>2, <3>1, <3>3 DEF SB!Unregister
        <3>4. QED BY <3>2, <3>3
    <2>3. QED BY <2>1, <2>2
<1>10. ASSUME NEW r \in Requests, next = Activate(now, r.label)
       PROVE  SB!Switch(ActivePort(next)) \/ next = now
    <2>1. PortsOf(next) = PortsOf(now)
        BY <1>1, <1>10, ActivateFacts
    <2>2. CASE now = << >>
        BY <1>4, <1>5, <2>1, <2>2
    <2>3. CASE now # << >>
        BY <1>4, <1>5, <2>1, <2>3 DEF SB!Switch
    <2>4. QED BY <2>2, <2>3
<1>11. ASSUME NEW r \in Requests, next = << EntryOf(r, TRUE) >>
       PROVE  SB!Replace(r.port)
    <2>1. PortsOf(next) = {r.port} /\ IsActive(next, r.port)
        BY <1>11, SingleEntry
    <2>2. ActivePort(next) = r.port
        BY <1>2, <2>1, ActivePortUnique
    <2>3. QED BY <2>1, <2>2 DEF SB!Replace
<1>12. CASE next = << >>
    BY <1>4, <1>12 DEF SB!Next, SB!Clear
<1>13. \A r \in Requests : r.port \in Ports
    BY RequestsAssumption
<1>14. ASSUME NEW r \in Requests, next = Activate(now, r.label), next # now
       PROVE  ActivePort(next) \in Ports
    BY <1>4, <1>5, <1>6, <1>10, <1>14 DEF SB!Switch
<1>15. QED
    BY <1>3, <1>7, <1>8, <1>9, <1>10, <1>11, <1>12, <1>13, <1>14 DEF ListStep, SB!Next

(* SwitchboardSpec: with labels of their own, the listener implements the  *)
(* abstract switchboard; whatever connections, checker and stoppers do,    *)
(* the current backend moves only as the switchboard allows.               *)
THEOREM ImplementsSwitchboard == ASSUME UniqueLabels PROVE SafeSpec => SwitchboardSpec
<1>1. Init => SB!Init
    <2>1. SUFFICES ASSUME backends = << >> PROVE SB!Init
        BY DEF Init
    <2>2. backends \in Seq(EntriesOf(Requests)) /\ Sound(backends)
        BY <2>1 DEF Sound, DistinctPorts, SomeActive
    <2>3. PortsOf(backends) = {}
        BY <2>1 DEF PortsOf
    <2>4. ActivePort(backends) = NoPort
        BY <2>1, <2>2, ActivePortFacts
    <2>5. QED BY <2>3, <2>4 DEF SB!Init
<1>2. OnePart /\ [Next]_vars => OnePart'
    BY OneStep
<1>3. OnePart /\ [Next]_vars => [SB!Next]_<<PortsOf(backends), ActivePort(backends)>>
    BY SwitchboardStep
<1>4. QED BY <1>1, <1>2, <1>3, OneInitially, PTL DEF SafeSpec, SwitchboardSpec, SB!Spec
-----------------------------------------------------------------------------
(* The health checker's variables.                                         *)

(* The checker's variables have their types at first ...                   *)
LEMMA HealthInitially == Init => HC!TypeOK
<1> SUFFICES ASSUME HC!Init PROVE HC!TypeOK
    BY DEF Init
<1>1. DOMAIN health = {} /\ health \in [{} -> HC!BackendHealth]
    BY DEF HC!Init
<1>2. HC!NoProbe \in HC!Probe
    BY DEF HC!NoProbe, HC!Probe
<1>3. QED BY <1>1, <1>2 DEF HC!Init, HC!TypeOK

(* ... and after every step of the listener.                               *)
LEMMA HealthSteps ==
    ASSUME HC!TypeOK, [Next]_vars
    PROVE  HC!TypeOK'
<1> USE ThresholdAssumption, RequestsAssumption DEF HC!TypeOK
<1>1. /\ [healthy |-> TRUE, fails |-> 0] \in HC!BackendHealth
      /\ \A bh \in HC!BackendHealth, ok \in BOOLEAN : HC!Judged(bh, ok) \in HC!BackendHealth
    BY DEF HC!BackendHealth, HC!Judged
<1>2. ASSUME NEW p \in Ports, HC!AddBackend(p) PROVE HC!TypeOK'
    BY <1>1, <1>2 DEF HC!AddBackend, HC!Added
<1>3. ASSUME NEW p \in Ports, HC!RemoveBackend(p) PROVE HC!TypeOK'
    BY <1>3 DEF HC!RemoveBackend, HC!Removed
<1>4. CASE HC!Start
    BY <1>4 DEF HC!Start
<1>5. CASE HC!Stop
    BY <1>5 DEF HC!Stop
<1>6. CASE HC!LoopStep
    <2>1. CASE HC!BeginSweep
        BY <2>1 DEF HC!BeginSweep
    <2>2. ASSUME NEW p \in Ports, HC!Dial(p) PROVE HC!TypeOK'
        BY <2>2 DEF HC!Dial, HC!Probe
    <2>3. CASE HC!Record
        <3>1. probe.ok \in BOOLEAN
            BY DEF HC!Probe
        <3>2. health' \in [DOMAIN health -> HC!BackendHealth]
            BY <1>1, <2>3, <3>1 DEF HC!Record
        <3>3. DOMAIN health' = DOMAIN health
            BY <3>2
        <3>4. HC!NoProbe \in HC!Probe
            BY DEF HC!NoProbe, HC!Probe
        <3>5. QED BY <2>3, <3>2, <3>3, <3>4 DEF HC!Record
    <2>4. CASE HC!EndSweep
        BY <2>4 DEF HC!EndSweep
    <2>5. CASE HC!SeeDone
        BY <2>5 DEF HC!SeeDone
    <2>6. QED BY <1>6, <2>1, <2>2, <2>3, <2>4, <2>5 DEF HC!LoopStep
<1>7. ASSUME NEW p \in Ports, HC!Flip(p) PROVE HC!TypeOK'
    BY <1>7 DEF HC!Flip
<1>8. CASE UNCHANGED healthVars
    BY <1>8 DEF healthVars
<1>9. ASSUME NEW r \in Requests, AddBackend(r) PROVE HC!TypeOK'
    BY <1>2, <1>8, <1>9 DEF AddBackend
<1>10. ASSUME NEW p \in Ports, RemoveBackend(p) PROVE HC!TypeOK'
    BY <1>3, <1>8, <1>10 DEF RemoveBackend
<1>11. ASSUME NEW r \in Requests, SetBackend(r) \/ SwitchBackend(r.label) PROVE HC!TypeOK'
    BY <1>8, <1>11 DEF SetBackend, SwitchBackend
<1>12. CASE ClearBackend \/ StartBlocked \/ AcceptFails
    BY <1>8, <1>12 DEF ClearBackend, StartBlocked, AcceptFails
<1>13. CASE Start
    BY <1>4, <1>8, <1>13 DEF Start
<1>14. ASSUME NEW c \in Conns, Accept(c) \/ ConnStep(c) \/ EndBridge(c) PROVE HC!TypeOK'
    BY <1>8, <1>14 DEF Accept, ConnStep, EndBridge, BeginPick, AskPicks, AskPasses,
        AskNobody, Dial, Count, RecordConnect, Track, Untrack, RecordDisconnect, Uncount
<1>15. ASSUME NEW s \in Stoppers, StopStep(s) PROVE HC!TypeOK'
    BY <1>5, <1>8, <1>15 DEF StopStep, TestDone, CloseDone, Shut, Poll, DrainTick, Deadline
<1>16. CASE Checker
    BY <1>6, <1>7, <1>16 DEF Checker
<1>17. CASE UNCHANGED vars
    BY <1>8, <1>17 DEF vars, healthVars
<1>18. QED
    BY <1>9, <1>10, <1>11, <1>12, <1>13, <1>14, <1>15, <1>16, <1>17 DEF Next
-----------------------------------------------------------------------------
(* The checker's map and the list.                                         *)

TracksPart == TablePart /\ HealthTracksTable

(* Checker and list begin empty ...                                        *)
LEMMA TracksInitially == Init => TracksPart
<1> SUFFICES ASSUME Init PROVE HealthTracksTable
    BY TableInitially DEF TracksPart
<1>1. DOMAIN health = {} /\ PortsOf(backends) = {}
    BY DEF Init, HC!Init, PortsOf
<1>2. QED BY <1>1 DEF HealthTracksTable

(* ... and change together: with every listed port that comes or goes, and *)
(* with no other.                                                          *)
LEMMA TracksStep == TracksPart /\ [Next]_vars => TracksPart'
<1> SUFFICES ASSUME TablePart, HealthTracksTable, HealthEnabled, ~Phase1, [Next]_vars
             PROVE  DOMAIN health' = PortsOf(backends')
    BY TableStep DEF TracksPart, HealthTracksTable
<1>1. /\ DOMAIN health = PortsOf(backends)
      /\ backends \in Seq(EntriesOf(Requests))
      /\ Sound(backends)
    BY DEF HealthTracksTable, TablePart, TableSound, Entry
<1> DEFINE Same == DOMAIN health' = DOMAIN health /\ backends' = backends
<1>2. Same => DOMAIN health' = PortsOf(backends')
    BY <1>1
<1>3. (backends' = backends /\ UNCHANGED healthVars) => Same
    BY DEF healthVars
<1>4. ASSUME NEW r \in Requests, AddBackend(r)
      PROVE  DOMAIN health' = PortsOf(backends')
    <2>1. PortsOf(backends') = PortsOf(backends) \cup {r.port}
        BY <1>1, <1>4, EnlistFacts DEF AddBackend
    <2>2. CASE r.port \in PortsOf(backends)
        BY <1>1, <1>4, <2>1, <2>2 DEF AddBackend, healthVars
    <2>3. CASE r.port \notin PortsOf(backends)
        BY <1>1, <1>4, <2>1, <2>3 DEF AddBackend, HC!AddBackend, HC!Added
    <2>4. QED BY <2>2, <2>3
<1>5. ASSUME NEW p \in Ports, RemoveBackend(p)
      PROVE  DOMAIN health' = PortsOf(backends')
    <2>1. PortsOf(backends') = PortsOf(backends) \ {p}
        BY <1>1, <1>5, DelistFacts DEF RemoveBackend
    <2>2. CASE p \notin PortsOf(backends)
        BY <1>1, <1>5, <2>1, <2>2 DEF RemoveBackend, healthVars
    <2>3. CASE p \in PortsOf(backends)
        BY <1>1, <1>5, <2>1, <2>3 DEF RemoveBackend, HC!RemoveBackend, HC!Removed
    <2>4. QED BY <2>2, <2>3
<1>6. ASSUME NEW r \in Requests, SwitchBackend(r.label)
      PROVE  DOMAIN health' = PortsOf(backends')
    <2>1. PortsOf(backends') = PortsOf(backends)
        BY <1>1, <1>6, ActivateFacts DEF SwitchBackend
    <2>2. QED BY <1>1, <1>6, <2>1 DEF SwitchBackend, healthVars
<1>7. ASSUME NEW r \in Requests, SetBackend(r) PROVE FALSE
    BY <1>7 DEF SetBackend
<1>8. CASE ClearBackend
    BY <1>8 DEF ClearBackend
<1>9. CASE Start \/ StartBlocked \/ AcceptFails
    BY <1>2, <1>3, <1>9 DEF Start, HC!Start, StartBlocked, AcceptFails, tableVars
<1>10. ASSUME NEW c \in Conns, Accept(c) \/ ConnStep(c) \/ EndBridge(c)
       PROVE  Same
    BY <1>3, <1>10 DEF Accept, ConnStep, EndBridge, BeginPick, AskPicks, AskPasses,
        AskNobody, Dial, Count, RecordConnect, Track, Untrack, RecordDisconnect, Uncount,
        tableVars
<1>11. ASSUME NEW s \in Stoppers, StopStep(s) PROVE Same
    BY <1>3, <1>11 DEF StopStep, TestDone, CloseDone, Shut, HC!Stop, Poll, DrainTick,
        Deadline, tableVars
<1>12. ASSUME Checker PROVE Same
    <2>1. backends' = backends
        BY <1>12 DEF Checker, tableVars
    <2>2. CASE HC!Record
        BY <2>1, <2>2 DEF HC!Record
    <2>3. CASE HC!LoopStep /\ ~HC!Record
        BY <2>1, <2>3 DEF HC!LoopStep, HC!BeginSweep, HC!Dial, HC!EndSweep, HC!SeeDone
    <2>4. CASE \E p \in Ports : HC!Flip(p)
        BY <2>1, <2>4 DEF HC!Flip
    <2>5. QED BY <1>12, <2>2, <2>3, <2>4 DEF Checker
<1>13. CASE UNCHANGED vars
    BY <1>2, <1>3, <1>13 DEF vars, tableVars
<1>14. QED
    BY <1>2, <1>4, <1>5, <1>6, <1>7, <1>8, <1>9, <1>10, <1>11, <1>12, <1>13 DEF Next

(* HealthTracksTable: without the Phase 1 calls the checker watches        *)
(* exactly the listed backends, however calls and sweeps interleave.       *)
THEOREM CheckerWatchesTable == SafeSpec => []HealthTracksTable
<1>1. TracksPart => HealthTracksTable
    BY DEF TracksPart
<1>2. QED BY <1>1, TracksInitially, TracksStep, PTL DEF SafeSpec
-----------------------------------------------------------------------------
(* The connections.                                                        *)

ConnTypes ==
    /\ at \in [Conns -> ConnStates]
    /\ todo \in [Conns -> Seq(Ports)]
    /\ target \in [Conns -> Ports \cup {NoPort}]
    /\ activeConns \in Int
    /\ connsSet \subseteq Conns
    /\ metrics \in [Ports -> [active : Int, total : Int]]

ConnPart == ConnTypes /\ PickKnown /\ ConnAccounting

(* No connection, and all counters zero.                                   *)
LEMMA ConnInitially == Init => ConnPart
<1> SUFFICES ASSUME Init PROVE ConnPart
    OBVIOUS
<1>1. [active |-> 0, total |-> 0] \in [active : Int, total : Int]
    OBVIOUS
<1>2. ConnTypes
    BY <1>1 DEF Init, ConnTypes, ConnStates
<1>3. \A c \in Conns : at[c] = "none"
    BY DEF Init
<1>4. PickKnown
    BY <1>3 DEF PickKnown, PastPick, Served, Recorded, Counted
<1>5. /\ Within(Counted) = {}
      /\ Within(Tracked) = {}
      /\ \A p \in Ports : WithinOn(p, Recorded) = {} /\ WithinOn(p, Served) = {}
    BY <1>3 DEF Within, WithinOn, Counted, Tracked, Recorded, Served
<1>6. \A p \in Ports : metrics[p].active = 0 /\ metrics[p].total = 0
    BY DEF Init
<1>7. activeConns = 0 /\ connsSet = {}
    BY DEF Init
<1>8. ConnAccounting
    BY <1>5, <1>6, <1>7, FS_EmptySet DEF ConnAccounting
<1>9. QED BY <1>2, <1>4, <1>8 DEF ConnPart

(* The sets that the counters count are finite.                            *)
LEMMA FiniteWithin ==
    /\ \A states : IsFiniteSet(Within(states))
    /\ \A p, states : IsFiniteSet(WithinOn(p, states))
<1>1. ASSUME NEW states PROVE IsFiniteSet(Within(states))
    BY ConnsAssumption, FS_Subset DEF Within
<1>2. ASSUME NEW p, NEW states PROVE IsFiniteSet(WithinOn(p, states))
    BY ConnsAssumption, FS_Subset DEF WithinOn
<1>3. QED BY <1>1, <1>2

(* The ports a pick may come to.                                           *)
LEMMA PickedPorts ==
    ASSUME TablePart
    PROVE  /\ PickOrder(backends) \in Seq(Ports)
           /\ ActivePort(backends) \in Ports \cup {NoPort}
<1>1. /\ backends \in Seq(EntriesOf(Requests))
      /\ Sound(backends)
    BY DEF TablePart, TableSound, Entry
<1>2. PortsOf(backends) \subseteq Ports
    <2>1. \A e \in EntriesOf(Requests) : e.port \in Ports
        BY RequestsAssumption, RequestEntry DEF EntriesOf, EntryOf
    <2>2. QED BY <1>1, <2>1, LenProperties DEF PortsOf
<1>3. PickOrder(backends) \in Seq(PortsOf(backends))
    BY <1>1, PickOrderFacts
<1>4. PickOrder(backends) \in Seq(Ports)
    BY <1>2, <1>3, SeqDef
<1>5. ActivePort(backends) \in Ports \cup {NoPort}
    BY <1>1, <1>2, ActivePortFacts
<1>6. QED BY <1>4, <1>5

(* One goroutine moves; the others stay where they are.                    *)
LEMMA Moved ==
    ASSUME ConnTypes, NEW c \in Conns, NEW s \in ConnStates, Goto(c, s)
    PROVE  /\ at' \in [Conns -> ConnStates]
           /\ at'[c] = s
           /\ \A d \in Conns : d # c => at'[d] = at[d]
BY DEF ConnTypes, Goto

(* A move before the connection is counted, or into a refusal.             *)
LEMMA QuietMove ==
    ASSUME ConnPart, NEW c \in Conns, NEW s \in ConnStates, Goto(c, s),
           at[c] \notin Served \cup Counted, s \notin Served \cup Counted,
           \A d \in Conns : d # c => target'[d] = target[d],
           UNCHANGED countVars
    PROVE  ConnAccounting'
<1>1. /\ at'[c] = s
      /\ \A d \in Conns : d # c => at'[d] = at[d]
    BY Moved DEF ConnPart
<1>2. Within(Counted)' = Within(Counted)
    BY <1>1 DEF Within
<1>3. Within(Tracked)' = Within(Tracked)
    BY <1>1 DEF Within, Tracked, Counted
<1>4. \A p \in Ports : WithinOn(p, Recorded)' = WithinOn(p, Recorded)
    BY <1>1 DEF WithinOn, Served
<1>5. \A p \in Ports : WithinOn(p, Served)' = WithinOn(p, Served)
    BY <1>1 DEF WithinOn
<1>6. QED BY <1>2, <1>3, <1>4, <1>5 DEF ConnPart, ConnAccounting, countVars

(* The steps up to the dial move a connection between states that no       *)
(* counter counts.                                                         *)
LEMMA QuietSteps ==
    ASSUME ConnPart, TablePart, NEW c \in Conns,
           Accept(c) \/ BeginPick(c) \/ AskPicks(c) \/ AskPasses(c) \/ AskNobody(c) \/ Dial(c)
    PROVE  ConnPart'
<1> USE DEF ConnPart
<1>1. /\ at \in [Conns -> ConnStates]
      /\ todo \in [Conns -> Seq(Ports)]
      /\ target \in [Conns -> Ports \cup {NoPort}]
    BY DEF ConnTypes
<1>2. {"accepted", "picking", "dialing", "dialed", "unavailable", "unreachable"} \subseteq ConnStates
    BY DEF ConnStates, Refused
<1>3. \A s \in {"none", "accepted", "picking", "dialing", "dialed", "unavailable", "unreachable"} :
          s \notin Served \cup Counted
    BY DEF Served, Recorded, Counted
<1>4. \A s \in {"none", "accepted", "picking", "unavailable"} : s \notin PastPick
    BY DEF PastPick, Served, Recorded, Counted
<1>5. CASE Accept(c)
    <2>1. Goto(c, "accepted") /\ at[c] = "none" /\ UNCHANGED <<todo, target, countVars>>
        BY <1>5 DEF Accept
    <2>2. ConnAccounting'
        BY <1>2, <1>3, <2>1, QuietMove
    <2>3. ConnTypes' /\ PickKnown'
        BY <1>2, <1>4, <2>1, Moved DEF ConnTypes, PickKnown, countVars
    <2>4. QED BY <2>2, <2>3
<1>6. CASE BeginPick(c)
    <2>1. at[c] = "accepted" /\ UNCHANGED countVars
        BY <1>6 DEF BeginPick
    <2>2. CASE HealthEnabled
        <3>1. /\ Goto(c, "picking")
              /\ todo' = [todo EXCEPT ![c] = PickOrder(backends)]
              /\ UNCHANGED target
            BY <1>6, <2>2 DEF BeginPick
        <3>2. ConnAccounting'
            BY <1>2, <1>3, <2>1, <3>1, QuietMove
        <3>3. todo' \in [Conns -> Seq(Ports)]
            BY <1>1, <3>1, PickedPorts
        <3>4. ConnTypes' /\ PickKnown'
            BY <1>2, <1>4, <2>1, <3>1, <3>3, Moved DEF ConnTypes, PickKnown, countVars
        <3>5. QED BY <3>2, <3>4
    <2>3. CASE ~HealthEnabled
        <3> DEFINE s == IF ActivePort(backends) = NoPort THEN "unavailable" ELSE "dialing"
        <3>1. /\ Goto(c, s)
              /\ target' = [target EXCEPT ![c] = ActivePort(backends)]
              /\ UNCHANGED todo
            BY <1>6, <2>3 DEF BeginPick
        <3>2. target' \in [Conns -> Ports \cup {NoPort}] /\ target'[c] = ActivePort(backends)
              /\ \A d \in Conns : d # c => target'[d] = target[d]
            BY <1>1, <3>1, PickedPorts
        <3>3. s \in ConnStates /\ s \notin Served \cup Counted
              /\ (s \in PastPick => ActivePort(backends) \in Ports)
            BY <1>2, <1>3, <1>4, PickedPorts
        <3> HIDE DEF s
        <3>4. ConnAccounting'
            BY <1>3, <2>1, <3>1, <3>2, <3>3, QuietMove
        <3>5. ConnTypes' /\ PickKnown'
            BY <2>1, <3>1, <3>2, <3>3, Moved DEF ConnTypes, PickKnown, countVars
        <3>6. QED BY <3>4, <3>5
    <2>4. QED BY <2>2, <2>3
<1>7. CASE AskPicks(c)
    <2>1. /\ at[c] = "picking" /\ Goto(c, "dialing") /\ UNCHANGED countVars
          /\ todo[c] # << >>
          /\ target' = [target EXCEPT ![c] = Head(todo[c])]
          /\ todo' = [todo EXCEPT ![c] = << >>]
        BY <1>7 DEF AskPicks
    <2>2. Head(todo[c]) \in Ports
        BY <1>1, <2>1
    <2>3. /\ target' \in [Conns -> Ports \cup {NoPort}] /\ target'[c] \in Ports
          /\ \A d \in Conns : d # c => target'[d] = target[d]
        BY <1>1, <2>1, <2>2
    <2>4. todo' \in [Conns -> Seq(Ports)]
        BY <1>1, <2>1
    <2>5. ConnAccounting'
        BY <1>2, <1>3, <2>1, <2>3, QuietMove
    <2>6. ConnTypes' /\ PickKnown'
        BY <1>2, <2>1, <2>3, <2>4, Moved DEF ConnTypes, PickKnown, countVars
    <2>7. QED BY <2>5, <2>6
<1>8. CASE AskPasses(c)
    <2>1. /\ todo[c] # << >>
          /\ todo' = [todo EXCEPT ![c] = Tail(todo[c])]
          /\ UNCHANGED <<at, target, countVars>>
        BY <1>8 DEF AskPasses
    <2>2. todo' \in [Conns -> Seq(Ports)]
        BY <1>1, <2>1
    <2>3. QED
        BY <2>1, <2>2 DEF ConnTypes, PickKnown, ConnAccounting, Within, WithinOn, countVars
<1>9. CASE AskNobody(c)
    <2>1. /\ at[c] = "picking" /\ Goto(c, "unavailable")
          /\ UNCHANGED <<todo, target, countVars>>
        BY <1>9 DEF AskNobody
    <2>2. ConnAccounting'
        BY <1>2, <1>3, <2>1, QuietMove
    <2>3. ConnTypes' /\ PickKnown'
        BY <1>2, <1>4, <2>1, Moved DEF ConnTypes, PickKnown, countVars
    <2>4. QED BY <2>2, <2>3
<1>10. CASE Dial(c)
    <2> DEFINE s == IF target[c] \in up THEN "dialed" ELSE "unreachable"
    <2>1. /\ at[c] = "dialing" /\ Goto(c, s) /\ UNCHANGED <<todo, target, countVars>>
        BY <1>10 DEF Dial
    <2>2. s \in ConnStates /\ s \notin Served \cup Counted
        BY <1>2, <1>3
    <2>3. target[c] \in Ports
        BY <2>1 DEF PickKnown, PastPick
    <2> HIDE DEF s
    <2>4. ConnAccounting'
        BY <1>3, <2>1, <2>2, QuietMove
    <2>5. ConnTypes' /\ PickKnown'
        BY <2>1, <2>2, <2>3, Moved DEF ConnTypes, PickKnown, countVars
    <2>6. QED BY <2>4, <2>5
<1>11. QED BY <1>5, <1>6, <1>7, <1>8, <1>9, <1>10

(* The steps between counting and uncounting each move one counter with    *)
(* the set it counts.                                                      *)
LEMMA CountingSteps ==
    ASSUME ConnPart, NEW c \in Conns,
           \/ Count(c) \/ RecordConnect(c) \/ Track(c) \/ EndBridge(c)
           \/ Untrack(c) \/ RecordDisconnect(c) \/ Uncount(c)
    PROVE  ConnPart'
<1> USE DEF ConnPart
<1> DEFINE p == target[c]
<1>1. /\ \A q \in Ports : metrics[q] = [active |-> metrics[q].active, total |-> metrics[q].total]
      /\ \A q \in Ports : metrics[q].active \in Int /\ metrics[q].total \in Int
      /\ metrics \in [Ports -> [active : Int, total : Int]]
      /\ activeConns \in Int
    BY DEF ConnTypes
<1>2. Counted \cup {"closed"} \subseteq ConnStates
    BY DEF ConnStates
<1>3. UNCHANGED <<todo, target>>
    BY DEF Count, RecordConnect, Track, EndBridge, Untrack, RecordDisconnect, Uncount
<1>4. ASSUME NEW s \in Counted \cup {"closed"}, Goto(c, s), at[c] \in Counted \cup {"dialed"},
             activeConns' \in Int, connsSet' \subseteq Conns,
             metrics' \in [Ports -> [active : Int, total : Int]]
      PROVE  ConnTypes' /\ PickKnown'
    <2>1. /\ at' \in [Conns -> ConnStates] /\ at'[c] = s
          /\ \A d \in Conns : d # c => at'[d] = at[d]
        BY <1>2, <1>4, Moved
    <2>2. target[c] \in Ports
        BY <1>4 DEF PickKnown, PastPick
    <2>3. QED BY <1>3, <1>4, <2>1, <2>2 DEF ConnTypes, PickKnown
<1>5. p \in Ports
    BY DEF PickKnown, PastPick, Served, Recorded, Counted, Count, RecordConnect, Track,
        EndBridge, Untrack, RecordDisconnect, Uncount
<1>6. ASSUME NEW s \in Counted \cup {"closed"}, Goto(c, s)
      PROVE  at'[c] = s /\ \A d \in Conns : d # c => at'[d] = at[d]
    BY <1>2, <1>6, Moved
<1> DEFINE S(states) == Within(states)' = Within(states)
           SOn(states) == \A q \in Ports : WithinOn(q, states)' = WithinOn(q, states)
<1>7. CASE Count(c)
    <2>1. /\ at[c] = "dialed" /\ Goto(c, "counted") /\ activeConns' = activeConns + 1
          /\ UNCHANGED <<connsSet, metrics>>
        BY <1>7 DEF Count
    <2>2. "counted" \in Counted /\ "counted" \notin Tracked \cup Recorded \cup Served
          /\ "dialed" \notin Counted \cup Tracked \cup Recorded \cup Served
        BY DEF Counted, Tracked, Recorded, Served
    <2>3. c \notin Within(Counted) /\ Within(Counted)' = Within(Counted) \cup {c}
        BY <1>6, <2>1, <2>2 DEF Within
    <2>4. S(Tracked) /\ SOn(Recorded) /\ SOn(Served)
        BY <1>3, <1>6, <2>1, <2>2 DEF Within, WithinOn
    <2>5. Cardinality(Within(Counted)') = Cardinality(Within(Counted)) + 1
        BY <2>3, FiniteWithin, FS_AddElement
    <2>6. ConnAccounting'
        BY <2>1, <2>4, <2>5 DEF ConnAccounting
    <2>7. connsSet' \subseteq Conns
        BY <2>1 DEF ConnTypes
    <2>8. QED BY <1>1, <1>4, <2>1, <2>2, <2>6, <2>7
<1>8. CASE RecordConnect(c)
    <2> DEFINE m == [active |-> metrics[p].active + 1, total |-> metrics[p].total + 1]
    <2>1. /\ at[c] = "counted" /\ Goto(c, "recorded")
          /\ metrics' = [metrics EXCEPT ![p] = m]
          /\ UNCHANGED <<connsSet, activeConns>>
        BY <1>8 DEF RecordConnect
    <2>2. m \in [active : Int, total : Int]
          /\ m.active = metrics[p].active + 1 /\ m.total = metrics[p].total + 1
        BY <1>1, <1>5
    <2> HIDE DEF m
    <2>3. /\ "counted" \in Counted /\ "counted" \notin Tracked \cup Recorded \cup Served
          /\ "recorded" \in Counted /\ "recorded" \in Recorded /\ "recorded" \in Served
          /\ "recorded" \notin Tracked
        BY DEF Counted, Tracked, Recorded, Served
    <2>4. S(Counted) /\ S(Tracked)
        BY <1>6, <2>1, <2>3 DEF Within
    <2>5. /\ c \notin WithinOn(p, Recorded)
          /\ WithinOn(p, Recorded)' = WithinOn(p, Recorded) \cup {c}
          /\ c \notin WithinOn(p, Served)
          /\ WithinOn(p, Served)' = WithinOn(p, Served) \cup {c}
        BY <1>3, <1>6, <2>1, <2>3 DEF WithinOn
    <2>6. \A q \in Ports \ {p} :
              /\ WithinOn(q, Recorded)' = WithinOn(q, Recorded)
              /\ WithinOn(q, Served)' = WithinOn(q, Served)
        BY <1>3, <1>6, <2>1, <2>3 DEF WithinOn
    <2>7. /\ Cardinality(WithinOn(p, Recorded)') = Cardinality(WithinOn(p, Recorded)) + 1
          /\ Cardinality(WithinOn(p, Served)') = Cardinality(WithinOn(p, Served)) + 1
        BY <2>5, FiniteWithin, FS_AddElement
    <2>8. /\ metrics' \in [Ports -> [active : Int, total : Int]]
          /\ metrics'[p] = m
          /\ \A q \in Ports \ {p} : metrics'[q] = metrics[q]
        BY <1>1, <1>5, <2>1, <2>2
    <2>9. ConnAccounting'
        BY <1>3, <2>1, <2>2, <2>4, <2>6, <2>7, <2>8 DEF ConnAccounting
    <2>10. connsSet' \subseteq Conns
        BY <2>1 DEF ConnTypes
    <2>11. QED BY <1>1, <1>4, <2>1, <2>3, <2>8, <2>9, <2>10
<1>9. CASE Track(c)
    <2>1. /\ at[c] = "recorded" /\ Goto(c, "bridged") /\ connsSet' = connsSet \cup {c}
          /\ UNCHANGED <<activeConns, metrics>>
        BY <1>9 DEF Track
    <2>2. \A s \in {"recorded", "bridged"} : s \in Counted /\ s \in Recorded /\ s \in Served
        BY DEF Counted, Recorded, Served
    <2>3. "recorded" \notin Tracked /\ "bridged" \in Tracked
        BY DEF Tracked
    <2>4. S(Counted) /\ SOn(Recorded) /\ SOn(Served)
        BY <1>3, <1>6, <2>1, <2>2 DEF Within, WithinOn
    <2>5. Within(Tracked)' = Within(Tracked) \cup {c}
        BY <1>6, <2>1, <2>2, <2>3 DEF Within
    <2>6. ConnAccounting'
        BY <2>1, <2>4, <2>5 DEF ConnAccounting
    <2>7. connsSet' \subseteq Conns
        BY <2>1 DEF ConnTypes
    <2>8. QED BY <1>1, <1>4, <2>1, <2>2, <2>6, <2>7
<1>10. CASE EndBridge(c)
    <2>1. at[c] = "bridged" /\ Goto(c, "closing") /\ UNCHANGED countVars
        BY <1>10 DEF EndBridge
    <2>2. \A s \in {"bridged", "closing"} :
              s \in Counted /\ s \in Recorded /\ s \in Served /\ s \in Tracked
        BY DEF Counted, Recorded, Served, Tracked
    <2>3. S(Counted) /\ S(Tracked) /\ SOn(Recorded) /\ SOn(Served)
        BY <1>3, <1>6, <2>1, <2>2 DEF Within, WithinOn
    <2>4. ConnAccounting'
        BY <2>1, <2>3 DEF ConnAccounting, countVars
    <2>5. connsSet' \subseteq Conns
        BY <2>1 DEF ConnTypes, countVars
    <2>6. QED BY <1>1, <1>4, <2>1, <2>2, <2>4, <2>5 DEF countVars
<1>11. CASE Untrack(c)
    <2>1. /\ at[c] = "closing" /\ Goto(c, "untracked") /\ connsSet' = connsSet \ {c}
          /\ UNCHANGED <<activeConns, metrics>>
        BY <1>11 DEF Untrack
    <2>2. \A s \in {"closing", "untracked"} : s \in Counted /\ s \in Recorded /\ s \in Served
        BY DEF Counted, Recorded, Served
    <2>3. "untracked" \notin Tracked
        BY DEF Tracked
    <2>4. S(Counted) /\ SOn(Recorded) /\ SOn(Served)
        BY <1>3, <1>6, <2>1, <2>2 DEF Within, WithinOn
    <2>5. Within(Tracked)' = Within(Tracked) \ {c}
        BY <1>6, <2>1, <2>2, <2>3 DEF Within
    <2>6. ConnAccounting'
        BY <2>1, <2>4, <2>5 DEF ConnAccounting
    <2>7. connsSet' \subseteq Conns
        BY <2>1 DEF ConnTypes
    <2>8. QED BY <1>1, <1>4, <2>1, <2>2, <2>6, <2>7
<1>12. CASE RecordDisconnect(c)
    <2> DEFINE m == [active |-> metrics[p].active - 1, total |-> metrics[p].total]
    <2>1. /\ at[c] = "untracked" /\ Goto(c, "unrecorded")
          /\ metrics' = [metrics EXCEPT ![p] = m]
          /\ UNCHANGED <<connsSet, activeConns>>
        BY <1>12 DEF RecordDisconnect
    <2>2. m \in [active : Int, total : Int]
          /\ m.active = metrics[p].active - 1 /\ m.total = metrics[p].total
        BY <1>1, <1>5
    <2> HIDE DEF m
    <2>3. /\ "untracked" \in Counted /\ "untracked" \in Recorded /\ "untracked" \in Served
          /\ "unrecorded" \in Counted /\ "unrecorded" \in Served
          /\ "unrecorded" \notin Recorded
          /\ "untracked" \notin Tracked /\ "unrecorded" \notin Tracked
        BY DEF Counted, Tracked, Recorded, Served
    <2>4. S(Counted) /\ S(Tracked) /\ SOn(Served)
        BY <1>3, <1>6, <2>1, <2>3 DEF Within, WithinOn
    <2>5. /\ c \in WithinOn(p, Recorded)
          /\ WithinOn(p, Recorded)' = WithinOn(p, Recorded) \ {c}
        BY <1>3, <1>6, <2>1, <2>3 DEF WithinOn
    <2>6. \A q \in Ports \ {p} : WithinOn(q, Recorded)' = WithinOn(q, Recorded)
        BY <1>3, <1>6, <2>1, <2>3 DEF WithinOn
    <2>7. Cardinality(WithinOn(p, Recorded)') = Cardinality(WithinOn(p, Recorded)) - 1
        BY <2>5, FiniteWithin, FS_RemoveElement
    <2>8. /\ metrics' \in [Ports -> [active : Int, total : Int]]
          /\ metrics'[p] = m
          /\ \A q \in Ports \ {p} : metrics'[q] = metrics[q]
        BY <1>1, <1>5, <2>1, <2>2
    <2>9. ConnAccounting'
        BY <1>3, <1>5, <2>1, <2>2, <2>4, <2>6, <2>7, <2>8 DEF ConnAccounting
    <2>10. connsSet' \subseteq Conns
        BY <2>1 DEF ConnTypes
    <2>11. QED BY <1>1, <1>4, <2>1, <2>3, <2>8, <2>9, <2>10
<1>13. CASE Uncount(c)
    <2>1. /\ at[c] = "unrecorded" /\ Goto(c, "closed") /\ activeConns' = activeConns - 1
          /\ UNCHANGED <<connsSet, metrics>>
        BY <1>13 DEF Uncount
    <2>2. /\ "unrecorded" \in Counted /\ "unrecorded" \in Served /\ "closed" \in Served
          /\ "closed" \notin Counted
          /\ \A s \in {"unrecorded", "closed"} : s \notin Tracked \cup Recorded
        BY DEF Counted, Tracked, Recorded, Served
    <2>3. c \in Within(Counted) /\ Within(Counted)' = Within(Counted) \ {c}
        BY <1>6, <2>1, <2>2 DEF Within
    <2>4. S(Tracked) /\ SOn(Recorded) /\ SOn(Served)
        BY <1>3, <1>6, <2>1, <2>2 DEF Within, WithinOn
    <2>5. Cardinality(Within(Counted)') = Cardinality(Within(Counted)) - 1
        BY <2>3, FiniteWithin, FS_RemoveElement
    <2>6. ConnAccounting'
        BY <2>1, <2>4, <2>5 DEF ConnAccounting
    <2>7. connsSet' \subseteq Conns
        BY <2>1 DEF ConnTypes
    <2>8. QED BY <1>1, <1>4, <2>1, <2>2, <2>6, <2>7
<1>14. QED BY <1>7, <1>8, <1>9, <1>10, <1>11, <1>12, <1>13

(* No step whatever breaks the agreement; those of callers, checker and    *)
(* shutdown touch neither connections nor counters.                        *)
LEMMA ConnPartStep == TablePart /\ ConnPart /\ [Next]_vars => ConnPart'
<1> SUFFICES ASSUME TablePart, ConnPart, [Next]_vars PROVE ConnPart'
    OBVIOUS
<1>1. ASSUME UNCHANGED <<pickVars, countVars>> PROVE ConnPart'
    BY <1>1 DEF ConnPart, ConnTypes, PickKnown, ConnAccounting, Within, WithinOn,
        pickVars, countVars
<1>2. ASSUME NEW c \in Conns, Accept(c) \/ ConnStep(c) \/ EndBridge(c) PROVE ConnPart'
    BY <1>2, QuietSteps, CountingSteps DEF ConnStep
<1>3. ASSUME NEW r \in Requests, AddBackend(r) \/ SetBackend(r) \/ SwitchBackend(r.label)
      PROVE  ConnPart'
    BY <1>1, <1>3 DEF AddBackend, SetBackend, SwitchBackend
<1>4. ASSUME NEW p \in Ports, RemoveBackend(p) PROVE ConnPart'
    BY <1>1, <1>4 DEF RemoveBackend
<1>5. CASE ClearBackend \/ Start \/ StartBlocked \/ AcceptFails \/ Checker
    BY <1>1, <1>5 DEF ClearBackend, Start, StartBlocked, AcceptFails, Checker
<1>6. ASSUME NEW s \in Stoppers, StopStep(s) PROVE ConnPart'
    BY <1>1, <1>6 DEF StopStep, TestDone, CloseDone, Shut, Poll, DrainTick, Deadline
<1>7. CASE UNCHANGED vars
    BY <1>1, <1>7 DEF vars
<1>8. QED BY <1>2, <1>3, <1>4, <1>5, <1>6, <1>7 DEF Next

(* ConnAccounting: whatever interleaving of connections, callers, checker  *)
(* and shutdown, the counter that draining waits for, the set that the     *)
(* deadline closes and the per-backend counts that status reports are      *)
(* exactly the connections between the corresponding steps of handleConn.  *)
THEOREM CountersAgree == SafeSpec => []ConnAccounting
<1>1. TablePart /\ ConnPart /\ [Next]_vars => (TablePart /\ ConnPart)'
    BY TableStep, ConnPartStep
<1>2. ConnPart => ConnAccounting
    BY DEF ConnPart
<1>3. QED BY <1>1, <1>2, TableInitially, ConnInitially, PTL DEF SafeSpec
-----------------------------------------------------------------------------
(* Picking.                                                                *)

(* Only the goroutine's own steps shorten what it has left to ask about,   *)
(* and while it asks, the read lock keeps the list as it is.               *)
LEMMA PickListedStep ==
    TablePart /\ ConnPart /\ PickIsListed /\ [Next]_vars => PickIsListed'
<1> SUFFICES ASSUME TablePart, ConnPart, PickIsListed, [Next]_vars,
                    NEW d \in Conns, at'[d] = "picking"
             PROVE  ToSet(todo'[d]) \subseteq PortsOf(backends')
    BY DEF PickIsListed
<1>1. /\ at \in [Conns -> ConnStates]
      /\ todo \in [Conns -> Seq(Ports)]
      /\ at[d] = "picking" => ToSet(todo[d]) \subseteq PortsOf(backends)
    BY DEF ConnPart, ConnTypes, PickIsListed
<1>2. ASSUME UNCHANGED <<pickVars, backends>>
      PROVE  ToSet(todo'[d]) \subseteq PortsOf(backends')
    BY <1>1, <1>2 DEF pickVars
<1>3. ASSUME Unlocked, UNCHANGED pickVars PROVE FALSE
    BY <1>3 DEF Unlocked, pickVars
<1>4. ASSUME NEW c \in Conns, at' = [at EXCEPT ![c] = at'[c]], at'[c] # "picking",
             \A e \in Conns : e # c => todo'[e] = todo[e], backends' = backends
      PROVE  ToSet(todo'[d]) \subseteq PortsOf(backends')
    BY <1>1, <1>4
<1>5. ASSUME NEW c \in Conns, BeginPick(c)
      PROVE  ToSet(todo'[d]) \subseteq PortsOf(backends')
    <2>1. backends' = backends /\ at[c] = "accepted"
        BY <1>5 DEF BeginPick, tableVars
    <2>2. PickOrder(backends) \in Seq(PortsOf(backends))
        BY PickOrderFacts DEF TablePart, Entry
    <2>3. ToSet(PickOrder(backends)) \subseteq PortsOf(backends)
        BY <2>2 DEF ToSet
    <2>4. CASE d = c
        <3>1. todo'[c] = PickOrder(backends)
            BY <1>1, <1>5, <2>4 DEF BeginPick, Goto
        <3>2. QED BY <2>1, <2>3, <2>4, <3>1
    <2>5. CASE d # c
        BY <1>1, <1>5, <2>1, <2>5 DEF BeginPick, Goto
    <2>6. QED BY <2>4, <2>5
<1>6. ASSUME NEW c \in Conns, AskPasses(c)
      PROVE  ToSet(todo'[d]) \subseteq PortsOf(backends')
    <2>1. /\ backends' = backends /\ at' = at
          /\ todo[c] # << >>
          /\ todo' = [todo EXCEPT ![c] = Tail(todo[c])]
        BY <1>6 DEF AskPasses, tableVars
    <2>2. ToSet(Tail(todo[c])) \subseteq ToSet(todo[c])
        <3>1. todo[c] \in Seq(Ports) /\ todo[c] # << >>
            BY <1>1, <2>1
        <3>2. QED BY <3>1, HeadTailProperties DEF ToSet
    <2>3. QED BY <1>1, <2>1, <2>2
<1>7. ASSUME NEW c \in Conns, AskPicks(c) \/ Accept(c) \/ AskNobody(c) \/ Dial(c)
      PROVE  ToSet(todo'[d]) \subseteq PortsOf(backends')
    <2>1. at'[c] # "picking" /\ at' = [at EXCEPT ![c] = at'[c]]
        BY <1>1, <1>7 DEF AskPicks, Accept, AskNobody, Dial, Goto
    <2>2. backends' = backends /\ \A e \in Conns : e # c => todo'[e] = todo[e]
        BY <1>1, <1>7 DEF AskPicks, Accept, AskNobody, Dial, tableVars
    <2>3. QED BY <1>4, <2>1, <2>2
<1>8. ASSUME NEW c \in Conns,
             \/ Count(c) \/ RecordConnect(c) \/ Track(c) \/ EndBridge(c)
             \/ Untrack(c) \/ RecordDisconnect(c) \/ Uncount(c)
      PROVE  ToSet(todo'[d]) \subseteq PortsOf(backends')
    <2>1. at'[c] # "picking" /\ at' = [at EXCEPT ![c] = at'[c]]
        BY <1>1, <1>8 DEF Count, RecordConnect, Track, EndBridge, Untrack,
            RecordDisconnect, Uncount, Goto
    <2>2. backends' = backends /\ todo' = todo
        BY <1>8 DEF Count, RecordConnect, Track, EndBridge, Untrack, RecordDisconnect,
            Uncount, tableVars
    <2>3. QED BY <1>4, <2>1, <2>2
<1>9. ASSUME NEW r \in Requests, AddBackend(r) \/ SetBackend(r) \/ SwitchBackend(r.label)
      PROVE  FALSE
    BY <1>3, <1>9 DEF AddBackend, SetBackend, SwitchBackend
<1>10. ASSUME NEW p \in Ports, RemoveBackend(p) PROVE FALSE
    BY <1>3, <1>10 DEF RemoveBackend
<1>11. CASE ClearBackend
    BY <1>3, <1>11 DEF ClearBackend
<1>12. CASE Start \/ StartBlocked \/ AcceptFails \/ Checker
    BY <1>2, <1>12 DEF Start, StartBlocked, AcceptFails, Checker, tableVars
<1>13. ASSUME NEW s \in Stoppers, StopStep(s)
       PROVE  ToSet(todo'[d]) \subseteq PortsOf(backends')
    BY <1>2, <1>13 DEF StopStep, TestDone, CloseDone, Shut, Poll, DrainTick, Deadline,
        tableVars
<1>14. CASE UNCHANGED vars
    BY <1>2, <1>14 DEF vars, tableVars
<1>15. QED
    BY <1>5, <1>6, <1>7, <1>8, <1>9, <1>10, <1>11, <1>12, <1>13, <1>14
       DEF Next, ConnStep

(* PickIsListed: a goroutine that is picking asks about listed backends    *)
(* only, however many questions it asks and whoever waits to change the    *)
(* list meanwhile.                                                         *)
THEOREM PicksAreListed == SafeSpec => []PickIsListed
<1> DEFINE IInv == TablePart /\ ConnPart /\ PickIsListed
<1>1. Init => IInv
    BY TableInitially, ConnInitially DEF Init, PickIsListed
<1>2. IInv /\ [Next]_vars => IInv'
    BY TableStep, ConnPartStep, PickListedStep
<1>3. IInv => PickIsListed
    OBVIOUS
<1>4. QED BY <1>1, <1>2, <1>3, PTL DEF SafeSpec
-----------------------------------------------------------------------------
(* What is left of the type invariant: the socket and the shutdown.        *)

StopTypes ==
    /\ listening \in {"new", "blocked", "open", "closed"}
    /\ accepting \in BOOLEAN
    /\ severed \subseteq Conns
    /\ done \in BOOLEAN
    /\ stopAt \in [Stoppers -> StopStates]
    /\ panicked \in BOOLEAN

(* The types of socket and shutdown at first ...                           *)
LEMMA StopInitially == Init => StopTypes
BY DEF Init, StopTypes, StopStates

(* ... and after every step; what the deadline severs are connections      *)
(* because connsSet holds nothing else.                                    *)
LEMMA StopTypesStep == StopTypes /\ ConnPart /\ [Next]_vars => StopTypes'
<1> SUFFICES ASSUME StopTypes, ConnPart, [Next]_vars PROVE StopTypes'
    OBVIOUS
<1>1. ASSUME UNCHANGED <<acceptVars, stopVars>> PROVE StopTypes'
    BY <1>1 DEF StopTypes, acceptVars, stopVars
<1>2. ASSUME NEW c \in Conns, Accept(c) \/ ConnStep(c) \/ EndBridge(c) PROVE StopTypes'
    BY <1>1, <1>2 DEF Accept, ConnStep, EndBridge, BeginPick, AskPicks, AskPasses,
        AskNobody, Dial, Count, RecordConnect, Track, Untrack, RecordDisconnect, Uncount
<1>3. ASSUME NEW r \in Requests, AddBackend(r) \/ SetBackend(r) \/ SwitchBackend(r.label)
      PROVE  StopTypes'
    BY <1>1, <1>3 DEF AddBackend, SetBackend, SwitchBackend
<1>4. ASSUME NEW p \in Ports, RemoveBackend(p) PROVE StopTypes'
    BY <1>1, <1>4 DEF RemoveBackend
<1>5. CASE ClearBackend \/ Checker
    BY <1>1, <1>5 DEF ClearBackend, Checker
<1>6. CASE Start \/ StartBlocked \/ AcceptFails
    BY <1>6 DEF Start, StartBlocked, AcceptFails, StopTypes, stopVars
<1>7. ASSUME NEW s \in Stoppers, StopStep(s) PROVE StopTypes'
    <2>1. CASE TestDone(s) \/ CloseDone(s) \/ Poll(s) \/ DrainTick(s)
        BY <2>1 DEF TestDone, CloseDone, Poll, DrainTick, Advance, StopTypes, StopStates,
            acceptVars
    <2>2. CASE Shut(s)
        BY <2>2 DEF Shut, Advance, StopTypes, StopStates
    <2>3. CASE Deadline(s)
        BY <2>3 DEF Deadline, Advance, StopTypes, StopStates, acceptVars, ConnPart, ConnTypes
    <2>4. QED BY <1>7, <2>1, <2>2, <2>3 DEF StopStep
<1>8. CASE UNCHANGED vars
    BY <1>1, <1>8 DEF vars
<1>9. QED BY <1>2, <1>3, <1>4, <1>5, <1>6, <1>7, <1>8 DEF Next

(* TypeOK: in particular a connection past its pick always holds the port  *)
(* of some backend, never the zero that activePort returns for "none".     *)
THEOREM TypeCorrect == SafeSpec => []TypeOK
<1> DEFINE IInv == TablePart /\ HC!TypeOK /\ ConnPart /\ StopTypes
<1>1. Init => IInv
    BY TableInitially, HealthInitially, ConnInitially, StopInitially
<1>2. IInv /\ [Next]_vars => IInv'
    BY TableStep, HealthSteps, ConnPartStep, StopTypesStep
<1>3. IInv => TypeOK
    BY DEF TablePart, ConnPart, ConnTypes, StopTypes, TypeOK
<1>4. QED BY <1>1, <1>2, <1>3, PTL DEF SafeSpec
=============================================================================
