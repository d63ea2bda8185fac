--------------------------- MODULE ServiceListener --------------------------
(***************************************************************************)
(* The proxy of one listen port (internal/proxy/listener.go): its backend  *)
(* list, the goroutines that carry connections to the active or failed-    *)
(* over backend, its health checker, its metrics, and its shutdown.        *)
(*                                                                         *)
(* Each connection is a goroutine (handleConn) whose steps interleave with *)
(* the callers that change the list, with the health checker and with the  *)
(* callers that stop the listener.  Picking a backend is not one step: the *)
(* list is read-locked, but the checker is asked port by port, each time   *)
(* under the checker's own lock.  Bytes, HTTP and log output are left out. *)
(***************************************************************************)
EXTENDS BackendTable

CONSTANTS
    Ports,           \* backend ports
    Requests,        \* what AddBackend may be called with: [port, label, pid]
    Conns,           \* client connections; each is used once
    Stoppers,        \* calls of Stop or StopGraceful
    HealthEnabled,   \* a health checker is set
    UnhealthyAfter,
    Phase1           \* SetBackend and ClearBackend are called too

ASSUME RequestsAssumption ==
    /\ NoPort \notin Ports
    /\ \A r \in Requests : r = [port |-> r.port, label |-> r.label, pid |-> r.pid]
                           /\ r.port \in Ports
ASSUME FlagsAssumption == HealthEnabled \in BOOLEAN /\ Phase1 \in BOOLEAN
ASSUME ThresholdAssumption == UnhealthyAfter \in Nat \ {0}
ASSUME ConnsAssumption == IsFiniteSet(Conns)

VARIABLES
    backends,                                    \* sl.backends
    up, health, loop, queue, probe, stopped,     \* the health checker
    listening,     \* sl.listener: "new", "blocked", "open", "closed"
    accepting,     \* the acceptLoop goroutine runs
    at,            \* where each connection's goroutine is
    todo,          \* the ports a picking goroutine has still to ask about
    target,        \* the backend port it picked
    severed,       \* connections whose sockets StopGraceful closed
    activeConns,   \* sl.activeConns
    connsSet,      \* sl.connsSet: the connections whose sockets are in it
    metrics,       \* sl.metrics: open and total connections of each port
    done,          \* sl.done is closed
    stopAt,        \* where each call of Stop or StopGraceful is
    panicked       \* a second close(sl.done) ended the process

tableVars  == <<backends>>
healthVars == <<up, health, loop, queue, probe, stopped>>
acceptVars == <<listening, accepting>>
pickVars   == <<at, todo, target>>
countVars  == <<activeConns, connsSet, metrics>>
stopVars   == <<done, stopAt, severed, panicked>>
vars == <<tableVars, healthVars, acceptVars, pickVars, countVars, stopVars>>

HC == INSTANCE HealthChecker

(* A goroutine's progress through handleConn.                              *)
Counted  == {"counted", "recorded", "bridged", "closing", "untracked", "unrecorded"}
Recorded == {"recorded", "bridged", "closing", "untracked"}
Tracked  == {"bridged", "closing"}
Served   == Recorded \cup {"unrecorded", "closed"}
Refused  == {"unavailable", "unreachable"}
PastPick == {"dialing", "dialed", "unreachable"} \cup Served \cup Counted
ConnStates ==
    {"none", "accepted", "picking", "dialing", "dialed", "closed"}
        \cup Counted \cup Refused

StopStates ==
    {"idle", "closing", "shutting", "polling", "waiting",
     "skipped", "stopped", "drained", "forced"}

Entry == EntriesOf(Requests)

(* A connection past its pick holds a port, never the zero that            *)
(* activePort returns when there is none.                                  *)
PickKnown == \A c \in Conns : at[c] \in PastPick => target[c] \in Ports

(* The types, and that a picked port is a backend's: what the metrics are   *)
(* indexed by and what is dialled.                                         *)
TypeOK ==
    /\ backends \in Seq(Entry)
    /\ HC!TypeOK
    /\ listening \in {"new", "blocked", "open", "closed"}
    /\ accepting \in BOOLEAN
    /\ at \in [Conns -> ConnStates]
    /\ todo \in [Conns -> Seq(Ports)]
    /\ target \in [Conns -> Ports \cup {NoPort}]
    /\ severed \subseteq Conns
    /\ activeConns \in Int
    /\ connsSet \subseteq Conns
    /\ metrics \in [Ports -> [active : Int, total : Int]]
    /\ done \in BOOLEAN
    /\ stopAt \in [Stoppers -> StopStates]
    /\ panicked \in BOOLEAN
    /\ PickKnown

Init ==
    /\ backends = << >>
    /\ HC!Init
    /\ listening = "new"
    /\ accepting = FALSE
    /\ at = [c \in Conns |-> "none"]
    /\ todo = [c \in Conns |-> << >>]
    /\ target = [c \in Conns |-> NoPort]
    /\ severed = {}
    /\ activeConns = 0
    /\ connsSet = {}
    /\ metrics = [p \in Ports |-> [active |-> 0, total |-> 0]]
    /\ done = FALSE
    /\ stopAt = [s \in Stoppers |-> "idle"]
    /\ panicked = FALSE

(***************************************************************************)
(* The list.  A writer waits for the goroutines that hold the read lock.   *)
(***************************************************************************)
NeverLocked == TRUE    \* a writer that does not wait
Unlocked == \A c \in Conns : at[c] # "picking"

AddBackend(r) ==
    /\ Unlocked
    /\ backends' = Enlist(backends, r)
    /\ IF HealthEnabled /\ r.port \notin PortsOf(backends)
       THEN HC!AddBackend(r.port)
       ELSE UNCHANGED healthVars
    /\ UNCHANGED <<acceptVars, pickVars, countVars, stopVars>>

(* RemoveBackend that does not tell the health checker.                    *)
RemoveUntold(p) ==
    /\ Unlocked
    /\ backends' = Delist(backends, p)
    /\ UNCHANGED <<healthVars, acceptVars, pickVars, countVars, stopVars>>

RemoveBackend(p) ==
    /\ Unlocked
    /\ backends' = Delist(backends, p)
    /\ IF HealthEnabled /\ p \in PortsOf(backends)
       THEN HC!RemoveBackend(p)
       ELSE UNCHANGED healthVars
    /\ UNCHANGED <<acceptVars, pickVars, countVars, stopVars>>

SwitchBackend(label) ==
    /\ Unlocked
    /\ backends' = Activate(backends, label)
    /\ UNCHANGED <<healthVars, acceptVars, pickVars, countVars, stopVars>>

(* The Phase 1 calls replace the list and never tell the health checker.   *)
SetBackend(r) ==
    /\ Phase1
    /\ Unlocked
    /\ backends' = << EntryOf(r, TRUE) >>
    /\ UNCHANGED <<healthVars, acceptVars, pickVars, countVars, stopVars>>

ClearBackend ==
    /\ Phase1
    /\ Unlocked
    /\ backends' = << >>
    /\ UNCHANGED <<healthVars, acceptVars, pickVars, countVars, stopVars>>

(***************************************************************************)
(* Start: bind, start the health checker, accept.  A port in use leaves    *)
(* the listener blocked; any other bind error leaves it as it was.         *)
(***************************************************************************)
Start ==
    /\ listening = "new"
    /\ listening' = "open"
    /\ accepting' = TRUE
    /\ IF HealthEnabled THEN HC!Start ELSE UNCHANGED healthVars
    /\ UNCHANGED <<tableVars, pickVars, countVars, stopVars>>

StartBlocked ==
    /\ listening = "new"
    /\ listening' = "blocked"
    /\ UNCHANGED <<accepting, tableVars, healthVars, pickVars, countVars, stopVars>>

(* Any error of Accept ends the loop: the closed socket's, and every other *)
(* one too, after which the socket stays open with nobody accepting.       *)
AcceptFails ==
    /\ accepting
    /\ accepting' = FALSE
    /\ UNCHANGED <<listening, tableVars, healthVars, pickVars, countVars, stopVars>>

(***************************************************************************)
(* handleConn.                                                             *)
(***************************************************************************)
Goto(c, state) == at' = [at EXCEPT ![c] = state]

Accept(c) ==
    /\ at[c] = "none"
    /\ accepting
    /\ listening = "open"
    /\ Goto(c, "accepted")
    /\ UNCHANGED <<todo, target, tableVars, healthVars, acceptVars, countVars, stopVars>>

(* A pick that does not look whether there is an active backend.           *)
BeginPickBlindly(c) ==
    /\ at[c] = "accepted"
    /\ Goto(c, "dialing")
    /\ target' = [target EXCEPT ![c] = ActivePort(backends)]
    /\ UNCHANGED <<todo, tableVars, healthVars, acceptVars, countVars, stopVars>>

(* healthyActivePort takes the read lock and asks about the ports in the   *)
(* order of PickOrder; without a checker it is the active port at once.    *)
BeginPick(c) ==
    /\ at[c] = "accepted"
    /\ IF HealthEnabled
       THEN /\ Goto(c, "picking")
            /\ todo' = [todo EXCEPT ![c] = PickOrder(backends)]
            /\ UNCHANGED target
       ELSE /\ Goto(c, IF ActivePort(backends) = NoPort THEN "unavailable" ELSE "dialing")
            /\ target' = [target EXCEPT ![c] = ActivePort(backends)]
            /\ UNCHANGED todo
    /\ UNCHANGED <<tableVars, healthVars, acceptVars, countVars, stopVars>>

(* One IsHealthy call; the first healthy port is the pick.                 *)
AskPicks(c) ==
    /\ at[c] = "picking"
    /\ todo[c] # << >>
    /\ HC!IsHealthy(Head(todo[c]))
    /\ Goto(c, "dialing")
    /\ target' = [target EXCEPT ![c] = Head(todo[c])]
    /\ todo' = [todo EXCEPT ![c] = << >>]
    /\ UNCHANGED <<tableVars, healthVars, acceptVars, countVars, stopVars>>

(* A pick that asks again until somebody is healthy.                       *)
AskForEver(c) ==
    /\ at[c] = "picking"
    /\ todo[c] # << >>
    /\ ~HC!IsHealthy(Head(todo[c]))
    /\ todo' = [todo EXCEPT ![c] = Append(Tail(@), Head(@))]
    /\ UNCHANGED <<at, target, tableVars, healthVars, acceptVars, countVars, stopVars>>

AskPasses(c) ==
    /\ at[c] = "picking"
    /\ todo[c] # << >>
    /\ ~HC!IsHealthy(Head(todo[c]))
    /\ todo' = [todo EXCEPT ![c] = Tail(todo[c])]
    /\ UNCHANGED <<at, target, tableVars, healthVars, acceptVars, countVars, stopVars>>

(* Nobody left to ask: 503, and the client's connection is closed.         *)
AskNobody(c) ==
    /\ at[c] = "picking"
    /\ todo[c] = << >>
    /\ Goto(c, "unavailable")
    /\ UNCHANGED <<todo, target, tableVars, healthVars, acceptVars, countVars, stopVars>>

(* The backend is dialled with nothing locked; it may be down by now, or   *)
(* registered no more.  A failed dial is answered by 503 or by a reset.    *)
Dial(c) ==
    /\ at[c] = "dialing"
    /\ Goto(c, IF target[c] \in up THEN "dialed" ELSE "unreachable")
    /\ UNCHANGED <<todo, target, tableVars, healthVars, acceptVars, countVars, stopVars>>

Count(c) ==
    /\ at[c] = "dialed"
    /\ Goto(c, "counted")
    /\ activeConns' = activeConns + 1
    /\ UNCHANGED <<todo, target, connsSet, metrics,
                   tableVars, healthVars, acceptVars, stopVars>>

RecordConnect(c) ==
    /\ at[c] = "counted"
    /\ Goto(c, "recorded")
    /\ metrics' = [metrics EXCEPT ![target[c]] =
                       [active |-> @.active + 1, total |-> @.total + 1]]
    /\ UNCHANGED <<todo, target, activeConns, connsSet,
                   tableVars, healthVars, acceptVars, stopVars>>

Track(c) ==
    /\ at[c] = "recorded"
    /\ Goto(c, "bridged")
    /\ connsSet' = connsSet \cup {c}
    /\ UNCHANGED <<todo, target, activeConns, metrics,
                   tableVars, healthVars, acceptVars, stopVars>>

(* A bridge that a closed socket does not wake.                            *)
EndBridgeByPeer(c) ==
    /\ at[c] = "bridged"
    /\ c \notin severed
    /\ Goto(c, "closing")
    /\ UNCHANGED <<todo, target, tableVars, healthVars, acceptVars, countVars, stopVars>>

(* Bridge returns: a peer closed, or the listener severed the sockets.     *)
EndBridge(c) ==
    /\ at[c] = "bridged"
    /\ Goto(c, "closing")
    /\ UNCHANGED <<todo, target, tableVars, healthVars, acceptVars, countVars, stopVars>>

Untrack(c) ==
    /\ at[c] = "closing"
    /\ Goto(c, "untracked")
    /\ connsSet' = connsSet \ {c}
    /\ UNCHANGED <<todo, target, activeConns, metrics,
                   tableVars, healthVars, acceptVars, stopVars>>

(* The end of a connection booked to the backend active by now.            *)
RecordDisconnectActive(c) ==
    /\ at[c] = "untracked"
    /\ Goto(c, "unrecorded")
    /\ metrics' = [p \in Ports |->
                      [active |-> IF p = ActivePort(backends)
                                  THEN metrics[p].active - 1 ELSE metrics[p].active,
                       total  |-> metrics[p].total]]
    /\ UNCHANGED <<todo, target, activeConns, connsSet,
                   tableVars, healthVars, acceptVars, stopVars>>

RecordDisconnect(c) ==
    /\ at[c] = "untracked"
    /\ Goto(c, "unrecorded")
    /\ metrics' = [metrics EXCEPT ![target[c]] =
                       [active |-> @.active - 1, total |-> @.total]]
    /\ UNCHANGED <<todo, target, activeConns, connsSet,
                   tableVars, healthVars, acceptVars, stopVars>>

Uncount(c) ==
    /\ at[c] = "unrecorded"
    /\ Goto(c, "closed")
    /\ activeConns' = activeConns - 1
    /\ UNCHANGED <<todo, target, connsSet, metrics,
                   tableVars, healthVars, acceptVars, stopVars>>

ConnStep(c) ==
    \/ BeginPick(c) \/ AskPicks(c) \/ AskPasses(c) \/ AskNobody(c)
    \/ Dial(c) \/ Count(c) \/ RecordConnect(c) \/ Track(c)
    \/ Untrack(c) \/ RecordDisconnect(c) \/ Uncount(c)

(***************************************************************************)
(* Stop and StopGraceful.  Testing the done channel and closing it are two *)
(* steps, so two callers may both find it open.                            *)
(***************************************************************************)
Advance(s, state) == stopAt' = [stopAt EXCEPT ![s] = state]

TestDone(s) ==
    /\ stopAt[s] = "idle"
    /\ Advance(s, IF done THEN "skipped" ELSE "closing")
    /\ UNCHANGED <<done, severed, panicked,
                   tableVars, healthVars, acceptVars, pickVars, countVars>>

CloseDone(s) ==
    /\ stopAt[s] = "closing"
    /\ IF done
       THEN panicked' = TRUE /\ UNCHANGED <<done, stopAt>>
       ELSE done' = TRUE /\ Advance(s, "shutting") /\ UNCHANGED panicked
    /\ UNCHANGED <<severed, tableVars, healthVars, acceptVars, pickVars, countVars>>

(* The health checker is stopped and the socket closed, if there is one;   *)
(* Stop returns here, StopGraceful goes on to drain.                       *)
Shut(s) ==
    /\ stopAt[s] = "shutting"
    /\ \/ Advance(s, "stopped")
       \/ Advance(s, "polling")
    /\ IF HealthEnabled THEN HC!Stop ELSE UNCHANGED healthVars
    /\ listening' = IF listening = "open" THEN "closed" ELSE listening
    /\ UNCHANGED <<done, severed, panicked,
                   accepting, tableVars, pickVars, countVars>>

Poll(s) ==
    /\ stopAt[s] = "polling"
    /\ Advance(s, IF activeConns = 0 THEN "drained" ELSE "waiting")
    /\ UNCHANGED <<done, severed, panicked,
                   tableVars, healthVars, acceptVars, pickVars, countVars>>

DrainTick(s) ==
    /\ stopAt[s] = "waiting"
    /\ Advance(s, "polling")
    /\ UNCHANGED <<done, severed, panicked,
                   tableVars, healthVars, acceptVars, pickVars, countVars>>

(* A deadline that waits for the connections after all.                    *)
DeadlineWhenDrained(s) ==
    /\ stopAt[s] = "waiting"
    /\ activeConns = 0
    /\ Advance(s, "forced")
    /\ UNCHANGED <<done, severed, panicked,
                   tableVars, healthVars, acceptVars, pickVars, countVars>>

(* The drain deadline: close the sockets that are in connsSet now.         *)
Deadline(s) ==
    /\ stopAt[s] = "waiting"
    /\ Advance(s, "forced")
    /\ severed' = severed \cup connsSet
    /\ UNCHANGED <<done, panicked,
                   tableVars, healthVars, acceptVars, pickVars, countVars>>

StopStep(s) ==
    TestDone(s) \/ CloseDone(s) \/ Shut(s) \/ Poll(s) \/ DrainTick(s) \/ Deadline(s)

(***************************************************************************)
(* The health checker's own steps and the backends' coming and going.      *)
(***************************************************************************)
Checker ==
    /\ HC!LoopStep \/ \E p \in Ports : HC!Flip(p)
    /\ UNCHANGED <<tableVars, acceptVars, pickVars, countVars, stopVars>>

Next ==
    /\ ~panicked
    /\ \/ \E r \in Requests : AddBackend(r) \/ SetBackend(r) \/ SwitchBackend(r.label)
       \/ \E p \in Ports : RemoveBackend(p)
       \/ ClearBackend
       \/ Start \/ StartBlocked \/ AcceptFails
       \/ \E c \in Conns : Accept(c) \/ ConnStep(c) \/ EndBridge(c)
       \/ \E s \in Stoppers : StopStep(s)
       \/ Checker

(* Goroutines that can run do run; the deadline timer fires however often  *)
(* the ticker does; severed sockets end their bridge.  Nothing is assumed  *)
(* of the callers, of the clients or of the backends.                      *)
Fairness ==
    /\ \A c \in Conns :
          /\ WF_vars(~panicked /\ ConnStep(c))
          /\ WF_vars(~panicked /\ c \in severed /\ EndBridge(c))
    /\ \A s \in Stoppers :
          /\ WF_vars(~panicked /\ stopAt[s] # "idle" /\ StopStep(s))
          /\ SF_vars(~panicked /\ Deadline(s))
    /\ WF_vars(~panicked /\ Checker /\ HC!LoopStep)

SafeSpec == Init /\ [][Next]_vars
Spec     == SafeSpec /\ Fairness
-----------------------------------------------------------------------------
UniqueLabels == \A r, q \in Requests : r.label = q.label => r = q

(* No port is listed twice and a list with entries has an active one, so   *)
(* that a listener with backends never answers 503 for want of a choice.   *)
TableSound == Sound(backends)

(* At most one backend is active, when no two backends share a label.      *)
OneActive == AtMostOneActive(backends)

(* The checker watches exactly the listed backends: a backend that is      *)
(* never probed is never failed over from, and one that is no longer       *)
(* listed must not bring an old verdict back when it returns.              *)
HealthTracksTable == HealthEnabled /\ ~Phase1 => DOMAIN health = PortsOf(backends)

(* A goroutine that is picking asks about listed backends only: nobody     *)
(* changes the list between two of its questions.                          *)
PickIsListed ==
    \A c \in Conns :
        at[c] = "picking" => ToSet(todo[c]) \subseteq PortsOf(backends)

(* The counters that status reports, and that draining waits for, agree    *)
(* with the goroutines that are between the corresponding steps.           *)
Within(states)      == {c \in Conns : at[c] \in states}
WithinOn(p, states) == {c \in Conns : at[c] \in states /\ target[c] = p}

ConnAccounting ==
    /\ activeConns = Cardinality(Within(Counted))
    /\ connsSet = Within(Tracked)
    /\ \A p \in Ports :
          /\ metrics[p].active = Cardinality(WithinOn(p, Recorded))
          /\ metrics[p].total = Cardinality(WithinOn(p, Served))

(* The listener behaves as the abstract switchboard, when no two backends  *)
(* share a label: in particular failover, draining and the removal of a    *)
(* standby never change which backend is the active one.                   *)
SB == INSTANCE Switchboard
        WITH registered <- PortsOf(backends), current <- ActivePort(backends)
SwitchboardSpec == SB!Spec

(* Once backends and list no longer change, and the checker is not         *)
(* stopped, every pick is for good the first backend in picking order that *)
(* is up: traffic fails over from an active backend that is down and       *)
(* returns to one that is up, and is refused only when all are down.       *)
FirstThat(tbl, Good(_)) ==
    LET order == PickOrder(tbl)
        i     == SelectInSeq(order, Good)
    IN  IF i = 0 THEN NoPort ELSE order[i]
PickNow  == FirstThat(backends, HC!IsHealthy)
PickBest == FirstThat(backends, LAMBDA p : p \in up)

Failover ==
    /\ <>[](loop # "off" /\ ~stopped)
    /\ <>[][UNCHANGED <<backends, up>>]_<<backends, up>>
    => <>[](PickNow = PickBest)

(* An accepted connection is sooner or later carried or refused, whatever  *)
(* the callers and the checker do meanwhile.                               *)
AcceptedSettles ==
    \A c \in Conns :
        at[c] = "accepted" ~> (at[c] \in Tracked \cup Refused \/ panicked)

(* A call of StopGraceful returns, be the connections as long as they may. *)
StopReturns ==
    \A s \in Stoppers :
        stopAt[s] = "closing"
            ~> (stopAt[s] \in {"stopped", "drained", "forced"} \/ panicked)

(* A connection whose sockets the deadline closed is cleaned up after.     *)
SeveredEnds == \A c \in Conns : c \in severed ~> (at[c] = "closed" \/ panicked)
=============================================================================
