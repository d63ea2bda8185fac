------------------------------- MODULE Registry -----------------------------
(***************************************************************************)
(* The daemon's registry of backends: the request handlers and the process *)
(* sweeper of internal/daemon/server.go, working on two copies of every    *)
(* listen port's table, the listeners' and the StateManager's, and on the  *)
(* state file the daemon starts again from.                                *)
(*                                                                         *)
(* Three locks are involved and none spans a whole handler: s.mu guards    *)
(* the map of listeners (and is held throughout by a switch and by the     *)
(* sweeper's loop), each listener locks its own table, and the             *)
(* StateManager locks its tables for one operation, shared with others     *)
(* while the file is written.  A handler is therefore a sequence of steps. *)
(***************************************************************************)
EXTENDS BackendTable

CONSTANTS
    ListenPorts,
    ConfigPorts,     \* listen ports of services in the configuration file
    Ports,           \* backend ports
    Requests,        \* [port, label, pid] a client may register
    Pids, NoPid,
    Handlers,        \* requests that may be in progress at once
    Ops,             \* the requests clients make
    Mortal,          \* the processes that may die
    BindMayFail,     \* another program may hold a listen port
    MayHalt,         \* the daemon may stop or crash, and is started again
    MayTear,         \* ... even while the state file is being written
    SaveMayFail      \* the disk may be full, or the file not writable

ASSUME PortsAssumption ==
    /\ NoPort \notin ListenPorts
    /\ ConfigPorts \subseteq ListenPorts
    /\ NoPort \notin Ports
    /\ NoPid \notin Pids
    /\ Mortal \subseteq Pids
ASSUME RequestsAssumption ==
    \A r \in Requests :
        /\ r = [port |-> r.port, label |-> r.label, pid |-> r.pid]
        /\ r.port \in Ports
        /\ r.pid \in Pids \cup {NoPid}
ASSUME OpsAssumption == Ops \subseteq {"register", "unregister", "switch", "switchAll"}
ASSUME ActorsAssumption == "sweeper" \notin Handlers /\ "free" \notin Handlers

VARIABLES
    phase,      \* the daemon: "down", "loaded", "cleaned", "writing", "restoring", "up"
    tbl,        \* the listeners' tables
    portMap,    \* s.portMap: the listen ports that have a listener
    st,         \* state.Backends; a missing key is an empty table
    disk,       \* what the state file would load as
    mu,         \* who holds s.mu: a handler, "sweeper" or "free"
    at,         \* where each handler is; "idle" between requests
    job,        \* its request: operation, listen port, backend
    todo,       \* the listen ports a switch has still to visit
    sweepAt,    \* where the sweeper is
    sweepTodo,  \* the listen ports it has still to visit
    sweepPort,  \* the one it visits
    snap,       \* what is left of its copy of that port's table
    restored,   \* at start: how many entries of each table are restored
    alive,      \* the processes that run
    unsaved     \* history: a save has failed, and none succeeded since

serverVars  == <<phase, portMap, mu, restored>>
tableVars   == <<tbl, st, disk>>
handlerVars == <<at, job, todo>>
sweepVars   == <<sweepAt, sweepTodo, sweepPort, snap>>
vars == <<serverVars, tableVars, handlerVars, sweepVars, alive, unsaved>>

Entry == EntriesOf(Requests)
Tables == [ListenPorts -> Seq(Entry)]
Empty  == [l \in ListenPorts |-> << >>]

Job   == [op : Ops, lp : ListenPorts \cup {NoPort}, req : Requests]
NoJob == [op |-> "none", lp |-> NoPort, req |-> NoPort]

HandlerStates ==
    {"idle", "locating", "adding", "recording", "finding", "removing", "erasing",
     "locking", "switching", "marking", "saving", "writing"}
SweepStates == {"idle", "locking", "visiting", "removing", "saving", "writing"}

(* The types; in particular a switch visits listen ports, and every table, *)
(* the loaded one too, holds what clients registered.                      *)
TypeOK ==
    /\ phase \in {"down", "loaded", "cleaned", "writing", "restoring", "up"}
    /\ tbl \in Tables /\ st \in Tables /\ disk \in Tables
    /\ portMap \subseteq ListenPorts
    /\ mu \in Handlers \cup {"sweeper", "free"}
    /\ at \in [Handlers -> HandlerStates]
    /\ job \in [Handlers -> Job \cup {NoJob}]
    /\ todo \in [Handlers -> SUBSET ListenPorts]
    /\ sweepAt \in SweepStates
    /\ sweepTodo \subseteq ListenPorts
    /\ sweepPort \in ListenPorts \cup {NoPort}
    /\ snap \in Seq(Entry)
    /\ restored \in [ListenPorts -> Nat]
    /\ alive \subseteq Pids
    /\ unsaved \in BOOLEAN

(* Before the daemon's first start there is no state file.                 *)
Init ==
    /\ phase = "down"
    /\ tbl = Empty /\ st = Empty /\ disk = Empty
    /\ portMap = {}
    /\ mu = "free"
    /\ at = [h \in Handlers |-> "idle"]
    /\ job = [h \in Handlers |-> NoJob]
    /\ todo = [h \in Handlers |-> {}]
    /\ sweepAt = "idle" /\ sweepTodo = {} /\ sweepPort = NoPort /\ snap = << >>
    /\ restored = [l \in ListenPorts |-> 0]
    /\ alive = Pids
    /\ unsaved = FALSE

-----------------------------------------------------------------------------
(* The state file is truncated and then written, under the StateManager's  *)
(* read lock: two savers may overlap, but no table changes meanwhile.      *)
Writing == sweepAt = "writing" \/ \E h \in Handlers : at[h] = "writing"

Goto(h, state) == at' = [at EXCEPT ![h] = state]

Answer(h) ==
    /\ at' = [at EXCEPT ![h] = "idle"]
    /\ job' = [job EXCEPT ![h] = NoJob]
    /\ todo' = [todo EXCEPT ![h] = {}]

(* A request arrives; a process that registers a backend registers itself. *)
(* A switch takes s.mu first, the others look the listener up.             *)
FirstStep(op) ==
    CASE op = "register"   -> "locating"
      [] op = "unregister" -> "finding"
      [] OTHER             -> "locking"

Ask(h, j) ==
    /\ phase = "up"
    /\ at[h] = "idle"
    /\ j.op = "register" => j.req.pid \in alive \cup {NoPid}
    /\ Goto(h, FirstStep(j.op))
    /\ job' = [job EXCEPT ![h] = j]
    /\ UNCHANGED <<todo, serverVars, tableVars, sweepVars, alive, unsaved>>

(***************************************************************************)
(* handleRegister: getOrCreateListener, AddBackend, state.AddBackend, Save *)
(***************************************************************************)
Locate(h) ==
    /\ at[h] = "locating"
    /\ mu = "free"
    /\ Goto(h, "adding")
    /\ portMap' = portMap \cup {job[h].lp}
    /\ UNCHANGED <<phase, mu, restored, job, todo, tableVars, sweepVars, alive, unsaved>>

LocateFails(h) ==
    /\ at[h] = "locating"
    /\ mu = "free"
    /\ BindMayFail
    /\ job[h].lp \notin portMap
    /\ Answer(h)
    /\ UNCHANGED <<serverVars, tableVars, sweepVars, alive, unsaved>>

Add(h) ==
    LET l == job[h].lp
        r == job[h].req
    IN  /\ at[h] = "adding"
        /\ tbl' = [tbl EXCEPT ![l] = Enlist(@, r)]
        /\ IF r.port \in PortsOf(tbl[l])
           THEN Answer(h)
           ELSE Goto(h, "recording") /\ UNCHANGED <<job, todo>>
        /\ UNCHANGED <<st, disk, serverVars, sweepVars, alive, unsaved>>

(* A registration that is answered without being saved.                    *)
RecordAddUnsaved(h) ==
    /\ at[h] = "recording"
    /\ ~Writing
    /\ st' = [st EXCEPT ![job[h].lp] = Enlist(@, job[h].req)]
    /\ Answer(h)
    /\ UNCHANGED <<tbl, disk, serverVars, sweepVars, alive, unsaved>>

RecordAdd(h) ==
    /\ at[h] = "recording"
    /\ ~Writing
    /\ st' = [st EXCEPT ![job[h].lp] = Enlist(@, job[h].req)]
    /\ Goto(h, "saving")
    /\ UNCHANGED <<tbl, disk, job, todo, serverVars, sweepVars, alive, unsaved>>

(***************************************************************************)
(* handleUnregister: look the listener up, RemoveBackend,                  *)
(* state.RemoveBackend, Save.  Neither removal says whether it found it.   *)
(***************************************************************************)
Find(h) ==
    /\ at[h] = "finding"
    /\ mu = "free"
    /\ IF job[h].lp \in portMap
       THEN Goto(h, "removing") /\ UNCHANGED <<job, todo>>
       ELSE Answer(h)
    /\ UNCHANGED <<serverVars, tableVars, sweepVars, alive, unsaved>>

(* A removal of every backend of the listen port, not of the one named.    *)
TakeOutAll(h) ==
    /\ at[h] = "removing"
    /\ tbl' = [tbl EXCEPT ![job[h].lp] = << >>]
    /\ Goto(h, "erasing")
    /\ UNCHANGED <<st, disk, job, todo, serverVars, sweepVars, alive, unsaved>>

TakeOut(h) ==
    /\ at[h] = "removing"
    /\ tbl' = [tbl EXCEPT ![job[h].lp] = Delist(@, job[h].req.port)]
    /\ Goto(h, "erasing")
    /\ UNCHANGED <<st, disk, job, todo, serverVars, sweepVars, alive, unsaved>>

Erase(h) ==
    /\ at[h] = "erasing"
    /\ ~Writing
    /\ st' = [st EXCEPT ![job[h].lp] = Delist(@, job[h].req.port)]
    /\ Goto(h, "saving")
    /\ UNCHANGED <<tbl, disk, job, todo, serverVars, sweepVars, alive, unsaved>>

(***************************************************************************)
(* handleSwitch holds s.mu until it answers.  For one listen port an       *)
(* unknown port or label is an error; over all of them it is passed over.  *)
(***************************************************************************)
Lock(h) ==
    /\ at[h] = "locking"
    /\ mu = "free"
    /\ IF job[h].op = "switch" /\ job[h].lp \notin portMap
       THEN Answer(h) /\ UNCHANGED mu
       ELSE /\ mu' = h
            /\ Goto(h, "switching")
            /\ todo' = [todo EXCEPT ![h] = IF job[h].op = "switch" THEN {job[h].lp} ELSE portMap]
            /\ UNCHANGED job
    /\ UNCHANGED <<phase, portMap, restored, tableVars, sweepVars, alive, unsaved>>

Knows(h, l) == job[h].req.label \in LabelsOf(tbl[l])

SwitchOne(h, l) ==
    /\ at[h] = "switching"
    /\ l \in todo[h]
    /\ Knows(h, l)
    /\ tbl' = [tbl EXCEPT ![l] = Activate(@, job[h].req.label)]
    /\ job' = [job EXCEPT ![h].lp = l]
    /\ todo' = [todo EXCEPT ![h] = @ \ {l}]
    /\ Goto(h, "marking")
    /\ UNCHANGED <<st, disk, serverVars, sweepVars, alive, unsaved>>

(* The error path that keeps the lock.                                     *)
PassOverLocked(h, l) ==
    /\ at[h] = "switching"
    /\ l \in todo[h]
    /\ ~Knows(h, l)
    /\ Answer(h)
    /\ UNCHANGED <<serverVars, tableVars, sweepVars, alive, unsaved>>

PassOver(h, l) ==
    /\ at[h] = "switching"
    /\ l \in todo[h]
    /\ ~Knows(h, l)
    /\ IF job[h].op = "switch"
       THEN Answer(h) /\ mu' = "free"
       ELSE todo' = [todo EXCEPT ![h] = @ \ {l}] /\ UNCHANGED <<at, job, mu>>
    /\ UNCHANGED <<phase, portMap, restored, tableVars, sweepVars, alive, unsaved>>

(* state.SwitchActive; that the label is unknown there is only logged.     *)
Mark(h) ==
    /\ at[h] = "marking"
    /\ ~Writing
    /\ st' = [st EXCEPT ![job[h].lp] = Activate(@, job[h].req.label)]
    /\ Goto(h, "switching")
    /\ UNCHANGED <<tbl, disk, job, todo, serverVars, sweepVars, alive, unsaved>>

EndSwitch(h) ==
    /\ at[h] = "switching"
    /\ todo[h] = {}
    /\ Goto(h, "saving")
    /\ UNCHANGED <<job, todo, serverVars, tableVars, sweepVars, alive, unsaved>>

(***************************************************************************)
(* Save, and the answer.                                                   *)
(***************************************************************************)
Truncate(h) ==
    /\ at[h] = "saving"
    /\ disk' = Empty
    /\ Goto(h, "writing")
    /\ UNCHANGED <<tbl, st, job, todo, serverVars, sweepVars, alive, unsaved>>

Write(h) ==
    /\ at[h] = "writing"
    /\ disk' = st
    /\ Answer(h)
    /\ mu' = IF mu = h THEN "free" ELSE mu
    /\ unsaved' = FALSE
    /\ UNCHANGED <<tbl, st, phase, portMap, restored, sweepVars, alive>>

(* The file cannot be opened, or not be written once it is truncated.  The *)
(* error is logged and the request answered as if it had been.             *)
WriteFails(h) ==
    /\ SaveMayFail
    /\ at[h] \in {"saving", "writing"}
    /\ Answer(h)
    /\ mu' = IF mu = h THEN "free" ELSE mu
    /\ unsaved' = TRUE
    /\ UNCHANGED <<tableVars, phase, portMap, restored, sweepVars, alive>>

HandlerStep(h) ==
    \/ Locate(h) \/ LocateFails(h) \/ Add(h) \/ RecordAdd(h)
    \/ Find(h) \/ TakeOut(h) \/ Erase(h)
    \/ Lock(h) \/ Mark(h) \/ EndSwitch(h)
    \/ \E l \in ListenPorts : SwitchOne(h, l) \/ PassOver(h, l)
    \/ Truncate(h) \/ Write(h) \/ WriteFails(h)

(***************************************************************************)
(* startPIDSweeper: every 30 s drop the dead from the state's tables; when *)
(* any was dropped, take s.mu and walk the listeners, removing from each   *)
(* by port number the entries of a copy of its table that are dead; Save.  *)
(***************************************************************************)
Dead(pid) == pid # NoPid /\ pid \notin alive

Purged == [l \in ListenPorts |-> DropDead(st[l], NoPid, alive)]
HasDead(t) == \E i \in DOMAIN t : Dead(t[i].pid)

Clean ==
    /\ phase = "up"
    /\ sweepAt = "idle"
    /\ ~Writing
    /\ st' = Purged
    /\ sweepAt' = IF \E l \in ListenPorts : HasDead(st[l]) THEN "locking" ELSE "idle"
    /\ UNCHANGED <<tbl, disk, sweepTodo, sweepPort, snap, serverVars, handlerVars, alive, unsaved>>

(* A sweep of the configured listeners only.                               *)
LockSweepConfigured ==
    /\ sweepAt = "locking"
    /\ mu = "free"
    /\ mu' = "sweeper"
    /\ sweepAt' = "visiting"
    /\ sweepTodo' = ConfigPorts
    /\ UNCHANGED <<phase, portMap, restored, sweepPort, snap, tableVars, handlerVars, alive, unsaved>>

LockSweep ==
    /\ sweepAt = "locking"
    /\ mu = "free"
    /\ mu' = "sweeper"
    /\ sweepAt' = "visiting"
    /\ sweepTodo' = portMap
    /\ UNCHANGED <<phase, portMap, restored, sweepPort, snap, tableVars, handlerVars, alive, unsaved>>

Visit(l) ==
    /\ sweepAt = "visiting"
    /\ l \in sweepTodo
    /\ sweepTodo' = sweepTodo \ {l}
    /\ sweepPort' = l
    /\ snap' = tbl[l]
    /\ sweepAt' = "removing"
    /\ UNCHANGED <<serverVars, tableVars, handlerVars, alive, unsaved>>

SweepEntry ==
    /\ sweepAt = "removing"
    /\ snap # << >>
    /\ snap' = Tail(snap)
    /\ tbl' = IF Dead(Head(snap).pid)
              THEN [tbl EXCEPT ![sweepPort] = Delist(@, Head(snap).port)]
              ELSE tbl
    /\ UNCHANGED <<st, disk, sweepAt, sweepTodo, sweepPort, serverVars, handlerVars, alive, unsaved>>

EndVisit ==
    /\ sweepAt = "removing"
    /\ snap = << >>
    /\ sweepPort' = NoPort
    /\ sweepAt' = "visiting"
    /\ UNCHANGED <<sweepTodo, snap, serverVars, tableVars, handlerVars, alive, unsaved>>

EndSweep ==
    /\ sweepAt = "visiting"
    /\ sweepTodo = {}
    /\ mu' = "free"
    /\ sweepAt' = "saving"
    /\ UNCHANGED <<phase, portMap, restored, sweepTodo, sweepPort, snap,
                   tableVars, handlerVars, alive, unsaved>>

TruncateSweep ==
    /\ sweepAt = "saving"
    /\ disk' = Empty
    /\ sweepAt' = "writing"
    /\ UNCHANGED <<tbl, st, sweepTodo, sweepPort, snap, serverVars, handlerVars, alive, unsaved>>

WriteSweep ==
    /\ sweepAt = "writing"
    /\ disk' = st
    /\ sweepAt' = "idle"
    /\ unsaved' = FALSE
    /\ UNCHANGED <<tbl, st, sweepTodo, sweepPort, snap, serverVars, handlerVars, alive>>

WriteSweepFails ==
    /\ SaveMayFail
    /\ sweepAt \in {"saving", "writing"}
    /\ sweepAt' = "idle"
    /\ unsaved' = TRUE
    /\ UNCHANGED <<tableVars, sweepTodo, sweepPort, snap, serverVars, handlerVars, alive>>

SweepStep ==
    \/ Clean \/ LockSweep \/ SweepEntry \/ EndVisit \/ EndSweep
    \/ \E l \in ListenPorts : Visit(l)
    \/ TruncateSweep \/ WriteSweep \/ WriteSweepFails

(***************************************************************************)
(* The daemon stops or crashes: everything but the file and the backend    *)
(* processes is gone.                                                      *)
(***************************************************************************)
Halt ==
    /\ MayHalt
    /\ phase # "down"
    /\ MayTear \/ ~(Writing \/ phase = "writing")
    /\ phase' = "down"
    /\ tbl' = Empty /\ st' = Empty /\ UNCHANGED disk
    /\ portMap' = {}
    /\ mu' = "free"
    /\ at' = [h \in Handlers |-> "idle"]
    /\ job' = [h \in Handlers |-> NoJob]
    /\ todo' = [h \in Handlers |-> {}]
    /\ sweepAt' = "idle" /\ sweepTodo' = {} /\ sweepPort' = NoPort /\ snap' = << >>
    /\ restored' = [l \in ListenPorts |-> 0]
    /\ unsaved' = FALSE
    /\ UNCHANGED alive

(***************************************************************************)
(* The daemon starts: load the file, make the configured listeners, drop   *)
(* the dead (saving if there were any), then add the entries one by one,   *)
(* switching to each that was active.  A table whose listener cannot be    *)
(* made is passed over.  Requests and the sweeper come after that.         *)
(***************************************************************************)
Load ==
    /\ phase = "down"
    /\ phase' = "loaded"
    /\ st' = disk
    /\ portMap' = ConfigPorts
    /\ UNCHANGED <<tbl, disk, mu, restored, handlerVars, sweepVars, alive, unsaved>>

CleanAtStart ==
    /\ phase = "loaded"
    /\ st' = Purged
    /\ phase' = IF \E l \in ListenPorts : HasDead(st[l]) THEN "cleaned" ELSE "restoring"
    /\ UNCHANGED <<tbl, disk, portMap, mu, restored, handlerVars, sweepVars, alive, unsaved>>

TruncateAtStart ==
    /\ phase = "cleaned"
    /\ phase' = "writing"
    /\ disk' = Empty
    /\ UNCHANGED <<tbl, st, portMap, mu, restored, handlerVars, sweepVars, alive, unsaved>>

WriteAtStart ==
    /\ phase = "writing"
    /\ phase' = "restoring"
    /\ disk' = st
    /\ UNCHANGED <<tbl, st, portMap, mu, restored, handlerVars, sweepVars, alive, unsaved>>

WriteAtStartFails ==
    /\ SaveMayFail
    /\ phase \in {"cleaned", "writing"}
    /\ phase' = "restoring"
    /\ unsaved' = TRUE
    /\ UNCHANGED <<tableVars, portMap, mu, restored, handlerVars, sweepVars, alive>>

(* Entries added again, the active one forgotten.                          *)
RestorePlain(t, e) == Enlist(t, e)

RestoreOne(t, e) ==
    LET added == Enlist(t, e)
    IN  IF e.active THEN Activate(added, e.label) ELSE added

Restore(l) ==
    /\ phase = "restoring"
    /\ restored[l] < Len(st[l])
    /\ portMap' = portMap \cup {l}
    /\ restored' = [restored EXCEPT ![l] = @ + 1]
    /\ tbl' = [tbl EXCEPT ![l] = RestoreOne(@, st[l][restored[l] + 1])]
    /\ UNCHANGED <<phase, mu, st, disk, handlerVars, sweepVars, alive, unsaved>>

RestoreFails(l) ==
    /\ phase = "restoring"
    /\ BindMayFail
    /\ l \notin portMap
    /\ restored[l] < Len(st[l])
    /\ restored' = [restored EXCEPT ![l] = Len(st[l])]
    /\ UNCHANGED <<phase, portMap, mu, tableVars, handlerVars, sweepVars, alive, unsaved>>

Serve ==
    /\ phase = "restoring"
    /\ \A l \in ListenPorts : restored[l] = Len(st[l])
    /\ phase' = "up"
    /\ restored' = [l \in ListenPorts |-> 0]
    /\ UNCHANGED <<portMap, mu, tableVars, handlerVars, sweepVars, alive, unsaved>>

StartStep ==
    \/ Load \/ CleanAtStart \/ TruncateAtStart \/ WriteAtStart \/ WriteAtStartFails
    \/ \E l \in ListenPorts : Restore(l) \/ RestoreFails(l)
    \/ Serve

(* A backend's process ends by itself; its number is not used again.       *)
Die(pid) ==
    /\ alive' = alive \ {pid}
    /\ UNCHANGED <<serverVars, tableVars, handlerVars, sweepVars, unsaved>>

Asked ==
    {j \in Job : j.lp = NoPort <=> j.op = "switchAll"}

Next ==
    \/ \E h \in Handlers, j \in Asked : Ask(h, j)
    \/ \E h \in Handlers : HandlerStep(h)
    \/ SweepStep
    \/ StartStep
    \/ Halt
    \/ \E pid \in Mortal \cap alive : Die(pid)

(* The daemon is started again, and its goroutines run.  Waiting for a     *)
(* lock is fair: Go hands a mutex to a waiter it has starved, and a        *)
(* waiting writer of an RWMutex holds back later readers.                  *)
Fairness ==
    /\ WF_vars(StartStep)
    /\ \A h \in Handlers : SF_vars(HandlerStep(h))
    /\ SF_vars(SweepStep)

SafeSpec == Init /\ [][Next]_vars
Spec     == SafeSpec /\ Fairness
-----------------------------------------------------------------------------
(* In the listeners, in the state and in the file: no port twice, a table  *)
(* with entries has an active one, and no more than one when no two        *)
(* backends share a label.                                                 *)
UniqueLabels == \A r, q \in Requests : r.label = q.label => r = q

TablesSound ==
    \A l \in ListenPorts : \A t \in {tbl[l], st[l], disk[l]} :
        Sound(t) /\ (UniqueLabels => AtMostOneActive(t))

(* Whoever holds s.mu is on the way to release it: no early return, no     *)
(* error path of a switch or of the sweeper keeps it, which would block    *)
(* every later request.                                                    *)
LockIsReleased ==
    /\ mu \in Handlers => at[mu] \in {"switching", "marking", "saving", "writing"}
    /\ mu = "sweeper" => sweepAt \in {"visiting", "removing"}

(* Somebody who has changed the state has yet to save it.                  *)
SavePending ==
    \/ \E h \in Handlers : at[h] \in {"switching", "marking", "saving", "writing"}
    \/ sweepAt # "idle"

(* What a client was told is done survives the daemon's end at any moment  *)
(* but the one between truncating the file and writing it, and a save that *)
(* failed is made up for by the next: however handlers and sweeper         *)
(* overlap, the file lags behind the state only while somebody who changed *)
(* the state is still going to save it; a backend is missing from the file *)
(* only while its own registration or removal is in progress, and in the   *)
(* file too long only then or before a sweep is saved.                     *)
InProgress(l, p) == \E h \in Handlers : job[h].lp = l /\ job[h].req.port = p

FileCurrent ==
    phase = "up" /\ ~Writing /\ ~unsaved =>
        /\ disk # st => SavePending
        /\ \A l \in ListenPorts :
              /\ \A p \in PortsOf(st[l]) \ PortsOf(disk[l]) : InProgress(l, p)
              /\ \A p \in PortsOf(disk[l]) \ PortsOf(st[l]) :
                    InProgress(l, p) \/ sweepAt # "idle"

(* The daemon as its clients know it, when no two backends share a label:  *)
(* no order of requests, sweeps and restarts moves the traffic of a listen *)
(* port but for a switch or the loss of the current backend, and a daemon  *)
(* that starts again serves what the file recorded, with the same current  *)
(* backends but for those that died.                                       *)
BoardOf(t)  == [registered |-> PortsOf(t), current |-> ActivePort(t)]
BoardsOf(f) == [l \in ListenPorts |-> BoardOf(f[l])]

Stage ==
    CASE phase = "down" -> "down"
      [] phase = "up"   -> "serving"
      [] OTHER          -> "starting"

SBS == INSTANCE Switchboards WITH
           stage  <- Stage,
           board  <- BoardsOf(IF phase = "up" THEN tbl ELSE Empty),
           record <- BoardsOf(st),
           file   <- BoardsOf(disk)
SwitchboardsSpec == SBS!Spec

Quiet == phase = "up" /\ sweepAt = "idle" /\ \A h \in Handlers : at[h] = "idle"

Lists(t, pid) == \E i \in DOMAIN t : t[i].pid = pid
=============================================================================
