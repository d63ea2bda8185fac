--------------------------- MODULE RegistryProofs ---------------------------
(***************************************************************************)
(* Theorems about the registry of backends, for every set of listen ports, *)
(* backends, processes and concurrent requests: its tables are sound in    *)
(* all three copies, s.mu is always on the way to its release, and the     *)
(* file lags behind the state only while somebody is going to save it; the *)
(* registry implements the boards its clients know, and listeners and      *)
(* state agree when nothing disturbs the daemon.                           *)
(* And about the wrappers that are its clients: what a running command was *)
(* registered as stays in the tables.                                      *)
(***************************************************************************)
EXTENDS ExecWrapper, RegistryHistory, BackendTableProofs

USE PortsAssumption, RequestsAssumption, OpsAssumption, ActorsAssumption

-----------------------------------------------------------------------------
(* The tables.                                                             *)

(* What every copy of every table is, at all times.                        *)
GoodTables ==
    {t \in Seq(Entry) : Sound(t) /\ (UniqueLabels => AtMostOneActive(t))}

GoodPart ==
    /\ tbl \in [ListenPorts -> GoodTables]
    /\ st \in [ListenPorts -> GoodTables]
    /\ disk \in [ListenPorts -> GoodTables]

(* The empty tables are good.                                              *)
LEMMA EmptyIsGood == << >> \in GoodTables /\ Empty \in [ListenPorts -> GoodTables]
<1>1. << >> \in Seq(Entry) /\ DOMAIN << >> = {}
    BY EmptySeq
<1>2. << >> \in GoodTables
    BY <1>1 DEF GoodTables, Sound, DistinctPorts, SomeActive, AtMostOneActive, ActiveAt
<1>3. QED BY <1>2 DEF Empty

(* A registration, a removal, a switch and a cleaning keep a good table    *)
(* good, and they change the listed ports as their names say.              *)
LEMMA OperationsAreGood ==
    ASSUME NEW t \in GoodTables
    PROVE  /\ \A r \in Requests : /\ Enlist(t, r) \in GoodTables
                                  /\ PortsOf(Enlist(t, r)) = PortsOf(t) \cup {r.port}
           /\ \A p : /\ Delist(t, p) \in GoodTables
                     /\ PortsOf(Delist(t, p)) = PortsOf(t) \ {p}
           /\ \A b : /\ Activate(t, b) \in GoodTables
                     /\ PortsOf(Activate(t, b)) = PortsOf(t)
           /\ /\ DropDead(t, NoPid, alive) \in GoodTables
              /\ PortsOf(DropDead(t, NoPid, alive)) \subseteq PortsOf(t)
              /\ ~HasDead(t) => DropDead(t, NoPid, alive) = t
<1>1. t \in Seq(EntriesOf(Requests)) /\ Sound(t) /\ (UniqueLabels => AtMostOneActive(t))
    BY DEF GoodTables, Entry
<1>2. ASSUME NEW r \in Requests
      PROVE  /\ Enlist(t, r) \in GoodTables
             /\ PortsOf(Enlist(t, r)) = PortsOf(t) \cup {r.port}
    BY <1>1, EnlistFacts DEF GoodTables, Entry
<1>3. ASSUME NEW p
      PROVE  Delist(t, p) \in GoodTables /\ PortsOf(Delist(t, p)) = PortsOf(t) \ {p}
    BY <1>1, DelistFacts DEF GoodTables, Entry
<1>4. ASSUME NEW b
      PROVE  Activate(t, b) \in GoodTables /\ PortsOf(Activate(t, b)) = PortsOf(t)
    <2>1. UniqueLabels => OneLabelEach(Requests)
        BY DEF UniqueLabels, OneLabelEach
    <2>2. QED BY <1>1, <2>1, ActivateFacts DEF GoodTables, Entry
<1>5. /\ DropDead(t, NoPid, alive) \in GoodTables
      /\ PortsOf(DropDead(t, NoPid, alive)) \subseteq PortsOf(t)
      /\ ~HasDead(t) => DropDead(t, NoPid, alive) = t
    <2>1. ~HasDead(t) => \A i \in DOMAIN t : Keeps(t[i], NoPid, alive)
        BY DEF HasDead, Dead, Keeps
    <2>2. QED BY <1>1, <2>1, DropDeadFacts DEF GoodTables, Entry
<1>6. QED BY <1>2, <1>3, <1>4, <1>5

(* An entry that is added again is the request it was made from.           *)
LEMMA RestoreIsGood ==
    ASSUME NEW t \in GoodTables, NEW e \in Entry
    PROVE  RestoreOne(t, e) \in GoodTables
<1>1. PICK r \in Requests, a \in BOOLEAN : e = EntryOf(r, a)
    BY DEF Entry, EntriesOf
<1>2. e.port = r.port /\ EntryOf(e, t = << >>) = EntryOf(r, t = << >>)
    BY <1>1 DEF EntryOf
<1>3. Enlist(t, e) = Enlist(t, r)
    BY <1>2 DEF Enlist
<1>4. Enlist(t, e) \in GoodTables
    BY <1>3, OperationsAreGood
<1>5. QED BY <1>4, OperationsAreGood DEF RestoreOne

-----------------------------------------------------------------------------
(* What the handlers and the sweeper work on.                              *)

(* A request in progress is one a client made: it names a listen port,     *)
(* unless it is a switch of all of them that has none to mark.  The        *)
(* sweeper removes from the table of a listen port.                        *)
WorkPart ==
    /\ \A h \in Handlers :
          /\ at[h] # "idle" => job[h] \in Job
          /\ at[h] \in HandlerStates \ {"idle", "locking", "switching", "saving", "writing"}
                => job[h].lp \in ListenPorts
          /\ at[h] # "idle" /\ job[h].op # "switchAll" => job[h].lp \in ListenPorts
    /\ sweepAt = "removing" => sweepPort \in ListenPorts

(* A switch of one listen port has no other left to visit, and none once   *)
(* it has switched that one.                                               *)
SwitchPart ==
    \A h \in Handlers : job[h].op = "switch" =>
        /\ at[h] = "switching" => todo[h] \subseteq {job[h].lp}
        /\ at[h] = "marking" => todo[h] = {}

(* Requests and sweeps come when the daemon is up.                         *)
StartPart ==
    phase # "up" =>
        /\ mu = "free" /\ sweepAt = "idle"
        /\ \A h \in Handlers : at[h] = "idle"

(* The daemon starts with what the file holds, unless it had to write it   *)
(* and could not.                                                          *)
LoadPart == phase \in {"loaded", "restoring"} /\ ~unsaved => disk = st

(* Who is going to save: a handler at its last steps, and a switch unless  *)
(* it may still be refused.                                                *)
Debtor(h) ==
    \/ at[h] = "saving"
    \/ at[h] \in {"switching", "marking"} /\ ~(job[h].op = "switch" /\ todo[h] # {})

Owes(l, p) ==
    \E h \in Handlers : at[h] = "saving" /\ job[h].lp = l /\ job[h].req.port = p

DebtPart ==
    phase = "up" /\ ~Writing /\ ~unsaved =>
        /\ disk # st => sweepAt # "idle" \/ \E h \in Handlers : Debtor(h)
        /\ \A l \in ListenPorts :
              /\ \A p \in PortsOf(st[l]) \ PortsOf(disk[l]) : Owes(l, p)
              /\ \A p \in PortsOf(disk[l]) \ PortsOf(st[l]) : Owes(l, p) \/ sweepAt # "idle"

DataPart == TypeOK /\ GoodPart /\ WorkPart

(* The daemon's first start finds no file.                                 *)
LEMMA DataInitially == Init => DataPart
<1> SUFFICES ASSUME Init PROVE DataPart
    OBVIOUS
<1>1. TypeOK
    <2>1. Empty \in Tables /\ << >> \in Seq(Entry)
        BY EmptyIsGood DEF GoodTables, Tables
    <2>2. QED BY <2>1 DEF Init, TypeOK, HandlerStates, SweepStates
<1>2. GoodPart
    BY EmptyIsGood DEF Init, GoodPart
<1>3. WorkPart
    BY DEF Init, WorkPart, HandlerStates
<1>4. QED BY <1>1, <1>2, <1>3 DEF DataPart

(* An answered handler is idle, and the other handlers are where they were. *)
LEMMA AnswerData ==
    ASSUME DataPart, NEW h \in Handlers, Answer(h), UNCHANGED sweepVars
    PROVE  /\ at' \in [Handlers -> HandlerStates]
           /\ job' \in [Handlers -> Job \cup {NoJob}]
           /\ todo' \in [Handlers -> SUBSET ListenPorts]
           /\ WorkPart'
<1>1. /\ at \in [Handlers -> HandlerStates]
      /\ job \in [Handlers -> Job \cup {NoJob}]
      /\ todo \in [Handlers -> SUBSET ListenPorts]
    BY DEF DataPart, TypeOK
<1>2. /\ at' \in [Handlers -> HandlerStates]
      /\ job' \in [Handlers -> Job \cup {NoJob}]
      /\ todo' \in [Handlers -> SUBSET ListenPorts]
    BY <1>1 DEF Answer, HandlerStates
<1>3. WorkPart'
    BY <1>1 DEF Answer, DataPart, WorkPart, sweepVars
<1>4. QED BY <1>2, <1>3

(* A handler that goes on works on the same request.                       *)
LEMMA GotoData ==
    ASSUME DataPart, NEW h \in Handlers, NEW s \in HandlerStates, Goto(h, s),
           at[h] # "idle", UNCHANGED job, UNCHANGED sweepVars,
           s \notin {"idle", "locking", "switching", "saving", "writing"}
              => job[h].lp \in ListenPorts
    PROVE  at' \in [Handlers -> HandlerStates] /\ WorkPart'
<1>1. at \in [Handlers -> HandlerStates]
    BY DEF DataPart, TypeOK
<1>2. at' = [at EXCEPT ![h] = s]
    BY DEF Goto
<1>3. WorkPart'
    BY <1>1, <1>2 DEF DataPart, WorkPart, sweepVars
<1>4. QED BY <1>1, <1>2, <1>3
(* Good copies hold tables.                                                *)
LEMMA GoodIsTyped ==
    ASSUME NEW f \in [ListenPorts -> GoodTables]
    PROVE  f \in Tables
    BY DEF GoodTables, Tables

(* A request.                                                              *)
LEMMA AskData ==
    ASSUME DataPart, NEW h \in Handlers, NEW j \in Asked, Ask(h, j)
    PROVE  DataPart'
<1> USE DEF DataPart
<1>1. /\ j \in Job
      /\ j.op # "switchAll" => j.lp \in ListenPorts
      /\ FirstStep(j.op) \in {"locating", "finding", "locking"}
      /\ FirstStep(j.op) # "locking" => j.lp \in ListenPorts
    BY DEF Asked, Job, FirstStep
<1>2. at' = [at EXCEPT ![h] = FirstStep(j.op)] /\ job' = [job EXCEPT ![h] = j]
    BY DEF Ask, Goto
<1>3. TypeOK'
    BY <1>1, <1>2 DEF Ask, TypeOK, HandlerStates, serverVars, tableVars, sweepVars
<1>4. WorkPart'
    BY <1>1, <1>2 DEF Ask, TypeOK, WorkPart, HandlerStates, sweepVars
<1>5. GoodPart'
    BY DEF Ask, GoodPart, tableVars
<1>6. QED BY <1>3, <1>4, <1>5

(* The steps of a handler that change no table.                            *)
LEMMA PassiveData ==
    ASSUME DataPart, NEW h \in Handlers,
           \/ Locate(h) \/ LocateFails(h) \/ Find(h) \/ Lock(h) \/ EndSwitch(h)
           \/ \E l \in ListenPorts : PassOver(h, l)
           \/ WriteFails(h)
    PROVE  DataPart'
<1> USE DEF DataPart
<1> SUFFICES TypeOK' /\ WorkPart'
    BY DEF GoodPart, Locate, LocateFails, Find, Lock, EndSwitch, PassOver, WriteFails, tableVars
<1>1. CASE Locate(h)
    <2>1. at[h] = "locating" /\ job[h].lp \in ListenPorts
        BY <1>1 DEF Locate, WorkPart, HandlerStates
    <2>2. at' \in [Handlers -> HandlerStates] /\ WorkPart'
        BY <1>1, <2>1, GotoData DEF Locate, HandlerStates
    <2>3. QED BY <1>1, <2>1, <2>2 DEF Locate, TypeOK, tableVars, sweepVars
<1>2. CASE LocateFails(h)
    BY <1>2, AnswerData DEF LocateFails, TypeOK, serverVars, tableVars, sweepVars
<1>3. CASE Find(h)
    <2>1. at[h] = "finding" /\ job[h].lp \in ListenPorts
        BY <1>3 DEF Find, WorkPart, HandlerStates
    <2>2. CASE job[h].lp \in portMap
        <3>1. at' \in [Handlers -> HandlerStates] /\ WorkPart'
            BY <1>3, <2>1, <2>2, GotoData DEF Find, HandlerStates
        <3>2. QED BY <1>3, <2>2, <3>1 DEF Find, TypeOK, serverVars, tableVars, sweepVars
    <2>3. CASE job[h].lp \notin portMap
        BY <1>3, <2>3, AnswerData DEF Find, TypeOK, serverVars, tableVars, sweepVars
    <2>4. QED BY <2>2, <2>3
<1>4. CASE Lock(h)
    <2>1. at[h] = "locking" /\ (job[h].op = "switch" => job[h].lp \in ListenPorts)
        BY <1>4 DEF Lock, WorkPart
    <2>2. CASE job[h].op = "switch" /\ job[h].lp \notin portMap
        BY <1>4, <2>2, AnswerData DEF Lock, TypeOK, tableVars, sweepVars
    <2>3. CASE ~(job[h].op = "switch" /\ job[h].lp \notin portMap)
        <3>1. at' \in [Handlers -> HandlerStates] /\ WorkPart'
            BY <1>4, <2>1, <2>3, GotoData DEF Lock, HandlerStates
        <3>2. /\ mu' = h /\ UNCHANGED job
              /\ todo' = [todo EXCEPT ![h] = IF job[h].op = "switch" THEN {job[h].lp} ELSE portMap]
            BY <1>4, <2>3 DEF Lock
        <3>3. todo' \in [Handlers -> SUBSET ListenPorts]
            BY <2>1, <3>2 DEF TypeOK
        <3>4. QED BY <1>4, <3>1, <3>2, <3>3 DEF Lock, TypeOK, tableVars, sweepVars
    <2>4. QED BY <2>2, <2>3
<1>5. CASE EndSwitch(h)
    <2>1. at' \in [Handlers -> HandlerStates] /\ WorkPart'
        BY <1>5, GotoData DEF EndSwitch, HandlerStates
    <2>2. QED BY <1>5, <2>1 DEF EndSwitch, TypeOK, serverVars, tableVars, sweepVars
<1>6. ASSUME NEW l \in ListenPorts, PassOver(h, l) PROVE TypeOK' /\ WorkPart'
    <2>1. CASE job[h].op = "switch"
        BY <1>6, <2>1, AnswerData DEF PassOver, TypeOK, tableVars, sweepVars
    <2>2. CASE job[h].op # "switch"
        BY <1>6, <2>2 DEF PassOver, TypeOK, WorkPart, tableVars, sweepVars
    <2>3. QED BY <2>1, <2>2
<1>7. CASE WriteFails(h)
    <2>1. mu' \in Handlers \cup {"sweeper", "free"}
        BY <1>7 DEF WriteFails, TypeOK
    <2>2. QED BY <1>7, <2>1, AnswerData DEF WriteFails, TypeOK, tableVars, sweepVars
<1>8. QED BY <1>1, <1>2, <1>3, <1>4, <1>5, <1>6, <1>7

(* The steps of a handler that change a listener's table.                  *)
LEMMA ListenerData ==
    ASSUME DataPart, NEW h \in Handlers,
           Add(h) \/ TakeOut(h) \/ \E l \in ListenPorts : SwitchOne(h, l)
    PROVE  DataPart'
<1> USE DEF DataPart
<1>1. tbl \in [ListenPorts -> GoodTables]
    BY DEF GoodPart
<1>2. ASSUME tbl' \in [ListenPorts -> GoodTables], UNCHANGED <<st, disk>>
      PROVE  GoodPart' /\ tbl' \in Tables
    BY <1>2, GoodIsTyped DEF GoodPart
<1>3. CASE Add(h)
    <2>1. at[h] = "adding" /\ job[h].lp \in ListenPorts /\ job[h].req \in Requests
        BY <1>3 DEF Add, WorkPart, HandlerStates, Job
    <2>2. tbl' \in [ListenPorts -> GoodTables]
        <3>1. tbl[job[h].lp] \in GoodTables
            BY <1>1, <2>1
        <3>2. Enlist(tbl[job[h].lp], job[h].req) \in GoodTables
            BY <2>1, <3>1, OperationsAreGood
        <3>3. QED BY <1>1, <1>3, <2>1, <3>2 DEF Add
    <2>3. CASE job[h].req.port \in PortsOf(tbl[job[h].lp])
        BY <1>2, <1>3, <2>2, <2>3, AnswerData DEF Add, TypeOK, serverVars, sweepVars
    <2>4. CASE job[h].req.port \notin PortsOf(tbl[job[h].lp])
        <3>1. at' \in [Handlers -> HandlerStates] /\ WorkPart'
            BY <1>3, <2>1, <2>4, GotoData DEF Add, HandlerStates
        <3>2. QED BY <1>2, <1>3, <2>2, <2>4, <3>1 DEF Add, TypeOK, serverVars, sweepVars
    <2>5. QED BY <2>3, <2>4
<1>4. CASE TakeOut(h)
    <2>1. at[h] = "removing" /\ job[h].lp \in ListenPorts
        BY <1>4 DEF TakeOut, WorkPart, HandlerStates
    <2>2. tbl' \in [ListenPorts -> GoodTables]
        <3>1. tbl[job[h].lp] \in GoodTables
            BY <1>1, <2>1
        <3>2. Delist(tbl[job[h].lp], job[h].req.port) \in GoodTables
            BY <3>1, OperationsAreGood
        <3>3. QED BY <1>1, <1>4, <2>1, <3>2 DEF TakeOut
    <2>3. at' \in [Handlers -> HandlerStates] /\ WorkPart'
        BY <1>4, <2>1, GotoData DEF TakeOut, HandlerStates
    <2>4. QED BY <1>2, <1>4, <2>2, <2>3 DEF TakeOut, TypeOK, serverVars, sweepVars
<1>5. ASSUME NEW l \in ListenPorts, SwitchOne(h, l) PROVE DataPart'
    <2>1. tbl' \in [ListenPorts -> GoodTables]
        <3>1. tbl[l] \in GoodTables
            BY <1>1
        <3>2. Activate(tbl[l], job[h].req.label) \in GoodTables
            BY <3>1, OperationsAreGood
        <3>3. QED BY <1>1, <1>5, <3>2 DEF SwitchOne
    <2>2. job[h] \in Job /\ job' = [job EXCEPT ![h] = [job[h] EXCEPT !.lp = l]]
        BY <1>5 DEF SwitchOne, WorkPart
    <2>3. [job[h] EXCEPT !.lp = l] \in Job /\ [job[h] EXCEPT !.lp = l].lp = l
        BY <2>2 DEF Job
    <2>4. at' \in [Handlers -> HandlerStates] /\ todo' \in [Handlers -> SUBSET ListenPorts]
        BY <1>5 DEF SwitchOne, Goto, TypeOK, HandlerStates
    <2>5. job' \in [Handlers -> Job \cup {NoJob}]
        BY <2>2, <2>3 DEF TypeOK
    <2>6. WorkPart'
        <3> DEFINE j == [job[h] EXCEPT !.lp = l]
        <3>1. \A k \in Handlers : /\ job'[k] = IF k = h THEN j ELSE job[k]
                                  /\ at'[k] = IF k = h THEN "marking" ELSE at[k]
            BY <1>5, <2>2 DEF SwitchOne, Goto, TypeOK
        <3>2. j \in Job /\ j.lp = l
            BY <2>3
        <3> HIDE DEF j
        <3>3. QED BY <1>5, <3>1, <3>2 DEF WorkPart, SwitchOne, sweepVars
    <2>7. QED BY <1>2, <1>5, <2>1, <2>4, <2>5, <2>6 DEF SwitchOne, TypeOK, serverVars, sweepVars
<1>6. QED BY <1>3, <1>4, <1>5
(* The steps of a handler that change the state's table, and the saving of *)
(* the state in the file.                                                  *)
LEMMA StateData ==
    ASSUME DataPart, NEW h \in Handlers,
           RecordAdd(h) \/ Erase(h) \/ Mark(h) \/ Truncate(h) \/ Write(h)
    PROVE  DataPart'
<1> USE DEF DataPart
<1> DEFINE l == job[h].lp
<1>1. st \in [ListenPorts -> GoodTables] /\ (l \in ListenPorts => st[l] \in GoodTables)
    BY DEF GoodPart
<1>2. ASSUME st' \in [ListenPorts -> GoodTables], UNCHANGED <<tbl, disk>>
      PROVE  GoodPart' /\ st' \in Tables
    BY <1>2, GoodIsTyped DEF GoodPart
<1>3. CASE RecordAdd(h)
    <2>1. at[h] = "recording" /\ l \in ListenPorts /\ job[h].req \in Requests
        BY <1>3 DEF RecordAdd, WorkPart, HandlerStates, Job
    <2>2. Enlist(st[l], job[h].req) \in GoodTables
        BY <1>1, <2>1, OperationsAreGood
    <2>3. st' \in [ListenPorts -> GoodTables]
        BY <1>1, <1>3, <2>1, <2>2 DEF RecordAdd
    <2>4. at' \in [Handlers -> HandlerStates] /\ WorkPart'
        BY <1>3, <2>1, GotoData DEF RecordAdd, HandlerStates
    <2>5. QED BY <1>2, <1>3, <2>3, <2>4 DEF RecordAdd, TypeOK, serverVars, sweepVars
<1>4. CASE Erase(h)
    <2>1. at[h] = "erasing" /\ l \in ListenPorts
        BY <1>4 DEF Erase, WorkPart, HandlerStates
    <2>2. Delist(st[l], job[h].req.port) \in GoodTables
        BY <1>1, <2>1, OperationsAreGood
    <2>3. st' \in [ListenPorts -> GoodTables]
        BY <1>1, <1>4, <2>1, <2>2 DEF Erase
    <2>4. at' \in [Handlers -> HandlerStates] /\ WorkPart'
        BY <1>4, <2>1, GotoData DEF Erase, HandlerStates
    <2>5. QED BY <1>2, <1>4, <2>3, <2>4 DEF Erase, TypeOK, serverVars, sweepVars
<1>5. CASE Mark(h)
    <2>1. at[h] = "marking" /\ l \in ListenPorts
        BY <1>5 DEF Mark, WorkPart, HandlerStates
    <2>2. Activate(st[l], job[h].req.label) \in GoodTables
        BY <1>1, <2>1, OperationsAreGood
    <2>3. st' \in [ListenPorts -> GoodTables]
        BY <1>1, <1>5, <2>1, <2>2 DEF Mark
    <2>4. at' \in [Handlers -> HandlerStates] /\ WorkPart'
        BY <1>5, <2>1, GotoData DEF Mark, HandlerStates
    <2>5. QED BY <1>2, <1>5, <2>3, <2>4 DEF Mark, TypeOK, serverVars, sweepVars
<1>6. ASSUME disk' \in [ListenPorts -> GoodTables], UNCHANGED <<tbl, st>>
      PROVE  GoodPart' /\ disk' \in Tables
    BY <1>6, GoodIsTyped DEF GoodPart
<1>7. CASE Truncate(h)
    <2>1. at' \in [Handlers -> HandlerStates] /\ WorkPart'
        BY <1>7, GotoData DEF Truncate, HandlerStates
    <2>2. QED BY <1>6, <1>7, <2>1, EmptyIsGood DEF Truncate, TypeOK, serverVars, sweepVars
<1>8. CASE Write(h)
    <2>1. mu' \in Handlers \cup {"sweeper", "free"}
        BY <1>8 DEF Write, TypeOK
    <2>2. QED BY <1>1, <1>6, <1>8, <2>1, AnswerData DEF Write, TypeOK, sweepVars
<1>9. QED BY <1>3, <1>4, <1>5, <1>7, <1>8

(* Dropping the dead from every table of the state keeps them good.        *)
LEMMA PurgedIsGood ==
    ASSUME GoodPart
    PROVE  /\ Purged \in [ListenPorts -> GoodTables]
           /\ \A l \in ListenPorts : PortsOf(Purged[l]) \subseteq PortsOf(st[l])
           /\ (\A l \in ListenPorts : ~HasDead(st[l])) => Purged = st
<1>1. st \in [ListenPorts -> GoodTables]
    BY DEF GoodPart
<1>2. ASSUME NEW l \in ListenPorts
      PROVE  /\ Purged[l] \in GoodTables
             /\ PortsOf(Purged[l]) \subseteq PortsOf(st[l])
             /\ ~HasDead(st[l]) => Purged[l] = st[l]
    <2>1. st[l] \in GoodTables /\ Purged[l] = DropDead(st[l], NoPid, alive)
        BY <1>1 DEF Purged
    <2>2. QED BY <2>1, OperationsAreGood
<1>3. Purged = [l \in ListenPorts |-> Purged[l]]
    BY DEF Purged
<1>4. Purged \in [ListenPorts -> GoodTables]
    BY <1>2, <1>3
<1>5. ASSUME \A l \in ListenPorts : ~HasDead(st[l])
      PROVE  Purged = st
    <2>1. \A l \in ListenPorts : Purged[l] = st[l]
        BY <1>2, <1>5
    <2>2. QED BY <1>1, <1>4, <2>1
<1>6. QED BY <1>2, <1>4, <1>5

(* The sweeper's steps.                                                    *)
LEMMA SweepData ==
    ASSUME DataPart, SweepStep
    PROVE  DataPart'
<1> USE DEF DataPart
<1>1. CASE Clean
    <2>1. st' \in [ListenPorts -> GoodTables] /\ st' \in Tables
        BY <1>1, PurgedIsGood, GoodIsTyped DEF Clean
    <2>2. GoodPart'
        BY <1>1, <2>1 DEF Clean, GoodPart
    <2>3. QED BY <1>1, <2>1, <2>2
            DEF Clean, TypeOK, WorkPart, SweepStates, serverVars, handlerVars
<1>2. CASE SweepEntry
    <2>1. sweepPort \in ListenPorts /\ tbl \in [ListenPorts -> GoodTables]
        BY <1>2 DEF SweepEntry, WorkPart, GoodPart
    <2>2. Delist(tbl[sweepPort], Head(snap).port) \in GoodTables
        BY <2>1, OperationsAreGood
    <2>3. tbl' \in [ListenPorts -> GoodTables] /\ tbl' \in Tables
        BY <1>2, <2>1, <2>2, GoodIsTyped DEF SweepEntry
    <2>4. GoodPart'
        BY <1>2, <2>3 DEF SweepEntry, GoodPart
    <2>5. snap' \in Seq(Entry)
        BY <1>2, HeadTailProperties DEF SweepEntry, TypeOK
    <2>6. QED BY <1>2, <2>3, <2>4, <2>5 DEF SweepEntry, TypeOK, WorkPart, serverVars, handlerVars
<1>3. ASSUME NEW l \in ListenPorts, Visit(l) PROVE DataPart'
    <2>1. tbl[l] \in Seq(Entry)
        BY DEF GoodPart, GoodTables
    <2>2. QED BY <1>3, <2>1 DEF Visit, TypeOK, GoodPart, WorkPart, SweepStates,
                               serverVars, tableVars, handlerVars
<1>4. CASE LockSweep \/ EndVisit \/ EndSweep \/ WriteSweepFails
    BY <1>4 DEF LockSweep, EndVisit, EndSweep, WriteSweepFails, TypeOK, GoodPart, WorkPart,
                SweepStates, serverVars, tableVars, handlerVars
<1>5. CASE TruncateSweep \/ WriteSweep
    <2>1. disk' \in [ListenPorts -> GoodTables] /\ disk' \in Tables
        BY <1>5, EmptyIsGood, GoodIsTyped DEF TruncateSweep, WriteSweep, GoodPart
    <2>2. GoodPart'
        BY <1>5, <2>1 DEF TruncateSweep, WriteSweep, GoodPart
    <2>3. QED BY <1>5, <2>1, <2>2 DEF TruncateSweep, WriteSweep, TypeOK, WorkPart, SweepStates,
                                     serverVars, handlerVars
<1>6. QED BY <1>1, <1>2, <1>3, <1>4, <1>5 DEF SweepStep

(* The daemon's start, its end, and the end of a backend's process.        *)
LEMMA DaemonData ==
    ASSUME DataPart, StartStep \/ Halt \/ \E pid \in Mortal \cap alive : Die(pid)
    PROVE  DataPart'
<1> USE DEF DataPart
<1>1. CASE Load
    <2>1. st' \in [ListenPorts -> GoodTables] /\ st' \in Tables
        BY <1>1, GoodIsTyped DEF Load, GoodPart
    <2>2. GoodPart'
        BY <1>1, <2>1 DEF Load, GoodPart
    <2>3. QED BY <1>1, <2>1, <2>2 DEF Load, TypeOK, WorkPart, handlerVars, sweepVars
<1>2. CASE CleanAtStart
    <2>1. st' \in [ListenPorts -> GoodTables] /\ st' \in Tables
        BY <1>2, PurgedIsGood, GoodIsTyped DEF CleanAtStart
    <2>2. GoodPart'
        BY <1>2, <2>1 DEF CleanAtStart, GoodPart
    <2>3. QED BY <1>2, <2>1, <2>2 DEF CleanAtStart, TypeOK, WorkPart, handlerVars, sweepVars
<1>3. CASE TruncateAtStart \/ WriteAtStart
    <2>1. disk' \in [ListenPorts -> GoodTables] /\ disk' \in Tables
        BY <1>3, EmptyIsGood, GoodIsTyped DEF TruncateAtStart, WriteAtStart, GoodPart
    <2>2. GoodPart'
        BY <1>3, <2>1 DEF TruncateAtStart, WriteAtStart, GoodPart
    <2>3. QED BY <1>3, <2>1, <2>2 DEF TruncateAtStart, WriteAtStart, TypeOK, WorkPart,
                                     handlerVars, sweepVars
<1>4. CASE WriteAtStartFails \/ Serve
    <2>1. restored' \in [ListenPorts -> Nat] /\ unsaved' \in BOOLEAN
        <3>1. CASE WriteAtStartFails
            BY <3>1 DEF WriteAtStartFails, TypeOK
        <3>2. CASE Serve
            <4>1. restored' = [l \in ListenPorts |-> 0] /\ unsaved' = unsaved
                BY <3>2 DEF Serve
            <4>2. QED BY <4>1 DEF TypeOK
        <3>3. QED BY <1>4, <3>1, <3>2
    <2>2. /\ phase' \in {"restoring", "up"}
          /\ UNCHANGED <<tableVars, portMap, mu, handlerVars, sweepVars, alive>>
        BY <1>4 DEF WriteAtStartFails, Serve
    <2>3. TypeOK'
        BY <2>1, <2>2 DEF TypeOK, tableVars, handlerVars, sweepVars
    <2>4. GoodPart' /\ WorkPart'
        BY <2>2 DEF GoodPart, WorkPart, tableVars, handlerVars, sweepVars
    <2>5. QED BY <2>3, <2>4
<1>5. ASSUME NEW l \in ListenPorts, Restore(l) PROVE DataPart'
    <2> DEFINE n == restored[l] + 1
    <2>1. tbl[l] \in GoodTables /\ st[l] \in Seq(Entry) /\ restored[l] \in Nat
        BY DEF GoodPart, GoodTables, TypeOK
    <2>2. st[l][n] \in Entry
        BY <1>5, <2>1, ElementOfSeq DEF Restore
    <2>3. RestoreOne(tbl[l], st[l][n]) \in GoodTables
        BY <2>1, <2>2, RestoreIsGood
    <2>4. tbl' \in [ListenPorts -> GoodTables] /\ tbl' \in Tables
        BY <1>5, <2>3, GoodIsTyped DEF Restore, GoodPart
    <2>5. GoodPart'
        BY <1>5, <2>4 DEF Restore, GoodPart
    <2>6. restored' \in [ListenPorts -> Nat]
        BY <1>5 DEF Restore, TypeOK
    <2>7. QED BY <1>5, <2>4, <2>5, <2>6 DEF Restore, TypeOK, WorkPart, handlerVars, sweepVars
<1>6. ASSUME NEW l \in ListenPorts, RestoreFails(l) PROVE DataPart'
    <2>1. Len(st[l]) \in Nat
        BY LenProperties DEF GoodPart, GoodTables
    <2>2. restored' \in [ListenPorts -> Nat]
        BY <1>6, <2>1 DEF RestoreFails, TypeOK
    <2>3. QED BY <1>6, <2>2 DEF RestoreFails, TypeOK, GoodPart, WorkPart,
                               tableVars, handlerVars, sweepVars
<1>7. CASE Halt
    <2>1. Empty \in Tables /\ << >> \in Seq(Entry)
        BY EmptyIsGood, GoodIsTyped DEF GoodTables
    <2>2. GoodPart'
        BY <1>7, EmptyIsGood DEF Halt, GoodPart
    <2>3. TypeOK'
        BY <1>7, <2>1 DEF Halt, TypeOK, HandlerStates, SweepStates
    <2>4. WorkPart'
        BY <1>7 DEF Halt, WorkPart, HandlerStates
    <2>5. QED BY <2>2, <2>3, <2>4
<1>8. ASSUME NEW pid \in Mortal \cap alive, Die(pid) PROVE DataPart'
    BY <1>8 DEF Die, TypeOK, GoodPart, WorkPart, serverVars, tableVars, handlerVars, sweepVars
<1>9. QED BY <1>1, <1>2, <1>3, <1>4, <1>5, <1>6, <1>7, <1>8 DEF StartStep

(* Every step keeps the tables, and what the steps work on.                *)
LEMMA DataStep ==
    ASSUME DataPart, [Next]_vars
    PROVE  DataPart'
<1>1. ASSUME NEW h \in Handlers, HandlerStep(h) PROVE DataPart'
    <2>1. CASE Locate(h) \/ LocateFails(h) \/ Find(h) \/ Lock(h) \/ EndSwitch(h) \/ WriteFails(h)
        BY <2>1, PassiveData
    <2>2. CASE Add(h) \/ TakeOut(h)
        BY <2>2, ListenerData
    <2>3. CASE RecordAdd(h) \/ Erase(h) \/ Mark(h) \/ Truncate(h) \/ Write(h)
        BY <2>3, StateData
    <2>4. ASSUME NEW l \in ListenPorts, SwitchOne(h, l) \/ PassOver(h, l) PROVE DataPart'
        BY <2>4, PassiveData, ListenerData
    <2>5. QED BY <1>1, <2>1, <2>2, <2>3, <2>4 DEF HandlerStep
<1>2. CASE UNCHANGED vars
    BY <1>2 DEF vars, serverVars, tableVars, handlerVars, sweepVars, DataPart, TypeOK,
                GoodPart, WorkPart
<1>3. QED BY <1>1, <1>2, AskData, SweepData, DaemonData DEF Next
-----------------------------------------------------------------------------
(* The lock, the switches and the start.                                   *)

(* Where the actors are, when one handler goes somewhere.                  *)
LEMMA MovedTo ==
    ASSUME DataPart, NEW h \in Handlers, NEW s, Goto(h, s)
    PROVE  \A k \in Handlers : at'[k] = IF k = h THEN s ELSE at[k]
    BY DEF DataPart, TypeOK, Goto

(* An answered handler is idle and has nothing to do.                      *)
LEMMA AnswerMoves ==
    ASSUME DataPart, NEW h \in Handlers, Answer(h)
    PROVE  \A k \in Handlers : /\ at'[k] = IF k = h THEN "idle" ELSE at[k]
                               /\ job'[k] = IF k = h THEN NoJob ELSE job[k]
                               /\ todo'[k] = IF k = h THEN {} ELSE todo[k]
<1>1. /\ at \in [Handlers -> HandlerStates]
      /\ job \in [Handlers -> Job \cup {NoJob}]
      /\ todo \in [Handlers -> SUBSET ListenPorts]
    BY DEF DataPart, TypeOK
<1>2. /\ at' = [at EXCEPT ![h] = "idle"]
      /\ job' = [job EXCEPT ![h] = NoJob]
      /\ todo' = [todo EXCEPT ![h] = {}]
    BY DEF Answer
<1>3. QED BY <1>1, <1>2

LockPart == LockIsReleased /\ SwitchPart /\ StartPart

(* At first the daemon does not run.                                       *)
LEMMA LockInitially == Init => LockPart
    BY DEF Init, LockPart, LockIsReleased, SwitchPart, StartPart

(* A handler's step leaves s.mu with somebody who will release it.         *)
LEMMA LockHandlerStep ==
    ASSUME DataPart, LockPart, NEW h \in Handlers, HandlerStep(h)
    PROVE  LockPart'
<1> USE DEF LockPart
<1>1. /\ mu = h => at[h] \in {"switching", "marking", "saving", "writing"}
      /\ at[h] # "idle"
      /\ phase = "up" /\ phase' = "up"
      /\ UNCHANGED sweepVars
    <2>1. at[h] # "idle" /\ UNCHANGED <<phase, sweepVars>>
        BY DEF HandlerStep, Locate, LocateFails, Add, RecordAdd, Find, TakeOut, Erase, Lock, Mark,
               EndSwitch, SwitchOne, PassOver, Truncate, Write, WriteFails, serverVars
    <2>2. QED BY <2>1 DEF LockIsReleased, StartPart
<1>2. StartPart'
    BY <1>1 DEF StartPart
<1>3. SUFFICES LockIsReleased' /\ SwitchPart'
    BY <1>2
<1>4. ASSUME Answer(h) PROVE SwitchPart'
    <2>1. /\ at'[h] = "idle"
          /\ \A k \in Handlers \ {h} : at'[k] = at[k] /\ job'[k] = job[k] /\ todo'[k] = todo[k]
        BY <1>4, AnswerMoves
    <2>2. QED BY <2>1 DEF SwitchPart
<1>5. ASSUME NEW s \in HandlerStates \ {"switching", "marking"}, Goto(h, s), UNCHANGED <<job, todo>>
      PROVE  SwitchPart'
    BY <1>5, MovedTo DEF SwitchPart
<1>6. CASE LocateFails(h) \/ RecordAdd(h) \/ Locate(h) \/ TakeOut(h) \/ Erase(h)
    <2>1. /\ at[h] \in {"locating", "recording", "removing", "erasing"} /\ mu' = mu
          /\ \/ Answer(h)
             \/ \E s \in {"adding", "erasing", "saving"} : Goto(h, s) /\ UNCHANGED <<job, todo>>
        BY <1>6 DEF LocateFails, RecordAdd, Locate, TakeOut, Erase, serverVars
    <2>2. mu # h /\ \A k \in Handlers \ {h} : at'[k] = at[k]
        BY <1>1, <2>1, AnswerMoves, MovedTo
    <2>3. QED BY <1>1, <1>4, <1>5, <2>1, <2>2 DEF LockIsReleased, sweepVars, HandlerStates
<1>7. CASE Add(h) \/ Find(h)
    <2>1. /\ at[h] \in {"adding", "finding"} /\ mu' = mu
          /\ \/ Answer(h)
             \/ \E s \in {"recording", "removing"} : Goto(h, s) /\ UNCHANGED <<job, todo>>
        BY <1>7 DEF Add, Find, serverVars
    <2>2. mu # h /\ \A k \in Handlers \ {h} : at'[k] = at[k]
        BY <1>1, <2>1, AnswerMoves, MovedTo
    <2>3. QED BY <1>1, <1>4, <1>5, <2>1, <2>2 DEF LockIsReleased, sweepVars, HandlerStates
<1>8. CASE Lock(h)
    <2>1. CASE job[h].op = "switch" /\ job[h].lp \notin portMap
        <3>1. Answer(h) /\ mu' = mu /\ mu = "free"
            BY <1>8, <2>1 DEF Lock
        <3>2. QED BY <1>4, <3>1 DEF LockIsReleased
    <2>2. CASE ~(job[h].op = "switch" /\ job[h].lp \notin portMap)
        <3>1. /\ mu' = h /\ Goto(h, "switching") /\ UNCHANGED job
              /\ todo' = [todo EXCEPT ![h] = IF job[h].op = "switch" THEN {job[h].lp} ELSE portMap]
            BY <1>8, <2>2 DEF Lock
        <3>2. \A k \in Handlers : at'[k] = IF k = h THEN "switching" ELSE at[k]
            BY <3>1, MovedTo
        <3>3. \A k \in Handlers : todo'[k] = IF k # h THEN todo[k]
                                  ELSE IF job[h].op = "switch" THEN {job[h].lp} ELSE portMap
            BY <3>1 DEF DataPart, TypeOK
        <3>4. QED BY <3>1, <3>2, <3>3 DEF LockIsReleased, SwitchPart
    <2>3. QED BY <2>1, <2>2
<1>9. CASE Mark(h)
    <2>1. /\ at[h] = "marking" /\ mu' = mu /\ Goto(h, "switching") /\ UNCHANGED <<job, todo>>
        BY <1>9 DEF Mark, serverVars
    <2>2. QED BY <1>1, <2>1, MovedTo DEF LockIsReleased, SwitchPart, sweepVars
<1>10. CASE EndSwitch(h) \/ Truncate(h)
    <2>1. /\ mu' = mu /\ UNCHANGED <<job, todo>>
          /\ Goto(h, "saving") \/ Goto(h, "writing")
        BY <1>10 DEF EndSwitch, Truncate, serverVars
    <2>2. QED BY <1>1, <1>5, <2>1, MovedTo DEF LockIsReleased, sweepVars, HandlerStates
<1>11. ASSUME NEW l \in ListenPorts, SwitchOne(h, l)
       PROVE  LockIsReleased' /\ SwitchPart'
    <2>1. /\ mu' = mu /\ at[h] = "switching" /\ l \in todo[h] /\ Goto(h, "marking")
          /\ todo' = [todo EXCEPT ![h] = @ \ {l}]
          /\ job' = [job EXCEPT ![h] = [job[h] EXCEPT !.lp = l]]
        BY <1>11 DEF SwitchOne, serverVars
    <2>2. /\ \A k \in Handlers : at'[k] = IF k = h THEN "marking" ELSE at[k]
          /\ \A k \in Handlers : todo'[k] = IF k = h THEN todo[h] \ {l} ELSE todo[k]
          /\ \A k \in Handlers \ {h} : job'[k] = job[k]
        BY <2>1, MovedTo DEF DataPart, TypeOK
    <2>3. job'[h].op = job[h].op
        <3>1. job[h] \in Job
            BY <2>1 DEF DataPart, WorkPart
        <3>2. [job[h] EXCEPT !.lp = l].op = job[h].op
            BY <3>1 DEF Job
        <3>3. job'[h] = [job[h] EXCEPT !.lp = l]
            BY <2>1 DEF DataPart, TypeOK
        <3>4. QED BY <3>2, <3>3
    <2>4. job[h].op = "switch" => todo[h] \ {l} = {}
        BY <2>1 DEF SwitchPart
    <2>5. SwitchPart'
        BY <2>2, <2>3, <2>4 DEF SwitchPart
    <2>6. QED BY <1>1, <2>1, <2>2, <2>5 DEF LockIsReleased, sweepVars
<1>12. ASSUME NEW l \in ListenPorts, PassOver(h, l)
       PROVE  LockIsReleased' /\ SwitchPart'
    <2>1. CASE job[h].op = "switch"
        <3>1. Answer(h) /\ mu' = "free"
            BY <1>12, <2>1 DEF PassOver
        <3>2. QED BY <1>4, <3>1 DEF LockIsReleased
    <2>2. CASE job[h].op # "switch"
        <3>1. /\ UNCHANGED <<at, job, mu>>
              /\ \A k \in Handlers \ {h} : todo'[k] = todo[k]
            BY <1>12, <2>2 DEF PassOver, DataPart, TypeOK
        <3>2. QED BY <1>1, <2>2, <3>1 DEF LockIsReleased, SwitchPart, sweepVars
    <2>3. QED BY <2>1, <2>2
<1>13. CASE Write(h) \/ WriteFails(h)
    <2>1. Answer(h) /\ mu' = IF mu = h THEN "free" ELSE mu
        BY <1>13 DEF Write, WriteFails
    <2>2. QED BY <1>1, <1>4, <2>1, AnswerMoves DEF LockIsReleased, sweepVars
<1>14. QED BY <1>6, <1>7, <1>8, <1>9, <1>10, <1>11, <1>12, <1>13 DEF HandlerStep

(* Every step leaves s.mu with somebody who will release it.               *)
LEMMA LockStep ==
    ASSUME DataPart, LockPart, [Next]_vars
    PROVE  LockPart'
<1> USE DEF LockPart
<1>1. ASSUME NEW h \in Handlers, NEW j \in Asked, Ask(h, j) PROVE LockPart'
    <2>1. /\ at[h] = "idle" /\ phase = "up" /\ UNCHANGED <<serverVars, sweepVars, todo>>
          /\ Goto(h, FirstStep(j.op)) /\ job' = [job EXCEPT ![h] = j]
          /\ FirstStep(j.op) \in {"locating", "finding", "locking"}
        BY <1>1 DEF Ask, FirstStep
    <2>2. /\ \A k \in Handlers \ {h} : at'[k] = at[k] /\ job'[k] = job[k]
          /\ at'[h] \in {"locating", "finding", "locking"}
        BY <2>1, MovedTo DEF DataPart, TypeOK
    <2>3. QED BY <2>1, <2>2 DEF LockIsReleased, SwitchPart, StartPart, serverVars, sweepVars
<1>2. CASE SweepStep
    <2>1. CASE Clean
        BY <2>1 DEF Clean, LockIsReleased, SwitchPart, StartPart, serverVars, handlerVars
    <2>2. CASE LockSweep \/ EndSweep
        BY <2>2 DEF LockSweep, EndSweep, LockIsReleased, SwitchPart, StartPart,
                    handlerVars
    <2>3. CASE SweepEntry \/ EndVisit \/ \E l \in ListenPorts : Visit(l)
        BY <2>3 DEF SweepEntry, EndVisit, Visit, LockIsReleased, SwitchPart, StartPart,
                    serverVars, handlerVars
    <2>4. CASE TruncateSweep \/ WriteSweep \/ WriteSweepFails
        BY <2>4 DEF TruncateSweep, WriteSweep, WriteSweepFails, LockIsReleased, SwitchPart,
                    StartPart, serverVars, handlerVars
    <2>5. QED BY <1>2, <2>1, <2>2, <2>3, <2>4 DEF SweepStep
<1>3. CASE StartStep
    <2>1. phase # "up" /\ UNCHANGED <<mu, handlerVars, sweepVars>>
        BY <1>3 DEF StartStep, Load, CleanAtStart, TruncateAtStart, WriteAtStart,
                    WriteAtStartFails, Restore, RestoreFails, Serve
    <2>2. QED BY <2>1 DEF LockIsReleased, SwitchPart, StartPart, handlerVars, sweepVars
<1>4. CASE Halt
    BY <1>4 DEF Halt, LockIsReleased, SwitchPart, StartPart
<1>5. ASSUME NEW pid \in Mortal \cap alive, Die(pid) PROVE LockPart'
    BY <1>5 DEF Die, LockIsReleased, SwitchPart, StartPart, serverVars, handlerVars, sweepVars
<1>6. CASE UNCHANGED vars
    BY <1>6 DEF vars, serverVars, handlerVars, sweepVars, LockIsReleased, SwitchPart, StartPart
<1>7. QED BY <1>1, <1>2, <1>3, <1>4, <1>5, <1>6, LockHandlerStep DEF Next
-----------------------------------------------------------------------------
(* The file.                                                               *)

FilePart == LoadPart /\ DebtPart

(* At first the daemon does not run.                                       *)
LEMMA FileInitially == Init => FilePart
    BY DEF Init, FilePart, LoadPart, DebtPart

(* Nothing is owed when the file holds the state.                          *)
LEMMA NothingOwed ==
    ASSUME disk' = st'
    PROVE  DebtPart'
    BY DEF DebtPart

(* A handler's step that touches neither the state nor the file, and that  *)
(* is not the end of a save, loses no debtor but by an answer that a       *)
(* debtor does not give.                                                   *)
LEMMA NoDebtLost ==
    ASSUME DebtPart, NEW h \in Handlers,
           UNCHANGED <<st, disk, unsaved, phase, sweepAt>>,
           \A k \in Handlers \ {h} : at'[k] = at[k] /\ job'[k] = job[k] /\ todo'[k] = todo[k],
           at[h] \notin {"saving", "writing"},
           Debtor(h) => Debtor(h)'
    PROVE  DebtPart'
<1> SUFFICES ASSUME phase' = "up", ~Writing', ~unsaved' PROVE DebtPart'
    BY DEF DebtPart
<1>1. phase = "up" /\ ~Writing /\ ~unsaved
    BY DEF Writing
<1>2. \A k \in Handlers : Debtor(k) => Debtor(k)'
    BY DEF Debtor
<1>3. \A l, p : Owes(l, p) => Owes(l, p)'
    BY DEF Owes
<1>4. QED BY <1>1, <1>2, <1>3 DEF DebtPart

(* A handler that changes one table of the state, in at most the port it   *)
(* works on, and is a debtor then, leaves nothing that nobody owes.        *)
LEMMA DebtMade ==
    ASSUME DataPart, DebtPart, NEW h \in Handlers, NEW l \in ListenPorts, NEW t, NEW p,
           st' = [st EXCEPT ![l] = t],
           PortsOf(t) \cup {p} = PortsOf(st[l]) \cup {p},
           PortsOf(t) = PortsOf(st[l]) \/ Owes(l, p)',
           UNCHANGED <<disk, unsaved, phase, sweepAt>>,
           \A k \in Handlers \ {h} : at'[k] = at[k] /\ job'[k] = job[k] /\ todo'[k] = todo[k],
           at[h] \notin {"saving", "writing"},
           Debtor(h)'
    PROVE  DebtPart'
<1> SUFFICES ASSUME phase' = "up", ~Writing', ~unsaved' PROVE DebtPart'
    BY DEF DebtPart
<1>1. phase = "up" /\ ~Writing /\ ~unsaved
    BY DEF Writing
<1>2. \A m, q : Owes(m, q) => Owes(m, q)'
    BY DEF Owes
<1>3. \A m \in ListenPorts : st'[m] = IF m = l THEN t ELSE st[m]
    BY DEF DataPart, TypeOK, Tables
<1>4. ASSUME NEW m \in ListenPorts, NEW q \in PortsOf(st'[m]) \ PortsOf(disk[m])
      PROVE  Owes(m, q)'
    <2>1. CASE q \in PortsOf(st[m])
        BY <1>1, <1>2, <1>4, <2>1 DEF DebtPart
    <2>2. CASE q \notin PortsOf(st[m])
        BY <1>3, <1>4, <2>2
    <2>3. QED BY <2>1, <2>2
<1>5. ASSUME NEW m \in ListenPorts, NEW q \in PortsOf(disk[m]) \ PortsOf(st'[m])
      PROVE  Owes(m, q)' \/ sweepAt # "idle"
    <2>1. CASE q \notin PortsOf(st[m])
        BY <1>1, <1>2, <1>5, <2>1 DEF DebtPart
    <2>2. CASE q \in PortsOf(st[m])
        BY <1>3, <1>5, <2>2
    <2>3. QED BY <2>1, <2>2
<1>6. PortsOf(st[l])' = PortsOf(st'[l])
    BY DEF PortsOf
<1>7. QED BY <1>4, <1>5 DEF DebtPart, PortsOf

(* A handler's step.                                                       *)
LEMMA FileHandlerStep ==
    ASSUME DataPart, LockPart, FilePart, NEW h \in Handlers, HandlerStep(h)
    PROVE  FilePart'
<1> USE DEF FilePart
<1>1. at[h] # "idle" /\ phase = "up" /\ phase' = "up" /\ sweepAt' = sweepAt
    <2>1. at[h] # "idle" /\ UNCHANGED <<phase, sweepAt>>
        BY DEF HandlerStep, Locate, LocateFails, Add, RecordAdd, Find, TakeOut, Erase, Lock, Mark,
               EndSwitch, SwitchOne, PassOver, Truncate, Write, WriteFails, serverVars, sweepVars
    <2>2. QED BY <2>1 DEF LockPart, StartPart
<1>2. SUFFICES DebtPart'
    BY <1>1 DEF LoadPart
<1> DEFINE Others == \A k \in Handlers \ {h} :
                        at'[k] = at[k] /\ job'[k] = job[k] /\ todo'[k] = todo[k]
<1>3. ASSUME NEW s, Goto(h, s), UNCHANGED <<job, todo>> PROVE Others /\ at'[h] = s
    BY <1>3, MovedTo
<1>4. Answer(h) => Others
    BY AnswerMoves
<1>5. CASE Locate(h) \/ LocateFails(h) \/ Add(h) \/ Find(h) \/ TakeOut(h)
    <2>1. /\ at[h] \in {"locating", "adding", "finding", "removing"}
          /\ UNCHANGED <<st, disk, unsaved>>
          /\ Answer(h) \/ \E s \in HandlerStates : Goto(h, s) /\ UNCHANGED <<job, todo>>
        BY <1>5 DEF Locate, LocateFails, Add, Find, TakeOut, tableVars, HandlerStates
    <2>2. Others /\ ~Debtor(h)
        BY <1>3, <1>4, <2>1 DEF Debtor
    <2>3. QED BY <1>1, <2>1, <2>2, NoDebtLost
<1>6. CASE Lock(h)
    <2>1. at[h] = "locking" /\ UNCHANGED <<st, disk, unsaved>>
        BY <1>6 DEF Lock, tableVars
    <2>2. Others
        <3>1. CASE Answer(h)
            BY <1>4, <3>1
        <3>2. CASE ~Answer(h)
            <4>1. /\ Goto(h, "switching") /\ UNCHANGED job
                  /\ todo' = [todo EXCEPT ![h] =
                                 IF job[h].op = "switch" THEN {job[h].lp} ELSE portMap]
                BY <1>6, <3>2 DEF Lock
            <4>2. QED BY <4>1, MovedTo DEF DataPart, TypeOK
        <3>3. QED BY <3>1, <3>2
    <2>3. QED BY <1>1, <2>1, <2>2, NoDebtLost DEF Debtor
<1>7. CASE EndSwitch(h)
    <2>1. at[h] = "switching" /\ UNCHANGED <<st, disk, unsaved>> /\ Others /\ at'[h] = "saving"
        BY <1>3, <1>7 DEF EndSwitch, tableVars
    <2>2. QED BY <1>1, <2>1, NoDebtLost DEF Debtor
<1>8. ASSUME NEW l \in ListenPorts, SwitchOne(h, l)
      PROVE  DebtPart'
    <2>1. /\ at[h] = "switching" /\ l \in todo[h] /\ Goto(h, "marking")
          /\ todo' = [todo EXCEPT ![h] = @ \ {l}]
          /\ job' = [job EXCEPT ![h] = [job[h] EXCEPT !.lp = l]]
          /\ UNCHANGED <<st, disk, unsaved>>
        BY <1>8 DEF SwitchOne
    <2>2. Others /\ at'[h] = "marking" /\ todo'[h] = todo[h] \ {l}
        BY <2>1, MovedTo DEF DataPart, TypeOK
    <2>3. job'[h].op = job[h].op
        <3>1. job[h] \in Job
            BY <2>1 DEF DataPart, WorkPart
        <3>2. [job[h] EXCEPT !.lp = l].op = job[h].op
            BY <3>1 DEF Job
        <3>3. job'[h] = [job[h] EXCEPT !.lp = l]
            BY <2>1 DEF DataPart, TypeOK
        <3>4. QED BY <3>2, <3>3
    <2>4. job[h].op = "switch" => todo'[h] = {}
        BY <2>1, <2>2 DEF LockPart, SwitchPart
    <2>5. Debtor(h)'
        BY <2>2, <2>3, <2>4 DEF Debtor
    <2>6. QED BY <1>1, <2>1, <2>2, <2>5, NoDebtLost
<1>9. ASSUME NEW l \in ListenPorts, PassOver(h, l)
      PROVE  DebtPart'
    <2>1. at[h] = "switching" /\ l \in todo[h] /\ UNCHANGED <<st, disk, unsaved>>
        BY <1>9 DEF PassOver, tableVars
    <2>2. CASE job[h].op = "switch"
        <3>1. Others /\ ~Debtor(h)
            BY <1>4, <1>9, <2>1, <2>2 DEF PassOver, Debtor
        <3>2. QED BY <1>1, <2>1, <3>1, NoDebtLost
    <2>3. CASE job[h].op # "switch"
        <3>1. /\ UNCHANGED <<at, job>>
              /\ \A k \in Handlers \ {h} : todo'[k] = todo[k]
            BY <1>9, <2>3 DEF PassOver, DataPart, TypeOK
        <3>2. Debtor(h)'
            BY <2>1, <2>3, <3>1 DEF Debtor
        <3>3. QED BY <1>1, <2>1, <3>1, <3>2, NoDebtLost
    <2>4. QED BY <2>2, <2>3
<1> DEFINE l == job[h].lp
           r == job[h].req
<1>10. CASE RecordAdd(h)
    <2>1. /\ at[h] = "recording" /\ Goto(h, "saving") /\ UNCHANGED <<job, todo, disk, unsaved>>
          /\ st' = [st EXCEPT ![l] = Enlist(st[l], r)]
        BY <1>10 DEF RecordAdd
    <2>2. l \in ListenPorts /\ r \in Requests
        BY <2>1 DEF DataPart, WorkPart, HandlerStates, Job
    <2>3. st[l] \in GoodTables
        BY <2>2 DEF DataPart, GoodPart
    <2>4. PortsOf(Enlist(st[l], r)) = PortsOf(st[l]) \cup {r.port}
        BY <2>2, <2>3, OperationsAreGood
    <2>5. Others /\ at'[h] = "saving"
        BY <1>3, <2>1
    <2>6. Owes(l, r.port)' /\ Debtor(h)'
        BY <2>1, <2>5 DEF Owes, Debtor
    <2>7. QED BY <1>1, <2>1, <2>2, <2>4, <2>5, <2>6, DebtMade
<1>11. CASE Erase(h)
    <2>1. /\ at[h] = "erasing" /\ Goto(h, "saving") /\ UNCHANGED <<job, todo, disk, unsaved>>
          /\ st' = [st EXCEPT ![l] = Delist(st[l], r.port)]
        BY <1>11 DEF Erase
    <2>2. l \in ListenPorts
        BY <2>1 DEF DataPart, WorkPart, HandlerStates
    <2>3. SUFFICES ASSUME NEW m \in ListenPorts, m = l, NEW p, p = r.port
                   PROVE  DebtPart'
        BY <2>2
    <2>4. st[m] \in GoodTables
        BY DEF DataPart, GoodPart
    <2>5. PortsOf(Delist(st[m], p)) \cup {p} = PortsOf(st[m]) \cup {p}
        BY <2>4, OperationsAreGood
    <2>6. Others /\ at'[h] = "saving"
        BY <1>3, <2>1
    <2>7. Owes(m, p)' /\ Debtor(h)'
        BY <2>1, <2>3, <2>6 DEF Owes, Debtor
    <2>8. st' = [st EXCEPT ![m] = Delist(st[m], p)]
        BY <2>1, <2>3
    <2>9. QED BY <1>1, <2>1, <2>5, <2>6, <2>7, <2>8, DebtMade
<1>12. CASE Mark(h)
    <2>1. /\ at[h] = "marking" /\ Goto(h, "switching") /\ UNCHANGED <<job, todo, disk, unsaved>>
          /\ st' = [st EXCEPT ![l] = Activate(st[l], r.label)]
        BY <1>12 DEF Mark
    <2>2. l \in ListenPorts
        BY <2>1 DEF DataPart, WorkPart, HandlerStates
    <2>3. st[l] \in GoodTables
        BY <2>2 DEF DataPart, GoodPart
    <2>4. PortsOf(Activate(st[l], r.label)) = PortsOf(st[l])
        BY <2>3, OperationsAreGood
    <2>5. Others /\ at'[h] = "switching"
        BY <1>3, <2>1
    <2>6. Debtor(h)'
        BY <2>1, <2>5 DEF Debtor, LockPart, SwitchPart
    <2>7. QED BY <1>1, <2>1, <2>2, <2>4, <2>5, <2>6, DebtMade
<1>13. CASE Truncate(h)
    <2>1. at'[h] = "writing"
        BY <1>13, MovedTo DEF Truncate
    <2>2. QED BY <2>1 DEF DebtPart, Writing
<1>14. CASE Write(h)
    BY <1>14, NothingOwed DEF Write
<1>15. CASE WriteFails(h)
    BY <1>15 DEF WriteFails, DebtPart
<1>16. QED BY <1>5, <1>6, <1>7, <1>8, <1>9, <1>10, <1>11, <1>12, <1>13, <1>14, <1>15
         DEF HandlerStep

(* The sweeper's step: while a sweep is in progress the sweeper is going   *)
(* to save, and it begins one whenever the state has changed.              *)
LEMMA FileSweepStep ==
    ASSUME DataPart, LockPart, FilePart, SweepStep
    PROVE  FilePart'
<1> USE DEF FilePart
<1>1. phase' = phase /\ UNCHANGED handlerVars /\ phase = "up"
    <2>1. phase' = phase /\ UNCHANGED handlerVars /\ (sweepAt # "idle" \/ phase = "up")
        BY DEF SweepStep, Clean, LockSweep, SweepEntry, EndVisit, EndSweep, Visit,
               TruncateSweep, WriteSweep, WriteSweepFails, serverVars
    <2>2. QED BY <2>1 DEF LockPart, StartPart
<1>2. SUFFICES DebtPart'
    BY <1>1 DEF LoadPart
<1>3. /\ \A k \in Handlers : Debtor(k)' = Debtor(k)
      /\ \A l, p : Owes(l, p)' = Owes(l, p)
    BY <1>1 DEF Debtor, Owes, handlerVars
<1>4. CASE Clean
    <2>1. st' = Purged /\ UNCHANGED <<disk, unsaved>> /\ sweepAt = "idle" /\ ~Writing
        BY <1>4 DEF Clean
    <2>2. CASE \E l \in ListenPorts : HasDead(st[l])
        <3>1. sweepAt' = "locking"
            BY <1>4, <2>2 DEF Clean
        <3>2. \A l \in ListenPorts : PortsOf(st'[l]) \subseteq PortsOf(st[l])
            BY <2>1, PurgedIsGood DEF DataPart
        <3>3. QED BY <1>1, <1>3, <2>1, <3>1, <3>2 DEF DebtPart, PortsOf
    <2>3. CASE \A l \in ListenPorts : ~HasDead(st[l])
        <3>1. st' = st /\ sweepAt' = "idle"
            BY <1>4, <2>1, <2>3, PurgedIsGood DEF Clean, DataPart
        <3>2. QED BY <1>1, <1>3, <2>1, <3>1 DEF DebtPart
    <2>4. QED BY <2>2, <2>3
<1>5. CASE LockSweep \/ SweepEntry \/ EndVisit \/ EndSweep \/ \E l \in ListenPorts : Visit(l)
    <2>1. /\ UNCHANGED <<st, disk, unsaved>>
          /\ sweepAt \notin {"idle", "writing"} /\ sweepAt' \notin {"idle", "writing"}
        BY <1>5 DEF LockSweep, SweepEntry, EndVisit, EndSweep, Visit, tableVars
    <2>2. Writing' = Writing
        BY <1>1, <2>1 DEF Writing, handlerVars
    <2>3. QED BY <1>1, <1>3, <2>1, <2>2 DEF DebtPart
<1>6. CASE TruncateSweep
    BY <1>6 DEF TruncateSweep, DebtPart, Writing
<1>7. CASE WriteSweep
    BY <1>7, NothingOwed DEF WriteSweep
<1>8. CASE WriteSweepFails
    BY <1>8 DEF WriteSweepFails, DebtPart
<1>9. QED BY <1>4, <1>5, <1>6, <1>7, <1>8 DEF SweepStep

(* Every step.                                                             *)
LEMMA FileStep ==
    ASSUME DataPart, LockPart, FilePart, [Next]_vars
    PROVE  FilePart'
<1> USE DEF FilePart
<1>1. ASSUME NEW h \in Handlers, NEW j \in Asked, Ask(h, j) PROVE FilePart'
    <2>1. /\ at[h] = "idle" /\ phase = "up" /\ UNCHANGED <<phase, st, disk, unsaved, sweepAt, todo>>
          /\ Goto(h, FirstStep(j.op)) /\ job' = [job EXCEPT ![h] = j]
        BY <1>1 DEF Ask, serverVars, tableVars, sweepVars
    <2>2. \A k \in Handlers \ {h} : at'[k] = at[k] /\ job'[k] = job[k] /\ todo'[k] = todo[k]
        BY <2>1, MovedTo DEF DataPart, TypeOK
    <2>3. QED BY <2>1, <2>2, NoDebtLost DEF LoadPart, Debtor
<1>2. CASE StartStep
    <2>1. CASE Serve
        BY <2>1 DEF Serve, LoadPart, DebtPart, tableVars
    <2>2. CASE CleanAtStart
        <3>1. phase' # "up"
            BY <2>2 DEF CleanAtStart
        <3>2. CASE \A l \in ListenPorts : ~HasDead(st[l])
            BY <2>2, <3>1, <3>2, PurgedIsGood DEF CleanAtStart, LoadPart, DebtPart, DataPart
        <3>3. CASE \E l \in ListenPorts : HasDead(st[l])
            BY <2>2, <3>1, <3>3 DEF CleanAtStart, LoadPart, DebtPart
        <3>4. QED BY <3>2, <3>3
    <2>3. CASE Load \/ TruncateAtStart \/ WriteAtStart \/ WriteAtStartFails
        BY <2>3 DEF Load, TruncateAtStart, WriteAtStart, WriteAtStartFails, LoadPart, DebtPart
    <2>4. ASSUME NEW l \in ListenPorts, Restore(l) \/ RestoreFails(l) PROVE FilePart'
        BY <2>4 DEF Restore, RestoreFails, LoadPart, DebtPart, tableVars
    <2>5. QED BY <1>2, <2>1, <2>2, <2>3, <2>4 DEF StartStep
<1>3. CASE Halt
    BY <1>3 DEF Halt, LoadPart, DebtPart
<1>4. CASE UNCHANGED vars \/ \E pid \in Mortal \cap alive : Die(pid)
    <2>1. UNCHANGED <<phase, st, disk, unsaved, at, job, todo, sweepAt>>
        BY <1>4 DEF Die, vars, serverVars, tableVars, handlerVars, sweepVars
    <2>2. QED BY <2>1 DEF LoadPart, DebtPart, Writing, Debtor, Owes
<1>5. QED BY <1>1, <1>2, <1>3, <1>4, FileHandlerStep, FileSweepStep DEF Next

-----------------------------------------------------------------------------
RegistryPart == DataPart /\ LockPart /\ FilePart

(* The invariant that the theorems below follow from.                      *)
LEMMA RegistryInvariant == SafeSpec => []RegistryPart
<1>1. Init => RegistryPart
    BY DataInitially, LockInitially, FileInitially DEF RegistryPart
<1>2. RegistryPart /\ [Next]_vars => RegistryPart'
    BY DataStep, LockStep, FileStep DEF RegistryPart
<1>3. QED BY <1>1, <1>2, PTL DEF SafeSpec

(* Requests work on listen ports, and every table, the one loaded from the *)
(* file included, holds what clients registered.                           *)
THEOREM RegistryTyped == SafeSpec => []TypeOK
<1>1. RegistryPart => TypeOK
    BY DEF RegistryPart, DataPart
<1>2. QED BY <1>1, RegistryInvariant, PTL

(* No copy of a table lists a port twice or has entries and no active one, *)
(* nor two active ones when labels are unique, however registrations,      *)
(* removals, switches, sweeps, saves and restarts interleave.              *)
THEOREM TablesStaySound == SafeSpec => []TablesSound
<1>1. RegistryPart => TablesSound
    BY DEF RegistryPart, DataPart, GoodPart, GoodTables, TablesSound
<1>2. QED BY <1>1, RegistryInvariant, PTL

(* No early return and no error path of a switch or a sweep keeps s.mu.    *)
THEOREM LockComesFree == SafeSpec => []LockIsReleased
<1>1. RegistryPart => LockIsReleased
    BY DEF RegistryPart, LockPart
<1>2. QED BY <1>1, RegistryInvariant, PTL

(* The file lags behind the state only while somebody who changed it is    *)
(* still going to save it, and misses a backend or has one too many only   *)
(* while that one is being registered, removed or swept.                   *)
THEOREM FileKeepsUp == SafeSpec => []FileCurrent
<1>1. RegistryPart => FileCurrent
    <2>1. (\E h \in Handlers : Debtor(h)) \/ sweepAt # "idle" => SavePending
        BY DEF Debtor, SavePending
    <2>2. \A l, p : Owes(l, p) => InProgress(l, p)
        BY DEF Owes, InProgress
    <2>3. QED BY <2>1, <2>2 DEF RegistryPart, FilePart, DebtPart, FileCurrent
<1>2. QED BY <1>1, RegistryInvariant, PTL

-----------------------------------------------------------------------------
(* The start.  Entries are added one by one, switching to each that was    *)
(* active, so that a table restored in part is one that differs from its   *)
(* record only as long as the active entry has not come.                   *)

Replayed(s, k) ==
    [i \in 1..k |-> EntryOf(s[i], IF \E j \in 1..k : s[j].active THEN s[i].active ELSE i = 1)]

IsReplayed(l) == restored[l] <= Len(st[l]) /\ tbl[l] = Replayed(st[l], restored[l])

(* One more entry.                                                         *)
LEMMA ReplayOne ==
    ASSUME UniqueLabels, NEW s \in GoodTables, NEW k \in Nat, k + 1 <= Len(s)
    PROVE  RestoreOne(Replayed(s, k), s[k + 1]) = Replayed(s, k + 1)
<1> DEFINE t == Replayed(s, k)
           e == s[k + 1]
           A(n) == \E j \in 1..n : s[j].active
<1>1. /\ s \in Seq(EntriesOf(Requests)) /\ DistinctPorts(s) /\ AtMostOneActive(s)
      /\ DOMAIN s = 1..Len(s) /\ Len(s) \in Nat
    BY DEF GoodTables, Entry, Sound
<1>2. \A i \in 1..(k + 1) : i \in DOMAIN s /\ s[i] \in EntriesOf(Requests)
    BY <1>1
<1>3. \A i \in 1..(k + 1) : s[i].active \in BOOLEAN
    BY <1>2, EntryFlag
<1>4. \A i, j \in 1..(k + 1) : (s[i].port = s[j].port => i = j)
                             /\ (s[i].active /\ s[j].active => i = j)
                             /\ (s[i].label = s[j].label => i = j)
    <2>1. OneLabelEach(Requests)
        BY DEF UniqueLabels, OneLabelEach
    <2>2. \A i, j \in 1..(k + 1) : s[i].port = s[j].port => i = j
        BY <1>1, <1>2 DEF DistinctPorts
    <2>3. \A i, j \in 1..(k + 1) : s[i].active /\ s[j].active => i = j
        BY <1>1, <1>2 DEF AtMostOneActive, ActiveAt
    <2>4. \A i, j \in 1..(k + 1) : s[i].label = s[j].label => s[i].port = s[j].port
        BY <1>2, <2>1, SameLabelSamePort
    <2>5. QED BY <2>2, <2>3, <2>4
<1>5. /\ DOMAIN t = 1..k /\ t \in Seq(EntriesOf(Requests)) /\ Len(t) = k
      /\ \A i \in 1..k : t[i] = EntryOf(s[i], IF A(k) THEN s[i].active ELSE i = 1)
    <2>1. \A i \in 1..k : EntryOf(s[i], IF A(k) THEN s[i].active ELSE i = 1) \in EntriesOf(Requests)
        <3> TAKE i \in 1..k
        <3>1. s[i] \in EntriesOf(Requests) /\ s[i].active \in BOOLEAN
            BY <1>2, <1>3
        <3>2. PICK b \in BOOLEAN : b = (IF A(k) THEN s[i].active ELSE i = 1)
            BY <3>1
        <3>3. QED BY <3>1, <3>2, EntryFlag
    <2>2. t \in [1..k -> EntriesOf(Requests)]
        BY <2>1 DEF Replayed
    <2>3. QED BY <2>2 DEF Replayed
<1>6. \A i \in 1..k : t[i].port = s[i].port /\ t[i].label = s[i].label /\ t[i].pid = s[i].pid
    BY <1>5 DEF EntryOf
<1>7. Enlist(t, e) = Append(t, EntryOf(e, t = << >>))
    <2>1. e.port \notin PortsOf(t)
        <3> SUFFICES ASSUME NEW i \in 1..k, t[i].port = e.port PROVE FALSE
            BY <1>5 DEF PortsOf
        <3>1. s[i].port = s[k + 1].port /\ i \in 1..(k + 1) /\ k + 1 \in 1..(k + 1)
            BY <1>6
        <3>2. i = k + 1
            BY <1>4, <3>1
        <3>3. QED BY <3>2
    <2>2. QED BY <2>1 DEF Enlist
<1> DEFINE u == Enlist(t, e)
<1>8. PICK a \in BOOLEAN : a = (t = << >>)
    OBVIOUS
<1>9. a <=> k = 0
    <2>1. t = << >> <=> Len(t) = 0
        BY <1>5, EmptySeq
    <2>2. QED BY <1>5, <1>8, <2>1
<1>10. /\ DOMAIN u = 1..(k + 1) /\ u[k + 1] = EntryOf(e, a)
       /\ \A i \in 1..k : u[i] = t[i]
    <2>1. u = Append(t, EntryOf(e, a))
        BY <1>7, <1>8
    <2>2. EntryOf(e, a) \in EntriesOf(Requests)
        <3>1. e \in EntriesOf(Requests)
            BY <1>2
        <3> HIDE DEF e
        <3>2. QED BY <3>1, EntryFlag
    <2>3. /\ u \in Seq(EntriesOf(Requests)) /\ Len(u) = k + 1 /\ u[k + 1] = EntryOf(e, a)
          /\ \A i \in 1..k : u[i] = t[i]
        <3>1. t \in Seq(EntriesOf(Requests)) /\ Len(t) = k
            BY <1>5
        <3> HIDE DEF t, u
        <3>2. QED BY <2>1, <2>2, <3>1, AppendProperties
    <2>4. QED BY <2>3
<1>11. \A i \in 1..(k + 1) : u[i].port = s[i].port /\ u[i].label = s[i].label /\ u[i].pid = s[i].pid
    <2>1. u[k + 1].port = e.port /\ u[k + 1].label = e.label /\ u[k + 1].pid = e.pid
        BY <1>10 DEF EntryOf
    <2>2. \A i \in 1..(k + 1) : i \in 1..k \/ i = k + 1
        OBVIOUS
    <2>3. QED BY <1>6, <1>10, <2>1, <2>2
<1> HIDE DEF t, u
<1>12. CASE e.active
    <2>1. e.label \in LabelsOf(u)
        <3>1. u[k + 1].label = e.label /\ k + 1 \in DOMAIN u
            BY <1>10, <1>11
        <3>2. QED BY <3>1 DEF LabelsOf
    <2>2. RestoreOne(t, e) = [i \in 1..(k + 1) |-> EntryOf(u[i], u[i].label = e.label)]
        BY <1>10, <1>12, <2>1 DEF RestoreOne, Activate, u
    <2>3. A(k + 1)
        BY <1>12
    <2>4. ASSUME NEW i \in 1..(k + 1)
          PROVE  EntryOf(u[i], u[i].label = e.label) = EntryOf(s[i], s[i].active)
        <3>1. (s[i].label = e.label) <=> s[i].active
            BY <1>4, <1>12
        <3>2. PICK b \in BOOLEAN : b = (u[i].label = e.label)
            OBVIOUS
        <3>3. b = s[i].active
            BY <1>3, <1>11, <3>1, <3>2
        <3>4. QED BY <1>11, <3>2, <3>3 DEF EntryOf
    <2>5. QED BY <2>2, <2>3, <2>4 DEF Replayed, t
<1>13. CASE ~e.active
    <2>1. RestoreOne(t, e) = u
        BY <1>13 DEF RestoreOne, u
    <2>2. A(k + 1) <=> A(k)
        <3>1. \A j \in 1..(k + 1) : j \in 1..k \/ j = k + 1
            OBVIOUS
        <3>2. \A j \in 1..k : j \in 1..(k + 1)
            OBVIOUS
        <3>3. QED BY <1>13, <3>1, <3>2
    <2>3. ASSUME NEW i \in 1..(k + 1)
          PROVE  u[i] = EntryOf(s[i], IF A(k + 1) THEN s[i].active ELSE i = 1)
        <3>1. CASE i \in 1..k
            <4>1. u[i] = EntryOf(s[i], IF A(k) THEN s[i].active ELSE i = 1)
                BY <1>5, <1>10, <3>1
            <4>2. CASE A(k)
                BY <2>2, <4>1, <4>2
            <4>3. CASE ~A(k)
                BY <2>2, <4>1, <4>3
            <4>4. QED BY <4>2, <4>3
        <3>2. CASE i = k + 1
            <4>1. u[i] = EntryOf(s[i], a)
                BY <1>10, <3>2
            <4>2. CASE A(k)
                <5>1. k # 0
                    BY <4>2
                <5>2. a = s[i].active
                    BY <1>3, <1>9, <1>13, <3>2, <5>1
                <5>3. QED BY <2>2, <4>1, <4>2, <5>2
            <4>3. CASE ~A(k)
                <5>1. PICK b \in BOOLEAN : b = (i = 1)
                    OBVIOUS
                <5>2. a = b
                    BY <1>9, <3>2, <5>1
                <5>3. QED BY <2>2, <4>1, <4>3, <5>1, <5>2
            <4>4. QED BY <4>2, <4>3
        <3>3. QED BY <3>1, <3>2
    <2>4. u \in Seq(EntriesOf(Requests)) /\ u = [i \in 1..(k + 1) |-> u[i]]
        <3>1. EntryOf(e, a) \in EntriesOf(Requests)
            <4>1. e \in EntriesOf(Requests)
                BY <1>2
            <4> HIDE DEF e
            <4>2. QED BY <4>1, EntryFlag
        <3>2. u = Append(t, EntryOf(e, a))
            BY <1>7, <1>8 DEF u
        <3>3. u \in Seq(EntriesOf(Requests))
            BY <1>5, <3>1, <3>2, AppendProperties
        <3>4. DOMAIN u = 1..(k + 1)
            BY <1>10
        <3>5. \A f : f \in Seq(EntriesOf(Requests)) => f = [i \in DOMAIN f |-> f[i]]
            OBVIOUS
        <3>6. QED BY <3>3, <3>4, <3>5
    <2>5. QED BY <2>1, <2>3, <2>4 DEF Replayed, t
<1>14. QED BY <1>12, <1>13 DEF t

(* None and all of them.                                                   *)
LEMMA ReplayEnds ==
    ASSUME NEW s \in GoodTables
    PROVE  Replayed(s, 0) = << >> /\ Replayed(s, Len(s)) = s
<1>1. /\ s \in Seq(EntriesOf(Requests)) /\ DOMAIN s = 1..Len(s) /\ Len(s) \in Nat
      /\ SomeActive(s)
    BY DEF GoodTables, Entry, Sound
<1>2. Replayed(s, 0) = << >>
    BY DEF Replayed
<1>3. \A i \in 1..Len(s) : s[i] = EntryOf(s[i], s[i].active)
    <2> TAKE i \in 1..Len(s)
    <2>1. s[i] \in EntriesOf(Requests)
        BY <1>1
    <2>2. QED BY <2>1 DEF EntriesOf, EntryOf
<1>4. CASE s # << >>
    <2>1. \E j \in 1..Len(s) : s[j].active
        BY <1>1, <1>4 DEF SomeActive, ActiveAt
    <2>2. Replayed(s, Len(s)) = [i \in 1..Len(s) |-> s[i]]
        BY <1>3, <2>1 DEF Replayed
    <2>3. QED BY <1>1, <1>2, <2>2
<1>5. CASE s = << >>
    <2>1. Len(s) = 0
        BY <1>5
    <2>2. QED BY <1>2, <1>5, <2>1
<1>6. QED BY <1>4, <1>5

(* Before the entries are added the listeners are empty; then each table   *)
(* is restored so far, or its listen port is taken.                        *)
ReplayPart ==
    /\ phase \in {"down", "loaded", "cleaned", "writing"} =>
          tbl = Empty /\ restored = [l \in ListenPorts |-> 0]
    /\ phase = "restoring" =>
          \A l \in ListenPorts :
             IsReplayed(l) \/ (tbl[l] = << >> /\ restored[l] = Len(st[l]))

(* Only a listen port with a listener has a table.                         *)
PortMapPart ==
    /\ \A l \in ListenPorts \ portMap : tbl[l] = << >>
    /\ \A h \in Handlers : at[h] = "adding" => job[h].lp \in portMap

StartedPart == ReplayPart /\ PortMapPart

(* At first there is no table.                                             *)
LEMMA StartedInitially == Init => StartedPart
    BY DEF Init, StartedPart, ReplayPart, PortMapPart, Empty

(* A handler's step changes the table of its listen port only, and where   *)
(* it is and what it works on, when the daemon is up.                      *)
LEMMA HandlerAlone ==
    ASSUME DataPart, StartPart, NEW h \in Handlers, HandlerStep(h)
    PROVE  /\ phase = "up" /\ phase' = "up" /\ at[h] # "idle"
           /\ UNCHANGED <<restored, alive, sweepVars>>
           /\ portMap \subseteq portMap'
           /\ \A k \in Handlers \ {h} : at'[k] = at[k] /\ job'[k] = job[k]
<1>1. at[h] # "idle" /\ UNCHANGED <<phase, restored, alive, sweepVars>> /\ portMap \subseteq portMap'
    BY DEF HandlerStep, Locate, LocateFails, Add, RecordAdd, Find, TakeOut, Erase, Lock, Mark,
           EndSwitch, SwitchOne, PassOver, Truncate, Write, WriteFails, serverVars
<1>2. phase = "up"
    BY <1>1 DEF StartPart
<1>3. \A k \in Handlers \ {h} : at'[k] = at[k]
    <2>1. Answer(h) \/ (\E s \in HandlerStates : Goto(h, s)) \/ at' = at
        BY DEF HandlerStep, Locate, LocateFails, Add, RecordAdd, Find, TakeOut, Erase, Lock, Mark,
               EndSwitch, SwitchOne, PassOver, Truncate, Write, WriteFails, HandlerStates
    <2>2. QED BY <2>1, AnswerMoves, MovedTo
<1>4. \A k \in Handlers \ {h} : job'[k] = job[k]
    <2>1. Answer(h) \/ job' = job \/ \E l \in ListenPorts : SwitchOne(h, l)
        BY DEF HandlerStep, Locate, LocateFails, Add, RecordAdd, Find, TakeOut, Erase, Lock, Mark,
               EndSwitch, PassOver, Truncate, Write, WriteFails
    <2>2. ASSUME NEW l \in ListenPorts, SwitchOne(h, l) PROVE \A k \in Handlers \ {h} : job'[k] = job[k]
        BY <2>2 DEF SwitchOne, DataPart, TypeOK
    <2>3. QED BY <2>1, <2>2, AnswerMoves
<1>5. QED BY <1>1, <1>2, <1>3, <1>4

(* Removing from an empty table leaves it empty.                           *)
LEMMA DelistEmpty == \A p : Delist(<< >>, p) = << >>
    BY DEF Delist, PortsOf

(* What the handlers do to the listeners.                                  *)
LEMMA HandlerStarted ==
    ASSUME DataPart, StartPart, StartedPart, NEW h \in Handlers, HandlerStep(h)
    PROVE  StartedPart'
<1>1. /\ phase = "up" /\ phase' = "up" /\ portMap \subseteq portMap'
      /\ \A k \in Handlers \ {h} : at'[k] = at[k] /\ job'[k] = job[k]
    BY HandlerAlone
<1>2. ReplayPart'
    BY <1>1 DEF ReplayPart
<1>3. tbl \in [ListenPorts -> GoodTables] /\ at \in [Handlers -> HandlerStates]
    BY DEF DataPart, GoodPart, TypeOK
<1>4. SUFFICES (\A l \in ListenPorts \ portMap' : tbl'[l] = tbl[l])
               /\ (at'[h] = "adding" => job'[h].lp \in portMap')
    BY <1>1, <1>2 DEF StartedPart, PortMapPart
<1>5. CASE Locate(h)
    BY <1>5 DEF Locate, tableVars, DataPart, TypeOK
<1>6. CASE Add(h)
    <2>1. job[h].lp \in portMap
        BY <1>6 DEF Add, StartedPart, PortMapPart
    <2>2. \A l \in ListenPorts \ portMap' : tbl'[l] = tbl[l]
        BY <1>1, <1>3, <1>6, <2>1 DEF Add
    <2>3. at'[h] # "adding"
        BY <1>3, <1>6 DEF Add, Answer, Goto
    <2>4. QED BY <2>2, <2>3
<1>7. CASE TakeOut(h)
    <2>1. \A l \in ListenPorts \ portMap' : tbl'[l] = tbl[l]
        <3> TAKE l \in ListenPorts \ portMap'
        <3>1. tbl[l] = << >>
            BY <1>1 DEF StartedPart, PortMapPart
        <3>2. tbl'[l] = IF l = job[h].lp THEN Delist(tbl[l], job[h].req.port) ELSE tbl[l]
            BY <1>3, <1>7 DEF TakeOut
        <3>3. QED BY <3>1, <3>2, DelistEmpty
    <2>2. at'[h] # "adding"
        BY <1>3, <1>7 DEF TakeOut, Goto
    <2>3. QED BY <2>1, <2>2
<1>8. ASSUME NEW k \in ListenPorts, SwitchOne(h, k)
      PROVE  (\A l \in ListenPorts \ portMap' : tbl'[l] = tbl[l]) /\ at'[h] # "adding"
    <2>1. tbl[k] # << >>
        BY <1>8 DEF SwitchOne, Knows, LabelsOf
    <2>2. k \in portMap
        BY <2>1 DEF StartedPart, PortMapPart
    <2>3. \A l \in ListenPorts \ portMap' : tbl'[l] = tbl[l]
        BY <1>1, <1>3, <1>8, <2>2 DEF SwitchOne
    <2>4. at'[h] # "adding"
        BY <1>3, <1>8 DEF SwitchOne, Goto
    <2>5. QED BY <2>3, <2>4
<1>9. CASE \/ LocateFails(h) \/ RecordAdd(h) \/ Find(h) \/ Erase(h) \/ Lock(h) \/ Mark(h)
           \/ EndSwitch(h) \/ (\E l \in ListenPorts : PassOver(h, l))
           \/ Truncate(h) \/ Write(h) \/ WriteFails(h)
    <2>1. tbl' = tbl
        BY <1>9 DEF LocateFails, RecordAdd, Find, Erase, Lock, Mark, EndSwitch, PassOver, Truncate,
                    Write, WriteFails, tableVars
    <2>2. \/ Answer(h) \/ (at' = at /\ at[h] # "adding")
          \/ \E s \in HandlerStates \ {"adding"} : Goto(h, s)
        BY <1>9 DEF LocateFails, RecordAdd, Find, Erase, Lock, Mark, EndSwitch, PassOver, Truncate,
                    Write, WriteFails, HandlerStates
    <2>3. at'[h] # "adding"
        BY <2>2, AnswerMoves, MovedTo
    <2>4. QED BY <2>1, <2>3
<1>10. QED BY <1>5, <1>6, <1>7, <1>8, <1>9 DEF HandlerStep

(* What the sweeper does to them.                                          *)
LEMMA SweepStarted ==
    ASSUME DataPart, StartPart, StartedPart, SweepStep
    PROVE  StartedPart' /\ phase = "up" /\ phase' = "up" /\ UNCHANGED <<portMap, restored, at, job, alive>>
<1>1. UNCHANGED <<phase, portMap, restored, at, job, alive>>
    BY DEF SweepStep, Clean, LockSweep, SweepEntry, EndVisit, EndSweep, Visit, TruncateSweep,
           WriteSweep, WriteSweepFails, serverVars, handlerVars
<1>2. phase = "up"
    <2>1. CASE Clean
        BY <2>1 DEF Clean
    <2>2. CASE sweepAt # "idle"
        BY <2>2 DEF StartPart
    <2>3. QED BY <2>1, <2>2 DEF SweepStep, LockSweep, SweepEntry, EndVisit, EndSweep, Visit,
                 TruncateSweep, WriteSweep, WriteSweepFails
<1>3. \A l \in ListenPorts \ portMap : tbl'[l] = tbl[l]
    <2>1. CASE SweepEntry
        <3> TAKE l \in ListenPorts \ portMap
        <3>1. tbl[l] = << >> /\ tbl \in [ListenPorts -> GoodTables]
            BY DEF StartedPart, PortMapPart, DataPart, GoodPart
        <3>2. tbl'[l] \in {tbl[l], Delist(tbl[l], Head(snap).port)}
            BY <2>1, <3>1 DEF SweepEntry
        <3>3. QED BY <3>1, <3>2, DelistEmpty
    <2>2. CASE ~SweepEntry
        <3>1. tbl' = tbl
            BY <2>2 DEF SweepStep, Clean, LockSweep, EndVisit, EndSweep, Visit, TruncateSweep,
                    WriteSweep, WriteSweepFails, tableVars
        <3>2. QED BY <3>1
    <2>3. QED BY <2>1, <2>2
<1>4. StartedPart'
    BY <1>1, <1>2, <1>3 DEF StartedPart, ReplayPart, PortMapPart
<1>5. QED BY <1>1, <1>2, <1>4

(* A table that is restored so far still is after a step of the start,     *)
(* unless its listener could not be made.                                  *)
LEMMA ReplayGoesOn ==
    ASSUME UniqueLabels, DataPart, ReplayPart, StartStep, phase' = "restoring",
           NEW l \in ListenPorts, ~RestoreFails(l), phase = "restoring" => IsReplayed(l)
    PROVE  IsReplayed(l)'
<1>1. /\ tbl \in [ListenPorts -> GoodTables] /\ st \in [ListenPorts -> GoodTables]
      /\ restored \in [ListenPorts -> Nat]
    BY DEF DataPart, GoodPart, TypeOK
<1>2. CASE CleanAtStart \/ WriteAtStart \/ WriteAtStartFails
    <2>1. phase \in {"loaded", "cleaned", "writing"} /\ UNCHANGED <<tbl, restored>>
        BY <1>2 DEF CleanAtStart, WriteAtStart, WriteAtStartFails, tableVars
    <2>2. tbl' = Empty /\ restored' = [k \in ListenPorts |-> 0]
        BY <2>1 DEF ReplayPart
    <2>3. st'[l] \in GoodTables
        BY <1>1, <1>2, PurgedIsGood
            DEF CleanAtStart, WriteAtStart, WriteAtStartFails, tableVars, DataPart, GoodPart
    <2>4. tbl'[l] = << >> /\ restored'[l] = 0 /\ Len(st'[l]) \in Nat
        BY <2>2, <2>3 DEF Empty, GoodTables
    <2>5. Replayed(st'[l], 0) = << >>
        BY <2>3, ReplayEnds
    <2>6. QED BY <2>4, <2>5 DEF IsReplayed
<1>3. ASSUME NEW k \in ListenPorts, Restore(k) \/ RestoreFails(k), k # l
      PROVE  IsReplayed(l)'
    <2>1. phase = "restoring" /\ st' = st /\ tbl'[l] = tbl[l] /\ restored'[l] = restored[l]
        BY <1>1, <1>3 DEF Restore, RestoreFails, tableVars
    <2>2. QED BY <2>1 DEF IsReplayed
<1>4. CASE Restore(l)
    <2> DEFINE s == st[l]
               n == restored[l]
    <2>1. s \in GoodTables /\ n \in Nat /\ Len(s) \in Nat /\ n < Len(s)
        BY <1>1, <1>4 DEF Restore, GoodTables
    <2>2. tbl[l] = Replayed(s, n) /\ st' = st
        BY <1>4 DEF IsReplayed, Restore
    <2>3. tbl'[l] = RestoreOne(tbl[l], s[n + 1]) /\ restored'[l] = n + 1
        BY <1>1, <1>4 DEF Restore
    <2>4. n + 1 <= Len(s) /\ RestoreOne(Replayed(s, n), s[n + 1]) = Replayed(s, n + 1)
        BY <2>1, ReplayOne
    <2>5. QED BY <2>2, <2>3, <2>4 DEF IsReplayed
<1>5. ~Load /\ ~TruncateAtStart /\ ~Serve
    BY DEF Load, TruncateAtStart, Serve
<1>6. QED BY <1>2, <1>3, <1>4, <1>5 DEF StartStep

(* The start itself.                                                       *)
LEMMA StartStarted ==
    ASSUME UniqueLabels, DataPart, StartPart, StartedPart, StartStep
    PROVE  StartedPart'
<1>1. phase # "up" /\ UNCHANGED handlerVars
    BY DEF StartStep, Load, CleanAtStart, TruncateAtStart, WriteAtStart, WriteAtStartFails,
           Restore, RestoreFails, Serve
<1>2. \A h \in Handlers : at'[h] # "adding"
    BY <1>1 DEF StartPart, handlerVars
<1>3. /\ tbl \in [ListenPorts -> GoodTables] /\ st \in [ListenPorts -> GoodTables]
      /\ restored \in [ListenPorts -> Nat]
    BY DEF DataPart, GoodPart, TypeOK
<1>4. CASE Load \/ CleanAtStart \/ TruncateAtStart \/ WriteAtStart \/ WriteAtStartFails
    <2>1. /\ phase \in {"down", "loaded", "cleaned", "writing"}
          /\ phase' \in {"loaded", "cleaned", "writing", "restoring"}
          /\ UNCHANGED <<tbl, restored>>
        BY <1>4 DEF Load, CleanAtStart, TruncateAtStart, WriteAtStart, WriteAtStartFails, tableVars
    <2>2. tbl' = Empty /\ restored' = [l \in ListenPorts |-> 0]
        BY <2>1 DEF StartedPart, ReplayPart
    <2>3. phase' = "restoring" => \A l \in ListenPorts : IsReplayed(l)'
        <3>1. \A l \in ListenPorts : ~RestoreFails(l)
            BY <2>1 DEF RestoreFails
        <3>2. QED BY <2>1, <3>1, ReplayGoesOn DEF StartedPart
    <2>4. QED BY <1>2, <2>1, <2>2, <2>3 DEF StartedPart, ReplayPart, PortMapPart, Empty
<1>5. ASSUME NEW k \in ListenPorts, Restore(k) PROVE StartedPart'
    <2>1. /\ phase = "restoring" /\ phase' = "restoring" /\ st' = st /\ portMap' = portMap \cup {k}
          /\ \A l \in ListenPorts \ {k} : tbl'[l] = tbl[l] /\ restored'[l] = restored[l]
        BY <1>3, <1>5 DEF Restore
    <2>2. \A l \in ListenPorts \ {k} :
             IsReplayed(l)' \/ (tbl'[l] = << >> /\ restored'[l] = Len(st'[l]))
        BY <2>1 DEF StartedPart, ReplayPart, IsReplayed
    <2>3. IsReplayed(k)'
        <3>1. restored[k] # Len(st[k])
            BY <1>3, <1>5 DEF Restore, GoodTables
        <3>2. IsReplayed(k)
            BY <2>1, <3>1 DEF StartedPart, ReplayPart
        <3>3. ~RestoreFails(k)
            BY <1>5 DEF Restore, RestoreFails
        <3>4. QED BY <2>1, <3>2, <3>3, ReplayGoesOn DEF StartedPart
    <2>4. QED BY <1>2, <2>1, <2>2, <2>3 DEF StartedPart, ReplayPart, PortMapPart
<1>6. ASSUME NEW k \in ListenPorts, RestoreFails(k) PROVE StartedPart'
    <2>1. /\ phase = "restoring" /\ phase' = "restoring" /\ UNCHANGED <<tbl, st, portMap>>
          /\ k \notin portMap /\ restored'[k] = Len(st[k])
          /\ \A l \in ListenPorts \ {k} : restored'[l] = restored[l]
        BY <1>3, <1>6 DEF RestoreFails, tableVars
    <2>2. tbl'[k] = << >>
        BY <2>1 DEF StartedPart, PortMapPart
    <2>3. QED BY <1>2, <2>1, <2>2 DEF StartedPart, ReplayPart, PortMapPart, IsReplayed
<1>7. CASE Serve
    BY <1>2, <1>7 DEF Serve, tableVars, StartedPart, ReplayPart, PortMapPart
<1>8. QED BY <1>4, <1>5, <1>6, <1>7 DEF StartStep

(* A daemon that starts restores each table as it was recorded, or not at  *)
(* all.                                                                    *)
LEMMA StartedStep ==
    ASSUME UniqueLabels, DataPart, StartPart, StartedPart, [Next]_vars
    PROVE  StartedPart'
<1>1. ASSUME NEW h \in Handlers, NEW j \in Asked, Ask(h, j) PROVE StartedPart'
    <2>1. /\ UNCHANGED <<phase, restored, portMap, tbl, st>>
          /\ \A k \in Handlers \ {h} : at'[k] = at[k] /\ job'[k] = job[k]
          /\ at'[h] # "adding"
        BY <1>1 DEF Ask, Goto, FirstStep, serverVars, tableVars, DataPart, TypeOK
    <2>2. QED BY <2>1 DEF StartedPart, ReplayPart, PortMapPart, IsReplayed
<1>2. CASE Halt
    BY <1>2 DEF Halt, StartedPart, ReplayPart, PortMapPart, Empty
<1>3. ASSUME NEW pid \in Mortal \cap alive, Die(pid) PROVE StartedPart'
    BY <1>3 DEF Die, serverVars, tableVars, handlerVars, StartedPart, ReplayPart, PortMapPart,
                IsReplayed
<1>4. CASE UNCHANGED vars
    BY <1>4 DEF vars, serverVars, tableVars, handlerVars, StartedPart, ReplayPart, PortMapPart,
                IsReplayed
<1>5. QED BY <1>1, <1>2, <1>3, <1>4, HandlerStarted, SweepStarted, StartStarted DEF Next

-----------------------------------------------------------------------------
(***************************************************************************)
(* The registry as its clients know it.  Each operation on a table changes *)
(* its board as the specification of the boards allows; each step of a     *)
(* handler, of the sweeper and of the daemon changes one of the boards     *)
(* that are routed by, recorded or on file, or none.                       *)
(***************************************************************************)

(* The board of a good table, and when a backend is its current one.       *)
LEMMA BoardFacts ==
    ASSUME UniqueLabels, NEW t \in GoodTables
    PROVE  /\ BoardOf(t).registered = PortsOf(t) /\ BoardOf(t).current = ActivePort(t)
           /\ PortsOf(t) = {} => t = << >> /\ ActivePort(t) = NoPort
           /\ PortsOf(t) # {} => ActivePort(t) \in PortsOf(t) /\ IsActive(t, ActivePort(t))
           /\ \A p : IsActive(t, p) => ActivePort(t) = p
<1>1. t \in Seq(EntriesOf(Requests)) /\ Sound(t) /\ AtMostOneActive(t)
    BY DEF GoodTables, Entry
<1>2. t = << >> \/ PortsOf(t) # {}
    <2>1. t # << >> => 1 \in DOMAIN t
        BY <1>1
    <2>2. QED BY <2>1 DEF PortsOf
<1>3. PortsOf(t) # {} => t # << >>
    BY DEF PortsOf
<1>4. QED BY <1>1, <1>2, <1>3, ActivePortFacts, ActivePortUnique DEF BoardOf

(* The board of no table.                                                  *)
LEMMA VacantBoards ==
    /\ BoardOf(<< >>) = SBS!Vacant
    /\ BoardsOf(Empty) = SBS!AllVacant
<1>1. << >> \in Seq(EntriesOf(Requests)) /\ Sound(<< >>) /\ PortsOf(<< >>) = {}
    BY EmptyIsGood DEF GoodTables, Entry, PortsOf
<1>2. BoardOf(<< >>) = SBS!Vacant
    BY <1>1, ActivePortFacts DEF BoardOf, SBS!Vacant
<1>3. QED BY <1>2 DEF BoardsOf, Empty, SBS!AllVacant

(* A registration that is not refused adds a backend.                      *)
LEMMA EnlistBoard ==
    ASSUME UniqueLabels, NEW t \in GoodTables, NEW r \in Requests
    PROVE  Enlist(t, r) = t \/ SBS!Change(BoardOf(t), BoardOf(Enlist(t, r)))
<1> DEFINE u == Enlist(t, r)
<1>1. CASE r.port \in PortsOf(t)
    BY <1>1 DEF Enlist
<1>2. CASE r.port \notin PortsOf(t)
    <2>1. t \in Seq(EntriesOf(Requests)) /\ u \in GoodTables /\ PortsOf(u) = PortsOf(t) \cup {r.port}
        BY OperationsAreGood DEF GoodTables, Entry
    <2>2. r.port \in Ports \ PortsOf(t)
        BY <1>2, RequestsAssumption
    <2>3. ActivePort(u) = IF PortsOf(t) = {} THEN r.port ELSE ActivePort(t)
        <3>1. CASE PortsOf(t) = {}
            <4>1. t = << >>
                BY <3>1, BoardFacts
            <4>2. IsActive(u, r.port)
                BY <1>2, <2>1, <4>1, EnlistView
            <4>3. QED BY <2>1, <3>1, <4>2, BoardFacts
        <3>2. CASE PortsOf(t) # {}
            <4>1. IsActive(t, ActivePort(t))
                BY <3>2, BoardFacts
            <4>2. IsActive(u, ActivePort(t))
                BY <2>1, <4>1, EnlistKeepsActive
            <4>3. QED BY <2>1, <3>2, <4>2, BoardFacts
        <3>3. QED BY <3>1, <3>2
    <2>4. SBS!Registers(BoardOf(t), BoardOf(u))
        BY <2>1, <2>2, <2>3 DEF SBS!Registers, BoardOf
    <2>5. QED BY <2>4 DEF SBS!Change
<1>3. QED BY <1>1, <1>2

(* The current backend stays, if it is still there and was active.         *)
LEMMA LosesBoard ==
    ASSUME UniqueLabels, NEW t \in GoodTables, NEW u \in GoodTables,
           PortsOf(u) \subseteq PortsOf(t),
           \A p \in PortsOf(u) : IsActive(t, p) => IsActive(u, p)
    PROVE  SBS!Loses(BoardOf(t), BoardOf(u))
<1>1. PortsOf(u) = {} => ActivePort(u) = NoPort
    BY BoardFacts
<1>2. ActivePort(t) \in PortsOf(u) => ActivePort(u) = ActivePort(t)
    <2> SUFFICES ASSUME ActivePort(t) \in PortsOf(u) PROVE ActivePort(u) = ActivePort(t)
        OBVIOUS
    <2>1. IsActive(t, ActivePort(t))
        BY BoardFacts
    <2>2. IsActive(u, ActivePort(t))
        BY <2>1
    <2>3. QED BY <2>2, BoardFacts
<1>3. PortsOf(u) # {} => ActivePort(u) \in PortsOf(u)
    BY BoardFacts
<1>4. QED BY <1>1, <1>2, <1>3 DEF SBS!Loses, BoardOf

(* A removal loses the backend it names.                                   *)
LEMMA DelistBoard ==
    ASSUME UniqueLabels, NEW t \in GoodTables, NEW x
    PROVE  Delist(t, x) = t \/ SBS!Change(BoardOf(t), BoardOf(Delist(t, x)))
<1>1. CASE x \notin PortsOf(t)
    BY <1>1 DEF Delist
<1>2. CASE x \in PortsOf(t)
    <2>1. t \in Seq(EntriesOf(Requests)) /\ Delist(t, x) \in GoodTables
          /\ PortsOf(Delist(t, x)) = PortsOf(t) \ {x}
        BY OperationsAreGood DEF GoodTables, Entry
    <2>2. \A p \in PortsOf(Delist(t, x)) : IsActive(t, p) => IsActive(Delist(t, x), p)
        BY <2>1, DelistKeepsActive
    <2>3. SBS!Loses(BoardOf(t), BoardOf(Delist(t, x)))
        BY <2>1, <2>2, LosesBoard
    <2>4. \E p \in BoardOf(t).registered :
             BoardOf(Delist(t, x)).registered = BoardOf(t).registered \ {p}
        BY <1>2, <2>1 DEF BoardOf
    <2>5. QED BY <2>3, <2>4 DEF SBS!Change, SBS!LosesOne
<1>3. QED BY <1>1, <1>2

(* A switch to a known label changes nothing but the current backend.      *)
LEMMA ActivateBoard ==
    ASSUME UniqueLabels, NEW t \in GoodTables, NEW b
    PROVE  Activate(t, b) = t \/ SBS!Change(BoardOf(t), BoardOf(Activate(t, b)))
<1>1. CASE b \notin LabelsOf(t)
    BY <1>1 DEF Activate
<1>2. CASE b \in LabelsOf(t)
    <2>1. Activate(t, b) \in GoodTables /\ PortsOf(Activate(t, b)) = PortsOf(t)
        BY OperationsAreGood
    <2>2. PortsOf(t) # {}
        BY <1>2 DEF LabelsOf, PortsOf
    <2>3. ActivePort(Activate(t, b)) \in PortsOf(t)
        BY <2>1, <2>2, BoardFacts
    <2>4. QED BY <2>1, <2>3 DEF SBS!Change, SBS!Switches, BoardOf
<1>3. QED BY <1>1, <1>2

(* Dropping the dead loses them.                                           *)
LEMMA PurgedBoard ==
    ASSUME UniqueLabels, DataPart, NEW l \in ListenPorts
    PROVE  SBS!Loses(BoardOf(st[l]), BoardOf(Purged[l]))
<1> DEFINE t == st[l]
           u == DropDead(t, NoPid, alive)
<1>1. /\ t \in GoodTables /\ t \in Seq(EntriesOf(Requests)) /\ DistinctPorts(t)
      /\ u \in GoodTables /\ PortsOf(u) \subseteq PortsOf(t) /\ Purged[l] = u
    BY OperationsAreGood DEF DataPart, GoodPart, GoodTables, Entry, Sound, Purged
<1>2. \A p \in PortsOf(u) : IsActive(t, p) => IsActive(u, p)
    BY <1>1, DropDeadView
<1>3. QED BY <1>1, <1>2, LosesBoard

(* When one table of a copy changes as a board may, one board changes.     *)
LEMMA OneBoard ==
    ASSUME NEW f \in [ListenPorts -> GoodTables], NEW k \in ListenPorts, NEW t,
           t = f[k] \/ SBS!Change(BoardOf(f[k]), BoardOf(t))
    PROVE  LET g == [f EXCEPT ![k] = t]
           IN  BoardsOf(g) = BoardsOf(f) \/ SBS!OneChanges(BoardsOf(f), BoardsOf(g))
<1> DEFINE g == [f EXCEPT ![k] = t]
<1>1. \A l \in ListenPorts : g[l] = IF l = k THEN t ELSE f[l]
    OBVIOUS
<1> HIDE DEF g
<1>2. /\ \A l \in ListenPorts : BoardsOf(f)[l] = BoardOf(f[l])
      /\ \A l \in ListenPorts : BoardsOf(g)[l] = BoardOf(g[l])
    BY DEF BoardsOf
<1>3. CASE t = f[k]
    <2>1. \A l \in ListenPorts : BoardOf(g[l]) = BoardOf(f[l])
        BY <1>1, <1>3
    <2>2. QED BY <2>1 DEF BoardsOf, g
<1>4. CASE SBS!Change(BoardOf(f[k]), BoardOf(t))
    <2>1. SBS!Change(BoardsOf(f)[k], BoardsOf(g)[k])
        BY <1>1, <1>2, <1>4
    <2>2. \A l \in ListenPorts \ {k} : BoardsOf(g)[l] = BoardsOf(f)[l]
        BY <1>1, <1>2
    <2>3. SBS!OneChanges(BoardsOf(f), BoardsOf(g))
        BY <2>1, <2>2 DEF SBS!OneChanges
    <2>4. QED BY <2>3 DEF g
<1>5. QED BY <1>3, <1>4

(* A copy keeps its boards, or one of them changes.                        *)
BoardMoves(f, g) == BoardsOf(g) = BoardsOf(f) \/ SBS!OneChanges(BoardsOf(f), BoardsOf(g))

(* A step of a handler changes one board of the listeners, or of the       *)
(* state, or empties or writes the file.                                   *)
LEMMA HandlerBoards ==
    ASSUME UniqueLabels, DataPart, StartPart, NEW h \in Handlers, HandlerStep(h)
    PROVE  \/ UNCHANGED <<st, disk>> /\ BoardMoves(tbl, tbl')
           \/ UNCHANGED <<tbl, disk>> /\ BoardMoves(st, st')
           \/ UNCHANGED <<tbl, st>> /\ disk' \in {Empty, st}
<1>1. tbl \in [ListenPorts -> GoodTables] /\ st \in [ListenPorts -> GoodTables]
    BY DEF DataPart, GoodPart
<1>2. at[h] \in {"adding", "recording", "removing", "erasing", "marking"} =>
         /\ job[h] \in Job /\ job[h].lp \in ListenPorts /\ job[h].req \in Requests
         /\ tbl[job[h].lp] \in GoodTables /\ st[job[h].lp] \in GoodTables
    <2> SUFFICES ASSUME at[h] \in {"adding", "recording", "removing", "erasing", "marking"}
                 PROVE  job[h] \in Job /\ job[h].lp \in ListenPorts
        BY <1>1 DEF Job
    <2>1. QED BY DEF DataPart, WorkPart, HandlerStates
<1>3. CASE Add(h)
    BY <1>1, <1>2, <1>3, EnlistBoard, OneBoard DEF Add, BoardMoves
<1>4. CASE TakeOut(h)
    BY <1>1, <1>2, <1>4, DelistBoard, OneBoard DEF TakeOut, BoardMoves
<1>5. ASSUME NEW l \in ListenPorts, SwitchOne(h, l)
      PROVE  UNCHANGED <<st, disk>> /\ BoardMoves(tbl, tbl')
    BY <1>1, <1>5, ActivateBoard, OneBoard DEF SwitchOne, BoardMoves
<1>6. CASE RecordAdd(h)
    BY <1>1, <1>2, <1>6, EnlistBoard, OneBoard DEF RecordAdd, BoardMoves
<1>7. CASE Erase(h)
    BY <1>1, <1>2, <1>7, DelistBoard, OneBoard DEF Erase, BoardMoves
<1>8. CASE Mark(h)
    BY <1>1, <1>2, <1>8, ActivateBoard, OneBoard DEF Mark, BoardMoves
<1>9. CASE Truncate(h) \/ Write(h)
    BY <1>9 DEF Truncate, Write
<1>10. CASE \/ Locate(h) \/ LocateFails(h) \/ Find(h) \/ Lock(h) \/ EndSwitch(h)
            \/ (\E l \in ListenPorts : PassOver(h, l)) \/ WriteFails(h)
    <2>1. UNCHANGED <<tbl, st, disk>>
        BY <1>10 DEF Locate, LocateFails, Find, Lock, EndSwitch, PassOver, WriteFails, tableVars
    <2>2. QED BY <2>1 DEF BoardMoves
<1>11. QED BY <1>3, <1>4, <1>5, <1>6, <1>7, <1>8, <1>9, <1>10 DEF HandlerStep

(* So does a step of the sweeper, which may also drop the dead from the    *)
(* whole state.                                                            *)
LEMMA SweepBoards ==
    ASSUME UniqueLabels, DataPart, SweepStep
    PROVE  \/ UNCHANGED <<st, disk>> /\ BoardMoves(tbl, tbl')
           \/ UNCHANGED <<tbl, disk>> /\ st' = Purged
           \/ UNCHANGED <<tbl, st>> /\ disk' \in {Empty, st}
<1>1. tbl \in [ListenPorts -> GoodTables]
    BY DEF DataPart, GoodPart
<1>2. CASE SweepEntry
    <2>1. UNCHANGED <<st, disk>> /\ sweepPort \in ListenPorts
        BY <1>2 DEF SweepEntry, DataPart, WorkPart
    <2>2. CASE Dead(Head(snap).pid)
        <3>1. tbl' = [tbl EXCEPT ![sweepPort] = Delist(tbl[sweepPort], Head(snap).port)]
            BY <1>2, <2>2 DEF SweepEntry
        <3>2. tbl[sweepPort] \in GoodTables
            BY <1>1, <2>1
        <3>3. \/ Delist(tbl[sweepPort], Head(snap).port) = tbl[sweepPort]
              \/ SBS!Change(BoardOf(tbl[sweepPort]),
                            BoardOf(Delist(tbl[sweepPort], Head(snap).port)))
            BY <3>2, DelistBoard
        <3>4. QED BY <1>1, <2>1, <3>1, <3>3, OneBoard DEF BoardMoves
    <2>3. CASE ~Dead(Head(snap).pid)
        BY <1>2, <2>1, <2>3 DEF SweepEntry, BoardMoves
    <2>4. QED BY <2>2, <2>3
<1>3. CASE Clean
    BY <1>3 DEF Clean
<1>4. CASE TruncateSweep \/ WriteSweep
    BY <1>4 DEF TruncateSweep, WriteSweep
<1>5. CASE LockSweep \/ EndVisit \/ EndSweep \/ (\E l \in ListenPorts : Visit(l)) \/ WriteSweepFails
    <2>1. UNCHANGED <<tbl, st, disk>>
        BY <1>5 DEF LockSweep, EndVisit, EndSweep, Visit, WriteSweepFails, tableVars
    <2>2. QED BY <2>1 DEF BoardMoves
<1>6. QED BY <1>2, <1>3, <1>4, <1>5 DEF SweepStep

(* What a step of the registry must look like to its clients.              *)
Shown == BoardsOf(IF phase = "up" THEN tbl ELSE Empty)

(* When the daemon is up.                                                  *)
LEMMA ServingStep ==
    ASSUME UniqueLabels, DataPart, phase = "up", phase' = "up",
           \/ UNCHANGED <<st, disk>> /\ BoardMoves(tbl, tbl')
           \/ UNCHANGED <<tbl, disk>> /\ BoardMoves(st, st')
           \/ UNCHANGED <<tbl, disk>> /\ st' = Purged
           \/ UNCHANGED <<tbl, st>> /\ disk' \in {Empty, st}
    PROVE  SBS!Next \/ UNCHANGED <<Stage, Shown, BoardsOf(st), BoardsOf(disk)>>
<1>1. /\ Stage = "serving" /\ Stage' = "serving"
      /\ Shown = BoardsOf(tbl) /\ Shown' = BoardsOf(tbl')
    BY DEF Stage, Shown
<1>2. BoardsOf(st)' = BoardsOf(st') /\ BoardsOf(disk)' = BoardsOf(disk')
    BY DEF BoardsOf, BoardOf
<1>3. CASE UNCHANGED <<st, disk>> /\ BoardMoves(tbl, tbl')
    <2>1. UNCHANGED <<Stage, BoardsOf(st), BoardsOf(disk)>>
        BY <1>1, <1>2, <1>3
    <2>2. Shown' = Shown \/ SBS!OneChanges(Shown, Shown')
        BY <1>1, <1>3 DEF BoardMoves
    <2>3. CASE SBS!OneChanges(Shown, Shown')
        BY <1>1, <2>1, <2>3 DEF SBS!Next, SBS!Route, Shown
    <2>4. QED BY <2>1, <2>2, <2>3
<1>4. CASE UNCHANGED <<tbl, disk>> /\ BoardMoves(st, st')
    <2>1. UNCHANGED <<Stage, Shown, BoardsOf(disk)>>
        BY <1>1, <1>2, <1>4
    <2>2. BoardsOf(st)' = BoardsOf(st) \/ SBS!OneChanges(BoardsOf(st), BoardsOf(st)')
        BY <1>2, <1>4 DEF BoardMoves
    <2>3. CASE SBS!OneChanges(BoardsOf(st), BoardsOf(st)')
        BY <1>1, <2>1, <2>3 DEF SBS!Next, SBS!Note, Shown
    <2>4. QED BY <2>1, <2>2, <2>3
<1>5. CASE UNCHANGED <<tbl, disk>> /\ st' = Purged
    <2>1. UNCHANGED <<Stage, Shown, BoardsOf(disk)>>
        BY <1>1, <1>2, <1>5
    <2>2. \A l \in ListenPorts : SBS!Loses(BoardsOf(st)[l], BoardsOf(st')[l])
        BY <1>5, PurgedBoard DEF BoardsOf
    <2>3. QED BY <1>1, <1>2, <2>1, <2>2 DEF SBS!Next, SBS!Purge, Shown
<1>6. CASE UNCHANGED <<tbl, st>> /\ disk' \in {Empty, st}
    <2>1. UNCHANGED <<Stage, Shown, BoardsOf(st)>>
        BY <1>1, <1>2, <1>6
    <2>2. BoardsOf(disk)' = SBS!AllVacant \/ BoardsOf(disk)' = BoardsOf(st)
        BY <1>2, <1>6, VacantBoards
    <2>3. QED BY <1>1, <2>1, <2>2 DEF SBS!Next, SBS!Truncate, SBS!Save, Shown
<1>7. QED BY <1>3, <1>4, <1>5, <1>6

(* When it starts.                                                         *)
LEMMA StartingStep ==
    ASSUME UniqueLabels, DataPart, StartedPart, StartStep
    PROVE  SBS!Next \/ UNCHANGED <<Stage, Shown, BoardsOf(st), BoardsOf(disk)>>
<1>1. /\ BoardsOf(st)' = BoardsOf(st') /\ BoardsOf(disk)' = BoardsOf(disk')
      /\ BoardsOf(Empty) = SBS!AllVacant
    BY VacantBoards DEF BoardsOf, BoardOf
<1>2. ASSUME phase # "up", phase' # "up"
      PROVE  UNCHANGED Shown
    BY <1>2 DEF Shown, Empty, BoardsOf, BoardOf
<1>3. CASE Load
    <2>1. Stage = "down" /\ Stage' = "starting" /\ phase # "up" /\ phase' # "up"
        BY <1>3 DEF Load, Stage
    <2>2. BoardsOf(st)' = BoardsOf(disk) /\ BoardsOf(disk)' = BoardsOf(disk)
        BY <1>1, <1>3 DEF Load
    <2>3. QED BY <1>2, <2>1, <2>2 DEF SBS!Next, SBS!Load, Shown
<1>4. CASE ~Load /\ ~Serve
    <2>1. /\ phase \notin {"down", "up"} /\ phase' \notin {"down", "up"}
          /\ \/ UNCHANGED <<st, disk>>
             \/ st' = Purged /\ disk' = disk
             \/ st' = st /\ disk' \in {Empty, st}
        BY <1>4 DEF StartStep, CleanAtStart, TruncateAtStart, WriteAtStart, WriteAtStartFails,
               Restore, RestoreFails, tableVars
    <2>2. Stage = "starting" /\ Stage' = "starting" /\ UNCHANGED Shown
        BY <1>2, <2>1 DEF Stage
    <2>3. CASE UNCHANGED <<st, disk>>
        BY <1>1, <2>2, <2>3
    <2>4. CASE st' = Purged /\ disk' = disk
        <3>1. \A l \in ListenPorts : SBS!Loses(BoardsOf(st)[l], BoardsOf(st')[l])
            BY <2>4, PurgedBoard DEF BoardsOf
        <3>2. QED BY <1>1, <2>2, <2>4, <3>1 DEF SBS!Next, SBS!Purge, Shown
    <2>5. CASE st' = st /\ disk' \in {Empty, st}
        <3>1. BoardsOf(disk)' = SBS!AllVacant \/ BoardsOf(disk)' = BoardsOf(st)
            BY <1>1, <2>5
        <3>2. UNCHANGED BoardsOf(st)
            BY <1>1, <2>5
        <3>3. QED BY <2>2, <3>1, <3>2 DEF SBS!Next, SBS!Truncate, SBS!Save, Shown
    <2>6. QED BY <2>1, <2>3, <2>4, <2>5
<1>5. CASE Serve
    <2>1. /\ phase = "restoring" /\ phase' = "up" /\ UNCHANGED <<tbl, st, disk>>
          /\ \A l \in ListenPorts : restored[l] = Len(st[l])
        BY <1>5 DEF Serve, tableVars
    <2>2. Stage = "starting" /\ Stage' = "serving" /\ Shown' = BoardsOf(tbl)
        BY <2>1 DEF Stage, Shown, BoardsOf, BoardOf
    <2>3. ASSUME NEW l \in ListenPorts
          PROVE  BoardsOf(tbl)[l] \in {BoardsOf(st)[l], SBS!Vacant}
        <3>1. st[l] \in GoodTables
            BY DEF DataPart, GoodPart
        <3>2. Replayed(st[l], Len(st[l])) = st[l]
            BY <3>1, ReplayEnds
        <3>3. tbl[l] = st[l] \/ tbl[l] = << >>
            BY <2>1, <3>2 DEF StartedPart, ReplayPart, IsReplayed
        <3>4. BoardOf(tbl[l]) = BoardOf(st[l]) \/ BoardOf(tbl[l]) = SBS!Vacant
            BY <3>3, VacantBoards
        <3>5. QED BY <3>4 DEF BoardsOf
    <2>4. UNCHANGED <<BoardsOf(st), BoardsOf(disk)>>
        BY <1>1, <2>1
    <2>5. QED BY <2>2, <2>3, <2>4 DEF SBS!Next, SBS!Serve, Shown
<1>6. QED BY <1>3, <1>4, <1>5

(* Every step.                                                             *)
LEMMA SwitchboardsStep ==
    ASSUME UniqueLabels, DataPart, StartPart, StartedPart, [Next]_vars
    PROVE  SBS!Next \/ UNCHANGED <<Stage, Shown, BoardsOf(st), BoardsOf(disk)>>
<1>1. ASSUME NEW h \in Handlers, HandlerStep(h)
      PROVE  SBS!Next \/ UNCHANGED <<Stage, Shown, BoardsOf(st), BoardsOf(disk)>>
    BY <1>1, HandlerAlone, HandlerBoards, ServingStep
<1>2. CASE SweepStep
    BY <1>2, SweepStarted, SweepBoards, ServingStep
<1>3. CASE Halt
    <2>1. Stage # "down" /\ Stage' = "down"
        BY <1>3 DEF Halt, Stage
    <2>2. /\ BoardsOf(st)' = SBS!AllVacant /\ Shown' = SBS!AllVacant
          /\ UNCHANGED BoardsOf(disk)
        BY <1>3, VacantBoards DEF Halt, Shown, BoardsOf, BoardOf, Empty
    <2>3. QED BY <2>1, <2>2 DEF SBS!Next, SBS!Stop, Shown
<1>4. ASSUME UNCHANGED <<phase, tbl, st, disk>>
      PROVE  UNCHANGED <<Stage, Shown, BoardsOf(st), BoardsOf(disk)>>
    BY <1>4 DEF Stage, Shown, BoardsOf, BoardOf, Empty
<1>5. ASSUME \/ \E h \in Handlers, j \in Asked : Ask(h, j)
             \/ \E pid \in Mortal \cap alive : Die(pid)
             \/ UNCHANGED vars
      PROVE  UNCHANGED <<phase, tbl, st, disk>>
    BY <1>5 DEF Ask, Die, vars, serverVars, tableVars
<1>6. QED BY <1>1, <1>2, <1>3, <1>4, <1>5, StartingStep DEF Next

(* No order of requests, sweeps, saves, crashes and restarts moves the     *)
(* traffic of a listen port but for a switch or the loss of the current    *)
(* backend, nor lets more than one backend of one listen port come or go   *)
(* at a time but for those that died; and the daemon begins to serve with  *)
(* exactly what the file held, less the dead and the listen ports that are *)
(* taken.                                                                  *)
THEOREM ImplementsSwitchboards == ASSUME UniqueLabels PROVE SafeSpec => SwitchboardsSpec
<1>1. Init => SBS!Init
    BY VacantBoards DEF Init, SBS!Init, Stage
<1>2. DataPart /\ StartPart /\ StartedPart /\ [Next]_vars
         => [SBS!Next]_<<Stage, Shown, BoardsOf(st), BoardsOf(disk)>>
    BY SwitchboardsStep
<1>3. DataPart /\ StartPart /\ StartedPart /\ [Next]_vars => StartedPart'
    BY StartedStep
<1>4. RegistryPart => DataPart /\ StartPart
    BY DEF RegistryPart, LockPart
<1>5. QED BY <1>1, <1>2, <1>3, <1>4, StartedInitially, RegistryInvariant, PTL
             DEF SafeSpec, SwitchboardsSpec, SBS!Spec, Shown

-----------------------------------------------------------------------------
(***************************************************************************)
(* Listeners and state.  An undisturbed daemon does one thing at a time,   *)
(* but a request has changed the listener before it changes the state, a   *)
(* sweep the state before the listeners, and processes die meanwhile:      *)
(* table and record are equal only at times.  What they are at all times   *)
(* is alike as far as the living go, once what the request in progress is  *)
(* going to do to the record is done; and what the listener lists beyond   *)
(* its record the sweep in progress is going to remove.                    *)
(***************************************************************************)

(* The ports of processes that live.  No port is registered by two         *)
(* processes: with two, the second may be known to the listener alone.     *)
UniquePorts == \A r, q \in Requests : r.port = q.port => r = q

LivePorts == {r.port : r \in {r \in Requests : ~Dead(r.pid)}}

(* What the sweeper is still going to look at.                             *)
Due(l, p) ==
    \/ sweepAt = "locking"
    \/ sweepAt \in {"visiting", "removing"} /\ l \in sweepTodo
    \/ sweepAt = "removing" /\ l = sweepPort /\ p \in PortsOf(snap)

Mirrors(t, s, l) ==
    /\ Alike(t, s, LivePorts)
    /\ \A p \in PortsOf(t) \ PortsOf(s) : Due(l, p)

(* The record when the handler has changed it.                             *)
Foreseen(h, l) ==
    IF job[h].lp # l THEN st[l]
    ELSE CASE at[h] = "recording" -> Enlist(st[l], job[h].req)
           [] at[h] = "erasing"   -> Delist(st[l], job[h].req.port)
           [] at[h] = "marking"   -> Activate(st[l], job[h].req.label)
           [] OTHER               -> st[l]

MirrorPart ==
    phase = "up" /\ ~disturbed =>
        \A l \in ListenPorts :
            /\ \A h \in Handlers : at[h] # "idle" => Mirrors(tbl[l], Foreseen(h, l), l)
            /\ (\A h \in Handlers : at[h] = "idle") => Mirrors(tbl[l], st[l], l)

(* Nothing was left out at the start, ...                                  *)
ExactPart == phase = "restoring" /\ ~disturbed => \A l \in ListenPorts : IsReplayed(l)

(* ... and nobody disturbs anybody.                                        *)
OnePart == ~disturbed => \A a, b \in Busy : a = b

HistoryPart == MirrorPart /\ ExactPart /\ OnePart

(* With unique labels a good table has no two active entries.              *)
LEMMA GoodIsSteady == ASSUME UniqueLabels PROVE GoodTables = Steady(Requests)
    BY DEF GoodTables, Steady, Entry

(* The labels and the ports say which request it is.                       *)
LEMMA OneOfEach ==
    /\ UniqueLabels => OneLabelEach(Requests)
    /\ UniquePorts => OnePortEach(Requests)
    BY DEF UniqueLabels, UniquePorts, OneLabelEach, OnePortEach

(* Being alike is an equivalence.                                          *)
LEMMA AlikeLaws ==
    ASSUME NEW K, NEW t, NEW s, NEW u
    PROVE  /\ Alike(t, t, K)
           /\ Alike(t, s, K) => Alike(s, t, K)
           /\ Alike(t, s, K) /\ Alike(s, u, K) => Alike(t, u, K)
    BY DEF Alike

(* An entry is kept when its port is that of a living process.             *)
LEMMA LiveEntry ==
    ASSUME UniquePorts, NEW e \in Entry
    PROVE  Dead(e.pid) <=> e.port \notin LivePorts
<1>1. PICK r \in Requests, a \in BOOLEAN : e = EntryOf(r, a)
    BY DEF Entry, EntriesOf
<1>2. e.port = r.port /\ e.pid = r.pid
    BY <1>1 DEF EntryOf
<1>3. QED BY <1>2 DEF LivePorts, UniquePorts

(* Of a step that does not touch the processes and the sweep.              *)
LEMMA DueSame ==
    ASSUME UNCHANGED <<sweepVars, alive>>
    PROVE  /\ LivePorts' = LivePorts
           /\ \A l, p : Due(l, p)' <=> Due(l, p)
    BY DEF LivePorts, Dead, Due, sweepVars

(* What it means after a step.                                             *)
LEMMA MirrorsAfter ==
    ASSUME NEW l \in ListenPorts
    PROVE  /\ Mirrors(tbl[l], st[l], l)' <=>
                 /\ Alike(tbl'[l], st'[l], LivePorts')
                 /\ \A p \in PortsOf(tbl'[l]) \ PortsOf(st'[l]) : Due(l, p)'
           /\ \A h \in Handlers : Mirrors(tbl[l], Foreseen(h, l), l)' <=>
                 /\ Alike(tbl'[l], Foreseen(h, l)', LivePorts')
                 /\ \A p \in PortsOf(tbl'[l]) \ PortsOf(Foreseen(h, l)') : Due(l, p)'
    BY DEF Mirrors, Alike, PortsOf, Precedes, Current, First, IsActive

(* What is foreseen is a good table.                                       *)
LEMMA ForeseenIsGood ==
    ASSUME DataPart, NEW h \in Handlers, NEW l \in ListenPorts
    PROVE  Foreseen(h, l) \in GoodTables
<1>1. st[l] \in GoodTables
    BY DEF DataPart, GoodPart
<1>2. at[h] = "recording" => job[h].req \in Requests
    BY DEF DataPart, WorkPart, HandlerStates, Job
<1>3. QED BY <1>1, <1>2, OperationsAreGood DEF Foreseen

(* A handler's step does to the listener what it foresees for the record,  *)
(* or to the record what it has foreseen.                                  *)
LEMMA HandlerMirrors ==
    ASSUME UniqueLabels, UniquePorts, DataPart, StartPart, sweepAt = "idle",
           NEW h \in Handlers, HandlerStep(h),
           NEW l \in ListenPorts, Mirrors(tbl[l], Foreseen(h, l), l)
    PROVE  /\ Mirrors(tbl[l], Foreseen(h, l), l)'
           /\ at'[h] = "idle" => Foreseen(h, l)' = st'[l]
<1> DEFINE t == tbl[l]
           s == Foreseen(h, l)
           K == LivePorts
<1>1. UNCHANGED <<sweepVars, alive>>
    BY HandlerAlone
<1>2. /\ Alike(t, s, K) /\ PortsOf(t) \subseteq PortsOf(s)
      /\ t \in GoodTables /\ s \in GoodTables
      /\ t \in Steady(Requests) /\ s \in Steady(Requests)
      /\ tbl \in [ListenPorts -> GoodTables] /\ st \in [ListenPorts -> GoodTables]
    BY ForeseenIsGood, GoodIsSteady DEF Mirrors, Due, DataPart, GoodPart
<1>3. ASSUME Alike(tbl'[l], Foreseen(h, l)', K), PortsOf(tbl'[l]) \subseteq PortsOf(Foreseen(h, l)')
      PROVE  Mirrors(tbl[l], Foreseen(h, l), l)'
    BY <1>1, <1>3, DueSame, MirrorsAfter
<1>4. at'[h] = "idle" => Foreseen(h, l)' = st'[l]
    BY DEF Foreseen
<1>5. ASSUME tbl'[l] = t, Foreseen(h, l)' = s PROVE Mirrors(tbl[l], Foreseen(h, l), l)'
    BY <1>2, <1>3, <1>5
<1>6. at[h] \in {"adding", "recording", "removing", "erasing", "marking"} =>
         job[h].lp \in ListenPorts /\ job[h].req \in Requests
    BY DEF DataPart, WorkPart, HandlerStates, Job
<1>7. CASE Add(h)
    <2>1. at[h] = "adding" /\ st' = st /\ s = st[l]
        BY <1>7 DEF Add, Foreseen
    <2>2. tbl'[l] = IF l = job[h].lp THEN Enlist(t, job[h].req) ELSE t
        BY <1>2, <1>7 DEF Add
    <2>3. CASE job[h].req.port \in PortsOf(tbl[job[h].lp])
        <3>1. at'[h] = "idle"
            BY <1>7, <2>3, AnswerMoves DEF Add
        <3>2. tbl'[l] = t
            BY <2>2, <2>3 DEF Enlist
        <3>3. QED BY <1>4, <1>5, <2>1, <3>1, <3>2
    <2>4. CASE job[h].req.port \notin PortsOf(tbl[job[h].lp])
        <3>1. at'[h] = "recording" /\ job' = job
            BY <1>7, <2>4, MovedTo DEF Add
        <3>2. CASE l = job[h].lp
            <4>1. Foreseen(h, l)' = Enlist(s, job[h].req)
                BY <2>1, <3>1, <3>2 DEF Foreseen
            <4>2. Alike(Enlist(t, job[h].req), Enlist(s, job[h].req), K)
                BY <1>2, <1>6, <2>1, EnlistAlike
            <4>3. /\ PortsOf(Enlist(t, job[h].req)) = PortsOf(t) \cup {job[h].req.port}
                  /\ PortsOf(Enlist(s, job[h].req)) = PortsOf(s) \cup {job[h].req.port}
                BY <1>2, <1>6, <2>1, OperationsAreGood
            <4>4. QED BY <1>2, <1>3, <1>4, <2>2, <3>2, <4>1, <4>2, <4>3
        <3>3. CASE l # job[h].lp
            BY <1>4, <1>5, <2>1, <2>2, <3>1, <3>3 DEF Foreseen
        <3>4. QED BY <3>2, <3>3
    <2>5. QED BY <1>4, <2>3, <2>4
<1>8. CASE TakeOut(h)
    <2>1. /\ at[h] = "removing" /\ st' = st /\ s = st[l]
          /\ at'[h] = "erasing" /\ job' = job
        BY <1>8, MovedTo DEF TakeOut, Foreseen
    <2>2. tbl'[l] = IF l = job[h].lp THEN Delist(t, job[h].req.port) ELSE t
        BY <1>2, <1>8 DEF TakeOut
    <2>3. CASE l = job[h].lp
        <3>1. Foreseen(h, l)' = Delist(s, job[h].req.port)
            BY <2>1, <2>3 DEF Foreseen
        <3>2. Alike(Delist(t, job[h].req.port), Delist(s, job[h].req.port), K)
            BY <1>2, DelistAlike
        <3>3. /\ PortsOf(Delist(t, job[h].req.port)) = PortsOf(t) \ {job[h].req.port}
              /\ PortsOf(Delist(s, job[h].req.port)) = PortsOf(s) \ {job[h].req.port}
            BY <1>2, OperationsAreGood
        <3>4. QED BY <1>2, <1>3, <1>4, <2>2, <2>3, <3>1, <3>2, <3>3
    <2>4. CASE l # job[h].lp
        BY <1>4, <1>5, <2>1, <2>2, <2>4 DEF Foreseen
    <2>5. QED BY <2>3, <2>4
<1>9. ASSUME NEW k \in ListenPorts, SwitchOne(h, k) PROVE Mirrors(tbl[l], Foreseen(h, l), l)'
    <2>1. /\ at[h] = "switching" /\ st' = st /\ s = st[l] /\ at'[h] = "marking"
          /\ job[h].req.label \in LabelsOf(tbl[k])
        BY <1>9, MovedTo DEF SwitchOne, Foreseen, Knows
    <2>2. tbl'[l] = IF l = k THEN Activate(t, job[h].req.label) ELSE t
        BY <1>2, <1>9 DEF SwitchOne
    <2>3. job'[h].lp = k /\ job'[h].req = job[h].req
        <3>1. job[h] \in Job
            BY <2>1 DEF DataPart, WorkPart
        <3>2. job'[h] = [job[h] EXCEPT !.lp = k]
            BY <1>9 DEF SwitchOne, DataPart, TypeOK
        <3>3. QED BY <3>1, <3>2 DEF Job
    <2>4. CASE l = k
        <3>1. Foreseen(h, l)' = Activate(s, job[h].req.label)
            BY <2>1, <2>3, <2>4 DEF Foreseen
        <3>2. Alike(Activate(t, job[h].req.label), Activate(s, job[h].req.label), K)
            BY <1>2, <2>1, <2>4, ActivateAlike, OneOfEach
        <3>3. /\ PortsOf(Activate(t, job[h].req.label)) = PortsOf(t)
              /\ PortsOf(Activate(s, job[h].req.label)) = PortsOf(s)
            BY <1>2, OperationsAreGood
        <3>4. QED BY <1>2, <1>3, <2>2, <2>4, <3>1, <3>2, <3>3
    <2>5. CASE l # k
        BY <1>5, <2>1, <2>2, <2>3, <2>5 DEF Foreseen
    <2>6. QED BY <2>4, <2>5
<1>10. CASE RecordAdd(h) \/ Erase(h) \/ Mark(h)
    <2>1. /\ tbl' = tbl /\ job' = job /\ at[h] \in {"recording", "erasing", "marking"}
          /\ at'[h] \in {"saving", "switching"}
        BY <1>10, MovedTo DEF RecordAdd, Erase, Mark
    <2>2. st'[l] = s
        BY <1>2, <1>10 DEF RecordAdd, Erase, Mark, Foreseen
    <2>3. Foreseen(h, l)' = st'[l]
        BY <2>1 DEF Foreseen
    <2>4. QED BY <1>4, <1>5, <2>1, <2>2, <2>3
<1>11. CASE \/ Locate(h) \/ LocateFails(h) \/ Find(h) \/ Lock(h) \/ EndSwitch(h)
            \/ (\E k \in ListenPorts : PassOver(h, k))
            \/ Truncate(h) \/ Write(h) \/ WriteFails(h)
    <2>1. /\ UNCHANGED <<tbl, st>>
          /\ at[h] \in {"locating", "finding", "locking", "switching", "saving", "writing"}
        BY <1>11 DEF Locate, LocateFails, Find, Lock, EndSwitch, PassOver, Truncate, Write,
                     WriteFails, tableVars
    <2>2. at'[h] \notin {"recording", "erasing", "marking"}
        <3>1. \/ Answer(h) \/ at' = at
              \/ \E x \in HandlerStates \ {"recording", "erasing", "marking"} : Goto(h, x)
            BY <1>11 DEF Locate, LocateFails, Find, Lock, EndSwitch, PassOver, Truncate, Write,
                         WriteFails, HandlerStates
        <3>2. QED BY <2>1, <3>1, AnswerMoves, MovedTo
    <2>3. Foreseen(h, l)' = st'[l] /\ s = st[l]
        BY <2>1, <2>2 DEF Foreseen
    <2>4. QED BY <1>4, <1>5, <2>1, <2>3
<1>12. QED BY <1>4, <1>7, <1>8, <1>9, <1>10, <1>11 DEF HandlerStep

(* A sweep drops the dead from the record first and from the listeners as  *)
(* it comes to them; whoever lives is not touched.                         *)
LEMMA SweepMirrors ==
    ASSUME UniqueLabels, UniquePorts, DataPart, StartPart, StartedPart, SweepStep,
           NEW l \in ListenPorts, Mirrors(tbl[l], st[l], l)
    PROVE  Mirrors(tbl[l], st[l], l)'
<1> DEFINE t == tbl[l]
           s == st[l]
           K == LivePorts
<1>1. /\ t \in GoodTables /\ s \in GoodTables /\ t \in Steady(Requests) /\ s \in Steady(Requests)
      /\ tbl \in [ListenPorts -> GoodTables] /\ st \in [ListenPorts -> GoodTables]
    BY GoodIsSteady DEF DataPart, GoodPart
<1>2. UNCHANGED <<portMap, alive>> /\ LivePorts' = K
    BY SweepStarted DEF LivePorts, Dead
<1>3. Alike(t, s, K) /\ \A p \in PortsOf(t) \ PortsOf(s) : Due(l, p)
    BY DEF Mirrors
<1>4. ASSUME Alike(tbl'[l], st'[l], K), \A p \in PortsOf(tbl'[l]) \ PortsOf(st'[l]) : Due(l, p)'
      PROVE  Mirrors(tbl[l], st[l], l)'
    BY <1>2, <1>4, MirrorsAfter
<1>5. CASE Clean
    <2>1. tbl' = tbl /\ st'[l] = DropDead(s, NoPid, alive)
        BY <1>5 DEF Clean, Purged
    <2>2. CASE sweepAt' = "locking"
        <3>1. \A i \in DOMAIN s : Keeps(s[i], NoPid, alive) <=> s[i].port \in K
            <4> TAKE i \in DOMAIN s
            <4>1. s[i] \in Entry
                BY <1>1 DEF GoodTables
            <4>2. QED BY <4>1, LiveEntry DEF Keeps, Dead
        <3>2. Alike(t, DropDead(s, NoPid, alive), K)
            BY <1>1, <1>3, <3>1, DropDeadAlike
        <3>3. QED BY <1>4, <2>1, <2>2, <3>2 DEF Due
    <2>3. CASE sweepAt' # "locking"
        <3>1. ~HasDead(s) /\ sweepAt' = sweepAt /\ UNCHANGED <<sweepTodo, sweepPort, snap>>
            BY <1>5, <2>3 DEF Clean
        <3>2. st'[l] = s
            BY <1>1, <2>1, <3>1, OperationsAreGood
        <3>3. QED BY <1>3, <1>4, <2>1, <3>1, <3>2 DEF Due
    <2>4. QED BY <2>2, <2>3
<1>6. CASE LockSweep
    <2>1. /\ UNCHANGED <<tbl, st>> /\ sweepAt' = "visiting" /\ sweepTodo' = portMap
          /\ l \notin portMap => PortsOf(t) = {}
        BY <1>6 DEF LockSweep, tableVars, StartedPart, PortMapPart, PortsOf
    <2>2. QED BY <1>3, <1>4, <2>1 DEF Due
<1>7. ASSUME NEW k \in ListenPorts, Visit(k) PROVE Mirrors(tbl[l], st[l], l)'
    <2>1. /\ UNCHANGED <<tbl, st>> /\ sweepAt = "visiting" /\ sweepAt' = "removing"
          /\ sweepTodo' = sweepTodo \ {k} /\ sweepPort' = k /\ snap' = tbl[k]
        BY <1>7 DEF Visit, tableVars
    <2>2. QED BY <1>3, <1>4, <2>1 DEF Due
<1>8. CASE SweepEntry
    <2> DEFINE e == Head(snap)
    <2>1. /\ st' = st /\ sweepAt = "removing" /\ UNCHANGED <<sweepAt, sweepTodo, sweepPort>>
          /\ snap # << >> /\ snap' = Tail(snap)
        BY <1>8 DEF SweepEntry
    <2>2. snap \in Seq(Entry) /\ e \in Entry /\ PortsOf(snap) = {e.port} \cup PortsOf(snap')
        <3>1. snap \in Seq(Entry) /\ e \in Entry /\ Tail(snap) \in Seq(Entry)
            BY <2>1, HeadTailProperties DEF DataPart, TypeOK
        <3>2. \A i \in DOMAIN snap : snap[i] = e \/ \E j \in DOMAIN Tail(snap) : Tail(snap)[j] = snap[i]
            <4> TAKE i \in DOMAIN snap
            <4>1. CASE i = 1
                BY <2>1, <3>1, <4>1
            <4>2. CASE i # 1
                <5>1. i - 1 \in DOMAIN Tail(snap) /\ Tail(snap)[i - 1] = snap[i]
                    BY <2>1, <3>1, <4>2
                <5>2. QED BY <5>1
            <4>3. QED BY <4>1, <4>2
        <3>3. \A j \in DOMAIN Tail(snap) : j + 1 \in DOMAIN snap /\ snap[j + 1] = Tail(snap)[j]
            BY <2>1, <3>1
        <3>4. 1 \in DOMAIN snap /\ snap[1] = e
            BY <2>1, <3>1
        <3>5. QED BY <2>1, <3>1, <3>2, <3>3, <3>4 DEF PortsOf
    <2> HIDE DEF e
    <2>3. \A p : p # e.port /\ Due(l, p) => Due(l, p)'
        BY <2>1, <2>2 DEF Due
    <2>4. CASE l = sweepPort /\ Dead(e.pid)
        <3>1. tbl'[l] = Delist(t, e.port) /\ PortsOf(Delist(t, e.port)) = PortsOf(t) \ {e.port}
            BY <1>1, <1>8, <2>4, OperationsAreGood DEF SweepEntry, e
        <3>2. e.port \notin K
            BY <2>2, <2>4, LiveEntry
        <3>3. Alike(Delist(t, e.port), t, K)
            BY <1>1, <3>2, DelistUnseen
        <3>4. Alike(Delist(t, e.port), s, K)
            BY <1>3, <3>3, AlikeLaws
        <3>5. QED BY <1>3, <1>4, <2>1, <2>3, <3>1, <3>4
    <2>5. CASE l = sweepPort /\ ~Dead(e.pid)
        <3>1. tbl'[l] = t
            BY <1>8, <2>5 DEF SweepEntry, e
        <3>2. e.port \in K
            BY <2>2, <2>5, LiveEntry
        <3>3. e.port \notin PortsOf(t) \ PortsOf(s)
            BY <1>3, <3>2 DEF Alike
        <3>4. QED BY <1>3, <1>4, <2>1, <2>3, <3>1, <3>3
    <2>6. CASE l # sweepPort
        <3>1. tbl'[l] = t
            BY <1>1, <1>8, <2>6 DEF SweepEntry
        <3>2. \A p : Due(l, p) => Due(l, p)'
            BY <2>1, <2>6 DEF Due
        <3>3. QED BY <1>3, <1>4, <2>1, <3>1, <3>2
    <2>7. QED BY <2>4, <2>5, <2>6
<1>9. CASE EndVisit
    <2>1. /\ UNCHANGED <<tbl, st, sweepTodo>> /\ sweepAt = "removing" /\ sweepAt' = "visiting"
          /\ snap = << >>
        BY <1>9 DEF EndVisit, tableVars
    <2>2. PortsOf(snap) = {}
        BY <2>1 DEF PortsOf
    <2>3. QED BY <1>3, <1>4, <2>1, <2>2 DEF Due
<1>10. CASE EndSweep
    <2>1. UNCHANGED <<tbl, st>> /\ sweepAt = "visiting" /\ sweepTodo = {}
        BY <1>10 DEF EndSweep, tableVars
    <2>2. QED BY <1>3, <1>4, <2>1 DEF Due
<1>11. CASE TruncateSweep \/ WriteSweep \/ WriteSweepFails
    <2>1. UNCHANGED <<tbl, st>> /\ sweepAt \in {"saving", "writing"}
        BY <1>11 DEF TruncateSweep, WriteSweep, WriteSweepFails, tableVars
    <2>2. QED BY <1>3, <1>4, <2>1 DEF Due
<1>12. QED BY <1>5, <1>6, <1>7, <1>8, <1>9, <1>10, <1>11 DEF SweepStep

(* At first nothing has happened.                                          *)
LEMMA HistoryInitially == HInit => HistoryPart
    BY DEF HInit, Init, HistoryPart, MirrorPart, ExactPart, OnePart, Busy

(* What an undisturbed step is: it brings the daemon down, or everybody    *)
(* but one was and is idle.                                                *)
LEMMA Undisturbed ==
    ASSUME HNext, ~disturbed', phase' # "down"
    PROVE  /\ ~disturbed
           /\ \A a, b \in Busy' : a = b
           /\ \A l \in ListenPorts : ~RestoreFails(l)
    BY DEF HNext

(* The steps keep the handlers and the sweeper one at a time ...           *)
LEMMA OneAtATime ==
    ASSUME StartPart', HNext
    PROVE  OnePart'
<1> SUFFICES ASSUME ~disturbed' PROVE \A a, b \in Busy' : a = b
    BY DEF OnePart
<1>1. CASE phase' = "down"
    BY <1>1 DEF StartPart, Busy
<1>2. CASE phase' # "down"
    BY <1>2, Undisturbed
<1>3. QED BY <1>1, <1>2

(* ... and the start exact ...                                             *)
LEMMA ExactStart ==
    ASSUME UniqueLabels, DataPart, StartPart, StartedPart, ExactPart, HNext
    PROVE  ExactPart'
<1> SUFFICES ASSUME phase' = "restoring", ~disturbed', NEW l \in ListenPorts PROVE IsReplayed(l)'
    BY DEF ExactPart
<1>1. ~disturbed /\ ~RestoreFails(l)
    BY Undisturbed
<1>2. phase = "restoring" => IsReplayed(l)
    BY <1>1 DEF ExactPart
<1>3. CASE StartStep
    BY <1>1, <1>2, <1>3, ReplayGoesOn DEF StartedPart
<1>4. ASSUME \/ \E h \in Handlers, j \in Asked : Ask(h, j)
             \/ \E h \in Handlers : HandlerStep(h)
             \/ SweepStep \/ Halt
      PROVE  phase' # "restoring"
    <2>1. ASSUME NEW h \in Handlers, HandlerStep(h) PROVE phase' # "restoring"
        BY <2>1, HandlerAlone
    <2>2. CASE SweepStep
        BY <2>2, SweepStarted
    <2>3. CASE (\E h \in Handlers, j \in Asked : Ask(h, j)) \/ Halt
        BY <2>3 DEF Ask, Halt, serverVars
    <2>4. QED BY <1>4, <2>1, <2>2, <2>3
<1>5. CASE \E pid \in Mortal \cap alive : Die(pid)
    BY <1>2, <1>5 DEF Die, serverVars, tableVars, IsReplayed
<1>6. QED BY <1>3, <1>4, <1>5 DEF HNext, Next

(* ... and the listeners alike to the record that is foreseen.             *)
LEMMA MirrorStep ==
    ASSUME UniqueLabels, UniquePorts, DataPart, StartPart, StartedPart, HistoryPart, HNext
    PROVE  MirrorPart'
<1> SUFFICES ASSUME phase' = "up", ~disturbed', NEW l \in ListenPorts
             PROVE  /\ \A h \in Handlers : at'[h] # "idle" => Mirrors(tbl[l], Foreseen(h, l), l)'
                    /\ (\A h \in Handlers : at'[h] = "idle") => Mirrors(tbl[l], st[l], l)'
    BY DEF MirrorPart
<1>1. /\ ~disturbed /\ \A a, b \in Busy' : a = b
    BY Undisturbed
<1>2. \A a, b \in Busy : a = b
    BY <1>1 DEF HistoryPart, OnePart
<1>3. phase = "up" =>
        /\ \A h \in Handlers : at[h] # "idle" => Mirrors(tbl[l], Foreseen(h, l), l)
        /\ (\A h \in Handlers : at[h] = "idle") => Mirrors(tbl[l], st[l], l)
    BY <1>1 DEF HistoryPart, MirrorPart
<1>4. ASSUME NEW h \in Handlers, HandlerStep(h)
      PROVE  /\ \A k \in Handlers : at'[k] # "idle" => Mirrors(tbl[l], Foreseen(k, l), l)'
             /\ (\A k \in Handlers : at'[k] = "idle") => Mirrors(tbl[l], st[l], l)'
    <2>1. /\ phase = "up" /\ at[h] # "idle"
          /\ \A k \in Handlers \ {h} : at'[k] = at[k]
        BY <1>4, HandlerAlone
    <2>2. h \in Busy
        BY <2>1 DEF Busy
    <2>3. sweepAt = "idle" /\ \A k \in Handlers \ {h} : at[k] = "idle"
        BY <1>2, <2>2, ActorsAssumption DEF Busy
    <2>4. /\ Mirrors(tbl[l], Foreseen(h, l), l)'
          /\ at'[h] = "idle" => Foreseen(h, l)' = st'[l]
        BY <1>3, <1>4, <2>1, <2>3, HandlerMirrors
    <2>5. at'[h] = "idle" => Mirrors(tbl[l], st[l], l)'
        BY <2>4
    <2>6. QED BY <2>1, <2>3, <2>4, <2>5
<1>5. ASSUME NEW h \in Handlers, NEW j \in Asked, Ask(h, j)
      PROVE  /\ \A k \in Handlers : at'[k] # "idle" => Mirrors(tbl[l], Foreseen(k, l), l)'
             /\ (\A k \in Handlers : at'[k] = "idle") => Mirrors(tbl[l], st[l], l)'
    <2>1. /\ at[h] = "idle" /\ phase = "up"
          /\ \A k \in Handlers : at'[k] = IF k = h THEN FirstStep(j.op) ELSE at[k]
          /\ FirstStep(j.op) \in {"locating", "finding", "locking"}
          /\ UNCHANGED <<tbl, st, sweepVars, alive>>
        BY <1>5, MovedTo DEF Ask, FirstStep, tableVars
    <2>2. h \in Busy'
        BY <2>1 DEF Busy
    <2>3. \A k \in Handlers \ {h} : at'[k] = "idle"
        BY <1>1, <2>2 DEF Busy
    <2>4. Mirrors(tbl[l], st[l], l)
        BY <1>3, <2>1, <2>3
    <2>5. Mirrors(tbl[l], st[l], l)'
        BY <2>1, <2>4, DueSame, MirrorsAfter DEF Mirrors
    <2>6. Foreseen(h, l)' = st'[l]
        BY <2>1 DEF Foreseen
    <2>7. QED BY <2>1, <2>3, <2>5, <2>6
<1>6. CASE SweepStep
    <2>1. phase = "up" /\ at' = at
        BY <1>6, SweepStarted
    <2>2. CASE Clean /\ sweepAt' = "idle"
        <3>1. /\ \A k \in ListenPorts : ~HasDead(st[k])
              /\ UNCHANGED <<tbl, job, sweepVars, alive>> /\ st' = Purged
            BY <2>2 DEF Clean, handlerVars, sweepVars
        <3>2. st' = st
            BY <3>1, PurgedIsGood DEF DataPart
        <3>3. \A h \in Handlers : Foreseen(h, l)' = Foreseen(h, l)
            BY <2>1, <3>1, <3>2 DEF Foreseen
        <3>4. \A s : Mirrors(tbl[l], s, l) =>
                        Alike(tbl'[l], s, LivePorts') /\ \A p \in PortsOf(tbl'[l]) \ PortsOf(s) : Due(l, p)'
            BY <3>1, DueSame DEF Mirrors
        <3>5. /\ \A h \in Handlers : Mirrors(tbl[l], Foreseen(h, l), l)
                                        => Mirrors(tbl[l], Foreseen(h, l), l)'
              /\ Mirrors(tbl[l], st[l], l) => Mirrors(tbl[l], st[l], l)'
            BY <3>2, <3>3, <3>4, MirrorsAfter DEF Mirrors
        <3>6. QED BY <1>3, <2>1, <3>5
    <2>3. CASE ~(Clean /\ sweepAt' = "idle")
        <3>1. sweepAt # "idle" \/ sweepAt' # "idle"
            BY <1>6, <2>3 DEF SweepStep, LockSweep, SweepEntry, EndVisit, EndSweep, Visit,
                   TruncateSweep, WriteSweep, WriteSweepFails
        <3>2. "sweeper" \in Busy \/ "sweeper" \in Busy'
            BY <3>1 DEF Busy
        <3>3. \A h \in Handlers : at[h] = "idle"
            BY <1>1, <1>2, <2>1, <3>2, ActorsAssumption DEF Busy
        <3>4. Mirrors(tbl[l], st[l], l)
            BY <1>3, <2>1, <3>3
        <3>5. QED BY <1>6, <2>1, <3>3, <3>4, SweepMirrors
    <2>4. QED BY <2>2, <2>3

<1>7. CASE StartStep
    <2>1. phase # "up"
        BY <1>7 DEF StartStep, Load, CleanAtStart, TruncateAtStart, WriteAtStart, WriteAtStartFails,
               Restore, RestoreFails, Serve
    <2>2. Serve
        BY <1>7, <2>1 DEF StartStep, Load, CleanAtStart, TruncateAtStart, WriteAtStart,
               WriteAtStartFails, Restore, RestoreFails
    <2>3. /\ phase = "restoring" /\ restored[l] = Len(st[l])
          /\ UNCHANGED <<tbl, st, handlerVars>>
        BY <2>2 DEF Serve, tableVars
    <2>4. tbl[l] = st[l]
        <3>1. st[l] \in GoodTables
            BY DEF DataPart, GoodPart
        <3>2. tbl[l] = Replayed(st[l], Len(st[l]))
            BY <1>1, <2>3 DEF HistoryPart, ExactPart, IsReplayed
        <3>3. QED BY <3>1, <3>2, ReplayEnds
    <2>5. \A h \in Handlers : at'[h] = "idle"
        BY <2>1, <2>3 DEF StartPart, handlerVars
    <2>6. Mirrors(tbl[l], st[l], l)'
        <3>1. tbl'[l] = st'[l]
            BY <2>3, <2>4
        <3>2. Alike(tbl'[l], st'[l], LivePorts')
            BY <3>1, AlikeLaws
        <3>3. QED BY <3>1, <3>2, MirrorsAfter
    <2>7. QED BY <2>5, <2>6
<1>8. ASSUME NEW pid \in Mortal \cap alive, Die(pid)
      PROVE  /\ \A h \in Handlers : at'[h] # "idle" => Mirrors(tbl[l], Foreseen(h, l), l)'
             /\ (\A h \in Handlers : at'[h] = "idle") => Mirrors(tbl[l], st[l], l)'
    <2>1. /\ UNCHANGED <<phase, tbl, st, at, job, sweepAt, sweepTodo, sweepPort, snap>>
          /\ alive' = alive \ {pid}
        BY <1>8 DEF Die, serverVars, tableVars, handlerVars, sweepVars
    <2>2. LivePorts' \in SUBSET LivePorts
        BY <2>1 DEF LivePorts, Dead
    <2>3. tbl[l] \in Steady(Requests) /\ st[l] \in Steady(Requests)
          /\ \A h \in Handlers : Foreseen(h, l) \in Steady(Requests)
        BY GoodIsSteady, ForeseenIsGood DEF DataPart, GoodPart
    <2>4. \A s \in Steady(Requests) : Mirrors(tbl[l], s, l) =>
             /\ Alike(tbl[l], s, LivePorts')
             /\ \A p \in PortsOf(tbl[l]) \ PortsOf(s) : Due(l, p)'
        <3> SUFFICES ASSUME NEW s \in Steady(Requests), Mirrors(tbl[l], s, l)
                     PROVE  /\ Alike(tbl[l], s, LivePorts')
                            /\ \A p \in PortsOf(tbl[l]) \ PortsOf(s) : Due(l, p)'
            OBVIOUS
        <3>1. Alike(tbl[l], s, LivePorts')
            BY <2>2, <2>3, FewerAlike DEF Mirrors
        <3>2. QED BY <2>1, <3>1 DEF Mirrors, Due
    <2>5. /\ \A h \in Handlers : Foreseen(h, l)' = Foreseen(h, l)
          /\ tbl'[l] = tbl[l] /\ st'[l] = st[l]
        BY <2>1 DEF Foreseen
    <2>6. /\ \A h \in Handlers : Mirrors(tbl[l], Foreseen(h, l), l)
                                    => Mirrors(tbl[l], Foreseen(h, l), l)'
          /\ Mirrors(tbl[l], st[l], l) => Mirrors(tbl[l], st[l], l)'
        BY <2>3, <2>4, <2>5, MirrorsAfter DEF Mirrors
    <2>7. QED BY <1>3, <2>1, <2>6
<1>9. ~Halt
    BY DEF Halt
<1>10. QED BY <1>4, <1>5, <1>6, <1>7, <1>8, <1>9 DEF HNext, Next

(* A step of nobody.                                                       *)
LEMMA HistoryStutters ==
    ASSUME HistoryPart, UNCHANGED <<vars, disturbed>>
    PROVE  HistoryPart'
<1>1. /\ UNCHANGED <<phase, tbl, st, at, job, sweepAt, restored, disturbed, alive, sweepVars>>
    BY DEF vars, serverVars, tableVars, handlerVars, sweepVars
<1>2. /\ Busy' = Busy
      /\ \A l \in ListenPorts : IsReplayed(l)' <=> IsReplayed(l)
      /\ \A h \in Handlers, l \in ListenPorts :
            Mirrors(tbl[l], Foreseen(h, l), l)' <=> Mirrors(tbl[l], Foreseen(h, l), l)
      /\ \A l \in ListenPorts : Mirrors(tbl[l], st[l], l)' <=> Mirrors(tbl[l], st[l], l)
    BY <1>1 DEF Busy, IsReplayed, Mirrors, Foreseen, LivePorts, Dead, Due, sweepVars
<1>3. QED BY <1>1, <1>2 DEF HistoryPart, MirrorPart, ExactPart, OnePart

(* A daemon whose requests and sweeps came one at a time since its start,  *)
(* and that made all its listeners, routes by exactly what its state       *)
(* records whenever it is quiet and no listed process is dead, whatever    *)
(* was registered, removed and switched, whoever died and was swept, and   *)
(* however often it ended and started again.                               *)
THEOREM TablesMirror ==
    ASSUME UniqueLabels, UniquePorts
    PROVE  HSpec => []MirrorWhenQuiet
<1> DEFINE Inv == RegistryPart /\ StartedPart /\ HistoryPart
<1>1. HInit => Inv
    BY DataInitially, LockInitially, FileInitially, StartedInitially, HistoryInitially
        DEF HInit, RegistryPart
<1>2. Inv /\ [HNext]_<<vars, disturbed>> => Inv'
    <2> SUFFICES ASSUME Inv, [HNext]_<<vars, disturbed>> PROVE Inv'
        OBVIOUS
    <2>1. [Next]_vars
        BY DEF HNext
    <2>2. RegistryPart' /\ StartedPart' /\ StartPart'
        BY <2>1, DataStep, LockStep, FileStep, StartedStep DEF RegistryPart, LockPart
    <2>3. CASE HNext
        BY <2>2, <2>3, OneAtATime, ExactStart, MirrorStep DEF RegistryPart, LockPart, HistoryPart
    <2>4. CASE UNCHANGED <<vars, disturbed>>
        BY <2>2, <2>4, HistoryStutters
    <2>5. QED BY <2>2, <2>3, <2>4
<1>3. Inv => MirrorWhenQuiet
    <2> SUFFICES ASSUME Inv, Quiet, ~disturbed, NEW l \in ListenPorts,
                        ~HasDead(tbl[l]), ~HasDead(st[l])
                 PROVE  tbl[l] = st[l]
        BY DEF MirrorWhenQuiet
    <2>1. Alike(tbl[l], st[l], LivePorts)
        BY DEF HistoryPart, MirrorPart, Mirrors, Quiet
    <2>2. /\ tbl[l] \in Steady(Requests) /\ st[l] \in Steady(Requests)
          /\ tbl[l] \in Seq(Entry) /\ st[l] \in Seq(Entry)
        BY GoodIsSteady DEF RegistryPart, DataPart, GoodPart, GoodTables
    <2>3. ASSUME NEW t \in Seq(Entry), ~HasDead(t)
          PROVE  PortsOf(t) \subseteq LivePorts
        <3>1. \A i \in DOMAIN t : t[i] \in Entry /\ ~Dead(t[i].pid)
            BY <2>3 DEF HasDead
        <3>2. QED BY <3>1, LiveEntry DEF PortsOf
    <2>4. PortsOf(tbl[l]) \subseteq LivePorts /\ PortsOf(st[l]) \subseteq LivePorts
        BY <2>2, <2>3
    <2>5. QED BY <2>1, <2>2, <2>4, AlikeEqual, OneOfEach
<1>4. QED BY <1>1, <1>2, <1>3, PTL DEF HSpec
-----------------------------------------------------------------------------
(***************************************************************************)
(* The wrappers.  Their requests are carried out by the registry, so what  *)
(* was proved of its tables holds with them too.  That a running command   *)
(* is served needs in addition which backends the tables may list at all   *)
(* (OwnPart), what each request is for (AskPart), which ports a wrapper    *)
(* has by now (PortPart), and, for each registration that was answered or  *)
(* is well on its way, which of the three tables list it at each stage of  *)
(* the daemon (ServedPart).                                                *)
(***************************************************************************)
USE WrappersAssumption

(* The backends a table of l may list: each wrapper at the port it has     *)
(* for l.                                                                  *)
Own(l) == {r \in Requests : r.pid \in Wrappers /\ r.port = backend[r.pid][l]}
OwnTable(l) == Seq(EntriesOf(Own(l)))

OwnPart ==
    /\ \A l \in ListenPorts : tbl[l] \in OwnTable(l) /\ st[l] \in OwnTable(l) /\ disk[l] \in OwnTable(l)
    /\ sweepAt = "removing" => snap \in OwnTable(sweepPort)

AskPart ==
    \A w \in Wrappers : at[w] # "idle" =>
        /\ job[w].lp \in ListenPorts
        /\ job[w].req \in Own(job[w].lp) /\ job[w].req.pid = w
        /\ \/ job[w].op = "register" /\ at[w] \in {"locating", "adding", "recording", "saving", "writing"}
           \/ job[w].op = "unregister" /\ at[w] \in {"finding", "removing", "erasing", "saving", "writing"}
        /\ run[w] \notin {"new", "allocating", "running"}
        /\ run[w] = "registering" => job[w].op = "register" /\ job[w].lp \in left[w]

HasPorts(w) ==
    /\ left[w] \subseteq Wants[w]
    /\ \A l \in ListenPorts :
          /\ run[w] = "new" => backend[w][l] = NoPort
          /\ run[w] = "allocating" /\ l \in left[w] => backend[w][l] = NoPort
          /\ run[w] = "allocating" /\ l \in Wants[w] \ left[w] => backend[w][l] \in Ports
          /\ run[w] \in {"registering", "running"} /\ l \in Wants[w] => backend[w][l] \in Ports
          /\ run[w] = "leaving" /\ l \in left[w] => backend[w][l] \in Ports
PortPart == \A w \in Wrappers : HasPorts(w)

(* Registered, as far as the wrapper knows; and a registration that has    *)
(* come so far.                                                            *)
Sure(w, l) ==
    /\ l \in Wants[w] /\ ~Shared(w, l)
    /\ run[w] = "running" \/ (run[w] = "registering" /\ l \notin left[w])
Coming(w, l, states) ==
    run[w] = "registering" /\ at[w] \in states /\ job[w].lp = l /\ ~Shared(w, l)

ListenerPart ==
    phase = "up" => \A w \in Wrappers, l \in ListenPorts :
        Sure(w, l) \/ Coming(w, l, {"recording", "saving", "writing"})
            => backend[w][l] \in PortsOf(tbl[l])
StatePart ==
    phase # "down" => \A w \in Wrappers, l \in ListenPorts :
        Sure(w, l) \/ Coming(w, l, {"saving", "writing"})
            => backend[w][l] \in PortsOf(st[l])
SavedPart ==
    ~Writing /\ phase # "writing" => \A w \in Wrappers, l \in ListenPorts :
        Sure(w, l) => backend[w][l] \in PortsOf(disk[l])
RestorePart ==
    /\ phase # "restoring" => restored = [l \in ListenPorts |-> 0]
    /\ phase = "restoring" => \A w \in Wrappers, l \in ListenPorts :
          Sure(w, l) => \/ backend[w][l] \in PortsOf(tbl[l])
                        \/ \E i \in (restored[l] + 1)..Len(st[l]) : st[l][i].port = backend[w][l]
ServedPart == ListenerPart /\ StatePart /\ SavedPart /\ RestorePart

WrapTypes ==
    /\ run \in [Wrappers -> Stages]
    /\ backend \in [Wrappers -> [ListenPorts -> Ports \cup {NoPort}]]
    /\ left \in [Wrappers -> SUBSET ListenPorts]
    /\ bound \in [Ports -> Wrappers \cup {NoPid}]
    /\ \A w \in Wrappers :
          /\ run[w] \in {"new", "running", "ended"} => left[w] = {}
          /\ run[w] = "ended" <=> w \notin alive

(* What CHOOSE finds in Request.                                           *)
LEMMA RequestFacts ==
    ASSUME NEW w \in Wrappers, NEW l \in ListenPorts, backend[w][l] \in Ports
    PROVE  /\ Request(w, l) \in Requests
           /\ Request(w, l).port = backend[w][l] /\ Request(w, l).pid = w
<1>1. \E r \in Requests : r.port = backend[w][l] /\ r.pid = w
    BY DEF Wrappers
<1>2. QED BY <1>1 DEF Request

(* What a wrapper asks for is one of the requests clients make.            *)
Asks(w, l, op) == [op |-> op, lp |-> l, req |-> Request(w, l)]

LEMMA SendAsks ==
    ASSUME WrapTypes, PortPart, NEW w \in Wrappers, NEW l \in ListenPorts, Send(w, l)
    PROVE  /\ backend[w][l] \in Ports /\ Request(w, l) \in Requests
           /\ Request(w, l).port = backend[w][l] /\ Request(w, l).pid = w
           /\ Asks(w, l, "register") \in Asked /\ Asks(w, l, "unregister") \in Asked
           /\ \/ run[w] = "registering" /\ Ask(w, Asks(w, l, "register"))
              \/ run[w] = "leaving" /\ Ask(w, Asks(w, l, "unregister"))
<1>1. backend[w][l] \in Ports
    BY DEF Send, PortPart, HasPorts
<1>2. /\ Request(w, l) \in Requests
      /\ Request(w, l).port = backend[w][l] /\ Request(w, l).pid = w
    BY <1>1, RequestFacts
<1>3. ASSUME NEW op \in {"register", "unregister"}
      PROVE  Asks(w, l, op) \in Asked
    <2>1. op \in Ops /\ op # "switchAll" /\ l # NoPort
        OBVIOUS
    <2>2. QED BY <1>2, <2>1 DEF Asked, Job, Asks
<1>4. \/ run[w] = "registering" /\ Ask(w, Asks(w, l, "register"))
      \/ run[w] = "leaving" /\ Ask(w, Asks(w, l, "unregister"))
    BY DEF Send, Asks
<1>5. QED BY <1>1, <1>2, <1>3, <1>4

(* A wrapper's step is one of the registry's, or its process's end.        *)
LEMMA WrapperSteps ==
    ASSUME WrapTypes, PortPart, [WNext]_allVars
    PROVE  [Next]_vars \/ \E w \in Wrappers : Die(w)
<1>1. CASE DaemonStep
    BY <1>1 DEF DaemonStep, Next
<1>2. ASSUME NEW w \in Wrappers, WrapperStep(w)
      PROVE  UNCHANGED vars \/ Die(w) \/ Next
    <2>1. ASSUME NEW l \in ListenPorts, Send(w, l) PROVE Next
        BY <2>1, SendAsks DEF Next, Wrappers
    <2>2. ASSUME NEW l \in ListenPorts, Allocate(w, l) \/ Refused(w, l) \/ BindPort(w, l)
          PROVE  UNCHANGED vars
        BY <2>2 DEF Allocate, Refused, BindPort
    <2>3. CASE Begin(w) \/ CommandEnds(w)
        BY <2>3 DEF Begin, CommandEnds
    <2>4. CASE Exit(w) \/ Killed(w)
        BY <2>4 DEF Exit, Killed
    <2>5. QED BY <1>2, <2>1, <2>2, <2>3, <2>4 DEF WrapperStep
<1>3. CASE UNCHANGED allVars
    BY <1>3 DEF allVars
<1>4. QED BY <1>1, <1>2, <1>3 DEF WNext

(* The registry's invariant holds in every composed step.                  *)
LEMMA RegistryWithWrappers ==
    ASSUME WrapTypes, PortPart, DataPart, LockPart, [WNext]_allVars
    PROVE  DataPart' /\ LockPart'
<1>1. CASE [Next]_vars
    BY <1>1, DataStep, LockStep
<1>2. ASSUME NEW w \in Wrappers, Die(w) PROVE DataPart' /\ LockPart'
    <2>1. DataPart'
        BY <1>2 DEF Die, DataPart, TypeOK, GoodPart, WorkPart, serverVars, tableVars,
                    handlerVars, sweepVars
    <2>2. LockPart'
        BY <1>2 DEF Die, LockPart, LockIsReleased, SwitchPart, StartPart, serverVars,
                    handlerVars, sweepVars
    <2>3. QED BY <2>1, <2>2
<1>3. QED BY <1>1, <1>2, WrapperSteps

(* Where a handler goes: it answers, or takes the next step of a           *)
(* registration or a removal.                                              *)
Goes(h, s, t) == at[h] = s /\ Goto(h, t) /\ UNCHANGED job

LEMMA HandlerGoes ==
    ASSUME DataPart, AskPart, NEW h \in Handlers, HandlerStep(h)
    PROVE  /\ at[h] # "idle"
           /\ \/ Answer(h)
              \/ Goes(h, "locating", "adding")
              \/ Goes(h, "adding", "recording") /\ Add(h)
              \/ Goes(h, "recording", "saving") /\ RecordAdd(h)
              \/ Goes(h, "finding", "removing")
              \/ Goes(h, "removing", "erasing")
              \/ Goes(h, "erasing", "saving")
              \/ Goes(h, "saving", "writing")
<1>1. at[h] \notin {"locking", "switching", "marking"}
    BY DEF AskPart, Wrappers
<1>2. CASE Locate(h) \/ LocateFails(h)
    BY <1>2 DEF Locate, LocateFails, Goes
<1>3. CASE Add(h)
    BY <1>3 DEF Add, Goes
<1>4. CASE RecordAdd(h)
    BY <1>4 DEF RecordAdd, Goes
<1>5. CASE Find(h)
    BY <1>5 DEF Find, Goes
<1>6. CASE TakeOut(h) \/ Erase(h)
    BY <1>6 DEF TakeOut, Erase, Goes
<1>7. CASE Truncate(h)
    BY <1>7 DEF Truncate, Goes
<1>8. CASE Write(h) \/ WriteFails(h)
    BY <1>8 DEF Write, WriteFails
<1>9. ASSUME Lock(h) \/ Mark(h) \/ EndSwitch(h) PROVE FALSE
    BY <1>1, <1>9 DEF Lock, Mark, EndSwitch
<1>10. ASSUME NEW l \in ListenPorts, SwitchOne(h, l) \/ PassOver(h, l) PROVE FALSE
    BY <1>1, <1>10 DEF SwitchOne, PassOver
<1>11. QED
    BY <1>2, <1>3, <1>4, <1>5, <1>6, <1>7, <1>8, <1>9, <1>10 DEF HandlerStep

(* Where a step of the daemon leaves a request that is in progress then.   *)
LEMMA DaemonMoves ==
    ASSUME DataPart, AskPart, DaemonStep, NEW w \in Wrappers, at'[w] # "idle"
    PROVE  /\ at[w] # "idle" /\ job'[w] = job[w]
           /\ \/ at'[w] = at[w]
              \/ at[w] = "locating" /\ at'[w] = "adding"
              \/ at[w] = "adding" /\ at'[w] = "recording" /\ Add(w)
              \/ at[w] = "recording" /\ at'[w] = "saving" /\ RecordAdd(w)
              \/ at[w] = "finding" /\ at'[w] = "removing"
              \/ at[w] = "removing" /\ at'[w] = "erasing"
              \/ at[w] = "erasing" /\ at'[w] = "saving"
              \/ at[w] = "saving" /\ at'[w] = "writing"
<1> USE DEF Wrappers
<1>1. ASSUME NEW h \in Handlers, HandlerStep(h), Answer(h)
      PROVE  h # w /\ at'[w] = at[w] /\ job'[w] = job[w]
    BY <1>1, AnswerMoves
<1>2. ASSUME NEW h \in Handlers, NEW s, NEW t, Goes(h, s, t)
      PROVE  /\ job' = job
             /\ h = w => at[w] = s /\ at'[w] = t
             /\ h # w => at'[w] = at[w]
    BY <1>2, MovedTo DEF Goes
<1>3. ASSUME NEW h \in Handlers, HandlerStep(h), h # w
      PROVE  at'[w] = at[w] /\ job'[w] = job[w]
    BY <1>1, <1>2, <1>3, HandlerGoes
<1>4. CASE HandlerStep(w)
    <2>1. ~Answer(w)
        BY <1>1, <1>4
    <2>2. QED BY <1>2, <1>4, <2>1, HandlerGoes
<1>5. CASE SweepStep
    <2>1. UNCHANGED <<at, job>>
        BY <1>5 DEF SweepStep, Clean, LockSweep, SweepEntry, EndVisit, EndSweep, Visit,
             TruncateSweep, WriteSweep, WriteSweepFails, handlerVars
    <2>2. QED BY <2>1
<1>6. CASE StartStep
    <2>1. UNCHANGED <<at, job>>
        BY <1>6 DEF StartStep, Load, CleanAtStart, TruncateAtStart,
             WriteAtStart, WriteAtStartFails, Restore, RestoreFails, Serve, handlerVars
    <2>2. QED BY <2>1
<1>7. CASE Halt
    BY <1>7 DEF Halt
<1>8. QED BY <1>3, <1>4, <1>5, <1>6, <1>7 DEF DaemonStep

-----------------------------------------------------------------------------
(* What the wrappers do with the answers; the ports they have.             *)

(* A step of the daemon leaves the wrappers' ports and processes; those    *)
(* that hear an answer move on.                                            *)
LEMMA HearFacts ==
    ASSUME WrapTypes, DaemonStep
    PROVE  /\ backend' = backend /\ bound' = bound /\ alive' = alive
           /\ run' \in [Wrappers -> Stages] /\ left' \in [Wrappers -> SUBSET ListenPorts]
           /\ \A w \in Wrappers :
                 /\ run'[w] = IF Answered(w) THEN StageAfter(w) ELSE run[w]
                 /\ left'[w] = IF Answered(w) THEN LeftAfter(w) ELSE left[w]
<1>1. backend' = backend /\ bound' = bound
    BY DEF DaemonStep, Hear
<1>2. /\ run' = [w \in Wrappers |-> IF Answered(w) THEN StageAfter(w) ELSE run[w]]
      /\ left' = [w \in Wrappers |-> IF Answered(w) THEN LeftAfter(w) ELSE left[w]]
    BY DEF DaemonStep, Hear
<1>3. ASSUME NEW w \in Wrappers
      PROVE  StageAfter(w) \in Stages /\ LeftAfter(w) \in SUBSET ListenPorts
    <2>1. run[w] \in Stages /\ left[w] \in SUBSET ListenPorts
        BY DEF WrapTypes
    <2>2. QED BY <2>1 DEF StageAfter, LeftAfter, Stages
<1>4. run' \in [Wrappers -> Stages] /\ left' \in [Wrappers -> SUBSET ListenPorts]
    <2>1. /\ run \in [Wrappers -> Stages]
          /\ left \in [Wrappers -> SUBSET ListenPorts]
        BY DEF WrapTypes
    <2>2. QED BY <1>2, <1>3, <2>1
<1>5. alive' = alive
    <2>1. ASSUME NEW h \in Handlers, HandlerStep(h) PROVE alive' = alive
        BY <2>1 DEF HandlerStep, Locate, LocateFails, Add, RecordAdd, Find, TakeOut, Erase, Lock,
                    Mark, EndSwitch, SwitchOne, PassOver, Truncate, Write, WriteFails
    <2>2. CASE SweepStep
        BY <2>2 DEF SweepStep, Clean, LockSweep, SweepEntry, EndVisit, EndSweep, Visit,
                    TruncateSweep, WriteSweep, WriteSweepFails
    <2>3. CASE StartStep
        BY <2>3 DEF StartStep, Load, CleanAtStart, TruncateAtStart, WriteAtStart,
                    WriteAtStartFails, Restore, RestoreFails, Serve
    <2>4. CASE Halt
        BY <2>4 DEF Halt
    <2>5. QED BY <2>1, <2>2, <2>3, <2>4 DEF DaemonStep
<1>6. QED BY <1>1, <1>2, <1>4, <1>5

(* What a wrapper's step makes of its own stage and of what it has left to *)
(* do; the other wrappers stay where they are.                             *)
LEMMA ToFacts ==
    ASSUME WrapTypes, NEW w \in Wrappers, NEW s \in Stages, NEW S \in SUBSET ListenPorts,
           To(w, s, S)
    PROVE  /\ run' \in [Wrappers -> Stages] /\ left' \in [Wrappers -> SUBSET ListenPorts]
           /\ \A x \in Wrappers : /\ run'[x] = IF x = w THEN s ELSE run[x]
                                  /\ left'[x] = IF x = w THEN S ELSE left[x]
<1>1. run \in [Wrappers -> Stages] /\ left \in [Wrappers -> SUBSET ListenPorts]
    BY DEF WrapTypes
<1>2. run' = [run EXCEPT ![w] = s] /\ left' = [left EXCEPT ![w] = S]
    BY DEF To
<1>3. QED BY <1>1, <1>2

(* The types, under the daemon's steps.                                    *)
LEMMA DaemonTypes ==
    ASSUME WrapTypes, AskPart, PortPart, DataPart, DaemonStep
    PROVE  WrapTypes' /\ AskPart' /\ PortPart'
<1>1. ASSUME NEW w \in Wrappers
      PROVE  /\ run[w] \in Stages /\ left[w] \in SUBSET ListenPorts
             /\ run[w] \in {"new", "running", "ended"} => left[w] = {}
             /\ run[w] = "ended" <=> w \notin alive
    BY DEF WrapTypes
<1>2. ASSUME NEW w \in Wrappers
      PROVE  /\ run'[w] = run[w] /\ left'[w] = left[w]
             \/ /\ Answered(w) /\ run[w] \in {"leaving", "ended"}
                /\ run'[w] = run[w] /\ left'[w] \subseteq left[w]
             \/ /\ Answered(w) /\ run[w] = "registering" /\ left'[w] \subseteq left[w]
                /\ \/ run'[w] = "leaving" /\ left'[w] = {}
                   \/ run'[w] = "running" /\ left'[w] = {}
                   \/ run'[w] = "registering"
    <2>1. /\ run'[w] = IF Answered(w) THEN StageAfter(w) ELSE run[w]
          /\ left'[w] = IF Answered(w) THEN LeftAfter(w) ELSE left[w]
        BY HearFacts
    <2>2. Answered(w) => run[w] \notin {"new", "allocating", "running"}
        BY DEF AskPart, Answered
    <2>3. CASE ~Answered(w)
        BY <2>1, <2>3
    <2>4. CASE Answered(w) /\ run[w] # "registering"
        <3>1. run'[w] = run[w] /\ left'[w] = left[w] \ {job[w].lp}
            BY <2>1, <2>4 DEF StageAfter, LeftAfter
        <3>2. run[w] \in {"leaving", "ended"}
            BY <1>1, <2>2, <2>4 DEF Stages
        <3>3. QED BY <2>4, <3>1, <3>2
    <2>5. CASE Answered(w) /\ run[w] = "registering"
        BY <2>1, <2>5 DEF StageAfter, LeftAfter
    <2>6. QED BY <2>3, <2>4, <2>5
<1>3. WrapTypes'
    <2>1. ASSUME NEW w \in Wrappers
          PROVE  /\ run'[w] \in {"new", "running", "ended"} => left'[w] = {}
                 /\ run'[w] = "ended" <=> w \notin alive'
        BY <1>1, <1>2, HearFacts
    <2>2. /\ backend \in [Wrappers -> [ListenPorts -> Ports \cup {NoPort}]]
          /\ bound \in [Ports -> Wrappers \cup {NoPid}]
        BY DEF WrapTypes
    <2>3. QED BY <2>1, <2>2, HearFacts DEF WrapTypes
<1>4. PortPart'
    <2>1. backend' = backend
        BY HearFacts
    <2>2. ASSUME NEW w \in Wrappers
          PROVE  /\ left'[w] \subseteq Wants[w]
                 /\ \A l \in ListenPorts :
                       /\ run'[w] = "new" => backend[w][l] = NoPort
                       /\ run'[w] = "allocating" /\ l \in left'[w] => backend[w][l] = NoPort
                       /\ run'[w] = "allocating" /\ l \in Wants[w] \ left'[w] => backend[w][l] \in Ports
                       /\ run'[w] \in {"registering", "running"} /\ l \in Wants[w] => backend[w][l] \in Ports
                       /\ run'[w] = "leaving" /\ l \in left'[w] => backend[w][l] \in Ports
        BY <1>2, <2>2 DEF PortPart, HasPorts
    <2>3. QED BY <2>1, <2>2 DEF PortPart, HasPorts
<1>5. AskPart'
    <2>1. ASSUME NEW w \in Wrappers, at'[w] # "idle"
          PROVE  /\ job[w].lp \in ListenPorts
                 /\ job[w].req \in Own(job[w].lp) /\ job[w].req.pid = w
                 /\ \/ job[w].op = "register" /\ at'[w] \in {"locating", "adding", "recording", "saving", "writing"}
                    \/ job[w].op = "unregister" /\ at'[w] \in {"finding", "removing", "erasing", "saving", "writing"}
                 /\ run[w] \notin {"new", "allocating", "running"}
                 /\ run[w] = "registering" => job[w].op = "register" /\ job[w].lp \in left[w]
        BY <2>1, DaemonMoves DEF AskPart
    <2>2. ASSUME NEW w \in Wrappers, at'[w] # "idle"
          PROVE  job'[w] = job[w] /\ run'[w] = run[w] /\ left'[w] = left[w]
        BY <1>2, <2>2, DaemonMoves DEF Answered
    <2>3. ASSUME NEW l PROVE Own(l)' = Own(l)
        BY HearFacts DEF Own
    <2>4. QED BY <2>1, <2>2, <2>3 DEF AskPart
<1>6. QED BY <1>3, <1>4, <1>5

(* A wrapper's step that leaves its ports and its requests alone.          *)
LEMMA StageTypes ==
    ASSUME WrapTypes, AskPart, PortPart, NEW w \in Wrappers, UNCHANGED <<at, job, backend>>,
           NEW s \in Stages, NEW S \in SUBSET ListenPorts, To(w, s, S),
           bound' \in [Ports -> Wrappers \cup {NoPid}],
           s \in {"new", "running", "ended"} => S = {},
           IF s = "ended" THEN alive' = alive \ {w} ELSE alive' = alive /\ run[w] # "ended",
           at[w] # "idle" => s \in {"leaving", "ended"},
           S \subseteq Wants[w],
           \A l \in ListenPorts :
              /\ s = "new" => backend[w][l] = NoPort
              /\ s = "allocating" /\ l \in S => backend[w][l] = NoPort
              /\ s = "allocating" /\ l \in Wants[w] \ S => backend[w][l] \in Ports
              /\ s \in {"registering", "running"} /\ l \in Wants[w] => backend[w][l] \in Ports
              /\ s = "leaving" /\ l \in S => backend[w][l] \in Ports
    PROVE  WrapTypes' /\ AskPart' /\ PortPart'
<1>1. /\ run' \in [Wrappers -> Stages] /\ left' \in [Wrappers -> SUBSET ListenPorts]
      /\ \A x \in Wrappers : /\ run'[x] = IF x = w THEN s ELSE run[x]
                             /\ left'[x] = IF x = w THEN S ELSE left[x]
    BY ToFacts
<1>2. WrapTypes'
    <2>1. ASSUME NEW x \in Wrappers
          PROVE  /\ run'[x] \in {"new", "running", "ended"} => left'[x] = {}
                 /\ run'[x] = "ended" <=> x \notin alive'
        <3>1. /\ run[x] \in {"new", "running", "ended"} => left[x] = {}
              /\ run[x] = "ended" <=> x \notin alive
            BY DEF WrapTypes
        <3>2. CASE x = w
            BY <1>1, <3>1, <3>2
        <3>3. CASE x # w
            <4>1. x \in alive' <=> x \in alive
                BY <3>3
            <4>2. QED BY <1>1, <3>1, <3>3, <4>1
        <3>4. QED BY <3>2, <3>3
    <2>2. backend' \in [Wrappers -> [ListenPorts -> Ports \cup {NoPort}]]
        BY DEF WrapTypes
    <2>3. QED BY <1>1, <2>1, <2>2 DEF WrapTypes
<1>3. AskPart'
    <2>1. \A l : Own(l)' = Own(l)
        BY DEF Own
    <2>2. ASSUME NEW x \in Wrappers, at[x] # "idle"
          PROVE  /\ run'[x] \notin {"new", "allocating", "running"}
                 /\ run'[x] = "registering" => job[x].op = "register" /\ job[x].lp \in left'[x]
        BY <1>1, <2>2 DEF AskPart
    <2>3. QED BY <2>1, <2>2 DEF AskPart
<1>4. PortPart'
    <2>1. ASSUME NEW x \in Wrappers
          PROVE  /\ left'[x] \subseteq Wants[x]
                 /\ \A l \in ListenPorts :
                       /\ run'[x] = "new" => backend[x][l] = NoPort
                       /\ run'[x] = "allocating" /\ l \in left'[x] => backend[x][l] = NoPort
                       /\ run'[x] = "allocating" /\ l \in Wants[x] \ left'[x] => backend[x][l] \in Ports
                       /\ run'[x] \in {"registering", "running"} /\ l \in Wants[x] => backend[x][l] \in Ports
                       /\ run'[x] = "leaving" /\ l \in left'[x] => backend[x][l] \in Ports
        <3>1. CASE x = w
            <4>1. run'[x] = s /\ left'[x] = S
                BY <1>1, <3>1
            <4>2. QED BY <3>1, <4>1
        <3>2. CASE x # w
            <4>1. run'[x] = run[x] /\ left'[x] = left[x]
                BY <1>1, <3>2
            <4>2. QED BY <4>1 DEF PortPart, HasPorts
        <3>3. QED BY <3>1, <3>2
    <2>2. QED BY <2>1 DEF PortPart, HasPorts
<1>5. QED BY <1>2, <1>3, <1>4

(* The types, under a wrapper's steps.                                     *)
LEMMA WrapperTypes ==
    ASSUME WrapTypes, AskPart, PortPart, DataPart, NEW w \in Wrappers, WrapperStep(w)
    PROVE  WrapTypes' /\ AskPart' /\ PortPart'
<1>1. /\ run[w] \in Stages /\ left[w] \in SUBSET ListenPorts /\ Wants[w] \in SUBSET ListenPorts
      /\ run[w] = "ended" <=> w \notin alive
      /\ backend[w] \in [ListenPorts -> Ports \cup {NoPort}]
      /\ bound \in [Ports -> Wrappers \cup {NoPid}]
    BY DEF WrapTypes
<1>2. at[w] # "idle" => run[w] \notin {"new", "allocating", "running"}
    BY DEF AskPart
<1>3. Unbound(w) \in [Ports -> Wrappers \cup {NoPid}]
    BY <1>1 DEF Unbound
<1>4. CASE Begin(w)
    <2>1. /\ UNCHANGED <<at, job, backend, bound, alive>> /\ run[w] = "new"
          /\ To(w, "allocating", Wants[w]) \/ To(w, "leaving", {})
        BY <1>4 DEF Begin, vars, handlerVars
    <2>2. \A l \in ListenPorts : backend[w][l] = NoPort
        BY <2>1 DEF PortPart, HasPorts
    <2>3. CASE To(w, "allocating", Wants[w])
        BY <1>1, <1>2, <2>1, <2>2, <2>3, StageTypes DEF Stages
    <2>4. CASE To(w, "leaving", {})
        BY <1>1, <1>2, <2>1, <2>2, <2>4, StageTypes DEF Stages
    <2>5. QED BY <2>1, <2>3, <2>4
<1>5. CASE CommandEnds(w)
    <2>1. /\ UNCHANGED <<at, job, backend, alive>> /\ run[w] = "running"
          /\ To(w, "leaving", Wants[w]) /\ bound' = Unbound(w)
        BY <1>5 DEF CommandEnds, vars, handlerVars
    <2>2. \A l \in ListenPorts : l \in Wants[w] => backend[w][l] \in Ports
        BY <2>1 DEF PortPart, HasPorts
    <2>3. QED BY <1>1, <1>2, <1>3, <2>1, <2>2, StageTypes DEF Stages
<1>6. CASE Exit(w) \/ Killed(w)
    <2>1. /\ UNCHANGED <<at, job, backend>> /\ alive' = alive \ {w}
          /\ To(w, "ended", {})
          /\ bound' = bound \/ bound' = Unbound(w)
        BY <1>6 DEF Exit, Killed, Die, handlerVars
    <2>2. QED BY <1>1, <1>3, <2>1, StageTypes DEF Stages
<1>7. ASSUME NEW l \in ListenPorts, Refused(w, l)
      PROVE  WrapTypes' /\ AskPart' /\ PortPart'
    <2>1. /\ UNCHANGED <<at, job, backend, bound, alive>> /\ at[w] = "idle"
          /\ \/ run[w] = "registering" /\ To(w, "leaving", {})
             \/ run[w] = "leaving" /\ To(w, "leaving", left[w] \ {l})
        BY <1>7 DEF Refused, vars, handlerVars
    <2>2. /\ left[w] \subseteq Wants[w]
          /\ run[w] = "leaving" => \A k \in ListenPorts : k \in left[w] => backend[w][k] \in Ports
        BY DEF PortPart, HasPorts
    <2>3. CASE run[w] = "registering" /\ To(w, "leaving", {})
        BY <1>1, <2>1, <2>3, StageTypes DEF Stages
    <2>4. CASE run[w] = "leaving" /\ To(w, "leaving", left[w] \ {l})
        BY <1>1, <2>1, <2>2, <2>4, StageTypes DEF Stages
    <2>5. QED BY <2>1, <2>3, <2>4
<1>8. ASSUME NEW l \in ListenPorts, BindPort(w, l)
      PROVE  WrapTypes' /\ AskPart' /\ PortPart'
    <2>1. /\ UNCHANGED <<at, job, alive, run, backend, left>>
          /\ bound' = [bound EXCEPT ![backend[w][l]] = w]
        BY <1>8 DEF BindPort, vars, handlerVars
    <2>2. bound' \in [Ports -> Wrappers \cup {NoPid}]
        BY <1>1, <2>1
    <2>3. QED BY <2>1, <2>2 DEF WrapTypes, AskPart, PortPart, HasPorts, Own
<1>9. ASSUME NEW l \in ListenPorts, Send(w, l)
      PROVE  WrapTypes' /\ AskPart' /\ PortPart'
    <2>1. /\ UNCHANGED <<alive, run, backend, left, bound>> /\ l \in left[w] /\ at[w] = "idle"
          /\ run[w] \in {"registering", "leaving"}
        BY <1>9 DEF Send, wrapperVars, Ask
    <2>2. PICK op \in {"register", "unregister"} :
             /\ Ask(w, Asks(w, l, op)) /\ Asks(w, l, op) \in Asked
             /\ run[w] = "registering" => op = "register"
        BY <1>9, SendAsks
    <2>3. /\ \A x \in Wrappers \ {w} : at'[x] = at[x] /\ job'[x] = job[x]
          /\ job'[w] = Asks(w, l, op)
          /\ at'[w] = IF op = "register" THEN "locating" ELSE "finding"
        <3>1. Goto(w, FirstStep(op)) /\ job' = [job EXCEPT ![w] = Asks(w, l, op)]
            BY <2>2 DEF Ask, Asks
        <3>2. FirstStep(op) = IF op = "register" THEN "locating" ELSE "finding"
            BY DEF FirstStep
        <3>3. job \in [Handlers -> Job \cup {NoJob}]
            BY DEF DataPart, TypeOK
        <3>4. QED BY <3>1, <3>2, <3>3, MovedTo DEF Wrappers
    <2>4. Asks(w, l, op).lp = l /\ Asks(w, l, op).op = op
          /\ Asks(w, l, op).req \in Own(l) /\ Asks(w, l, op).req.pid = w
        <3>1. /\ Request(w, l) \in Requests
              /\ Request(w, l).port = backend[w][l] /\ Request(w, l).pid = w
            BY <1>9, SendAsks
        <3>2. QED BY <3>1 DEF Asks, Own
    <2>5. \A k : Own(k)' = Own(k)
        BY <2>1 DEF Own
    <2>6. AskPart'
        <3>1. ASSUME NEW x \in Wrappers, at'[x] # "idle"
              PROVE  /\ job'[x].lp \in ListenPorts
                     /\ job'[x].req \in Own(job'[x].lp) /\ job'[x].req.pid = x
                     /\ \/ job'[x].op = "register" /\ at'[x] \in {"locating", "adding", "recording", "saving", "writing"}
                        \/ job'[x].op = "unregister" /\ at'[x] \in {"finding", "removing", "erasing", "saving", "writing"}
                     /\ run[x] \notin {"new", "allocating", "running"}
                     /\ run[x] = "registering" => job'[x].op = "register" /\ job'[x].lp \in left[x]
            <4>1. CASE x = w
                BY <2>1, <2>2, <2>3, <2>4, <4>1
            <4>2. CASE x # w
                BY <2>3, <3>1, <4>2 DEF AskPart
            <4>3. QED BY <4>1, <4>2
        <3>2. QED BY <2>1, <2>5, <3>1 DEF AskPart
    <2>7. QED BY <2>1, <2>6 DEF WrapTypes, PortPart, HasPorts
<1>10. ASSUME NEW l \in ListenPorts, Allocate(w, l)
      PROVE  WrapTypes' /\ AskPart' /\ PortPart'
    <2>1. /\ UNCHANGED <<at, job, bound, alive>> /\ run[w] = "allocating" /\ l \in left[w]
          /\ at[w] = "idle"
        BY <1>2, <1>10 DEF Allocate, vars, handlerVars
    <2>2. CASE To(w, "leaving", {}) /\ UNCHANGED backend
        BY <1>1, <2>1, <2>2, StageTypes DEF Stages
    <2>3. CASE ~(To(w, "leaving", {}) /\ UNCHANGED backend)
        <3>1. PICK p \in Ports : backend' = [backend EXCEPT ![w][l] = p]
            <4>1. Given[w][l] \in Ports \cup {NoPort}
                OBVIOUS
            <4>2. AllocatePort \subseteq Ports
                BY DEF AllocatePort
            <4>3. QED BY <1>10, <2>3, <4>1, <4>2 DEF Allocate
        <3>2. PICK s \in {"registering", "allocating"}, S \in SUBSET ListenPorts :
                 /\ To(w, s, S)
                 /\ IF left[w] = {l} THEN s = "registering" /\ S = Wants[w]
                                     ELSE s = "allocating" /\ S = left[w] \ {l}
            BY <1>1, <1>10, <2>3 DEF Allocate
        <3>3. /\ run' \in [Wrappers -> Stages] /\ left' \in [Wrappers -> SUBSET ListenPorts]
              /\ \A x \in Wrappers : /\ run'[x] = IF x = w THEN s ELSE run[x]
                                     /\ left'[x] = IF x = w THEN S ELSE left[x]
            BY <3>2, ToFacts DEF Stages
        <3>4. /\ backend' \in [Wrappers -> [ListenPorts -> Ports \cup {NoPort}]]
              /\ \A x \in Wrappers, k \in ListenPorts :
                    backend'[x][k] = IF x = w /\ k = l THEN p ELSE backend[x][k]
            <4>1. backend \in [Wrappers -> [ListenPorts -> Ports \cup {NoPort}]]
                BY DEF WrapTypes
            <4>2. QED BY <3>1, <4>1
        <3>5. WrapTypes'
            <4>1. ASSUME NEW x \in Wrappers
                  PROVE  /\ run'[x] \in {"new", "running", "ended"} => left'[x] = {}
                         /\ run'[x] = "ended" <=> x \notin alive'
                <5>1. /\ run[x] \in {"new", "running", "ended"} => left[x] = {}
                      /\ run[x] = "ended" <=> x \notin alive
                    BY DEF WrapTypes
                <5>2. QED BY <2>1, <3>3, <5>1
            <4>2. QED BY <1>1, <2>1, <3>3, <3>4, <4>1 DEF WrapTypes
        <3>6. PortPart'
            <4>1. ASSUME NEW x \in Wrappers, x # w PROVE HasPorts(x)'
                <5>1. /\ run'[x] = run[x] /\ left'[x] = left[x]
                      /\ \A k \in ListenPorts : backend'[x][k] = backend[x][k]
                    BY <3>3, <3>4, <4>1
                <5>2. QED BY <5>1 DEF PortPart, HasPorts
            <4>2. run'[w] = s /\ left'[w] = S
                BY <3>3
            <4>3. /\ left[w] \subseteq Wants[w]
                  /\ \A k \in left[w] : backend[w][k] = NoPort
                  /\ \A k \in Wants[w] \ left[w] : backend[w][k] \in Ports
                BY <1>1, <2>1 DEF PortPart, HasPorts
            <4>4. CASE left[w] = {l}
                <5>1. \A k \in Wants[w] : backend'[w][k] \in Ports
                    BY <1>1, <3>4, <4>3, <4>4
                <5>2. s = "registering" /\ S = Wants[w]
                    BY <3>2, <4>4
                <5>3. HasPorts(w)'
                    BY <4>2, <5>1, <5>2 DEF HasPorts
                <5>4. QED BY <4>1, <5>3 DEF PortPart
            <4>5. CASE left[w] # {l}
                <5>1. s = "allocating" /\ S = left[w] \ {l}
                    BY <3>2, <4>5
                <5>2. /\ S \subseteq Wants[w]
                      /\ \A k \in S : backend'[w][k] = NoPort
                      /\ \A k \in Wants[w] \ S : backend'[w][k] \in Ports
                    BY <1>1, <3>4, <4>3, <5>1
                <5>3. HasPorts(w)'
                    BY <4>2, <5>1, <5>2 DEF HasPorts
                <5>4. QED BY <4>1, <5>3 DEF PortPart
            <4>6. QED BY <4>4, <4>5
        <3>7. AskPart'
            <4>1. ASSUME NEW x \in Wrappers, at[x] # "idle"
                  PROVE  x # w /\ job[x].req \in Own(job[x].lp)'
                <5>1. x # w /\ job[x].req \in Own(job[x].lp) /\ job[x].req.pid = x
                      /\ job[x].lp \in ListenPorts
                    BY <2>1, <4>1 DEF AskPart
                <5>2. job[x].req \in Requests /\ job[x].req.port = backend'[x][job[x].lp]
                    BY <3>4, <5>1 DEF Own
                <5>3. QED BY <2>1, <5>1, <5>2 DEF Own
            <4>2. QED BY <2>1, <3>3, <4>1 DEF AskPart
        <3>8. QED BY <3>5, <3>6, <3>7
    <2>4. QED BY <2>2, <2>3
<1>11. QED BY <1>4, <1>5, <1>6, <1>7, <1>8, <1>9, <1>10 DEF WrapperStep

-----------------------------------------------------------------------------
(* What the tables may list.                                               *)

(* A sequence over a set is one over a larger set.                         *)
LEMMA SeqGrows ==
    ASSUME NEW S, NEW T, S \subseteq T, NEW s \in Seq(S)
    PROVE  s \in Seq(T)
<1>1. s \in [1..Len(s) -> S] /\ Len(s) \in Nat
    BY LenProperties
<1>2. s \in [1..Len(s) -> T]
    BY <1>1
<1>3. QED BY <1>1, <1>2

(* The operations on a table add nothing that is not a wrapper's.          *)
LEMMA OwnTables ==
    ASSUME NEW l, NEW t \in GoodTables, t \in OwnTable(l)
    PROVE  /\ \A r \in Own(l) : Enlist(t, r) \in OwnTable(l)
           /\ \A p : Delist(t, p) \in OwnTable(l)
           /\ DropDead(t, NoPid, alive) \in OwnTable(l)
           /\ \A e \in EntriesOf(Own(l)) : RestoreOne(t, e) \in OwnTable(l)
<1>1. t \in Seq(EntriesOf(Own(l))) /\ Sound(t)
    BY DEF GoodTables, OwnTable
<1>2. ASSUME NEW r \in Own(l)
      PROVE  Enlist(t, r) \in Seq(EntriesOf(Own(l))) /\ Sound(Enlist(t, r))
    BY <1>1, EnlistFacts
<1>3. ASSUME NEW p PROVE Delist(t, p) \in Seq(EntriesOf(Own(l)))
    BY <1>1, DelistFacts
<1>4. DropDead(t, NoPid, alive) \in Seq(EntriesOf(Own(l)))
    BY <1>1, DropDeadFacts
<1>5. ASSUME NEW e \in EntriesOf(Own(l))
      PROVE  RestoreOne(t, e) \in Seq(EntriesOf(Own(l)))
    <2>1. PICK r \in Own(l), a \in BOOLEAN : e = EntryOf(r, a)
        BY DEF EntriesOf
    <2>2. EntryOf(e, t = << >>) = EntryOf(r, t = << >>) /\ e.port = r.port
        BY <2>1 DEF EntryOf
    <2>3. Enlist(t, e) = Enlist(t, r)
        BY <2>2 DEF Enlist
    <2>4. Activate(Enlist(t, r), e.label) \in Seq(EntriesOf(Own(l)))
        BY <1>2, ActivateFacts
    <2>5. QED BY <1>2, <2>3, <2>4 DEF RestoreOne
<1>6. QED BY <1>2, <1>3, <1>4, <1>5 DEF OwnTable

(* An entry that is restored is listed, and nothing is lost by it.         *)
LEMMA RestoreLists ==
    ASSUME NEW t \in GoodTables, NEW e \in Entry
    PROVE  PortsOf(RestoreOne(t, e)) = PortsOf(t) \cup {e.port}
<1>1. PICK r \in Requests, a \in BOOLEAN : e = EntryOf(r, a)
    BY DEF Entry, EntriesOf
<1>2. e.port = r.port /\ EntryOf(e, t = << >>) = EntryOf(r, t = << >>)
    BY <1>1 DEF EntryOf
<1>3. Enlist(t, e) = Enlist(t, r)
    BY <1>2 DEF Enlist
<1>4. Enlist(t, r) \in GoodTables /\ PortsOf(Enlist(t, r)) = PortsOf(t) \cup {r.port}
    BY OperationsAreGood
<1>5. PortsOf(Activate(Enlist(t, r), e.label)) = PortsOf(Enlist(t, r))
    BY <1>4, OperationsAreGood
<1>6. QED BY <1>2, <1>3, <1>4, <1>5 DEF RestoreOne

(* One table of a copy is changed, the others are not.                     *)
LEMMA OneTable ==
    ASSUME NEW f \in [ListenPorts -> GoodTables], NEW k \in ListenPorts, NEW t
    PROVE  \A l \in ListenPorts : [f EXCEPT ![k] = t][l] = IF l = k THEN t ELSE f[l]
    OBVIOUS

(* Nothing a handler does brings in what is not a wrapper's.               *)
LEMMA HandlerOwned ==
    ASSUME DataPart, AskPart, OwnPart, NEW h \in Handlers, HandlerStep(h), backend' = backend
    PROVE  OwnPart'
<1>1. /\ tbl \in [ListenPorts -> GoodTables] /\ st \in [ListenPorts -> GoodTables]
      /\ disk \in [ListenPorts -> GoodTables]
    BY DEF DataPart, GoodPart
<1>2. \A l : Own(l)' = Own(l) /\ OwnTable(l)' = OwnTable(l)
    BY DEF Own, OwnTable
<1>3. at[h] # "idle" =>
        /\ at[h] \notin {"locking", "switching", "marking"}
        /\ job[h].lp \in ListenPorts /\ job[h].req \in Own(job[h].lp)
    BY DEF AskPart, Wrappers
<1>4. UNCHANGED sweepVars
    BY DEF HandlerStep, Locate, LocateFails, Add, RecordAdd, Find, TakeOut, Erase, Lock, Mark,
           EndSwitch, SwitchOne, PassOver, Truncate, Write, WriteFails
<1>5. SUFFICES \A l \in ListenPorts :
                   tbl'[l] \in OwnTable(l) /\ st'[l] \in OwnTable(l) /\ disk'[l] \in OwnTable(l)
    BY <1>2, <1>4 DEF OwnPart, sweepVars
<1>6. \A l \in ListenPorts :
          tbl[l] \in OwnTable(l) /\ st[l] \in OwnTable(l) /\ disk[l] \in OwnTable(l)
    BY DEF OwnPart
<1>7. CASE UNCHANGED tableVars
    BY <1>6, <1>7 DEF tableVars
<1>8. CASE Add(h)
    <2>1. Enlist(tbl[job[h].lp], job[h].req) \in OwnTable(job[h].lp)
        <3>1. job[h].lp \in ListenPorts /\ job[h].req \in Own(job[h].lp)
            BY <1>3, <1>8 DEF Add
        <3>2. tbl[job[h].lp] \in GoodTables /\ tbl[job[h].lp] \in OwnTable(job[h].lp)
            BY <1>1, <1>6, <3>1
        <3>3. QED BY <3>1, <3>2, OwnTables
    <2>2. QED BY <1>1, <1>3, <1>6, <1>8, <2>1, OneTable DEF Add
<1>9. CASE RecordAdd(h)
    <2>1. Enlist(st[job[h].lp], job[h].req) \in OwnTable(job[h].lp)
        <3>1. job[h].lp \in ListenPorts /\ job[h].req \in Own(job[h].lp)
            BY <1>3, <1>9 DEF RecordAdd
        <3>2. st[job[h].lp] \in GoodTables /\ st[job[h].lp] \in OwnTable(job[h].lp)
            BY <1>1, <1>6, <3>1
        <3>3. QED BY <3>1, <3>2, OwnTables
    <2>2. QED BY <1>1, <1>3, <1>6, <1>9, <2>1, OneTable DEF RecordAdd
<1>10. CASE TakeOut(h)
    <2>1. Delist(tbl[job[h].lp], job[h].req.port) \in OwnTable(job[h].lp)
        <3>1. job[h].lp \in ListenPorts /\ job[h].req \in Own(job[h].lp)
            BY <1>3, <1>10 DEF TakeOut
        <3>2. tbl[job[h].lp] \in GoodTables /\ tbl[job[h].lp] \in OwnTable(job[h].lp)
            BY <1>1, <1>6, <3>1
        <3>3. QED BY <3>1, <3>2, OwnTables
    <2>2. QED BY <1>1, <1>3, <1>6, <1>10, <2>1, OneTable DEF TakeOut
<1>11. CASE Erase(h)
    <2>1. Delist(st[job[h].lp], job[h].req.port) \in OwnTable(job[h].lp)
        <3>1. job[h].lp \in ListenPorts /\ job[h].req \in Own(job[h].lp)
            BY <1>3, <1>11 DEF Erase
        <3>2. st[job[h].lp] \in GoodTables /\ st[job[h].lp] \in OwnTable(job[h].lp)
            BY <1>1, <1>6, <3>1
        <3>3. QED BY <3>1, <3>2, OwnTables
    <2>2. QED BY <1>1, <1>3, <1>6, <1>11, <2>1, OneTable DEF Erase
<1>12. CASE Truncate(h)
    <2>1. \A l \in ListenPorts : Empty[l] \in OwnTable(l)
        BY DEF Empty, OwnTable
    <2>2. QED BY <1>6, <1>12, <2>1 DEF Truncate
<1>13. CASE Write(h)
    BY <1>6, <1>13 DEF Write
<1>14. CASE Locate(h) \/ LocateFails(h) \/ Find(h) \/ WriteFails(h)
    BY <1>7, <1>14 DEF Locate, LocateFails, Find, WriteFails
<1>15. ASSUME Lock(h) \/ Mark(h) \/ EndSwitch(h) PROVE FALSE
    BY <1>3, <1>15 DEF Lock, Mark, EndSwitch
<1>16. ASSUME NEW l \in ListenPorts, SwitchOne(h, l) \/ PassOver(h, l) PROVE FALSE
    BY <1>3, <1>16 DEF SwitchOne, PassOver
<1>17. QED
    BY <1>8, <1>9, <1>10, <1>11, <1>12, <1>13, <1>14, <1>15, <1>16 DEF HandlerStep

(* Cleaned tables are a wrapper's still.                                   *)
LEMMA PurgedOwned ==
    ASSUME DataPart, OwnPart, NEW l \in ListenPorts
    PROVE  Purged[l] \in OwnTable(l)
<1>1. st[l] \in GoodTables /\ st[l] \in OwnTable(l)
    BY DEF DataPart, GoodPart, OwnPart
<1>2. QED BY <1>1, OwnTables DEF Purged

(* Nor does the sweeper or the start of the daemon, or its end.            *)
LEMMA SweepOwned ==
    ASSUME DataPart, OwnPart, SweepStep, backend' = backend
    PROVE  OwnPart'
<1>1. tbl \in [ListenPorts -> GoodTables] /\ snap \in Seq(Entry)
    BY DEF DataPart, GoodPart, TypeOK
<1>2. \A l : Own(l)' = Own(l) /\ OwnTable(l)' = OwnTable(l)
    BY DEF Own, OwnTable
<1>3. /\ \A l \in ListenPorts :
            tbl[l] \in OwnTable(l) /\ st[l] \in OwnTable(l) /\ disk[l] \in OwnTable(l)
      /\ sweepAt = "removing" => snap \in OwnTable(sweepPort)
    BY DEF OwnPart
<1>4. SUFFICES /\ \A l \in ListenPorts :
                     tbl'[l] \in OwnTable(l) /\ st'[l] \in OwnTable(l) /\ disk'[l] \in OwnTable(l)
               /\ sweepAt' = "removing" => snap' \in OwnTable(sweepPort)'
    BY <1>2 DEF OwnPart
<1>5. CASE Clean
    BY <1>3, <1>5, PurgedOwned DEF Clean
<1>6. CASE LockSweep \/ EndSweep \/ EndVisit \/ WriteSweepFails
    BY <1>3, <1>6 DEF LockSweep, EndSweep, EndVisit, WriteSweepFails, tableVars
<1>7. ASSUME NEW k \in ListenPorts, Visit(k)
      PROVE  /\ \A l \in ListenPorts :
                   tbl'[l] \in OwnTable(l) /\ st'[l] \in OwnTable(l) /\ disk'[l] \in OwnTable(l)
             /\ sweepAt' = "removing" => snap' \in OwnTable(sweepPort)'
    <2>1. snap' \in OwnTable(k) /\ sweepPort' = k
        BY <1>3, <1>7 DEF Visit
    <2>2. OwnTable(sweepPort)' = OwnTable(k)
        BY <2>1 DEF Own, OwnTable
    <2>3. QED BY <1>3, <1>7, <2>1, <2>2 DEF Visit, tableVars
<1>8. CASE SweepEntry
    <2>1. /\ sweepAt = "removing" /\ snap # << >> /\ sweepPort \in ListenPorts
          /\ snap' = Tail(snap) /\ UNCHANGED <<st, disk, sweepPort>>
        BY <1>8 DEF SweepEntry, DataPart, WorkPart
    <2>2. Tail(snap) \in OwnTable(sweepPort)
        BY <1>3, <2>1 DEF OwnTable
    <2>3. Delist(tbl[sweepPort], Head(snap).port) \in OwnTable(sweepPort)
        BY <1>1, <1>3, <2>1, OwnTables
    <2>4. \A l \in ListenPorts : tbl'[l] \in OwnTable(l)
        <3>1. \/ tbl' = tbl
              \/ tbl' = [tbl EXCEPT ![sweepPort] = Delist(tbl[sweepPort], Head(snap).port)]
            BY <1>8 DEF SweepEntry
        <3>2. QED BY <1>1, <1>3, <2>1, <2>3, <3>1, OneTable
    <2>5. OwnTable(sweepPort)' = OwnTable(sweepPort)
        BY <2>1 DEF Own, OwnTable
    <2>6. QED BY <1>3, <2>1, <2>2, <2>4, <2>5
<1>9. CASE TruncateSweep
    <2>1. \A l \in ListenPorts : Empty[l] \in OwnTable(l)
        BY DEF Empty, OwnTable
    <2>2. QED BY <1>3, <1>9, <2>1 DEF TruncateSweep
<1>10. CASE WriteSweep
    BY <1>3, <1>10 DEF WriteSweep
<1>11. QED BY <1>5, <1>6, <1>7, <1>8, <1>9, <1>10 DEF SweepStep

LEMMA StartOwned ==
    ASSUME DataPart, OwnPart, StartPart, StartStep \/ Halt, backend' = backend
    PROVE  OwnPart'
<1>1. tbl \in [ListenPorts -> GoodTables] /\ st \in [ListenPorts -> GoodTables]
    BY DEF DataPart, GoodPart
<1>2. \A l : Own(l)' = Own(l) /\ OwnTable(l)' = OwnTable(l)
    BY DEF Own, OwnTable
<1>3. \A l \in ListenPorts :
          tbl[l] \in OwnTable(l) /\ st[l] \in OwnTable(l) /\ disk[l] \in OwnTable(l)
    BY DEF OwnPart
<1>4. sweepAt' # "removing"
    <2>1. CASE StartStep
        <3>1. phase # "up" /\ UNCHANGED sweepVars
            BY <2>1 DEF StartStep, Load, CleanAtStart, TruncateAtStart, WriteAtStart,
                        WriteAtStartFails, Restore, RestoreFails, Serve
        <3>2. QED BY <3>1 DEF StartPart, sweepVars
    <2>2. CASE Halt
        BY <2>2 DEF Halt
    <2>3. QED BY <2>1, <2>2
<1>5. SUFFICES \A l \in ListenPorts :
                   tbl'[l] \in OwnTable(l) /\ st'[l] \in OwnTable(l) /\ disk'[l] \in OwnTable(l)
    BY <1>2, <1>4 DEF OwnPart
<1>6. \A l \in ListenPorts : Empty[l] \in OwnTable(l)
    BY DEF Empty, OwnTable
<1>7. CASE Load \/ TruncateAtStart \/ WriteAtStart \/ Halt
    BY <1>3, <1>6, <1>7 DEF Load, TruncateAtStart, WriteAtStart, Halt
<1>8. CASE CleanAtStart
    BY <1>3, <1>8, PurgedOwned DEF CleanAtStart
<1>9. CASE WriteAtStartFails \/ Serve \/ \E l \in ListenPorts : RestoreFails(l)
    BY <1>3, <1>9 DEF WriteAtStartFails, Serve, RestoreFails, tableVars
<1>10. ASSUME NEW k \in ListenPorts, Restore(k)
       PROVE  \A l \in ListenPorts :
                  tbl'[l] \in OwnTable(l) /\ st'[l] \in OwnTable(l) /\ disk'[l] \in OwnTable(l)
    <2>1. st[k][restored[k] + 1] \in EntriesOf(Own(k))
        <3>1. st[k] \in Seq(EntriesOf(Own(k))) /\ restored[k] \in Nat /\ restored[k] < Len(st[k])
            BY <1>3, <1>10 DEF OwnTable, Restore, DataPart, TypeOK
        <3>2. restored[k] + 1 \in 1..Len(st[k])
            BY <3>1, LenProperties
        <3>3. QED BY <3>1, <3>2, ElementOfSeq
    <2>2. RestoreOne(tbl[k], st[k][restored[k] + 1]) \in OwnTable(k)
        BY <1>1, <1>3, <2>1, OwnTables
    <2>3. QED BY <1>1, <1>3, <1>10, <2>2, OneTable DEF Restore
<1>11. QED BY <1>7, <1>8, <1>9, <1>10 DEF StartStep

(* A wrapper that is given a port has had none for that listen port.       *)
LEMMA WrapperOwned ==
    ASSUME DataPart, WrapTypes, PortPart, OwnPart, NEW w \in Wrappers, WrapperStep(w)
    PROVE  OwnPart'
<1>1. UNCHANGED <<tableVars, sweepVars>>
    <2>1. CASE Begin(w) \/ CommandEnds(w)
        BY <2>1 DEF Begin, CommandEnds, vars
    <2>2. CASE Exit(w) \/ Killed(w)
        BY <2>2 DEF Exit, Killed, Die
    <2>3. ASSUME NEW l \in ListenPorts, Allocate(w, l) \/ Refused(w, l) \/ BindPort(w, l)
          PROVE  UNCHANGED <<tableVars, sweepVars>>
        BY <2>3 DEF Allocate, Refused, BindPort, vars
    <2>4. ASSUME NEW l \in ListenPorts, Send(w, l) PROVE UNCHANGED <<tableVars, sweepVars>>
        BY <2>4 DEF Send, Ask
    <2>5. QED BY <2>1, <2>2, <2>3, <2>4 DEF WrapperStep
<1>2. \A x \in Wrappers, l \in ListenPorts :
          backend'[x][l] = backend[x][l] \/ backend[x][l] = NoPort
    <2>1. CASE UNCHANGED backend
        BY <2>1
    <2>2. ASSUME NEW l \in ListenPorts, Allocate(w, l), NEW p,
                 backend' = [backend EXCEPT ![w][l] = p]
          PROVE  \A x \in Wrappers, k \in ListenPorts :
                     backend'[x][k] = backend[x][k] \/ backend[x][k] = NoPort
        <3>1. backend[w][l] = NoPort
            BY <2>2 DEF Allocate, PortPart, HasPorts
        <3>2. backend \in [Wrappers -> [ListenPorts -> Ports \cup {NoPort}]]
            BY DEF WrapTypes
        <3>3. \A x \in Wrappers, k \in ListenPorts :
                 backend'[x][k] = IF x = w /\ k = l THEN p ELSE backend[x][k]
            BY <2>2, <3>2
        <3>4. QED BY <3>1, <3>3
    <2>3. ASSUME NEW l \in ListenPorts, Allocate(w, l), backend' # backend
          PROVE  \A x \in Wrappers, k \in ListenPorts :
                     backend'[x][k] = backend[x][k] \/ backend[x][k] = NoPort
        <3>1. PICK p : backend' = [backend EXCEPT ![w][l] = p]
            BY <2>3 DEF Allocate
        <3>2. QED BY <2>2, <2>3, <3>1
    <2>4. ASSUME ~(\E l \in ListenPorts : Allocate(w, l)) PROVE UNCHANGED backend
        BY <2>4 DEF WrapperStep, Begin, CommandEnds, Exit, Killed, Send, Refused, BindPort,
                    wrapperVars
    <2>5. QED BY <2>1, <2>2, <2>3, <2>4
<1>3. ASSUME NEW l \in ListenPorts PROVE Own(l) \subseteq Own(l)'
    <2>1. ASSUME NEW r \in Own(l) PROVE r \in Own(l)'
        <3>1. r \in Requests /\ r.pid \in Wrappers /\ r.port = backend[r.pid][l] /\ r.port # NoPort
            BY <2>1 DEF Own
        <3>2. QED BY <1>2, <3>1 DEF Own
    <2>2. QED BY <2>1
<1>4. ASSUME NEW l \in ListenPorts, NEW t \in OwnTable(l) PROVE t \in OwnTable(l)'
    <2>1. EntriesOf(Own(l)) \subseteq EntriesOf(Own(l)')
        BY <1>3 DEF EntriesOf
    <2>2. QED BY <1>4, <2>1, SeqGrows DEF OwnTable
<1>5. sweepAt = "removing" => sweepPort \in ListenPorts
    BY DEF DataPart, WorkPart
<1>6. QED BY <1>1, <1>4, <1>5 DEF OwnPart, tableVars, sweepVars

-----------------------------------------------------------------------------
(* What a running command is listed by.                                    *)

(* A wrapper that registers, or has registered, and has a port to itself:  *)
(* no entry of that port is another's, and nobody is removing it.          *)
Holds(w, l) == run[w] \in {"registering", "running"} /\ ~Shared(w, l)

LEMMA HeldAlone ==
    ASSUME WrapTypes, AskPart, NEW w \in Wrappers, NEW l \in ListenPorts, Holds(w, l)
    PROVE  /\ w \in alive
           /\ \A r \in Own(l) : r.port = backend[w][l] => r.pid = w
           /\ \A e \in EntriesOf(Own(l)) : e.port = backend[w][l] => e.pid = w
           /\ \A h \in Handlers : at[h] \in {"removing", "erasing"} /\ job[h].lp = l
                 => job[h].req.port # backend[w][l]
<1>1. w \in alive
    BY DEF Holds, WrapTypes
<1>2. \A r \in Own(l) : r.port = backend[w][l] => r.pid = w
    BY DEF Own, Holds, Shared
<1>3. \A e \in EntriesOf(Own(l)) : e.port = backend[w][l] => e.pid = w
    BY <1>2 DEF EntriesOf, EntryOf
<1>4. ASSUME NEW h \in Handlers, at[h] \in {"removing", "erasing"}, job[h].lp = l,
             job[h].req.port = backend[w][l]
      PROVE  FALSE
    <2>1. /\ job[h].req \in Own(l) /\ job[h].req.pid = h
          /\ run[h] \notin {"registering", "running"}
        BY <1>4 DEF AskPart, Wrappers
    <2>2. h = w
        BY <1>2, <1>4, <2>1
    <2>3. QED BY <2>1, <2>2 DEF Holds
<1>5. QED BY <1>1, <1>2, <1>3, <1>4

(* A cleaning keeps it.                                                    *)
LEMMA PurgeKeeps ==
    ASSUME DataPart, WrapTypes, AskPart, OwnPart, NEW w \in Wrappers, NEW l \in ListenPorts,
           Holds(w, l), backend[w][l] \in PortsOf(st[l])
    PROVE  backend[w][l] \in PortsOf(Purged[l])
<1>1. st[l] \in Seq(EntriesOf(Own(l))) /\ Sound(st[l])
    BY DEF DataPart, GoodPart, GoodTables, OwnPart, OwnTable
<1>2. PICK i \in DOMAIN st[l] : st[l][i].port = backend[w][l]
    BY DEF PortsOf
<1>3. st[l][i] \in EntriesOf(Own(l))
    BY <1>1, <1>2
<1>4. Keeps(st[l][i], NoPid, alive)
    BY <1>2, <1>3, HeldAlone DEF Keeps
<1>5. st[l][i].port \in PortsOf(DropDead(st[l], NoPid, alive))
    BY <1>1, <1>2, <1>4, DropDeadFacts
<1>6. QED BY <1>2, <1>5 DEF Purged

(* A step of a handler loses no such port from either copy of the tables,  *)
(* and adds the port it is to add.                                         *)
LEMMA HandlerKeeps ==
    ASSUME DataPart, WrapTypes, AskPart, NEW h \in Handlers, HandlerStep(h),
           NEW w \in Wrappers, NEW l \in ListenPorts, Holds(w, l)
    PROVE  /\ backend[w][l] \in PortsOf(tbl[l]) => backend[w][l] \in PortsOf(tbl'[l])
           /\ backend[w][l] \in PortsOf(st[l]) => backend[w][l] \in PortsOf(st'[l])
           /\ h = w /\ Add(h) /\ job[h].lp = l => backend[w][l] \in PortsOf(tbl'[l])
           /\ h = w /\ RecordAdd(h) /\ job[h].lp = l => backend[w][l] \in PortsOf(st'[l])
<1>1. tbl \in [ListenPorts -> GoodTables] /\ st \in [ListenPorts -> GoodTables]
    BY DEF DataPart, GoodPart
<1>2. at[h] # "idle" =>
        /\ at[h] \notin {"locking", "switching", "marking"}
        /\ job[h].lp \in ListenPorts /\ job[h].req \in Own(job[h].lp) /\ job[h].req \in Requests
        /\ job[h].req.pid = h
    BY DEF AskPart, Wrappers, Own
<1>3. h = w /\ at[h] # "idle" /\ job[h].lp = l => job[h].req.port = backend[w][l]
    BY <1>2 DEF Own
<1>4. CASE UNCHANGED <<tbl, st>> /\ ~Add(h) /\ ~RecordAdd(h)
    BY <1>4
<1>5. CASE Add(h)
    <2>1. /\ at[h] = "adding" /\ st' = st
          /\ tbl' = [tbl EXCEPT ![job[h].lp] = Enlist(tbl[job[h].lp], job[h].req)]
        BY <1>5 DEF Add
    <2>2. /\ job[h].lp \in ListenPorts
          /\ PortsOf(Enlist(tbl[job[h].lp], job[h].req))
                = PortsOf(tbl[job[h].lp]) \cup {job[h].req.port}
        <3>1. /\ job[h].lp \in ListenPorts /\ job[h].req \in Requests
              /\ tbl[job[h].lp] \in GoodTables
            BY <1>1, <1>2, <2>1
        <3>2. QED BY <3>1, OperationsAreGood
    <2>3. tbl'[l] = IF l = job[h].lp THEN Enlist(tbl[job[h].lp], job[h].req) ELSE tbl[l]
        BY <1>1, <2>1, <2>2, OneTable
    <2>4. ~RecordAdd(h)
        BY <2>1 DEF RecordAdd
    <2>5. QED BY <1>3, <2>1, <2>2, <2>3, <2>4
<1>6. CASE RecordAdd(h)
    <2>1. /\ at[h] = "recording" /\ tbl' = tbl
          /\ st' = [st EXCEPT ![job[h].lp] = Enlist(st[job[h].lp], job[h].req)]
        BY <1>6 DEF RecordAdd
    <2>2. /\ job[h].lp \in ListenPorts
          /\ PortsOf(Enlist(st[job[h].lp], job[h].req))
                = PortsOf(st[job[h].lp]) \cup {job[h].req.port}
        <3>1. /\ job[h].lp \in ListenPorts /\ job[h].req \in Requests
              /\ st[job[h].lp] \in GoodTables
            BY <1>1, <1>2, <2>1
        <3>2. QED BY <3>1, OperationsAreGood
    <2>3. st'[l] = IF l = job[h].lp THEN Enlist(st[job[h].lp], job[h].req) ELSE st[l]
        BY <1>1, <2>1, <2>2, OneTable
    <2>4. ~Add(h)
        BY <2>1 DEF Add
    <2>5. QED BY <1>3, <2>1, <2>2, <2>3, <2>4
<1>7. CASE TakeOut(h)
    <2>1. /\ at[h] = "removing" /\ st' = st
          /\ tbl' = [tbl EXCEPT ![job[h].lp] = Delist(tbl[job[h].lp], job[h].req.port)]
        BY <1>7 DEF TakeOut
    <2>2. /\ job[h].lp \in ListenPorts
          /\ PortsOf(Delist(tbl[job[h].lp], job[h].req.port))
                = PortsOf(tbl[job[h].lp]) \ {job[h].req.port}
        <3>1. job[h].lp \in ListenPorts /\ tbl[job[h].lp] \in GoodTables
            BY <1>1, <1>2, <2>1
        <3>2. QED BY <3>1, OperationsAreGood
    <2>3. tbl'[l] = IF l = job[h].lp THEN Delist(tbl[job[h].lp], job[h].req.port) ELSE tbl[l]
        BY <1>1, <2>1, <2>2, OneTable
    <2>4. job[h].lp = l => job[h].req.port # backend[w][l]
        BY <2>1, HeldAlone
    <2>5. ~Add(h) /\ ~RecordAdd(h)
        BY <2>1 DEF Add, RecordAdd
    <2>6. QED BY <2>1, <2>2, <2>3, <2>4, <2>5
<1>8. CASE Erase(h)
    <2>1. /\ at[h] = "erasing" /\ tbl' = tbl
          /\ st' = [st EXCEPT ![job[h].lp] = Delist(st[job[h].lp], job[h].req.port)]
        BY <1>8 DEF Erase
    <2>2. /\ job[h].lp \in ListenPorts
          /\ PortsOf(Delist(st[job[h].lp], job[h].req.port))
                = PortsOf(st[job[h].lp]) \ {job[h].req.port}
        <3>1. job[h].lp \in ListenPorts /\ st[job[h].lp] \in GoodTables
            BY <1>1, <1>2, <2>1
        <3>2. QED BY <3>1, OperationsAreGood
    <2>3. st'[l] = IF l = job[h].lp THEN Delist(st[job[h].lp], job[h].req.port) ELSE st[l]
        BY <1>1, <2>1, <2>2, OneTable
    <2>4. job[h].lp = l => job[h].req.port # backend[w][l]
        BY <2>1, HeldAlone
    <2>5. ~Add(h) /\ ~RecordAdd(h)
        BY <2>1 DEF Add, RecordAdd
    <2>6. QED BY <2>1, <2>2, <2>3, <2>4, <2>5
<1>9. CASE Locate(h) \/ LocateFails(h) \/ Find(h) \/ Truncate(h) \/ Write(h) \/ WriteFails(h)
    <2>1. at[h] \notin {"adding", "recording"} /\ UNCHANGED <<tbl, st>>
        BY <1>9 DEF Locate, LocateFails, Find, Truncate, Write, WriteFails, tableVars
    <2>2. ~Add(h) /\ ~RecordAdd(h)
        BY <2>1 DEF Add, RecordAdd
    <2>3. QED BY <1>4, <2>1, <2>2
<1>10. ASSUME Lock(h) \/ Mark(h) \/ EndSwitch(h) PROVE FALSE
    BY <1>2, <1>10 DEF Lock, Mark, EndSwitch
<1>11. ASSUME NEW k \in ListenPorts, SwitchOne(h, k) \/ PassOver(h, k) PROVE FALSE
    BY <1>2, <1>11 DEF SwitchOne, PassOver
<1>12. QED BY <1>5, <1>6, <1>7, <1>8, <1>9, <1>10, <1>11 DEF HandlerStep

(* Nor does the sweeper.                                                   *)
LEMMA SweepKeeps ==
    ASSUME DataPart, WrapTypes, AskPart, OwnPart, SweepStep,
           NEW w \in Wrappers, NEW l \in ListenPorts, Holds(w, l)
    PROVE  /\ backend[w][l] \in PortsOf(tbl[l]) => backend[w][l] \in PortsOf(tbl'[l])
           /\ backend[w][l] \in PortsOf(st[l]) => backend[w][l] \in PortsOf(st'[l])
<1>1. CASE Clean
    <2>1. tbl' = tbl /\ st' = Purged
        BY <1>1 DEF Clean
    <2>2. QED BY <2>1, PurgeKeeps
<1>2. CASE SweepEntry
    <2>1. /\ tbl \in [ListenPorts -> GoodTables] /\ snap \in Seq(EntriesOf(Own(sweepPort)))
          /\ sweepPort \in ListenPorts /\ snap # << >> /\ st' = st
        BY <1>2 DEF SweepEntry, DataPart, GoodPart, WorkPart, OwnPart, OwnTable
    <2>2. Head(snap) \in EntriesOf(Own(sweepPort))
        BY <2>1
    <2>3. CASE tbl' = tbl
        BY <2>1, <2>3
    <2>4. CASE /\ Dead(Head(snap).pid)
               /\ tbl' = [tbl EXCEPT ![sweepPort] = Delist(tbl[sweepPort], Head(snap).port)]
        <3>1. sweepPort = l => Head(snap).port # backend[w][l]
            BY <2>2, <2>4, HeldAlone DEF Dead
        <3>2. PortsOf(Delist(tbl[sweepPort], Head(snap).port))
                 = PortsOf(tbl[sweepPort]) \ {Head(snap).port}
            BY <2>1, OperationsAreGood
        <3>3. tbl'[l] = IF l = sweepPort THEN Delist(tbl[sweepPort], Head(snap).port) ELSE tbl[l]
            BY <2>1, <2>4, OneTable
        <3>4. QED BY <2>1, <3>1, <3>2, <3>3
    <2>5. QED BY <1>2, <2>3, <2>4 DEF SweepEntry
<1>3. CASE \/ LockSweep \/ EndVisit \/ EndSweep \/ \E k \in ListenPorts : Visit(k)
           \/ TruncateSweep \/ WriteSweep \/ WriteSweepFails
    BY <1>3 DEF LockSweep, EndVisit, EndSweep, Visit, TruncateSweep, WriteSweep, WriteSweepFails,
                tableVars
<1>4. QED BY <1>1, <1>2, <1>3 DEF SweepStep

(* Who is sure after an answer was so before, or has just been answered;   *)
(* and a registration on its way has come one step further at most.        *)
LEMMA ServedBefore ==
    ASSUME WrapTypes, AskPart, PortPart, DataPart, DaemonStep, NEW w \in Wrappers, NEW l \in ListenPorts
    PROVE  /\ Sure(w, l)' => /\ Holds(w, l)
                             /\ Sure(w, l) \/ (Coming(w, l, {"saving", "writing"}) /\ Answered(w) /\ phase' = "up")
           /\ Coming(w, l, {"recording", "saving", "writing"})' =>
                 /\ Holds(w, l) /\ job[w].lp = l
                 /\ Coming(w, l, {"recording", "saving", "writing"}) \/ Add(w)
           /\ Coming(w, l, {"saving", "writing"})' =>
                 /\ Holds(w, l) /\ job[w].lp = l
                 /\ Coming(w, l, {"saving", "writing"}) \/ RecordAdd(w)
<1>1. /\ run'[w] = IF Answered(w) THEN StageAfter(w) ELSE run[w]
      /\ left'[w] = IF Answered(w) THEN LeftAfter(w) ELSE left[w]
      /\ Shared(w, l)' <=> Shared(w, l)
    BY HearFacts DEF Shared
<1>2. ASSUME Sure(w, l)'
      PROVE  /\ Holds(w, l)
             /\ Sure(w, l) \/ (Coming(w, l, {"saving", "writing"}) /\ Answered(w) /\ phase' = "up")
    <2>1. /\ l \in Wants[w] /\ ~Shared(w, l)
          /\ run'[w] = "running" \/ (run'[w] = "registering" /\ l \notin left'[w])
        BY <1>1, <1>2 DEF Sure
    <2>2. run[w] = "running" => left[w] = {}
        BY DEF WrapTypes
    <2>3. CASE ~Answered(w)
        BY <1>1, <2>1, <2>3 DEF Sure, Holds
    <2>4. CASE Answered(w) /\ run[w] # "registering"
        BY <1>1, <2>1, <2>2, <2>4 DEF Sure, Holds, StageAfter
    <2>5. CASE Answered(w) /\ run[w] = "registering"
        <3>1. Succeeded(w)
            BY <1>1, <2>1, <2>5 DEF StageAfter
        <3>2. CASE job[w].lp = l
            BY <2>1, <2>5, <3>1, <3>2 DEF Succeeded, Coming, Holds
        <3>3. CASE job[w].lp # l
            <4>1. l \notin left[w]
                BY <1>1, <2>1, <2>5, <3>1, <3>3 DEF StageAfter, LeftAfter
            <4>2. QED BY <2>1, <2>5, <4>1 DEF Sure, Holds
        <3>4. QED BY <3>2, <3>3
    <2>6. QED BY <2>3, <2>4, <2>5
<1>3. ASSUME run'[w] = "registering", at'[w] # "idle", job'[w].lp = l, ~Shared(w, l)'
      PROVE  /\ Holds(w, l) /\ at[w] # "idle" /\ run[w] = "registering" /\ ~Shared(w, l)
             /\ job[w].lp = l
    <2>1. at[w] # "idle" /\ job'[w] = job[w] /\ ~Answered(w)
        BY <1>3, DaemonMoves DEF Answered
    <2>2. QED BY <1>1, <1>3, <2>1 DEF Holds
<1>4. ASSUME Coming(w, l, {"recording", "saving", "writing"})'
      PROVE  /\ Holds(w, l) /\ job[w].lp = l
             /\ Coming(w, l, {"recording", "saving", "writing"}) \/ Add(w)
    <2>1. /\ Holds(w, l) /\ at[w] # "idle" /\ run[w] = "registering" /\ ~Shared(w, l)
          /\ job[w].lp = l /\ at'[w] \in {"recording", "saving", "writing"}
        BY <1>3, <1>4 DEF Coming
    <2>2. job[w].op = "register" /\ at[w] \in {"locating", "adding", "recording", "saving", "writing"}
        BY <2>1 DEF AskPart
    <2>3. at[w] \in {"recording", "saving", "writing"} \/ Add(w)
        BY <2>1, <2>2, DaemonMoves
    <2>4. QED BY <2>1, <2>3 DEF Coming
<1>5. ASSUME Coming(w, l, {"saving", "writing"})'
      PROVE  /\ Holds(w, l) /\ job[w].lp = l
             /\ Coming(w, l, {"saving", "writing"}) \/ RecordAdd(w)
    <2>1. /\ Holds(w, l) /\ at[w] # "idle" /\ run[w] = "registering" /\ ~Shared(w, l)
          /\ job[w].lp = l /\ at'[w] \in {"saving", "writing"}
        BY <1>3, <1>5 DEF Coming
    <2>2. job[w].op = "register" /\ at[w] \in {"locating", "adding", "recording", "saving", "writing"}
        BY <2>1 DEF AskPart
    <2>3. at[w] \in {"saving", "writing"} \/ RecordAdd(w)
        BY <2>1, <2>2, DaemonMoves
    <2>4. QED BY <2>1, <2>3 DEF Coming
<1>6. QED BY <1>2, <1>4, <1>5

(* While nothing is answered, nobody becomes sure.                         *)
Wrapped == WrapTypes /\ AskPart /\ PortPart /\ OwnPart

(* A handler's step leaves such ports in the listeners,                    *)
LEMMA HandlerListens ==
    ASSUME DataPart, StartPart, Wrapped, ListenerPart, NEW h \in Handlers, HandlerStep(h), DaemonStep
    PROVE  ListenerPart' /\ phase = "up" /\ phase' = "up"
<1> USE DEF Wrapped
<1>1. at[h] # "idle" /\ phase' = phase
    BY DEF HandlerStep, Locate, LocateFails, Add, RecordAdd, Find, TakeOut, Erase, Lock, Mark,
           EndSwitch, SwitchOne, PassOver, Truncate, Write, WriteFails, serverVars
<1>2. phase = "up" /\ phase' = "up" /\ backend' = backend
    BY <1>1, HearFacts DEF StartPart
<1>3. ASSUME NEW w \in Wrappers, NEW l \in ListenPorts,
             Sure(w, l)' \/ Coming(w, l, {"recording", "saving", "writing"})'
      PROVE  backend[w][l] \in PortsOf(tbl'[l])
    <2>1. Holds(w, l)
        BY <1>3, ServedBefore
    <2>2. CASE backend[w][l] \in PortsOf(tbl[l])
        BY <2>1, <2>2, HandlerKeeps
    <2>3. CASE Add(w) /\ job[w].lp = l
        <3>1. w = h
            <4>1. at[w] = "adding" /\ at'[w] # "adding"
                BY <2>3, AnswerMoves, MovedTo DEF Add, Wrappers
            <4>2. h # w => at'[w] = at[w]
                BY AnswerMoves, MovedTo, HandlerGoes DEF Wrappers, Goes
            <4>3. QED BY <4>1, <4>2
        <3>2. QED BY <2>1, <2>3, <3>1, HandlerKeeps
    <2>4. Coming(w, l, {"saving", "writing"}) => Coming(w, l, {"recording", "saving", "writing"})
        BY DEF Coming
    <2>5. QED BY <1>2, <1>3, <2>2, <2>3, <2>4, ServedBefore DEF ListenerPart
<1>4. QED BY <1>2, <1>3 DEF ListenerPart

(* and in the state; the file is written by a save that had truncated it,  *)
(* with all the state holds.                                               *)
LEMMA HandlerServed ==
    ASSUME DataPart, StartPart, Wrapped, ServedPart, ~SaveMayFail,
           NEW h \in Handlers, HandlerStep(h), DaemonStep
    PROVE  ServedPart'
<1> USE DEF Wrapped, ServedPart
<1>1. /\ at[h] # "idle" /\ UNCHANGED <<phase, restored, sweepVars>>
    BY DEF HandlerStep, Locate, LocateFails, Add, RecordAdd, Find, TakeOut, Erase, Lock, Mark,
           EndSwitch, SwitchOne, PassOver, Truncate, Write, WriteFails, serverVars
<1>2. phase = "up" /\ phase' = "up" /\ backend' = backend /\ sweepAt' = sweepAt
    BY <1>1, HearFacts DEF StartPart, sweepVars
<1>3. RestorePart'
    BY <1>1, <1>2 DEF RestorePart
<1>4. ListenerPart'
    BY HandlerListens
<1>5. ASSUME NEW w \in Wrappers, NEW l \in ListenPorts,
             Sure(w, l)' \/ Coming(w, l, {"saving", "writing"})'
      PROVE  backend[w][l] \in PortsOf(st'[l])
    <2>1. Holds(w, l)
        BY <1>5, ServedBefore
    <2>2. CASE backend[w][l] \in PortsOf(st[l])
        BY <2>1, <2>2, HandlerKeeps
    <2>3. CASE RecordAdd(w) /\ job[w].lp = l
        <3>1. w = h
            <4>1. at[w] = "recording" /\ at'[w] # "recording"
                BY <2>3, MovedTo DEF RecordAdd, Wrappers
            <4>2. h # w => at'[w] = at[w]
                BY AnswerMoves, MovedTo, HandlerGoes DEF Wrappers, Goes
            <4>3. QED BY <4>1, <4>2
        <3>2. QED BY <2>1, <2>3, <3>1, HandlerKeeps
    <2>4. QED BY <1>2, <1>5, <2>2, <2>3, ServedBefore DEF StatePart
<1>6. ASSUME ~Writing', NEW w \in Wrappers, NEW l \in ListenPorts, Sure(w, l)'
      PROVE  backend[w][l] \in PortsOf(disk'[l])
    <2>1. CASE Write(h)
        <3>1. disk' = st'
            BY <2>1 DEF Write
        <3>2. QED BY <1>5, <1>6, <3>1
    <2>2. CASE ~Write(h)
        <3>1. ~Truncate(h)
            <4>1. Truncate(h) => at'[h] = "writing"
                BY MovedTo DEF Truncate
            <4>2. QED BY <1>6, <4>1 DEF Writing
        <3>2. at[h] \notin {"saving", "writing"}
            BY <2>2, <3>1 DEF HandlerStep, Locate, LocateFails, Add, RecordAdd, Find, TakeOut, Erase,
                   Lock, Mark, EndSwitch, SwitchOne, PassOver, WriteFails
        <3>3. disk' = disk
            BY <2>2, <3>1 DEF HandlerStep, Locate, LocateFails, Add, RecordAdd, Find, TakeOut, Erase,
                   Lock, Mark, EndSwitch, SwitchOne, PassOver, WriteFails, tableVars
        <3>4. \A k \in Handlers : k # h => at'[k] = at[k]
            BY AnswerMoves, MovedTo, HandlerGoes DEF Goes
        <3>5. ~Writing
            BY <1>2, <1>6, <3>2, <3>4 DEF Writing
        <3>6. at[w] \in {"saving", "writing"} => ~Answered(w)
            BY <3>2, <3>4 DEF Wrappers, Answered
        <3>7. Sure(w, l)
            BY <1>6, <3>6, ServedBefore DEF Coming
        <3>8. QED BY <1>2, <3>3, <3>5, <3>7 DEF SavedPart
    <2>3. QED BY <2>1, <2>2
<1>7. ListenerPart' /\ StatePart' /\ SavedPart'
    BY <1>2, <1>4, <1>5, <1>6 DEF StatePart, SavedPart
<1>8. QED BY <1>3, <1>7

(* A step of the sweeper answers nobody.                                   *)
LEMMA SweepServed ==
    ASSUME DataPart, StartPart, Wrapped, SweepStep, DaemonStep
    PROVE  /\ phase = "up" /\ phase' = "up"
           /\ ListenerPart => ListenerPart'
           /\ ServedPart /\ ~SaveMayFail => ServedPart'
<1> USE DEF Wrapped
<1>1. /\ UNCHANGED <<phase, restored, at, job>> /\ phase = "up"
    <2>1. /\ UNCHANGED <<phase, restored, at, job>>
          /\ sweepAt # "idle" \/ phase = "up"
        BY DEF SweepStep, Clean, LockSweep, SweepEntry, EndVisit, EndSweep, Visit,
               TruncateSweep, WriteSweep, WriteSweepFails, handlerVars, serverVars
    <2>2. QED BY <2>1 DEF StartPart
<1>2. backend' = backend /\ phase' = "up"
    BY <1>1, HearFacts
<1>3. \A w \in Wrappers : ~Answered(w)
    BY <1>1 DEF Answered
<1>4. ASSUME NEW w \in Wrappers, NEW l \in ListenPorts
      PROVE  /\ Sure(w, l)' => Sure(w, l) /\ Holds(w, l)
             /\ Coming(w, l, {"recording", "saving", "writing"})' =>
                   Coming(w, l, {"recording", "saving", "writing"}) /\ Holds(w, l)
             /\ Coming(w, l, {"saving", "writing"})' => Coming(w, l, {"saving", "writing"}) /\ Holds(w, l)
    <2>1. Sure(w, l)' => Sure(w, l) /\ Holds(w, l)
        BY <1>3, ServedBefore
    <2>2. run'[w] = run[w] /\ at'[w] = at[w] /\ job'[w] = job[w] /\ (Shared(w, l)' <=> Shared(w, l))
        BY <1>1, <1>2, <1>3, HearFacts DEF Shared
    <2>3. QED BY <2>1, <2>2 DEF Coming, Holds
<1>5. RestorePart => RestorePart'
    BY <1>1 DEF RestorePart
<1>6. ListenerPart => ListenerPart'
    BY <1>1, <1>2, <1>4, SweepKeeps DEF ListenerPart
<1>7. StatePart => StatePart'
    BY <1>1, <1>2, <1>4, SweepKeeps DEF StatePart
<1>8. ASSUME StatePart, SavedPart, ~SaveMayFail PROVE SavedPart'
    <2>1. CASE WriteSweep
        <3>1. disk' = st'
            BY <2>1 DEF WriteSweep
        <3>2. QED BY <1>2, <1>7, <1>8, <3>1 DEF StatePart, SavedPart
    <2>2. CASE TruncateSweep
        BY <2>2 DEF TruncateSweep, SavedPart, Writing
    <2>3. CASE ~WriteSweep /\ ~TruncateSweep
        <3>1. disk' = disk /\ sweepAt # "writing"
            BY <1>8, <2>3 DEF SweepStep, Clean, LockSweep, SweepEntry, EndVisit, EndSweep, Visit,
                   WriteSweepFails, tableVars
        <3>2. ~Writing' => ~Writing
            BY <1>1, <3>1 DEF Writing
        <3>3. QED BY <1>1, <1>2, <1>4, <1>8, <3>1, <3>2 DEF SavedPart
    <2>4. QED BY <2>1, <2>2, <2>3
<1>9. QED BY <1>1, <1>2, <1>5, <1>6, <1>7, <1>8 DEF ServedPart

(* The daemon starts again with what the file holds, and adds it entry by  *)
(* entry.                                                                  *)
LEMMA StartServed ==
    ASSUME DataPart, StartPart, Wrapped, ServedPart, ~SaveMayFail, ~BindMayFail,
           StartStep, DaemonStep
    PROVE  ServedPart'
<1> USE DEF Wrapped, ServedPart
<1>1. /\ tbl \in [ListenPorts -> GoodTables] /\ st \in [ListenPorts -> GoodTables]
      /\ restored \in [ListenPorts -> Nat]
    BY DEF DataPart, GoodPart, TypeOK
<1>2. /\ phase # "up" /\ UNCHANGED <<at, job, sweepAt>>
      /\ sweepAt = "idle" /\ \A h \in Handlers : at[h] = "idle"
    <2>1. phase # "up" /\ UNCHANGED <<at, job, sweepAt>>
        BY DEF StartStep, Load, CleanAtStart, TruncateAtStart, WriteAtStart, WriteAtStartFails,
               Restore, RestoreFails, Serve, handlerVars, sweepVars
    <2>2. QED BY <2>1 DEF StartPart
<1>3. backend' = backend /\ ~Writing /\ ~Writing'
    BY <1>2, HearFacts DEF Writing
<1>4. ASSUME NEW w \in Wrappers, NEW l \in ListenPorts
      PROVE  /\ ~Coming(w, l, {"recording", "saving", "writing"})'
             /\ ~Coming(w, l, {"saving", "writing"})'
             /\ Sure(w, l)' => Sure(w, l) /\ Holds(w, l)
    <2>1. at[w] = "idle" /\ at'[w] = "idle" /\ ~Answered(w)
        BY <1>2 DEF Wrappers, Answered
    <2>2. QED BY <2>1, ServedBefore DEF Coming
<1>5. CASE Load
    <2>1. st' = disk /\ disk' = disk /\ restored' = restored /\ phase = "down" /\ phase' = "loaded"
        BY <1>5 DEF Load
    <2>2. QED BY <1>3, <1>4, <2>1 DEF ListenerPart, StatePart, SavedPart, RestorePart
<1>6. ASSUME NEW w \in Wrappers, NEW l \in ListenPorts, backend[w][l] \in PortsOf(st[l]),
             restored[l] = 0
      PROVE  \E i \in (restored[l] + 1)..Len(st[l]) : st[l][i].port = backend[w][l]
    <2>1. PICK i \in DOMAIN st[l] : st[l][i].port = backend[w][l]
        BY <1>6 DEF PortsOf
    <2>2. i \in 1..Len(st[l]) /\ Len(st[l]) \in Nat
        BY <1>1, <2>1 DEF GoodTables
    <2>3. QED BY <1>6, <2>1, <2>2
<1>7. CASE CleanAtStart
    <2>1. /\ st' = Purged /\ disk' = disk /\ restored' = restored /\ phase = "loaded"
          /\ phase' \in {"cleaned", "restoring"}
        BY <1>7 DEF CleanAtStart
    <2>2. ASSUME NEW w \in Wrappers, NEW l \in ListenPorts, Sure(w, l)'
          PROVE  backend[w][l] \in PortsOf(st'[l])
        BY <1>4, <2>1, <2>2, PurgeKeeps DEF StatePart
    <2>3. ASSUME NEW l \in ListenPorts, NEW p \in PortsOf(st'[l])
          PROVE  \E i \in 1..Len(st'[l]) : st'[l][i].port = p
        <3>1. st'[l] \in GoodTables
            BY <1>1, <2>1, OperationsAreGood DEF Purged
        <3>2. DOMAIN st'[l] = 1..Len(st'[l])
            BY <3>1 DEF GoodTables
        <3>3. QED BY <2>3, <3>2 DEF PortsOf
    <2>4. \A l \in ListenPorts : restored'[l] = 0
        BY <2>1 DEF RestorePart
    <2>5. ASSUME NEW w \in Wrappers, NEW l \in ListenPorts, Sure(w, l)'
          PROVE  \E i \in (restored'[l] + 1)..Len(st'[l]) : st'[l][i].port = backend[w][l]
        <3>1. restored'[l] + 1 = 1
            BY <2>4
        <3>2. PICK i \in 1..Len(st'[l]) : st'[l][i].port = backend[w][l]
            BY <2>2, <2>3, <2>5
        <3>3. i \in (restored'[l] + 1)..Len(st'[l])
            BY <3>1
        <3>4. QED BY <3>2, <3>3
    <2>6. RestorePart'
        BY <1>3, <2>1, <2>5 DEF RestorePart
    <2>7. QED BY <1>3, <1>4, <2>1, <2>2, <2>6 DEF ListenerPart, StatePart, SavedPart
<1>8. CASE TruncateAtStart
    <2>1. st' = st /\ restored' = restored /\ phase = "cleaned" /\ phase' = "writing"
        BY <1>8 DEF TruncateAtStart
    <2>2. QED BY <1>3, <1>4, <2>1 DEF ListenerPart, StatePart, SavedPart, RestorePart
<1>9. CASE WriteAtStart
    <2>1. /\ st' = st /\ disk' = st /\ restored' = restored
          /\ phase = "writing" /\ phase' = "restoring"
        BY <1>9 DEF WriteAtStart
    <2>2. \A l \in ListenPorts : restored[l] = 0
        BY <2>1 DEF RestorePart
    <2>3. ASSUME NEW w \in Wrappers, NEW l \in ListenPorts, Sure(w, l)'
          PROVE  backend[w][l] \in PortsOf(st[l])
        BY <1>4, <2>1, <2>3 DEF StatePart
    <2>4. RestorePart'
        BY <1>3, <1>6, <2>1, <2>2, <2>3 DEF RestorePart
    <2>5. QED BY <1>3, <1>4, <2>1, <2>3, <2>4 DEF ListenerPart, StatePart, SavedPart
<1>10. CASE Serve
    <2>1. /\ UNCHANGED <<tbl, st, disk>> /\ phase = "restoring" /\ phase' = "up"
          /\ restored' = [l \in ListenPorts |-> 0]
          /\ \A l \in ListenPorts : restored[l] = Len(st[l])
        BY <1>10 DEF Serve, tableVars
    <2>2. ASSUME NEW w \in Wrappers, NEW l \in ListenPorts, Sure(w, l)'
          PROVE  backend[w][l] \in PortsOf(tbl[l])
        <3>1. /\ restored[l] = Len(st[l]) /\ restored[l] \in Nat
              /\ \/ backend[w][l] \in PortsOf(tbl[l])
                 \/ \E i \in (restored[l] + 1)..Len(st[l]) : st[l][i].port = backend[w][l]
            BY <1>1, <1>4, <2>1, <2>2 DEF RestorePart
        <3>2. QED BY <3>1
    <2>3. QED BY <1>3, <1>4, <2>1, <2>2 DEF ListenerPart, StatePart, SavedPart, RestorePart
<1>11. ASSUME NEW k \in ListenPorts, Restore(k) PROVE ServedPart'
    <2>1. /\ UNCHANGED <<st, disk>> /\ phase = "restoring" /\ phase' = "restoring"
          /\ restored' = [restored EXCEPT ![k] = restored[k] + 1] /\ restored[k] < Len(st[k])
          /\ tbl' = [tbl EXCEPT ![k] = RestoreOne(tbl[k], st[k][restored[k] + 1])]
        BY <1>11 DEF Restore
    <2> DEFINE e == st[k][restored[k] + 1]
    <2>2. e \in EntriesOf(Own(k))
        <3>1. st[k] \in Seq(EntriesOf(Own(k))) /\ restored[k] \in Nat
            BY <1>1 DEF OwnPart, OwnTable
        <3>2. restored[k] + 1 \in 1..Len(st[k])
            BY <2>1, <3>1, LenProperties
        <3>3. QED BY <3>1, <3>2, ElementOfSeq
    <2>3. PortsOf(RestoreOne(tbl[k], e)) = PortsOf(tbl[k]) \cup {e.port}
        <3>1. tbl[k] \in GoodTables /\ e \in Entry
            BY <1>1, <2>2 DEF Own, Entry, EntriesOf
        <3>2. QED BY <3>1, RestoreLists
    <2>4. \A l \in ListenPorts : tbl'[l] = IF l = k THEN RestoreOne(tbl[k], e) ELSE tbl[l]
        BY <1>1, <2>1, OneTable
    <2>5. \A l \in ListenPorts : restored'[l] = IF l = k THEN restored[k] + 1 ELSE restored[l]
        BY <1>1, <2>1
    <2>6. ASSUME NEW w \in Wrappers, NEW l \in ListenPorts, Sure(w, l)'
          PROVE  \/ backend[w][l] \in PortsOf(tbl'[l])
                 \/ \E i \in (restored'[l] + 1)..Len(st[l]) : st[l][i].port = backend[w][l]
        <3>1. \/ backend[w][l] \in PortsOf(tbl[l])
              \/ \E i \in (restored[l] + 1)..Len(st[l]) : st[l][i].port = backend[w][l]
            BY <1>4, <2>1, <2>6 DEF RestorePart
        <3>2. CASE l # k
            BY <2>4, <2>5, <3>1, <3>2
        <3>3. CASE l = k /\ backend[w][l] \in PortsOf(tbl[l])
            BY <2>3, <2>4, <3>3
        <3>4. ASSUME l = k, NEW i \in (restored[l] + 1)..Len(st[l]), st[l][i].port = backend[w][l]
              PROVE  \/ backend[w][l] \in PortsOf(tbl'[l])
                     \/ \E j \in (restored'[l] + 1)..Len(st[l]) : st[l][j].port = backend[w][l]
            <4>1. CASE i = restored[k] + 1
                BY <2>3, <2>4, <3>4, <4>1
            <4>2. CASE i # restored[k] + 1
                <5>1. restored[k] \in Nat /\ restored'[l] = restored[k] + 1 /\ Len(st[l]) \in Nat
                    BY <1>1, <2>5, <3>4 DEF GoodTables
                <5>2. i \in (restored'[l] + 1)..Len(st[l])
                    BY <3>4, <4>2, <5>1
                <5>3. QED BY <3>4, <5>2
            <4>3. QED BY <4>1, <4>2
        <3>5. QED BY <3>1, <3>2, <3>3, <3>4
    <2>7. QED BY <1>3, <1>4, <2>1, <2>6 DEF ListenerPart, StatePart, SavedPart, RestorePart
<1>12. ASSUME WriteAtStartFails \/ \E l \in ListenPorts : RestoreFails(l) PROVE FALSE
    BY <1>12 DEF WriteAtStartFails, RestoreFails
<1>13. QED BY <1>5, <1>7, <1>8, <1>9, <1>10, <1>11, <1>12 DEF StartStep

(* The file survives the daemon, which does not end while it writes it.    *)
LEMMA HaltServed ==
    ASSUME DataPart, Wrapped, ServedPart, ~MayTear, Halt, DaemonStep
    PROVE  ServedPart'
<1> USE DEF Wrapped, ServedPart
<1>1. /\ phase' = "down" /\ disk' = disk /\ restored' = [l \in ListenPorts |-> 0]
      /\ ~Writing /\ phase # "writing"
    BY DEF Halt
<1>2. ASSUME NEW w \in Wrappers, NEW l \in ListenPorts, Sure(w, l)'
      PROVE  backend'[w][l] \in PortsOf(disk'[l])
    <2>1. Sure(w, l)
        BY <1>1, <1>2, ServedBefore
    <2>2. QED BY <1>1, <2>1, HearFacts DEF SavedPart
<1>3. QED BY <1>1, <1>2 DEF ListenerPart, StatePart, SavedPart, RestorePart

(* A wrapper's own step makes nobody sure, and shares no port that was not *)
(* shared before, as far as it is one.                                     *)
LEMMA WrapperServed ==
    ASSUME DataPart, Wrapped, NEW v \in Wrappers, WrapperStep(v)
    PROVE  (ListenerPart => ListenerPart') /\ (ServedPart => ServedPart')
<1> USE DEF Wrapped
<1>1. /\ UNCHANGED <<phase, restored, tbl, st, disk, sweepAt>>
      /\ \A w \in Wrappers : at'[w] = at[w] \/ (at[w] = "idle" /\ at'[w] \in {"locating", "finding"})
      /\ \A w \in Wrappers : at'[w] = at[w] => job'[w] = job[w] \/ at[w] = "idle"
    <2>1. CASE Begin(v) \/ CommandEnds(v)
        BY <2>1 DEF Begin, CommandEnds, vars, serverVars, tableVars, handlerVars, sweepVars
    <2>2. CASE Exit(v) \/ Killed(v)
        BY <2>2 DEF Exit, Killed, Die, serverVars, tableVars, handlerVars, sweepVars
    <2>3. ASSUME NEW l \in ListenPorts, Allocate(v, l) \/ Refused(v, l) \/ BindPort(v, l)
          PROVE  UNCHANGED <<phase, restored, tbl, st, disk, sweepAt, at, job>>
        BY <2>3 DEF Allocate, Refused, BindPort, vars, serverVars, tableVars, handlerVars, sweepVars
    <2>4. ASSUME NEW l \in ListenPorts, Send(v, l)
          PROVE  /\ UNCHANGED <<phase, restored, tbl, st, disk, sweepAt>>
                 /\ \A w \in Wrappers :
                       /\ w # v => at'[w] = at[w] /\ job'[w] = job[w]
                       /\ w = v => at[w] = "idle" /\ at'[w] \in {"locating", "finding"}
        <3>1. PICK op \in {"register", "unregister"} : Ask(v, Asks(v, l, op))
            BY <2>4, SendAsks
        <3>2. /\ UNCHANGED <<phase, restored, tbl, st, disk, sweepAt>> /\ at[v] = "idle"
              /\ Goto(v, FirstStep(op)) /\ job' = [job EXCEPT ![v] = Asks(v, l, op)]
            BY <3>1 DEF Ask, Asks, serverVars, tableVars, sweepVars
        <3>3. FirstStep(op) \in {"locating", "finding"}
            BY DEF FirstStep
        <3>4. job \in [Handlers -> Job \cup {NoJob}]
            BY DEF DataPart, TypeOK
        <3>5. QED BY <3>2, <3>3, <3>4, MovedTo DEF Wrappers
    <2>5. QED BY <2>1, <2>2, <2>3, <2>4 DEF WrapperStep
<1> DEFINE Moves == \A w \in Wrappers :
                       /\ run'[w] = "running" => run[w] = "running"
                       /\ run'[w] = "registering" =>
                             \/ run[w] = "registering" /\ left'[w] = left[w]
                             \/ run[w] = "allocating" /\ left'[w] = Wants[w] /\ w = v
<1>2. Moves
    <2>1. ASSUME NEW s \in Stages, NEW S \in SUBSET ListenPorts, To(v, s, S),
                 s \in {"leaving", "ended", "allocating"}
          PROVE  Moves
        <3>1. \A x \in Wrappers :
                 /\ run'[x] = IF x = v THEN s ELSE run[x]
                 /\ left'[x] = IF x = v THEN S ELSE left[x]
            BY <2>1, ToFacts
        <3>2. s # "running" /\ s # "registering"
            BY <2>1
        <3>3. QED BY <3>1, <3>2
    <2>2. /\ left[v] \in SUBSET ListenPorts /\ Wants[v] \in SUBSET ListenPorts
        BY DEF WrapTypes
    <2>3. CASE Begin(v) \/ CommandEnds(v) \/ Exit(v) \/ Killed(v)
        <3>1. \E s \in {"leaving", "ended", "allocating"}, S \in {Wants[v], {}} : To(v, s, S)
            BY <2>3 DEF Begin, CommandEnds, Exit, Killed
        <3>2. QED BY <2>1, <2>2, <3>1 DEF Stages
    <2>4. ASSUME NEW l \in ListenPorts, Refused(v, l)
          PROVE  \E S \in SUBSET ListenPorts : To(v, "leaving", S)
        BY <2>2, <2>4 DEF Refused
    <2>5. ASSUME NEW l \in ListenPorts, Send(v, l) \/ BindPort(v, l) PROVE UNCHANGED <<run, left>>
        BY <2>5 DEF Send, BindPort, wrapperVars
    <2>6. ASSUME NEW l \in ListenPorts, Allocate(v, l)
          PROVE  /\ run[v] = "allocating"
                 /\ \/ \E s \in {"leaving", "allocating"}, S \in SUBSET ListenPorts : To(v, s, S)
                    \/ To(v, "registering", Wants[v])
        BY <2>2, <2>6 DEF Allocate
    <2>7. CASE run[v] = "allocating" /\ To(v, "registering", Wants[v])
        BY <2>2, <2>7, ToFacts DEF Stages
    <2>8. ASSUME NEW l \in ListenPorts, Allocate(v, l) \/ Send(v, l) \/ Refused(v, l) \/ BindPort(v, l)
          PROVE  Moves
        <3>1. CASE Refused(v, l)
            BY <2>1, <2>4, <3>1 DEF Stages
        <3>2. CASE Send(v, l) \/ BindPort(v, l)
            BY <2>5, <3>2
        <3>3. CASE Allocate(v, l)
            <4>1. CASE run[v] = "allocating" /\ To(v, "registering", Wants[v])
                BY <2>7, <4>1
            <4>2. ASSUME NEW s \in {"leaving", "allocating"}, NEW S \in SUBSET ListenPorts, To(v, s, S)
                  PROVE  Moves
                BY <2>1, <4>2 DEF Stages
            <4> HIDE DEF Moves
            <4>3. QED BY <2>6, <3>3, <4>1, <4>2
        <3>4. QED BY <2>8, <3>1, <3>2, <3>3
    <2>9. QED BY <2>3, <2>8 DEF WrapperStep
<1>3. ASSUME NEW w \in Wrappers, NEW l \in ListenPorts, run[w] \in {"registering", "running"},
             l \in Wants[w], ~Shared(w, l)'
      PROVE  backend'[w][l] = backend[w][l] /\ ~Shared(w, l)
    <2>1. backend[w][l] \in Ports
        BY <1>3 DEF PortPart, HasPorts
    <2>2. CASE backend' = backend
        BY <1>3, <2>2 DEF Shared
    <2>3. ASSUME backend' # backend
          PROVE  \E k \in ListenPorts : Allocate(v, k)
        BY <2>3 DEF WrapperStep, Begin, CommandEnds, Exit, Killed, Send, Refused, BindPort, wrapperVars
    <2>4. ASSUME NEW k \in ListenPorts, Allocate(v, k), backend' # backend
          PROVE  backend'[w][l] = backend[w][l] /\ ~Shared(w, l)
        <3>1. backend[v][k] = NoPort /\ run[v] = "allocating" /\ v # w
            BY <1>3, <2>4 DEF Allocate, PortPart, HasPorts
        <3>2. PICK p : backend' = [backend EXCEPT ![v][k] = p]
            BY <2>4 DEF Allocate
        <3>3. backend \in [Wrappers -> [ListenPorts -> Ports \cup {NoPort}]]
            BY DEF WrapTypes
        <3>4. \A x \in Wrappers, j \in ListenPorts :
                 backend'[x][j] = IF x = v /\ j = k THEN p ELSE backend[x][j]
            BY <3>2, <3>3
        <3>5. ASSUME NEW x \in Wrappers \ {w}, backend[x][l] = backend[w][l] PROVE FALSE
            <4>1. ~(x = v /\ l = k)
                BY <2>1, <3>1, <3>5
            <4>2. backend'[x][l] = backend'[w][l]
                BY <3>1, <3>4, <3>5, <4>1
            <4>3. QED BY <1>3, <4>2 DEF Shared
        <3>6. QED BY <3>1, <3>4, <3>5 DEF Shared
    <2>5. QED BY <2>2, <2>3, <2>4
<1>4. ASSUME NEW w \in Wrappers, NEW l \in ListenPorts, Sure(w, l)'
      PROVE  Sure(w, l) /\ backend'[w][l] = backend[w][l]
    <2>1. /\ l \in Wants[w] /\ ~Shared(w, l)'
          /\ run'[w] = "running" \/ (run'[w] = "registering" /\ l \notin left'[w])
        BY <1>4 DEF Sure
    <2>2. run[w] = "running" \/ (run[w] = "registering" /\ l \notin left[w])
        BY <1>2, <2>1
    <2>3. QED BY <1>3, <2>1, <2>2 DEF Sure
<1>5. ASSUME NEW w \in Wrappers, NEW l \in ListenPorts, ~Shared(w, l)',
             run'[w] = "registering", at'[w] \in {"recording", "saving", "writing"}, job'[w].lp = l
      PROVE  /\ run[w] = "registering" /\ at[w] = at'[w] /\ job[w].lp = l /\ ~Shared(w, l)
             /\ backend'[w][l] = backend[w][l]
    <2>1. at[w] = at'[w] /\ at[w] # "idle" /\ job'[w] = job[w]
        BY <1>1, <1>5
    <2>2. run[w] = "registering" /\ job[w].lp \in left[w]
        BY <1>2, <1>5, <2>1 DEF AskPart
    <2>3. l \in Wants[w]
        BY <1>5, <2>1, <2>2 DEF PortPart, HasPorts
    <2>4. QED BY <1>3, <1>5, <2>1, <2>2, <2>3
<1>6. ListenerPart => ListenerPart'
    BY <1>1, <1>4, <1>5 DEF ListenerPart, Coming
<1>7. StatePart => StatePart'
    BY <1>1, <1>4, <1>5 DEF StatePart, Coming
<1>8. SavedPart => SavedPart'
    <2>1. Writing' <=> Writing
        BY <1>1 DEF Writing, Wrappers
    <2>2. QED BY <1>1, <1>4, <2>1 DEF SavedPart
<1>9. RestorePart => RestorePart'
    BY <1>1, <1>4 DEF RestorePart
<1>10. QED BY <1>6, <1>7, <1>8, <1>9 DEF ServedPart

-----------------------------------------------------------------------------
(* The theorems about wrappers.                                            *)

WrapPart == DataPart /\ LockPart /\ Wrapped

(* Without an end of the daemon the file does not matter: nobody registers *)
(* before the daemon is up for the only time.                              *)
FirstPart == phase # "up" => \A w \in Wrappers : run[w] \in {"new", "leaving", "ended"}

(* At first nobody has asked for anything.                                 *)
LEMMA WrapInitially == WInit => WrapPart /\ ServedPart /\ FirstPart
<1> SUFFICES ASSUME WInit PROVE WrapPart /\ ServedPart /\ FirstPart
    OBVIOUS
<1>1. DataPart /\ LockPart
    BY DataInitially, LockInitially DEF WInit
<1>2. WrapTypes
    BY DEF WInit, Init, WrapTypes, Stages, Wrappers
<1>3. AskPart /\ PortPart
    BY DEF WInit, Init, AskPart, PortPart, HasPorts, Wrappers
<1>4. OwnPart
    <2>1. \A l \in ListenPorts : Empty[l] \in OwnTable(l)
        BY DEF Empty, OwnTable
    <2>2. QED BY <2>1 DEF WInit, Init, OwnPart
<1>5. ServedPart
    <2>1. phase = "down" /\ restored = [l \in ListenPorts |-> 0]
          /\ \A w \in Wrappers : run[w] = "new"
        BY DEF WInit, Init
    <2>2. QED BY <2>1 DEF ServedPart, ListenerPart, StatePart, SavedPart, RestorePart, Sure
<1>6. FirstPart
    BY DEF WInit, FirstPart
<1>7. QED BY <1>1, <1>2, <1>3, <1>4, <1>5, <1>6 DEF WrapPart, Wrapped

(* Every step of the daemon and of the wrappers keeps it.                  *)
LEMMA WrapStep == WrapPart /\ [WNext]_allVars => WrapPart'
<1> SUFFICES ASSUME WrapPart, [WNext]_allVars PROVE WrapPart'
    OBVIOUS
<1> USE DEF WrapPart, Wrapped
<1>1. DataPart' /\ LockPart'
    BY RegistryWithWrappers
<1>2. CASE DaemonStep
    <2>1. WrapTypes' /\ AskPart' /\ PortPart' /\ backend' = backend
        BY <1>2, DaemonTypes, HearFacts
    <2>2. OwnPart'
        BY <1>2, <2>1, HandlerOwned, SweepOwned, StartOwned DEF DaemonStep, LockPart
    <2>3. QED BY <1>1, <2>1, <2>2
<1>3. ASSUME NEW w \in Wrappers, WrapperStep(w) PROVE WrapPart'
    BY <1>1, <1>3, WrapperTypes, WrapperOwned
<1>4. CASE UNCHANGED allVars
    <2>1. UNCHANGED <<vars, run, backend, left, bound>>
        BY <1>4 DEF allVars, wrapperVars
    <2>2. UNCHANGED <<tbl, st, disk, at, job, sweepAt, sweepPort, snap, alive>>
        BY <2>1 DEF vars, tableVars, handlerVars, sweepVars
    <2>3. WrapTypes'
        BY <2>1, <2>2 DEF WrapTypes
    <2>4. PortPart'
        BY <2>1, <2>2 DEF PortPart, HasPorts
    <2>5. \A l : Own(l)' = Own(l) /\ OwnTable(l)' = OwnTable(l)
        BY <2>1 DEF Own, OwnTable
    <2>6. AskPart'
        BY <2>1, <2>2 DEF AskPart, Own
    <2>7. OwnPart'
        BY <2>2, <2>5 DEF OwnPart
    <2>8. QED BY <1>1, <2>3, <2>4, <2>6, <2>7
<1>5. QED BY <1>2, <1>3, <1>4 DEF WNext

(* And, when the disk works and nothing else takes a listen port, whoever  *)
(* was told of a registration stays listed.                                *)
LEMMA ServedStep ==
    ASSUME ~SaveMayFail, ~MayTear, ~BindMayFail, WrapPart, ServedPart, [WNext]_allVars
    PROVE  ServedPart'
<1> USE DEF WrapPart, LockPart
<1>1. CASE DaemonStep
    BY <1>1, HandlerServed, SweepServed, StartServed, HaltServed DEF DaemonStep
<1>2. ASSUME NEW w \in Wrappers, WrapperStep(w) PROVE ServedPart'
    BY <1>2, WrapperServed
<1>3. CASE UNCHANGED allVars
    <2>1. UNCHANGED <<phase, tbl, st, disk, at, job, sweepAt, restored, run, backend, left>>
        BY <1>3 DEF allVars, wrapperVars, vars, serverVars, tableVars, handlerVars, sweepVars
    <2>2. ASSUME NEW w \in Wrappers, NEW l \in ListenPorts
          PROVE  /\ Sure(w, l)' <=> Sure(w, l)
                 /\ Coming(w, l, {"recording", "saving", "writing"})' <=>
                       Coming(w, l, {"recording", "saving", "writing"})
                 /\ Coming(w, l, {"saving", "writing"})' <=> Coming(w, l, {"saving", "writing"})
        BY <2>1 DEF Sure, Coming, Shared
    <2>3. ListenerPart'
        BY <2>1, <2>2 DEF ServedPart, ListenerPart
    <2>4. StatePart'
        BY <2>1, <2>2 DEF ServedPart, StatePart
    <2>5. SavedPart'
        BY <2>1, <2>2 DEF ServedPart, SavedPart, Writing
    <2>6. RestorePart'
        BY <2>1, <2>2 DEF ServedPart, RestorePart
    <2>7. QED BY <2>3, <2>4, <2>5, <2>6 DEF ServedPart
<1>4. QED BY <1>1, <1>2, <1>3 DEF WNext

(* A daemon that does not end keeps the listeners' tables by itself.       *)
LEMMA ListenerStep ==
    ASSUME ~MayHalt, WrapPart, ListenerPart, FirstPart, [WNext]_allVars
    PROVE  ListenerPart' /\ FirstPart'
<1> USE DEF WrapPart, LockPart, Wrapped
<1>1. ASSUME NEW h \in Handlers, HandlerStep(h), DaemonStep PROVE ListenerPart' /\ FirstPart'
    BY <1>1, HandlerListens DEF FirstPart
<1>2. CASE SweepStep /\ DaemonStep
    BY <1>2, SweepServed DEF FirstPart
<1>3. CASE StartStep /\ DaemonStep
    <2>1. phase # "up" /\ UNCHANGED at
        BY <1>3 DEF StartStep, Load, CleanAtStart, TruncateAtStart, WriteAtStart, WriteAtStartFails,
               Restore, RestoreFails, Serve, handlerVars
    <2>2. \A w \in Wrappers : run'[w] = run[w] /\ run[w] \in {"new", "leaving", "ended"}
        BY <1>3, <2>1, HearFacts DEF Answered, FirstPart
    <2>3. QED BY <2>2 DEF ListenerPart, FirstPart, Sure, Coming
<1>4. ASSUME NEW w \in Wrappers, WrapperStep(w) PROVE ListenerPart' /\ FirstPart'
    <2>1. ListenerPart'
        BY <1>4, WrapperServed
    <2>2. ASSUME phase' # "up", NEW x \in Wrappers PROVE run'[x] \in {"new", "leaving", "ended"}
        <3>1. CASE UNCHANGED run /\ phase' = phase
            BY <2>2, <3>1 DEF FirstPart
        <3>2. ASSUME NEW s \in {"leaving", "ended"}, NEW S \in SUBSET ListenPorts, To(w, s, S),
                     phase' = phase
              PROVE  run'[x] \in {"new", "leaving", "ended"}
            <4>1. run'[x] = IF x = w THEN s ELSE run[x]
                BY <3>2, ToFacts DEF Stages
            <4>2. QED BY <2>2, <3>2, <4>1 DEF FirstPart
        <3>3. CASE Begin(w) \/ CommandEnds(w)
            <4>1. phase' = phase /\ run[w] # "running"
                BY <2>2, <3>3 DEF Begin, CommandEnds, vars, serverVars, FirstPart
            <4>2. To(w, "leaving", {})
                BY <2>2, <3>3, <4>1 DEF Begin, CommandEnds
            <4>3. QED BY <3>2, <4>1, <4>2
        <3>4. CASE Exit(w) \/ Killed(w)
            <4>1. phase' = phase /\ To(w, "ended", {})
                BY <3>4 DEF Exit, Killed, Die, serverVars
            <4>2. QED BY <3>2, <4>1
        <3>5. ASSUME NEW l \in ListenPorts, Allocate(w, l) \/ Send(w, l) \/ BindPort(w, l)
              PROVE  UNCHANGED run /\ phase' = phase
            <4>1. ~Allocate(w, l)
                BY <2>2 DEF Allocate, FirstPart, vars, serverVars
            <4>2. QED BY <3>5, <4>1 DEF Send, BindPort, Ask, wrapperVars, vars, serverVars
        <3>6. ASSUME NEW l \in ListenPorts, Refused(w, l)
              PROVE  phase' = phase /\ \E S \in SUBSET ListenPorts : To(w, "leaving", S)
            BY <3>6 DEF Refused, vars, serverVars, WrapTypes
        <3>7. QED BY <1>4, <3>1, <3>2, <3>3, <3>4, <3>5, <3>6 DEF WrapperStep
    <2>3. QED BY <2>1, <2>2 DEF FirstPart
<1>5. CASE UNCHANGED allVars
    <2>1. UNCHANGED <<phase, tbl, at, job, run, backend, left>>
        BY <1>5 DEF allVars, wrapperVars, vars, serverVars, tableVars, handlerVars
    <2>2. ASSUME NEW w \in Wrappers, NEW l \in ListenPorts
          PROVE  /\ Sure(w, l)' <=> Sure(w, l)
                 /\ Coming(w, l, {"recording", "saving", "writing"})' <=>
                       Coming(w, l, {"recording", "saving", "writing"})
        BY <2>1 DEF Sure, Coming, Shared
    <2>3. QED BY <2>1, <2>2 DEF ListenerPart, FirstPart
<1>6. ~Halt
    BY DEF Halt
<1>7. QED BY <1>1, <1>2, <1>3, <1>4, <1>5, <1>6 DEF WNext, DaemonStep

(* Registry and wrappers keep their types together: a command runs when    *)
(* nothing is left to register, and a wrapper has ended when its process   *)
(* has.                                                                    *)
THEOREM WrappersTyped == WSpec => []WTypeOK
<1>1. WrapPart => WTypeOK
    BY DEF WrapPart, Wrapped, DataPart, WrapTypes, WTypeOK
<1>2. QED BY <1>1, WrapInitially, WrapStep, PTL DEF WSpec

(* While a command runs, the daemon's listeners list the port that its     *)
(* wrapper registered, whatever other wrappers register and unregister,    *)
(* and whoever dies and is swept; and however often the daemon ends and    *)
(* starts again from its file, when that file can be written, is not left  *)
(* truncated, and nobody else takes a listen port.                         *)
THEOREM RunningStaysServed ==
    ASSUME MayHalt => ~SaveMayFail /\ ~MayTear /\ ~BindMayFail
    PROVE  WSpec => []RunningIsServed
<1>1. WrapPart /\ ListenerPart => RunningIsServed
    <2> SUFFICES ASSUME WrapPart, ListenerPart, phase = "up",
                        NEW w \in Wrappers, run[w] = "running", NEW l \in Wants[w], ~Shared(w, l)
                 PROVE  \E i \in DOMAIN tbl[l] : tbl[l][i].pid = w /\ tbl[l][i].port = backend[w][l]
        BY DEF RunningIsServed
    <2>1. l \in ListenPorts
        OBVIOUS
    <2>2. backend[w][l] \in PortsOf(tbl[l])
        BY <2>1 DEF ListenerPart, Sure
    <2>3. PICK i \in DOMAIN tbl[l] : tbl[l][i].port = backend[w][l]
        BY <2>2 DEF PortsOf
    <2>4. tbl[l] \in Seq(EntriesOf(Own(l)))
        BY <2>1 DEF WrapPart, Wrapped, OwnPart, OwnTable
    <2>5. tbl[l][i] \in EntriesOf(Own(l))
        BY <2>3, <2>4
    <2>6. tbl[l][i].pid = w
        BY <2>1, <2>3, <2>5, HeldAlone DEF WrapPart, Wrapped, Holds
    <2>7. QED BY <2>3, <2>6
<1>2. CASE MayHalt
    <2>1. ~SaveMayFail /\ ~MayTear /\ ~BindMayFail
        BY <1>2
    <2>2. WrapPart /\ ServedPart /\ [WNext]_allVars => WrapPart' /\ ServedPart'
        BY <2>1, WrapStep, ServedStep
    <2>3. ServedPart => ListenerPart
        BY DEF ServedPart
    <2>4. QED BY <1>1, <2>2, <2>3, WrapInitially, PTL DEF WSpec
<1>3. CASE ~MayHalt
    <2>1. WrapPart /\ ListenerPart /\ FirstPart /\ [WNext]_allVars
             => WrapPart' /\ ListenerPart' /\ FirstPart'
        BY <1>3, WrapStep, ListenerStep
    <2>2. ServedPart => ListenerPart
        BY DEF ServedPart
    <2>3. QED BY <1>1, <2>1, <2>2, WrapInitially, PTL DEF WSpec
<1>4. QED BY <1>2, <1>3
=============================================================================
