---------------------------- MODULE BackendTable ----------------------------
(***************************************************************************)
(* The ordered backend list of one listen port, as pure operators.         *)
(*                                                                         *)
(* The code keeps this list twice: ServiceListener.backends, which routes  *)
(* connections (internal/proxy/listener.go), and State.Backends, which is  *)
(* written to state.yaml (internal/config/state.go).  The two have the     *)
(* same operations, written twice; both are the operators below.           *)
(*                                                                         *)
(* An entry is [port, label, pid, active].  A request is an entry without  *)
(* its active flag.  The log file of an entry is left out: nothing but     *)
(* `devlb logs` reads it.                                                  *)
(***************************************************************************)
EXTENDS Naturals, FiniteSets, SequencesExt

CONSTANT NoPort      \* the Go zero of a port number: "no backend"

PortsOf(tbl)  == {tbl[i].port  : i \in DOMAIN tbl}
LabelsOf(tbl) == {tbl[i].label : i \in DOMAIN tbl}
ActiveAt(tbl) == {i \in DOMAIN tbl : tbl[i].active}

(* An entry from a request, or an entry with its flag set.                 *)
EntryOf(req, active) ==
    [port |-> req.port, label |-> req.label, pid |-> req.pid, active |-> active]

EntriesOf(reqs) == {EntryOf(r, a) : r \in reqs, a \in BOOLEAN}

(* Enlist without the test for a port that is listed already.              *)
EnlistTwice(tbl, req) == Append(tbl, EntryOf(req, tbl = << >>))

(* AddBackend: a port already listed is refused (listener) or skipped      *)
(* (state); the first entry of an empty list is the active one.            *)
Enlist(tbl, req) ==
    IF req.port \in PortsOf(tbl)
    THEN tbl
    ELSE Append(tbl, EntryOf(req, tbl = << >>))

PromoteFirst(tbl) == [tbl EXCEPT ![1] = EntryOf(@, TRUE)]

IndexOf(tbl, port) == SelectInSeq(tbl, LAMBDA e : e.port = port)

(* Delist without a promotion.                                             *)
DelistOnly(tbl, port) ==
    IF port \notin PortsOf(tbl) THEN tbl ELSE RemoveAt(tbl, IndexOf(tbl, port))

(* RemoveBackend: drop the entry, and when it was active make the first    *)
(* of the remaining ones active, whatever flags they carry.                *)
Delist(tbl, port) ==
    LET i    == IndexOf(tbl, port)
        rest == RemoveAt(tbl, i)
    IN  IF port \notin PortsOf(tbl) THEN tbl
        ELSE IF tbl[i].active /\ rest # << >> THEN PromoteFirst(rest)
        ELSE rest

(* Activate that sets the flag and forgets to clear the others.            *)
ActivateToo(tbl, label) ==
    [i \in DOMAIN tbl |->
        EntryOf(tbl[i], tbl[i].active \/ tbl[i].label = label)]

(* SwitchBackend, SwitchActive: an unknown label changes nothing; a known  *)
(* one sets the flag of every entry by comparing its label.                *)
Activate(tbl, label) ==
    IF label \notin LabelsOf(tbl)
    THEN tbl
    ELSE [i \in DOMAIN tbl |-> EntryOf(tbl[i], tbl[i].label = label)]

(* activePort: the first active entry's port, else zero.                   *)
FirstActive(tbl) == IF ActiveAt(tbl) = {} THEN 0 ELSE Min(ActiveAt(tbl))
ActivePort(tbl) ==
    IF ActiveAt(tbl) = {} THEN NoPort ELSE tbl[FirstActive(tbl)].port

(* healthyActivePort asks about the active port, then about every other    *)
(* one as they are listed.  No port is listed twice, so "every other" is   *)
(* the list without the active entry.                                      *)
PickOrder(tbl) ==
    LET i     == FirstActive(tbl)
        ports == [j \in DOMAIN tbl |-> tbl[j].port]
    IN  IF i = 0 THEN ports ELSE << ports[i] >> \o RemoveAt(ports, i)

(* CleanStalePIDs, for one listen port: keep the entries without a process *)
(* id and those whose process lives; when no entry kept is active, make    *)
(* the first one active.  LiveAmong says what is kept of the first n       *)
(* entries, DropDeadOnly is without the promotion.                         *)
Keeps(e, noPid, alive) == e.pid = noPid \/ e.pid \in alive

LiveAmong(tbl, noPid, alive) ==
    LET live[n \in 0..Len(tbl)] ==
            IF n = 0 THEN << >>
            ELSE IF Keeps(tbl[n], noPid, alive) THEN Append(live[n - 1], tbl[n])
            ELSE live[n - 1]
    IN  live

DropDeadOnly(tbl, noPid, alive) == LiveAmong(tbl, noPid, alive)[Len(tbl)]

DropDead(tbl, noPid, alive) ==
    LET live == DropDeadOnly(tbl, noPid, alive)
    IN  IF live # << >> /\ ActiveAt(live) = {} THEN PromoteFirst(live) ELSE live

(***************************************************************************)
(* What every table must satisfy: no port twice, and a table with entries  *)
(* has an active one.                                                      *)
(***************************************************************************)
DistinctPorts(tbl) ==
    \A i, j \in DOMAIN tbl : tbl[i].port = tbl[j].port => i = j
SomeActive(tbl) == tbl # << >> => ActiveAt(tbl) # {}
Sound(tbl)      == DistinctPorts(tbl) /\ SomeActive(tbl)
AtMostOneActive(tbl) ==
    \A i, j \in ActiveAt(tbl) : i = j
=============================================================================
