---------------------------- MODULE Switchboards ----------------------------
(***************************************************************************)
(* What the daemon promises about all of its listen ports together, its    *)
(* restarts included, whatever data structures, steps and locks keep it.   *)
(*                                                                         *)
(* Each listen port has a board: a set of backends of which exactly one,   *)
(* as soon as there are any, is the current one.  It is kept three times:  *)
(* in the board that connections go by, in the daemon's record of it and   *)
(* in a file.  The first two change one listen port and one backend at a   *)
(* time, but for backends that have died, which may leave the record all   *)
(* at once.  The daemon starts with the record that the file holds, and    *)
(* goes by exactly what it has recorded when it begins to serve.           *)
(***************************************************************************)
CONSTANTS ListenPorts, Ports, NoPort

VARIABLES
    stage,      \* of the daemon: "down", "starting" or "serving"
    board,      \* what connections go by
    record,     \* what the daemon has written down of it
    file        \* what the next daemon would start with

Vacant == [registered |-> {}, current |-> NoPort]
AllVacant == [l \in ListenPorts |-> Vacant]

Init == stage = "down" /\ board = AllVacant /\ record = AllVacant /\ file = AllVacant

-----------------------------------------------------------------------------
(* How board b may become board c: a backend is added, the first one being *)
(* the current one;                                                        *)
Registers(b, c) ==
    \E p \in Ports \ b.registered :
        /\ c.registered = b.registered \cup {p}
        /\ c.current = IF b.registered = {} THEN p ELSE b.current

(* some are taken away, which moves the traffic only if the current one is *)
(* among them;                                                             *)
Loses(b, c) ==
    /\ c.registered \subseteq b.registered
    /\ IF c.registered = {} THEN c.current = NoPort
       ELSE IF b.current \in c.registered THEN c.current = b.current
       ELSE c.current \in c.registered
LosesOne(b, c) == Loses(b, c) /\ \E p \in b.registered : c.registered = b.registered \ {p}

(* the user switches to one that is there.                                 *)
Switches(b, c) == c.registered = b.registered /\ c.current \in b.registered

Change(b, c) == Switches(b, c) \/ Registers(b, c) \/ LosesOne(b, c)

(* Of all boards in f one changes.                                         *)
OneChanges(f, g) ==
    \E l \in ListenPorts :
        Change(f[l], g[l]) /\ \A k \in ListenPorts \ {l} : g[k] = f[k]

-----------------------------------------------------------------------------
Route ==
    /\ stage = "serving"
    /\ UNCHANGED <<stage, file, record>>
    /\ OneChanges(board, board')

Note ==
    /\ stage = "serving"
    /\ UNCHANGED <<stage, file, board>>
    /\ OneChanges(record, record')

Purge ==
    /\ stage # "down"
    /\ UNCHANGED <<stage, file, board>>
    /\ \A l \in ListenPorts : Loses(record[l], record'[l])

(* The file is emptied before it is written.                               *)
Truncate ==
    /\ stage # "down"
    /\ UNCHANGED <<stage, board, record>>
    /\ file' = AllVacant

Save ==
    /\ stage # "down"
    /\ UNCHANGED <<stage, board, record>>
    /\ file' = record

Stop ==
    /\ stage # "down"
    /\ stage' = "down"
    /\ UNCHANGED file
    /\ board' = AllVacant /\ record' = AllVacant

Load ==
    /\ stage = "down"
    /\ stage' = "starting"
    /\ UNCHANGED <<board, file>>
    /\ record' = file

(* A listen port that another program has taken is left out.               *)
Serve ==
    /\ stage = "starting"
    /\ stage' = "serving"
    /\ UNCHANGED <<record, file>>
    /\ \A l \in ListenPorts : board'[l] \in {record[l], Vacant}

Next == Route \/ Note \/ Purge \/ Truncate \/ Save \/ Stop \/ Load \/ Serve

Spec == Init /\ [][Next]_<<stage, board, record, file>>
=============================================================================
