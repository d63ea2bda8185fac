------------------------------- MODULE Dashboard ----------------------------
(***************************************************************************)
(* internal/tui: the dashboard, a bubbletea program.  Update handles one   *)
(* message at a time and returns a command, which runs in a goroutine of   *)
(* its own and sends the next message: fetch, status, timer, tick, fetch,  *)
(* and so on.  Such a chain of commands never ends, every key that starts  *)
(* a command starts another one, and the messages of different chains      *)
(* arrive in any order.                                                    *)
(*                                                                         *)
(* The daemon is the environment: the backends of a listen port come and   *)
(* go, and it can be away.                                                 *)
(***************************************************************************)
EXTENDS Naturals, SequencesExt

CONSTANTS
    Configured,     \* listen ports in the configuration file, in its order
    Dynamic,        \* others that the daemon may have a listener for
    Labels, NoLabel,
    Tables,         \* the lists the daemon may have: listen port -> labels
    Chains          \* how many commands may be under way

ListenPorts == ToSet(Configured) \cup Dynamic

ASSUME ConfiguredAssumption == Configured \in Seq(ListenPorts) /\ IsInjective(Configured)
ASSUME DynamicAssumption == Dynamic \cap ToSet(Configured) = {}
ASSUME LabelsAssumption == NoLabel \notin Labels
ASSUME TablesAssumption ==
    \A t \in Tables :
        /\ ToSet(Configured) \subseteq DOMAIN t /\ DOMAIN t \subseteq ListenPorts
        /\ \A l \in DOMAIN t : t[l] \in Seq(Labels) /\ IsInjective(t[l])
ASSUME ChainsAssumption == Chains \in Nat \ {0, 1}

VARIABLES
    up,         \* the daemon answers
    table,      \* its backends: listen port -> labels
    current,    \* listen port -> the active label, or NoLabel
    rows,       \* what the dashboard shows
    cursor,     \* the row number it is on; Go's m.cursor + 1
    err,        \* an error is shown
    cmd,        \* the command, or its message, that each chain is at
    quit

daemonVars == <<up, table, current>>
viewVars   == <<rows, cursor, err>>
vars == <<daemonVars, viewVars, cmd, quit>>

Row == [lp : ListenPorts, label : Labels \cup {NoLabel}, active : BOOLEAN]

(* What one status answer can show: the configured listen ports in order,  *)
(* then the others in the order in which Go walks a map; a row for each    *)
(* backend, and one for a listen port that has none.                       *)
RowsOf(l) ==
    IF table[l] = << >>
    THEN << [lp |-> l, label |-> NoLabel, active |-> FALSE] >>
    ELSE [i \in DOMAIN table[l] |->
             [lp |-> l, label |-> table[l][i], active |-> table[l][i] = current[l]]]

FlattenEntries(order) == FlattenSeq([i \in DOMAIN order |-> RowsOf(order[i])])

StatusAnswers ==
    {FlattenEntries(Configured \o others) :
        others \in SetToSeqs(DOMAIN table \ ToSet(Configured))}

None     == [is |-> "none"]
Fetch    == [is |-> "fetch"]
Timer    == [is |-> "timer"]
Commands ==
    {None, Fetch, Timer}
      \cup [is : {"status"}, ok : {TRUE}, rows : Seq(Row)] \cup {[is |-> "status", ok |-> FALSE]}
      \cup [is : {"switch"}, lp : ListenPorts, label : Labels]
      \cup [is : {"switched"}, ok : BOOLEAN]

(* The types; the cursor is on a row, or at the top of an empty table.     *)
TypeOK ==
    /\ up \in BOOLEAN /\ err \in BOOLEAN /\ quit \in BOOLEAN
    /\ table \in Tables
    /\ \A l \in DOMAIN table : current[l] \in ToSet(table[l]) \cup {NoLabel}
    /\ rows \in Seq(Row)
    /\ cursor = 1 \/ cursor \in DOMAIN rows
    /\ \A c \in 1..Chains : cmd[c] \in Commands

First(l) == IF table[l] = << >> THEN NoLabel ELSE Head(table[l])

(* Init batches a fetch and a timer.                                       *)
Init ==
    /\ up = TRUE
    /\ table \in Tables
    /\ current = [l \in DOMAIN table |-> First(l)]
    /\ rows = << >> /\ cursor = 1 /\ err = FALSE
    /\ cmd = [c \in 1..Chains |-> CASE c = 1 -> Fetch [] c = 2 -> Timer [] OTHER -> None]
    /\ quit = FALSE

-----------------------------------------------------------------------------
At(c, is)    == ~quit /\ cmd[c].is = is
Then(c, m)  == cmd' = [cmd EXCEPT ![c] = m]

(* fetchStatus and handleStatus.                                           *)
FetchStatus(c) ==
    /\ At(c, "fetch")
    /\ IF up
       THEN \E r \in StatusAnswers : Then(c, [is |-> "status", ok |-> TRUE, rows |-> r])
       ELSE Then(c, [is |-> "status", ok |-> FALSE])
    /\ UNCHANGED <<daemonVars, viewVars, quit>>

(* Update with a StatusMsg: the rows are replaced, the cursor is clamped,  *)
(* and the next timer starts, also after an error.                         *)
ClampedLate(r) == IF cursor > Len(r) + 1 THEN Len(r) + 1 ELSE cursor

Clamped(r) == IF cursor > Len(r) THEN IF r = << >> THEN 1 ELSE Len(r) ELSE cursor

(* An error that ends the chain.                                           *)
TimerAfterAnswer(ok) == IF ok THEN Timer ELSE None

TimerAfter(ok) == Timer

Status(c) ==
    /\ At(c, "status")
    /\ IF cmd[c].ok
       THEN rows' = cmd[c].rows /\ cursor' = Clamped(rows') /\ err' = FALSE
       ELSE err' = TRUE /\ UNCHANGED <<rows, cursor>>
    /\ Then(c, TimerAfter(cmd[c].ok))
    /\ UNCHANGED <<daemonVars, quit>>

(* The timer runs out, and Update with its TickMsg fetches.                *)
Tick(c) ==
    /\ At(c, "timer")
    /\ Then(c, Fetch)
    /\ UNCHANGED <<daemonVars, viewVars, quit>>

(* switchBackend and the daemon's handleSwitch, which refuses a label that *)
(* is not in the list any more.                                            *)
SwitchBackend(c) ==
    /\ At(c, "switch")
    /\ LET l     == cmd[c].lp
           known == up /\ l \in DOMAIN table /\ cmd[c].label \in ToSet(table[l])
       IN  /\ current' = IF known THEN [current EXCEPT ![l] = cmd[c].label] ELSE current
           /\ Then(c, [is |-> "switched", ok |-> known])
    /\ UNCHANGED <<up, table, viewVars, quit>>

(* Update with a SwitchDoneMsg.                                            *)
SwitchDone(c) ==
    /\ At(c, "switched")
    /\ err' = (err \/ ~cmd[c].ok)
    /\ Then(c, Fetch)
    /\ UNCHANGED <<daemonVars, rows, cursor, quit>>

(* handleKey.                                                              *)
MoveCursor ==
    /\ ~quit
    /\ cursor' \in {cursor - 1, cursor + 1} \cap DOMAIN rows
    /\ UNCHANGED <<daemonVars, rows, err, cmd, quit>>

PressRefresh(c) ==
    /\ At(c, "none")
    /\ Then(c, Fetch)
    /\ UNCHANGED <<daemonVars, viewVars, quit>>

PressSwitch(c) ==
    /\ At(c, "none")
    /\ cursor \in DOMAIN rows
    /\ rows[cursor].label # NoLabel
    /\ Then(c, [is |-> "switch", lp |-> rows[cursor].lp, label |-> rows[cursor].label])
    /\ UNCHANGED <<daemonVars, viewVars, quit>>

PressQuit ==
    /\ ~quit
    /\ quit' = TRUE
    /\ UNCHANGED <<daemonVars, viewVars, cmd>>

(* Backends come and go; the first one left follows an active one.  The    *)
(* daemon leaves and comes back.                                           *)
ChangeTable ==
    /\ ~quit
    /\ up
    /\ table' \in Tables \ {table}
    /\ current' = [l \in DOMAIN table' |->
           IF l \in DOMAIN table /\ current[l] \in ToSet(table'[l]) THEN current[l] ELSE First(l)']
    /\ UNCHANGED <<up, viewVars, cmd, quit>>

Away ==
    /\ ~quit
    /\ up' = ~up
    /\ UNCHANGED <<table, current, viewVars, cmd, quit>>

ChainStep(c) ==
    FetchStatus(c) \/ Status(c) \/ Tick(c) \/ SwitchBackend(c) \/ SwitchDone(c)

Next ==
    \/ \E c \in 1..Chains : ChainStep(c) \/ PressRefresh(c) \/ PressSwitch(c)
    \/ MoveCursor \/ PressQuit \/ ChangeTable \/ Away

(* Commands run and messages are handled; the user does as he likes.       *)
Spec ==
    /\ Init /\ [][Next]_vars
    /\ \A c \in 1..Chains : WF_vars(ChainStep(c))
-----------------------------------------------------------------------------
(* Once the daemon answers and its backends stay as they are, the          *)
(* dashboard ends up showing them, without an error and for good: whatever *)
(* failed before, in whatever order late answers still arrive, and however *)
(* many keys were pressed.                                                 *)
SettledIsShown ==
    <>[]up /\ <>[][UNCHANGED <<table, current>>]_vars
        => <>[](quit \/ (~err /\ rows \in StatusAnswers))
=============================================================================
