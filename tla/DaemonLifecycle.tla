--------------------------- MODULE DaemonLifecycle --------------------------
(***************************************************************************)
(* Daemon processes coming and going (cmd/devlb/cmd/daemon.go, start.go,   *)
(* stop.go; Start and StopGraceful of internal/daemon/server.go): one      *)
(* socket file and one listen port that successive processes contend for,  *)
(* users who start and stop the daemon, signals and crashes.               *)
(*                                                                         *)
(* A path is unlinked by its name: by a starting daemon, by Go when a Unix *)
(* listener is closed, and by StopGraceful at its end, whosever socket it  *)
(* leads to by then.                                                       *)
(***************************************************************************)
EXTENDS Naturals, FiniteSets

CONSTANTS
    Daemons,       \* processes; each is launched once
    Users,         \* each runs one command after the other
    Nobody,
    Signalled,     \* the processes SIGINT or SIGTERM may be sent to
    Mortal         \* the processes that may crash

ASSUME NobodyAssumption == Nobody \notin Daemons
ASSUME UsersAssumption == "signal" \notin Users
ASSUME FaultsAssumption == Signalled \subseteq Daemons /\ Mortal \subseteq Daemons

Threads == Users \cup {"signal"}     \* the callers of StopGraceful

VARIABLES
    socket,    \* whose socket the file is: a daemon's or Nobody's
    port,      \* who holds the listen port
    proc,      \* each process: "none", "alive", "exited", "crashed"
    start,     \* where its Start is
    open,      \* its Unix listener is open
    done,      \* s.done is closed
    drained,   \* s.drainDone is closed
    stopAt,    \* where each of its calls of StopGraceful is
    conn,      \* the connection it carries: "none", "open", "severed"
    cmd,       \* what each user is doing
    overlap    \* history: a daemon was launched while another was alive

fileVars == <<socket, port>>
procVars == <<proc, start, open, done, drained, stopAt, conn>>
userVars == <<cmd, overlap>>
vars == <<fileVars, procVars, userVars>>

StartStates == {"none", "listening", "unlinking", "binding", "serving", "waiting", "returned"}
StopStates  == {"none", "testing", "closing", "unlinking", "shutting", "draining",
                "removing", "finished"}
Commands    == {"idle", "starting", "launching", "stopping", "sending", "polling"}

(* In particular, a daemon is through with its shutdown only after it has  *)
(* announced it, which is what Start tells a shutdown from a failure by.   *)
TypeOK ==
    /\ socket \in Daemons \cup {Nobody} /\ port \in Daemons \cup {Nobody}
    /\ proc \in [Daemons -> {"none", "alive", "exited", "crashed"}]
    /\ start \in [Daemons -> StartStates]
    /\ open \in [Daemons -> BOOLEAN] /\ done \in [Daemons -> BOOLEAN]
    /\ drained \in [Daemons -> BOOLEAN]
    /\ stopAt \in [Daemons -> [Threads -> StopStates]]
    /\ conn \in [Daemons -> {"none", "open", "severed"}]
    /\ cmd \in [Users -> Commands]
    /\ overlap \in BOOLEAN
    /\ \A d \in Daemons : drained[d] => done[d]

Init ==
    /\ socket = Nobody /\ port = Nobody
    /\ proc = [d \in Daemons |-> "none"]
    /\ start = [d \in Daemons |-> "none"]
    /\ open = [d \in Daemons |-> FALSE]
    /\ done = open /\ drained = open
    /\ stopAt = [d \in Daemons |-> [t \in Threads |-> "none"]]
    /\ conn = [d \in Daemons |-> "none"]
    /\ cmd = [u \in Users |-> "idle"]
    /\ overlap = FALSE

Alive(d) == proc[d] = "alive"
(* Client.IsRunning: the socket file leads to a socket somebody listens on. *)
IsRunning == socket # Nobody /\ Alive(socket) /\ open[socket]

(***************************************************************************)
(* devlb start: test, then launch.                                         *)
(***************************************************************************)
Become(u, state) == cmd' = [cmd EXCEPT ![u] = state]

Command(u) ==
    /\ cmd[u] = "idle"
    /\ Become(u, "starting") \/ Become(u, "stopping")
    /\ UNCHANGED <<fileVars, procVars, overlap>>

TestRunning(u) ==
    /\ cmd[u] = "starting"
    /\ Become(u, IF IsRunning THEN "idle" ELSE "launching")
    /\ UNCHANGED <<fileVars, procVars, overlap>>

Launch(u, d) ==
    /\ cmd[u] = "launching"
    /\ proc[d] = "none"
    /\ proc' = [proc EXCEPT ![d] = "alive"]
    /\ start' = [start EXCEPT ![d] = "listening"]
    /\ overlap' = (overlap \/ \E e \in Daemons : Alive(e))
    /\ Become(u, "idle")
    /\ UNCHANGED <<fileVars, open, done, drained, stopAt, conn>>

(***************************************************************************)
(* devlb stop: test, send the request, poll until nobody listens or for 3  *)
(* seconds.  The handler answers and leaves StopGraceful to a goroutine.   *)
(* Bound: a user stops each daemon once.                                   *)
(***************************************************************************)
TestStopping(u) ==
    /\ cmd[u] = "stopping"
    /\ Become(u, IF IsRunning THEN "sending" ELSE "idle")
    /\ UNCHANGED <<fileVars, procVars, overlap>>

SendStop(u) ==
    /\ cmd[u] = "sending"
    /\ IF IsRunning /\ stopAt[socket][u] = "none"
       THEN /\ stopAt' = [stopAt EXCEPT ![socket][u] = "testing"]
            /\ Become(u, "polling")
       ELSE Become(u, "idle") /\ UNCHANGED stopAt
    /\ UNCHANGED <<fileVars, proc, start, open, done, drained, conn, overlap>>

PollStopped(u) ==
    /\ cmd[u] = "polling"
    /\ Become(u, "idle")
    /\ UNCHANGED <<fileVars, procVars, overlap>>

UserStep(u) ==
    \/ Command(u) \/ TestRunning(u) \/ TestStopping(u) \/ SendStop(u) \/ PollStopped(u)
    \/ \E d \in Daemons : Launch(u, d)

(***************************************************************************)
(* Server.Start.  A listen port in use leaves the listener blocked, and    *)
(* nobody tries again.                                                     *)
(***************************************************************************)
StartTo(d, state) == start' = [start EXCEPT ![d] = state]

Listen(d) ==
    /\ Alive(d) /\ start[d] = "listening"
    /\ port' = IF port = Nobody THEN d ELSE port
    /\ StartTo(d, "unlinking")
    /\ UNCHANGED <<socket, proc, open, done, drained, stopAt, conn, userVars>>

(* A start that leaves a file where it is.                                 *)
UnlinkNot(d) ==
    /\ Alive(d) /\ start[d] = "unlinking"
    /\ StartTo(d, "binding")
    /\ UNCHANGED <<fileVars, proc, open, done, drained, stopAt, conn, userVars>>

Unlink(d) ==
    /\ Alive(d) /\ start[d] = "unlinking"
    /\ socket' = Nobody
    /\ StartTo(d, "binding")
    /\ UNCHANGED <<port, proc, open, done, drained, stopAt, conn, userVars>>

(* The file removed after the socket is bound.                             *)
BindThenUnlink(d) ==
    /\ Alive(d) /\ start[d] = "binding"
    /\ socket' = Nobody
    /\ open' = [open EXCEPT ![d] = TRUE]
    /\ StartTo(d, "serving")
    /\ UNCHANGED <<port, proc, done, drained, stopAt, conn, userVars>>

Bind(d) ==
    /\ Alive(d) /\ start[d] = "binding"
    /\ IF socket = Nobody
       THEN /\ socket' = d
            /\ open' = [open EXCEPT ![d] = TRUE]
            /\ StartTo(d, "serving")
       ELSE StartTo(d, "returned") /\ UNCHANGED <<socket, open>>
    /\ UNCHANGED <<port, proc, done, drained, stopAt, conn, userVars>>

(* Accept fails when the listener is closed, which done precedes.          *)
AcceptFails(d) ==
    /\ Alive(d) /\ start[d] = "serving"
    /\ ~open[d]
    /\ StartTo(d, "waiting")
    /\ UNCHANGED <<fileVars, proc, open, done, drained, stopAt, conn, userVars>>

StartReturns(d) ==
    /\ Alive(d) /\ start[d] = "waiting"
    /\ drained[d]
    /\ StartTo(d, "returned")
    /\ UNCHANGED <<fileVars, proc, open, done, drained, stopAt, conn, userVars>>

(***************************************************************************)
(* Server.StopGraceful.                                                    *)
(***************************************************************************)
StopTo(d, t, state) == stopAt' = [stopAt EXCEPT ![d][t] = state]

(* The process ends, and with it all it had but the socket file.           *)
End(d, how) ==
    /\ proc' = [proc EXCEPT ![d] = how]
    /\ start' = [start EXCEPT ![d] = "none"]
    /\ open' = [open EXCEPT ![d] = FALSE]
    /\ done' = [done EXCEPT ![d] = FALSE]
    /\ drained' = [drained EXCEPT ![d] = FALSE]
    /\ stopAt' = [stopAt EXCEPT ![d] = [t \in Threads |-> "none"]]
    /\ conn' = [conn EXCEPT ![d] = "none"]
    /\ port' = IF port = d THEN Nobody ELSE port
    /\ UNCHANGED <<socket, userVars>>

TestDone(d, t) ==
    /\ Alive(d) /\ stopAt[d][t] = "testing"
    /\ StopTo(d, t, IF done[d] THEN "finished" ELSE "closing")
    /\ UNCHANGED <<fileVars, proc, start, open, done, drained, conn, userVars>>

(* A shutdown that is not announced.                                       *)
CloseNothing(d, t) ==
    /\ Alive(d) /\ stopAt[d][t] = "closing"
    /\ StopTo(d, t, "unlinking")
    /\ UNCHANGED <<fileVars, proc, start, open, done, drained, conn, userVars>>

(* A second close of the done channel panics, and the process ends.        *)
CloseDone(d, t) ==
    /\ Alive(d) /\ stopAt[d][t] = "closing"
    /\ IF done[d]
       THEN End(d, "crashed")
       ELSE /\ done' = [done EXCEPT ![d] = TRUE]
            /\ StopTo(d, t, "unlinking")
            /\ UNCHANGED <<fileVars, proc, start, open, drained, conn, userVars>>

(* ln.Close, if there is a listener yet, unlinks the path.                 *)
CloseSocket(d, t) ==
    /\ Alive(d) /\ stopAt[d][t] = "unlinking"
    /\ socket' = IF open[d] THEN Nobody ELSE socket
    /\ open' = [open EXCEPT ![d] = FALSE]
    /\ StopTo(d, t, "shutting")
    /\ UNCHANGED <<port, proc, start, done, drained, conn, userVars>>

(* The listeners are stopped under s.mu, which Start holds at first.       *)
ShutListeners(d, t) ==
    /\ Alive(d) /\ stopAt[d][t] = "shutting"
    /\ start[d] # "listening"
    /\ port' = IF port = d THEN Nobody ELSE port
    /\ StopTo(d, t, "draining")
    /\ UNCHANGED <<socket, proc, start, open, done, drained, conn, userVars>>

(* A drain that does not look.                                             *)
DrainedAtOnce(d, t) ==
    /\ Alive(d) /\ stopAt[d][t] = "draining"
    /\ StopTo(d, t, "removing")
    /\ UNCHANGED <<fileVars, proc, start, open, done, drained, conn, userVars>>

Drained(d, t) ==
    /\ Alive(d) /\ stopAt[d][t] = "draining"
    /\ conn[d] = "none"
    /\ StopTo(d, t, "removing")
    /\ UNCHANGED <<fileVars, proc, start, open, done, drained, conn, userVars>>

(* No deadline.                                                            *)
DeadlineNever(d, t) == Drained(d, t)

Deadline(d, t) ==
    /\ Alive(d) /\ stopAt[d][t] = "draining"
    /\ conn[d] = "open"
    /\ conn' = [conn EXCEPT ![d] = "severed"]
    /\ StopTo(d, t, "removing")
    /\ UNCHANGED <<fileVars, proc, start, open, done, drained, userVars>>

RemoveSocket(d, t) ==
    /\ Alive(d) /\ stopAt[d][t] = "removing"
    /\ socket' = Nobody
    /\ drained' = [drained EXCEPT ![d] = TRUE]
    /\ StopTo(d, t, "finished")
    /\ UNCHANGED <<port, proc, start, open, done, conn, userVars>>

StopStep(d, t) ==
    \/ TestDone(d, t) \/ CloseDone(d, t) \/ CloseSocket(d, t) \/ ShutListeners(d, t)
    \/ Drained(d, t) \/ Deadline(d, t) \/ RemoveSocket(d, t)

(***************************************************************************)
(* The main goroutine waits for Start or for a signal; it returns with     *)
(* Start, or when its own call of StopGraceful does, and the process ends. *)
(***************************************************************************)
Signal(d) ==
    /\ Alive(d) /\ stopAt[d]["signal"] = "none"
    /\ StopTo(d, "signal", "testing")
    /\ UNCHANGED <<fileVars, proc, start, open, done, drained, conn, userVars>>

Exit(d) ==
    /\ Alive(d)
    /\ \/ stopAt[d]["signal"] = "none" /\ start[d] = "returned"
       \/ stopAt[d]["signal"] = "finished"
    /\ End(d, "exited")

Crash(d) ==
    /\ Alive(d)
    /\ End(d, "crashed")

(* Clients connect through the listen port, and leave.                     *)
Connect(d) ==
    /\ port = d
    /\ conn[d] = "none"
    /\ conn' = [conn EXCEPT ![d] = "open"]
    /\ UNCHANGED <<fileVars, proc, start, open, done, drained, stopAt, userVars>>

Leave(d) ==
    /\ conn[d] # "none"
    /\ conn' = [conn EXCEPT ![d] = "none"]
    /\ UNCHANGED <<fileVars, proc, start, open, done, drained, stopAt, userVars>>

DaemonStep(d) ==
    \/ Listen(d) \/ Unlink(d) \/ Bind(d) \/ AcceptFails(d) \/ StartReturns(d)
    \/ \E t \in Threads : StopStep(d, t)
    \/ Exit(d)

Next ==
    \/ \E u \in Users : UserStep(u)
    \/ \E d \in Daemons : DaemonStep(d) \/ Connect(d) \/ Leave(d)
    \/ \E d \in Signalled : Signal(d)
    \/ \E d \in Mortal : Crash(d)

(* The goroutines of a process run; users, clients and signals need not.   *)
Fairness == \A d \in Daemons :
    /\ WF_vars(Listen(d) \/ Unlink(d) \/ Bind(d) \/ AcceptFails(d) \/ StartReturns(d))
    /\ \A t \in Threads : WF_vars(StopStep(d, t))
    /\ WF_vars(Exit(d))

Spec == Init /\ [][Next]_vars /\ Fairness
-----------------------------------------------------------------------------
Serving(d) == Alive(d) /\ start[d] = "serving" /\ ~done[d]

(* As long as no daemon is launched beside another, a serving daemon is    *)
(* reachable and has its listen port, whatever files or requests those     *)
(* before it left behind.                                                  *)
AloneIsReachable ==
    \A d \in Daemons : Serving(d) /\ ~overlap => socket = d /\ port = d

(* A daemon that is launched serves, unless it is told to end or another   *)
(* is launched beside it: a stale socket file does not keep it from it.    *)
LaunchedServes ==
    \A d \in Daemons :
        Alive(d) ~> (Serving(d) \/ done[d] \/ proc[d] = "crashed" \/ overlap)

(* A daemon that has begun to stop ends, however long its connections      *)
(* last and whoever else asks it to stop.                                  *)
StoppingEnds == \A d \in Daemons : done[d] ~> ~Alive(d)

(* A daemon that ends because it was asked to has let its connections      *)
(* drain, or closed them at the deadline: its process does not end while   *)
(* one is still carried.  Excepted is a daemon that got a signal: its main *)
(* goroutine returns with its own call of StopGraceful, at once when a     *)
(* requested shutdown is under way.                                        *)
ExitHasDrained ==
    [][\A d \in Daemons :
          /\ Alive(d) /\ proc'[d] = "exited"
          /\ conn[d] = "open"
          => stopAt[d]["signal"] # "none" \/ overlap]_vars
=============================================================================
