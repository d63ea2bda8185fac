--------------------------- MODULE LifecycleProofs --------------------------
(***************************************************************************)
(* Theorems about the daemon's life, for all daemons, users, signals and   *)
(* crashes: no shutdown is complete before it was announced, a daemon that *)
(* serves and is not launched beside another one is reachable and has its  *)
(* port, and one that was asked to end ends with its connections drained.  *)
(***************************************************************************)
EXTENDS DaemonLifecycle, TLAPS

USE NobodyAssumption, FaultsAssumption

Announced == {"unlinking", "shutting", "draining", "removing", "finished"}

-----------------------------------------------------------------------------
(* One daemon.                                                             *)

(* A process that does not run has nothing: neither goroutines nor a port. *)
GonePart ==
    \A d \in Daemons : ~Alive(d) =>
        /\ start[d] = "none" /\ ~done[d] /\ ~drained[d] /\ port # d
        /\ \A t \in Threads : stopAt[d][t] = "none"

(* A call of StopGraceful is past its first two steps only when done is    *)
(* closed; past the listeners' end when the daemon has no listen port and  *)
(* will not have one again; past the drain when no connection is open.     *)
StopPart ==
    \A d \in Daemons :
        /\ port = d => start[d] # "listening"
        /\ drained[d] => done[d] /\ port # d /\ start[d] # "listening" /\ conn[d] # "open"
        /\ \A t \in Threads :
              /\ stopAt[d][t] \in Announced => done[d]
              /\ stopAt[d][t] \in {"draining", "removing"} => port # d /\ start[d] # "listening"
              /\ stopAt[d][t] = "removing" => conn[d] # "open"

LifePart == TypeOK /\ GonePart /\ StopPart

(* At first there is no process.                                           *)
LEMMA LifeInitially == Init => LifePart
<1> SUFFICES ASSUME Init PROVE LifePart
    OBVIOUS
<1>1. TypeOK
    BY DEF Init, TypeOK, StartStates, StopStates, Commands
<1>2. GonePart /\ StopPart
    BY DEF Init, GonePart, StopPart, Alive, Announced
<1>3. QED BY <1>1, <1>2 DEF LifePart

(* The end of a process leaves the others as they were.                    *)
LEMMA EndStep ==
    ASSUME LifePart, NEW d \in Daemons, NEW how \in {"exited", "crashed"}, End(d, how)
    PROVE  LifePart'
<1> USE DEF LifePart, End, userVars
<1>1. TypeOK'
    BY DEF TypeOK, StartStates, StopStates
<1>2. \A e \in Daemons \ {d} :
          /\ proc'[e] = proc[e] /\ start'[e] = start[e] /\ done'[e] = done[e]
          /\ drained'[e] = drained[e] /\ conn'[e] = conn[e] /\ (port' = e => port = e)
          /\ \A t \in Threads : stopAt'[e][t] = stopAt[e][t]
    BY DEF TypeOK
<1>3. /\ start'[d] = "none" /\ ~done'[d] /\ ~drained'[d] /\ conn'[d] = "none" /\ port' # d
      /\ \A t \in Threads : stopAt'[d][t] = "none"
    BY DEF TypeOK
<1>4. GonePart'
    BY <1>2, <1>3 DEF GonePart, Alive
<1>5. StopPart'
    BY <1>2, <1>3 DEF StopPart, Announced
<1>6. QED BY <1>1, <1>4, <1>5

(* The users' steps change a process only by launching it or by asking it  *)
(* to stop.                                                                *)
LEMMA UserKeepsLife ==
    ASSUME LifePart, NEW u \in Users, UserStep(u)
    PROVE  LifePart'
<1> USE DEF LifePart
<1>1. CASE Command(u) \/ TestRunning(u) \/ TestStopping(u) \/ PollStopped(u)
    <2>1. UNCHANGED <<fileVars, procVars, overlap>> /\ cmd' \in [Users -> Commands]
        BY <1>1 DEF Command, TestRunning, TestStopping, PollStopped, Become, TypeOK, Commands
    <2>2. QED BY <2>1 DEF TypeOK, GonePart, StopPart, Alive, fileVars, procVars
<1>2. CASE SendStop(u)
    <2>1. cmd' \in [Users -> Commands]
        BY <1>2 DEF SendStop, Become, TypeOK, Commands
    <2>2. CASE IsRunning /\ stopAt[socket][u] = "none"
        <3>1. socket \in Daemons /\ Alive(socket) /\ u \in Threads
            BY <2>2 DEF IsRunning, TypeOK, Threads
        <3>2. stopAt' = [stopAt EXCEPT ![socket][u] = "testing"]
            BY <1>2, <2>2 DEF SendStop
        <3>3. stopAt' \in [Daemons -> [Threads -> StopStates]]
            BY <3>1, <3>2 DEF TypeOK, StopStates
        <3>4. \A e \in Daemons, t \in Threads :
                  stopAt'[e][t] = IF e = socket /\ t = u THEN "testing" ELSE stopAt[e][t]
            BY <3>1, <3>2 DEF TypeOK
        <3>5. UNCHANGED <<fileVars, proc, start, open, done, drained, conn, overlap>>
            BY <1>2 DEF SendStop
        <3>6. TypeOK'
            BY <2>1, <3>3, <3>5 DEF TypeOK, fileVars
        <3>7. GonePart' /\ StopPart'
            BY <3>1, <3>4, <3>5 DEF GonePart, StopPart, Alive, Announced, fileVars
        <3>8. QED BY <3>6, <3>7
    <2>3. CASE ~(IsRunning /\ stopAt[socket][u] = "none")
        <3>1. UNCHANGED <<fileVars, procVars, overlap>>
            BY <1>2, <2>3 DEF SendStop, procVars
        <3>2. QED BY <2>1, <3>1 DEF TypeOK, GonePart, StopPart, Alive, fileVars, procVars
    <2>4. QED BY <2>2, <2>3
<1>3. ASSUME NEW d \in Daemons, Launch(u, d) PROVE LifePart'
    <2>1. TypeOK'
        BY <1>3 DEF Launch, Become, TypeOK, StartStates, Commands, fileVars
    <2>2. /\ ~Alive(d) /\ ~drained[d] /\ port # d
          /\ \A t \in Threads : stopAt[d][t] = "none"
        BY <1>3 DEF Launch, Alive, GonePart
    <2>3. GonePart' /\ StopPart'
        BY <1>3, <2>2 DEF Launch, TypeOK, GonePart, StopPart, Alive, Announced, fileVars
    <2>4. QED BY <2>1, <2>3
<1>4. QED BY <1>1, <1>2, <1>3 DEF UserStep

(* The steps of Start.                                                     *)
StartingStep(d) == Listen(d) \/ Unlink(d) \/ Bind(d) \/ AcceptFails(d) \/ StartReturns(d)

LEMMA StartKeepsLife ==
    ASSUME LifePart, NEW d \in Daemons, StartingStep(d)
    PROVE  LifePart'
<1> USE DEF LifePart
<1>1. TypeOK'
    <2>1. start' \in [Daemons -> StartStates]
        BY DEF StartingStep, Listen, Unlink, Bind, AcceptFails, StartReturns, StartTo,
           TypeOK, StartStates
    <2>2. socket' \in Daemons \cup {Nobody} /\ port' \in Daemons \cup {Nobody}
        BY DEF StartingStep, Listen, Unlink, Bind, AcceptFails, StartReturns, TypeOK, fileVars
    <2>3. open' \in [Daemons -> BOOLEAN]
        BY DEF StartingStep, Listen, Unlink, Bind, AcceptFails, StartReturns, TypeOK
    <2>4. UNCHANGED <<proc, done, drained, stopAt, conn, cmd, overlap>>
        BY DEF StartingStep, Listen, Unlink, Bind, AcceptFails, StartReturns, userVars
    <2>5. QED BY <2>1, <2>2, <2>3, <2>4 DEF TypeOK
<1>2. /\ UNCHANGED <<proc, done, drained, stopAt, conn>>
      /\ Alive(d) /\ start'[d] # "listening"
      /\ \A e \in Daemons \ {d} : start'[e] = start[e]
      /\ port' # port => start[d] = "listening" /\ port' = d
    BY DEF StartingStep, Listen, Unlink, Bind, AcceptFails, StartReturns, StartTo,
       TypeOK, fileVars
<1>3. GonePart' /\ StopPart'
    BY <1>2 DEF GonePart, StopPart, Alive, Announced
<1>4. QED BY <1>1, <1>3

(* The steps of a call of StopGraceful.                                    *)
LEMMA StopKeepsLife ==
    ASSUME LifePart, NEW d \in Daemons, NEW t \in Threads, StopStep(d, t)
    PROVE  LifePart'
<1> USE DEF LifePart
<1>1. CASE CloseDone(d, t) /\ done[d]
    BY <1>1, EndStep DEF CloseDone
<1>2. CASE ~(CloseDone(d, t) /\ done[d])
    <2>1. PICK state \in StopStates : stopAt' = [stopAt EXCEPT ![d][t] = state]
        BY <1>2 DEF StopStep, TestDone, CloseDone, CloseSocket, ShutListeners, Drained,
           Deadline, RemoveSocket, StopTo, StopStates
    <2>2. /\ stopAt' \in [Daemons -> [Threads -> StopStates]]
          /\ \A e \in Daemons, x \in Threads :
                stopAt'[e][x] = IF e = d /\ x = t THEN state ELSE stopAt[e][x]
        BY <2>1 DEF TypeOK
    <2>3. Alive(d) /\ UNCHANGED <<proc, start, userVars>>
        BY <1>2 DEF StopStep, TestDone, CloseDone, CloseSocket, ShutListeners, Drained,
           Deadline, RemoveSocket, fileVars
    <2>4. stopAt'[d][t] = state
        BY <2>2
    <2>5. CASE TestDone(d, t)
        BY <2>2, <2>3, <2>4, <2>5 DEF TestDone, StopTo, TypeOK, GonePart, StopPart, Alive,
           Announced, fileVars, userVars
    <2>6. CASE CloseDone(d, t)
        <3>1. /\ UNCHANGED <<fileVars, open, drained, conn>> /\ state = "unlinking"
              /\ done' = [done EXCEPT ![d] = TRUE]
            BY <1>2, <2>2, <2>4, <2>6 DEF CloseDone, StopTo, TypeOK
        <3>2. TypeOK'
            BY <2>2, <2>3, <3>1 DEF TypeOK, fileVars, userVars
        <3>3. GonePart' /\ StopPart'
            BY <2>2, <2>3, <3>1 DEF TypeOK, GonePart, StopPart, Alive, Announced, fileVars
        <3>4. QED BY <3>2, <3>3
    <2>7. CASE CloseSocket(d, t)
        BY <2>2, <2>3, <2>4, <2>7 DEF CloseSocket, StopTo, TypeOK, GonePart, StopPart, Alive,
           Announced, userVars
    <2>8. CASE ShutListeners(d, t)
        BY <2>2, <2>3, <2>4, <2>8 DEF ShutListeners, StopTo, TypeOK, GonePart, StopPart,
           Alive, Announced, userVars
    <2>9. CASE Drained(d, t)
        BY <2>2, <2>3, <2>4, <2>9 DEF Drained, StopTo, TypeOK, GonePart, StopPart, Alive,
           Announced, fileVars, userVars
    <2>10. CASE Deadline(d, t)
        BY <2>2, <2>3, <2>4, <2>10 DEF Deadline, StopTo, TypeOK, GonePart, StopPart, Alive,
           Announced, fileVars, userVars
    <2>11. CASE RemoveSocket(d, t)
        BY <2>2, <2>3, <2>4, <2>11 DEF RemoveSocket, StopTo, TypeOK, GonePart, StopPart,
           Alive, Announced, userVars
    <2>12. QED
        BY <2>5, <2>6, <2>7, <2>8, <2>9, <2>10, <2>11 DEF StopStep
<1>3. QED BY <1>1, <1>2

(* Every step keeps what holds of each daemon by itself.                   *)
LEMMA LifeStep == LifePart /\ [Next]_vars => LifePart'
<1> SUFFICES ASSUME LifePart, [Next]_vars PROVE LifePart'
    OBVIOUS
<1>1. ASSUME NEW u \in Users, UserStep(u) PROVE LifePart'
    BY <1>1, UserKeepsLife
<1>2. ASSUME NEW d \in Daemons, DaemonStep(d) PROVE LifePart'
    BY <1>2, StartKeepsLife, StopKeepsLife, EndStep DEF DaemonStep, StartingStep, Exit
<1>3. ASSUME NEW d \in Daemons, Connect(d) \/ Leave(d) PROVE LifePart'
    <2>1. /\ UNCHANGED <<fileVars, proc, start, open, done, drained, stopAt, userVars>>
          /\ \E c \in {"none", "open"} :
                conn' = [conn EXCEPT ![d] = c] /\ (c = "open" => port = d)
        BY <1>3 DEF Connect, Leave
    <2>2. TypeOK'
        BY <2>1 DEF LifePart, TypeOK, fileVars, userVars
    <2>3. GonePart' /\ StopPart'
        BY <2>1 DEF LifePart, TypeOK, GonePart, StopPart, Alive, Announced, fileVars
    <2>4. QED BY <2>2, <2>3 DEF LifePart
<1>4. ASSUME NEW d \in Signalled, Signal(d) PROVE LifePart'
    <2>1. d \in Daemons /\ "signal" \in Threads
        BY DEF Threads
    <2>2. /\ stopAt' \in [Daemons -> [Threads -> StopStates]]
          /\ \A e \in Daemons, x \in Threads :
                stopAt'[e][x] = IF e = d /\ x = "signal" THEN "testing" ELSE stopAt[e][x]
        BY <1>4, <2>1 DEF Signal, StopTo, LifePart, TypeOK, StopStates
    <2>3. UNCHANGED <<fileVars, proc, start, open, done, drained, conn, userVars>> /\ Alive(d)
        BY <1>4 DEF Signal
    <2>4. TypeOK'
        BY <2>2, <2>3 DEF LifePart, TypeOK, fileVars, userVars
    <2>5. GonePart' /\ StopPart'
        BY <2>2, <2>3 DEF LifePart, GonePart, StopPart, Alive, Announced, fileVars
    <2>6. QED BY <2>4, <2>5 DEF LifePart
<1>5. ASSUME NEW d \in Mortal, Crash(d) PROVE LifePart'
    BY <1>5, EndStep DEF Crash
<1>6. CASE UNCHANGED vars
    BY <1>6 DEF vars, LifePart, TypeOK, GonePart, StopPart, Alive, fileVars, procVars, userVars
<1>7. QED BY <1>1, <1>2, <1>3, <1>4, <1>5, <1>6 DEF Next

(* TypeOK: in particular drainDone is closed only after done, which is     *)
(* what Start tells a shutdown from a failure by.                          *)
THEOREM DrainedAfterDone == Spec => []TypeOK
<1>1. LifePart => TypeOK
    BY DEF LifePart
<1>2. QED BY <1>1, LifeInitially, LifeStep, PTL DEF Spec
-----------------------------------------------------------------------------
(* A daemon that is alone.                                                 *)

(* Unless one was launched beside another, one daemon runs at a time; it   *)
(* has the port from Listen until it stops, finds the path free when it    *)
(* binds, has its own socket there while it serves, and its Start returns  *)
(* only when the drain is done.                                            *)
AlonePart ==
    \A d \in Daemons : Alive(d) =>
        /\ \A e \in Daemons : Alive(e) => e = d
        /\ start[d] \in {"unlinking", "binding", "serving"} /\ ~done[d] => port = d
        /\ start[d] = "binding" => socket = Nobody
        /\ Serving(d) => socket = d
        /\ start[d] = "returned" => drained[d]

ReachPart == LifePart /\ (~overlap => AlonePart)

(* The end of the only daemon leaves none.                                 *)
LEMMA EndKeepsAlone ==
    ASSUME ReachPart, NEW d \in Daemons, NEW how \in {"exited", "crashed"}, End(d, how)
    PROVE  ~overlap' => AlonePart'
<1> SUFFICES ASSUME ~overlap PROVE AlonePart'
    BY DEF End, userVars
<1>1. Alive(d) => AlonePart'
    BY DEF ReachPart, AlonePart, LifePart, TypeOK, End, Alive
<1>2. ~Alive(d) => AlonePart'
    BY DEF ReachPart, AlonePart, LifePart, GonePart, TypeOK, End, Alive, Serving
<1>3. QED BY <1>1, <1>2

(* No step disturbs a daemon that is alone.                                *)
LEMMA AloneStep == ReachPart /\ [Next]_vars => ReachPart'
<1> SUFFICES ASSUME ReachPart, [Next]_vars PROVE ~overlap' => AlonePart'
    BY LifeStep DEF ReachPart
<1> USE DEF ReachPart
<1>1. ASSUME NEW u \in Users, UserStep(u) PROVE ~overlap' => AlonePart'
    <2>1. ASSUME NEW d \in Daemons, Launch(u, d), ~overlap' PROVE AlonePart'
        <3>1. ~overlap /\ \A e \in Daemons : ~Alive(e)
            BY <2>1 DEF Launch, LifePart, TypeOK
        <3>2. \A e \in Daemons : Alive(e)' => e = d
            BY <2>1, <3>1 DEF Launch, Alive, LifePart, TypeOK
        <3>3. start'[d] = "listening"
            BY <2>1 DEF Launch, LifePart, TypeOK
        <3>4. QED BY <3>2, <3>3 DEF AlonePart, Serving
    <2>2. CASE ~\E d \in Daemons : Launch(u, d)
        <3>1. UNCHANGED <<fileVars, proc, start, open, done, drained, conn, overlap>>
            BY <1>1, <2>2 DEF UserStep, Command, TestRunning, TestStopping, SendStop,
               PollStopped, procVars
        <3>2. QED BY <3>1 DEF AlonePart, Alive, Serving, fileVars
    <2>3. QED BY <2>1, <2>2
<1>2. ASSUME NEW d \in Daemons, StartingStep(d) PROVE ~overlap' => AlonePart'
    <2> SUFFICES ASSUME ~overlap PROVE AlonePart'
        BY <1>2 DEF StartingStep, Listen, Unlink, Bind, AcceptFails, StartReturns, userVars
    <2>1. /\ Alive(d) /\ \A e \in Daemons : Alive(e)' => e = d
          /\ done' = done /\ drained' = drained
        BY <1>2 DEF StartingStep, Listen, Unlink, Bind, AcceptFails, StartReturns,
           AlonePart, Alive
    <2>2. CASE Listen(d)
        <3>1. port = Nobody
            BY <2>1, <2>2 DEF Listen, LifePart, TypeOK, GonePart, StopPart, AlonePart
        <3>2. start'[d] = "unlinking" /\ port' = d
            BY <2>2, <3>1 DEF Listen, StartTo, LifePart, TypeOK
        <3>3. QED BY <2>1, <3>2 DEF AlonePart, Serving
    <2>3. CASE Unlink(d)
        BY <2>1, <2>3 DEF Unlink, StartTo, LifePart, TypeOK, AlonePart, Serving
    <2>4. CASE Bind(d)
        BY <2>1, <2>4 DEF Bind, StartTo, LifePart, TypeOK, AlonePart, Serving
    <2>5. CASE AcceptFails(d)
        BY <2>1, <2>5 DEF AcceptFails, StartTo, LifePart, TypeOK, AlonePart, Serving, fileVars
    <2>6. CASE StartReturns(d)
        BY <2>1, <2>6 DEF StartReturns, StartTo, LifePart, TypeOK, AlonePart, Serving, fileVars
    <2>7. QED BY <1>2, <2>2, <2>3, <2>4, <2>5, <2>6 DEF StartingStep
<1>3. ASSUME NEW d \in Daemons, NEW t \in Threads, StopStep(d, t)
      PROVE  ~overlap' => AlonePart'
    <2>1. CASE CloseDone(d, t) /\ done[d]
        BY <2>1, EndKeepsAlone DEF CloseDone
    <2>2. CASE ~(CloseDone(d, t) /\ done[d])
        <3>1. Alive(d) /\ UNCHANGED <<proc, start, overlap>>
            BY <1>3, <2>2 DEF StopStep, TestDone, CloseDone, CloseSocket, ShutListeners,
               Drained, Deadline, RemoveSocket, userVars
        <3>2. /\ \A e \in Daemons \ {d} : done'[e] = done[e] /\ drained'[e] = drained[e]
              /\ (done[d] => done'[d]) /\ (drained[d] => drained'[d])
              /\ done'[d] \/ UNCHANGED fileVars
              /\ socket' \in {socket, Nobody}
            BY <1>3, <2>2 DEF StopStep, TestDone, CloseDone, CloseSocket, ShutListeners,
               Drained, Deadline, RemoveSocket, fileVars, LifePart, TypeOK, StopPart, Announced
        <3>3. QED BY <3>1, <3>2 DEF AlonePart, Alive, Serving, fileVars
    <2>3. QED BY <2>1, <2>2
<1>4. ASSUME NEW d \in Daemons, Exit(d) \/ Crash(d) PROVE ~overlap' => AlonePart'
    BY <1>4, EndKeepsAlone DEF Exit, Crash
<1>5. ASSUME NEW d \in Daemons, Connect(d) \/ Leave(d) \/ Signal(d)
      PROVE  ~overlap' => AlonePart'
    BY <1>5 DEF Connect, Leave, Signal, AlonePart, Alive, Serving, fileVars, userVars
<1>6. CASE UNCHANGED vars
    BY <1>6 DEF vars, AlonePart, Alive, Serving, fileVars, procVars, userVars
<1>7. QED
    BY <1>1, <1>2, <1>3, <1>4, <1>5, <1>6 DEF Next, DaemonStep, StartingStep

(* At first no daemon runs.                                                *)
LEMMA AloneInitially == Init => ReachPart
BY LifeInitially DEF Init, ReachPart, AlonePart, Alive

(* AloneIsReachable: a serving daemon that no other was launched beside    *)
(* is found by its socket and has its listen port.                         *)
THEOREM ServingIsReachable == Spec => []AloneIsReachable
<1>1. ReachPart => AloneIsReachable
    BY DEF ReachPart, AlonePart, AloneIsReachable, Serving
<1>2. QED BY <1>1, AloneInitially, AloneStep, PTL DEF Spec

(* ExitHasDrained: a daemon that ends because it was asked to has no open  *)
(* connection when its process ends.                                       *)
THEOREM AskedExitHasDrained == Spec => ExitHasDrained
<1>1. ASSUME ReachPart, [Next]_vars, NEW d \in Daemons, Alive(d), proc'[d] = "exited"
      PROVE  Exit(d)
    <2>1. proc' # proc
        BY <1>1 DEF Alive
    <2>2. ASSUME NEW e \in Daemons, NEW how \in {"exited", "crashed"}, End(e, how)
          PROVE  e = d /\ how = "exited"
        BY <1>1, <2>2 DEF End, Alive, ReachPart, LifePart, TypeOK
    <2>3. ASSUME NEW u \in Users, UserStep(u) PROVE FALSE
        BY <1>1, <2>1, <2>3 DEF UserStep, Command, TestRunning, TestStopping, SendStop,
           PollStopped, Launch, procVars, Alive, ReachPart, LifePart, TypeOK
    <2>4. ASSUME NEW e \in Daemons, StartingStep(e) \/ Connect(e) \/ Leave(e) \/ Signal(e)
          PROVE  FALSE
        BY <2>1, <2>4 DEF StartingStep, Listen, Unlink, Bind, AcceptFails, StartReturns,
           Connect, Leave, Signal
    <2>5. ASSUME NEW e \in Daemons, NEW t \in Threads, StopStep(e, t) PROVE FALSE
        BY <2>1, <2>2, <2>5 DEF StopStep, TestDone, CloseDone, CloseSocket, ShutListeners,
           Drained, Deadline, RemoveSocket
    <2>6. ASSUME NEW e \in Daemons, Crash(e) PROVE FALSE
        BY <2>2, <2>6 DEF Crash
    <2>7. ASSUME NEW e \in Daemons, Exit(e) PROVE e = d
        BY <2>2, <2>7 DEF Exit
    <2>8. QED
        BY <1>1, <2>1, <2>3, <2>4, <2>5, <2>6, <2>7
           DEF Next, DaemonStep, StartingStep, vars, procVars
<1>2. ReachPart /\ [Next]_vars =>
          [\A d \in Daemons :
              /\ Alive(d) /\ proc'[d] = "exited"
              /\ conn[d] = "open"
              => stopAt[d]["signal"] # "none" \/ overlap]_vars
    <2> SUFFICES ASSUME ReachPart, [Next]_vars, NEW d \in Daemons,
                        Alive(d), proc'[d] = "exited", conn[d] = "open", ~overlap,
                        stopAt[d]["signal"] = "none"
                 PROVE  FALSE
        OBVIOUS
    <2>1. start[d] = "returned"
        BY <1>1 DEF Exit
    <2>2. drained[d]
        BY <2>1 DEF ReachPart, AlonePart
    <2>3. QED BY <2>2 DEF ReachPart, LifePart, StopPart
<1>3. QED BY <1>2, AloneInitially, AloneStep, PTL DEF Spec, ExitHasDrained
=============================================================================
