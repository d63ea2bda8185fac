---------------------------- MODULE TracerProofs ----------------------------
(***************************************************************************)
(* Theorems about the tracing loop, for every number of threads, every     *)
(* fork, exec, kill and reuse of a number: a bind takes effect on the port *)
(* it is to have, the loop knows traced threads only, and nothing it stops *)
(* runs on once the command has ended.                                     *)
(***************************************************************************)
EXTENDS Tracer, TLAPS

USE TidsAssumption, PortsAssumption

(* Where a thread is when the call it is in has been let begin, and where  *)
(* it is when it has none or the tracer has yet to see it.                 *)
InCall  == {"inside", "event", "exit"}
OutCall == {"user", "entry", "signal", "born"}

-----------------------------------------------------------------------------
(* A process has the number of its first thread, which has begun a call    *)
(* before there was a second one, and whose end is seen last.              *)
HomePart ==
    \A t \in Tids : group[t] \notin {NoTid, t} =>
        group[group[t]] = group[t] /\ flag[group[t]] # "absent"

(* The flag says whether the thread is inside a call; a free number has    *)
(* none.  For the numbers an exec has left wrong, what is inside a call    *)
(* has some flag at least.                                                 *)
FlagPart ==
    \A t \in Tids :
        /\ kern[t] \in InCall => flag[t] # "absent"
        /\ t \notin turned =>
              /\ kern[t] \in InCall => flag[t] = "in"
              /\ kern[t] \in OutCall => flag[t] # "in"
              /\ kern[t] = "free" => flag[t] = "absent"

(* The address holds the port the program means or the one it is to have;  *)
(* within a bind that goes on, the latter.                                 *)
AddressPart ==
    \A t \in Tids :
        /\ buf[t] \in {want[t], Bound(want[t])}
        /\ t \notin turned =>
              /\ kern[t] = "event" => call[t] = "returns"
              /\ kern[t] = "inside" /\ call[t] = "bind" => buf[t] = Bound(want[t])

(* The thread the loop deals with is in the stop it was reported in, or    *)
(* was killed, or stops in the exec of another thread of its process.      *)
LoopPart ==
    /\ loop = "starting" => ~leaderDone /\ \A t \in Tids : flag[t] = "absent"
    /\ loop = "handling" =>
          /\ stop \in Stops
          /\ kern[cur] \in {stop, "ended"} \/ (cur \in turned /\ kern[cur] = "event")

(* After the leader's end nothing is inside a call.                        *)
LeaderPart == leaderDone => \A t \in Tids : kern[t] \notin InCall

TracerPart == TypeOK /\ HomePart /\ FlagPart /\ AddressPart /\ LoopPart /\ LeaderPart

(* At first there is the leader, stopped at its exec.                      *)
LEMMA TracerInitially == Init => TracerPart
<1> SUFFICES ASSUME Init PROVE TracerPart
    OBVIOUS
<1>1. TypeOK
    BY DEF Init, TypeOK, Ours, Alive, Stops, SyscallStops, Calls
<1>2. HomePart /\ FlagPart /\ AddressPart /\ LoopPart /\ LeaderPart
    BY DEF Init, HomePart, FlagPart, AddressPart, LoopPart, LeaderPart, Bound, Mapped,
           InCall, OutCall
<1>3. QED BY <1>1, <1>2 DEF TracerPart

(* The port a bind is to take effect on; doing it twice does no harm.      *)
LEMMA BoundFacts ==
    ASSUME NEW p \in Ports \cup {NoPort}
    PROVE  /\ Bound(p) \in Ports \cup {NoPort}
           /\ Bound(p) = NoPort <=> p = NoPort
           /\ Bound(Bound(p)) = Bound(p)
    BY DEF Bound, Mapped, Ports

-----------------------------------------------------------------------------
(* The traced program.                                                     *)

(* A thread enters a call, comes to its end, or gets a signal.             *)
LEMMA ThreadKeeps ==
    ASSUME TracerPart, NEW t \in Tids, Enter(t) \/ Leave(t) \/ Signal(t)
    PROVE  TracerPart'
<1> USE DEF TracerPart
<1>1. /\ kern[t] \in {"user", "inside"} /\ UNCHANGED <<group, loopVars, turned>>
      /\ \E s \in {"entry", "exit", "signal"} :
            /\ kern' = [kern EXCEPT ![t] = s]
            /\ s = "exit" <=> kern[t] = "inside"
            /\ s # "entry" => UNCHANGED <<call, want, buf>>
    BY DEF Enter, Leave, Signal
<1>2. PICK s \in {"entry", "exit", "signal"} :
            /\ kern' = [kern EXCEPT ![t] = s]
            /\ s = "exit" <=> kern[t] = "inside"
            /\ s # "entry" => UNCHANGED <<call, want, buf>>
    BY <1>1
<1>3. /\ kern \in [Tids -> Ours \cup {"free"}]
      /\ \A u \in Tids : kern'[u] = IF u = t THEN s ELSE kern[u]
    BY <1>2 DEF TypeOK
<1>4. /\ call' \in [Tids -> Calls]
      /\ want' \in [Tids -> Mapped \cup Unmapped \cup {NoPort}]
      /\ buf' \in [Tids -> Ports \cup {NoPort}]
      /\ \A u \in Tids : want'[u] = NoPort <=> buf'[u] = NoPort
      /\ \A u \in Tids : buf'[u] \in {want'[u], Bound(want'[u])}
      /\ \A u \in Tids \ {t} : call'[u] = call[u] /\ want'[u] = want[u] /\ buf'[u] = buf[u]
    <2>1. CASE s # "entry"
        BY <1>2, <2>1 DEF TypeOK, AddressPart
    <2>2. CASE Enter(t)
        <3>1. CASE UNCHANGED <<want, buf>>
            BY <2>2, <3>1 DEF Enter, TypeOK, Calls, AddressPart
        <3>2. CASE \E p \in Mapped \cup Unmapped \cup {NoPort} :
                      want' = [want EXCEPT ![t] = p] /\ buf' = [buf EXCEPT ![t] = p]
            BY <2>2, <3>2 DEF Enter, TypeOK, Calls, Ports, AddressPart
        <3>3. QED BY <2>2, <3>1, <3>2 DEF Enter
    <2>3. CASE s = "entry" /\ ~Enter(t)
        <3>1. kern'[t] = "entry"
            BY <1>3, <2>3
        <3>2. QED BY <2>3, <3>1, <1>3 DEF Leave, Signal
    <2>4. QED BY <2>1, <2>2, <2>3
<1>5. TypeOK'
    BY <1>1, <1>3, <1>4 DEF TypeOK, loopVars, Ours, Alive, Stops, SyscallStops
<1>6. HomePart'
    BY <1>1 DEF HomePart, loopVars
<1>7. FlagPart'
    BY <1>1, <1>2, <1>3 DEF FlagPart, InCall, OutCall, loopVars
<1>8. AddressPart'
    BY <1>1, <1>2, <1>3, <1>4 DEF AddressPart
<1>9. LoopPart'
    <2>1. loop = "handling" => cur \in Tids /\ cur # t
        BY <1>1 DEF LoopPart, TypeOK, Stops, SyscallStops
    <2>2. QED BY <1>1, <1>3, <2>1 DEF LoopPart, loopVars
<1>10. LeaderPart'
    BY <1>1, <1>2, <1>3 DEF LeaderPart, InCall, loopVars
<1>11. QED BY <1>5, <1>6, <1>7, <1>8, <1>9, <1>10

(* Living threads that end.                                                *)
LEMMA EndKeeps ==
    ASSUME TracerPart, NEW dying \in SUBSET Tids, \A t \in dying : kern[t] \in Alive,
           End(dying), UNCHANGED group,
           UNCHANGED <<flag, leaderDone, turned>>
    PROVE  /\ kern' \in [Tids -> Ours \cup {"free"}]
           /\ \A t \in Tids : kern'[t] = IF t \in dying THEN "ended" ELSE kern[t]
           /\ \A t \in Tids : kern'[t] \in Ours <=> group'[t] # NoTid
           /\ call' \in [Tids -> Calls]
           /\ want' \in [Tids -> Mapped \cup Unmapped \cup {NoPort}]
           /\ buf' \in [Tids -> Ports \cup {NoPort}]
           /\ \A t \in Tids : want'[t] = NoPort <=> buf'[t] = NoPort
           /\ HomePart' /\ FlagPart' /\ AddressPart' /\ LeaderPart'
<1> USE DEF TracerPart, End
<1>1. /\ kern' \in [Tids -> Ours \cup {"free"}]
      /\ \A t \in Tids : kern'[t] = IF t \in dying THEN "ended" ELSE kern[t]
    BY DEF TypeOK, Ours
<1>2. \A t \in Tids : kern'[t] \in Ours <=> group'[t] # NoTid
    BY <1>1 DEF TypeOK, Ours
<1>3. /\ call' \in [Tids -> Calls]
      /\ want' \in [Tids -> Mapped \cup Unmapped \cup {NoPort}]
      /\ buf' \in [Tids -> Ports \cup {NoPort}]
      /\ \A t \in Tids : want'[t] = NoPort <=> buf'[t] = NoPort
    BY DEF TypeOK, Calls
<1>4. HomePart' /\ FlagPart' /\ LeaderPart'
    BY <1>1 DEF HomePart, FlagPart, LeaderPart, InCall, OutCall
<1>5. AddressPart'
    BY <1>1 DEF AddressPart
<1>6. QED BY <1>1, <1>2, <1>3, <1>4, <1>5

(* The end of a thread or of a process.                                    *)
LEMMA EndingKeeps ==
    ASSUME TracerPart, NEW t \in Tids, EndThread(t) \/ EndProcess(t)
    PROVE  TracerPart'
<1> USE DEF TracerPart
<1>1. PICK dying \in SUBSET Tids : (\A u \in dying : kern[u] \in Alive) /\ End(dying)
    <2>1. CASE EndThread(t)
        <3>1. {t} \in SUBSET Tids /\ \A u \in {t} : kern[u] \in Alive
            BY <2>1 DEF EndThread, Alive
        <3>2. QED BY <2>1, <3>1 DEF EndThread
    <2>2. CASE EndProcess(t)
        <3>1. /\ Living(Members(t)) \in SUBSET Tids
              /\ \A u \in Living(Members(t)) : kern[u] \in Alive
            BY DEF Living, Members
        <3>2. QED BY <2>2, <3>1 DEF EndProcess
    <2>3. QED BY <2>1, <2>2
<1>2. UNCHANGED <<group, loopVars, turned>>
    BY DEF EndThread, EndProcess
<1>3. TypeOK' /\ HomePart' /\ FlagPart' /\ AddressPart' /\ LeaderPart'
    BY <1>1, <1>2, EndKeeps DEF TypeOK, loopVars
<1>4. LoopPart'
    BY <1>1, <1>2, EndKeeps DEF LoopPart, TypeOK, loopVars
<1>5. QED BY <1>3, <1>4

(* A new thread, or a new process.                                         *)
LEMMA SpawnKeeps ==
    ASSUME TracerPart, NEW t \in Tids, NEW u \in Tids, NEW g \in Tids, Spawn(t, u, g)
    PROVE  TracerPart'
<1> USE DEF TracerPart
<1>1. /\ kern[t] = "inside" /\ call[t] = "other" /\ kern[u] = "free" /\ g \in {group[t], u}
      /\ UNCHANGED <<want, buf, loopVars, turned>>
      /\ t # u /\ group[u] = NoTid /\ group[t] # NoTid
    BY DEF Spawn, TypeOK, Ours, Alive, Stops, SyscallStops
<1>2. /\ kern' \in [Tids -> Ours \cup {"free"}]
      /\ \A v \in Tids : kern'[v] = IF v = t THEN "event" ELSE IF v = u THEN "born" ELSE kern[v]
    BY <1>1 DEF Spawn, TypeOK, Ours, Alive, Stops
<1>3. /\ group' \in [Tids -> Tids \cup {NoTid}]
      /\ \A v \in Tids : group'[v] = IF v = u THEN g ELSE group[v]
    BY DEF Spawn, TypeOK
<1>4. /\ call' \in [Tids -> Calls]
      /\ \A v \in Tids : call'[v] = IF v = t THEN "returns" ELSE call[v]
    BY DEF Spawn, TypeOK, Calls
<1>5. \A v \in Tids : kern'[v] \in Ours <=> group'[v] # NoTid
    BY <1>1, <1>2, <1>3 DEF TypeOK, Ours, Alive, Stops
<1>6. TypeOK'
    BY <1>1, <1>2, <1>3, <1>4, <1>5 DEF TypeOK, loopVars
<1>7. flag[t] # "absent"
    BY <1>1 DEF FlagPart, InCall
<1>8. HomePart'
    <2>1. SUFFICES ASSUME NEW v \in Tids, group'[v] \notin {NoTid, v}
                   PROVE  group'[group'[v]] = group'[v] /\ flag[group'[v]] # "absent"
        BY <1>1 DEF HomePart, loopVars
    <2>2. CASE v # u
        <3>1. group[v] \in Tids /\ group'[v] = group[v]
            BY <1>3, <2>1, <2>2 DEF TypeOK
        <3>2. group[group[v]] = group[v] /\ flag[group[v]] # "absent"
            BY <2>1, <3>1 DEF HomePart
        <3>3. group[v] # u
            BY <1>1, <3>1, <3>2
        <3>4. QED BY <1>3, <3>1, <3>2, <3>3
    <2>3. CASE v = u
        <3>1. group'[v] = g /\ g = group[t] /\ g \in Tids
            BY <1>1, <1>3, <2>1, <2>3
        <3>2. group[g] = g /\ flag[g] # "absent"
            BY <1>1, <1>7, <3>1 DEF HomePart
        <3>3. g # u
            BY <1>1, <3>2
        <3>4. QED BY <1>3, <3>1, <3>2, <3>3
    <2>4. QED BY <2>2, <2>3
<1>9. FlagPart'
    BY <1>1, <1>2 DEF FlagPart, InCall, OutCall, loopVars
<1>10. AddressPart'
    BY <1>1, <1>2, <1>4 DEF AddressPart
<1>11. LoopPart'
    <2>1. loop = "handling" => cur \in Tids /\ cur \notin {t, u}
        BY <1>1 DEF LoopPart, TypeOK, Stops, SyscallStops
    <2>2. QED BY <1>1, <1>2, <2>1 DEF LoopPart, loopVars
<1>12. LeaderPart'
    BY <1>1, <1>2 DEF LeaderPart, InCall, loopVars
<1>13. QED BY <1>6, <1>8, <1>9, <1>10, <1>11, <1>12

(* An exec: the end of the other threads, and the change of number.        *)
LEMMA ExecKeeps ==
    ASSUME TracerPart, NEW t \in Tids, BeginExec(t) \/ Exec(t)
    PROVE  TracerPart'
<1> USE DEF TracerPart
<1>1. kern[t] = "inside" /\ group[t] \in Tids /\ UNCHANGED loopVars
    BY DEF BeginExec, Exec, TypeOK, Ours, Alive
<1>2. CASE BeginExec(t)
    <2> DEFINE others == Living(Members(group[t]) \ {t})
    <2>1. /\ others \in SUBSET Tids /\ t \notin others
          /\ \A u \in others : kern[u] \in Alive
        BY DEF Living, Members
    <2>2. /\ UNCHANGED <<group, loopVars, turned>>
          /\ kern' = [u \in Tids |-> IF u \in others THEN "ended" ELSE kern[u]]
          /\ call' = [u \in Tids |-> IF u = t THEN "exec"
                                     ELSE IF u \in others THEN "none" ELSE call[u]]
          /\ want' = [u \in Tids |-> IF u \in others \cup {t} THEN NoPort ELSE want[u]]
          /\ buf' = [u \in Tids |-> IF u \in others \cup {t} THEN NoPort ELSE buf[u]]
        BY <1>2 DEF BeginExec
    <2> HIDE DEF others
    <2>3. /\ kern' \in [Tids -> Ours \cup {"free"}]
          /\ \A u \in Tids : kern'[u] = IF u \in others THEN "ended" ELSE kern[u]
          /\ \A u \in Tids : kern'[u] \in Ours <=> group'[u] # NoTid
        BY <2>1, <2>2 DEF TypeOK, Ours
    <2>4. /\ call' \in [Tids -> Calls]
          /\ want' \in [Tids -> Mapped \cup Unmapped \cup {NoPort}]
          /\ buf' \in [Tids -> Ports \cup {NoPort}]
          /\ \A u \in Tids : want'[u] = NoPort <=> buf'[u] = NoPort
        BY <2>2 DEF TypeOK, Calls
    <2>5. TypeOK'
        BY <2>2, <2>3, <2>4 DEF TypeOK, loopVars
    <2>6. HomePart' /\ FlagPart' /\ LeaderPart'
        BY <2>2, <2>3 DEF HomePart, FlagPart, LeaderPart, InCall, OutCall, loopVars
    <2>7. AddressPart'
        BY <1>1, <2>1, <2>2, <2>3 DEF AddressPart
    <2>8. LoopPart'
        BY <2>2, <2>3 DEF LoopPart, TypeOK, loopVars
    <2>9. QED BY <2>5, <2>6, <2>7, <2>8
<1>3. CASE Exec(t)
    <2> DEFINE g == group[t]
    <2>1. /\ UNCHANGED <<want, buf, loopVars>> /\ g \in Tids
          /\ kern' = [kern EXCEPT ![t] = "free", ![g] = "event"]
          /\ group' = [group EXCEPT ![t] = NoTid, ![g] = g]
          /\ call' = [call EXCEPT ![t] = "none", ![g] = "returns"]
          /\ turned' = IF t = g THEN turned ELSE turned \cup {t, g}
        BY <1>1, <1>3 DEF Exec
    <2>2. g # t => group[g] = g /\ flag[g] # "absent"
        BY <1>1 DEF HomePart
    <2> HIDE DEF g
    <2>3. /\ kern' \in [Tids -> Ours \cup {"free"}]
          /\ \A u \in Tids : kern'[u] = IF u = g THEN "event" ELSE IF u = t THEN "free" ELSE kern[u]
        BY <2>1 DEF TypeOK, Ours, Alive, Stops
    <2>4. /\ group' \in [Tids -> Tids \cup {NoTid}]
          /\ \A u \in Tids : group'[u] = IF u = g THEN g ELSE IF u = t THEN NoTid ELSE group[u]
        BY <2>1 DEF TypeOK
    <2>5. /\ call' \in [Tids -> Calls]
          /\ \A u \in Tids : call'[u] = IF u = g THEN "returns" ELSE IF u = t THEN "none" ELSE call[u]
        BY <2>1 DEF TypeOK, Calls
    <2>6. \A u \in Tids : kern'[u] \in Ours <=> group'[u] # NoTid
        BY <2>1, <2>3, <2>4 DEF TypeOK, Ours, Alive, Stops, SyscallStops
    <2>7. TypeOK'
        BY <2>1, <2>3, <2>4, <2>5, <2>6 DEF TypeOK, loopVars
    <2>8. HomePart'
        <3>1. SUFFICES ASSUME NEW v \in Tids, group'[v] \notin {NoTid, v}
                       PROVE  group'[group'[v]] = group'[v] /\ flag[group'[v]] # "absent"
            BY <2>1 DEF HomePart, loopVars
        <3>2. v \notin {t, g} /\ group'[v] = group[v] /\ group[v] \in Tids
            BY <2>4, <3>1 DEF TypeOK
        <3>3. group[group[v]] = group[v] /\ flag[group[v]] # "absent"
            BY <3>1, <3>2 DEF HomePart
        <3>4. group[v] = t => t = g
            BY <3>3 DEF g
        <3>5. QED BY <2>4, <3>2, <3>3, <3>4
    <2>9. FlagPart'
        <3>1. flag[t] # "absent" /\ (t \notin turned => flag[t] = "in")
            BY <1>1 DEF FlagPart, InCall
        <3>2. CASE t = g
            BY <2>1, <2>3, <3>1, <3>2 DEF FlagPart, InCall, OutCall, loopVars
        <3>3. CASE t # g
            BY <2>1, <2>2, <2>3, <3>3 DEF FlagPart, InCall, OutCall, loopVars
        <3>4. QED BY <3>2, <3>3
    <2>10. AddressPart'
        BY <2>1, <2>3, <2>5 DEF AddressPart
    <2>11. LoopPart'
        <3>1. loop = "handling" => cur \in Tids /\ cur # t
            BY <1>1 DEF LoopPart, TypeOK, Stops, SyscallStops
        <3>2. QED BY <2>1, <2>3, <3>1 DEF LoopPart, loopVars
    <2>12. LeaderPart'
        BY <1>1, <2>1, <2>3 DEF LeaderPart, InCall, loopVars
    <2>13. QED BY <2>7, <2>8, <2>9, <2>10, <2>11, <2>12
<1>4. QED BY <1>2, <1>3

-----------------------------------------------------------------------------
(* The tracing loop.                                                       *)

(* The initial wait.                                                       *)
LEMMA StartKeeps ==
    ASSUME TracerPart, Start
    PROVE  TracerPart'
<1> USE DEF TracerPart
<1>1. /\ loop = "starting" /\ ~leaderDone /\ (\A t \in Tids : flag[t] = "absent")
      /\ UNCHANGED <<call, want, buf, cur, stop, flag, leaderDone, turned>>
      /\ cur = NoTid
    BY DEF Start, LoopPart, TypeOK
<1>2. \A t \in Tids : group[t] \in {NoTid, t}
    <2>1. \A t \in Tids : group[t] \in Tids \cup {NoTid}
        BY DEF TypeOK
    <2>2. QED BY <1>1, <2>1 DEF HomePart
<1>3. CASE kern[Leader] = "born"
    <2>1. /\ kern' = [kern EXCEPT ![Leader] = "user"] /\ UNCHANGED group /\ loop' = "waiting"
        BY <1>3 DEF Start, Resumed
    <2>2. /\ kern' \in [Tids -> Ours \cup {"free"}]
          /\ \A t \in Tids : kern'[t] = IF t = Leader THEN "user" ELSE kern[t]
        BY <2>1 DEF TypeOK, Ours, Alive
    <2>3. TypeOK'
        BY <1>1, <1>3, <2>1, <2>2 DEF TypeOK, Ours, Alive, Stops
    <2>4. HomePart' /\ FlagPart' /\ LoopPart' /\ LeaderPart'
        BY <1>1, <1>2, <1>3, <2>1, <2>2
           DEF HomePart, FlagPart, LoopPart, LeaderPart, InCall, OutCall
    <2>5. AddressPart'
        BY <1>1, <2>2 DEF AddressPart
    <2>6. QED BY <2>3, <2>4, <2>5
<1>4. CASE kern[Leader] # "born"
    <2>1. /\ kern' = [kern EXCEPT ![Leader] = "free"] /\ loop' = "ended"
          /\ group' = [group EXCEPT ![Leader] = NoTid]
        BY <1>4 DEF Start
    <2>2. /\ kern' \in [Tids -> Ours \cup {"free"}]
          /\ group' \in [Tids -> Tids \cup {NoTid}]
          /\ \A t \in Tids : /\ kern'[t] = IF t = Leader THEN "free" ELSE kern[t]
                             /\ group'[t] = IF t = Leader THEN NoTid ELSE group[t]
        BY <2>1 DEF TypeOK
    <2>3. \A t \in Tids : kern'[t] \in Ours <=> group'[t] # NoTid
        BY <2>2 DEF TypeOK, Ours, Alive, Stops, SyscallStops
    <2>4. TypeOK'
        BY <1>1, <2>1, <2>2, <2>3 DEF TypeOK
    <2>5. HomePart' /\ FlagPart' /\ LoopPart' /\ LeaderPart'
        BY <1>1, <1>2, <2>1, <2>2
           DEF HomePart, FlagPart, LoopPart, LeaderPart, InCall, OutCall
    <2>6. AddressPart'
        BY <1>1, <2>2 DEF AddressPart
    <2>7. QED BY <2>4, <2>5, <2>6
<1>5. QED BY <1>3, <1>4

(* The end of a thread is reported.  That of the leader kills whatever has *)
(* a flag, so that nothing is left inside a call.                          *)
LEMMA ReapKeeps ==
    ASSUME TracerPart, NEW t \in Tids, Reap(t)
    PROVE  TracerPart'
<1> USE DEF TracerPart
<1> DEFINE killed == IF t = Leader THEN Killed(flag') ELSE {}
<1>1. /\ loop = "waiting" /\ kern[t] = "ended" /\ (t = group[t] => Members(t) = {t})
      /\ flag' = [flag EXCEPT ![t] = "absent"]
      /\ kern' = [u \in Tids |-> CASE u = t          -> "free"
                                   [] u \in killed  -> "ended"
                                   [] OTHER         -> kern[u]]
      /\ call' = [u \in Tids |-> IF u \in killed THEN "none" ELSE call[u]]
      /\ want' = [u \in Tids |-> IF u \in killed THEN NoPort ELSE want[u]]
      /\ buf'  = [u \in Tids |-> IF u \in killed THEN NoPort ELSE buf[u]]
      /\ group' = [group EXCEPT ![t] = NoTid]
      /\ leaderDone' = (leaderDone \/ t = Leader)
      /\ turned' = turned \ {t}
      /\ UNCHANGED <<loop, cur, stop>>
    BY DEF Reap, Reapable, Forgotten
<1>2. /\ flag' \in [Tids -> {"absent", "out", "in"}]
      /\ \A u \in Tids : flag'[u] = IF u = t THEN "absent" ELSE flag[u]
    BY <1>1 DEF TypeOK
<1>3. /\ \A u \in killed : u \in Tids /\ kern[u] \in Alive
      /\ t = Leader => \A u \in Tids : flag'[u] # "absent" /\ kern[u] \in Alive => u \in killed
    <2>1. \A u \in Killed(flag') : u \in Tids /\ kern[u] \in Alive
        BY DEF Killed, Living, Members
    <2>2. ASSUME NEW u \in Tids, flag'[u] # "absent", kern[u] \in Alive
          PROVE  u \in Killed(flag')
        <3>1. u \in {v \in Tids : flag'[v] # "absent" /\ kern[v] \in Ours}
            BY <2>2 DEF Ours
        <3>2. u \in Members(group[u])
            BY DEF Members
        <3>3. QED BY <2>2, <3>1, <3>2 DEF Killed, Living
    <2>3. QED BY <2>1, <2>2
<1> HIDE DEF killed
<1>4. /\ kern' \in [Tids -> Ours \cup {"free"}]
      /\ \A u \in Tids : kern'[u] = IF u = t THEN "free" ELSE IF u \in killed THEN "ended" ELSE kern[u]
    <2> DEFINE K(u) == CASE u = t          -> "free"
                         [] u \in killed  -> "ended"
                         [] OTHER         -> kern[u]
    <2>1. \A u \in Tids : K(u) = IF u = t THEN "free" ELSE IF u \in killed THEN "ended" ELSE kern[u]
        <3>1. t \notin killed
            BY <1>1, <1>3 DEF Alive, Stops, SyscallStops
        <3>2. QED BY <3>1
    <2>2. kern' = [u \in Tids |-> K(u)]
        BY <1>1
    <2> HIDE DEF K
    <2>3. \A u \in Tids : K(u) \in Ours \cup {"free"}
        BY <2>1 DEF TypeOK, Ours
    <2>4. QED BY <2>1, <2>2, <2>3
<1>5. /\ group' \in [Tids -> Tids \cup {NoTid}]
      /\ \A u \in Tids : group'[u] = IF u = t THEN NoTid ELSE group[u]
    BY <1>1 DEF TypeOK
<1>6. \A u \in Tids : kern'[u] \in Ours <=> group'[u] # NoTid
    BY <1>3, <1>4, <1>5 DEF TypeOK, Ours, Alive, Stops, SyscallStops
<1>7. /\ call' \in [Tids -> Calls]
      /\ want' \in [Tids -> Mapped \cup Unmapped \cup {NoPort}]
      /\ buf' \in [Tids -> Ports \cup {NoPort}]
      /\ \A u \in Tids : want'[u] = NoPort <=> buf'[u] = NoPort
    BY <1>1 DEF TypeOK, Calls
<1>8. TypeOK'
    BY <1>1, <1>2, <1>4, <1>5, <1>6, <1>7 DEF TypeOK
<1>9. HomePart'
    <2>1. SUFFICES ASSUME NEW v \in Tids, group'[v] \notin {NoTid, v}
                   PROVE  group'[group'[v]] = group'[v] /\ flag'[group'[v]] # "absent"
        BY DEF HomePart
    <2>2. v # t /\ group'[v] = group[v] /\ group[v] \in Tids
        BY <1>5, <2>1 DEF TypeOK
    <2>3. group[group[v]] = group[v] /\ flag[group[v]] # "absent"
        BY <2>1, <2>2 DEF HomePart
    <2>4. group[v] # t
        BY <1>1, <2>2, <2>3 DEF Members
    <2>5. QED BY <1>2, <1>5, <2>2, <2>3, <2>4
<1>10. FlagPart'
    BY <1>1, <1>2, <1>3, <1>4 DEF FlagPart, InCall, OutCall
<1>11. AddressPart'
    BY <1>1, <1>3, <1>4 DEF AddressPart
<1>12. LoopPart'
    BY <1>1, <1>2 DEF LoopPart
<1>13. LeaderPart'
    <2>1. SUFFICES ASSUME leaderDone \/ t = Leader, NEW u \in Tids
                   PROVE  kern'[u] \notin InCall
        BY <1>1 DEF LeaderPart
    <2>2. CASE kern[u] \in InCall /\ u # t
        <3>1. flag'[u] # "absent" /\ kern[u] \in Alive /\ t = Leader
            BY <1>2, <2>1, <2>2 DEF FlagPart, LeaderPart, InCall, Alive, Stops, SyscallStops
        <3>2. QED BY <1>3, <1>4, <2>2, <3>1 DEF InCall
    <2>3. CASE kern[u] \notin InCall \/ u = t
        BY <1>4, <2>3 DEF InCall
    <2>4. QED BY <2>2, <2>3
<1>14. QED BY <1>8, <1>9, <1>10, <1>11, <1>12, <1>13

(* PtraceSyscall.                                                          *)
LEMMA ResumeFacts ==
    ASSUME TracerPart, cur \in Tids, Resume(cur), UNCHANGED group
    PROVE  /\ kern' \in [Tids -> Ours \cup {"free"}]
           /\ \A t \in Tids : kern'[t] = IF t = cur THEN Resumed(kern[t]) ELSE kern[t]
           /\ \A t \in Tids : kern'[t] \in Ours <=> group'[t] # NoTid
           /\ call' \in [Tids -> Calls]
           /\ \A t \in Tids : call'[t] \in {call[t], "none"}
           /\ kern[cur] # "exit" => call' = call
<1> USE DEF TracerPart
<1>1. kern[cur] \in Ours \cup {"free"}
    BY DEF TypeOK
<1>2. /\ Resumed(kern[cur]) \in Ours \cup {"free"}
      /\ Resumed(kern[cur]) \in Ours <=> kern[cur] \in Ours
    BY <1>1 DEF Resumed, Ours, Alive, Stops, SyscallStops
<1>3. kern' = [kern EXCEPT ![cur] = Resumed(kern[cur])]
    BY DEF Resume
<1>4. /\ kern' \in [Tids -> Ours \cup {"free"}]
      /\ \A t \in Tids : kern'[t] = IF t = cur THEN Resumed(kern[t]) ELSE kern[t]
    BY <1>2, <1>3 DEF TypeOK
<1>5. \A t \in Tids : kern'[t] \in Ours <=> group'[t] # NoTid
    BY <1>2, <1>4 DEF TypeOK
<1>6. call' = [call EXCEPT ![cur] = IF kern[cur] = "exit" THEN "none" ELSE call[cur]]
    BY DEF Resume
<1>7. /\ call' \in [Tids -> Calls]
      /\ \A t \in Tids : call'[t] \in {call[t], "none"}
      /\ kern[cur] # "exit" => call' = call
    BY <1>6 DEF TypeOK, Calls
<1>8. QED BY <1>4, <1>5, <1>7

(* A stop is dealt with.                                                   *)
LEMMA HandleKeeps ==
    ASSUME TracerPart, Handle
    PROVE  TracerPart'
<1> USE DEF TracerPart
<1>1. /\ loop = "handling" /\ cur \in Tids /\ stop \in Stops
      /\ kern[cur] \in {stop, "ended"} \/ (cur \in turned /\ kern[cur] = "event")
      /\ loop' = "waiting" /\ cur' = NoTid /\ stop' = "none"
      /\ UNCHANGED <<group, want, leaderDone, turned>> \/ leaderDone
    BY DEF Handle, Kill, SyscallStop, OtherStop, Handled, TypeOK, LoopPart
<1>2. CASE Kill
    <2>1. leaderDone /\ UNCHANGED <<group, flag, leaderDone, turned>>
        BY <1>2 DEF Kill
    <2>2. CASE kern[cur] \in Stops \ {"event"}
        <3>1. /\ Living(Members(group[cur])) \in SUBSET Tids
              /\ \A u \in Living(Members(group[cur])) : kern[u] \in Alive
            BY DEF Living, Members
        <3>2. End(Living(Members(group[cur])))
            BY <1>2, <2>2 DEF Kill
        <3>3. /\ kern' \in [Tids -> Ours \cup {"free"}]
              /\ \A t \in Tids : kern'[t] \in Ours <=> group'[t] # NoTid
              /\ call' \in [Tids -> Calls]
              /\ want' \in [Tids -> Mapped \cup Unmapped \cup {NoPort}]
              /\ buf' \in [Tids -> Ports \cup {NoPort}]
              /\ \A t \in Tids : want'[t] = NoPort <=> buf'[t] = NoPort
              /\ HomePart' /\ FlagPart' /\ AddressPart' /\ LeaderPart'
            BY <2>1, <3>1, <3>2, EndKeeps
        <3>4. TypeOK' /\ LoopPart'
            BY <1>1, <2>1, <3>3 DEF TypeOK, LoopPart
        <3>5. QED BY <3>3, <3>4
    <2>3. CASE kern[cur] \notin Stops \ {"event"}
        <3>1. Resume(cur) /\ UNCHANGED <<want, buf>>
            BY <1>2, <2>3 DEF Kill
        <3>2. kern[cur] = "ended"
            BY <1>1, <2>1, <2>3 DEF LeaderPart, InCall
        <3>3. Resumed(kern[cur]) = kern[cur] /\ kern[cur] # "exit"
            BY <3>2 DEF Resumed
        <3>4. kern' = kern /\ call' = call
            BY <3>1, <3>3, <1>1 DEF Resume, TypeOK
        <3>5. QED BY <1>1, <2>1, <3>1, <3>4
                DEF TypeOK, HomePart, FlagPart, AddressPart, LoopPart, LeaderPart
    <2>4. QED BY <2>2, <2>3
<1>3. CASE SyscallStop
    <2>1. /\ ~leaderDone /\ stop \in SyscallStops
          /\ UNCHANGED <<group, want, leaderDone, turned>>
          /\ flag' = [flag EXCEPT ![cur] = IF flag[cur] = "in" THEN "out" ELSE "in"]
          /\ buf' = IF Rewrites(cur) THEN [buf EXCEPT ![cur] = Bound(buf[cur])] ELSE buf
          /\ Resume(cur)
        BY <1>3 DEF SyscallStop, Turned
    <2>2. /\ flag' \in [Tids -> {"absent", "out", "in"}]
          /\ \A t \in Tids : flag'[t] = IF t # cur THEN flag[t]
                                      ELSE IF flag[cur] = "in" THEN "out" ELSE "in"
        BY <1>1, <2>1 DEF TypeOK
    <2>3. /\ buf' \in [Tids -> Ports \cup {NoPort}]
          /\ \A t \in Tids : buf'[t] = IF t = cur /\ Rewrites(cur) THEN Bound(buf[t]) ELSE buf[t]
        <3>1. Bound(buf[cur]) \in Ports \cup {NoPort}
            BY <1>1, BoundFacts DEF TypeOK
        <3>2. QED BY <1>1, <2>1, <3>1 DEF TypeOK
    <2>4. \A t \in Tids : want[t] \in Ports \cup {NoPort} /\ buf[t] \in Ports \cup {NoPort}
        BY DEF TypeOK, Ports
    <2>5. \A t \in Tids : want'[t] = NoPort <=> buf'[t] = NoPort
        BY <2>1, <2>3, <2>4, BoundFacts DEF TypeOK
    <2>6. /\ kern' \in [Tids -> Ours \cup {"free"}]
          /\ \A t \in Tids : kern'[t] = IF t = cur THEN Resumed(kern[t]) ELSE kern[t]
          /\ \A t \in Tids : kern'[t] \in Ours <=> group'[t] # NoTid
          /\ call' \in [Tids -> Calls]
          /\ \A t \in Tids : call'[t] \in {call[t], "none"}
          /\ kern[cur] # "exit" => call' = call
        BY <1>1, <2>1, ResumeFacts
    <2>7. TypeOK'
        BY <1>1, <2>1, <2>2, <2>3, <2>5, <2>6 DEF TypeOK
    <2>8. HomePart'
        BY <2>1, <2>2 DEF HomePart, TypeOK
    <2>9. FlagPart'
        BY <1>1, <2>1, <2>2, <2>6
           DEF FlagPart, InCall, OutCall, Resumed, SyscallStops
    <2>10. AddressPart'
        <3>1. SUFFICES ASSUME NEW t \in Tids
                       PROVE  /\ buf'[t] \in {want[t], Bound(want[t])}
                              /\ t \notin turned =>
                                    /\ kern'[t] = "event" => call'[t] = "returns"
                                    /\ kern'[t] = "inside" /\ call'[t] = "bind"
                                          => buf'[t] = Bound(want[t])
            BY <2>1 DEF AddressPart
        <3>2. Bound(buf[t]) \in {Bound(want[t])}
            BY <2>4, BoundFacts DEF AddressPart
        <3>3. CASE t # cur
            <4>1. kern'[t] = kern[t] /\ buf'[t] = buf[t] /\ call'[t] = call[t]
                BY <2>1, <2>3, <2>6, <3>3 DEF Resume, TypeOK
            <4>2. QED BY <4>1 DEF AddressPart
        <3>4. CASE t = cur
            <4>1. buf'[t] \in {want[t], Bound(want[t])}
                BY <2>3, <3>2 DEF AddressPart
            <4>2. ASSUME t \notin turned
                  PROVE  kern'[t] # "event"
                BY <1>1, <2>1, <2>6, <3>4, <4>2 DEF Resumed, SyscallStops
            <4>3. ASSUME t \notin turned, kern'[t] = "inside", call'[t] = "bind"
                  PROVE  buf'[t] = Bound(want[t])
                <5>1. kern[t] = "entry"
                    BY <1>1, <2>1, <2>6, <3>4, <4>3 DEF Resumed, SyscallStops
                <5>2. flag[t] # "in" /\ call[t] = "bind"
                    BY <2>6, <3>4, <4>3, <5>1 DEF FlagPart, OutCall
                <5>3. Rewrites(t)
                    BY <5>1, <5>2 DEF Rewrites, Stops, SyscallStops
                <5>4. QED BY <2>3, <3>2, <3>4, <5>3
            <4>4. QED BY <4>1, <4>2, <4>3
        <3>5. QED BY <3>3, <3>4
    <2>11. LoopPart' /\ LeaderPart'
        BY <1>1, <2>1 DEF LoopPart, LeaderPart
    <2>12. QED BY <2>7, <2>8, <2>9, <2>10, <2>11
<1>4. CASE OtherStop
    <2>1. /\ ~leaderDone /\ stop \notin SyscallStops
          /\ UNCHANGED <<group, want, buf, flag, leaderDone, turned>> /\ Resume(cur)
        BY <1>4 DEF OtherStop
    <2>2. /\ kern' \in [Tids -> Ours \cup {"free"}]
          /\ \A t \in Tids : kern'[t] = IF t = cur THEN Resumed(kern[t]) ELSE kern[t]
          /\ \A t \in Tids : kern'[t] \in Ours <=> group'[t] # NoTid
          /\ call' \in [Tids -> Calls]
          /\ \A t \in Tids : call'[t] \in {call[t], "none"}
          /\ kern[cur] # "exit" => call' = call
        BY <1>1, <2>1, ResumeFacts
    <2>3. kern[cur] \in {"born", "event", "signal", "ended"}
        BY <1>1, <2>1 DEF Stops
    <2>4. TypeOK' /\ HomePart'
        BY <1>1, <2>1, <2>2 DEF TypeOK, HomePart
    <2>5. FlagPart'
        BY <2>1, <2>2, <2>3 DEF FlagPart, InCall, OutCall, Resumed
    <2>6. AddressPart'
        BY <2>1, <2>2, <2>3 DEF AddressPart, Resumed
    <2>7. LoopPart' /\ LeaderPart'
        BY <1>1, <2>1 DEF LoopPart, LeaderPart
    <2>8. QED BY <2>4, <2>5, <2>6, <2>7
<1>5. QED BY <1>2, <1>3, <1>4 DEF Handle

(* Every step.                                                             *)
LEMMA TracerKeeps ==
    ASSUME TracerPart, [Next]_vars
    PROVE  TracerPart'
<1> USE DEF TracerPart
<1>1. ASSUME NEW t \in Tids, WaitStop(t) PROVE TracerPart'
    <2>1. /\ kern[t] \in Stops /\ loop' = "handling" /\ cur' = t /\ stop' = kern[t]
          /\ UNCHANGED <<kernelVars, flag, leaderDone, turned>> /\ loop = "waiting"
        BY <1>1 DEF WaitStop
    <2>2. QED BY <2>1 DEF TypeOK, HomePart, FlagPart, AddressPart, LoopPart, LeaderPart, kernelVars
<1>2. CASE Return
    BY <1>2 DEF Return, TypeOK, HomePart, FlagPart, AddressPart, LoopPart, LeaderPart, kernelVars
<1>3. ASSUME NEW t \in Tids, ProgramStep(t) PROVE TracerPart'
    BY <1>3, ThreadKeeps, EndingKeeps, SpawnKeeps, ExecKeeps DEF ProgramStep
<1>4. CASE UNCHANGED vars
    BY <1>4 DEF vars, kernelVars, loopVars, TypeOK, HomePart, FlagPart, AddressPart, LoopPart,
                LeaderPart
<1>5. QED BY <1>1, <1>2, <1>3, <1>4, StartKeeps, ReapKeeps, HandleKeeps DEF Next, TracerStep

-----------------------------------------------------------------------------
(* The invariant the theorems below follow from.                           *)
LEMMA TracerInvariant == SafeSpec => []TracerPart
<1>1. QED BY TracerInitially, TracerKeeps, PTL DEF SafeSpec

(* In particular no reused number and no killed thread confuses the loop   *)
(* about which threads there are and which one it deals with.              *)
THEOREM TracerTyped == SafeSpec => []TypeOK
<1>1. TracerPart => TypeOK
    BY DEF TracerPart
<1>2. QED BY <1>1, TracerInvariant, PTL

(* Each bind the kernel carries out has the port it is to have.            *)
THEOREM BindsTakeEffect == SafeSpec => []BindsRewritten
<1>1. TracerPart => BindsRewritten
    BY DEF TracerPart, AddressPart, BindsRewritten, Bound
<1>2. QED BY <1>1, TracerInvariant, PTL

(* The loop keeps a flag for threads that have not been reaped, and so     *)
(* kills no stranger.                                                      *)
THEOREM NoStrangerIsKilled == SafeSpec => []KnowsOnlyTracees
<1>1. TracerPart => KnowsOnlyTracees
    BY DEF TracerPart, FlagPart, TypeOK, KnowsOnlyTracees
<1>2. QED BY <1>1, TracerInvariant, PTL

(* After the leader's end the loop lets nothing run again.                 *)
THEOREM NothingIsResumed == SafeSpec => NothingRunsOn
<1>1. ASSUME TracerPart, [Next]_vars, leaderDone, NEW t \in Tids, kern[t] \in Stops
      PROVE  kern'[t] \notin {"user", "inside"}
    <2> USE DEF TracerPart
    <2>1. kern[t] \in Stops /\ kern[t] \notin {"user", "inside", "free", "ended", "event"}
        BY <1>1 DEF LeaderPart, InCall, Stops, SyscallStops
    <2>2. CASE Kill
        <3>1. CASE kern[cur] \in Stops \ {"event"}
            <4>1. kern' = [u \in Tids |-> IF u \in Living(Members(group[cur]))
                                         THEN "ended" ELSE kern[u]]
                BY <2>2, <3>1 DEF Kill, End
            <4>2. QED BY <2>1, <4>1
        <3>2. CASE kern[cur] \notin Stops \ {"event"}
            <4>1. cur # t /\ kern' = [kern EXCEPT ![cur] = Resumed(@)]
                BY <2>1, <2>2, <3>2 DEF Kill, Resume
            <4>2. QED BY <2>1, <4>1 DEF TypeOK
        <3>3. QED BY <3>1, <3>2
    <2>3. ~Start /\ ~SyscallStop /\ ~OtherStop
        BY <1>1 DEF Start, SyscallStop, OtherStop, LoopPart
    <2>4. ASSUME NEW u \in Tids, Reap(u) \/ WaitStop(u) PROVE kern'[t] \notin {"user", "inside"}
        BY <2>1, <2>4 DEF Reap, WaitStop, kernelVars
    <2>5. ASSUME NEW u \in Tids, Enter(u) \/ Leave(u) \/ Signal(u)
          PROVE  kern'[t] \notin {"user", "inside"}
        <3>1. kern[u] \in {"user", "inside"} /\ t # u
            BY <2>1, <2>5 DEF Enter, Leave, Signal
        <3>2. \E s : kern' = [kern EXCEPT ![u] = s]
            BY <2>5 DEF Enter, Leave, Signal
        <3>3. kern \in [Tids -> Ours \cup {"free"}]
            BY <1>1 DEF TypeOK
        <3>4. kern'[t] = kern[t]
            BY <3>1, <3>2, <3>3
        <3>5. QED BY <2>1, <3>4
    <2>6. ASSUME NEW u \in Tids PROVE kern[u] # "inside"
        BY <1>1 DEF LeaderPart, InCall
    <2>7. ASSUME NEW u \in Tids, ProgramStep(u) PROVE kern'[t] \notin {"user", "inside"}
        <3>1. EndProcess(u) => kern'[t] \in {"ended", kern[t]}
            BY DEF EndProcess, End
        <3>2. QED BY <2>1, <2>5, <2>6, <2>7, <3>1 DEF ProgramStep, Spawn, EndThread, BeginExec, Exec
    <2>8. CASE Return \/ UNCHANGED vars
        BY <2>1, <2>8 DEF Return, vars, kernelVars
    <2>9. QED BY <1>1, <2>2, <2>3, <2>4, <2>7, <2>8 DEF Next, TracerStep, Handle
<1>2. TracerPart /\ [Next]_vars =>
        [leaderDone => \A t \in Tids : kern[t] \in Stops => kern'[t] \notin {"user", "inside"}]_vars
    BY <1>1
<1>3. QED BY <1>2, TracerInvariant, PTL DEF SafeSpec, NothingRunsOn
=============================================================================
