-------------------------------- MODULE Tracer ------------------------------
(***************************************************************************)
(* internal/portswap/tracer_linux.go: devlb exec runs a command under      *)
(* ptrace and rewrites the port of each bind on its way into the kernel.   *)
(*                                                                         *)
(* The tracer is one thread: wait until some traced thread stops or ends,  *)
(* deal with that, wait again.  A system call stop does not say whether    *)
(* the thread enters or leaves the call, so the loop keeps a flag per      *)
(* thread number.  The kernel and the traced program are the environment:  *)
(* threads start, call, fork, exec and end at any moment, also while the   *)
(* tracer is dealing with one of their stops, and a number that is free is *)
(* used again.                                                             *)
(***************************************************************************)
EXTENDS FiniteSets

CONSTANTS
    Tids,       \* thread numbers; a process has the number of its first thread
    Leader,     \* the process Run starts
    Binders,    \* threads that bind ports
    Signalled,  \* threads that get signals
    NoTid,
    PortMap,    \* listen port -> replacement
    Unmapped,   \* other ports the program may bind
    NoPort

ASSUME TidsAssumption == Leader \in Tids /\ NoTid \notin Tids
(* A replacement is not replaced in turn: the daemon holds the listen      *)
(* ports, so none of them is allocated as a backend port.                  *)
ASSUME PortsAssumption ==
    /\ NoPort \notin Unmapped \cup DOMAIN PortMap
    /\ DOMAIN PortMap \cap Unmapped = {}
    /\ \A p \in DOMAIN PortMap : PortMap[p] \notin DOMAIN PortMap \cup {NoPort}

VARIABLES
    kern,       \* thread number -> where the kernel has the thread
    group,      \* thread number -> its process
    call,       \* the system call it last entered
    want,       \* the port the program means to bind
    buf,        \* the port in the address it passes
    loop,       \* the tracer: "starting", "waiting", "handling", "ended"
    cur, stop,  \* the thread it deals with, and the stop Wait4 reported
    flag,       \* threadInSyscall
    leaderDone, \* leaderResult is set
    turned      \* history: numbers whose flag an exec made wrong

kernelVars == <<kern, group, call, want, buf>>
loopVars   == <<loop, cur, stop, flag, leaderDone>>
vars == <<kernelVars, loopVars, turned>>

Mapped == DOMAIN PortMap
(* The port a bind is to take effect on; and a lookup that is not checked, *)
(* which yields zero.                                                      *)
BoundUnchecked(p) == IF p \in Mapped THEN PortMap[p] ELSE NoPort

Bound(p) == IF p \in Mapped THEN PortMap[p] ELSE p
Ports == Mapped \cup Unmapped \cup {PortMap[p] : p \in Mapped}

SyscallStops == {"entry", "exit"}
Stops   == SyscallStops \cup {"born", "event", "signal"}
Alive   == Stops \cup {"user", "inside"}
Ours    == Alive \cup {"ended"}
Calls   == {"none", "bind", "other", "exec", "returns"}

TypeOK ==
    /\ kern \in [Tids -> Ours \cup {"free"}]
    /\ group \in [Tids -> Tids \cup {NoTid}]
    /\ \A t \in Tids : kern[t] \in Ours <=> group[t] # NoTid
    /\ call \in [Tids -> Calls]
    /\ want \in [Tids -> Mapped \cup Unmapped \cup {NoPort}]
    /\ buf \in [Tids -> Ports \cup {NoPort}]
    /\ loop \in {"starting", "waiting", "handling", "ended"}
    /\ \A t \in Tids : want[t] = NoPort <=> buf[t] = NoPort
    /\ cur \in Tids \cup {NoTid} /\ stop \in Stops \cup {"none"}
    /\ loop = "handling" <=> cur # NoTid
    /\ flag \in [Tids -> {"absent", "out", "in"}]
    /\ leaderDone \in BOOLEAN
    /\ turned \subseteq Tids

(* ForkExec has returned: the child stops at its exec.                     *)
Init ==
    /\ kern = [t \in Tids |-> IF t = Leader THEN "born" ELSE "free"]
    /\ group = [t \in Tids |-> IF t = Leader THEN Leader ELSE NoTid]
    /\ call = [t \in Tids |-> "none"]
    /\ want = [t \in Tids |-> NoPort] /\ buf = [t \in Tids |-> NoPort]
    /\ loop = "starting" /\ cur = NoTid /\ stop = "none"
    /\ flag = [t \in Tids |-> "absent"]
    /\ leaderDone = FALSE
    /\ turned = {}

-----------------------------------------------------------------------------
(* The kernel and the traced program.                                      *)
Members(g) == {t \in Tids : group[t] = g}

(* A program enters a call; to bind again at once it may pass the address  *)
(* it has.                                                                 *)
Enter(t) ==
    /\ kern[t] = "user"
    /\ kern' = [kern EXCEPT ![t] = "entry"]
    /\ \/ /\ call' = [call EXCEPT ![t] = "other"]
          /\ want' = [want EXCEPT ![t] = NoPort] /\ buf' = [buf EXCEPT ![t] = NoPort]
       \/ /\ t \in Binders
          /\ call' = [call EXCEPT ![t] = "bind"]
          /\ \/ \E p \in Mapped \cup Unmapped :
                   want' = [want EXCEPT ![t] = p] /\ buf' = [buf EXCEPT ![t] = p]
             \/ want[t] # NoPort /\ UNCHANGED <<want, buf>>
    /\ UNCHANGED <<group, loopVars, turned>>

Leave(t) ==
    /\ kern[t] = "inside" /\ call[t] # "exec"
    /\ kern' = [kern EXCEPT ![t] = "exit"]
    /\ UNCHANGED <<group, call, want, buf, loopVars, turned>>

(* A signal, whoever sent it; Run forwards those that ask it to end.       *)
Signal(t) ==
    /\ t \in Signalled
    /\ kern[t] = "user"
    /\ kern' = [kern EXCEPT ![t] = "signal"]
    /\ UNCHANGED <<group, call, want, buf, loopVars, turned>>

(* clone, fork or vfork: the caller stops inside the call, the new thread  *)
(* or process before its first instruction.                                *)
Spawn(t, u, g) ==
    /\ kern[t] = "inside" /\ call[t] = "other"
    /\ kern[u] = "free"
    /\ g \in {group[t], u}
    /\ kern' = [kern EXCEPT ![t] = "event", ![u] = "born"]
    /\ group' = [group EXCEPT ![u] = g]
    /\ call' = [call EXCEPT ![t] = "returns"]
    /\ UNCHANGED <<want, buf, loopVars, turned>>

(* Threads that end, by themselves or with their process.                  *)
End(dying) ==
    /\ kern' = [t \in Tids |-> IF t \in dying THEN "ended" ELSE kern[t]]
    /\ call' = [t \in Tids |-> IF t \in dying THEN "none" ELSE call[t]]
    /\ want' = [t \in Tids |-> IF t \in dying THEN NoPort ELSE want[t]]
    /\ buf'  = [t \in Tids |-> IF t \in dying THEN NoPort ELSE buf[t]]
Living(tids) == {t \in tids : kern[t] \in Alive}

EndThread(t) ==
    /\ kern[t] = "inside" /\ call[t] = "other"
    /\ End({t})
    /\ UNCHANGED <<group, loopVars, turned>>

EndProcess(g) ==
    /\ Living(Members(g)) # {}
    /\ End(Living(Members(g)))
    /\ UNCHANGED <<group, loopVars, turned>>

(* exec ends the process's other threads, waits until they are reaped, and *)
(* goes on under the first thread's number, whose end is never reported.   *)
BeginExec(t) ==
    /\ kern[t] = "inside" /\ call[t] = "other"
    /\ LET others == Living(Members(group[t]) \ {t})
       IN  /\ kern' = [u \in Tids |-> IF u \in others THEN "ended" ELSE kern[u]]
           /\ call' = [u \in Tids |-> IF u = t THEN "exec" ELSE IF u \in others THEN "none" ELSE call[u]]
           /\ want' = [u \in Tids |-> IF u \in others \cup {t} THEN NoPort ELSE want[u]]
           /\ buf' = [u \in Tids |-> IF u \in others \cup {t} THEN NoPort ELSE buf[u]]
    /\ UNCHANGED <<group, loopVars, turned>>

Exec(t) ==
    LET g == group[t]
    IN  /\ kern[t] = "inside" /\ call[t] = "exec"
        /\ Members(g) \subseteq {t, g}
        /\ kern' = [kern EXCEPT ![t] = "free", ![g] = "event"]
        /\ group' = [group EXCEPT ![t] = NoTid, ![g] = g]
        /\ call' = [call EXCEPT ![t] = "none", ![g] = "returns"]
        /\ turned' = IF t = g THEN turned ELSE turned \cup {t, g}
        /\ UNCHANGED <<want, buf, loopVars>>

-----------------------------------------------------------------------------
(* What PtraceSyscall does to a thread in each kind of stop; to any other  *)
(* it does nothing.                                                        *)
Resumed(k) ==
    CASE k \in {"entry", "event"}          -> "inside"
      [] k \in {"exit", "born", "signal"}  -> "user"
      [] OTHER                             -> k

Resume(t) ==
    /\ kern' = [kern EXCEPT ![t] = Resumed(@)]
    /\ call' = [call EXCEPT ![t] = IF kern[t] = "exit" THEN "none" ELSE @]

(* The initial Wait4, the options, the first PtraceSyscall; they fail when *)
(* the child was killed before.                                            *)
Start ==
    /\ loop = "starting"
    /\ IF kern[Leader] = "born"
       THEN /\ kern' = [kern EXCEPT ![Leader] = Resumed(@)]
            /\ loop' = "waiting"
            /\ UNCHANGED group
       ELSE /\ kern' = [kern EXCEPT ![Leader] = "free"]
            /\ group' = [group EXCEPT ![Leader] = NoTid]
            /\ loop' = "ended"
    /\ UNCHANGED <<call, want, buf, cur, stop, flag, leaderDone, turned>>

(* Wait4 reports the end of a thread; that of a process's first thread     *)
(* once the others are gone.                                               *)
Reapable(t) ==
    /\ kern[t] = "ended"
    /\ t = group[t] => Members(t) = {t}

(* When the leader has ended, every number that has a flag is killed, with *)
(* the process it is of.                                                   *)
KilledNone(flags) == {}

Killed(flags) ==
    LET known == {u \in Tids : flags[u] # "absent" /\ kern[u] \in Ours}
    IN  Living(UNION {Members(group[u]) : u \in known})

(* The flag is deleted; and one that is not.                               *)
ForgottenLate(t) == flag

Forgotten(t) == [flag EXCEPT ![t] = "absent"]

Reap(t) ==
    /\ loop = "waiting"
    /\ Reapable(t)
    /\ flag' = Forgotten(t)
    /\ LET killed == IF t = Leader THEN Killed(flag') ELSE {}
       IN  /\ kern' = [u \in Tids |-> CASE u = t          -> "free"
                                        [] u \in killed  -> "ended"
                                        [] OTHER         -> kern[u]]
           /\ call' = [u \in Tids |-> IF u \in killed THEN "none" ELSE call[u]]
           /\ want' = [u \in Tids |-> IF u \in killed THEN NoPort ELSE want[u]]
           /\ buf'  = [u \in Tids |-> IF u \in killed THEN NoPort ELSE buf[u]]
    /\ group' = [group EXCEPT ![t] = NoTid]
    /\ leaderDone' = (leaderDone \/ t = Leader)
    /\ turned' = turned \ {t}
    /\ UNCHANGED <<loop, cur, stop>>

WaitStop(t) ==
    /\ loop = "waiting"
    /\ kern[t] \in Stops
    /\ loop' = "handling" /\ cur' = t /\ stop' = kern[t]
    /\ UNCHANGED <<kernelVars, flag, leaderDone, turned>>

Handled == loop' = "waiting" /\ cur' = NoTid /\ stop' = "none"

(* After the leader's end: continue it with SIGKILL, which the stop inside *)
(* a clone, fork or exec does not take; and without it.                    *)
KillUnsent ==
    /\ loop = "handling" /\ leaderDone
    /\ Resume(cur)
    /\ Handled
    /\ UNCHANGED <<group, want, buf, flag, leaderDone, turned>>

Kill ==
    /\ loop = "handling" /\ leaderDone
    /\ IF kern[cur] \in Stops \ {"event"}
       THEN End(Living(Members(group[cur])))
       ELSE Resume(cur) /\ UNCHANGED <<want, buf>>
    /\ Handled
    /\ UNCHANGED <<group, flag, leaderDone, turned>>

(* handleSyscallEnter, when the flag says that the thread is on its way    *)
(* in.  The flag is turned also when the thread is gone and the calls fail.*)
Rewrites(t) ==
    /\ flag[t] # "in"
    /\ kern[t] \in Stops
    /\ call[t] = "bind"

Turned(t) == [flag EXCEPT ![t] = IF @ = "in" THEN "out" ELSE "in"]

SyscallStop ==
    /\ loop = "handling" /\ ~leaderDone
    /\ stop \in SyscallStops
    /\ buf' = IF Rewrites(cur) THEN [buf EXCEPT ![cur] = Bound(@)] ELSE buf
    /\ flag' = Turned(cur)
    /\ Resume(cur)
    /\ Handled
    /\ UNCHANGED <<group, want, leaderDone, turned>>

(* Events, SIGSTOP of a new thread, other signals; and a loop that takes   *)
(* every stop for one of a system call.                                    *)
OtherStopTurning ==
    /\ loop = "handling" /\ ~leaderDone
    /\ stop \notin SyscallStops
    /\ flag' = Turned(cur)
    /\ Resume(cur)
    /\ Handled
    /\ UNCHANGED <<group, want, buf, leaderDone, turned>>

OtherStop ==
    /\ loop = "handling" /\ ~leaderDone
    /\ stop \notin SyscallStops
    /\ Resume(cur)
    /\ Handled
    /\ UNCHANGED <<group, want, buf, flag, leaderDone, turned>>

(* ECHILD: nothing is left to wait for.                                    *)
Return ==
    /\ loop = "waiting"
    /\ \A t \in Tids : kern[t] \notin Ours
    /\ loop' = "ended"
    /\ UNCHANGED <<kernelVars, cur, stop, flag, leaderDone, turned>>

Handle == Kill \/ SyscallStop \/ OtherStop

TracerStep ==
    \/ Start \/ Handle \/ Return
    \/ \E t \in Tids : Reap(t) \/ WaitStop(t)

ProgramStep(t) ==
    \/ Enter(t) \/ Leave(t) \/ Signal(t)
    \/ \E u \in Tids, g \in Tids : Spawn(t, u, g)
    \/ EndThread(t) \/ EndProcess(t)
    \/ BeginExec(t) \/ Exec(t)

Next == TracerStep \/ \E t \in Tids : ProgramStep(t)

(* The tracer goes on.  Wait4 does not pass over the leader's end for ever *)
(* while others stop.  A thread that computes makes a system call some day.*)
Fairness ==
    /\ WF_vars(TracerStep)
    /\ SF_vars(Reap(Leader))
    /\ \A t \in Tids : WF_vars(Enter(t))

SafeSpec == Init /\ [][Next]_vars
Spec     == SafeSpec /\ Fairness
-----------------------------------------------------------------------------
(* A bind that the kernel carries out has the port it is to have: the      *)
(* replacement of a mapped port, no other port changed, once only when it  *)
(* is repeated with the address already rewritten.  For every thread but   *)
(* those whose number an exec by another than the first thread has left    *)
(* with a flag of its predecessor.                                         *)
BindsRewritten ==
    \A t \in Tids \ turned :
        kern[t] = "inside" /\ call[t] = "bind" =>
            buf[t] = IF want[t] \in Mapped THEN PortMap[want[t]] ELSE want[t]

(* The numbers with a flag, which get SIGKILL when the leader ends, are of *)
(* threads that have not been reaped; a number that has may be a           *)
(* stranger's.  With the same exception.                                   *)
KnowsOnlyTracees ==
    \A t \in Tids : flag[t] # "absent" => kern[t] \in Ours \/ t \in turned

(* After the leader's end no thread that stops is let run again: none is   *)
(* then in a stop that swallows the SIGKILL.                               *)
NothingRunsOn ==
    [][leaderDone => \A t \in Tids : kern[t] \in Stops => kern'[t] \notin {"user", "inside"}]_vars

(* Once the leader has ended, with all its threads, Run returns, whatever  *)
(* processes it leaves behind.                                             *)
RunReturns == loop = "waiting" /\ Reapable(Leader) ~> loop = "ended"
=============================================================================
