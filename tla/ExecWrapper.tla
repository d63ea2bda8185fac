----------------------------- MODULE ExecWrapper ----------------------------
(***************************************************************************)
(* internal/exec/wrapper.go and cmd/devlb/cmd/exec.go: a wrapper is a      *)
(* client of the registry.  It asks for a backend port for each listen     *)
(* port, registers them one by one, runs its command and unregisters them. *)
(* Its requests are carried out by Registry's handlers, one handler for    *)
(* each wrapper's connection, which go on when the wrapper is killed.      *)
(*                                                                         *)
(* A wrapper is named by its process; its command, which it traces, lives  *)
(* no longer than it does.                                                 *)
(***************************************************************************)
EXTENDS Registry

CONSTANTS
    Wants,      \* wrapper -> the listen ports on its command line
    Given       \* wrapper -> the backend ports the user chose, or NoPort

Wrappers == Handlers

ASSUME WrappersAssumption ==
    /\ Handlers \subseteq Pids
    /\ Mortal \cap Handlers = {}
    /\ {"register", "unregister"} \subseteq Ops
    /\ Wants \in [Wrappers -> SUBSET ListenPorts]
    /\ Given \in [Wrappers -> [ListenPorts -> Ports \cup {NoPort}]]
    /\ \A w \in Wrappers, p \in Ports : \E r \in Requests : r.port = p /\ r.pid = w

VARIABLES
    run,        \* where each wrapper is
    backend,    \* its portMap: listen port -> backend port
    left,       \* the listen ports its present loop has still to do
    bound       \* backend port -> the wrapper whose command has bound it

wrapperVars == <<run, backend, left, bound>>
allVars == <<vars, wrapperVars>>

Stages == {"new", "allocating", "registering", "running", "leaving", "ended"}

(* The types, the registry's included; a command runs when nothing is left *)
(* to register, and a wrapper has ended when its process has.              *)
WTypeOK ==
    /\ TypeOK
    /\ run \in [Wrappers -> Stages]
    /\ backend \in [Wrappers -> [ListenPorts -> Ports \cup {NoPort}]]
    /\ left \in [Wrappers -> SUBSET ListenPorts]
    /\ bound \in [Ports -> Wrappers \cup {NoPid}]
    /\ \A w \in Wrappers :
          /\ run[w] \in {"new", "running", "ended"} => left[w] = {}
          /\ run[w] = "ended" <=> w \notin alive

WInit ==
    /\ Init
    /\ run = [w \in Wrappers |-> "new"]
    /\ backend = [w \in Wrappers |-> [l \in ListenPorts |-> NoPort]]
    /\ left = [w \in Wrappers |-> {}]
    /\ bound = [p \in Ports |-> NoPid]

-----------------------------------------------------------------------------
To(w, stage, todoNow) ==
    /\ run' = [run EXCEPT ![w] = stage]
    /\ left' = [left EXCEPT ![w] = todoNow]

(* Without a daemon the command is not run.                                *)
Begin(w) ==
    /\ run[w] = "new"
    /\ IF phase = "up" THEN To(w, "allocating", Wants[w]) ELSE To(w, "leaving", {})
    /\ UNCHANGED <<vars, backend, bound>>

(* handleAllocate listens on a free port and lets go of it again; nothing  *)
(* keeps the port for the wrapper.                                         *)
AllocatePort == {p \in Ports : bound[p] = NoPid}

(* Backend ports that the user gave, or else allocated by the daemon.      *)
Allocate(w, l) ==
    /\ run[w] = "allocating"
    /\ l \in left[w]
    /\ IF Given[w][l] = NoPort /\ phase # "up"
       THEN To(w, "leaving", {}) /\ UNCHANGED backend
       ELSE /\ \E p \in IF Given[w][l] = NoPort THEN AllocatePort ELSE {Given[w][l]} :
                  backend' = [backend EXCEPT ![w][l] = p]
            /\ IF left[w] = {l} THEN To(w, "registering", Wants[w])
                                ELSE To(w, "allocating", left[w] \ {l})
    /\ UNCHANGED <<vars, bound>>

Request(w, l) == CHOOSE r \in Requests : r.port = backend[w][l] /\ r.pid = w

(* One request at a time; without a daemon a registration fails, and a     *)
(* removal is given up.                                                    *)
Send(w, l) ==
    /\ l \in left[w]
    /\ at[w] = "idle"
    /\ phase = "up"
    /\ \/ /\ run[w] = "registering"
          /\ Ask(w, [op |-> "register", lp |-> l, req |-> Request(w, l)])
       \/ /\ run[w] = "leaving"
          /\ Ask(w, [op |-> "unregister", lp |-> l, req |-> Request(w, l)])
    /\ UNCHANGED wrapperVars

Refused(w, l) ==
    /\ l \in left[w]
    /\ at[w] = "idle"
    /\ phase # "up"
    /\ \/ run[w] = "registering" /\ To(w, "leaving", {})
       \/ run[w] = "leaving" /\ To(w, "leaving", left[w] \ {l})
    /\ UNCHANGED <<vars, backend, bound>>

(* What a step of the daemon means for the wrapper that waits for the      *)
(* answer.  A registration succeeds when the tables have it, saved or not. *)
(* A failed one returns before the removals are deferred: what was         *)
(* registered before stays.                                                *)
Answered(w) == at[w] # "idle" /\ at'[w] = "idle"
Succeeded(w) == at[w] \in {"saving", "writing"} /\ phase' = "up"

(* A command that is started after the first registration.                 *)
StageAfterFirst(w) ==
    IF run[w] = "registering"
    THEN IF Succeeded(w) THEN "running" ELSE "leaving"
    ELSE run[w]

StageAfter(w) ==
    IF run[w] = "registering"
    THEN IF ~Succeeded(w) THEN "leaving"
         ELSE IF left[w] = {job[w].lp} THEN "running" ELSE "registering"
    ELSE run[w]
LeftAfter(w) ==
    IF run[w] = "registering" /\ ~Succeeded(w) THEN {} ELSE left[w] \ {job[w].lp}

Hear ==
    /\ run' = [w \in Wrappers |-> IF Answered(w) THEN StageAfter(w) ELSE run[w]]
    /\ left' = [w \in Wrappers |-> IF Answered(w) THEN LeftAfter(w) ELSE left[w]]
    /\ UNCHANGED <<backend, bound>>

(* The command binds its ports, those of them that are free, and ends.     *)
BindPort(w, l) ==
    /\ run[w] = "running"
    /\ l \in Wants[w]
    /\ bound[backend[w][l]] = NoPid
    /\ bound' = [bound EXCEPT ![backend[w][l]] = w]
    /\ UNCHANGED <<vars, run, backend, left>>

Unbound(w) == [p \in Ports |-> IF bound[p] = w THEN NoPid ELSE bound[p]]

CommandEnds(w) ==
    /\ run[w] = "running"
    /\ To(w, "leaving", Wants[w])
    /\ bound' = Unbound(w)
    /\ UNCHANGED <<vars, backend>>

Exit(w) ==
    /\ run[w] = "leaving"
    /\ left[w] = {}
    /\ To(w, "ended", {})
    /\ Die(w)
    /\ UNCHANGED <<backend, bound>>

(* kill -9, or an interrupt while no command runs; its command goes with   *)
(* it.                                                                     *)
Killed(w) ==
    /\ run[w] \notin {"new", "ended"}
    /\ To(w, "ended", {})
    /\ Die(w)
    /\ bound' = Unbound(w)
    /\ UNCHANGED backend

DaemonStep ==
    /\ (\E h \in Handlers : HandlerStep(h)) \/ SweepStep \/ StartStep \/ Halt
    /\ Hear

WrapperStep(w) ==
    \/ Begin(w) \/ CommandEnds(w) \/ Exit(w) \/ Killed(w)
    \/ \E l \in ListenPorts : Allocate(w, l) \/ Send(w, l) \/ Refused(w, l) \/ BindPort(w, l)

WNext == DaemonStep \/ \E w \in Wrappers : WrapperStep(w)

WSpec == WInit /\ [][WNext]_allVars /\ Fairness
-----------------------------------------------------------------------------
(* Two wrappers were given one backend port for the same listen port, by   *)
(* their users or by two allocations before either command bound it.  The  *)
(* second registration is refused; or it overlaps the first one's removal, *)
(* and its entry ends up in one table only.                                *)
Shared(w, l) == \E x \in Wrappers \ {w} : backend[x][l] = backend[w][l]

(* While a wrapper runs its command, the daemon forwards to it, or would   *)
(* when switched to it: registrations, removals and sweeps of others, and  *)
(* restarts of the daemon from its file, do not take it out.               *)
RunningIsServed ==
    phase = "up" =>
        \A w \in Wrappers : run[w] = "running" =>
            \A l \in Wants[w] :
                \/ Shared(w, l)
                \/ \E i \in DOMAIN tbl[l] : tbl[l][i].pid = w /\ tbl[l][i].port = backend[w][l]

(* A wrapper that has ended, in whatever way and with whichever of its     *)
(* requests in progress or never made, is soon in neither table of any     *)
(* listen port; or the daemon has ended.                                   *)
EndedIsForgotten ==
    \A w \in Wrappers :
        run[w] = "ended"
            ~> \/ phase # "up"
               \/ at[w] = "idle" /\ \A l \in Wants[w] :
                      Shared(w, l) \/ ~(Lists(st[l], w) \/ Lists(tbl[l], w))
=============================================================================
