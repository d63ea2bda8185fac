# devlb, specified

TLA+ modules, TLC configurations and TLAPS proofs about `devlb`, the local TCP
proxy of this repository: a daemon that listens on a service's default port and
forwards connections to whichever of several running copies of the service the
user has switched to.

The modules are translated from the Go code. Where a comment or the README of
the program says something else than the code does, the code is what is
modelled, and the difference is a run of its own (see *Where the code and its
documentation disagree*).

## The system

| Component | State | Operations | Meets |
|---|---|---|---|
| `ServiceListener` (`internal/proxy/listener.go`) | ordered backend list, `listener`, `done`, `activeConns`, `connsSet` | Start, Stop, StopGraceful, Add/Remove/Switch/Set/ClearBackend, accept loop, one goroutine per connection | checker, metrics, bridge; called by the server |
| `HealthChecker` (`healthcheck.go`) | port → health, `done` | Add/RemoveBackend, Start, Stop, IsHealthy, the check loop | told by the listener, asked by `handleConn` |
| `MetricsStore` (`metrics.go`) | counters per port | RecordConnect, RecordDisconnect | `handleConn`, status |
| `Bridge`, `CountingConn` (`bridge.go`, `countingconn.go`) | two copying goroutines, two sockets | copy, close | `handleConn`; its sockets are closed by StopGraceful |
| `StateManager` (`internal/config/state.go`) | tables per listen port, `state.yaml` | Load, Save, Add/RemoveBackend, SwitchActive, CleanStalePIDs, routes, AllocatePort | request handlers, sweeper, start |
| registry (`internal/daemon/server.go`) | `listeners`, `portMap`, `mu` | register, unregister, switch, allocate, route, unroute, status, the process sweeper, restoration at start | listeners and StateManager |
| config watcher and reload (`internal/config/watcher.go`, `applyConfigChange`) | `lastHash`, `lastCfg`; `listeners`, `portMap` | check every 2 s, start/stop/move services | the user's editor, the registry, other programs' ports |
| lifecycle (`cmd/devlb/cmd/{daemon,start,stop}.go`, `Server.Start`, `StopGraceful`) | the process, the control socket and its file, `done`, `drainDone` | start, stop, signal, drain, exit | users, other daemons |
| exec wrapper (`internal/exec/wrapper.go`) | the ports of one command | allocate, register, run, unregister | registry, tracer |
| tracer (`internal/portswap/tracer_linux.go`) | per-thread entry/exit flag | the ptrace loop, rewriting of `bind` | the traced threads |
| dashboard (`internal/tui`) | rows, cursor | refresh, switch | the control socket |
| client and protocol, labels, 503 page, port owner lookup, other commands | none that outlives a call | one request, one read or one write | – |

What makes it hard:

* The backend list exists twice, in the listener and in the StateManager, and a
  third time in the file. The copies are updated in separately locked steps.
* No lock spans a handler. Connections pick under a read lock and dial without
  it; the checker dials without its lock and looks the port up again by number;
  the sweeper removes by port number what it saw in a copy.
* The daemon is stopped in many ways, often two at once, while connections run
  that nobody can hurry; what it writes, and the socket file, must serve the
  next daemon.
* Configuration, listen ports and processes belong to others, who change them
  at any moment.

What each component has to get right is what the properties below say; the
places where each can go wrong are listed, with their lines, in `PROJECT.json`.

## The modules

```
BackendTable                the list of one listen port, as operators
  ├── BackendTableProofs    lemmas about them
  ├── ServiceListener  ──INSTANCE──  HealthChecker
  │     │                               └── HealthHistory   (history variable)
  │     │                                     └── HealthHistoryProofs
  │     ├──refines──  Switchboard       (abstract specification)
  │     ├── MCServiceListener
  │     └── ServiceListenerProofs       (and BackendTableProofs)
  └── Registry  ──refines──  Switchboards   (abstract specification)
        ├── MCRegistry
        ├── RegistryHistory             (history variable)
        │     ├── MCRegistryHistory     (and MCRegistry)
        │     └── RegistryProofs        (and ExecWrapper, BackendTableProofs)
        └── ExecWrapper ── MCExecWrapper
Bridge                      one forwarded connection ── BridgeProofs
DaemonLifecycle             processes, control socket, users ── LifecycleProofs
HotReload ── MCHotReload    the file, its watcher, a reload
  └── HotReloadProofs
Tracer ── MCTracer          ptrace loop, kernel, traced program
  └── TracerProofs
Dashboard ── MCDashboard    the terminal program's messages
```

**BackendTable** has the operations that `listener.go` and `state.go` each
write out for themselves: `Enlist` (AddBackend), `Delist` (RemoveBackend with
its promotion), `Activate` (SwitchBackend, SwitchActive), `ActivePort`,
`PickOrder` (the order in which `healthyActivePort` asks) and `DropDead`
(CleanStalePIDs). An entry is a record of port, label, process and active flag.

**ServiceListener** is one listener. The lists' operations are atomic, as they
hold `sl.mu`. A connection's goroutine is a program counter `at[c]`: accepted,
picking (it holds the read lock and asks the checker about one port after the
other, between which the checker may change its mind, but the list may not
change: `Unlocked`), dialing, then the separate counting steps of `handleConn`,
the bridge, and the deferred steps in their order. Each caller of Stop or
StopGraceful is a program counter too; finding `done` open and closing it are
two steps, because in the code they are, and the second of two closers
panics (`panicked`). The composed checker is `HC == INSTANCE HealthChecker`
over the same variables.

**HealthChecker** is the checker's map and its goroutine: a sweep copies the
ports, each dial and the recording of its outcome are separate steps, since
the lock is not held between them. `up` is the environment: which backends accept
connections; they come and go freely. `ConsecFails` saturates at
the threshold, above which nothing tells its values apart. **HealthHistory**
adds a counter of the failed dials that were begun since a port's registration
and its last recovery.

**Switchboard** is what the README promises of a listen port, without lists and
flags: a set of backends and a current one, which moves only when the user
switches, when it is itself removed, or when the set is replaced. The refinement is
`registered <- PortsOf(backends), current <- ActivePort(backends)`.

**Registry** is the server's handlers (one program counter each), the sweeper
and the start, over the three copies `tbl`, `st` and `disk`. `mu` is `s.mu`,
held by a switch from start to end. `Save` is two steps, truncation and write,
and the StateManager's write lock waits for it (`Writing`); two savers overlap,
as they do under the shared lock. A save may fail, from a request, a sweep or the start; it is only
logged, and the disk stays behind until the next one (`unsaved`). `Halt` ends the daemon anywhere and loses
everything but `disk`; `Load` and the steps after it are `NewServer` and `Start`.
**RegistryHistory** adds `disturbed`: that two requests, or a request and a sweep, overlapped
since the daemon's start, or that a table could not be restored.

**Switchboards** is what the daemon promises of all its listen ports together, without lists,
flags, handlers and locks. Each port has a board, the backends and the current one, kept three times:
the one connections go by, the daemon's record, and the file. The first two change one port and one backend
at a time, by a registration, a loss or a switch, and only a loss of the current backend or a switch
moves traffic; the dead may leave the record all at once. A daemon starts with the record the file
holds and serves exactly what it has recorded by then, but for ports that are taken. In the refinement `stage` is the
daemon's phase, `board` the boards of `tbl` once the daemon is up (before that they are vacant: a restoration
half done is not promised to anybody), `record` those of `st` and `file` those of `disk`.

**HotReload** is the file, its watcher and `applyConfigChange`, whose three
loops (add, remove, change) take one step per service while other programs may
bind and release ports. The file may be missing, broken or half edited, and
is read twice per check. `portMap` remembers whose listener a port leads to; a
listener that no name leads to any more is "dynamic" when bound and "ghost" when
closed. `found` is the listener a registration holds between its lookup under
`s.mu` and its use without it.

**Bridge** counts chunks: sent by a peer, read by the goroutine, written to the
other socket, taken by the other peer; `Room` is what a socket buffers. What
`Close` and `CloseWrite` do to each socket is in `Closed`.

**DaemonLifecycle** has several daemon processes that share one socket path and
one listen port, users that run `devlb start` and `devlb stop` step by step, and
signals. `socket` is whose socket the file is; both places that remove the file
remove whosever it is.

**ExecWrapper** composes `devlb exec` with the whole of Registry. A wrapper is a
process and uses the handler of its name for its requests: it asks for backend
ports, registers one listen port after the other, runs its command, which binds
and releases its ports, unregisters, exits. `Hear` says what a step of the
daemon that ends the request means for the wrapper; a request goes on when its
wrapper is killed. As in `RunWrapper`, a registration that fails skips the removals, which
are deferred only after the last one. `bound` is who holds a backend port,
which decides what `AllocatePort` may return.

**Tracer** is `traceLoop` against the kernel. A thread is free, in user mode,
inside a call, in one of ptrace's stops, or ended and not yet reaped (`kern`); the
kernel's and program's steps are threads and processes that start, end, call,
bind, get signals and exec, also between the loop's Wait4 and its handling of the
stop. `flag` is `threadInSyscall`, whose absence reads as "out". A bind passes
the port its thread wants (`want`) in memory (`buf`), and the kernel takes what is
in memory when the thread goes on. `turned` is a history variable: the numbers for which an
exec by another thread than its process's first has left a flag of a
predecessor.

**Dashboard** is the bubbletea program as chains of commands: each is a fetch, its
answer, a timer, or a switch and its answer, and each handled message starts the next. An
answer carries the rows it was computed from, so late and reordered answers are
as in the program. The daemon is reduced to the lists of labels and the active ones.

Next to some definitions stands a second one, with a comment that names a
slip: an error path that keeps the lock, a removal that forgets to promote, a
timer that fires once. They are in no specification. Each is a
plausible way to get that piece of code wrong, and putting it in the place of its
neighbour makes the property named with it in `PROJECT.json` (`mutants`) fail.

## What is checked

All with `tlc -config <cfg> <module>`.

| Run | Question | Bounds |
|---|---|---|
| `HealthHistory.cfg` | A backend is condemned on evidence of its own (`CondemnedOnEvidence`); one that stays down or up is noticed, whatever happens to the others (`ChangeIsNoticed`) | 2 ports, threshold 2 |
| `ListenerHealth.cfg` | Table sound, one active, checker watches the list, picks are listed, `SwitchboardSpec`, `Failover`, every accepted connection is carried or refused | 2 ports, 1 connection, threshold 2 |
| `ListenerStop.cfg` | Counters agree with the connections, a stop returns, what it cut off ends | 1 port, 2 connections, 2 stoppers, Phase 1 calls |
| `RegistryConcurrent.cfg` | Two handlers, sweeper, restarts, torn writes: all three tables sound, `s.mu` released on every path, the file lags only while a save is due (`FileCurrent`), listeners and state agree entry for entry unless requests overlapped (`MirrorWhenQuiet`) | 1 listen port, 2 ports, ports and handlers symmetric |
| `ExecWrapper.cfg` | A running command is served (`RunningIsServed`), one that ended in whatever way is forgotten by listeners and state (`EndedIsForgotten`); the registry implements Switchboards whatever requests overlap and restarts come between (`SwitchboardsSpec`) | 2 wrappers, 2 listen ports, 2 backend ports |
| `Bridge.cfg` | What a peer sent before closing is delivered; the two directions end together; sockets closed at the deadline end them | `Chunks` 3, `Room` 1 |
| `Lifecycle.cfg` | A daemon not overlapped is reachable and has its port, a launch leads to service, a stop to an exit after the drain | 2 daemons, 1 user, one daemon may be signalled, both may crash |
| `HotReload.cfg` | Settled edits are applied; no bound port is left without owner; services whose entry did not change keep port and backends | 2 services, 2 ports, 3 configurations, port q2 contested |
| `Tracer.cfg` | Every bind takes effect with its replacement (`BindsRewritten`), flags are of traced threads only, nothing runs on after the leader, Run returns | 3 thread numbers, one mapped and one other port, one thread that binds |
| `Dashboard.cfg` | The cursor is on a row; what has settled is shown for good (`SettledIsShown`) | 3 chains, 1 configured and 2 other listen ports, 3 states of the daemon |

Each run also has its module's type invariant, or the theorem below stands for
it; the checker's is part of the listener's, the registry's of the wrapper's.

The bounds and why they suffice:

* Two ports give an active backend and a standby, which is what failover,
  promotion and removal distinguish. For the listener's safety properties the number does not
  matter at all: they are proved for every one.
* A second connection or handler is needed for every race that is between
  two of a kind; none of the code's steps looks at two others at once.
* `UnhealthyAfter = 2` is the least value at which the reset of the count matters.
* `Room = 1` and `Chunks = 3` allow a chunk in each place (read, buffered, still to come).
* A user stops each daemon once and daemons are launched once each (two daemons:
  one before and one beside or after).
* In `RegistryConcurrent` the daemon may stop between the truncation and the write
  of the state file; a torn file loads as empty, and `FileCurrent` excepts that
  moment, and the time between a save that failed and the next (`unsaved`). In `ExecWrapper` neither
  happens (`MayTear`, `SaveMayFail`): running commands would be forgotten. There a listen port can always be bound, for the same reason.
* `MirrorWhenQuiet` is about daemons that nothing has disturbed (`disturbed`). In its run every
  request has a port and a label of its own.
* `SwitchboardsSpec` is checked with the wrappers, which meet on one listen port and not on the other; switches by
  users, torn files, failing saves and taken ports are in its proof only, as TLC takes too long over them all.
* One listen port in `RegistryConcurrent`: that several do not meddle with each other's tables, or boards, is in the proofs.
* `ExecWrapper`: one wrapper with two registrations, so that one may fail after the
  other, and two wrappers that meet on a listen port; one has its backend ports from the user
  and one from `AllocatePort`, so that both may be given the same.
* `Tracer`: three numbers allow a leader with a thread, a process it forked, and a number
  that is used again. One thread binds; the flags of the others matter as far as
  their numbers are taken over. A thread's address is its own.
* `Dashboard`: three chains, the two that Init starts and one that a key starts, are
  the least with answers of three ages.
* A connection is used once, a process number is not used again, and no
  configuration gives two services one port (the ASSUME of HotReload).

Deadlock is checked except where the system really stops: a panicked process
(`ListenerStop`), a bridge whose sockets are closed, daemons that were all launched and ended,
wrappers that have exited, a command that has ended with its tracer, a dashboard that was quit.

### Fairness

Goroutines that can take a step take one: weak fairness per goroutine. Waiting
for a lock is strong fairness in `Registry`, since Go hands a mutex to a
starving waiter and a waiting writer keeps later readers of an RWMutex out.
`SeeDone` and `Deadline` are strongly fair because Go's `select` chooses uniformly
among ready cases, so neither the ticker nor the timer wins for ever. Dials and
503 answers end because the code gives each a timeout. In `Tracer` the loop
goes on and Wait4 does not pass over the leader's end for ever (strong fairness), and a thread that
computes makes a system call some day; a thread that never did would not notice the end of its
leader. In `Dashboard` each command runs and its message is handled. Nothing is assumed of
users, clients, backends, editors of the file or other programs: a client may
hold its connection for ever, a backend may flap for ever. `Failover` therefore says
only what happens once the backends have settled.

## Where the code and its documentation disagree

Two runs end in a counterexample, each to something README.md says.

* `BridgeHalfClose.cfg`, `HalfCloseDelivers`. README.md:5, "transparently routes
  traffic". Bridge uses `CloseWrite` where a connection has it, so that one
  direction may end before the other; but `handleConn` passes it `CountingConn`s,
  which have none, so a client that ends its request by closing its writing side
  loses the response.
* `ReloadRename.cfg`, `ConfiguredIsServed`. README.md:115, "Services can be added
  or removed while the daemon is running". Added services are started before
  removed ones are stopped, so a service renamed on its port cannot bind it and
  is given up.

Met while modelling and visible in the models:

* A connection between Accept and its counting (`listener.go:363` to `401`) is neither
  waited for nor closed by StopGraceful, whose comment says it "waits for active connections to drain, or
  force-closes them after timeout": it is bridged by a listener that has stopped.
* Two overlapping requests for one listen port can leave listener and state with
  different orders or active backends, until a restart; a backend only the listener still lists is then not swept
  when its process dies, as the sweeper asks the state first (`server.go:531`).
* With the Phase 1 calls `SetBackend` and `ClearBackend` the checker keeps
  watching what was replaced and never watches what was set.
* Switching to a label that two backends share makes both active.
* An edit of the file between the daemon's read of it and the watcher's is never
  applied, and a watcher that starts on a broken file ends the daemon at the first good one.
* A signal during a requested stop ends the process in the middle of its drain.
* A listen port that another program holds when the daemon starts again loses its
  backends: the state lists them, the listener that a later registration makes has only
  that one, and the others' registrations are not repeated.
* `AllocatePort` keeps nothing: two wrappers may be given one backend port. For
  the same listen port the second registration is refused; but when it overlaps the first one's
  unregistration it can leave an entry in the listener that the state does not have; the sweeper, which asks the
  state first, never removes it.
* The sweeper looks at the state first and at the listeners later, for whoever is dead then. The entry of a process
  that dies in between leaves the listener and stays in the state until the next sweep; if another
  process registers the same port meanwhile, the listener takes it, the state has "it already" (`state.go:148`), and the next
  sweep drops the dead one's entry: the newcomer is routed to, but the state, and a restart, do not know it.
* A wrapper whose second registration fails leaves the first in the tables until a
  sweep, at most 30 seconds after it has ended.
* An exec by a thread that is not its process's first moves that thread to the first one's
  number, with that one's entry/exit flag. If the first thread was not inside a call at
  that moment, entries and exits are confused from then on and binds are not rewritten; the flag of the vanished
  number stays, and the number gets SIGKILL when the leader ends, whoever has it then.
* SIGSTOP sent by a user to a traced process is taken for the stop of a new thread and swallowed (`tracer_linux.go:230`).
* The output pipes are closed when the trace loop ends (`tracer_linux.go:110`),
  with whatever `copyPipe` has not read yet.
* The dashboard refreshes twice a second from the start, as Init starts a fetch and a timer,
  each of which keeps a chain going, and once more for each `r` or `s` pressed; its title says "auto-refresh: 1s". Answers
  of different chains may be applied in another order than they were given, so that the table goes
  back for a moment, and dynamic listeners come in the order of a Go map, so the cursor
  may be on another backend after a refresh.
* The comment of `Bridge` says it returns when either direction ends; it waits for
  both (and `OneEndsBoth` says that the one soon follows the other).

## What is proved

Each of the eight proof modules is checked with `tlapm <module>.tla`; `RegistryProofs`
takes some minutes. Every theorem is about the specification that the runs check, of which
no proof uses the fairness (`SafeSpec` is it without),
for every value of the constants the modules' assumptions admit: any number
of ports, requests, processes, daemons, users, threads, files and
buffers. TLC evaluates the assumptions in every run.
Below, an inductive invariant is given by the names of its conjuncts, each with a comment in its module.

### The listener

`ServiceListenerProofs`, with and without health checks and Phase 1 calls. The
assumptions: requests are records with a port of `Ports`, the zero port is none of them, connections are finitely
many, the threshold is positive. What two theorems take further stands in them:
`UniqueLabels`, that no two different requests share a label. In devlb a label
is a branch name unless the user gives one, so this is how it is meant to be used;
without it two active backends are possible.
A request may be made for every listen port, and nothing compares the backend ports of two of them, so a label that
one command uses on all its listen ports is one request.

| Theorem | States | Inductive invariant |
|---|---|---|
| `TableStaysSound` | `[]TableSound` | `TablePart`: the list holds entries of requests, and is sound. |
| `NeverTwoActive` | `[]OneActive` under `UniqueLabels` | with `TablePart`, at most one active. Distinct ports are needed: two entries with one label would be one request, hence one port. |
| `ImplementsSwitchboard` | `SwitchboardSpec` under `UniqueLabels` | none further; each of the six ways a list can change (`ListStep`) is a step of Switchboard or a stutter. |
| `CheckerWatchesTable` | `[]HealthTracksTable` | `TracksPart`, with the list's soundness, so that a removal takes out the last entry with that port. |
| `CountersAgree` | `[]ConnAccounting` | `ConnPart`: types, `PickKnown` and the counts. A count changes at the port a connection picked, so that the port must be known to be one. |
| `PicksAreListed` | `[]PickIsListed` | with `TablePart` and `ConnPart`; a pick starts from `PickOrder`, which lists the list's ports. |
| `TypeCorrect` | `[]TypeOK` | all of the types, the checker's included. |

`BackendTableProofs` has the lemmas on the list's operators these rest on (what
`Enlist`, `Delist`, `Activate`, `PromoteFirst` and `DropDead` do to ports, flags, order and soundness, and to what two lists
have in common; what
`ActivePort` and `PickOrder` return), each stated for every list; `RegistryProofs` uses them too.
The loop of `CleanStalePIDs` is a recursive function of the number of entries passed
(`LiveAmong`), about which `LiveAmongStep` and an induction over that number say what is kept. In
`ServiceListenerProofs` the steps are first reduced to what they do to the list
(`StepOnList`), to the checker (`HealthSteps`) and to the counters
(`QuietSteps`, `CountingSteps`), so each invariant is proved against a few cases.

### The checker and a connection

The assumptions: the threshold and the sockets' buffers are positive, the zero port is no backend's.

| Theorem | States | Inductive invariant |
|---|---|---|
| `EvidenceCondemns` (`HealthHistoryProofs`) | `[]CondemnedOnEvidence` | `EvidencePart`. The verdict's own count says too little: a dial may be under way when its port is removed and registered again, and its failure counts against the newcomer. So the count *and the failure still to be recorded* exceed the failed dials by one at most. |
| `NothingIsInvented` (`BridgeProofs`) | `[]TypeOK`: taken ≤ written ≤ read ≤ sent | `FlowPart`: what is read and not written is the one chunk in the goroutine's hands. |
| `FinishedPeerIsHeard` | `[]FinishedIsDelivered` | `DeliveryPart`: until the deadline, a socket is closed only by the goroutine that copied to it; and the one that copies from an open peer does not end first. |
| `PlainSocketsDeliver` | `[]HalfCloseDelivers` where `~Wrapped` | `HalfClosePart`: nothing but the deadline closes a socket altogether. It is the property that `BridgeHalfClose.cfg` refutes: with plain TCP connections it holds, so the missing `CloseWrite` of CountingConn is all there is to the disagreement. |

### The registry and its clients

`RegistryProofs`. The assumptions: requests name ports and processes of the given sets,
configured listen ports are listen ports, handlers and the sweeper are told apart. For `WrappersTyped` and
`RunningStaysServed` also: wrappers
are processes that end by themselves only, register and unregister, and a request exists for each port.
`UniqueLabels` stands in the two theorems that take it, as for the listener; `TablesMirror` takes `UniquePorts` too.

| Theorem | States | Inductive invariant |
|---|---|---|
| `RegistryTyped` | `[]TypeOK` | `DataPart`: `GoodPart`, all three copies of every table are sound (and have one active entry at most, if labels are unique); `WorkPart`, a request in progress has a listen port where the code needs one. |
| `TablesStaySound` | `[]TablesSound` | the same; what is loaded after a crash was saved, or is empty. |
| `LockComesFree` | `[]LockIsReleased` | `LockPart`: `SwitchPart`, a switch of one port has nothing to visit after the port it named, so that its loop ends in one of the ways that release; `StartPart`, nobody asks before the daemon is up. |
| `FileKeepsUp` | `[]FileCurrent` | `FilePart`: `LoadPart` for a start, `DebtPart` after it. "Somebody will save" alone is not inductive, as a switch that is refused does not; `Debtor` says which of a switch's steps still owe the save, and `Owes` whose entry it is. |
| `ImplementsSwitchboards` | `SwitchboardsSpec` under `UniqueLabels` | with `DataPart`, `StartedPart`. `ReplayPart`: while a daemon starts, each table is the first entries of the stored one, with the first of all active until the active one has come (`Replayed`), or its listen port was taken and the table is empty. `PortMapPart`: once it serves, a table without a listener is empty. |
| `TablesMirror` | `[]MirrorWhenQuiet` under `UniqueLabels` and `UniquePorts` | with these, `HistoryPart`: `OnePart`, nothing overlaps; `ExactPart`, no table is left out at the start; `MirrorPart`, see below. |
| `WrappersTyped` | `[]WTypeOK` | `WrapPart`: `WrapTypes`; `AskPart`, what each request of a wrapper is for; `PortPart`, which ports it has by now; `OwnPart`, no table lists for a listen port anything but what wrappers were given for it. |
| `RunningStaysServed` | `[]RunningIsServed` | with `WrapPart`, `ServedPart`: which of the tables list a registration that was answered (`Sure`) or has come so far (`Coming`): the listeners' while the daemon is up, the state's from its load on, the file when nobody is writing, and during the restoration the listeners' or what is left to restore. For a daemon that never ends, `FirstPart` and the listeners' alone. |

`ImplementsSwitchboards` is proved in two halves. Starting (`StartingStep`): a restoration is out of sight until
the daemon serves, and what it has made by then is, by `ReplayPart` and `ReplayEnds`, the stored table or nothing.
Serving (`ServingStep`): whatever the interleaving, a step changes one table of one copy by `Enlist`, `Delist`, `Activate` or
`DropDead`, and each of these is a move of Switchboards on the board the table shows (`EnlistBoard`, `DelistBoard`, `ActivateBoard`,
`PurgedBoard`). `UniqueLabels` is needed: a switch to a shared label makes two entries active, and removing the one that traffic
does not go to then promotes the first of the list, to which the traffic moves although its backend is still there.

`TablesMirror` is about equality at quiet moments, which is far from inductive: a request changes the listener
before the state, a sweep the state before the listeners, processes die at any time, and a promotion
may pick a dead backend in one table that is gone from the other. What is true at all times is
that the two are *alike* as far as the living go (`Alike`: the same living backends in the same order, and the same current one: the active one or, when that has died, the first)
once the request in progress has done to the state what it is still going to do (`Foreseen`), and that what the listener lists
beyond the state is something the sweep in progress is still going to look at (`Due`).
`AlikeEqual` gives the equality when nothing dead is left. `UniquePorts` is needed: with
two processes that share a port the two tables do come apart, as described under the disagreements. Live processes of one machine do not share one,
but a dead one's number may be used again before the sweeper has seen it go.

`RunningStaysServed` has a hypothesis: *if the daemon may end*, saves succeed, the file is
never left truncated, and a listen port can be bound again. All
three are needed, and none is something the code ensures: a registration whose save fails
is answered with success all the same, a torn file loads as empty, and a port that
is taken at the start loses its backends until they register anew. Without an end of the daemon nothing is assumed.
Two wrappers that were given one backend port (`Shared`) are excepted, as in the run.

### Lifecycle and reload

| Theorem | States | Inductive invariant |
|---|---|---|
| `DrainedAfterDone` (`LifecycleProofs`) | `[]TypeOK`, with `drained => done` | `LifePart`: `GonePart`, an ended process has nothing; `StopPart`, how far each call of StopGraceful can be before `done`, the end of the listeners and the drain. |
| `ServingIsReachable` | `[]AloneIsReachable` | `ReachPart`: without an overlap one daemon runs at a time, the path is free between its `Remove` and its `Listen`, and its Start returns only after the drain, so that no late `Remove` hits a successor's socket. |
| `AskedExitHasDrained` | `ExitHasDrained` | `LifePart`. |
| `ReloadTyped` (`HotReloadProofs`) | `[]TypeOK` | `ReloadPart` below; the configurations of a reload must be valid for its loops to have services. |
| `NothingIsOrphaned` | `[]NoOrphan` | `ReloadPart`: a port's entry leads to a listener at that port (`MapPart`); what a start and each loop still have to do is part of what the files differ in (`StartPart`, `LoopPart`); a service is where the old file puts it and is still awaited by a loop if it has to be, or where the new one does (`PlanPart`); and no dynamic listener has a service's port (`ClaimPart`), since a service that could not bind its port keeps the port's entry. Without `PlanPart` a move could close a port that another service was just started on. |
| `ServicesAreKept` | `KeptService` | `ReloadPart`; a step for one service (`OthersAreLeft`) leaves the others alone. |

`NoOrphan` and `KeptService` except, as the runs do, a watcher that missed an edit between the daemon's read of
the file and its own (`missed`). No file gives two services one port (`ConfigsAssumption`).

### The tracer

`TracerProofs`. The assumptions: the leader is a thread, a replacement is not replaced in turn.

| Theorem | States | Inductive invariant |
|---|---|---|
| `TracerTyped` | `[]TypeOK` | `TracerPart`, all of the below. |
| `BindsTakeEffect` | `[]BindsRewritten` | `FlagPart`: for numbers that no exec has turned, the flag is "in" exactly while the thread is inside a call; `AddressPart`: memory has the port meant or the replacement, and once a bind goes on the latter. |
| `NoStrangerIsKilled` | `[]KnowsOnlyTracees` | with `HomePart`: a process has the number of its first thread, whose end is seen last, so that its number is not used again while another of its threads may exec and take it. |
| `NothingIsResumed` | `NothingRunsOn` | with `LoopPart`, the thread the loop handles is in the stop it was reported in, was killed, or was taken by an exec; and `LeaderPart`, nothing is inside a call after the leader's end. |

The exception for `turned` numbers is the code's (see the disagreements above), and
the invariant shows how far it reaches: a number that no exec by a second thread has touched is never confused.

### Model-checked only

* Every liveness property (`Failover`, `AcceptedSettles`, `StopReturns`, `SeveredEnds`,
  `ChangeIsNoticed`, `EndedIsForgotten`, `LaunchedServes`, `StoppingEnds`,
  `ChangeIsApplied`, `OneEndsBoth`, `RunReturns`, `SettledIsShown`): the prover has no
  reasoning about fairness and ENABLED.
* The types of Dashboard. Its chains' types are plain; its one property is a liveness property.
* The two runs that end in a counterexample, which are about what does not hold.

## Not modelled, and the plan

Left out for good: rendering, logging, YAML and JSON encoding, byte counts, the 503 page's text, the
/proc lookup of port owners, argument parsing; none decides what the system does next. Services
on port 0 are left out of HotReload, the pipes that carry a command's output and memory shared between
its threads out of Tracer.

The Phase 1 routes (`handleRoute`, `handleUnroute`, `SetRoute`) are modelled where they
touch a listener (`SetBackend` and `ClearBackend` of ServiceListener) but not in Registry: they
replace a listener's table without the state's, so that nothing the other
properties say of the two would hold once one is used.

A registration that lands in a listener which a reload takes away is in HotReload;
the tables of Registry do not see reloads, so that the backends a removed service
leaves in the state are in no model. Neither is a graceful stop that meets a reload.
