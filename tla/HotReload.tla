------------------------------ MODULE HotReload ------------------------------
(***************************************************************************)
(* The configuration file, its watcher (internal/config/watcher.go) and    *)
(* what a change of the file does to the daemon's listeners                *)
(* (applyConfigChange in internal/daemon/server.go).                       *)
(*                                                                         *)
(* The file is edited by hand, so it may be read half written, and it is   *)
(* read twice each time: once for its hash, once for its contents.  Listen *)
(* ports are the operating system's: another program, or a listener of the *)
(* daemon itself, may hold the one a service wants.                        *)
(*                                                                         *)
(* applyConfigChange holds s.mu from its first service to its last, so     *)
(* each service is one step; nobody but other programs acts in between.    *)
(***************************************************************************)
EXTENDS Naturals, FiniteSets, Functions

CONSTANTS
    Names, Ports,      \* services and listen ports
    Configs,           \* contents of a valid file: functions from names to ports
    Broken, Missing,   \* a file that does not parse, and none at all
    Nil,               \* no port, no listener, no configuration
    Requested,         \* listen ports that clients register backends for
    Contested          \* listen ports that other programs use at times

(* No file gives two services one port.                                    *)
ASSUME ConfigsAssumption ==
    \A c \in Configs :
        /\ DOMAIN c \subseteq Names
        /\ \A n \in DOMAIN c : c[n] \in Ports
        /\ \A n, m \in DOMAIN c : c[n] = c[m] => n = m
ASSUME PortsAssumption ==
    /\ Requested \subseteq Ports /\ Contested \subseteq Ports
    /\ Nil \notin Ports \cup Names \cup Configs
    /\ {"dynamic", "ghost"} \cap (Names \cup {Nil}) = {}
    /\ {Broken, Missing} \cap Configs = {}

VARIABLES
    file,      \* what reading devlb.yaml would give
    boot,      \* "off", "starting", "restoring", "reading", "parsing", "up"
    watch,     \* the watcher: "off", "waiting", "parsing", then the loops of a reload
    seen,      \* the contents this check hashed
    lastHash, lastCfg,
    old,       \* the reload's old configuration; at start, the daemon's
    todo,      \* the services the current loop has still to visit
    listens,   \* s.listeners: the listen port of each service's listener
    open,      \* the services whose listener is bound
    backed,    \* the services whose listener has backends
    portMap,   \* whose listener s.portMap holds for a port
    found,     \* the listener a registration has looked up and is about to use
    holder,    \* who has bound the port: "free", "devlb", "other"
    missed     \* history: the file changed between the daemon's and its watcher's reads

fileVars   == <<file, holder>>
watchVars  == <<watch, seen, lastHash, lastCfg, old, missed>>
tableVars  == <<listens, open, backed, portMap, found>>
vars == <<fileVars, boot, watchVars, todo, tableVars>>

Contents == Configs \cup {Broken, Missing}
Reload   == {"adding", "removing", "changing"}

(* A listener that belongs to no service: made for a registration, or      *)
(* forgotten by s.listeners while bound ("dynamic") or closed ("ghost").   *)
Owners == Names \cup {"dynamic", "ghost", Nil}

(* The types; a reload in particular always has two valid configurations.  *)
TypeOK ==
    /\ file \in Contents
    /\ boot \in {"off", "starting", "restoring", "reading", "parsing", "up"}
    /\ watch \in {"off", "waiting", "parsing"} \cup Reload
    /\ seen \in Contents \cup {Nil} /\ lastHash \in Contents \cup {Nil}
    /\ lastCfg \in Configs \cup {Nil} /\ old \in Configs \cup {Nil}
    /\ watch \in Reload => lastCfg # Nil /\ old # Nil
    /\ todo \subseteq Names
    /\ listens \in [Names -> Ports \cup {Nil}]
    /\ open \subseteq {n \in Names : listens[n] # Nil}
    /\ backed \subseteq {n \in Names : listens[n] # Nil}
    /\ portMap \in [Ports -> Owners]
    /\ found \in Owners
    /\ holder \in [Ports -> {"free", "devlb", "other"}]
    /\ missed \in BOOLEAN

Init ==
    /\ file \in Contents
    /\ holder = [p \in Ports |-> "free"]
    /\ boot = "off" /\ watch = "off"
    /\ seen = Nil /\ lastHash = Nil /\ lastCfg = Nil /\ old = Nil
    /\ todo = {}
    /\ listens = [n \in Names |-> Nil] /\ open = {} /\ backed = {}
    /\ portMap = [p \in Ports |-> Nil] /\ found = Nil
    /\ missed = FALSE

-----------------------------------------------------------------------------
(***************************************************************************)
(* NewServer and Start: a listener for each service, found by its port     *)
(* whether or not it can be bound; then the ports the state file lists.    *)
(***************************************************************************)
LoadConfig ==
    /\ boot = "off"
    /\ file \in Configs
    /\ boot' = "starting"
    /\ old' = file
    /\ todo' = DOMAIN file
    /\ listens' = [n \in Names |-> IF n \in DOMAIN file THEN file[n] ELSE Nil]
    /\ portMap' = [p \in Ports |-> IF p \in Range(file) THEN AntiFunction(file)[p] ELSE Nil]
    /\ UNCHANGED <<fileVars, watch, seen, lastHash, lastCfg, missed, open, backed, found>>

StartService(n) ==
    /\ boot = "starting"
    /\ n \in todo
    /\ todo' = todo \ {n}
    /\ IF holder[listens[n]] = "free"
       THEN /\ holder' = [holder EXCEPT ![listens[n]] = "devlb"]
            /\ open' = open \cup {n}
       ELSE UNCHANGED <<holder, open>>
    /\ UNCHANGED <<file, boot, watchVars, listens, backed, portMap, found>>

EndStart ==
    /\ boot = "starting"
    /\ todo = {}
    /\ boot' = "restoring"
    /\ UNCHANGED <<fileVars, watchVars, todo, tableVars>>

(***************************************************************************)
(* A registration, or the restoring of one: getOrCreateListener under      *)
(* s.mu, then AddBackend on what it returned, whatever became of that.     *)
(***************************************************************************)
OpenAt(p) == {n \in open : listens[n] = p}

Find(p) ==
    /\ boot = "restoring" \/ (boot = "up" /\ watch \notin Reload)
    /\ found = Nil
    /\ \/ portMap[p] # Nil /\ UNCHANGED <<portMap, holder>>
       \/ /\ portMap[p] = Nil
          /\ \E n \in OpenAt(p) : portMap' = [portMap EXCEPT ![p] = n]
          /\ UNCHANGED holder
       \/ /\ portMap[p] = Nil /\ OpenAt(p) = {} /\ holder[p] = "free"
          /\ portMap' = [portMap EXCEPT ![p] = "dynamic"]
          /\ holder' = [holder EXCEPT ![p] = "devlb"]
    /\ found' = portMap'[p]
    /\ UNCHANGED <<file, boot, watchVars, todo, listens, open, backed>>

AddBackend ==
    /\ found # Nil
    /\ found' = Nil
    /\ backed' = IF found \in Names THEN backed \cup {found} ELSE backed
    /\ UNCHANGED <<fileVars, boot, watchVars, todo, listens, open, portMap>>

EndRestore ==
    /\ boot = "restoring"
    /\ found = Nil
    /\ boot' = "reading"
    /\ UNCHANGED <<fileVars, watchVars, todo, tableVars>>

(***************************************************************************)
(* ConfigWatcher.Start: without a file there is no watching; a file that   *)
(* does not parse leaves the watcher without a configuration.              *)
(***************************************************************************)
ReadBaseline ==
    /\ boot = "reading"
    /\ IF file = Missing
       THEN boot' = "up" /\ UNCHANGED lastHash
       ELSE boot' = "parsing" /\ lastHash' = file
    /\ UNCHANGED <<fileVars, watch, seen, lastCfg, old, missed, todo, tableVars>>

ParseBaseline ==
    /\ boot = "parsing"
    /\ boot' = "up"
    /\ watch' = "waiting"
    /\ lastCfg' = IF file \in Configs THEN file ELSE Nil
    /\ missed' = (lastCfg' # old)
    /\ old' = Nil
    /\ UNCHANGED <<fileVars, seen, lastHash, todo, tableVars>>

(***************************************************************************)
(* check, every 2 s.                                                       *)
(***************************************************************************)
ReadFile ==
    /\ watch = "waiting"
    /\ file \notin {Missing, lastHash}
    /\ watch' = "parsing"
    /\ seen' = file
    /\ UNCHANGED <<fileVars, boot, lastHash, lastCfg, old, missed, todo, tableVars>>

(* A parse error that is passed over, as it is at start.                   *)
ParseAnyway ==
    /\ watch = "parsing"
    /\ file \notin Configs
    /\ lastCfg # Nil
    /\ watch' = "adding"
    /\ lastHash' = seen /\ lastCfg' = Nil /\ old' = lastCfg
    /\ seen' = Nil /\ todo' = {}
    /\ UNCHANGED <<fileVars, boot, missed, tableVars>>

ParseFails ==
    /\ watch = "parsing"
    /\ file \notin Configs
    /\ watch' = "waiting"
    /\ seen' = Nil
    /\ UNCHANGED <<fileVars, boot, lastHash, lastCfg, old, missed, todo, tableVars>>

(* DiffConfigs.                                                            *)
Added(from, to)   == DOMAIN to \ DOMAIN from
Removed(from, to) == DOMAIN from \ DOMAIN to
ChangedAll(from, to) == DOMAIN from \cap DOMAIN to    \* ports not compared
Changed(from, to) == {n \in DOMAIN from \cap DOMAIN to : from[n] # to[n]}

Parse ==
    /\ watch = "parsing"
    /\ file \in Configs
    /\ lastCfg # Nil
    /\ watch' = "adding"
    /\ lastHash' = seen /\ lastCfg' = file /\ old' = lastCfg
    /\ seen' = Nil /\ todo' = Added(lastCfg, file)
    /\ UNCHANGED <<fileVars, boot, missed, tableVars>>

-----------------------------------------------------------------------------
(***************************************************************************)
(* applyConfigChange: start what was added, then stop what was removed,    *)
(* then stop and start what moved.  What cannot be bound is given up.      *)
(***************************************************************************)
Release(n) ==
    IF n \in open THEN [holder EXCEPT ![listens[n]] = "free"] ELSE holder

Unfound(n) == IF found = n THEN "ghost" ELSE found

(* s.portMap without the port the listener of n had and the one the old    *)
(* configuration gives it; an entry that is left leads to a closed one.    *)
Unmapped(n) ==
    [p \in Ports |->
        IF p = old[n] \/ (n \in open /\ p = listens[n]) THEN Nil
        ELSE IF portMap[p] = n THEN "ghost"
        ELSE portMap[p]]

(* The listener of n is stopped and forgotten, or only forgotten.          *)
Forget(n) ==
    /\ listens' = [listens EXCEPT ![n] = Nil]
    /\ open' = open \ {n}
    /\ backed' = backed \ {n}
    /\ portMap' = Unmapped(n)
    /\ found' = Unfound(n)
ForgetOpen(n) == Forget(n) /\ UNCHANGED holder
Discard(n)    == Forget(n) /\ holder' = Release(n)

(* A reference to the listener of n when s.listeners has lost it.          *)
Stray(owner, n) ==
    IF owner # n THEN owner ELSE IF n \in open THEN "dynamic" ELSE "ghost"

Add(n) ==
    LET p == lastCfg[n]
    IN  /\ watch = "adding"
        /\ n \in todo
        /\ todo' = todo \ {n}
        /\ IF holder[p] = "free"
           THEN /\ holder' = [holder EXCEPT ![p] = "devlb"]
                /\ listens' = [listens EXCEPT ![n] = p]
                /\ open' = open \cup {n}
                /\ backed' = backed \ {n}
                /\ portMap' = [[q \in Ports |-> Stray(portMap[q], n)] EXCEPT ![p] = n]
                /\ found' = Stray(found, n)
           ELSE UNCHANGED <<holder, tableVars>>
        /\ UNCHANGED <<file, boot, watchVars>>

EndAdd ==
    /\ watch = "adding"
    /\ todo = {}
    /\ watch' = "removing"
    /\ todo' = Removed(old, lastCfg)
    /\ UNCHANGED <<fileVars, boot, seen, lastHash, lastCfg, old, missed, tableVars>>

Remove(n) ==
    /\ watch = "removing"
    /\ n \in todo
    /\ todo' = todo \ {n}
    /\ IF listens[n] # Nil THEN Discard(n) ELSE UNCHANGED <<holder, tableVars>>
    /\ UNCHANGED <<file, boot, watchVars>>

EndRemove ==
    /\ watch = "removing"
    /\ todo = {}
    /\ watch' = "changing"
    /\ todo' = Changed(old, lastCfg)
    /\ UNCHANGED <<fileVars, boot, seen, lastHash, lastCfg, old, missed, tableVars>>

Move(n) ==
    LET p == lastCfg[n]
    IN  /\ watch = "changing"
        /\ n \in todo
        /\ todo' = todo \ {n}
        /\ IF listens[n] = Nil
           THEN UNCHANGED <<holder, tableVars>>
           ELSE IF Release(n)[p] = "free"
           THEN /\ holder' = [Release(n) EXCEPT ![p] = "devlb"]
                /\ listens' = [listens EXCEPT ![n] = p]
                /\ open' = open \cup {n}
                /\ portMap' = [Unmapped(n) EXCEPT ![p] = n]
                /\ backed' = backed \ {n}
                /\ found' = Unfound(n)
           ELSE Discard(n)
        /\ UNCHANGED <<file, boot, watchVars>>

(* A timer that fires once.                                                *)
EndChangeOnce ==
    /\ watch = "changing"
    /\ todo = {}
    /\ watch' = "off"
    /\ old' = Nil
    /\ UNCHANGED <<fileVars, boot, seen, lastHash, lastCfg, missed, todo, tableVars>>

EndChange ==
    /\ watch = "changing"
    /\ todo = {}
    /\ watch' = "waiting"
    /\ old' = Nil
    /\ UNCHANGED <<fileVars, boot, seen, lastHash, lastCfg, missed, todo, tableVars>>

(***************************************************************************)
(* The daemon ends, by request or because DiffConfigs was given no old     *)
(* configuration, and its ports are free.                                  *)
(***************************************************************************)
Down ==
    /\ boot' = "off" /\ watch' = "off"
    /\ seen' = Nil /\ lastHash' = Nil /\ lastCfg' = Nil /\ old' = Nil
    /\ todo' = {}
    /\ listens' = [n \in Names |-> Nil] /\ open' = {} /\ backed' = {}
    /\ portMap' = [p \in Ports |-> Nil] /\ found' = Nil
    /\ holder' = [p \in Ports |-> IF holder[p] = "devlb" THEN "free" ELSE holder[p]]
    /\ missed' = FALSE
    /\ UNCHANGED file

Panic == watch = "parsing" /\ file \in Configs /\ lastCfg = Nil /\ Down

Quit == boot = "up" /\ Down

(***************************************************************************)
(* The user edits the file; other programs come and go.                    *)
(***************************************************************************)
Edit(c) ==
    /\ file' = c
    /\ UNCHANGED <<holder, boot, watchVars, todo, tableVars>>

Occupy(p) ==
    /\ holder[p] = "free"
    /\ holder' = [holder EXCEPT ![p] = "other"]
    /\ UNCHANGED <<file, boot, watchVars, todo, tableVars>>

Vacate(p) ==
    /\ holder[p] = "other"
    /\ holder' = [holder EXCEPT ![p] = "free"]
    /\ UNCHANGED <<file, boot, watchVars, todo, tableVars>>

StartStep ==
    \/ \E n \in Names : StartService(n)
    \/ EndStart \/ AddBackend \/ EndRestore \/ ReadBaseline \/ ParseBaseline
WatchStep ==
    \/ ReadFile \/ ParseFails \/ Parse \/ Panic
    \/ \E n \in Names : Add(n) \/ Remove(n) \/ Move(n)
    \/ EndAdd \/ EndRemove \/ EndChange

Next ==
    \/ LoadConfig \/ StartStep \/ WatchStep \/ Quit
    \/ \E p \in Requested : Find(p)
    \/ \E c \in Contents : Edit(c)
    \/ \E p \in Contested : Occupy(p) \/ Vacate(p)

(* The daemon and its watcher run; nobody has to edit or to start it.      *)
Fairness == WF_vars(StartStep) /\ WF_vars(WatchStep)
SafeSpec == Init /\ [][Next]_vars
Spec     == SafeSpec /\ Fairness
-----------------------------------------------------------------------------
(* Every port the daemon holds is held by a listener it can find again,    *)
(* through the service's name or through the port: no reload leaves behind *)
(* a listener that is bound and that nobody can reach or stop.             *)
NoOrphan ==
    ~missed => \A p \in Ports :
        holder[p] = "devlb" => portMap[p] = "dynamic" \/ OpenAt(p) # {}

(* A reload leaves a service alone whose entry did not change: its         *)
(* listener keeps its port and its backends, and stays where the daemon's  *)
(* clients find it.                                                        *)
Untouched(n) ==
    /\ n \in DOMAIN old \cap DOMAIN lastCfg
    /\ old[n] = lastCfg[n]
    /\ listens[n] # Nil

KeptService ==
    [][\A n \in Names :
          ~missed /\ watch \in Reload /\ Untouched(n) /\ boot' = "up" =>
              /\ listens'[n] = listens[n]
              /\ n \in open <=> n \in open'
              /\ n \in backed => n \in backed'
              /\ portMap[listens[n]] = n => portMap'[listens[n]] = n]_vars

(* A configuration the watcher has not seen yet is loaded and its reload   *)
(* completed, unless the file changes again or the daemon ends.            *)
ChangeIsApplied ==
    \A c \in Configs :
        (watch = "waiting" /\ file = c /\ lastHash # c)
            ~> ((watch = "waiting" /\ lastCfg = c) \/ file # c \/ boot = "off")

(* README.md: "Services can be added or removed while the daemon is        *)
(* running".  When a reload is completed, every service it added or moved  *)
(* has its listener.                                                       *)
ConfiguredIsServed ==
    [][watch = "changing" /\ watch' = "waiting" =>
          Added(old, lastCfg) \cup Changed(old, lastCfg) \subseteq open]_vars
=============================================================================
