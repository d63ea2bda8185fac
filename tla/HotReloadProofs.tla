--------------------------- MODULE HotReloadProofs ---------------------------
(***************************************************************************)
(* Proofs about HotReload: its types, and that no reload leaves a bound    *)
(* listener behind or disturbs a service it does not name, whatever the    *)
(* services, ports and files.                                              *)
(*                                                                         *)
(* Why no listener is orphaned depends on where a reload stands.  What the *)
(* daemon serves is what the last configuration says; during a reload, a   *)
(* service is still where the old one put it or already where the new one  *)
(* does, and the loop still has to visit it exactly when the two differ.   *)
(***************************************************************************)
EXTENDS HotReload, TLAPS

Loaded == {"starting", "restoring", "reading", "parsing"}

(* A port or a registration that leads to a service's listener leads to    *)
(* one s.listeners has, at that port.                                      *)
MapPart ==
    /\ \A p \in Ports : portMap[p] \in Names => listens[portMap[p]] = p
    /\ found \in Names => listens[found] # Nil

(* What each stage of the start and each loop of a reload can rely on.     *)
StartPart ==
    /\ boot # "up" => watch = "off" /\ ~missed
    /\ boot = "off" => /\ found = Nil /\ open = {} /\ backed = {}
                       /\ \A p \in Ports : holder[p] # "devlb"
    /\ boot \in Loaded =>
          /\ old \in Configs
          /\ \A n \in Names : listens[n] = IF n \in DOMAIN old THEN old[n] ELSE Nil
    /\ boot = "starting" => todo \subseteq DOMAIN old
LoopPart ==
    /\ watch = "adding"   => todo \subseteq Added(old, lastCfg)
    /\ watch = "removing" => todo \subseteq Removed(old, lastCfg)
    /\ watch = "changing" => todo \subseteq Changed(old, lastCfg)

(* Where a reload may find the listener of a service: where the old        *)
(* configuration puts it, and then the reload comes to it yet if it has    *)
(* to, or bound where the new one does.                                    *)
Awaited(n) ==
    /\ n \in DOMAIN old
    /\ listens[n] = old[n]
    /\ watch = "removing" => n \in todo \cup DOMAIN lastCfg
    /\ watch = "changing" => n \in DOMAIN lastCfg /\ (n \in todo \/ old[n] = lastCfg[n])
Done(n) ==
    /\ n \in open \ todo
    /\ n \in DOMAIN lastCfg
    /\ listens[n] = lastCfg[n]
    /\ watch # "changing" => n \notin DOMAIN old

PlanPart ==
    ~missed =>
        /\ watch \in {"waiting", "parsing"} =>
              /\ lastCfg \in Configs
              /\ \A n \in Names : listens[n] # Nil =>
                    n \in DOMAIN lastCfg /\ listens[n] = lastCfg[n]
        /\ watch \in Reload =>
              \A n \in Names : listens[n] # Nil => Awaited(n) \/ Done(n)

(* A listener that belongs to no service never shares its port with one    *)
(* that does, because a service that could not bind its port still has     *)
(* the port's entry in s.portMap.                                          *)
ClaimPart ==
    ~missed =>
        /\ \A p \in Ports : portMap[p] = "dynamic" => \A n \in Names : listens[n] # p
        /\ \A n \in Names \ open : listens[n] # Nil => portMap[listens[n]] # Nil

ReloadPart ==
    /\ TypeOK /\ MapPart /\ StartPart /\ LoopPart
    /\ PlanPart /\ ClaimPart /\ NoOrphan
-----------------------------------------------------------------------------
USE ConfigsAssumption, PortsAssumption

(* AntiFunction, as NewServer uses it, leads from a port to its service.   *)
LEMMA LookedUp ==
    ASSUME NEW c \in Configs, NEW p \in Range(c)
    PROVE  AntiFunction(c)[p] \in DOMAIN c /\ c[AntiFunction(c)[p]] = p
BY DEF AntiFunction, Inverse, Range

(* What an assumption on the constants says of one valid file.             *)
LEMMA FileFacts ==
    ASSUME NEW c \in Configs
    PROVE  /\ c # Nil /\ c \in Contents
           /\ DOMAIN c \subseteq Names
           /\ \A n \in DOMAIN c : c[n] \in Ports /\ c[n] # Nil
           /\ \A n, m \in DOMAIN c : c[n] = c[m] => n = m
BY DEF Contents

(* Initially nothing is served.                                            *)
LEMMA ReloadInit == Init => ReloadPart
BY DEF Init, ReloadPart, TypeOK, MapPart, StartPart, LoopPart, PlanPart, ClaimPart, NoOrphan,
       Contents, Owners, Reload, Loaded, OpenAt

(* The daemon that loads its file finds every listener by its port.        *)
LEMMA LoadKeeps == ASSUME ReloadPart, LoadConfig PROVE ReloadPart'
<1> USE DEF ReloadPart, TypeOK, LoadConfig, fileVars
<1>f. file \in Configs
  OBVIOUS
<1>1. /\ \A p \in Range(file) : AntiFunction(file)[p] \in DOMAIN file
      /\ \A p \in Range(file) : file[AntiFunction(file)[p]] = p
  BY <1>f, LookedUp
<1>2. \A n \in DOMAIN file : file[n] \in Range(file)
  BY DEF Range
<1>3. \A n \in Names : listens'[n] = IF n \in DOMAIN file THEN file[n] ELSE Nil
  OBVIOUS
<1>4. \A p \in Ports : portMap'[p] = IF p \in Range(file) THEN AntiFunction(file)[p] ELSE Nil
  OBVIOUS
<1>5. boot = "off" /\ watch = "off" /\ ~missed /\ open = {} /\ backed = {} /\ found = Nil
  BY DEF StartPart
<1>6. TypeOK'
  BY <1>1, <1>3, <1>4, <1>5, <1>f, FileFacts DEF Owners, Reload, StartPart, Contents
<1>7. MapPart'
  BY <1>1, <1>3, <1>4, <1>5 DEF MapPart
<1>8. StartPart' /\ LoopPart'
  BY <1>3, <1>5, <1>f DEF StartPart, LoopPart, Loaded
<1>9. PlanPart' /\ NoOrphan'
  BY <1>5 DEF PlanPart, NoOrphan, Reload, StartPart
<1>10. ClaimPart'
  <2>1. \A p \in Ports : portMap'[p] # "dynamic"
    BY <1>1, <1>4, <1>f, FileFacts
  <2>2. \A n \in Names : listens'[n] # Nil => portMap'[listens'[n]] # Nil
    BY <1>1, <1>2, <1>3, <1>4, <1>f, FileFacts
  <2> QED BY <2>1, <2>2 DEF ClaimPart
<1> QED BY <1>6, <1>7, <1>8, <1>9, <1>10

(* A service that starts binds its port or is given up.                    *)
LEMMA StartKeeps ==
    ASSUME ReloadPart, NEW n \in Names, StartService(n) PROVE ReloadPart'
<1> USE DEF ReloadPart, StartService, tableVars, watchVars
<1>1. n \in DOMAIN old /\ listens[n] = old[n] /\ old \in Configs /\ watch = "off" /\ ~missed
  BY DEF StartPart, Loaded
<1>2. listens[n] \in Ports /\ listens[n] # Nil
  BY <1>1, FileFacts
<1>3. TypeOK'
  BY <1>2 DEF TypeOK
<1>4. MapPart' /\ StartPart' /\ LoopPart' /\ PlanPart' /\ ClaimPart'
  BY <1>1, <1>2 DEF MapPart, StartPart, LoopPart, PlanPart, ClaimPart, Reload, Loaded, TypeOK
<1>5. NoOrphan'
  BY <1>1, <1>2 DEF NoOrphan, OpenAt, TypeOK
<1> QED BY <1>3, <1>4, <1>5

(* A registration finds the listener of its port, or binds a new one where *)
(* no service listens or is to listen.                                     *)
LEMMA FindKeeps ==
    ASSUME ReloadPart, NEW p \in Requested, Find(p) PROVE ReloadPart'
<1> USE DEF ReloadPart, Find, watchVars
<1>p. p \in Ports
  OBVIOUS
<1>1. \/ UNCHANGED <<portMap, holder>>
      \/ /\ portMap[p] = Nil
         /\ \E n \in Names : n \in open /\ listens[n] = p /\ portMap' = [portMap EXCEPT ![p] = n]
         /\ UNCHANGED holder
      \/ /\ portMap[p] = Nil /\ OpenAt(p) = {} /\ holder[p] = "free"
         /\ portMap' = [portMap EXCEPT ![p] = "dynamic"]
         /\ holder' = [holder EXCEPT ![p] = "devlb"]
  BY DEF OpenAt, TypeOK
<1>2. TypeOK'
  BY <1>1, <1>p DEF TypeOK, Owners
<1>3. MapPart'
  BY <1>1, <1>p DEF MapPart, TypeOK
<1>4. StartPart' /\ LoopPart' /\ PlanPart'
  BY <1>1, <1>p DEF StartPart, LoopPart, PlanPart, Awaited, Done, Loaded, Reload, TypeOK
<1>5. ClaimPart'
  BY <1>1, <1>p DEF ClaimPart, OpenAt, TypeOK
<1>6. NoOrphan'
  BY <1>1, <1>p DEF NoOrphan, OpenAt, TypeOK
<1> QED BY <1>2, <1>3, <1>4, <1>5, <1>6
(* The steps that only pass to the next stage of the start, and the edits  *)
(* of the file, leave the tables and the ports alone.                      *)
LEMMA StageKeeps ==
    ASSUME ReloadPart,
           \/ EndStart \/ AddBackend \/ EndRestore \/ ReadBaseline
           \/ \E c \in Contents : Edit(c)
    PROVE  ReloadPart'
<1> USE DEF ReloadPart, EndStart, AddBackend, EndRestore, ReadBaseline, Edit, fileVars, watchVars, tableVars
<1>1. TypeOK'
  BY DEF TypeOK, MapPart, Contents, Owners
<1>2. MapPart' /\ LoopPart' /\ NoOrphan'
  BY DEF MapPart, LoopPart, NoOrphan, OpenAt, Added, Removed, Changed
<1>3. StartPart'
  BY DEF StartPart, Loaded, TypeOK
<1>4. PlanPart' /\ ClaimPart'
  BY DEF PlanPart, ClaimPart, Awaited, Done
<1> QED BY <1>1, <1>2, <1>3, <1>4

(* The watcher starts from the daemon's own configuration, unless the file *)
(* has changed between the two reads.                                      *)
LEMMA BaselineKeeps == ASSUME ReloadPart, ParseBaseline PROVE ReloadPart'
<1> USE DEF ReloadPart, ParseBaseline, fileVars, tableVars
<1>1. old \in Configs /\ old # Nil
  BY FileFacts DEF StartPart, Loaded
<1>2. TypeOK'
  BY DEF TypeOK, Reload
<1>3. MapPart' /\ LoopPart' /\ StartPart'
  BY DEF MapPart, LoopPart, StartPart, Loaded
<1>4. ~missed
  BY DEF StartPart
<1>5. ClaimPart' /\ NoOrphan'
  BY <1>4 DEF ClaimPart, NoOrphan, OpenAt
<1>6. PlanPart'
  <2> SUFFICES ASSUME ~missed' PROVE PlanPart'
    BY DEF PlanPart
  <2>1. lastCfg' = old
    OBVIOUS
  <2>2. \A n \in Names : listens[n] # Nil => n \in DOMAIN old /\ listens[n] = old[n]
    BY DEF StartPart, Loaded
  <2> QED BY <1>1, <2>1, <2>2 DEF PlanPart, Reload
<1> QED BY <1>2, <1>3, <1>5, <1>6

(* check of the watcher: a reload begins where the last one has ended.     *)
LEMMA CheckKeeps ==
    ASSUME ReloadPart, ReadFile \/ ParseFails \/ Parse PROVE ReloadPart'
<1> USE DEF ReloadPart, fileVars, tableVars
<1>1. CASE ReadFile \/ ParseFails
  <2> USE DEF ReadFile, ParseFails
  <2>1. TypeOK'
    BY <1>1 DEF TypeOK, Reload
  <2>2. MapPart' /\ LoopPart' /\ StartPart' /\ ClaimPart' /\ NoOrphan'
    BY <1>1 DEF MapPart, LoopPart, StartPart, Loaded, ClaimPart, NoOrphan, OpenAt
  <2>3. PlanPart'
    BY <1>1 DEF PlanPart, Reload
  <2> QED BY <2>1, <2>2, <2>3
<1>2. CASE Parse
  <2> USE <1>2 DEF Parse
  <2>1. TypeOK'
    <3>1. lastCfg # Nil /\ lastCfg' # Nil /\ todo' \subseteq Names
      BY FileFacts DEF Added
    <3> QED BY <3>1 DEF TypeOK, Reload
  <2>2. MapPart' /\ LoopPart' /\ StartPart' /\ ClaimPart' /\ NoOrphan'
    BY DEF MapPart, LoopPart, StartPart, Loaded, ClaimPart, NoOrphan, OpenAt, Added
  <2>3. PlanPart'
    BY DEF PlanPart, Awaited
  <2> QED BY <2>1, <2>2, <2>3
<1> QED BY <1>1, <1>2

(* A reload passes to its next loop when it has visited every service the  *)
(* present one is for.                                                     *)
LEMMA LoopKeeps ==
    ASSUME ReloadPart, EndAdd \/ EndRemove \/ EndChange PROVE ReloadPart'
<1> USE DEF ReloadPart, fileVars, tableVars, EndAdd, EndRemove, EndChange
<1>1. TypeOK'
  BY FileFacts DEF TypeOK, Reload, Removed, Changed
<1>2. MapPart' /\ LoopPart' /\ StartPart' /\ ClaimPart' /\ NoOrphan'
  BY DEF MapPart, LoopPart, StartPart, Loaded, ClaimPart, NoOrphan, OpenAt, Removed, Changed
<1>3. PlanPart'
  <2> SUFFICES ASSUME ~missed PROVE PlanPart'
    BY DEF PlanPart
  <2>1. watch' \in Reload =>
           \A n \in Names : listens[n] # Nil => Awaited(n)' \/ Done(n)'
    BY DEF PlanPart, Awaited, Done, Reload, Removed, Changed
  <2>2. watch' = "waiting" =>
           \A n \in Names : listens[n] # Nil => n \in DOMAIN lastCfg /\ listens[n] = lastCfg[n]
    BY DEF PlanPart, Awaited, Done, Reload
  <2>3. watch' # "parsing" /\ (watch' = "waiting" => lastCfg \in Configs)
    BY DEF TypeOK, Reload
  <2> QED BY <2>1, <2>2, <2>3 DEF PlanPart
<1> QED BY <1>1, <1>2, <1>3

(* The end of the daemon frees its ports and forgets its tables.           *)
LEMMA DownKeeps == ASSUME ReloadPart, Down PROVE ReloadPart'
<1> USE DEF ReloadPart, Down
<1>1. TypeOK'
  BY DEF TypeOK, Owners, Reload
<1>2. MapPart' /\ LoopPart' /\ PlanPart' /\ ClaimPart'
  BY DEF MapPart, LoopPart, PlanPart, ClaimPart, Reload
<1>3. \A p \in Ports : holder'[p] # "devlb"
  OBVIOUS
<1>4. StartPart' /\ NoOrphan'
  BY <1>3 DEF StartPart, NoOrphan, Loaded
<1> QED BY <1>1, <1>2, <1>4

(* Other programs take ports that are free and give back their own.        *)
LEMMA OthersKeep ==
    ASSUME ReloadPart, NEW p \in Contested, Occupy(p) \/ Vacate(p) PROVE ReloadPart'
<1> USE DEF ReloadPart, Occupy, Vacate, watchVars, tableVars
<1>1. \A q \in Ports : holder'[q] = "devlb" <=> holder[q] = "devlb"
  BY DEF TypeOK
<1>2. TypeOK'
  BY DEF TypeOK
<1>3. MapPart' /\ LoopPart' /\ StartPart' /\ NoOrphan'
  BY <1>1 DEF MapPart, LoopPart, StartPart, Loaded, NoOrphan, OpenAt, Added, Removed, Changed
<1>4. PlanPart' /\ ClaimPart'
  BY DEF PlanPart, ClaimPart, Awaited, Done
<1> QED BY <1>2, <1>3, <1>4
-----------------------------------------------------------------------------
(* What one service's visit does to the tables, in the cases the loops     *)
(* have.                                                                   *)
LEMMA ReleaseFacts ==
    ASSUME TypeOK, NEW n \in Names, NEW p \in Ports
    PROVE  /\ Release(n) \in [Ports -> {"free", "devlb", "other"}]
           /\ Release(n)[p] = "devlb" <=>
                 holder[p] = "devlb" /\ ~(n \in open /\ listens[n] = p)
BY DEF Release, TypeOK

LEMMA UnmappedFacts ==
    ASSUME TypeOK, NEW n \in Names
    PROVE  /\ Unmapped(n) \in [Ports -> Owners]
           /\ Unfound(n) \in Owners
           /\ Unfound(n) # n
           /\ Unfound(n) \in Names => Unfound(n) = found
           /\ \A p \in Ports :
                 /\ Unmapped(n)[p] # n
                 /\ Unmapped(n)[p] \in Names \cup {"dynamic"} => Unmapped(n)[p] = portMap[p]
                 /\ portMap[p] # Nil /\ p # old[n] /\ ~(n \in open /\ p = listens[n])
                       => Unmapped(n)[p] # Nil
                 /\ portMap[p] = "dynamic" /\ p # old[n] /\ ~(n \in open /\ p = listens[n])
                       => Unmapped(n)[p] = "dynamic"
BY DEF Unmapped, Unfound, Owners, TypeOK

LEMMA StrayFacts ==
    ASSUME NEW n \in Names, NEW o \in Owners
    PROVE  /\ Stray(o, n) \in Owners
           /\ Stray(o, n) \in Names => Stray(o, n) = o /\ o # n
           /\ o # Nil => Stray(o, n) # Nil
           /\ o # n => Stray(o, n) = o
BY DEF Stray, Owners

(* Without a missed edit, a visit is to a service still where the old      *)
(* configuration put it, and one of the first loop to one not there at     *)
(* all.                                                                    *)
LEMMA VisitFacts ==
    ASSUME ReloadPart, ~missed, watch \in Reload, NEW n \in todo, listens[n] # Nil
    PROVE  Awaited(n) /\ watch # "adding"
<1>1. n \in Names
  BY DEF ReloadPart, TypeOK
<1>2. Awaited(n)
  BY <1>1 DEF ReloadPart, PlanPart, Done
<1> QED BY <1>2 DEF Awaited, ReloadPart, LoopPart, Added

(* The first loop starts a service, where its port is free.                *)
LEMMA AddKeeps == ASSUME ReloadPart, NEW n \in Names, Add(n) PROVE ReloadPart'
<1> DEFINE p == lastCfg[n]
<1>w. watch = "adding" /\ watch' = "adding" /\ watch \in Reload /\ n \in todo /\ boot = "up"
  BY DEF ReloadPart, StartPart, Add, watchVars, Reload
<1>c. lastCfg \in Configs /\ old \in Configs
  BY <1>w DEF ReloadPart, TypeOK
<1>p. p \in Ports /\ p # Nil /\ n \in DOMAIN lastCfg \ DOMAIN old
  BY <1>w, <1>c, FileFacts DEF ReloadPart, LoopPart, Added
<1>r. UNCHANGED <<file, boot, watchVars>> /\ todo' = todo \ {n}
  BY DEF Add
<1>s. StartPart' /\ LoopPart'
  BY <1>w, <1>r DEF ReloadPart, StartPart, LoopPart, Loaded, watchVars
<1>1. CASE UNCHANGED <<holder, tableVars>>
  <2>1. TypeOK' /\ MapPart' /\ ClaimPart' /\ NoOrphan'
    BY <1>1, <1>r DEF ReloadPart, TypeOK, MapPart, ClaimPart, NoOrphan, OpenAt, watchVars, tableVars
  <2>2. PlanPart'
    BY <1>1, <1>r, <1>w DEF ReloadPart, PlanPart, Awaited, Done, watchVars, tableVars
  <2> QED BY <1>s, <2>1, <2>2 DEF ReloadPart
<1>2. CASE holder[p] = "free"
  <2>1. /\ holder' = [holder EXCEPT ![p] = "devlb"]
        /\ listens' = [listens EXCEPT ![n] = p]
        /\ open' = open \cup {n}
        /\ backed' = backed \ {n}
        /\ portMap' = [[q \in Ports |-> Stray(portMap[q], n)] EXCEPT ![p] = n]
        /\ found' = Stray(found, n)
    BY <1>2 DEF Add
  <2>o. \A q \in Ports : portMap[q] \in Owners
    BY DEF ReloadPart, TypeOK
  <2>2. portMap'[p] = n /\ \A q \in Ports \ {p} : portMap'[q] = Stray(portMap[q], n)
    BY <2>1, <1>p
  <2>3. TypeOK'
    <3>1. portMap' \in [Ports -> Owners]
      BY <2>1, <2>2, <2>o, StrayFacts DEF Owners
    <3>2. found' \in Owners
      BY <2>1, StrayFacts DEF ReloadPart, TypeOK
    <3>3. listens' \in [Names -> Ports \cup {Nil}] /\ holder' \in [Ports -> {"free", "devlb", "other"}]
      BY <2>1, <1>p DEF ReloadPart, TypeOK
    <3>4. open' \subseteq {m \in Names : listens'[m] # Nil} /\ backed' \subseteq {m \in Names : listens'[m] # Nil}
      BY <2>1, <1>p DEF ReloadPart, TypeOK
    <3> QED BY <3>1, <3>2, <3>3, <3>4, <1>r DEF ReloadPart, TypeOK, watchVars
  <2>4. MapPart'
    <3>1. ASSUME NEW q \in Ports, portMap'[q] \in Names PROVE listens'[portMap'[q]] = q
      <4>1. CASE q = p
        BY <4>1, <2>1, <2>2 DEF ReloadPart, TypeOK
      <4>2. CASE q # p
        <5>1. portMap'[q] = portMap[q] /\ portMap[q] # n
          BY <4>2, <2>2, <2>o, <3>1, StrayFacts
        <5> QED BY <5>1, <3>1, <2>1 DEF ReloadPart, TypeOK, MapPart
      <4> QED BY <4>1, <4>2
    <3>2. found' \in Names => listens'[found'] # Nil
      <4>1. found' \in Names => found' = found /\ found # n
        BY <2>1, StrayFacts DEF ReloadPart, TypeOK
      <4> QED BY <4>1, <2>1 DEF ReloadPart, TypeOK, MapPart
    <3> QED BY <3>1, <3>2 DEF MapPart
  <2>5. ASSUME ~missed PROVE PlanPart' /\ ClaimPart' /\ NoOrphan'
    <3>1. listens[n] = Nil /\ n \notin open
      BY <2>5, <1>w, VisitFacts DEF ReloadPart, TypeOK
    <3>2. \A q \in Ports : portMap[q] # n
      BY <3>1 DEF ReloadPart, MapPart
    <3>3. \A q \in Ports \ {p} : portMap'[q] = portMap[q]
      BY <3>2, <2>2, <2>o, StrayFacts
    <3>4. PlanPart'
      <4>1. ASSUME NEW m \in Names, listens'[m] # Nil PROVE Awaited(m)' \/ Done(m)'
        <5>1. CASE m = n
          BY <5>1, <2>1, <1>r, <1>p DEF Done, watchVars, ReloadPart, TypeOK
        <5>2. CASE m # n
          <6>1. listens[m] = listens'[m]
            BY <5>2, <2>1 DEF ReloadPart, TypeOK
          <6>2. Awaited(m) \/ Done(m)
            BY <6>1, <4>1, <2>5, <1>w DEF ReloadPart, PlanPart
          <6> QED BY <6>1, <6>2, <5>2, <2>1, <1>r, <1>w DEF Awaited, Done, watchVars
        <5> QED BY <5>1, <5>2
      <4> QED BY <4>1, <1>w DEF PlanPart
    <3>5. ClaimPart'
      BY <3>1, <3>3, <2>1, <2>2, <2>5, <1>p DEF ClaimPart, ReloadPart, TypeOK
    <3>6. NoOrphan'
      <4>1. ASSUME NEW q \in Ports, holder'[q] = "devlb"
            PROVE  portMap'[q] = "dynamic" \/ \E m \in open' : listens'[m] = q
        <5>1. CASE q = p
          BY <5>1, <2>1 DEF ReloadPart, TypeOK
        <5>2. CASE q # p
          <6>1. portMap[q] = "dynamic" \/ \E m \in open : listens[m] = q
            BY <5>2, <4>1, <2>1, <2>5 DEF ReloadPart, NoOrphan, OpenAt, TypeOK
          <6> QED BY <6>1, <5>2, <3>1, <3>3, <2>1 DEF ReloadPart, TypeOK
        <5> QED BY <5>1, <5>2
      <4> QED BY <4>1 DEF NoOrphan, OpenAt
    <3> QED BY <3>4, <3>5, <3>6
  <2>6. PlanPart' /\ ClaimPart' /\ NoOrphan'
    <3>1. missed' = missed
      BY <1>r DEF watchVars
    <3> QED BY <2>5, <3>1 DEF PlanPart, ClaimPart, NoOrphan
  <2> QED BY <1>s, <2>3, <2>4, <2>6 DEF ReloadPart
<1> QED BY <1>1, <1>2 DEF Add
(* The visits of the other two loops: the service's listener is left       *)
(* alone, stopped and forgotten, or stopped and started again elsewhere.   *)
Moved(n, p) ==
    /\ Release(n)[p] = "free"
    /\ holder' = [Release(n) EXCEPT ![p] = "devlb"]
    /\ listens' = [listens EXCEPT ![n] = p]
    /\ open' = open \cup {n}
    /\ portMap' = [Unmapped(n) EXCEPT ![p] = n]
    /\ backed' = backed \ {n}
    /\ found' = Unfound(n)

Visit(n) ==
    /\ watch \in {"removing", "changing"}
    /\ n \in todo
    /\ todo' = todo \ {n}
    /\ UNCHANGED <<file, boot, watchVars>>

(* What holds of every such visit, wherever it leaves the listener.        *)
LEMMA VisitKeeps ==
    ASSUME ReloadPart, NEW n \in Names, Visit(n)
    PROVE  StartPart' /\ LoopPart'
BY DEF ReloadPart, StartPart, LoopPart, Visit, Loaded, watchVars, Added, Removed, Changed

LEMMA PassKeeps ==
    ASSUME ReloadPart, NEW n \in Names, Visit(n), UNCHANGED <<holder, tableVars>>,
           listens[n] = Nil
    PROVE  ReloadPart'
<1> USE DEF ReloadPart, Visit, watchVars, tableVars
<1>1. TypeOK' /\ MapPart' /\ ClaimPart' /\ NoOrphan'
  BY DEF TypeOK, MapPart, ClaimPart, NoOrphan, OpenAt
<1>2. PlanPart'
  BY DEF PlanPart, Awaited, Done
<1> QED BY <1>1, <1>2, VisitKeeps

LEMMA DiscardKeeps ==
    ASSUME ReloadPart, NEW n \in Names, Visit(n), Discard(n), listens[n] # Nil
    PROVE  ReloadPart'
<1>w. watch' = watch /\ watch \in Reload /\ n \in todo /\ todo' = todo \ {n}
      /\ lastCfg' = lastCfg /\ old' = old /\ missed' = missed
  BY DEF Visit, watchVars, Reload
<1>t. TypeOK /\ MapPart
  BY DEF ReloadPart
<1>1. /\ listens' = [listens EXCEPT ![n] = Nil]
      /\ open' = open \ {n} /\ backed' = backed \ {n}
      /\ portMap' = Unmapped(n) /\ found' = Unfound(n)
      /\ holder' = Release(n)
  BY DEF Discard, Forget
<1>2. listens'[n] = Nil /\ \A m \in Names \ {n} : listens'[m] = listens[m]
  BY <1>1, <1>t DEF TypeOK
<1>3. TypeOK'
  <2>1. portMap' \in [Ports -> Owners] /\ found' \in Owners
    BY <1>1, <1>t, UnmappedFacts
  <2>2. holder' \in [Ports -> {"free", "devlb", "other"}]
    BY <1>1, <1>t DEF TypeOK, Release
  <2>3. listens' \in [Names -> Ports \cup {Nil}]
    BY <1>1, <1>t DEF TypeOK
  <2>4. open' \subseteq {m \in Names : listens'[m] # Nil} /\ backed' \subseteq {m \in Names : listens'[m] # Nil}
    BY <1>1, <1>2, <1>t DEF TypeOK
  <2> QED BY <2>1, <2>2, <2>3, <2>4, <1>t DEF TypeOK, Visit, watchVars
<1>4. MapPart'
  <2>1. ASSUME NEW q \in Ports, portMap'[q] \in Names PROVE listens'[portMap'[q]] = q
    <3>1. portMap'[q] = portMap[q] /\ portMap[q] # n
      BY <1>1, <1>t, <2>1, UnmappedFacts
    <3> QED BY <3>1, <2>1, <1>2, <1>t DEF MapPart
  <2>2. found' \in Names => listens'[found'] # Nil
    BY <1>1, <1>2, <1>t, UnmappedFacts DEF MapPart
  <2> QED BY <2>1, <2>2 DEF MapPart
<1>5. ASSUME ~missed PROVE PlanPart' /\ ClaimPart' /\ NoOrphan'
  <2>1. listens[n] = old[n] /\ old[n] \in Ports
    BY <1>5, <1>w, <1>t, VisitFacts DEF Awaited, TypeOK
  <2>2. PlanPart'
    <3>1. ASSUME NEW m \in Names, listens'[m] # Nil PROVE Awaited(m)' \/ Done(m)'
      <4>1. m # n /\ listens'[m] = listens[m]
        BY <1>2, <3>1
      <4>2. Awaited(m) \/ Done(m)
        BY <4>1, <3>1, <1>5, <1>w DEF ReloadPart, PlanPart
      <4> QED BY <4>1, <4>2, <1>1, <1>w DEF Awaited, Done
    <3>2. watch' \notin {"waiting", "parsing"}
      BY <1>w DEF Reload
    <3> QED BY <3>1, <3>2 DEF PlanPart
  <2>3. ASSUME NEW q \in Ports, portMap[q] = "dynamic" PROVE portMap'[q] = "dynamic"
    <3>1. listens[n] # q
      BY <2>3, <1>5 DEF ReloadPart, ClaimPart
    <3> QED BY <3>1, <2>1, <2>3, <1>1, <1>t, UnmappedFacts
  <2>4. ClaimPart'
    <3>1. ASSUME NEW q \in Ports, portMap'[q] = "dynamic", NEW m \in Names PROVE listens'[m] # q
      <4>1. portMap[q] = "dynamic"
        BY <3>1, <1>1, <1>t, UnmappedFacts
      <4>2. q # Nil
        OBVIOUS
      <4> QED BY <4>1, <4>2, <1>2, <1>5 DEF ReloadPart, ClaimPart
    <3>2. ASSUME NEW m \in Names \ open', listens'[m] # Nil PROVE portMap'[listens'[m]] # Nil
      <4>1. m # n /\ m \notin open /\ listens'[m] = listens[m] /\ listens[m] \in Ports
        BY <3>2, <1>1, <1>2, <1>t DEF TypeOK
      <4>2. listens[m] = old[m] /\ m \in DOMAIN old /\ n \in DOMAIN old
        BY <4>1, <3>2, <1>5, <1>w, VisitFacts DEF ReloadPart, PlanPart, Awaited, Done
      <4>3. old[m] # old[n]
        BY <4>1, <4>2, <1>w, <1>t, FileFacts DEF TypeOK
      <4>4. portMap[listens[m]] # Nil
        BY <4>1, <3>2, <1>5 DEF ReloadPart, ClaimPart
      <4> QED BY <4>1, <4>2, <4>3, <4>4, <2>1, <1>1, <1>t, UnmappedFacts
    <3> QED BY <3>1, <3>2 DEF ClaimPart
  <2>5. NoOrphan'
    <3>1. ASSUME NEW q \in Ports, holder'[q] = "devlb"
          PROVE  portMap'[q] = "dynamic" \/ \E m \in open' : listens'[m] = q
      <4>1. holder[q] = "devlb" /\ ~(n \in open /\ listens[n] = q)
        BY <3>1, <1>1, <1>t, ReleaseFacts
      <4>2. portMap[q] = "dynamic" \/ \E m \in open : listens[m] = q
        BY <4>1, <1>5 DEF ReloadPart, NoOrphan, OpenAt
      <4> QED BY <4>1, <4>2, <2>3, <1>1, <1>2, <1>t DEF TypeOK
    <3> QED BY <3>1 DEF NoOrphan, OpenAt
  <2> QED BY <2>2, <2>4, <2>5
<1>6. PlanPart' /\ ClaimPart' /\ NoOrphan'
  BY <1>5, <1>w DEF PlanPart, ClaimPart, NoOrphan
<1> QED BY <1>3, <1>4, <1>6, VisitKeeps DEF ReloadPart

LEMMA MovedKeeps ==
    ASSUME ReloadPart, NEW n \in Names, Visit(n), watch = "changing",
           listens[n] # Nil, Moved(n, lastCfg[n])
    PROVE  ReloadPart'
<1> DEFINE p == lastCfg[n]
<1>w. watch' = watch /\ watch \in Reload /\ n \in todo /\ todo' = todo \ {n}
      /\ lastCfg' = lastCfg /\ old' = old /\ missed' = missed
  BY DEF Visit, watchVars, Reload
<1>t. TypeOK /\ MapPart
  BY DEF ReloadPart
<1>c. lastCfg \in Configs /\ old \in Configs
  BY <1>w, <1>t DEF TypeOK
<1>p. p \in Ports /\ p # Nil /\ n \in DOMAIN lastCfg \cap DOMAIN old
  BY <1>w, <1>c, FileFacts DEF ReloadPart, LoopPart, Changed
<1>1. /\ listens' = [listens EXCEPT ![n] = p]
      /\ open' = open \cup {n} /\ backed' = backed \ {n}
      /\ portMap' = [Unmapped(n) EXCEPT ![p] = n] /\ found' = Unfound(n)
      /\ holder' = [Release(n) EXCEPT ![p] = "devlb"]
  BY DEF Moved
<1>2. listens'[n] = p /\ \A m \in Names \ {n} : listens'[m] = listens[m]
  BY <1>1, <1>t DEF TypeOK
<1>u. portMap'[p] = n /\ \A q \in Ports \ {p} : portMap'[q] = Unmapped(n)[q]
  BY <1>1, <1>p, <1>t, UnmappedFacts
<1>3. TypeOK'
  <2>1. portMap' \in [Ports -> Owners] /\ found' \in Owners
    BY <1>1, <1>t, UnmappedFacts DEF Owners
  <2>2. holder' \in [Ports -> {"free", "devlb", "other"}]
    BY <1>1, <1>t DEF TypeOK, Release
  <2>3. listens' \in [Names -> Ports \cup {Nil}]
    BY <1>1, <1>p, <1>t DEF TypeOK
  <2>4. open' \subseteq {m \in Names : listens'[m] # Nil} /\ backed' \subseteq {m \in Names : listens'[m] # Nil}
    BY <1>1, <1>2, <1>p, <1>t DEF TypeOK
  <2> QED BY <2>1, <2>2, <2>3, <2>4, <1>t DEF TypeOK, Visit, watchVars
<1>4. MapPart'
  <2>1. ASSUME NEW q \in Ports, portMap'[q] \in Names PROVE listens'[portMap'[q]] = q
    <3>1. CASE q = p
      BY <3>1, <1>u, <1>2
    <3>2. CASE q # p
      <4>1. portMap'[q] = portMap[q] /\ portMap[q] # n
        BY <3>2, <1>u, <1>t, <2>1, UnmappedFacts
      <4> QED BY <4>1, <2>1, <1>2, <1>t DEF MapPart
    <3> QED BY <3>1, <3>2
  <2>2. found' \in Names => listens'[found'] # Nil
    BY <1>1, <1>2, <1>t, UnmappedFacts DEF MapPart
  <2> QED BY <2>1, <2>2 DEF MapPart
<1>5. ASSUME ~missed PROVE PlanPart' /\ ClaimPart' /\ NoOrphan'
  <2>1. listens[n] = old[n] /\ old[n] \in Ports
    BY <1>5, <1>w, <1>t, VisitFacts DEF Awaited, TypeOK
  <2>2. PlanPart'
    <3>1. ASSUME NEW m \in Names, listens'[m] # Nil PROVE Awaited(m)' \/ Done(m)'
      <4>1. CASE m = n
        BY <4>1, <1>1, <1>2, <1>p, <1>w DEF Done
      <4>2. CASE m # n
        <5>1. Awaited(m) \/ Done(m)
          BY <4>2, <1>2, <3>1, <1>5, <1>w DEF ReloadPart, PlanPart
        <5> QED BY <4>2, <5>1, <1>1, <1>2, <1>w DEF Awaited, Done
      <4> QED BY <4>1, <4>2
    <3>2. watch' \notin {"waiting", "parsing"}
      BY <1>w DEF Reload
    <3> QED BY <3>1, <3>2 DEF PlanPart
  <2>3. ASSUME NEW q \in Ports \ {p}, portMap[q] = "dynamic" PROVE portMap'[q] = "dynamic"
    <3>1. listens[n] # q
      BY <2>3, <1>5 DEF ReloadPart, ClaimPart
    <3> QED BY <3>1, <2>1, <2>3, <1>u, <1>t, UnmappedFacts
  <2>4. ClaimPart'
    <3>1. ASSUME NEW q \in Ports, portMap'[q] = "dynamic", NEW m \in Names PROVE listens'[m] # q
      <4>1. q # p
        BY <3>1, <1>u
      <4>2. portMap[q] = "dynamic"
        BY <4>1, <3>1, <1>u, <1>t, UnmappedFacts
      <4> QED BY <4>1, <4>2, <1>2, <1>5 DEF ReloadPart, ClaimPart
    <3>2. ASSUME NEW m \in Names \ open', listens'[m] # Nil PROVE portMap'[listens'[m]] # Nil
      <4>1. m # n /\ m \notin open /\ listens'[m] = listens[m] /\ listens[m] \in Ports
        BY <3>2, <1>1, <1>2, <1>t DEF TypeOK
      <4>2. listens[m] = old[m] /\ m \in DOMAIN old
        BY <4>1, <3>2, <1>5, <1>w DEF ReloadPart, PlanPart, Awaited, Done
      <4>3. old[m] # old[n]
        BY <4>1, <4>2, <1>c, <1>p, FileFacts
      <4>4. portMap[listens[m]] # Nil
        BY <4>1, <3>2, <1>5 DEF ReloadPart, ClaimPart
      <4>5. Unmapped(n)[listens[m]] # Nil
        BY <4>1, <4>2, <4>3, <4>4, <2>1, <1>t, UnmappedFacts
      <4> QED BY <4>1, <4>5, <1>u
    <3> QED BY <3>1, <3>2 DEF ClaimPart
  <2>5. NoOrphan'
    <3>1. ASSUME NEW q \in Ports, holder'[q] = "devlb"
          PROVE  portMap'[q] = "dynamic" \/ \E m \in open' : listens'[m] = q
      <4>1. CASE q = p
        BY <4>1, <1>1, <1>2
      <4>2. CASE q # p
        <5>1. Release(n)[q] = "devlb"
          BY <4>2, <3>1, <1>1, <1>p, <1>t, ReleaseFacts
        <5>2. holder[q] = "devlb" /\ ~(n \in open /\ listens[n] = q)
          BY <5>1, <1>t, ReleaseFacts
        <5>3. portMap[q] = "dynamic" \/ \E m \in open : listens[m] = q
          BY <5>2, <1>5 DEF ReloadPart, NoOrphan, OpenAt
        <5> QED BY <4>2, <5>2, <5>3, <2>3, <1>1, <1>2, <1>t DEF TypeOK
      <4> QED BY <4>1, <4>2
    <3> QED BY <3>1 DEF NoOrphan, OpenAt
  <2> QED BY <2>2, <2>4, <2>5
<1>6. PlanPart' /\ ClaimPart' /\ NoOrphan'
  BY <1>5, <1>w DEF PlanPart, ClaimPart, NoOrphan
<1> QED BY <1>3, <1>4, <1>6, VisitKeeps DEF ReloadPart
-----------------------------------------------------------------------------
LEMMA LoopVisits ==
    ASSUME ReloadPart, NEW n \in Names, Remove(n) \/ Move(n)
    PROVE  /\ Visit(n)
           /\ \/ listens[n] = Nil /\ UNCHANGED <<holder, tableVars>>
              \/ listens[n] # Nil /\ Discard(n)
              \/ listens[n] # Nil /\ watch = "changing" /\ Moved(n, lastCfg[n])
<1>1. CASE Remove(n)
  BY <1>1 DEF Remove, Visit
<1>2. CASE Move(n)
  <2>1. Visit(n)
    BY <1>2 DEF Move, Visit
  <2>2. CASE listens[n] = Nil
    BY <1>2, <2>1, <2>2 DEF Move
  <2>3. CASE listens[n] # Nil /\ Release(n)[lastCfg[n]] = "free"
    BY <1>2, <2>1, <2>3 DEF Move, Moved
  <2>4. CASE listens[n] # Nil /\ Release(n)[lastCfg[n]] # "free"
    BY <1>2, <2>1, <2>4 DEF Move
  <2> QED BY <2>2, <2>3, <2>4
<1> QED BY <1>1, <1>2

LEMMA ReloadNext == ASSUME ReloadPart, [Next]_vars PROVE ReloadPart'
<1>1. CASE LoadConfig
  BY <1>1, LoadKeeps
<1>2. CASE StartStep
  BY <1>2, StartKeeps, StageKeeps, BaselineKeeps DEF StartStep
<1>3. CASE ReadFile \/ ParseFails \/ Parse
  BY <1>3, CheckKeeps
<1>4. CASE Panic \/ Quit
  BY <1>4, DownKeeps DEF Panic, Quit
<1>5. CASE \E n \in Names : Add(n)
  BY <1>5, AddKeeps
<1>6. CASE \E n \in Names : Remove(n) \/ Move(n)
  BY <1>6, LoopVisits, PassKeeps, DiscardKeeps, MovedKeeps
<1>7. CASE EndAdd \/ EndRemove \/ EndChange
  BY <1>7, LoopKeeps
<1>8. CASE \E p \in Requested : Find(p)
  BY <1>8, FindKeeps
<1>9. CASE \E c \in Contents : Edit(c)
  BY <1>9, StageKeeps
<1>10. CASE \E p \in Contested : Occupy(p) \/ Vacate(p)
  BY <1>10, OthersKeep
<1>11. CASE UNCHANGED vars
  <2> USE <1>11 DEF vars, fileVars, watchVars, tableVars
  <2>1. TypeOK' /\ MapPart' /\ StartPart' /\ LoopPart' /\ ClaimPart' /\ NoOrphan'
    BY DEF ReloadPart, TypeOK, MapPart, StartPart, LoopPart, ClaimPart, NoOrphan, OpenAt
  <2>2. PlanPart'
    BY DEF ReloadPart, PlanPart, Awaited, Done
  <2> QED BY <2>1, <2>2 DEF ReloadPart
<1> QED BY <1>1, <1>2, <1>3, <1>4, <1>5, <1>6, <1>7, <1>8, <1>9, <1>10, <1>11
      DEF Next, WatchStep

(* The tables of the daemon and the stages of its watcher keep their       *)
(* types; a reload always has an old and a new configuration.              *)
THEOREM ReloadTyped == SafeSpec => []TypeOK
<1>1. ReloadPart => TypeOK
  BY DEF ReloadPart
<1> QED BY <1>1, ReloadInit, ReloadNext, PTL DEF SafeSpec

(* Whatever reloads follow each other and whatever ports other programs    *)
(* take meanwhile, every port the daemon holds is held by a listener it    *)
(* can find again, unless the watcher has missed an edit at the start.     *)
THEOREM NothingIsOrphaned == SafeSpec => []NoOrphan
<1>1. ReloadPart => NoOrphan
  BY DEF ReloadPart
<1> QED BY <1>1, ReloadInit, ReloadNext, PTL DEF SafeSpec

(* The step a reload takes for one service, seen by another.               *)
LEMMA OthersAreLeft ==
    ASSUME ReloadPart, ~missed, watch \in Reload, NEW n \in Names, Untouched(n),
           NEW m \in Names, Add(m) \/ Remove(m) \/ Move(m)
    PROVE  /\ listens'[n] = listens[n]
           /\ n \in open <=> n \in open'
           /\ n \in backed => n \in backed'
           /\ portMap[listens[n]] = n => portMap'[listens[n]] = n
<1>t. TypeOK /\ lastCfg \in Configs /\ old \in Configs
  BY DEF ReloadPart, TypeOK
<1>n. n \in DOMAIN old \cap DOMAIN lastCfg /\ old[n] = lastCfg[n] /\ listens[n] # Nil
  BY DEF Untouched
<1>l. listens[n] = old[n] /\ listens[n] \in Ports
  BY <1>t, <1>n DEF ReloadPart, PlanPart, Awaited, Done, TypeOK
<1>1. m \in todo
  BY DEF Add, Remove, Move
<1>2. m # n
  BY <1>1, <1>n DEF ReloadPart, LoopPart, Reload, Added, Removed, Changed
<1>3. CASE Add(m)
  <2>1. m \in DOMAIN lastCfg /\ lastCfg[m] # lastCfg[n]
    BY <1>1, <1>2, <1>3, <1>n, <1>t, FileFacts DEF ReloadPart, LoopPart, Added, Add
  <2>2. portMap[listens[n]] = n => Stray(portMap[listens[n]], m) = n
    BY <1>2 DEF Stray
  <2>3. CASE UNCHANGED <<holder, tableVars>>
    BY <2>3 DEF tableVars
  <2>4. CASE holder[lastCfg[m]] = "free"
    <3>1. /\ listens' = [listens EXCEPT ![m] = lastCfg[m]]
          /\ open' = open \cup {m} /\ backed' = backed \ {m}
          /\ portMap' = [[q \in Ports |-> Stray(portMap[q], m)] EXCEPT ![lastCfg[m]] = m]
      BY <1>3, <2>4 DEF Add
    <3>2. portMap'[listens[n]] = Stray(portMap[listens[n]], m)
      BY <3>1, <2>1, <1>n, <1>l
    <3> QED BY <3>1, <3>2, <2>2, <1>2, <1>t DEF TypeOK
  <2> QED BY <1>3, <2>3, <2>4 DEF Add
<1>4. CASE Remove(m) \/ Move(m)
  <2>1. Visit(m)
    BY <1>4, LoopVisits
  <2>2. m \in DOMAIN old /\ old[m] # old[n]
    BY <1>1, <1>2, <1>n, <1>t, <2>1, FileFacts DEF ReloadPart, LoopPart, Removed, Changed, Visit
  <2>3. listens[m] # Nil => listens[m] = old[m]
    BY <1>1, VisitFacts DEF Awaited
  <2>4. listens[m] # Nil /\ portMap[listens[n]] = n => Unmapped(m)[listens[n]] = n
    BY <1>2, <1>l, <2>2, <2>3 DEF Unmapped
  <2>5. CASE listens[m] = Nil /\ UNCHANGED <<holder, tableVars>>
    BY <2>5 DEF tableVars
  <2>6. CASE listens[m] # Nil /\ Discard(m)
    BY <1>2, <1>t, <1>l, <2>4, <2>6 DEF Discard, Forget, TypeOK
  <2>7. CASE listens[m] # Nil /\ watch = "changing" /\ Moved(m, lastCfg[m])
    <3>1. lastCfg[m] # lastCfg[n]
      BY <1>1, <1>2, <1>n, <1>t, <2>7, FileFacts DEF ReloadPart, LoopPart, Changed
    <3>2. portMap'[listens[n]] = Unmapped(m)[listens[n]]
      BY <1>n, <1>l, <1>t, <2>7, <3>1, UnmappedFacts DEF Moved
    <3> QED BY <1>2, <1>t, <1>l, <2>4, <2>7, <3>2 DEF Moved, TypeOK
  <2> QED BY <1>4, <2>5, <2>6, <2>7, LoopVisits
<1> QED BY <1>3, <1>4

(* A reload leaves a service alone whose entry the files agree on: its     *)
(* listener keeps its port and its backends and stays where the daemon's   *)
(* clients find it.                                                        *)
THEOREM ServicesAreKept == SafeSpec => KeptService
<1>1. ASSUME ReloadPart, [Next]_vars
      PROVE  [\A n \in Names :
                 ~missed /\ watch \in Reload /\ Untouched(n) /\ boot' = "up" =>
                    /\ listens'[n] = listens[n]
                    /\ n \in open <=> n \in open'
                    /\ n \in backed => n \in backed'
                    /\ portMap[listens[n]] = n => portMap'[listens[n]] = n]_vars
  <2> SUFFICES ASSUME Next, NEW n \in Names,
                      ~missed, watch \in Reload, Untouched(n), boot' = "up"
               PROVE  /\ listens'[n] = listens[n]
                      /\ n \in open <=> n \in open'
                      /\ n \in backed => n \in backed'
                      /\ portMap[listens[n]] = n => portMap'[listens[n]] = n
    BY <1>1
  <2>1. boot = "up"
    BY <1>1 DEF ReloadPart, StartPart, Reload
  <2>2. CASE UNCHANGED tableVars
    BY <2>2 DEF tableVars
  <2>3. CASE AddBackend
    BY <2>3 DEF AddBackend
  <2>4. CASE \E m \in Names : Add(m) \/ Remove(m) \/ Move(m)
    BY <1>1, <2>4, OthersAreLeft
  <2>5. UNCHANGED tableVars \/ AddBackend \/ \E m \in Names : Add(m) \/ Remove(m) \/ Move(m)
    BY <2>1 DEF Next, StartStep, WatchStep, LoadConfig, StartService, EndStart, EndRestore,
       ReadBaseline, ParseBaseline, ReadFile, ParseFails, Parse, Panic, Quit, Down, Find,
       EndAdd, EndRemove, EndChange, Edit, Occupy, Vacate, tableVars, Reload
  <2> QED BY <2>2, <2>3, <2>4, <2>5
<1> QED BY <1>1, ReloadInit, ReloadNext, PTL DEF SafeSpec, KeptService
=============================================================================
