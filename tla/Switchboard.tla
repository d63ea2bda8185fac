----------------------------- MODULE Switchboard ----------------------------
(***************************************************************************)
(* What devlb promises about one listen port, whatever data structure      *)
(* keeps it: a set of backends of which exactly one, as soon as there are  *)
(* any, is the current one; it changes only when the user switches, when   *)
(* it is itself unregistered, or when a Phase 1 route replaces the set.    *)
(***************************************************************************)
CONSTANTS Ports, NoPort

VARIABLES
    registered,   \* the backends' ports
    current       \* the one connections go to, or NoPort

Init == registered = {} /\ current = NoPort

Register(p) ==
    /\ p \notin registered
    /\ registered' = registered \cup {p}
    /\ current' = IF registered = {} THEN p ELSE current

(* Taking away another backend never moves the traffic.                    *)
Unregister(p) ==
    /\ p \in registered
    /\ registered' = registered \ {p}
    /\ IF p # current THEN current' = current
       ELSE IF registered' = {} THEN current' = NoPort
       ELSE current' \in registered'

Switch(p) ==
    /\ p \in registered
    /\ current' = p
    /\ UNCHANGED registered

Replace(p) == registered' = {p} /\ current' = p

Clear == registered' = {} /\ current' = NoPort

Next ==
    \/ \E p \in Ports : Register(p) \/ Unregister(p) \/ Switch(p) \/ Replace(p)
    \/ Clear

Spec == Init /\ [][Next]_<<registered, current>>
=============================================================================
