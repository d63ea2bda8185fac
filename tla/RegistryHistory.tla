--------------------------- MODULE RegistryHistory --------------------------
(***************************************************************************)
(* The registry with a history: whether something has happened since the   *)
(* daemon's start after which the listeners and the state may differ.      *)
(***************************************************************************)
EXTENDS Registry

(* Two requests, or a request and a sweep, were in progress at once, or a  *)
(* table was not restored because its listen port was taken.               *)
VARIABLE disturbed

Busy == {h \in Handlers : at[h] # "idle"} \cup (IF sweepAt = "idle" THEN {} ELSE {"sweeper"})

HInit == Init /\ disturbed = FALSE
HNext ==
    /\ Next
    /\ disturbed' =
          /\ phase' # "down"
          /\ \/ disturbed
             \/ \E a, b \in Busy' : a # b
             \/ \E l \in ListenPorts : RestoreFails(l)
HSpec == HInit /\ [][HNext]_<<vars, disturbed>>

(* When no request and no sweep is in progress, no listed process is dead  *)
(* and nothing disturbed the daemon since its start, the listeners route   *)
(* by what the state records, restarts and sweeps included: same backends, *)
(* same order, same active one.                                            *)
MirrorWhenQuiet ==
    Quiet /\ ~disturbed =>
        \A l \in ListenPorts : HasDead(tbl[l]) \/ HasDead(st[l]) \/ tbl[l] = st[l]
=============================================================================
