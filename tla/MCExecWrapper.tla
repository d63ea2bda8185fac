---------------------------- MODULE MCExecWrapper ---------------------------
(***************************************************************************)
(* Values for TLC: one wrapper for two listen ports whose user has chosen  *)
(* the backend ports, and one for the first of them that is allocated one. *)
(***************************************************************************)
EXTENDS ExecWrapper, TLC

CONSTANTS w1, w2, l1, l2, p1, p2

WRequests == {[port |-> p, label |-> w, pid |-> w] : p \in Ports, w \in Handlers}
WWants == (w1 :> {l1, l2}) @@ (w2 :> {l1})
WGiven == (w1 :> (l1 :> p1 @@ l2 :> p2)) @@ (w2 :> (l1 :> NoPort @@ l2 :> NoPort))
=============================================================================
