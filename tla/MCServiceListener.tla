-------------------------- MODULE MCServiceListener -------------------------
(***************************************************************************)
(* Values for TLC: the requests the callers may make, with a label of its  *)
(* own for each backend.                                                   *)
(***************************************************************************)
EXTENDS ServiceListener, TLC

Request(p, label) == [port |-> p, label |-> label, pid |-> 0]

OwnLabels == {Request(p, p) : p \in Ports}
=============================================================================
