------------------------------ MODULE MCRegistry ----------------------------
(* Values for TLC: backends with a label and a process of their own.       *)
EXTENDS Registry, TLC

Services == {[port |-> p, label |-> p, pid |-> p] : p \in Ports}

Symmetry == Permutations(Handlers) \cup Permutations(Ports)
=============================================================================
