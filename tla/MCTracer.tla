------------------------------- MODULE MCTracer -----------------------------
(***************************************************************************)
(* Values for TLC: one listen port and its replacement.                    *)
(***************************************************************************)
EXTENDS Tracer, TLC

CONSTANTS listen, backend

OnePort == listen :> backend
=============================================================================
