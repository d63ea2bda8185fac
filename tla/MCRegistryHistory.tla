--------------------------- MODULE MCRegistryHistory ------------------------
(* The registry with its history, for TLC.                                 *)
EXTENDS MCRegistry, RegistryHistory
=============================================================================
