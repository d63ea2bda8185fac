----------------------------- MODULE MCDashboard ----------------------------
(***************************************************************************)
(* Values for TLC: a configured listen port with no, one or two backends,  *)
(* and up to two others, whose order may change from answer to answer.     *)
(***************************************************************************)
EXTENDS Dashboard, TLC

CONSTANTS web, api, db, a, b

ConfiguredPorts == << web >>
SomeTables ==
    { (web :> << >>) @@ (api :> << a >>),
      (web :> << a, b >>) @@ (api :> << a >>) @@ (db :> << >>),
      (web :> << b >>) }
=============================================================================
