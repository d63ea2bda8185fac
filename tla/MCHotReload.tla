---------------------------- MODULE MCHotReload ----------------------------
(* HotReload on two services and two ports: a service is renamed, moved to *)
(* another port for a new one, added beside another and removed.           *)
EXTENDS HotReload, TLC

CONSTANTS a, b, q1, q2

Files == {a :> q1, b :> q1, a :> q2 @@ b :> q1}
=============================================================================
