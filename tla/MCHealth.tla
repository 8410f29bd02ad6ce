------------------------------ MODULE MCHealth ------------------------------
(***************************************************************************)
(* HealthMonitor for TLC.                                                  *)
(***************************************************************************)
EXTENDS HealthMonitor

\* Four nodes, the third an alias of the first; and four distinct ones.
AliasKey == <<1, 2, 1, 3>>
DistinctKey == <<1, 2, 3, 4>>
=============================================================================
