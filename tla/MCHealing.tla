----------------------------- MODULE MCHealing -----------------------------
(***************************************************************************)
(* The run that sets the collector beside the requests, with what the      *)
(* theorems about it assume of the constants.                              *)
(***************************************************************************)
EXTENDS MCPolicySync, PolicyHistory

ASSUME HealingAssumption == Orderly /\ Steady
=============================================================================
