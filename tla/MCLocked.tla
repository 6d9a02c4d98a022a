------------------------------ MODULE MCLocked ------------------------------
(***************************************************************************)
(* The run that stays within the lock discipline, with the assumption the  *)
(* agreement theorem makes about the constants.                            *)
(***************************************************************************)
EXTENDS MCPolicySync

ASSUME LockedAssumption == Disciplined
=============================================================================
