---------------------------- MODULE MCOneAtATime ----------------------------
(***************************************************************************)
(* The run with one request at a time, with what the theorems about it     *)
(* assume of the constants.                                                *)
(***************************************************************************)
EXTENDS MCPolicySync

ASSUME SingleAssumption == OneAtATime
=============================================================================
