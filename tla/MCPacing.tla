------------------------------ MODULE MCPacing ------------------------------
(* The instance of Pacing that TLC checks. *)
EXTENDS Pacing
=============================================================================
