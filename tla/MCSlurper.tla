------------------------------ MODULE MCSlurper ------------------------------
(* The instance of Slurper that TLC checks. *)
EXTENDS Slurper

CONSTANTS l1, e1, a1, noEndpoint, noRow
=============================================================================
