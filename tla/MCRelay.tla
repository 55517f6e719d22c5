------------------------------ MODULE MCRelay -------------------------------
(* One writer and one client.  Two events are enough for a commit between    *)
(* two queries made for the client, and for an event that is in the backfill *)
(* and announced as well; one step of the clock ages a row out of a window   *)
(* of zero.                                                                  *)
EXTENDS Relay

CONSTANTS w1, c1

OneWriter == {w1}
OneClient == {c1}
=============================================================================
