---------------------------- MODULE MCSubscribe -----------------------------
(* One client that reconnects without limit to a relay that commits, prunes  *)
(* and crashes.                                                              *)
EXTENDS Subscribe

CONSTANT c1

One == {c1}
=============================================================================
