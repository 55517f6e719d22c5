------------------------------- MODULE MCSeam -------------------------------
(* One consumer: consumers share nothing but the hub, whose Broadcast treats *)
(* each on its own, so one is enough to meet every interleaving of a stream  *)
(* with the writer, the prune job, its drainer and its handler.              *)
EXTENDS SeamProofs

CONSTANT c1

One == {c1}
=============================================================================
