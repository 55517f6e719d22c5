-------------------------------- MODULE MCHub --------------------------------
(* Two upstreams that ingest at once, on a clock on which rows of one age    *)
(* expire in passes of several batches, over the hub with two subscriptions  *)
(* whose live channels hold one event.                                       *)
EXTENDS LabelPersistProofs, Hub

CONSTANTS w1, w2, s1, s2

TwoWriters == {w1, w2}
Two == {s1, s2}
=============================================================================
