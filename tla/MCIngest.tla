------------------------------ MODULE MCIngest ------------------------------
(* One labeler and no other writer: two frames, two subscriptions that       *)
(* overlap when the first is cancelled, two rows, and one step of the clock, *)
(* which may be taken back, out of a window of zero.  In the default policy, *)
(* which requires signatures, a frame is either kept or refused.             *)
EXTENDS Ingest

MCContents == {{"signed"}, {"unsigned"}}
=============================================================================
