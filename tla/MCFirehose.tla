----------------------------- MODULE MCFirehose -----------------------------
(* The instance of Firehose that TLC checks. *)
EXTENDS Firehose

\* Commits without, with one and with two service records, and a broken one.
MCContents == {Broken, 0, 1, 2}
MCOne == {0, 1}
=============================================================================
