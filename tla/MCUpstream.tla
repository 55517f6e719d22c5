----------------------------- MODULE MCUpstream -----------------------------
(* The instance of Upstream that TLC checks. *)
EXTENDS Upstream

MCContents == {{"unsigned"}, {"signed", "unsigned"}}
MCOverrides == {"default", "optional"}
=============================================================================
