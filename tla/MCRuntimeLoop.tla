----------------------------- MODULE MCRuntimeLoop -----------------------------
(* Instances of RuntimeLoop for TLC. *)
EXTENDS RuntimeLoop

\* One call that transfers, between two others.
RepliesWithTransfer == {<<"tool">>, <<"tool", "transfer", "tool">>}
=============================================================================
