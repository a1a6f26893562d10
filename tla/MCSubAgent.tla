------------------------------ MODULE MCSubAgent ------------------------------
(* An instance of SubAgent for TLC; MCLiveParts has another one. *)
EXTENDS SubAgent, TLC

CONSTANTS e1, e2

\* coordinator.RunAsync, then coordinator.WaitAll.
RunThenWaitAll == e1 :> "async" @@ e2 :> "all"
=============================================================================
