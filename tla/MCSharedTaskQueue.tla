-------------------------- MODULE MCSharedTaskQueue --------------------------
(* Instances of SharedTaskQueue for TLC. *)
EXTENDS SharedTaskQueue, TLC

CONSTANTS t1, t2, t3, alpha, beta

\* Two tasks contend for one squad, the third goes to another squad.
TwoSquads == t1 :> alpha @@ t2 :> alpha @@ t3 :> beta

\* Two tasks on one queue.
TwoOnOneSquad == t1 :> alpha @@ t2 :> alpha

\* Tasks of the same squad are interchangeable.
TwoSquadsSymmetry == Permutations({t1, t2})
=============================================================================
