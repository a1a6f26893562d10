--------------------------- MODULE MCTaskScheduler ---------------------------
(* Instances of TaskScheduler for TLC: one task in all its states, with      *)
(* RunTask, faults and crashes, or two tasks that compete for the slots.     *)
EXTENDS TaskScheduler, TLC

VARIABLE contended   \* whether it is the instance with two tasks

CONSTANTS t1, t2

SameRank == t1 :> 1 @@ t2 :> 1

MCInit == contended \in BOOLEAN /\ Init

\* Alone: the other task and its goroutine do not exist.
Alone ==
    /\ ~table'[t2].exists
    /\ \A r \in Runs : pc'[r] # "idle" => r = CHOOSE first \in Runs : TRUE

\* Contended: tasks stay as they were created, and nothing fails.
TwoTasks ==
    /\ \A t \in Tasks :
           /\ table'[t].exists => table'[t].enabled /\ (table'[t].once => t = t1)
           /\ table[t].exists => table'[t].exists /\ table'[t].once = table[t].once
    /\ \A c \in Callers : pc'[c] = "idle"
    /\ faults' = 0 /\ crashes' = 0

MCNext ==
    /\ contended' = contended
    /\ Next
    /\ IF contended THEN TwoTasks ELSE Alone

MCSpec == MCInit /\ [][MCNext]_<<contended, vars>> /\ Fairness
=============================================================================
