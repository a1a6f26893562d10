----------------------------- MODULE MCAsyncTasks -----------------------------
(* Instances of AsyncTasks for TLC. *)
EXTENDS AsyncTasks

CONSTANTS a1, a2, r1, r2

AgentTask == [kind |-> "agent", agents |-> {a1}, readers |-> {r1, r2}]
SquadTask == [kind |-> "squad", agents |-> {a1, a2}, readers |-> {r1}]

\* An agent's task with two readers, and a squad's with two agents.
BothKinds == {AgentTask, SquadTask}
OneAgent  == {[AgentTask EXCEPT !.readers = {r1}]}
OneSquad  == {[SquadTask EXCEPT !.agents = {a1}]}
=============================================================================
