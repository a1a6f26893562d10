------------------------------ MODULE AgentCalls ------------------------------
(***************************************************************************)
(* What an agent is to call: the steps of a plan (PlanExecution), the      *)
(* calls of a streamed reply (ToolStream), and the calls that a run over   *)
(* ACP reports to its client (AcpToolCalls).  The three have no state in   *)
(* common; what must hold of them is stated here as one.                   *)
(***************************************************************************)
EXTENDS PlanExecution, ToolStream, AcpToolCalls

\* A plan's steps, a reply's calls and the calls a client is told of are each
\* executed and reported as they were asked for.
AgentCallsInv == PlanExecutionInv /\ ToolStreamInv /\ AcpToolCallsInv

AgentCallsSpec == PlanExecutionSpec /\ ToolStreamSpec /\ AcpCallsSpec
=============================================================================
