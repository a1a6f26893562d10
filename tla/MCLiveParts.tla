----------------------------- MODULE MCLiveParts -----------------------------
(* Instances for TLC of the components with liveness properties.  They have  *)
(* no state in common: an initial state chooses the one that moves, and the  *)
(* others stay as they were made.                                            *)
EXTENDS SubAgent, RuntimeLoop, TurnLoop, LongRun, Gateway, McpManager,
        OperatorSessions, TLC

VARIABLE part   \* the component that moves

CONSTANTS e1, e2

\* One call of Run, which may be paused and resumed.
PausedAndResumed == e1 :> "run" @@ e2 :> "resume"

\* Calls of a streamed reply: one alone, with one that fails, two at a time,
\* and a transfer in the middle.
StreamedReplies ==
    {<<"tool">>, <<"lost", "tool">>, <<"tool", "tool">>, <<"tool", "transfer", "tool">>}

KindOfKey ==
    [k \in ToolKeys |-> IF k \in {"read", "write"} THEN "tool" ELSE k]

\* Replies with new calls, the same call twice, a search beside another tool,
\* a second transfer, and the end of the task.
RepliesOfTurn ==
    {<<"read">>, <<"write", "read">>, <<"read", "read">>, <<"search">>, <<"search", "write">>,
     <<"search", "search", "read">>, <<"read", "transfer", "transfer">>, <<"complete">>}

Init ==
    /\ part \in {"subagent", "runtime", "turns", "longrun", "gateway", "mcp", "operator"}
    /\ SubAgentInit /\ RuntimeInit /\ TurnInit /\ LongRunInit /\ GatewayInit /\ McpInit
    /\ OperatorInit
    \* What is free at the start of a component is free only if it moves.
    /\ part = "operator" \/ endIsEof

Next ==
    /\ part' = part
    /\ \/ /\ part = "subagent"
          /\ UNCHANGED <<runtimeVars, turnVars, longRunVars, gatewayVars, mcpVars, ptyVars>>
          /\ SubAgentNext
       \/ /\ part = "runtime"
          /\ UNCHANGED <<subAgentVars, turnVars, longRunVars, gatewayVars, mcpVars, ptyVars>>
          /\ RuntimeNext
       \/ /\ part = "turns"
          /\ UNCHANGED <<subAgentVars, runtimeVars, longRunVars, gatewayVars, mcpVars, ptyVars>>
          /\ TurnNext
       \/ /\ part = "longrun"
          /\ UNCHANGED <<subAgentVars, runtimeVars, turnVars, gatewayVars, mcpVars, ptyVars>>
          /\ LongRunNext
       \/ /\ part = "gateway"
          /\ UNCHANGED <<subAgentVars, runtimeVars, turnVars, longRunVars, mcpVars, ptyVars>>
          /\ GatewayNext
       \/ /\ part = "mcp"
          /\ UNCHANGED <<subAgentVars, runtimeVars, turnVars, longRunVars, gatewayVars, ptyVars>>
          /\ McpNext
       \/ /\ part = "operator"
          /\ UNCHANGED <<subAgentVars, runtimeVars, turnVars, longRunVars, gatewayVars, mcpVars>>
          /\ OperatorNext

vars == <<part, subAgentVars, runtimeVars, turnVars, longRunVars, gatewayVars, mcpVars,
          ptyVars>>

Spec ==
    /\ Init /\ [][Next]_vars
    /\ SubAgentFairness /\ RuntimeFairness /\ TurnFairness
    /\ LongRunFairness /\ GatewayFairness /\ McpFairness /\ OperatorFairness
=============================================================================
