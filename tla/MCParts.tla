------------------------------- MODULE MCParts -------------------------------
(* Instances for TLC of the components whose safety is checked.  They have   *)
(* no state in common: an initial state chooses the one that moves, and the  *)
(* others stay as they were made.                                            *)
EXTENDS ClientPool, ProviderPool, CircuitBreaker, Checklist, ServiceRuns, AcpSessions,
        AgentCalls, LongRun, Gateway, McpManager, SquadMembership, FileCache, MemoryFiles,
        CodeSandbox, Retrieval, TLC

VARIABLE part   \* the component that moves

CONSTANTS c1, c2, g1, g2, k1, k2, k3, o2, o3, p1, p2, s1, s2

\* ClientPool: each client takes one call at a time; c2 is the more capable.
LimitOfOne == c1 :> 1 @@ c2 :> 1
TwoCapabilities == c1 :> 1 @@ c2 :> 2

\* The requests that choose in ways of their own: by the strategy, by name
\* whatever the limits, and with a hint that contradicts itself.
KindsOfRequest ==
    {[by |-> "strategy", preferred |-> {}, min |-> 0],
     [by |-> "provider", preferred |-> {c1}, min |-> 0],
     [by |-> "hint", preferred |-> {c1}, min |-> 2]}

\* ProviderPool: any configuration of two providers in this order.
OneThenTwo == p1 :> 1 @@ p2 :> 2
AnyPoolConfig == [failover : BOOLEAN, checked : BOOLEAN]

\* Checklist: the file before the first heartbeat.
OpenAndApproval == <<[item |-> 1, mark |-> "open"], [item |-> 2, mark |-> "approval"]>>

\* AcpToolCalls: two calls, with the same arguments or not.
AlikeOrNot == {k1 :> "x" @@ k2 :> "x", k1 :> "x" @@ k2 :> "y"}

\* SquadMembership: the lead of each squad.
OneLeadEach == s1 :> "a" @@ s2 :> "b"

\* KnowledgeBase: an embedder that returns all vectors, or not the first.
AllOrNotTheFirst == {{}, {1}}

\* PlanExecution: no step needs another, the second needs the first, or the
\* first the second.
EitherWay ==
    {1 :> {} @@ 2 :> {}, 1 :> {} @@ 2 :> {1}, 1 :> {2} @@ 2 :> {}}

\* ToolStream: the calls as they are asked for, and their pieces.
Ask(name, args) == [name |-> name, id |-> TRUE, args |-> args]
Unnumbered(a)   == [a EXCEPT !.id = FALSE]
Look == Ask("look", "parse")
Done == Ask("task_complete", "parse")
InOne(k)  == [call |-> k, first |-> TRUE, text |-> "whole"]
Start(k)  == [call |-> k, first |-> TRUE, text |-> "part"]
Rest(k)   == [call |-> k, first |-> FALSE, text |-> "whole"]
Within(k) == [call |-> k, first |-> FALSE, text |-> "nested"]
More(k)   == [call |-> k, first |-> FALSE, text |-> "part"]

\* Two calls in one chunk, in two, each in pieces, both in pieces at a time;
\* arguments that do not parse, odd calls, calls without identifier of the same
\* tool or of two; and task_complete's name before its arguments.
StreamedReplies ==
    {[asked |-> <<>>, chunks |-> <<>>],
     [asked |-> <<Done>>, chunks |-> <<<<Start(1)>>, <<Rest(1)>>>>],
     [asked |-> <<Ask("task_complete", "garbled")>>, chunks |-> <<<<InOne(1)>>>>]}
    \cup [asked  : {<<Look, Done>>, <<Look, Look>>, <<Look, Ask("look", "garbled")>>,
                    <<Unnumbered(Look), Unnumbered(Look)>>,
                    <<Unnumbered(Look), Unnumbered(Done)>>},
          chunks : {<<<<>>, <<InOne(1), InOne(2)>>>>,
                    <<<<InOne(1)>>, <<>>, <<InOne(2)>>>>,
                    <<<<Start(1), Start(2)>>, <<Within(1), More(2)>>, <<>>>>}]
    \cup [asked  : {<<Look, Ask("look", "odd")>>, <<Ask("look", "odd"), Ask("look", "odd")>>},
          chunks : {<<<<InOne(1), InOne(2)>>>>}]
    \cup [asked  : {<<Look, Done>>},
          chunks : {<<<<Start(1)>>, <<Rest(1)>>, <<Start(2)>>, <<Rest(2)>>>>}]
NoReply == CHOOSE r \in StreamedReplies : r.asked = <<>>

\* Chunker: up to three sentences of one to three words.
SomeSentences == {<<2>>, <<5>>, <<1, 3>>, <<3, 1, 2>>}
FewSentences ==
    {<<a, b, c>> : a, b, c \in SomeSentences} \cup {<<a>> : a \in SomeSentences} \cup {<<>>}
TextOf(sentences) ==
    [words |-> FlattenSeq(sentences),
     ends  |-> [s \in DOMAIN sentences |-> Len(FlattenSeq(SubSeq(sentences, 1, s)))]]
FewTexts == {TextOf(sentences) : sentences \in FewSentences}

\* Symmetry: the two of a pair whom no constant tells apart (callers, runs,
\* heartbeats, plans, ...) may change places, in all pairs at once.
Pairs == {PoolCallers, LLMRequests, Askers, Beats, Runs, Loads, Prompts, Heartbeats, Peers,
          SquadCallers, CacheProcs, MemCallers, CodeRuns, Documents, PlanIds, PlanRunners, ChatCalls}
OtherOf(x) == CHOOSE y \in UNION Pairs : y # x /\ {x, y} \in Pairs
PairsExchanged ==
    {[x \in UNION Pairs |-> IF exchanged THEN OtherOf(x) ELSE x] : exchanged \in BOOLEAN}

Init ==
    /\ part \in {"clientpool", "providers", "breaker", "checklist", "runs", "acp",
                 "acpcalls", "longrun", "gateway", "mcp", "squads", "filecache",
                 "sharedcache", "memory", "sandbox", "knowledge", "plans", "conversations", "stream",
                 "chunker"}
    \* What is free at the start of a component is free only if it moves.
    /\ part = "providers" \/ poolConfig = [failover |-> TRUE, checked |-> TRUE]
    /\ part = "checklist" \/ askFirst = FALSE
    /\ part = "runs" \/ kindOf = [r \in Runs |-> "run"]
    /\ part = "acpcalls" \/ askedIn = [k \in Keys |-> "never"]
    /\ part = "squads" \/ squads = {}
    /\ part = "acpcalls" \/ keyOf = k1 :> "x" @@ k2 :> "y"
    /\ part = "stream" \/ (provider = "pool" /\ consumer = "ptc" /\ reply = NoReply)
    /\ part = "chunker" \/ (text = TextOf(<<>>) /\ size = 3 /\ chunkOverlap = 0 /\ method = "token")
    /\ ClientPoolInit /\ ProviderPoolInit /\ BreakerInit /\ ChecklistInit /\ RunsInit
    /\ AcpInit /\ AcpCallsInit /\ LongRunInit /\ GatewayInit /\ McpInit
    /\ SquadMembershipInit /\ FileCacheInit /\ MemoryFilesInit /\ CodeSandboxInit
    /\ KnowledgeInit /\ PlanExecutionInit /\ ConversationsInit /\ ToolStreamInit
    /\ ChunkerInit

Next ==
    /\ part' = part
    /\ \/ /\ part = "clientpool"
          /\ UNCHANGED <<providerVars, breakerVars, checklistVars, runsVars, acpVars,
                         acpCallVars, longRunVars, gatewayVars, mcpVars, squadVars,
                         cacheVars, memoryVars, sandboxVars, knowledgeVars, planVars,
                         convVars, toolStreamVars, chunkVars>>
          /\ ClientPoolNext
       \/ /\ part = "providers"
          /\ UNCHANGED <<poolVars, breakerVars, checklistVars, runsVars, acpVars,
                         acpCallVars, longRunVars, gatewayVars, mcpVars, squadVars,
                         cacheVars, memoryVars, sandboxVars, knowledgeVars, planVars,
                         convVars, toolStreamVars, chunkVars>>
          /\ ProviderPoolNext
       \/ /\ part = "breaker"
          /\ UNCHANGED <<poolVars, providerVars, checklistVars, runsVars, acpVars,
                         acpCallVars, longRunVars, gatewayVars, mcpVars, squadVars,
                         cacheVars, memoryVars, sandboxVars, knowledgeVars, planVars,
                         convVars, toolStreamVars, chunkVars>>
          /\ BreakerNext
       \/ /\ part = "checklist"
          /\ UNCHANGED <<poolVars, providerVars, breakerVars, runsVars, acpVars,
                         acpCallVars, longRunVars, gatewayVars, mcpVars, squadVars,
                         cacheVars, memoryVars, sandboxVars, knowledgeVars, planVars,
                         convVars, toolStreamVars, chunkVars>>
          /\ ChecklistNext
       \/ /\ part = "runs"
          /\ UNCHANGED <<poolVars, providerVars, breakerVars, checklistVars, acpVars,
                         acpCallVars, longRunVars, gatewayVars, mcpVars, squadVars,
                         cacheVars, memoryVars, sandboxVars, knowledgeVars, planVars,
                         convVars, toolStreamVars, chunkVars>>
          /\ RunsNext
       \/ /\ part = "acp"
          /\ UNCHANGED <<poolVars, providerVars, breakerVars, checklistVars, runsVars,
                         acpCallVars, longRunVars, gatewayVars, mcpVars, squadVars,
                         cacheVars, memoryVars, sandboxVars, knowledgeVars, planVars,
                         convVars, toolStreamVars, chunkVars>>
          /\ AcpNext
       \/ /\ part = "acpcalls"
          /\ UNCHANGED <<poolVars, providerVars, breakerVars, checklistVars, runsVars,
                         acpVars, longRunVars, gatewayVars, mcpVars, squadVars, cacheVars,
                         memoryVars, sandboxVars, knowledgeVars, planVars, convVars,
                         toolStreamVars, chunkVars>>
          /\ AcpCallsNext
       \/ /\ part = "longrun"
          /\ UNCHANGED <<poolVars, providerVars, breakerVars, checklistVars, runsVars,
                         acpVars, acpCallVars, gatewayVars, mcpVars, squadVars, cacheVars,
                         memoryVars, sandboxVars, knowledgeVars, planVars, convVars,
                         toolStreamVars, chunkVars>>
          /\ LongRunNext
       \/ /\ part = "gateway"
          /\ UNCHANGED <<poolVars, providerVars, breakerVars, checklistVars, runsVars,
                         acpVars, acpCallVars, longRunVars, mcpVars, squadVars, cacheVars,
                         memoryVars, sandboxVars, knowledgeVars, planVars, convVars,
                         toolStreamVars, chunkVars>>
          /\ GatewayNext
          /\ muFree'   \* the lock keeps handlers waiting, which liveness is about
       \/ /\ part = "mcp"
          /\ UNCHANGED <<poolVars, providerVars, breakerVars, checklistVars, runsVars,
                         acpVars, acpCallVars, longRunVars, gatewayVars, squadVars,
                         cacheVars, memoryVars, sandboxVars, knowledgeVars, planVars,
                         convVars, toolStreamVars, chunkVars>>
          /\ McpNext
       \/ /\ part = "squads"
          /\ UNCHANGED <<poolVars, providerVars, breakerVars, checklistVars, runsVars,
                         acpVars, acpCallVars, longRunVars, gatewayVars, mcpVars, cacheVars,
                         memoryVars, sandboxVars, knowledgeVars, planVars, convVars,
                         toolStreamVars, chunkVars>>
          /\ SquadMembershipNext
       \/ /\ part \in {"filecache", "sharedcache"}
          /\ UNCHANGED <<poolVars, providerVars, breakerVars, checklistVars, runsVars,
                         acpVars, acpCallVars, longRunVars, gatewayVars, mcpVars, squadVars,
                         memoryVars, sandboxVars, knowledgeVars, planVars, convVars,
                         toolStreamVars, chunkVars>>
          /\ FileCacheNext
          \* One process after the other, or two in which nothing goes wrong.
          /\ IF part = "filecache" THEN ~shared'
             ELSE /\ sets' <= 2 /\ ioFaults' = 0 /\ kills' = 0
                  /\ k3 \notin {writing'[p].key : p \in CacheProcs}
       \/ /\ part = "memory"
          /\ UNCHANGED <<poolVars, providerVars, breakerVars, checklistVars, runsVars,
                         acpVars, acpCallVars, longRunVars, gatewayVars, mcpVars, squadVars,
                         cacheVars, sandboxVars, knowledgeVars, planVars, convVars,
                         toolStreamVars, chunkVars>>
          /\ MemoryFilesNext
          \* The second observation comes before the third, and a failure only in
          \* the first call or before the second.
          /\ o2 \notin fresh' \/ o3 \in fresh'
          /\ memMishaps' = 0 \/ o2 \in fresh' \/ memCalls' = 1
       \/ /\ part = "sandbox"
          /\ UNCHANGED <<poolVars, providerVars, breakerVars, checklistVars, runsVars,
                         acpVars, acpCallVars, longRunVars, gatewayVars, mcpVars, squadVars,
                         cacheVars, memoryVars, knowledgeVars, planVars, convVars,
                         toolStreamVars, chunkVars>>
          /\ CodeSandboxNext
       \/ /\ part = "knowledge"
          /\ UNCHANGED <<poolVars, providerVars, breakerVars, checklistVars, runsVars,
                         acpVars, acpCallVars, longRunVars, gatewayVars, mcpVars, squadVars,
                         cacheVars, memoryVars, sandboxVars, planVars, convVars,
                         toolStreamVars, chunkVars>>
          /\ KnowledgeNext
       \/ /\ part = "plans"
          /\ UNCHANGED <<poolVars, providerVars, breakerVars, checklistVars, runsVars,
                         acpVars, acpCallVars, longRunVars, gatewayVars, mcpVars, squadVars,
                         cacheVars, memoryVars, sandboxVars, knowledgeVars, convVars,
                         toolStreamVars, chunkVars>>
          /\ PlanExecutionNext
       \/ /\ part = "conversations"
          /\ UNCHANGED <<poolVars, providerVars, breakerVars, checklistVars, runsVars,
                         acpVars, acpCallVars, longRunVars, gatewayVars, mcpVars, squadVars,
                         cacheVars, memoryVars, sandboxVars, knowledgeVars, planVars,
                         toolStreamVars, chunkVars>>
          /\ ConversationsNext
       \/ /\ part = "stream"
          /\ UNCHANGED <<poolVars, providerVars, breakerVars, checklistVars, runsVars,
                         acpVars, acpCallVars, longRunVars, gatewayVars, mcpVars, squadVars,
                         cacheVars, memoryVars, sandboxVars, knowledgeVars, planVars,
                         convVars, chunkVars>>
          /\ ToolStreamNext
       \/ /\ part = "chunker"
          /\ UNCHANGED <<poolVars, providerVars, breakerVars, checklistVars, runsVars,
                         acpVars, acpCallVars, longRunVars, gatewayVars, mcpVars, squadVars,
                         cacheVars, memoryVars, sandboxVars, knowledgeVars, planVars,
                         convVars, toolStreamVars>>
          /\ ChunkerNext

Spec == Init /\ [][Next]_<<part, poolVars, providerVars, breakerVars, checklistVars,
                            runsVars, acpVars, acpCallVars, longRunVars, gatewayVars,
                            mcpVars, squadVars, cacheVars, memoryVars, sandboxVars,
                            knowledgeVars, planVars, convVars, toolStreamVars, chunkVars>>

=============================================================================
