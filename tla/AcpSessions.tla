------------------------------ MODULE AcpSessions ------------------------------
(***************************************************************************)
(* The sessions of the ACP server (acpserver/server.go): each has a        *)
(* runtime of its own, which LoadSession replaces and Close closes, and    *)
(* prompts that take turns on it.  Requests are served concurrently; the   *)
(* map of sessions is locked, a runtime is made before the lock is taken   *)
(* and used after it was given back.                                       *)
(***************************************************************************)
EXTENDS Integers, FiniteSets

CONSTANTS
    AcpIds,       \* ids of sessions
    Loads,        \* calls of NewSession and LoadSession
    Prompts,      \* calls of Prompt
    MaxRuntimes   \* bound: how many runtimes the factory makes

ASSUME AcpAssumption ==
    /\ IsFiniteSet(AcpIds) /\ AcpIds # {}
    /\ IsFiniteSet(Loads) /\ IsFiniteSet(Prompts)
    /\ MaxRuntimes \in Nat \ {0}

VARIABLES
    acpSessions,  \* Server.sessions: the runtime of each session, 0 for none
    made,         \* the runtimes made so far are 1..made
    shut,         \* those that were closed
    loadPc,       \* where each load is
    loadId,       \* its session
    loadRt,       \* the runtime it has made
    promptPc,     \* where each prompt is
    promptId,     \* its session
    promptRt,     \* the runtime it found there
    abandoned,    \* runtimes with a run whose events nobody reads any more
    disturbed     \* history: prompts whose session was loaded again or closed
                  \* since they found its runtime

loadVars == <<loadPc, loadId, loadRt>>
promptVars == <<promptPc, promptId, promptRt>>
acpVars == <<acpSessions, made, shut, loadVars, promptVars, abandoned, disturbed>>

Runtimes == 1..MaxRuntimes

AcpTypeOK ==
    /\ acpSessions \in [AcpIds -> 0..made]
    /\ made \in 0..MaxRuntimes /\ shut \subseteq 1..made
    /\ loadPc \in [Loads -> {"idle", "history", "install", "replay"}]
    /\ loadId \in [Loads -> AcpIds] /\ loadRt \in [Loads -> 0..made]
    /\ promptPc \in [Prompts -> {"idle", "lock", "stream"}]
    /\ promptId \in [Prompts -> AcpIds] /\ promptRt \in [Prompts -> 0..made]
    /\ abandoned \subseteq 1..made /\ disturbed \subseteq Prompts

AnyId == CHOOSE s \in AcpIds : TRUE

AcpInit ==
    /\ acpSessions = [s \in AcpIds |-> 0]
    /\ made = 0 /\ shut = {}
    /\ loadPc = [l \in Loads |-> "idle"]
    /\ loadId = [l \in Loads |-> AnyId] /\ loadRt = [l \in Loads |-> 0]
    /\ promptPc = [p \in Prompts |-> "idle"]
    /\ promptId = [p \in Prompts |-> AnyId] /\ promptRt = [p \in Prompts |-> 0]
    /\ abandoned = {} /\ disturbed = {}

-----------------------------------------------------------------------------
(* NewSession and LoadSession *)

MakesRuntime(l, s, to) ==
    /\ loadPc[l] = "idle" /\ made < MaxRuntimes
    /\ made' = made + 1
    /\ loadPc' = [loadPc EXCEPT ![l] = to]
    /\ loadId' = [loadId EXCEPT ![l] = s]
    /\ loadRt' = [loadRt EXCEPT ![l] = made + 1]
    /\ UNCHANGED <<acpSessions, shut, promptVars, abandoned, disturbed>>

\* A new session has a new id; nobody else loads it before it is there.
NewSession(l, s) ==
    /\ acpSessions[s] = 0
    /\ \A other \in Loads : loadPc[other] = "idle" \/ loadId[other] # s
    /\ MakesRuntime(l, s, "install")

LoadSession(l, s) == MakesRuntime(l, s, "history")

LoadOver(l) ==
    /\ loadPc' = [loadPc EXCEPT ![l] = "idle"]
    /\ loadId' = [loadId EXCEPT ![l] = AnyId]
    /\ loadRt' = [loadRt EXCEPT ![l] = 0]

ShutAfterNoHistory(l) == shut \cup {loadRt[l]}

\* GetSession finds the session in the store, or the new runtime is closed.
GetHistory(l, found) ==
    /\ loadPc[l] = "history"
    /\ IF found
       THEN loadPc' = [loadPc EXCEPT ![l] = "install"] /\ UNCHANGED <<loadId, loadRt, shut>>
       ELSE LoadOver(l) /\ shut' = ShutAfterNoHistory(l)
    /\ UNCHANGED <<acpSessions, made, promptVars, abandoned, disturbed>>

PromptsOf(s) == {p \in Prompts : promptPc[p] # "idle" /\ promptId[p] = s}

\* The runtime that was there is closed, whether a prompt uses it or not.
ShutAfterInstall(l) == shut \cup ({acpSessions[loadId[l]]} \ {0})

Install(l) ==
    /\ loadPc[l] = "install"
    /\ shut' = ShutAfterInstall(l)
    /\ acpSessions' = [acpSessions EXCEPT ![loadId[l]] = loadRt[l]]
    /\ disturbed' = disturbed \cup PromptsOf(loadId[l])
    /\ loadPc' = [loadPc EXCEPT ![l] = "replay"]
    /\ UNCHANGED <<made, loadId, loadRt, promptVars, abandoned>>

\* The history is replayed; if that fails, the session stays all the same.
Replayed(l) ==
    /\ loadPc[l] = "replay"
    /\ LoadOver(l)
    /\ UNCHANGED <<acpSessions, made, shut, promptVars, abandoned, disturbed>>

-----------------------------------------------------------------------------
(* Prompt *)

FindSession(p, s) ==
    /\ promptPc[p] = "idle" /\ acpSessions[s] # 0
    /\ promptPc' = [promptPc EXCEPT ![p] = "lock"]
    /\ promptId' = [promptId EXCEPT ![p] = s]
    /\ promptRt' = [promptRt EXCEPT ![p] = acpSessions[s]]
    /\ UNCHANGED <<acpSessions, made, shut, loadVars, abandoned, disturbed>>

\* session.prompt is free.
MyTurn(p) == \A q \in Prompts : promptPc[q] = "stream" => promptRt[q] # promptRt[p]

\* The hooks are installed and the run is started.
StartRun(p) ==
    /\ promptPc[p] = "lock" /\ MyTurn(p)
    /\ promptPc' = [promptPc EXCEPT ![p] = "stream"]
    /\ UNCHANGED <<acpSessions, made, shut, loadVars, promptId, promptRt, abandoned, disturbed>>

PromptOver(p) ==
    /\ promptPc' = [promptPc EXCEPT ![p] = "idle"]
    /\ promptId' = [promptId EXCEPT ![p] = AnyId]
    /\ promptRt' = [promptRt EXCEPT ![p] = 0]
    /\ disturbed' = disturbed \ {p}

\* No text, or RunStream fails, once the turn has come.
RunRefused(p) ==
    /\ promptPc[p] = "lock" /\ MyTurn(p)
    /\ PromptOver(p)
    /\ UNCHANGED <<acpSessions, made, shut, loadVars, abandoned>>

\* The events end, with an error or without.
RunOver(p) ==
    /\ promptPc[p] = "stream"
    /\ PromptOver(p)
    /\ UNCHANGED <<acpSessions, made, shut, loadVars, abandoned>>

\* An update cannot be sent: the prompt returns while the run goes on.
ReplyFails(p) ==
    /\ promptPc[p] = "stream"
    /\ abandoned' = abandoned \cup {promptRt[p]}
    /\ PromptOver(p)
    /\ UNCHANGED <<acpSessions, made, shut, loadVars>>

\* Such a run may find room for its events, and comes to its end.
AbandonedEnds(r) ==
    /\ r \in abandoned
    /\ abandoned' = abandoned \ {r}
    /\ UNCHANGED <<acpSessions, made, shut, loadVars, promptVars, disturbed>>

-----------------------------------------------------------------------------
Wrong_KeepsSessions == acpSessions

SessionsAfterClose == [s \in AcpIds |-> 0]

CloseServer ==
    /\ shut' = shut \cup ({acpSessions[s] : s \in AcpIds} \ {0})
    /\ acpSessions' = SessionsAfterClose
    /\ disturbed' = disturbed \cup {p \in Prompts : promptPc[p] # "idle"}
    /\ UNCHANGED <<made, loadVars, promptVars, abandoned>>

AcpNext ==
    \/ \E l \in Loads :
           \/ \E s \in AcpIds : NewSession(l, s) \/ LoadSession(l, s)
           \/ \E found \in BOOLEAN : GetHistory(l, found)
           \/ Install(l) \/ Replayed(l)
    \/ \E p \in Prompts :
           \/ \E s \in AcpIds : FindSession(p, s)
           \/ StartRun(p) \/ RunRefused(p) \/ RunOver(p) \/ ReplyFails(p)
    \/ \E r \in Runtimes : AbandonedEnds(r)
    \/ CloseServer

AcpSpec == AcpInit /\ [][AcpNext]_acpVars

-----------------------------------------------------------------------------
(* Correctness *)

\* Every runtime that is not closed can still be reached: it belongs to a
\* session, or to the load that has made it (server.go:147-172).
NoRuntimeLost ==
    \A r \in 1..made \ shut :
        \/ \E s \in AcpIds : acpSessions[s] = r
        \/ \E l \in Loads : loadRt[l] = r

\* A prompt works on a runtime that is open, unless its session was loaded again
\* or the server was closed since it found the runtime (server.go:168).
PromptFindsItOpen ==
    \A p \in Prompts : (promptPc[p] # "idle" /\ promptRt[p] \in shut) => p \in disturbed

\* However often a session is loaded, at most one prompt at a time runs on a
\* runtime of it that is open (server.go:191).
OneRunPerSession ==
    \A p, q \in Prompts :
        (/\ promptPc[p] = "stream" /\ promptPc[q] = "stream"
         /\ promptId[p] = promptId[q]
         /\ promptRt[p] \notin shut /\ promptRt[q] \notin shut) => p = q

\* The runtimes of the sessions: none is lost open, a prompt finds one that is
\* open unless it was replaced, and one prompt of a session runs at a time.
AcpSessionsInv == AcpTypeOK /\ NoRuntimeLost /\ PromptFindsItOpen /\ OneRunPerSession
=============================================================================
