------------------------------ MODULE McpManager ------------------------------
(***************************************************************************)
(* The MCP manager and its clients (mcp/client.go): servers are started    *)
(* on demand by the call that needs a tool of theirs, marked as gone by a  *)
(* monitor, stopped and closed by others, while calls use a client without *)
(* any lock once they have found it.                                       *)
(*                                                                         *)
(* Start keeps the lock of the manager until the server has answered; the  *)
(* process of a stdio server lives as long as the context of the call that *)
(* has started it (exec.CommandContext).  A call names its server.         *)
(***************************************************************************)
EXTENDS Integers, FiniteSets

CONSTANTS
    McpServers,
    StdioServers,   \* those of them that are processes
    ToolCalls,      \* calls of Manager.CallTool
    MaxClients,     \* bound: clients connected
    MaxFailures     \* bound: servers that die of themselves

NoCall == "none"

ASSUME McpAssumption ==
    /\ IsFiniteSet(McpServers) /\ McpServers # {} /\ StdioServers \subseteq McpServers
    /\ IsFiniteSet(ToolCalls) /\ ToolCalls # {} /\ NoCall \notin ToolCalls
    /\ MaxClients \in Nat /\ MaxFailures \in Nat

VARIABLES
    clientOf,     \* Manager.clients, 0 for none
    connections,  \* the clients connected so far are 1..connections
    serverOf,     \* the server of each client
    startedBy,    \* the call whose context its process lives on
    linkUp,       \* clients whose server answers
    marked,       \* clients with connected = true
    sessions,     \* clients with a session
    managerLock,  \* the call that has locked the manager, or NoCall
    mcpPc,        \* where each call is
    wanted,       \* the server it needs
    using,        \* the client it has found
    losses,
    gone,         \* history: clients a monitor has marked as gone
    stopped,      \* history: clients that were closed
    panics        \* history: clients whose session a call found to be nil

clientVars == <<connections, serverOf, startedBy, linkUp, marked, sessions>>
mcpCallVars == <<mcpPc, wanted, using>>
mcpHistory == <<gone, stopped, panics>>
mcpVars == <<clientOf, clientVars, managerLock, mcpCallVars, losses, mcpHistory>>

McpClients == 1..MaxClients
AnyServer == CHOOSE s \in McpServers : TRUE
AnyCall == CHOOSE k \in ToolCalls : TRUE

McpTypeOK ==
    /\ connections \in 0..MaxClients
    /\ clientOf \in [McpServers -> 0..connections]
    /\ serverOf \in [McpClients -> McpServers] /\ startedBy \in [McpClients -> ToolCalls]
    /\ linkUp \cup sessions \subseteq 1..connections /\ marked \subseteq sessions
    /\ managerLock \in ToolCalls \cup {NoCall}
    /\ mcpPc \in [ToolCalls -> {"idle", "find", "start", "connect", "findAgain", "check", "send",
                                "answer", "over"}]
    /\ wanted \in [ToolCalls -> McpServers] /\ using \in [ToolCalls -> 0..connections]
    /\ losses \in 0..MaxFailures
    /\ gone \cup stopped \cup panics \subseteq 1..connections

McpInit ==
    /\ clientOf = [s \in McpServers |-> 0]
    /\ connections = 0
    /\ serverOf = [c \in McpClients |-> AnyServer]
    /\ startedBy = [c \in McpClients |-> AnyCall]
    /\ linkUp = {} /\ marked = {} /\ sessions = {}
    /\ managerLock = NoCall
    /\ mcpPc = [k \in ToolCalls |-> "idle"]
    /\ wanted = [k \in ToolCalls |-> AnyServer] /\ using = [k \in ToolCalls |-> 0]
    /\ losses = 0
    /\ gone = {} /\ stopped = {} /\ panics = {}

CallAt(k, from, to) == mcpPc[k] = from /\ mcpPc' = [mcpPc EXCEPT ![k] = to]

ManagerFree == managerLock = NoCall

-----------------------------------------------------------------------------
(* CallTool of the manager *)

CallTool(k, s) ==
    /\ CallAt(k, "idle", "find")
    /\ wanted' = [wanted EXCEPT ![k] = s]
    /\ UNCHANGED <<clientOf, clientVars, managerLock, using, losses, mcpHistory>>

\* FindToolProvider: only clients that are connected.
Provided(s) == clientOf[s] \in marked

FindProvider(k, from) ==
    /\ ManagerFree /\ mcpPc[k] = from /\ Provided(wanted[k])
    /\ mcpPc' = [mcpPc EXCEPT ![k] = "check"]
    /\ using' = [using EXCEPT ![k] = clientOf[wanted[k]]]
    /\ UNCHANGED <<clientOf, clientVars, managerLock, wanted, losses, mcpHistory>>

\* The first time the server is started, the second time the call fails.
NoProvider(k, from) ==
    /\ ManagerFree /\ ~Provided(wanted[k])
    /\ CallAt(k, from, IF from = "find" THEN "start" ELSE "over")
    /\ UNCHANGED <<clientOf, clientVars, managerLock, wanted, using, losses, mcpHistory>>

Wrong_NotThere(s) == FALSE

\* StartServer: another call may have started it meanwhile.
AlreadyThere(s) == Provided(s)

StartServer(k) ==
    /\ ManagerFree /\ mcpPc[k] = "start"
    /\ IF AlreadyThere(wanted[k])
       THEN /\ mcpPc' = [mcpPc EXCEPT ![k] = "findAgain"]
            /\ UNCHANGED <<clientOf, managerLock>>
       ELSE /\ mcpPc' = [mcpPc EXCEPT ![k] = "connect"]
            /\ clientOf' = [clientOf EXCEPT ![wanted[k]] = 0]
            /\ managerLock' = k
    /\ UNCHANGED <<clientVars, wanted, using, losses, mcpHistory>>

Wrong_KeepsLock(k) == k

\* The deferred Unlock.
LockAfterStart(k) == NoCall

\* The handshake succeeds, and the tools are loaded.
Connects(k) ==
    /\ connections < MaxClients
    /\ CallAt(k, "connect", "findAgain")
    /\ connections' = connections + 1
    /\ serverOf' = [serverOf EXCEPT ![connections + 1] = wanted[k]]
    /\ startedBy' = [startedBy EXCEPT ![connections + 1] = k]
    /\ linkUp' = linkUp \cup {connections + 1}
    /\ marked' = marked \cup {connections + 1}
    /\ sessions' = sessions \cup {connections + 1}
    /\ clientOf' = [clientOf EXCEPT ![wanted[k]] = connections + 1]
    /\ managerLock' = LockAfterStart(k)
    /\ UNCHANGED <<wanted, using, losses, mcpHistory>>

ConnectFails(k) ==
    /\ CallAt(k, "connect", "over")
    /\ managerLock' = LockAfterStart(k)
    /\ UNCHANGED <<clientOf, clientVars, wanted, using, losses, mcpHistory>>

-----------------------------------------------------------------------------
(* CallTool of the client *)

CheckClient(k) ==
    /\ LET usable == using[k] \in marked /\ using[k] \in sessions
       IN  CallAt(k, "check", IF usable THEN "send" ELSE "over")
    /\ UNCHANGED <<clientOf, clientVars, managerLock, wanted, using, losses, mcpHistory>>

\* c.session is read once more.
Send(k) ==
    /\ CallAt(k, "send", IF using[k] \in sessions THEN "answer" ELSE "over")
    /\ panics' = IF using[k] \in sessions THEN panics ELSE panics \cup {using[k]}
    /\ UNCHANGED <<clientOf, clientVars, managerLock, wanted, using, losses, gone, stopped>>

\* The server answers, or the call fails as the link is down.
Answered(k) ==
    /\ CallAt(k, "answer", "over")
    /\ UNCHANGED <<clientOf, clientVars, managerLock, wanted, using, losses, mcpHistory>>

CallForgotten(k) ==
    /\ CallAt(k, "over", "idle")
    /\ wanted' = [wanted EXCEPT ![k] = AnyServer]
    /\ using' = [using EXCEPT ![k] = 0]

\* The context of the call ends when its run is over, and with it the
\* processes the call has started.
ContextEndsAfter(k) ==
    /\ CallForgotten(k)
    /\ linkUp' = {c \in linkUp : ~(startedBy[c] = k /\ serverOf[c] \in StdioServers)}
    /\ UNCHANGED <<clientOf, connections, serverOf, startedBy, marked, sessions, managerLock,
                   losses, mcpHistory>>

CallReturns(k) ==
    /\ CallForgotten(k)
    /\ UNCHANGED <<clientOf, clientVars, managerLock, losses, mcpHistory>>

-----------------------------------------------------------------------------
(* Servers that fail, and the monitors *)

ServerDies(c) ==
    /\ c \in linkUp /\ losses < MaxFailures
    /\ linkUp' = linkUp \ {c} /\ losses' = losses + 1
    /\ UNCHANGED <<clientOf, connections, serverOf, startedBy, marked, sessions, managerLock,
                   mcpCallVars, mcpHistory>>

SessionsAfterLoss(c) == sessions

\* monitorProcessExit, or a ping that fails.
MonitorNotices(c) ==
    /\ c \in marked \ linkUp
    /\ marked' = marked \ {c}
    /\ sessions' = SessionsAfterLoss(c)
    /\ gone' = gone \cup {c}
    /\ UNCHANGED <<clientOf, connections, serverOf, startedBy, linkUp, managerLock, mcpCallVars,
                   losses, stopped, panics>>

-----------------------------------------------------------------------------
(* StopServer and Close *)

MarkedAfterClose(cs) == marked \ cs

\* Close of clients does nothing for those that are marked as gone.
CloseClients(cs) ==
    /\ marked' = MarkedAfterClose(cs)
    /\ sessions' = sessions \ (cs \cap marked)
    /\ linkUp' = linkUp \ (cs \cap marked)
    /\ stopped' = stopped \cup (cs \cap marked)

ClosedByStop(s) == {clientOf[s]}

StopServer(s) ==
    /\ ManagerFree /\ clientOf[s] # 0
    /\ CloseClients(ClosedByStop(s))
    /\ clientOf' = [clientOf EXCEPT ![s] = 0]
    /\ UNCHANGED <<connections, serverOf, startedBy, managerLock, mcpCallVars, losses, gone, panics>>

CloseManager ==
    /\ ManagerFree
    /\ CloseClients({clientOf[s] : s \in McpServers} \ {0})
    /\ clientOf' = [s \in McpServers |-> 0]
    /\ UNCHANGED <<connections, serverOf, startedBy, managerLock, mcpCallVars, losses, gone, panics>>

-----------------------------------------------------------------------------
CallProgress(k) ==
    \/ \E from \in {"find", "findAgain"} : FindProvider(k, from) \/ NoProvider(k, from)
    \/ StartServer(k) \/ Connects(k) \/ ConnectFails(k)
    \/ CheckClient(k) \/ Send(k) \/ Answered(k)

McpNext ==
    \/ \E k \in ToolCalls :
           \/ \E s \in McpServers : CallTool(k, s)
           \/ CallProgress(k) \/ ContextEndsAfter(k) \/ CallReturns(k)
    \/ \E c \in McpClients : ServerDies(c) \/ MonitorNotices(c)
    \/ \E s \in McpServers : StopServer(s)
    \/ CloseManager

\* A call goes on, a server answers or fails, and the lock comes to whoever
\* waits for it.
McpFairness == \A k \in ToolCalls : SF_mcpVars(CallProgress(k))

McpSpec == McpInit /\ [][McpNext]_mcpVars /\ McpFairness

-----------------------------------------------------------------------------
(* Correctness *)

\* No server has two clients that are connected, and one that is connected is
\* known to the manager, which can close it (client.go:738).
ConnectedAreKnown == \A c \in marked : clientOf[serverOf[c]] = c

\* A call meets a session that is nil only if its client was stopped between
\* its check and its use of it (client.go:562 and 574).
PanicNeedsStop == panics \subseteq stopped

\* A client the manager has forgotten has no session any more, unless a monitor
\* had marked it as gone: such a session is never closed (client.go:674).
ForgottenAreClosed ==
    \A c \in sessions : clientOf[serverOf[c]] = c \/ c \in gone

\* A call comes to its end, and nobody keeps the lock of the manager for ever,
\* if servers answer the handshake and the list of tools (client.go:734).
CallsEnd == \A k \in ToolCalls : (mcpPc[k] = "find") ~> (mcpPc[k] = "over")

\* The manager and its clients agree: what is connected is known, what is
\* forgotten is closed, and a call meets a nil session only after StopServer.
McpManagerInv == McpTypeOK /\ ConnectedAreKnown /\ PanicNeedsStop /\ ForgottenAreClosed
=============================================================================
