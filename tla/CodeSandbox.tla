----------------------------- MODULE CodeSandbox -----------------------------
(* Programmatic tool calling: pkg/ptc/service.go, the JavaScript runtime of   *)
(* pkg/ptc/runtime/goja and the history that pkg/agent/ptc_integration.go     *)
(* keeps.  An execution registers its tools in a map that all executions of   *)
(* the runtime share, starts the script in a goroutine and waits for it or    *)
(* for a timeout.  Nothing stops a script whose execution has timed out, and  *)
(* a script looks tools up in the map without the lock that guards it.        *)
EXTENDS Naturals, Sequences, FiniteSets

CONSTANTS
    CodeRuns,      \* the executions
    Scriptable,    \* the tools each of them registers
    NoCodeRun,
    MaxToolCalls,  \* Config.MaxToolCalls
    HistorySize    \* maxSize of the history

ASSUME CodeSandboxAssumption ==
    /\ IsFiniteSet(CodeRuns) /\ IsFiniteSet(Scriptable) /\ NoCodeRun \notin CodeRuns
    /\ MaxToolCalls \in Nat /\ HistorySize \in Nat \ {0}

VARIABLES
    sandboxClosed,  \* closed, of the service and of the runtime
    registered,     \* the keys of the tool map; Close only lets go of it
    registering,    \* the execution that is writing to the map
    codeRun,        \* the call of Execute
    script,         \* its goroutine, with executionState
    did,            \* history: how the tools it called have ended
    history,        \* the executions in the history
    clock,          \* counts time.Now() of the entries
    fatal,          \* the Go runtime or a panic has ended the process
    overlap,        \* history: an execution began while another script was alive
    closedAmid,     \* history: Close came while an execution was under way
    crossed,        \* history: an entry was saved after a younger one
    late            \* history: executions that were over when they called a tool

codeRunVars == <<codeRun, history, clock, crossed>>
mapVars == <<registered, registering>>
scriptVars == <<script, did, late>>
sandboxVars == <<sandboxClosed, mapVars, codeRunVars, scriptVars, fatal, overlap, closedAmid>>

NoScript == [at |-> "none", tools |-> FALSE, calls |-> 0, told |-> <<>>, threw |-> FALSE]

CodeSandboxInit ==
    /\ sandboxClosed = FALSE
    /\ registered = {} /\ registering = NoCodeRun
    /\ codeRun = [x \in CodeRuns |-> [at |-> "idle", todo |-> {}, out |-> "none", stamp |-> 0]]
    /\ script = [x \in CodeRuns |-> NoScript]
    /\ did = [x \in CodeRuns |-> <<>>]
    /\ history = {} /\ clock = 0
    /\ fatal = "no" /\ overlap = FALSE /\ closedAmid = FALSE /\ crossed = FALSE /\ late = {}

CallIs(x, at) == fatal = "no" /\ codeRun[x].at = at
ScriptIs(x, at) == fatal = "no" /\ script[x].at = at
CallGoto(x, at) == codeRun' = [codeRun EXCEPT ![x].at = at]
Answer(x, out) == codeRun' = [codeRun EXCEPT ![x].at = "over", ![x].out = out]
RunUnderWay(x) == codeRun[x].at \notin {"idle", "over"}
Alive(x) == RunUnderWay(x) \/ script[x].at \notin {"none", "ended"}

\* Service.Close and Runtime.Close, with both locks.
CloseSandbox ==
    /\ fatal = "no" /\ ~sandboxClosed /\ registering = NoCodeRun
    /\ sandboxClosed' = TRUE
    /\ closedAmid' = \E x \in CodeRuns : RunUnderWay(x)
    /\ UNCHANGED <<mapVars, codeRunVars, scriptVars, fatal, overlap>>

-----------------------------------------------------------------------------
(* Service.Execute *)

Admit(x) ==
    /\ CallIs(x, "idle")
    /\ IF sandboxClosed
       THEN Answer(x, "closed")
       ELSE codeRun' = [codeRun EXCEPT ![x].at = "register", ![x].todo = Scriptable]
    /\ overlap' = (overlap \/ \E y \in CodeRuns \ {x} : Alive(y))
    /\ UNCHANGED <<sandboxClosed, mapVars, history, clock, crossed, scriptVars, fatal,
                   closedAmid>>

\* RegisterTool writes to the map with the lock of the runtime; after Close the
\* map is nil, and writing to it panics.
BeginRegister(x) ==
    /\ CallIs(x, "register") /\ codeRun[x].todo # {} /\ registering = NoCodeRun
    /\ IF sandboxClosed
       THEN fatal' = "nil map" /\ UNCHANGED registering
       ELSE registering' = x /\ UNCHANGED fatal
    /\ UNCHANGED <<sandboxClosed, registered, codeRunVars, scriptVars, overlap, closedAmid>>

EndRegister(x) ==
    /\ fatal = "no" /\ registering = x
    /\ \E tool \in codeRun[x].todo :
          /\ registered' = registered \cup {tool}
          /\ codeRun' = [codeRun EXCEPT ![x].todo = @ \ {tool}]
    /\ registering' = NoCodeRun
    /\ UNCHANGED <<sandboxClosed, history, clock, crossed, scriptVars, fatal, overlap, closedAmid>>

\* Runtime.Execute
LookIfClosed(x) ==
    /\ CallIs(x, "register") /\ codeRun[x].todo = {} /\ registering = NoCodeRun
    /\ IF sandboxClosed THEN Answer(x, "closed") ELSE CallGoto(x, "start")
    /\ UNCHANGED <<sandboxClosed, mapVars, history, clock, crossed, scriptVars, fatal,
                   overlap, closedAmid>>

StartScript(x) ==
    /\ CallIs(x, "start") /\ registering = NoCodeRun
    /\ script' = [script EXCEPT ![x].at = "runs", ![x].tools = ~sandboxClosed]
    /\ CallGoto(x, "wait")
    /\ UNCHANGED <<sandboxClosed, mapVars, history, clock, crossed, did, late, fatal,
                   overlap, closedAmid>>

\* The script has ended: an error is returned without its calls, and leaves no
\* entry in the history.
ScriptIsDone(x) ==
    /\ CallIs(x, "wait") /\ script[x].at = "ended"
    /\ IF script[x].threw THEN Answer(x, "error") ELSE CallGoto(x, "note")
    /\ UNCHANGED <<sandboxClosed, mapVars, history, clock, crossed, scriptVars, fatal,
                   overlap, closedAmid>>

\* The timeout is over, or the caller cancels, whatever the script does.
TimeIsUp(x) ==
    /\ CallIs(x, "wait")
    /\ Answer(x, "timeout")
    /\ UNCHANGED <<sandboxClosed, mapVars, history, clock, crossed, scriptVars, fatal,
                   overlap, closedAmid>>

StampEntry(x) ==
    /\ CallIs(x, "note")
    /\ clock' = clock + 1
    /\ codeRun' = [codeRun EXCEPT ![x].at = "save", ![x].stamp = clock']
    /\ UNCHANGED <<sandboxClosed, mapVars, history, crossed, scriptVars, fatal, overlap,
                   closedAmid>>

\* What PTCMemoryStore.Save keeps: without its oldest entry if it is full.
Kept ==
    IF Cardinality(history) < HistorySize THEN history
    ELSE history \ {x \in history : \A y \in history : codeRun[x].stamp <= codeRun[y].stamp}

SaveEntry(x) ==
    /\ CallIs(x, "save")
    /\ history' = Kept \cup {x}
    /\ crossed' = \/ crossed
                  \/ \E y \in CodeRuns : /\ codeRun[y].at = "over"
                                        /\ codeRun[y].stamp > codeRun[x].stamp
    /\ Answer(x, "ok")
    /\ UNCHANGED <<sandboxClosed, mapVars, clock, scriptVars, fatal, overlap, closedAmid>>

-----------------------------------------------------------------------------
(* The script.  What it throws it may also catch. *)

Throws(x) == \E threw \in BOOLEAN :
    script' = [script EXCEPT ![x].at = IF threw THEN "ended" ELSE "runs", ![x].threw = threw]

\* callTool counts the call, and begins to read the map.  A script that goes on
\* calling after the limit is refused each time; one refusal stands for all.
ScriptCallsTool(x) ==
    /\ ScriptIs(x, "runs") /\ script[x].calls <= MaxToolCalls
    /\ script' = [script EXCEPT ![x].at = "looks", ![x].calls = @ + 1]
    /\ UNCHANGED <<sandboxClosed, mapVars, codeRunVars, did, late, fatal, overlap, closedAmid>>

ScriptReads(x) ==
    script[x].at = "looks" /\ script[x].tools /\ script[x].calls <= MaxToolCalls

\* The Go runtime may notice that the map is read and written at a time.
MapFault(x) ==
    /\ fatal = "no" /\ ScriptReads(x) /\ registering # NoCodeRun
    /\ fatal' = "map race"
    /\ UNCHANGED <<sandboxClosed, mapVars, codeRunVars, scriptVars, overlap, closedAmid>>

\* The limit is exceeded, or the tool is not in the map.
CallRefused(x) ==
    /\ ScriptIs(x, "looks")
    /\ ScriptReads(x) => Scriptable \ registered # {}
    /\ Throws(x)
    /\ UNCHANGED <<sandboxClosed, mapVars, codeRunVars, did, late, fatal, overlap, closedAmid>>

StartTool(x) ==
    /\ ScriptIs(x, "looks") /\ ScriptReads(x) /\ registered # {}
    /\ script' = [script EXCEPT ![x].at = "calls"]
    /\ late' = IF codeRun[x].at = "over" THEN late \cup {x} ELSE late
    /\ UNCHANGED <<sandboxClosed, mapVars, codeRunVars, did, fatal, overlap, closedAmid>>

Wrong_Recorded(told, result) == IF result = "ok" THEN Append(told, result) ELSE told

\* The record of a call, whether it succeeded or failed.
Recorded(told, result) == Append(told, result)

ScriptToolReturns(x) ==
    /\ ScriptIs(x, "calls")
    /\ did' = [did EXCEPT ![x] = Append(@, "ok")]
    /\ script' = [script EXCEPT ![x].at = "runs", ![x].told = Recorded(@, "ok")]
    /\ UNCHANGED <<sandboxClosed, mapVars, codeRunVars, late, fatal, overlap, closedAmid>>

ScriptToolFails(x) ==
    /\ ScriptIs(x, "calls")
    /\ did' = [did EXCEPT ![x] = Append(@, "failed")]
    /\ \E threw \in BOOLEAN :
          script' = [script EXCEPT ![x].at = IF threw THEN "ended" ELSE "runs",
                                   ![x].threw = threw, ![x].told = Recorded(@, "failed")]
    /\ UNCHANGED <<sandboxClosed, mapVars, codeRunVars, late, fatal, overlap, closedAmid>>

ScriptEnds(x) ==
    /\ ScriptIs(x, "runs")
    /\ \E threw \in BOOLEAN : script' = [script EXCEPT ![x].at = "ended", ![x].threw = threw]
    /\ UNCHANGED <<sandboxClosed, mapVars, codeRunVars, did, late, fatal, overlap, closedAmid>>

-----------------------------------------------------------------------------
ExecuteStep(x) ==
    \/ BeginRegister(x) \/ EndRegister(x) \/ LookIfClosed(x) \/ StartScript(x)
    \/ ScriptIsDone(x) \/ StampEntry(x) \/ SaveEntry(x)

ScriptStep(x) ==
    \/ ScriptCallsTool(x) \/ MapFault(x) \/ CallRefused(x) \/ StartTool(x)
    \/ ScriptToolReturns(x) \/ ScriptToolFails(x) \/ ScriptEnds(x)

CodeSandboxNext ==
    \/ CloseSandbox
    \/ \E x \in CodeRuns : Admit(x) \/ ExecuteStep(x) \/ TimeIsUp(x) \/ ScriptStep(x)

CodeSandboxSpec == CodeSandboxInit /\ [][CodeSandboxNext]_sandboxVars

-----------------------------------------------------------------------------
CodeSandboxTypeOK ==
    /\ registered \subseteq Scriptable
    /\ registering \in CodeRuns \cup {NoCodeRun}
    /\ \A x \in CodeRuns :
          /\ codeRun[x].at \in {"idle", "register", "start", "wait", "note", "save", "over"}
          /\ codeRun[x].out \in {"none", "closed", "error", "timeout", "ok"}
          /\ script[x].at \in {"none", "runs", "looks", "calls", "ended"}
          /\ script[x].told \in Seq({"ok", "failed"})

\* An answer without an error tells all that the script has done, the calls
\* included whose failure it caught, and the script is over (runtime.go:198).
AnswerIsWhole ==
    \A x \in CodeRuns :
        codeRun[x].out = "ok" => script[x].at = "ended" /\ script[x].told = did[x]

\* A script acts after its execution is over only if that one timed out or was
\* cancelled (runtime.go:201), and never beyond the limit of its calls.
LateNeedsTimeout ==
    \A x \in CodeRuns :
        /\ x \in late => codeRun[x].out = "timeout"
        /\ Len(did[x]) <= MaxToolCalls

\* Executions one at a time never end the process, unless a script of an
\* earlier one was left behind (runtime.go:332) or the service is closed in the
\* middle of one (runtime.go:252).
DeathNeedsOverlap ==
    /\ fatal = "map race" => overlap
    /\ fatal = "nil map" => closedAmid

\* The history keeps the newest executions that succeeded, unless two were
\* saved in another order than they were stamped (ptc_integration.go:581).
HistoryIsNewest ==
    /\ \A x \in history : codeRun[x].out = "ok"
    /\ Cardinality(history) <= HistorySize
    /\ ~crossed => \A x \in history, y \in CodeRuns \ history :
                       codeRun[y].out = "ok" => codeRun[y].stamp < codeRun[x].stamp

\* An execution is answered wholly or with a timeout, and does no harm beyond.
CodeSandboxInv ==
    CodeSandboxTypeOK /\ AnswerIsWhole /\ LateNeedsTimeout /\ DeathNeedsOverlap /\ HistoryIsNewest
=============================================================================
