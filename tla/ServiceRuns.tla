----------------------------- MODULE ServiceRuns -----------------------------
(***************************************************************************)
(* The runs of one agent service in one session (runWithConfig, Cancel,    *)
(* RunStream, CompactSession and finalizeExecution): each works on a copy  *)
(* of the session it has read and writes the whole row back at its end,    *)
(* and all of them share the flag that says running, the function that     *)
(* cancels, and the list of sources that were found.                       *)
(*                                                                         *)
(* The turns of a run are the modules TurnLoop and RuntimeLoop; here they  *)
(* are the choice of an outcome.  A message is the run it belongs to.      *)
(***************************************************************************)
EXTENDS Integers, FiniteSets

CONSTANTS
    Runs,            \* calls of Run or RunStream
    Compactions,     \* calls of CompactSession
    SessionAgents,   \* agents that may own the session
    NoRun

ASSUME RunsAssumption ==
    /\ IsFiniteSet(Runs) /\ IsFiniteSet(Compactions) /\ Runs \cap Compactions = {}
    /\ NoRun \notin Runs /\ SessionAgents # {}

Workers == Runs \cup Compactions

VARIABLES
    kindOf,        \* how each run is called
    stored,        \* the row of the session in agent_sessions
    workPc,        \* where each call is
    copy,          \* the session it works on
    isRunning,     \* Service.isRunning
    cancelFunc,    \* the run Service.cancelFunc belongs to
    cancelledRuns, \* runs whose context was cancelled
    ragSources,    \* Service.ragSources, by the run that has found them
    sources,       \* ExecutionResult.Sources of each run, in the same way
    met,           \* history: calls another one was at work beside
    leftSources,   \* history: runs that have failed with sources on the list
    replaced       \* history: messages a session lost to a run that had not read it

flagVars == <<isRunning, cancelFunc, cancelledRuns>>
sourceVars == <<ragSources, sources>>
runsVars == <<kindOf, stored, workPc, copy, flagVars, sourceVars, met, leftSources, replaced>>

Row == [exists : BOOLEAN, messages : SUBSET Runs, summary : BOOLEAN, agent : SessionAgents]

Main == CHOOSE a \in SessionAgents : TRUE

FreshSession == [exists |-> FALSE, messages |-> {}, summary |-> FALSE, agent |-> Main]

RunsTypeOK ==
    /\ kindOf \in [Runs -> {"run", "stream"}]
    /\ stored \in Row /\ (stored = FreshSession \/ stored.exists)
    /\ copy \in [Workers -> Row]
    /\ workPc \in [Workers -> {"idle", "load", "collect", "execute", "save", "read", "clear",
                               "ok", "failed"}]
    /\ isRunning \in BOOLEAN /\ cancelFunc \in Runs \cup {NoRun}
    /\ cancelledRuns \subseteq Runs
    /\ ragSources \subseteq Runs /\ sources \in [Runs -> SUBSET Runs]
    /\ met \subseteq Workers /\ leftSources \subseteq Runs /\ replaced \subseteq Runs

RunsInit ==
    /\ kindOf \in [Runs -> {"run", "stream"}]
    /\ stored = FreshSession
    /\ workPc = [w \in Workers |-> "idle"]
    /\ copy = [w \in Workers |-> FreshSession]
    /\ isRunning = FALSE /\ cancelFunc = NoRun /\ cancelledRuns = {}
    /\ ragSources = {} /\ sources = [r \in Runs |-> {}]
    /\ met = {} /\ leftSources = {} /\ replaced = {}

Over == {"idle", "ok", "failed"}
AtWork == {w \in Workers : workPc[w] \notin Over}

Goes(w, to) == workPc' = [workPc EXCEPT ![w] = to]

-----------------------------------------------------------------------------
(* The beginning of a call *)

Meets(w) == met' = IF AtWork = {} THEN met ELSE met \cup AtWork \cup {w}

\* runWithConfig: the flag, and the function that cancels this run.
BeginRun(r) ==
    /\ workPc[r] = "idle" /\ kindOf[r] = "run"
    /\ isRunning' = TRUE /\ cancelFunc' = r
    /\ Goes(r, "load") /\ Meets(r)
    /\ UNCHANGED <<kindOf, stored, copy, cancelledRuns, sourceVars, leftSources, replaced>>

\* A streamed run has neither, a compaction needs neither.
BeginOther(w) ==
    /\ workPc[w] = "idle"
    /\ w \in Runs => kindOf[w] = "stream"
    /\ Goes(w, "load") /\ Meets(w)
    /\ UNCHANGED <<kindOf, stored, copy, flagVars, sourceVars, leftSources, replaced>>

\* What GetSession makes of the row.  A run takes any error for a row that is not
\* there and goes on with a fresh session of the same ID; a compaction gives up.
SessionFrom(readable) == IF readable THEN stored ELSE FreshSession

GetOrMakeSession(w, readable) ==
    /\ workPc[w] = "load"
    /\ LET session == SessionFrom(readable) IN
       IF w \in Compactions /\ session.messages = {}
       THEN Goes(w, IF session.exists THEN "ok" ELSE "failed") /\ UNCHANGED copy
       ELSE /\ Goes(w, IF w \in Compactions THEN "execute" ELSE "collect")
            /\ copy' = [copy EXCEPT ![w] = session]
    /\ UNCHANGED <<kindOf, stored, flagVars, sourceVars, met, leftSources, replaced>>

\* The context is collected, a search may find sources (addRAGSources).
CollectContext(r) ==
    /\ r \in Runs /\ workPc[r] = "collect"
    /\ ragSources' \in {ragSources, ragSources \cup {r}}
    /\ Goes(r, "execute")
    /\ UNCHANGED <<kindOf, stored, copy, flagVars, sources, met, leftSources, replaced>>

-----------------------------------------------------------------------------
(* Its end *)

\* What the deferred function of a run leaves, whichever run it belongs to.
CancelFuncAfter(r) == NoRun

RunIsOver(r) ==
    IF kindOf[r] = "run"
    THEN isRunning' = FALSE /\ cancelFunc' = CancelFuncAfter(r) /\ UNCHANGED cancelledRuns
    ELSE UNCHANGED flagVars

\* The model fails, or the run was cancelled; the sources stay on the list.
RunFails(r) ==
    /\ r \in Runs /\ workPc[r] = "execute"
    /\ Goes(r, "failed") /\ RunIsOver(r)
    /\ leftSources' = IF ragSources = {} THEN leftSources ELSE leftSources \cup {r}
    /\ UNCHANGED <<kindOf, stored, copy, sourceVars, met, replaced>>

\* Messages are added to the copy, which a transfer has given to another agent.
\* A streamed run saves nothing.
RunSucceeds(r) ==
    /\ r \in Runs /\ workPc[r] = "execute"
    /\ IF kindOf[r] = "run"
       THEN /\ r \notin cancelledRuns
            /\ Goes(r, "save")
            /\ \E a \in SessionAgents :
                   copy' = [copy EXCEPT ![r].messages = @ \cup {r}, ![r].agent = a]
       ELSE Goes(r, "read") /\ UNCHANGED copy
    /\ UNCHANGED <<kindOf, stored, flagVars, sourceVars, met, leftSources, replaced>>

SummaryReady(w, ok) ==
    /\ w \in Compactions /\ workPc[w] = "execute"
    /\ Goes(w, IF ok THEN "save" ELSE "failed")
    /\ copy' = [copy EXCEPT ![w].summary = ok]
    /\ UNCHANGED <<kindOf, stored, flagVars, sourceVars, met, leftSources, replaced>>

\* SaveSession: an existing row keeps its agent_id, the rest is replaced.
Saved(row) ==
    [row EXCEPT !.exists = TRUE, !.agent = IF stored.exists THEN stored.agent ELSE @]

SaveSession(w) ==
    /\ workPc[w] = "save"
    /\ stored' = Saved(copy[w])
    /\ replaced' = IF copy[w].exists THEN replaced ELSE replaced \cup stored.messages
    /\ Goes(w, IF w \in Runs THEN "read" ELSE "ok")
    /\ UNCHANGED <<kindOf, copy, flagVars, sourceVars, met, leftSources>>

SaveFails(w) ==
    /\ workPc[w] = "save"
    /\ Goes(w, "failed")
    /\ IF w \in Runs
       THEN /\ RunIsOver(w)
            /\ leftSources' = IF ragSources = {} THEN leftSources ELSE leftSources \cup {w}
       ELSE UNCHANGED <<flagVars, leftSources>>
    /\ UNCHANGED <<kindOf, stored, copy, sourceVars, met, replaced>>

\* The sources are read under one lock and cleared under another.
ReadSources(r) ==
    /\ r \in Runs /\ workPc[r] = "read"
    /\ sources' = [sources EXCEPT ![r] = ragSources]
    /\ Goes(r, "clear")
    /\ UNCHANGED <<kindOf, stored, copy, flagVars, ragSources, met, leftSources, replaced>>

Wrong_NeverCleared == ragSources

SourcesForNextRun == {}

ClearSources(r) ==
    /\ r \in Runs /\ workPc[r] = "clear"
    /\ ragSources' = SourcesForNextRun
    /\ Goes(r, "ok") /\ RunIsOver(r)
    /\ UNCHANGED <<kindOf, stored, copy, sources, met, leftSources, replaced>>

\* Service.Cancel
CancelService ==
    /\ cancelFunc # NoRun
    /\ cancelledRuns' = cancelledRuns \cup {cancelFunc}
    /\ UNCHANGED <<kindOf, stored, workPc, copy, isRunning, cancelFunc, sourceVars, met,
                   leftSources, replaced>>

-----------------------------------------------------------------------------
RunsNext ==
    \/ CancelService
    \/ \E w \in Workers :
           \/ BeginOther(w) \/ SaveSession(w) \/ SaveFails(w)
           \/ \E ok \in BOOLEAN : GetOrMakeSession(w, ok) \/ SummaryReady(w, ok)
    \/ \E r \in Runs :
           \/ BeginRun(r) \/ CollectContext(r) \/ RunFails(r) \/ RunSucceeds(r)
           \/ ReadSources(r) \/ ClearSources(r)

RunsSpec == RunsInit /\ [][RunsNext]_runsVars

-----------------------------------------------------------------------------
(* Correctness *)

\* The messages of a run that has succeeded stay in the session, unless another
\* call worked on its own copy at the same time, or a later run could not read
\* the session and saved a fresh one in its place (service.go:439-442 and 514).
AnsweredIsRemembered ==
    \A r \in Runs \ met :
        (workPc[r] = "ok" /\ kindOf[r] = "run") => r \in stored.messages \cup replaced

\* A summary goes with no other step, as long as no calls have overlapped, than
\* the saving of a session that was not read (service_session.go:222).
SummaryIsKept ==
    [][(stored.summary /\ ~stored'.summary) =>
          \/ met # {}
          \/ \E r \in Runs :
                workPc[r] = "save" /\ workPc'[r] = "read" /\ ~copy[r].exists]_runsVars

\* Cancel reaches a run that is under way, never one that is over; and the one
\* run under way can be cancelled and shows as running, unless runs have
\* overlapped (service.go:425-431).
CancelFindsTheRun ==
    LET underWay == {r \in Runs : kindOf[r] = "run" /\ workPc[r] \notin Over} IN
    /\ cancelFunc \in underWay \cup {NoRun}
    /\ isRunning => underWay # {}
    /\ \A r \in underWay \ met : cancelFunc = r /\ isRunning

\* The sources of a result were found in that run, unless another call worked at
\* the same time, or an earlier run failed and left its own behind
\* (service_execution.go:776-785).
SourcesAreOwn ==
    \A r \in Runs \ met :
        (workPc[r] \in {"clear", "ok"} /\ leftSources = {}) => sources[r] \subseteq {r}

\* Runs that share a service keep out of each other's way: an answer and a
\* summary stay in the session, Cancel finds the run that can be cancelled,
\* and the sources of an answer are those of its own run, unless runs overlap
\* or fail in the way each of these names.
ServiceRunsCorrect ==
    /\ [](RunsTypeOK /\ AnsweredIsRemembered /\ CancelFindsTheRun /\ SourcesAreOwn)
    /\ SummaryIsKept
=============================================================================
