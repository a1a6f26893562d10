------------------------------- MODULE TurnLoop -------------------------------
(***************************************************************************)
(* The turns of a run that is not streamed (executeWithLLM of              *)
(* service_execution.go): the model is asked, its tool calls are sorted    *)
(* into transfers, repetitions and calls to execute, these run in          *)
(* parallel, and their results are added to the messages.                  *)
(*                                                                         *)
(* A tool call is its key, that is, its name and its arguments; of the     *)
(* messages the model keeps how often each call has been answered.         *)
(***************************************************************************)
EXTENDS Integers, Sequences, FiniteSets

CONSTANTS
    ToolKeys,
    KeyKind,       \* ToolKeys -> {"tool", "search", "complete", "transfer"}
    ModelReplies,  \* the sequences of keys the model may ask for in a turn;
                   \* bound: four calls in one
    MaxTurns       \* RunConfig.MaxTurns

ASSUME TurnAssumption ==
    /\ IsFiniteSet(ToolKeys)
    /\ KeyKind \in [ToolKeys -> {"tool", "search", "complete", "transfer"}]
    /\ ModelReplies \subseteq Seq(ToolKeys) \ {<<>>}
    /\ \A q \in ModelReplies : Len(q) <= 4
    /\ MaxTurns \in Nat \ {0}

VARIABLES
    turnPc,        \* "idle", "ask", "execute" or "ended"
    turn,
    asked,         \* the calls of this turn
    seen,          \* prevToolCalls: how often each key was asked for
    running,       \* places of the calls under way
    fails,         \* places of those that have failed
    outcome,       \* how the run ended
    runCancelled,
    answers,       \* tool messages for each call, by turn and place
    handovers,     \* history: turns that ended with a transfer
    brokenTurns,   \* history: turns with a call that failed
    executed       \* history: how often each key was executed

turnHistory == <<handovers, brokenTurns, executed>>
turnVars == <<turnPc, turn, asked, seen, running, fails, outcome, runCancelled, answers, turnHistory>>

Turns == 0..MaxTurns - 1
Calls == Turns \X (1..4)

TurnTypeOK ==
    /\ turnPc \in {"idle", "ask", "execute", "ended"}
    /\ turn \in 0..MaxTurns
    /\ asked \in ModelReplies \cup {<<>>}
    /\ seen \in [ToolKeys -> Nat] /\ executed \in [ToolKeys -> Nat]
    /\ running \subseteq DOMAIN asked /\ fails \subseteq DOMAIN asked
    /\ outcome \in {"none", "answer", "bestEffort", "failed", "cancelled", "maxTurns"}
    /\ runCancelled \in BOOLEAN
    /\ DOMAIN answers \subseteq Calls /\ \A c \in DOMAIN answers : answers[c] \in Nat
    /\ handovers \subseteq Turns /\ brokenTurns \subseteq Turns

TurnInit ==
    /\ turnPc = "idle" /\ turn = 0 /\ asked = <<>>
    /\ seen = [k \in ToolKeys |-> 0]
    /\ running = {} /\ fails = {} /\ outcome = "none" /\ runCancelled = FALSE
    /\ answers = << >>
    /\ handovers = {} /\ brokenTurns = {} /\ executed = [k \in ToolKeys |-> 0]

ExecuteWithLLM ==
    /\ turnPc = "idle"
    /\ turnPc' = "ask"
    /\ UNCHANGED <<turn, asked, seen, running, fails, outcome, runCancelled, answers, turnHistory>>

End(how) == turnPc' = "ended" /\ outcome' = how

-----------------------------------------------------------------------------
(* The reply of the model *)

\* How often the key of a call has been asked for before, in this turn too.
TimesBefore(q, i) == seen[q[i]] + Cardinality({j \in 1..i - 1 : q[j] = q[i]})

IsRepeated(q, i) == TimesBefore(q, i) > 0

Repeated(q) == {i \in DOMAIN q : IsRepeated(q, i)}

\* A repetition of anything but a search ends the run with what there is.
EndsRun(q) == \E i \in Repeated(q) : KeyKind[q[i]] # "search"

IsTransfer(q) == \E i \in DOMAIN q : KeyKind[q[i]] = "transfer"

\* The messages of a turn: its calls, and one message for each of the answered.
AddTurn(q, answeredNow) ==
    answers' = [c \in DOMAIN answers \cup {<<turn, i>> : i \in DOMAIN q} |->
                   (IF c \in DOMAIN answers THEN answers[c] ELSE 0)
                   + (IF c \in {<<turn, i>> : i \in answeredNow} THEN 1 ELSE 0)]

CountSeen(q) ==
    seen' = [k \in ToolKeys |-> seen[k] + Cardinality({i \in DOMAIN q : q[i] = k})]

\* applyHandoff: the first transfer is answered, its siblings are not.
ReplyTransfers(q) ==
    /\ IsTransfer(q)
    /\ LET first == CHOOSE i \in DOMAIN q :
                        /\ KeyKind[q[i]] = "transfer"
                        /\ \A j \in 1..i - 1 : KeyKind[q[j]] # "transfer"
       IN AddTurn(q, {first})
    /\ turn' = turn + 1
    /\ handovers' = handovers \cup {turn}
    /\ UNCHANGED <<turnPc, asked, seen, running, fails, outcome, brokenTurns, executed>>

ReplyRepeats(q) ==
    /\ ~IsTransfer(q) /\ EndsRun(q)
    /\ End("bestEffort")
    /\ UNCHANGED <<turn, asked, seen, running, fails, answers, turnHistory>>

\* Nothing but searches that were made before: they are told so.
ReplySearchesAgain(q) ==
    /\ ~IsTransfer(q) /\ ~EndsRun(q) /\ Repeated(q) = DOMAIN q
    /\ CountSeen(q) /\ AddTurn(q, DOMAIN q)
    /\ turn' = turn + 1
    /\ UNCHANGED <<turnPc, asked, running, fails, outcome, turnHistory>>

ReplyCalls(q) ==
    /\ ~IsTransfer(q) /\ ~EndsRun(q) /\ Repeated(q) # DOMAIN q
    /\ CountSeen(q)
    /\ asked' = q /\ fails' = {}
    /\ running' = DOMAIN q \ Repeated(q)
    /\ executed' = [k \in ToolKeys |->
                       executed[k] + Cardinality({i \in running' : q[i] = k})]
    /\ turnPc' = "execute"
    /\ UNCHANGED <<turn, outcome, answers, handovers, brokenTurns>>

MayAsk == turnPc = "ask" /\ turn < MaxTurns /\ ~runCancelled

ModelReply(q) ==
    /\ MayAsk /\ UNCHANGED runCancelled
    /\ ReplyTransfers(q) \/ ReplyRepeats(q) \/ ReplySearchesAgain(q) \/ ReplyCalls(q)

\* The model answers without a call, or fails.
ModelAnswers ==
    /\ MayAsk
    /\ \E how \in {"answer", "failed"} : End(how)
    /\ UNCHANGED <<turn, asked, seen, running, fails, runCancelled, answers, turnHistory>>

StopsBeforeAsking ==
    /\ turnPc = "ask"
    /\ \/ turn = MaxTurns /\ End("maxTurns")
       \/ turn < MaxTurns /\ runCancelled /\ End("cancelled")
    /\ UNCHANGED <<turn, asked, seen, running, fails, runCancelled, answers, turnHistory>>

-----------------------------------------------------------------------------
(* executeToolCalls *)

\* A call ends; an error ends the context of the others, which may still end
\* either way.
ToolEnds(i, ok) ==
    /\ turnPc = "execute" /\ i \in running
    /\ running' = running \ {i}
    /\ fails' = IF ok THEN fails ELSE fails \cup {i}
    /\ UNCHANGED <<turnPc, turn, asked, seen, outcome, runCancelled, answers, turnHistory>>

AllEnded == running = {}

Wrong_OnlyExecuted(q) == {i \in DOMAIN q : Cardinality({j \in DOMAIN q : q[j] = q[i]}) = 1
                                           /\ seen[q[i]] = 1}

\* The results of the calls, and the remarks on searches that were repeated.
AnsweredCalls(q) == DOMAIN q

\* One failure costs the results of the whole turn: neither the calls nor what
\* they returned become messages.
TurnEnds ==
    /\ turnPc = "execute" /\ AllEnded
    /\ turnPc' = "ask" /\ turn' = turn + 1
    /\ IF fails = {}
       THEN AddTurn(asked, AnsweredCalls(asked)) /\ UNCHANGED brokenTurns
       ELSE brokenTurns' = brokenTurns \cup {turn} /\ UNCHANGED answers
    /\ asked' = <<>> /\ fails' = {}
    /\ UNCHANGED <<seen, running, outcome, runCancelled, handovers, executed>>

\* Service.Cancel, or the context of the caller.
CancelRun ==
    /\ turnPc \in {"ask", "execute"} /\ ~runCancelled
    /\ runCancelled' = TRUE
    /\ UNCHANGED <<turnPc, turn, asked, seen, running, fails, outcome, answers, turnHistory>>

-----------------------------------------------------------------------------
TurnStep ==
    \/ \E q \in ModelReplies : ModelReply(q)
    \/ ModelAnswers \/ StopsBeforeAsking \/ TurnEnds
    \/ \E i \in 1..4, ok \in BOOLEAN : ToolEnds(i, ok)

TurnNext == ExecuteWithLLM \/ TurnStep \/ CancelRun

\* The model and the tools return.
TurnFairness == WF_turnVars(TurnStep)

TurnSpec == TurnInit /\ [][TurnNext]_turnVars /\ TurnFairness

-----------------------------------------------------------------------------
(* Correctness *)

\* Whenever the model is asked, each tool call among the messages has exactly
\* one answer, except for the siblings of a transfer (line 106 and line 233).
AnsweredBeforeAsking ==
    turnPc = "ask" =>
        \A c \in DOMAIN answers :
            IF c[1] \in handovers THEN answers[c] <= 1 ELSE answers[c] = 1

\* No call is executed twice in a run, not even one that has failed, or that was
\* asked for twice in one reply: its tool may have had its effect (line 250).
NothingRunsTwice == \A k \in ToolKeys : executed[k] <= 1

\* No tool is under way once the run has gone on or come to an end (line 591).
NothingOutlivesTheTurn == turnPc # "execute" => running = {}

\* The run ends, also with a model that transfers and searches without end.
TurnsEnd == (turnPc = "ask") ~> (turnPc = "ended")

\* The turns of a run are sound: every call is answered before the model is
\* asked again, none is made twice, none outlives its turn.
TurnsAreWhole == AnsweredBeforeAsking /\ NothingRunsTwice /\ NothingOutlivesTheTurn

\* The turns of a run are sound, and the run ends.
TurnLoopCorrect == [](TurnTypeOK /\ TurnsAreWhole) /\ TurnsEnd
=============================================================================
