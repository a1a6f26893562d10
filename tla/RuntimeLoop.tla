----------------------------- MODULE RuntimeLoop -----------------------------
(***************************************************************************)
(* The event loop of a streamed run (runtime.go): rounds of a call to the  *)
(* model and of the tools it asks for, which run in parallel and tell what *)
(* they do through one bounded channel of events.  Sending an event blocks *)
(* while the channel is full, whatever becomes of the context.             *)
(*                                                                         *)
(* A tool call runs in a subagent of its own (service_helpers.go), which   *)
(* executes it with a Runtime without an event channel: a transfer to an   *)
(* agent that is known stops for ever at its event (subagent.go:636).      *)
(* Events are told apart as far as a reader needs: the thinking and the    *)
(* partial content of a round are one event.                               *)
(***************************************************************************)
EXTENDS Integers, Sequences, FiniteSets

CONSTANTS
    Replies,      \* tool calls of a reply: sequences of "tool" (an ordinary
                  \* one), "transfer" (known) and "lost" (to nobody)
    MaxRounds,    \* maxRounds, 20 in the code
    Capacity      \* the capacity of eventChan, 100 in the code

ASSUME RuntimeAssumption ==
    /\ Replies \subseteq Seq({"tool", "transfer", "lost"}) \ {<<>>}
    /\ MaxRounds \in Nat \ {0} /\ Capacity \in Nat \ {0}

VARIABLES
    loopPc,       \* where loop is
    round,
    calls,        \* the tool calls of this round
    next,         \* the first one that is not yet started
    toolPc,       \* where each of them is
    failed,       \* the tool calls that returned an error
    answered,     \* how many tool messages each call of this round has
    events,       \* eventChan
    cancelled,    \* the context has ended
    reader,       \* "reads", "left" or "done": the channel was closed
    told          \* history: what the reader was told

toolVars == <<calls, next, toolPc, failed, answered>>
readerVars == <<events, reader, told>>
runtimeVars == <<loopPc, round, toolVars, cancelled, readerVars>>

CallIds == UNION {DOMAIN q : q \in Replies}
Event == [what : {"start", "thinking", "complete", "error"}, call : {0}]
         \cup [what : {"call", "result"}, call : CallIds]
The(what) == [what |-> what, call |-> 0]

RuntimeTypeOK ==
    /\ loopPc \in {"idle", "start", "check", "cancelled", "think", "model", "tools", "wait", "fail",
                   "done", "complete", "close", "closed"}
    /\ round \in 0..MaxRounds
    /\ calls \in Replies \cup {<<>>} /\ next \in 1..Len(calls) + 1
    /\ toolPc \in [DOMAIN calls -> {"none", "call", "run", "result", "stuck", "done"}]
    /\ failed \subseteq DOMAIN calls
    /\ answered \in [DOMAIN calls -> Nat]
    /\ events \in Seq(Event) /\ Len(events) <= Capacity
    /\ cancelled \in BOOLEAN
    /\ reader \in {"reads", "left", "done"}
    /\ told \in [open : SUBSET CallIds, finals : Nat, broken : BOOLEAN]

RuntimeInit ==
    /\ loopPc = "idle" /\ round = 0
    /\ calls = <<>> /\ next = 1 /\ toolPc = <<>> /\ failed = {} /\ answered = <<>>
    /\ events = <<>> /\ cancelled = FALSE
    /\ reader = "reads" /\ told = [open |-> {}, finals |-> 0, broken |-> FALSE]

\* Sending blocks while the channel is full.
SendEvent(e) ==
    /\ Len(events) < Capacity
    /\ events' = Append(events, e)

-----------------------------------------------------------------------------
(* loop *)

\* The event is sent, and the loop goes on.
Say(from, e, to) ==
    /\ loopPc = from /\ SendEvent(e) /\ loopPc' = to
    /\ UNCHANGED <<round, toolVars, cancelled, reader, told>>

\* RunStream makes the channel and starts the loop.
RunStream ==
    /\ loopPc = "idle"
    /\ loopPc' = "start"
    /\ UNCHANGED <<round, toolVars, cancelled, readerVars>>

EmitStart == Say("start", The("start"), "check")

\* The rounds may be used up: then the channel is closed without a last word.
AfterCheck ==
    IF round = MaxRounds THEN "close" ELSE IF cancelled THEN "cancelled" ELSE "think"

CheckRound ==
    /\ loopPc = "check"
    /\ loopPc' = AfterCheck
    /\ UNCHANGED <<round, toolVars, cancelled, readerVars>>

EmitCancelled == Say("cancelled", The("error"), "close")
EmitThinking == Say("think", The("thinking"), "model")

\* The model fails, answers, or signals that the task is complete; the call
\* of task_complete is told as one that has returned.
ModelEnds ==
    /\ loopPc = "model"
    /\ \E to \in {"fail", "done", "complete"} : loopPc' = to
    /\ UNCHANGED <<round, toolVars, cancelled, readerVars>>

EmitModelError == Say("fail", The("error"), "close")
EmitTaskComplete == Say("done", The("thinking"), "complete")
EmitComplete == Say("complete", The("complete"), "close")

\* The model asks for tools.
ModelCalls(q) ==
    /\ loopPc = "model"
    /\ loopPc' = "tools"
    /\ calls' = q /\ next' = 1 /\ failed' = {}
    /\ toolPc' = [i \in DOMAIN q |-> "none"]
    /\ answered' = [i \in DOMAIN q |-> 0]
    /\ UNCHANGED <<round, cancelled, readerVars>>

\* A transfer is made before the next call is started, the others in parallel.
StartCall ==
    /\ loopPc = "tools" /\ next <= Len(calls)
    /\ toolPc' = [toolPc EXCEPT ![next] =
           CASE calls[next] = "tool"     -> "call"
             [] calls[next] = "lost"     -> "done"
             [] calls[next] = "transfer" -> "stuck"]
    /\ failed' = IF calls[next] = "lost" THEN failed \cup {next} ELSE failed
    /\ loopPc' = IF calls[next] = "transfer" THEN "wait" ELSE "tools"
    /\ next' = IF calls[next] = "transfer" THEN next ELSE next + 1
    /\ UNCHANGED <<round, calls, answered, cancelled, readerVars>>

Wrong_FirstErrorEnds ==
    failed # {} \/ \A i \in DOMAIN calls : toolPc[i] = "done"

\* g.Wait: no call returns an error to the group.
ToolsDone == \A i \in DOMAIN calls : toolPc[i] = "done"

\* The message of each call, with its result or with its error.
AnswersOfRound == [i \in DOMAIN calls |-> answered[i] + 1]

NextRound == round + 1

CollectResults ==
    /\ loopPc = "tools" /\ next > Len(calls) /\ ToolsDone
    /\ answered' = AnswersOfRound
    /\ round' = NextRound
    /\ loopPc' = "check"
    /\ UNCHANGED <<calls, next, toolPc, failed, cancelled, readerVars>>

CloseChannel ==
    /\ loopPc = "close"
    /\ loopPc' = "closed"
    /\ UNCHANGED <<round, toolVars, cancelled, readerVars>>

-----------------------------------------------------------------------------
(* A tool call *)

ToolStep(i, from, to) ==
    /\ i \in DOMAIN calls /\ toolPc[i] = from
    /\ toolPc' = [toolPc EXCEPT ![i] = to]
    /\ UNCHANGED <<loopPc, round, calls, next, answered, cancelled, reader, told>>

EmitToolCall(i) ==
    ToolStep(i, "call", "run") /\ SendEvent([what |-> "call", call |-> i]) /\ UNCHANGED failed

\* The subagent has finished; a hook or a permission that denies is an error.
ToolReturns(i, ok) ==
    /\ ToolStep(i, "run", "result")
    /\ failed' = IF ok THEN failed ELSE failed \cup {i}
    /\ UNCHANGED events

EmitToolResult(i) ==
    ToolStep(i, "result", "done") /\ SendEvent([what |-> "result", call |-> i]) /\ UNCHANGED failed

-----------------------------------------------------------------------------
(* The surroundings *)

ContextCancelled ==
    /\ loopPc # "idle" /\ ~cancelled
    /\ cancelled' = TRUE
    /\ UNCHANGED <<loopPc, round, toolVars, readerVars>>

\* What the reader knows after an event.
ToldAfter(e) ==
    [open   |-> CASE e.what = "call"   -> told.open \cup {e.call}
                  [] e.what = "result" -> told.open \ {e.call}
                  [] OTHER             -> told.open,
     finals |-> told.finals + (IF e.what \in {"complete", "error"} THEN 1 ELSE 0),
     broken |-> \/ told.broken
                \/ e.what = "result" /\ e.call \notin told.open
                \/ e.what = "call" /\ e.call \in told.open
                \/ e.what = "complete" /\ told.open # {}
                \/ told.finals > 0]

ReadEvent ==
    /\ reader = "reads" /\ events # <<>>
    /\ told' = ToldAfter(Head(events))
    /\ events' = Tail(events)
    /\ UNCHANGED <<loopPc, round, toolVars, cancelled, reader>>

ReaderSeesClosed ==
    /\ reader = "reads" /\ events = <<>> /\ loopPc = "closed"
    /\ reader' = "done"
    /\ UNCHANGED <<loopPc, round, toolVars, cancelled, events, told>>

\* At an error event (async_tasks.go:413), or with its own context.
ReaderLeaves ==
    /\ loopPc # "idle" /\ reader = "reads"
    /\ reader' = "left"
    /\ UNCHANGED <<loopPc, round, toolVars, cancelled, events, told>>

-----------------------------------------------------------------------------
LoopStep ==
    \/ EmitStart \/ CheckRound \/ EmitCancelled \/ EmitThinking \/ ModelEnds
    \/ EmitModelError \/ EmitTaskComplete \/ EmitComplete
    \/ \E q \in Replies : ModelCalls(q)
    \/ StartCall \/ CollectResults \/ CloseChannel

CallStep(i) ==
    EmitToolCall(i) \/ EmitToolResult(i) \/ \E ok \in BOOLEAN : ToolReturns(i, ok)

ReaderStep == ReadEvent \/ ReaderSeesClosed

RuntimeNext ==
    \/ RunStream \/ LoopStep \/ ContextCancelled \/ ReaderStep \/ ReaderLeaves
    \/ \E i \in CallIds : CallStep(i)

\* One of the goroutines that can go on does, the model and the tools return,
\* and the reader reads until it leaves.
RuntimeFairness ==
    /\ WF_runtimeVars(LoopStep \/ \E i \in CallIds : CallStep(i))
    /\ WF_runtimeVars(ReaderStep)

RuntimeSpec == RuntimeInit /\ [][RuntimeNext]_runtimeVars /\ RuntimeFairness

-----------------------------------------------------------------------------
(* Correctness *)

\* No tool of the run is under way when the channel is closed: none of them
\* sends into a closed channel (lines 58 and 396).
ClosedAfterTools ==
    loopPc \in {"close", "closed"} => \A i \in DOMAIN calls : toolPc[i] = "done"

\* The model sees exactly one message for each call it has made, in whatever
\* order the tools came to their end (lines 398-419).
EveryCallAnswered ==
    loopPc \in {"check", "cancelled", "think", "model"} =>
        \A i \in DOMAIN calls : answered[i] = 1

\* A reader who reads to the end was told of every call before its result, and
\* of no call that is open when the run completes; nothing follows the last word.
StoryIsWhole ==
    /\ ~told.broken
    /\ reader = "done" => told.open = {}

\* It was told one last word, unless the rounds were used up (line 497).
LastWordIsSaid ==
    reader = "done" => (told.finals = 1 \/ (told.finals = 0 /\ round = MaxRounds))

\* A run comes to its end, unless its reader leaves it or it hands over
\* (line 81: the rounds are counted, whatever the tools return).
RunEnds ==
    (loopPc = "start") ~>
        (loopPc = "closed" \/ reader = "left" \/ \E i \in DOMAIN calls : toolPc[i] = "stuck")

\* "The LLM routes to the right agent via transfer_to_* tool calls"
\* (README.md:418): a transfer that was begun is over at some time.
TransferEnds == \A i \in CallIds : (i \in DOMAIN calls /\ toolPc[i] = "stuck")
                    ~> (loopPc = "check" \/ reader = "left" \/ loopPc = "closed")

\* A streamed run tells its whole story: no event after the channel is closed,
\* an answer for every call, and a last word.
RunIsTold == ClosedAfterTools /\ EveryCallAnswered /\ StoryIsWhole /\ LastWordIsSaid

\* It tells its story, and ends if its reader stays and nothing is transferred.
RuntimeLoopCorrect == [](RuntimeTypeOK /\ RunIsTold) /\ RunEnds
=============================================================================
