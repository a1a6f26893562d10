------------------------------ MODULE AsyncTasks ------------------------------
(***************************************************************************)
(* The life of one background task of pkg/agent/async_tasks.go: the call   *)
(* that submits it, the goroutine that runs it, the agents whose runtime   *)
(* events are forwarded, and the readers that follow it through            *)
(* SubscribeTask (waitForAsyncTask of the CLI is one).  Tasks share only   *)
(* the lock taskMu, so one task stands for all.                            *)
(*                                                                         *)
(* One action is one critical section of taskMu (or queueMu), one channel  *)
(* operation, or one decision of an agent.  A send on a closed channel     *)
(* panics, and the process is gone: no action is enabled after it.         *)
(***************************************************************************)
EXTENDS Integers, Sequences, FiniteSets, Functions

CONSTANTS
    Agents,         \* the agents that may work on the task
    Readers,        \* the callers of SubscribeTask
    Cases,          \* kind of the task, agents that work on it, its readers
    None,           \* no reader
    MaxRuntime,     \* bound: runtime events an agent emits
    MaxTaskEvents,  \* length of the event log (200 in the code)
    MinCapacity,    \* least capacity of a channel (16 in the code)
    ExtraCapacity   \* its room beyond the backlog (4 in the code)

\* A task of SubmitAgentTask is worked on by one agent.
ASSUME CasesAssumption ==
    /\ IsFiniteSet(Agents) /\ Agents \cap {"submitter", "worker", "subscribers"} = {}
    /\ Cases \subseteq [kind : {"agent", "squad"},
                        agents : (SUBSET Agents) \ {{}}, readers : SUBSET Readers]
    /\ \A c \in Cases : c.kind = "agent" => \E a \in Agents : c.agents = {a}
ASSUME ReadersAssumption == None \notin Readers
ASSUME SizesAssumption ==
    /\ MaxRuntime \in Nat
    /\ MaxTaskEvents \in Nat \ {0}
    /\ MinCapacity \in Nat \ {0}
    /\ ExtraCapacity \in Nat

VARIABLES
    kind,       \* "agent" (SubmitAgentTask) or "squad" (SubmitSquadTask)
    status,     \* AsyncTask.Status, "absent" before the task is in asyncTasks
    log,        \* AsyncTask.Events
    shared,     \* SharedTask.Status of a squad task
    registered, \* taskSubs of the task: the readers whose channel is in it
    spc,        \* where the submitting call is
    wpc,        \* where the running goroutine is
    apc,        \* where each agent is
    emitted,    \* runtime events each agent has emitted
    snapshot,   \* status in the copy of the shared task the call works on
    out,        \* the event each emitter is delivering, and to whom
    rpc,        \* where each reader is
    backlog,    \* events SubscribeTask has still to replay
    chan,       \* the buffered channel of each reader
    capacity,   \* its capacity
    closed,     \* whether it is closed
    result,     \* the status a reader got from GetTask when it was done
    panicked    \* a send hit a closed channel

taskVars   == <<status, log>>
runVars    == <<spc, wpc, apc, emitted, snapshot, shared>>
readerVars == <<rpc, backlog, capacity, result>>
chanVars   == <<chan, closed>>
vars == <<kind, taskVars, runVars, registered, out, readerVars, chanVars, panicked>>

TerminalStatus == {"completed", "failed"}
TaskStatus == {"queued", "running"} \cup TerminalStatus
EventType  == {"created", "started", "runtime"} \cup TerminalStatus
Emitters   == {"submitter", "worker"} \cup Agents

Delivery == [to : SUBSET Readers, event : EventType, terminal : BOOLEAN,
             closing : Readers \cup {None}]
Nothing == [to |-> {}, event |-> "created", terminal |-> FALSE, closing |-> None]

TypeOK ==
    /\ kind \in {"agent", "squad"}
    /\ status \in TaskStatus \cup {"absent"}
    /\ log \in Seq(EventType) /\ Len(log) <= MaxTaskEvents
    /\ shared \in TaskStatus \cup {"absent"}
    /\ registered \subseteq Readers
    /\ spc \in {"submit", "check", "upsert", "update", "emit", "return", "done"}
    /\ wpc \in {"wait", "check", "upsert", "run", "emit", "agents", "finish",
               "emitEnd", "done"}
    /\ apc \in [Agents -> {"absent", "idle", "forward", "ok", "failed"}]
    /\ emitted \in [Agents -> 0..MaxRuntime]
    /\ snapshot \in TaskStatus
    /\ out \in [Emitters -> Delivery]
    /\ rpc \in [Readers -> {"idle", "replay", "read", "ask", "leave", "done"}]
    /\ backlog \in [Readers -> Seq(EventType)]
    /\ chan \in [Readers -> Seq(EventType)]
    /\ capacity \in [Readers -> Nat]
    /\ \A r \in Readers : Len(chan[r]) <= capacity[r]
    /\ closed \in [Readers -> BOOLEAN]
    /\ result \in [Readers -> TaskStatus \cup {"absent"}]
    /\ panicked \in BOOLEAN

Init ==
    /\ status = "absent" /\ log = <<>>
    /\ shared = "absent"
    /\ registered = {}
    /\ spc = "submit" /\ wpc = "wait"
    /\ \E c \in Cases :
           /\ kind = c.kind
           /\ apc = [a \in Agents |-> IF a \in c.agents THEN "idle" ELSE "absent"]
           /\ rpc = [r \in Readers |-> IF r \in c.readers THEN "idle" ELSE "done"]
    /\ emitted = [a \in Agents |-> 0]
    /\ snapshot = "queued"
    /\ out = [e \in Emitters |-> Nothing]
    /\ backlog = [r \in Readers |-> <<>>]
    /\ chan = [r \in Readers |-> <<>>]
    /\ capacity = [r \in Readers |-> 0]
    /\ closed = [r \in Readers |-> FALSE]
    /\ result = [r \in Readers |-> "absent"]
    /\ panicked = FALSE

-----------------------------------------------------------------------------
(* The task table *)

\* appendTaskEvent: the log keeps the latest events.
Appended(events, event) ==
    LET all == Append(events, event) IN
    IF Len(all) > MaxTaskEvents
    THEN SubSeq(all, Len(all) - MaxTaskEvents + 1, Len(all))
    ELSE all

\* upsertAsyncTask puts a new entry, whatever was there; its log is empty.
Upsert(newStatus) == status' = newStatus /\ log' = <<>>

\* updateAsyncTask changing the status only.
SetStatus(newStatus) == status' = newStatus /\ log' = log

-----------------------------------------------------------------------------
(* emitTaskEvent: a critical section, then the deliveries *)

Delivered(e) == out[e].to = {} /\ out[e].closing = None

Wrong_KeepsSubscribers(terminal) == registered
Wrong_DropsSubscribers(terminal) == {}

\* What taskSubs holds after the critical section of emitTaskEvent.
SubscribersAfter(terminal) == IF terminal THEN {} ELSE registered

\* The critical section: log the event, copy the subscribers, and forget them
\* if the event is the last.
Emit(e, event, terminal) ==
    /\ Delivered(e)
    /\ log' = Appended(log, event)
    /\ out' = [out EXCEPT ![e] = [to |-> registered, event |-> event,
                                  terminal |-> terminal, closing |-> None]]
    /\ registered' = SubscribersAfter(terminal)
    /\ UNCHANGED status

\* sendTaskEventToSubscribers, one channel: the event goes in if there is
\* room; a full channel loses it after 250 ms.
Deliver(e, r) ==
    /\ out[e].closing = None
    /\ r \in out[e].to
    /\ out' = [out EXCEPT ![e].to = @ \ {r},
                          ![e].closing = IF out[e].terminal THEN r ELSE None]
    /\ panicked' = closed[r]
    /\ chan' = IF ~closed[r] /\ Len(chan[r]) < capacity[r]
               THEN [chan EXCEPT ![r] = Append(@, out[e].event)]
               ELSE chan
    /\ UNCHANGED <<taskVars, runVars, registered, readerVars, closed>>

\* After a terminal event the channel is closed, before the next one is served.
CloseAfter(e, r) ==
    /\ out[e].closing = r
    /\ out' = [out EXCEPT ![e].closing = None]
    /\ closed' = [closed EXCEPT ![r] = TRUE]
    /\ panicked' = closed[r]
    /\ UNCHANGED <<taskVars, runVars, registered, readerVars, chan>>

-----------------------------------------------------------------------------
(* SubmitAgentTask and SubmitSquadTask *)

\* SubmitAgentTask puts the task in the table.
SubmitAgentTask ==
    /\ kind = "agent" /\ spc = "submit"
    /\ Upsert("queued")
    /\ spc' = "emit"
    /\ UNCHANGED <<wpc, apc, emitted, snapshot, shared, registered, out,
                   readerVars, chanVars, panicked>>

\* SubmitSquadTask enqueues the shared task; from now on it may be executed.
SubmitSquadTask ==
    /\ kind = "squad" /\ spc = "submit"
    /\ shared' = "queued"
    /\ spc' = "check"
    /\ UNCHANGED <<wpc, apc, emitted, snapshot, taskVars, registered, out,
                   readerVars, chanVars, panicked>>

\* ensureAsyncTaskForSharedTask looks the task up and lets go of the lock.
\* The call works on a copy of the shared task (made by EnqueueSharedTask; a
\* look-up that early finds the same, so both are one step).
CheckSubmitted ==
    /\ spc = "check"
    /\ snapshot' = shared
    /\ spc' = IF status = "absent" THEN "upsert" ELSE "update"
    /\ UNCHANGED <<wpc, apc, emitted, shared, taskVars, registered, out,
                   readerVars, chanVars, panicked>>

\* It had found nothing: it puts an entry with the status of its copy.
UpsertSubmitted ==
    /\ spc = "upsert"
    /\ Upsert(snapshot)
    /\ spc' = "emit"
    /\ UNCHANGED <<wpc, apc, emitted, snapshot, shared, registered, out,
                   readerVars, chanVars, panicked>>

Wrong_RefreshesStatus == snapshot

\* The status of an entry that was already there.
StatusOfExisting == status

UpdateSubmitted ==
    /\ spc = "update"
    /\ SetStatus(StatusOfExisting)
    /\ spc' = "emit"
    /\ UNCHANGED <<wpc, apc, emitted, snapshot, shared, registered, out,
                   readerVars, chanVars, panicked>>

EmitCreated ==
    /\ spc = "emit"
    /\ Emit("submitter", "created", FALSE)
    /\ spc' = "return"
    /\ UNCHANGED <<wpc, apc, emitted, snapshot, shared, readerVars, chanVars, panicked>>

\* SubmitAgentTask starts the goroutine once the event is delivered.
ReturnFromSubmit ==
    /\ spc = "return"
    /\ Delivered("submitter")
    /\ spc' = "done"
    /\ wpc' = IF kind = "agent" THEN "run" ELSE wpc
    /\ UNCHANGED <<apc, emitted, snapshot, shared, taskVars, registered, out,
                   readerVars, chanVars, panicked>>

-----------------------------------------------------------------------------
(* runAsyncAgentTask and executeSharedTaskStream *)

\* The squad worker pops the shared task.
StartSharedTask ==
    /\ wpc = "wait" /\ shared = "queued"
    /\ shared' = "running"
    /\ wpc' = "check"
    /\ UNCHANGED <<spc, apc, emitted, snapshot, taskVars, registered, out,
                   readerVars, chanVars, panicked>>

CheckStarted ==
    /\ wpc = "check"
    /\ wpc' = IF status = "absent" THEN "upsert" ELSE "run"
    /\ UNCHANGED <<spc, apc, emitted, snapshot, shared, taskVars, registered,
                   out, readerVars, chanVars, panicked>>

UpsertStarted ==
    /\ wpc = "upsert"
    /\ Upsert("running")
    /\ wpc' = "run"
    /\ UNCHANGED <<spc, apc, emitted, snapshot, shared, registered, out,
                   readerVars, chanVars, panicked>>

MarkRunning ==
    /\ wpc = "run"
    /\ SetStatus("running")
    /\ wpc' = "emit"
    /\ UNCHANGED <<spc, apc, emitted, snapshot, shared, registered, out,
                   readerVars, chanVars, panicked>>

EmitStarted ==
    /\ wpc = "emit"
    /\ Emit("worker", "started", FALSE)
    /\ wpc' = "agents"
    /\ UNCHANGED <<spc, apc, emitted, snapshot, shared, readerVars, chanVars, panicked>>

\* The goroutines of the agents are running; nothing but AgentsDone makes the
\* task wait for them.
AgentsStarted ==
    \/ wpc = "agents" /\ Delivered("worker")
    \/ wpc \in {"finish", "emitEnd", "done"}

\* forwardRuntimeEvents of one agent.
ForwardRuntimeEvent(a) ==
    /\ AgentsStarted
    /\ apc[a] \in {"idle", "forward"}
    /\ emitted[a] < MaxRuntime
    /\ Emit(a, "runtime", FALSE)
    /\ apc' = [apc EXCEPT ![a] = "forward"]
    /\ emitted' = [emitted EXCEPT ![a] = @ + 1]
    /\ UNCHANGED <<spc, wpc, snapshot, shared, readerVars, chanVars, panicked>>

\* The agent's event stream ends, or it could not be opened.
AgentDone(a, res) ==
    /\ AgentsStarted /\ Delivered(a)
    /\ apc[a] \in {"idle", "forward"}
    /\ apc' = [apc EXCEPT ![a] = res]
    /\ UNCHANGED <<spc, wpc, emitted, snapshot, shared, taskVars, registered,
                   out, readerVars, chanVars, panicked>>

\* All results were collected (resultCh is closed).
AgentsDone == \A a \in Agents : apc[a] \in {"absent", "ok", "failed"}

Outcome == IF \E a \in Agents : apc[a] = "failed" THEN "failed" ELSE "completed"

Wrong_LeavesSharedTask == shared

\* The status the shared task is left with.
SharedOutcome == IF kind = "squad" THEN Outcome ELSE shared

\* The shared task of a squad takes the outcome.
RecordOutcome ==
    /\ wpc = "agents" /\ AgentsDone
    /\ shared' = SharedOutcome
    /\ wpc' = "finish"
    /\ UNCHANGED <<spc, apc, emitted, snapshot, taskVars, registered, out,
                   readerVars, chanVars, panicked>>

\* completeAsyncTask or failAsyncTask: first the status ...
FinishAsyncTask ==
    /\ wpc = "finish"
    /\ SetStatus(Outcome)
    /\ wpc' = "emitEnd"
    /\ UNCHANGED <<spc, apc, emitted, snapshot, shared, registered, out,
                   readerVars, chanVars, panicked>>

\* ... then, in a second critical section, the last event.
EmitOutcome ==
    /\ wpc = "emitEnd"
    /\ Emit("worker", Outcome, TRUE)
    /\ wpc' = "done"
    /\ UNCHANGED <<spc, apc, emitted, snapshot, shared, readerVars, chanVars, panicked>>

-----------------------------------------------------------------------------
(* SubscribeTask and its readers *)

\* isTerminalAsyncTaskStatus
IsTerminal(st) == st \in TerminalStatus

ChannelCapacity == IF Len(log) + ExtraCapacity > MinCapacity
                   THEN Len(log) + ExtraCapacity
                   ELSE MinCapacity

\* A finished task: the channel gets the log and is closed, nobody else has it.
SubscribeFinished(r) ==
    /\ rpc[r] = "idle" /\ IsTerminal(status)
    /\ capacity' = [capacity EXCEPT ![r] = ChannelCapacity]
    /\ chan' = [chan EXCEPT ![r] = log]
    /\ closed' = [closed EXCEPT ![r] = TRUE]
    /\ rpc' = [rpc EXCEPT ![r] = "read"]
    /\ UNCHANGED <<taskVars, runVars, registered, out, backlog, result, panicked>>

\* A live task: the channel is registered first and gets the log afterwards.
SubscribeLive(r) ==
    /\ rpc[r] = "idle" /\ status # "absent" /\ ~IsTerminal(status)
    /\ capacity' = [capacity EXCEPT ![r] = ChannelCapacity]
    /\ registered' = registered \cup {r}
    /\ backlog' = [backlog EXCEPT ![r] = log]
    /\ rpc' = [rpc EXCEPT ![r] = IF log = <<>> THEN "read" ELSE "replay"]
    /\ UNCHANGED <<taskVars, runVars, out, result, chanVars, panicked>>

\* The replay sends without a timeout: it waits for room, and nobody reads yet.
Replay(r) ==
    /\ rpc[r] = "replay"
    /\ closed[r] \/ Len(chan[r]) < capacity[r]
    /\ panicked' = closed[r]
    /\ chan' = IF closed[r] THEN chan
               ELSE [chan EXCEPT ![r] = Append(@, Head(backlog[r]))]
    /\ backlog' = [backlog EXCEPT ![r] = Tail(@)]
    /\ rpc' = [rpc EXCEPT ![r] = IF Len(backlog[r]) = 1 THEN "read" ELSE @]
    /\ UNCHANGED <<taskVars, runVars, registered, out, capacity, result, closed>>

\* waitForAsyncTask takes an event; the last one sends it to GetTask, and so
\* does a closed and empty channel.
Receive(r) ==
    /\ rpc[r] = "read"
    /\ chan[r] # <<>> \/ closed[r]
    /\ IF chan[r] = <<>>
       THEN rpc' = [rpc EXCEPT ![r] = "ask"] /\ UNCHANGED chan
       ELSE /\ rpc' = [rpc EXCEPT ![r] =
                          IF IsTerminal(Head(chan[r])) THEN "ask" ELSE @]
            /\ chan' = [chan EXCEPT ![r] = Tail(@)]
    /\ UNCHANGED <<taskVars, runVars, registered, out, backlog, capacity,
                   result, closed, panicked>>

AskTask(r) ==
    /\ rpc[r] = "ask"
    /\ result' = [result EXCEPT ![r] = status]
    /\ rpc' = [rpc EXCEPT ![r] = "leave"]
    /\ UNCHANGED <<taskVars, runVars, registered, out, backlog, capacity,
                   chanVars, panicked>>

\* The reader's context is cancelled.
GiveUp(r) ==
    /\ rpc[r] = "read"
    /\ rpc' = [rpc EXCEPT ![r] = "leave"]
    /\ UNCHANGED <<taskVars, runVars, registered, out, backlog, capacity,
                   result, chanVars, panicked>>

\* The deferred unsubscribe: whoever takes the channel out of taskSubs closes it.
Unsubscribe(r) ==
    /\ rpc[r] = "leave"
    /\ registered' = registered \ {r}
    /\ closed' = [closed EXCEPT ![r] = @ \/ r \in registered]
    /\ panicked' = (r \in registered /\ closed[r])
    /\ rpc' = [rpc EXCEPT ![r] = "done"]
    /\ UNCHANGED <<taskVars, runVars, out, backlog, capacity, result, chan>>

-----------------------------------------------------------------------------
Submit ==
    \/ SubmitAgentTask \/ SubmitSquadTask
    \/ CheckSubmitted \/ UpsertSubmitted \/ UpdateSubmitted
    \/ EmitCreated \/ ReturnFromSubmit

Run ==
    \/ StartSharedTask \/ CheckStarted \/ UpsertStarted
    \/ MarkRunning \/ EmitStarted
    \/ RecordOutcome \/ FinishAsyncTask \/ EmitOutcome

Forward(a) ==
    \/ ForwardRuntimeEvent(a)
    \/ \E res \in {"ok", "failed"} : AgentDone(a, res)

Send(e) == \E r \in Readers : Deliver(e, r) \/ CloseAfter(e, r)

Follow(r) ==
    \/ SubscribeFinished(r) \/ SubscribeLive(r)
    \/ Replay(r) \/ Receive(r) \/ AskTask(r) \/ Unsubscribe(r)

Next ==
    /\ ~panicked
    /\ \/ Submit
       \/ Run
       \/ \E a \in Agents : Forward(a)
       \/ \E e \in Emitters : Send(e)
       \/ \E r \in Readers : Follow(r) \/ GiveUp(r)
    /\ UNCHANGED kind

\* Goroutines are scheduled, an agent's stream ends, a send takes at most
\* 250 ms and a reader that has subscribed keeps reading.
Fairness ==
    /\ WF_vars(~panicked /\ Submit /\ UNCHANGED kind)
    /\ WF_vars(~panicked /\ Run /\ UNCHANGED kind)
    /\ \A a \in Agents :
           WF_vars(~panicked /\ (\E res \in {"ok", "failed"} : AgentDone(a, res))
                             /\ UNCHANGED kind)
    /\ \A e \in Emitters : WF_vars(~panicked /\ Send(e) /\ UNCHANGED kind)
    /\ \A r \in Readers : WF_vars(~panicked /\ Follow(r) /\ UNCHANGED kind)

Spec     == Init /\ [][Next]_vars
FairSpec == Spec /\ Fairness

-----------------------------------------------------------------------------
(* Correctness *)

\* Those who will close the channel of r: taskSubs still holds it (whoever
\* takes it out closes it), or an emitter has taken it out with the last event.
Closers(r) ==
    {e \in Emitters : out[e].terminal /\ (r \in out[e].to \/ out[e].closing = r)}
        \cup (IF r \in registered THEN {"subscribers"} ELSE {})

\* A channel is closed by one party only and once: an open channel of a reader
\* has one closer, a closed one has none (lines 212-246, 151-154, 227-229).
OneCloser ==
    \A r \in Readers :
        Cardinality(Closers(r)) = IF capacity[r] = 0 \/ closed[r] THEN 0 ELSE 1

\* Channels hold no more than they have room for, and are closed once.
ChannelsAreSafe == TypeOK /\ OneCloser

\* A finished task stays finished, unless the call that submits a squad task
\* has looked for the entry before the worker made it and puts its own over it
\* (ensureAsyncTaskForSharedTask, lines 16-19 and 76).
FinalUnlessLateUpsert ==
    [][(status \in TerminalStatus /\ status' # status) => (spc = "upsert")]_vars

\* After the last event nothing of the execution is logged: only the "created"
\* event of a late submitter can follow (agents are awaited, lines 346-358).
NothingRunsAfterOutcome ==
    \A i, j \in DOMAIN log :
        (i < j /\ log[i] \in TerminalStatus) => log[j] = "created"

\* No reader and no entry tells an outcome of a squad task that the shared
\* task does not have.
OutcomeIsRecorded ==
    \A o \in TerminalStatus :
        kind = "squad"
            /\ (status = o \/ o \in Range(log) \/ \E r \in Readers : o \in Range(chan[r]))
            => shared = o

\* Once an agent task is through, the log ends with its outcome, however many
\* events came before: the log drops the oldest (appendTaskEvent).
OutcomeIsLogged ==
    (kind = "agent" /\ wpc = "done") => (log # <<>> /\ log[Len(log)] = status)

\* Who waits for an agent task until it is told that the task is over finds it
\* finished (waitForAsyncTask reads the result after the last event).
WaiterFindsOutcome ==
    kind = "agent" =>
        \A r \in Readers : result[r] # "absent" => result[r] \in TerminalStatus

\* A reader of an agent task that got its channel is released in the end:
\* events may be lost to a full channel, but the channel is closed.
ReaderIsReleased ==
    \A r \in Readers :
        (kind = "agent" /\ rpc[r] = "read") ~> (rpc[r] = "done" \/ panicked)

\* The status a task is looked up with catches up with the shared task
\* (concierge_tools.go:195, "Get one background task status and latest
\* result."): a finished squad task does not show as running for ever.
StatusCatchesUp ==
    (shared \in TerminalStatus) ~> (status = shared \/ panicked)

\* Following a task and leaving it is safe at any time (async_tasks_test.go:71
\* defers unsubscribe while events are emitted).
NoPanic == ~panicked

\* The outcome is what readers, the log and the entry of a task tell in the
\* end: it is the last thing logged, the shared task has it, and who is told that
\* the task is over finds it.
OutcomeIsTold ==
    OutcomeIsLogged /\ WaiterFindsOutcome /\ NothingRunsAfterOutcome /\ OutcomeIsRecorded
=============================================================================
