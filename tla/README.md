# Verification of AgentGo (rago)

AgentGo is a Go program that runs language-model agents: alone, as squads that
share a queue of tasks, as subagents, on a schedule, behind a command line, a
web interface and several protocols.  This directory holds TLA+ models of its
concurrent and stateful parts, the TLC configurations that check them on small
instances, and TLAPS proofs that hold for every instance.

To repeat a check: `tlc -config ts_loop.cfg MCTaskScheduler.tla`; a proof:
`tlapm TaskSchedulerProofs.tla`.  `MC<module>` supplies the constants that a
`.cfg` cannot write.

A definition whose name begins with `Wrong_` is no part of a model.  It is a
plausible mistake in the definition that follows it; `PROJECT.json` says which
property finds it.  Every property of every run has one.

## The system and its models

`PROJECT.json` maps every definition to the lines it models and lists the parts
that are not modelled, with the reason.

### The queue, the tasks, the scheduler, the subagent

Each of these four has a run of its own.

| module | models | runs | proofs |
|---|---|---|---|
| `SharedTaskQueue` | squad task queue, `pkg/agent/squad_manager.go` | `stq_two_squads`, `stq_one_squad`, `stq_stranded` | `SharedTaskQueueProofs`, `SerialQueueProofs` |
| `SerialQueue` | what that queue promises | `stq_one_squad` (refinement) | `SerialQueueProofs` |
| `AsyncTasks` | background tasks and their event streams, `pkg/agent/async_tasks*.go` | `at_tasks`, `at_panic`, `at_stale` | `AsyncTasksProofs` |
| `TaskScheduler` | cron scheduler, `pkg/scheduler` | `ts_loop`, `ts_stop` | `TaskSchedulerProofs` |
| `SubAgent` | one subagent, `pkg/agent/subagent.go` | `parts_liveness`, `sa_wait_all` | `AgentsProofs` |

**Squad shared-task queue** (`SquadManager`).  *State:* `sharedTasks`,
`taskQueues` and `queueRunning` behind `queueMu`, and the table `shared_tasks`.
*Operations:* `EnqueueSharedTaskForSquad`, the worker `runSharedTaskQueue` with
`nextQueuedTask` and `executeSharedTaskStream`, `restoreSharedTasks` at the
start of the process.  *Hard:* an enqueue is two critical sections with a
database call between them, which the worker of the squad may overtake; the
call that must start the worker may fail; the process may die anywhere and the
queues are rebuilt from the rows.  *Correct when:* one worker per squad, no
task lost, duplicated, revived or overtaken, acknowledged tasks get their turn.

**Asynchronous tasks** (`SubmitAgentTask`, `SubmitSquadTask`, `SubscribeTask`,
`waitForAsyncTask` of the command line).  *State:* `asyncTasks` and `taskSubs`
behind `taskMu`; one channel per subscriber; for a squad task also its shared
task.  *Hard:* an event is logged under the lock and delivered after it, to a
copy of the subscribers, while they leave; a subscriber is replayed the log
while live events arrive; channels are full, or closed by one of three parties;
the submitter and the worker both make the entry.  *Correct when:* a channel is
closed once, every reader is released, the outcome is final, logged, and the
one that is recorded.

**Task scheduler** (`TaskScheduler`).  *State:* the tables `tasks` and
`task_executions`, the semaphore, the flag `running` behind `mu`, the wait
group.  *Operations:* create, update, enable, delete, `RunTask`, the two loops,
`executeTask`, `Stop`.  *Hard:* `Stop` against executions under way, failing
statements, an execution that meets a changed or deleted task, crashes.
*Correct when:* no slot is lost or overbooked, `Stop` leaves nothing behind,
due tasks are taken up, and rows do not say running for nothing.

**Subagents** (`SubAgent`).  *State:* `state`, `result`, `err`, `ctx` behind
`mu` (in part), two channels.  *Operations:* `Run` with retries, `Cancel`,
`Pause`, `Resume`, `Wait`, and the coordinator's `RunAsync` and `RunAllAsync`.
*Hard:* a second `Run` over the same fields while the first is still on;
deadlines and cancellations around the moment of the result.  *Correct when:*
channels are closed once, the final state fits the result, a settled state
stays, a cancelled subagent ends.

### The other parts

They are independent of one another and share the runs `parts_safety` and
`parts_liveness` (see *The two suites*).  `AgentCalls` only puts together what
is said of plans, streamed replies and ACP tool calls, and `Retrieval` what is
said of documents, their chunks and chats.

| module | models (under `src/pkg`) | property | run | proofs |
|---|---|---|---|---|
| `SquadMembership` | agents, squads and memberships, the cache of services; `agent/squad_agents.go`, `agent/squad_manager.go`, `agent/store*.go` | `SquadMembershipCorrect` | safety | `AgentsProofs` |
| `LongRun` | heartbeat of a long-running agent and its task table; `agent/longrun.go`, `agent/task_queue.go` | `LongRunCorrect`; `StopEndsOnceBeatsEntered` | safety; liveness | `TaskSchedulerProofs` |
| `Checklist` | the checklist file that heartbeats and people edit; `agent/checklist.go`, `agent/longrun.go` | `ChecklistCorrect` | safety | `TaskSchedulerProofs` |
| `ServiceRuns` | runs, sessions and compactions of one service; `agent/service*.go`, `agent/session.go` | `ServiceRunsCorrect` | safety | `AgentsProofs` |
| `RuntimeLoop` | the streamed loop and its event channel; `agent/runtime.go` | `RuntimeLoopCorrect` | liveness, `rt_handoff` | `AgentsProofs` |
| `TurnLoop` | turns of a run and their concurrent tool calls; `agent/service_execution.go` | `TurnLoopCorrect` | liveness | `AgentsProofs` |
| `PlanExecution` | making, revising, executing plans; `agent/planner.go`, `agent/executor.go` | `AgentCallsInv` | safety | `ServersProofs` |
| `ToolStream` | a streamed reply with tool calls, provider to executor; `providers/openai.go`, `pool/client.go`, `agent/runtime.go` | `AgentCallsInv` | safety | `ServersProofs` |
| `AcpToolCalls` | what an ACP client is told of tool calls; `acpserver/server.go`, `agent/runtime.go` | `AgentCallsInv` | safety | `ServersProofs` |
| `AcpSessions` | ACP sessions and their runtimes; `acpserver/server.go` | `AcpSessionsInv` | safety | `ServersProofs` |
| `Gateway` | gateway and broadcaster; `agent/gateway.go` | `GatewayInv`; `HandOversEnd` | safety; liveness | `ServersProofs` |
| `McpManager` | MCP clients and their manager; `mcp/client.go` | `McpManagerInv`; `CallsEnd` | safety; liveness | `ServersProofs` |
| `ClientPool` | LLM and embedding clients; `pool/pool.go`, `services/global_pool.go` | `ClientPoolCorrect` | safety | `PoolsProofs` |
| `ProviderPool` | providers with retries, timers and probes; `providers/llm_pool.go` | `ProviderPoolInv` | safety | `PoolsProofs` |
| `CircuitBreaker` | circuit breaker; `providers/pool_enhanced.go` | `BreakerCorrect` | safety | `PoolsProofs` |
| `OperatorSessions` | programs on a terminal; `agent/operator_sessions.go` | `OperatorCorrect` | liveness | `AgentsProofs` |
| `FileCache` | cache in files with its LRU list; `cache/file_cache.go`, `cache/lru.go` | `FileCacheInv` | safety | `PoolsProofs` |
| `MemoryFiles` | memory kept in files, index, reflection, navigator; `memory`, `store/file_memory.go` | `MemoryFilesCorrect` | safety | `StoresProofs` |
| `CodeSandbox` | programmatic tool calling; `ptc`, `agent/ptc_integration.go` | `CodeSandboxInv` | safety | `AgentsProofs` |
| `KnowledgeBase` | ingest and deletion of documents; `rag/processor/service.go`, `rag/store` | `RagInv` | safety | `StoresProofs` |
| `Conversations` | chats of the LLM, RAG and MCP services; `llm`, `rag` and `mcp/service.go` | `RagInv` | safety | `StoresProofs` |
| `Chunker` | how sentences and words make chunks; `rag/chunker/service.go` | `RagInv` | safety | `StoresProofs` |

How the parts interact: `SubmitSquadTask` enqueues a shared task and makes an
asynchronous task with the same identity; the squad worker executes it and
reports through the asynchronous task (`AsyncTasks` has both sides, with the
queue reduced to the moment the worker pops the task).  The heartbeat of
`LongRunService` runs its tasks as subagents through the coordinator.  An
agent's service makes its turns (`TurnLoop`), streamed or not (`RuntimeLoop`),
and calls tools, among them those of MCP servers, of the sandbox and of the
operator; an ACP client watches them.  The requests to language models go
through one of the pools.  The scheduler's executors call the services.  Where
one model needs another part, it sees its outcome only, as a free choice.

The parts not modelled are sequential pipelines around model calls, database
statements and HTTP (graph extraction, router, search, usage, skills, command
line, web interface), arithmetic on reals (scores, embeddings), text processing
(prompts, metadata), maps behind one lock (hooks, tool registry) and generated
code.

## The four models with runs of their own

### `SharedTaskQueue`

One action is one critical section of `queueMu` with the local statements that
follow it.  `StampTask` is the part of the call before it (`CreatedAt` is read
there), `AdmitTask` the first section, `PersistTask` and `RejectTask` the two
ends of the save, `NextQueuedTask`, `RetireWorker` and `FinishTask` the worker;
`Crash`, `LoadTasks`, `LoadTasksFails` and `RestoreSquad` the death of the
process and `restoreSharedTasks`.  An agent run is the free choice of an
outcome.  A save is one step since `Store.mu` is held from the reading of the
task's fields to the end of the statement.  Saves whose error the code ignores
may fail (`SaveIgnoringError`).  Left out: torn reads of strings when the late
save and the clone (line 277) race with the worker, and the data race of
`restoreSharedTasks`, which writes the maps without the lock while the workers
of squads restored earlier are running.

`SerialQueue` is the promise: one line per squad, one turn at a time, in the
order of the line, with withdrawal, and with a reset after which lines are
filled again.  `Abstract` maps `line` to `taskQueues` and `turn` to the task
under execution.

| property | says |
|---|---|
| `OneWorkerPerSquad` | one worker, counting the one that is about to be started; a squad with a worker is marked |
| `TasksAreKept` | `QueuesAreSound`: a queue holds tasks of its squad that are known as queued, once each, and a squad with a queue is marked; `NoTaskForgotten`: queued means on the queue, running means executed, also after a restart; `AcknowledgedIsDurable`: an acknowledged task has a row |
| `RunsAsAnswered` | `RunsOncePerStart`: no second execution; `RejectedLeavesNoTrace`: a call that failed left nothing, unless the worker was faster |
| `StepsAreSound` | `FinishedIsFinal`: no revival of what the table says is finished; `AckIsAtMostOneTooHigh`: the reported number of tasks ahead is right or one too high; `StrandedOnlyByRejectedStarter`: the one way in which a queue stops |
| `NoOvertaking` | acknowledged before the other was created means executed before it |
| `ImplementsSerialQueue` | every step is a step of `SerialQueue` or leaves it alone |
| `TasksGetTheirTurn` | `AcknowledgedFinishes`: unless the database fails, an acknowledged task is finished, across crashes; `QueueMovesUnlessStranded` |

Runs.  `stq_two_squads` (368 000 states): three tasks on two squads, one failing
database call, one crash; safety.  Two tasks contend for a squad, which is what
the starter, the rejected call and the overtaking worker need; the third shows
that squads do not disturb each other, and is restored while the first squad
already works.  `stq_one_squad` (17 000): two tasks, one squad, one fault, two
crashes, under fairness; the second crash hits a queue that was rebuilt once.
`stq_stranded` refutes `AckedTaskGetsItsTurn`.

### `AsyncTasks`

One task (tasks share only the lock), as an agent task or as a squad task.  An
action is one critical section of `taskMu`, one channel operation, or one
decision of an agent.  `Emit` is the section of `emitTaskEvent`; `Deliver` and
`CloseAfter` the sends that follow it without the lock; `CheckSubmitted` and
`UpsertSubmitted`, like `CheckStarted` and `UpsertStarted`, the two sections of
`ensureAsyncTaskForSharedTask`; `SubscribeLive` and `Replay` the two parts of
`SubscribeTask`.  A send or a close on a closed channel sets `panicked`, after
which nothing happens.  Two delays become choices: a full channel loses the
event (after 250 ms), and a replay into a full channel waits.  Left out:
cancellation (the code stores cancel functions that nobody calls), event
payloads, the session's task list.

| property | says |
|---|---|
| `ChannelsAreSafe` | types, and `OneCloser`: an open channel has exactly one party that will close it, a closed one has none |
| `OutcomeIsTold` | `OutcomeIsLogged`: an outcome is the last event of the log; `WaiterFindsOutcome`: who reads to the end finds it there; `NothingRunsAfterOutcome`; `OutcomeIsRecorded`: the status is that of the shared task |
| `FinalUnlessLateUpsert` | names the only step that takes a finished task back |
| `ReaderIsReleased` | a reader that follows a task is released |

Runs.  `at_tasks` (249 000 states): an agent task with one agent or a squad task
with two that emit concurrently, two readers, a log of two events and channels
of two, so that the log drops events and channels are full.  `at_panic` and
`at_stale` are two of the disagreements below.

### `TaskScheduler`

One action is one database statement or one step that another goroutine can
come between.  A time is what the query of due tasks makes of it: none, later
or due.  `Tick`, `Dispatch`, `Skip` and `LoopExits` are `schedulerLoop`;
`LookUpExecutor`, `RecordStart`, `Execute`, `SaveOutcome` and `SetNextRun` the
goroutine of an execution, for the loop (`Runs`) and for `RunTask` (`Callers`);
`Stop` and `StopReturns` the two halves of `Stop`, between which `mu` is held;
`Statement` lets a statement fail by a fault or on the closed database.  Left
out: cron expressions (a schedule gives *some* later time), parameters and
listing, and a second `Start` of the same object.

| property | says |
|---|---|
| `SlotsAccounted` | the semaphore holds one token per goroutine of the loop |
| `StoppedIsQuiet` | when `Stop` has returned, no goroutine of the loop is left |
| `ScheduledHasNextRun` | a scheduled task never lacks a next run (it would be due every minute) |
| `StaleRunningNeedsFailure` | a row that says running for nothing needs a crash, a failed statement, or a `RunTask` that `Stop` overtook |
| `DueTaskRuns` | a task that stays due without being taken up sees others started again and again; it is never left alone |

Run `ts_loop` (353 000 states) has two instances, under fairness.  In one, a task
in all its states meets the loop, a caller of `RunTask`, a failing statement and
a crash.  In the other, two enabled tasks of the same priority compete for two
slots; a task becomes due again while it is executed, so that the loop is at its
limit with a due task in hand and skips it.  No slot is kept for a task that was
skipped, and the order within a priority is left open: one of the two may be
passed over for ever while the other is started, which is why `DueTaskRuns`
promises no more.  `ts_stop` refutes `StopEnds`.

### `SubAgent`

One subagent.  Executions of `Run` are named after how they come about: a
direct call, the coordinator's `RunAsync`, its `RunAllAsync` (which `WaitAll`
and `WaitAny` use), or `Resume`.  `EnterRun` is the first critical section of
`Run`, `Finish` the one in its deferred function, `Close` the rest of that.
What is easily missed is in the state: each execution has its context
(`ended`), but the code asks the field `sa.ctx` (`ctx`), which a later
execution replaces.  Left out: the turns of an attempt and the tools, hooks,
the moment between the two contexts of a `Run` with a timeout, torn reads of
`result` and `err`, and the generations of the channels: the two channels
appear as one that is open or closed.

`SubAgentCorrect` is checked in `parts_liveness` with one direct call, one
resume (early or late), one retry, a timeout and one waiter:
`PanicNeedsOverlap` (with one call of `Run`, `OneCallOfRun`, and resumes, a channel is misused
only if `Resume` came before the paused `Run` had ended), `OutcomeMatchesState`
(one execution at a time: the final state fits result and error),
`EmptyAnswerNeedsCancel` (`Wait` returns neither result nor error only if the
subagent was cancelled), `SettledStays` (a pause or final state is left by
`Resume`, by a deadline that came first, or by a `Run` that had been called
before and overrides it), `CancelEnds` (a cancelled subagent ends and releases
those who wait).  `sa_wait_all` refutes `NoPanic` for the README's two calls.

## The two suites

The components of the second table have no state in common.  `MCParts` (safety)
and `MCLiveParts` (liveness) extend their modules and choose in the initial
state which `part` moves; the others stay in their initial state.  A run is thus
the union of one state graph per component, and each property is about one of
them.  Three components have an instance in both suites, since their safety and
their liveness need different bounds.

`parts_safety` has 520 000 states.  `GatewayInv` and the like are invariants;
the properties called `...Correct` hold an action property as well.  Where it
says "unless" below, the model records that the excuse has occurred, and
nothing but that occurrence lets the property off.

| property | says | instance (states) |
|---|---|---|
| `SquadMembershipCorrect` | `ServicesAreCurrent`: a cached service shows its agent's roles unless it is about to be cleared; `SecondLeadNeedsOverlap`, `LastLeadStays`, `OrphansNeedOverlap`: two leads, none, or a membership of nobody only through calls that overlap | 2 squads, 2 agents, 2 callers, 1 failing statement (32 000) |
| `LongRunCorrect` | `SecondExecutionNeedsOverlap`, `OutcomeStaysUnlessOverlap`, `RunningIsAtWork`, `StoppedHasNoBeats` | 2 tasks, 2 heartbeats, 1 failing statement, 1 crash (53 000) |
| `ChecklistCorrect` | `LinesSurvive`, `ExecutedOnceUnlessExcused`, `ApprovalIsAwaited`, and `MarksWhatWasDone` | 2 lines, 2 heartbeats, 1 mishap of a kind (29 000) |
| `ServiceRunsCorrect` | `AnsweredIsRemembered`, `CancelFindsTheRun`, `SourcesAreOwn`, and `SummaryIsKept`: runs in one session keep out of each other's way unless they overlap, or one that could not read the session replaces it by a fresh one | 2 runs, 1 compaction, any read fails (39 000) |
| `AcpSessionsInv` | `NoRuntimeLost`, `PromptFindsItOpen`, `OneRunPerSession` | 1 session, 2 loads, 2 prompts, 3 runtimes (11 000) |
| `GatewayInv` | `ClientsAreServed`, `NothingLeftOpen`, `MeetingsEnd`: the process ends by a panic only where a message meets an answer under way | 2 peers, 1 caller, queue of 1 (47 000) |
| `McpManagerInv` | `ConnectedAreKnown`, `PanicNeedsStop`, `ForgottenAreClosed` | 1 server, 2 calls, 2 clients, 1 failure (18 000) |
| `ClientPoolCorrect` | `CountsAreUsers`, `HintHonoured`, `ClosedWithoutCalls`, and `LimitHoldsUnlessOvertaken` | 2 clients, limits 1, 2 callers, 2 pools (40 000) |
| `ProviderPoolInv` | `LoadsAreCalls`, `OutOnlyForAWhile`, `FailedIsAvoided` | 2 providers, 2 requests, 1 retry, every configuration (29 000) |
| `BreakerCorrect` | `ClosedIsBelowThreshold`, and `TriedAgainAfterRecovery` | threshold 2, 2 askers (70) |
| `FileCacheInv` | `MemoryIsOnDisk`, `OrderIsOnDisk`, `SizeIsKept`, `TornHasACause` | 3 keys, size 2, 3 writes, 1 fault, 1 kill, 2 processes one after the other (25 000); 2 processes at once, 2 keys, 2 writes (9 000) |
| `MemoryFilesCorrect` | `IndexIsCurrent`, `EvidenceCountedOnce`, `NavigatorIsCurrent`, and `NothingComesBack` | 3 facts, 3 observations, 2 callers, 2 calls, 1 mishap, replies of up to 2 observations (85 000) |
| `CodeSandboxInv` | `AnswerIsWhole`, `LateNeedsTimeout`, `DeathNeedsOverlap`, `HistoryIsNewest` | 2 executions, 1 tool, 1 call, history of 1 (16 000) |
| `RagInv` | `KnowledgeInv` = `IngestedIsWhole`, `DeletedStaysGone`, `BatchTellsSuccesses`; `ConversationsInv` = `LossNeedsCrossing`, `NothingSaidTwice`, `AskedWithTheStory`, `NoMixing`; `ChunkerInv` = `NothingLost`, `RepeatsTheEnd`, `SizeUnlessOneSentence`, `WordsCovered` | 2 documents of 2 chunks in one batch, ingested one after the other or at once (30 000); 2 calls, 2 conversations (5 000); a few texts, 3 sizes, 4 overlaps (9 000) |
| `AgentCallsInv` | `PlanExecutionInv` = `SuccessIsWhole`, `OutputsAreCurrent`, `DependenciesCameFirst`, `RowsAreWhole`; `ToolStreamInv` = `WholeUnlessFragmented`, `NamedOnce`, `ResultIsCaptured`, `TwiceNeedsLateRefusal`; `AcpToolCallsInv` = `OwnStory`, `EachEndsOnce`, `RefusedIsShown` | 2 plans of 2 steps, 2 runners (18 000); 20 replies, 2 providers, 3 consumers (9 000); 2 calls, alike or not (14 000) |

`parts_liveness` has 52 000 states and checks, under fairness, what must happen
in the end; some of its properties hold safety as well.

| property | says | instance |
|---|---|---|
| `SubAgentCorrect` | see `SubAgent` above | 1 run, 1 resume, 1 waiter |
| `RuntimeLoopCorrect` | `ClosedAfterTools`, `EveryCallAnswered`, `StoryIsWhole`, `LastWordIsSaid`, and `RunEnds` | 3 rounds, channel of 2, up to 3 calls |
| `TurnLoopCorrect` | `AnsweredBeforeAsking`, `NothingRunsTwice`, `NothingOutlivesTheTurn`, and `TurnsEnd` | 3 turns, 8 kinds of reply |
| `StopEndsOnceBeatsEntered` | `Stop` of the heartbeat returns once no heartbeat needs the lock that `Stop` holds | 1 task, 2 heartbeats |
| `HandOversEnd` | `HandlerEnds`, `BroadcastReturns`: who hands something to the broadcaster gets on | 1 peer, 1 caller, queue of 1 |
| `CallsEnd` | a call of an MCP tool ends | 1 server, 2 calls |
| `OperatorCorrect` | `CompletedIsComplete`, `LossIsReported`, `StatusMovesOn`, and `SessionsEnd` | 1 session, 1 user, 2 outputs |

**Bounds.**  Two of a kind are enough for the hazards of these components, which
are pairs of calls that come between each other's steps; where a third matters
(the size of a cache, the evidence of an observation, the runtimes of a session
that is loaded twice) there are three.  Failures are bounded by one, as a
second one of the same kind meets the same code.  `MCParts` narrows three
instances further.  The lock of the long-running service stays free in the
gateway, since a handler that waits for it is a question of liveness, and has it
in `parts_liveness`.  Of the memory files, new observations are numbered in the
order of their making, and a failure comes in the first call or before the
second observation.  Two processes share a cache only where nothing fails and
nobody dies, since either would be a cause of its own for a torn file.  Counters without a limit in
the code (executions, clients that were made, answers) stop at a named bound
(`Max...`), which a guard states.  `stq_two_squads` and `parts_safety` use
symmetry: of two tasks of one squad, and of two callers, runs, heartbeats,
documents or plans that no constant tells apart, either may stand for the other.
`parts_safety` has one permutation, which exchanges all such pairs at once; no
definition chooses among their members.

## Fairness

Weak fairness, only of what the Go scheduler, a ticker or a timeout
guarantees: a goroutine that can take its next step takes it; a call that was
made goes on; a dead process is started again (only where restarts are the
subject); an agent run and an executor return.  Callers never have to call.
In `AsyncTasks` a reader that has subscribed keeps reading, as
`waitForAsyncTask` does, and a send ends because it times out.  In `SubAgent`
an attempt need not return at all before its context has ended.  In
`RuntimeLoop` and `TurnLoop` the model and the tools return; in
`RuntimeLoop` the reader reads on until it leaves, which it may at any time.
In `OperatorSessions` the two goroutines of a session run on; nothing obliges
a child to exit.

Strong fairness is used in two places, for Go's own guarantees: in `Gateway` a
`select` does not pass over a ready case for ever and a full channel serves its
waiting senders in turn; in `McpManager` a mutex does not starve who waits for
it, and a server answers the handshake or fails.

Nothing is assumed of what may happen but need not: two writes that meet on a
connection of the gateway need neither fail nor panic, and a statement, a read
or a request for permission need neither fail nor succeed for ever.

## Disagreements between the code and its documentation

- `stq_stranded`: the call that must start the squad's worker fails to save its
  task while others are queued behind it.  The mark stays, no worker is ever
  started, and tasks that were told "It is queued behind %d task(s)." wait for
  ever.
- `at_panic`: events are sent to a copy of the subscribers after the lock is
  released; `unsubscribe` closes the channel in between and the send panics.
- `at_stale`: the copy of the shared task that the submitting call holds
  overwrites the entry of a task that has started or finished meanwhile; the
  status never catches up.
- `ts_stop`: `Stop` waits for executions with `mu` held; an execution that was
  just dispatched needs `mu` to look up its executor.
- `sa_wait_all`: `RunAsync` followed by `WaitAll`, as in the README, runs the
  subagent twice; the second run meets the closed channels of the first.
- `rt_handoff`: the tool calls of a streamed run are made by a subagent whose
  runtime has no event channel; a transfer announces itself on that nil
  channel and waits for ever, so that the run never ends.

Other observations made while modelling, which no document contradicts or which
need no interleaving:

- *Scheduler:* a task with an empty schedule is executed at every tick;
  `RunTask` is not subject to the limit of executions; a due task that finds the
  slots in use is skipped, and others may be started instead of it for ever.
- *Gateway:* the broadcaster (`gateway.go:146`) and the handler (172, 200, 204,
  211, 213) write to one connection without a lock.  The WebSocket library
  panics on writes that overlap: in the handler that ends the connection, in
  the broadcaster the process.
- *Sessions:* a run takes any error of `GetSession` for a session that does not
  exist (`service.go:380`, `439`), so that one failed read replaces its messages
  and its summary by those of a fresh session (`store.go:261`).
- *ACP server:* a call whose request for permission fails
  (`acpserver/server.go:212`, `475`) is not executed and stays shown as pending
  or in progress; its id stays first in the queue of its name and arguments.
- *Knowledge base:* graph edges use `GenerateEntityID(name, "")` while nodes use
  name and type, so that an edge never meets a node; deleting a document leaves
  its nodes; a document of which only some chunks were stored stays listed; a
  chunk with an empty vector is skipped though `ChunkCount` counts it;
  `IngestBatch` returns no error whatever failed; an ingest between the two
  clearings of `Reset` is answered and lost; `DeleteDocument` of the RAG client
  (`rag/client.go:275`) deletes the chunks and leaves the row of the document,
  and lists of documents end after 1000 rows (`sqlite_vector_store.go:864`).
  These two are outside the model.
- *Memory files:* a retrieval rewrites files, so that a crash can tear a memory
  that was only read; a failed write leaves a torn file that the index still
  lists; `InvalidateCache` is not called by `Service.Add` (`memory/service.go:371`)
  or a manual reflection, though `navigator.go:49` asks for it after a memory was
  added: for the time of an entry (`navigatorCacheTTL`) the navigator chooses
  from a list without it; superseding an observation frees its evidence; one
  reply may hold several observations that cite the same facts, and nothing
  compares them (`file_memory.go:484`).
- *Code sandbox:* a script that timed out runs on and may still call tools; it
  can end the process by a map race; an execution that failed leaves no history
  entry and loses its tool records; tools registered by one execution stay for
  later ones.
- *Squads:* check-then-act gives a squad two leads; `JoinSquad` of its only lead
  as specialist leaves none; a delete clears the cache before it deletes;
  `UpdateAgent` brings a deleted agent back; an orphaned membership blocks
  `DeleteSquad`.
- *File cache:* a kill in the middle of a write leaves a file that blocks every
  later `NewFileCache`, and so may two processes that write one file at once,
  without a kill or a fault: the end of a longer entry behind a shorter one; a
  failed eviction drops the key from the list only; a `Get` may overwrite a
  newer value of another process.
- *Operator sessions:* on Linux the end of a terminal is EIO, so that sessions
  end as failed even with exit code 0; output is lost when `waitProcess` closes
  the terminal first.
- *Plans:* the planner drops `depends_on` and `output_file`; substituted
  placeholders stay in the stored arguments; a plan that failed in part is
  completed; nothing is saved while it runs.
- *Conversations:* overlapping calls lose messages; a call that failed leaves its
  question; `Chat` picks an arbitrary conversation.
- *Streaming:* the OpenAI provider decodes each fragment of the arguments alone,
  and runtime and subagent keep the calls of the last delta only.  Arguments that
  do not parse are dropped without an error, also of a call that came whole
  (`openai.go:437`, `pool/client.go:335`, `751`), and the tool is called with
  none; a call that is not of the expected form leaves an empty one in the
  clients of the pool; programmatic tool calling makes one of two calls without
  identifiers that share a name (`service_ptc.go:112`); a refusal of web search
  in the middle of a reply leaves its calls beside those of the next one.
- *Provider pool and breaker:* the timer of an earlier failure makes a provider
  healthy that has failed again, and a success or failure between the two locks
  of `CanRequest` is overwritten by half-open, which admits any number of requests
  ("Allow one request to test", `pool_enhanced.go:216`).  `FailedIsAvoided` and `TriedAgainAfterRecovery` excuse these cases
  (a provider that was made healthy since, a caller that was overtaken), the
  run has one timer at a time, and no property counts the requests of a
  half-open breaker: what is checked is that no other way leads there.
- *Chunker:* chunks by words end in chunks that only repeat the end of the text.

## What is proved

For any constants that satisfy the assumptions of the modules, of each
specification's safety part, so with nothing assumed about fairness.  The
assumptions are that sets of actors, keys and the like are finite, that names
which the code keeps apart are distinct, that bounds are natural numbers, and
that a pool has at least one client and provider (`NewPool` refuses an empty
one), and of what a model answers: that the pieces of a streamed reply number
its calls and begin each once, and no tool bears the name that stands for none
(`ReplyAssumption`; identifiers, where there are any, tell calls apart), that a turn has up to four
calls, and of a document that every sentence has a word and every word is in a
sentence (`TextsAssumption`).  TLC evaluates them in the runs.

Each theorem below rests on an inductive invariant: it holds at the start, every
step keeps it (one lemma per action or group of actions), and it implies the
property.  What the invariant adds to the property is the reason why the code
is right, and is named here.

`SharedTaskQueueProofs`
- `TypeCorrect`: `TypeOK`.  Queues stay sequences of tasks: `WithoutType` for
  the removal, `ListingIsQueue` for the rebuilt queue.
- `OneWorker`: `OneWorkerPerSquad`.  Not inductive alone.  `WorkerInv` adds to
  it `TypeOK` and what it depends on: a call stamps and saves only while the
  process is up; a call that has not finished saving has no worker of its own
  yet; only the recovery has squads left to restore; when the process is down
  no squad is marked; and a squad still to be restored is not marked.
- `QueueKeepsTasks`: `TasksAreKept`; `QueueRunsAsAnswered`: `RunsAsAnswered`;
  `QueueStepsAreSound`: `StepsAreSound`, an action property.  `KeepsInv` is
  `WorkerInv` with what queue, table, rows and calls say of each other: a task
  that is not yet made, or that was refused and has no row, is known to nobody
  (`UnbornAreUnknown`, `RefusedAreUnknown`), a call that is saving has its task in the table
  (`SavingAreKnown`), a worker holds its running task and a task that runs is
  held (`WorkersHoldTheirTask`, `TasksAreHeld`), nothing is in memory while the
  process is down (`DownIsEmpty`), what is queued has not run
  (`QueuedHaveNotRun`), the manager does not
  contradict a row that says finished (`FinishedRowsAgree`), and while a call is
  to start the worker its task waits (`StartersWait`).

`SerialQueueProofs` adds the order: `OrderInv` is `KeepsInv` with
`CreationInOrder` (stamps, queues and acknowledgements agree) and `NoOvertaking`.
- `NobodyOvertakes`: `NoOvertaking`.
- `QueueIsSerial`: `ImplementsSerialQueue`, step by step; the removal of a
  rejected task maps to a withdrawal, a crash to a reset, the rebuilding of a
  queue to a refill, and every other step to a move of the line or a stutter.

`TaskSchedulerProofs`
- `TypeCorrect` and `NoSlotLost`, together (`IInv`): that a goroutine releases
  the semaphore only when it counts among those that hold it is what keeps it
  in `0..MaxConcurrentTasks`.  The lemmas `OneMore` and `OneLess` count.
- `QuietWhenStopped`, `ScheduledKeepsNextRun`, `StaleNeedsFailure`: inductive
  once the types are known, with one step per action.
- `LongRunIsCorrect`: `LongRunCorrect`, its action property included.  In
  `LongRunInductive` rows are numbered in the order of their making, so that a
  heartbeat's quota bounds its list: the last task it read has fewer older ones
  than the quota.  A task that is in one heartbeat's hands only is pending until
  that heartbeat marks it, and running after that; each execution had a
  heartbeat of its own.  That there is an oldest task is well-foundedness.
- `ChecklistIsCorrect`: `ChecklistCorrect`, its action property included.
  `ChecklistInductive` says what a heartbeat has in hand (`BeatFits`); that unless
  an update was cut off or crossed another, the file, or the copy that is about
  to replace it, has all lines, and those a heartbeat has listed are where it
  read them unless someone edited above them (`FileFits`); that without edits
  the first lines keep their places (`FirstLinesStay`) and those that await
  approval are as they were (`ApprovalsStay`); and that an item without an
  excuse was executed once at most, all its lines are then marked or about to
  be, and no heartbeat lists it but the one that has it in hand (`OnceAtMost`).
  The assumption that the lines of the first file differ is needed: of two equal
  lines each is executed, and the model knows an item by what its line says.
  The list of a heartbeat is a set of numbered lines of which the first is
  chosen, which the provers handle better than a filtered sequence.

`AsyncTasksProofs`
- `ChannelsStaySafe`: `ChannelsAreSafe`.  Inductive with `ChannelInv`: which
  phases of submitter, worker and readers go together; a last event is the
  worker's; a reader that has not subscribed is on no list; a reader that is
  replayed the log has a backlog; and `OpenIsOwned`, which is `OneCloser` in a
  form that names the closer: the table of subscribers, or the one emitter that
  took the channel out of it.
- `OutcomeStaysTold`: `OutcomeIsTold`.  `OutcomeInv` says which events the log
  may hold in each phase (`EventsHold`), what the status may be (`StatusesHold`),
  and that a reader's view was taken from the log in time.
- `OutcomeIsFinalUnlessLate`: `FinalUnlessLateUpsert`, from the same invariant.

`ServersProofs`
- `AcpSessionsAreSound`: `AcpSessionsInv`.  A load under way holds a runtime
  (`LoadsHoldRuntimes`); the runtime of a session is open and of no
  other session (`SessionsAreOpen`); until it is installed, a new one is open
  and known to its load only (`FreshRuntimes`); during a replay, and while a
  prompt works on it, it belongs to its session or was closed
  (`ReplayedRuntimes`, `PromptRuntimes`); a runtime streams one prompt at a time
  (`OneRunPerRuntime`).
- `McpManagerIsSound`: `McpManagerInv`.  A call that connects holds the lock of
  the manager, which knows no client of that server then (`ConnectingHoldsLock`);
  who has checked its client finds a session unless the client was stopped since
  (`CheckedHasSession`); a session without the mark is of a client that a
  monitor found gone (`UnmarkedIsGone`).
- `GatewayIsSound`: `GatewayInv`.  Whoever is a client or open has a handler
  (`ClientsHaveHandlers`, `OpenHaveHandlers`), between two messages the
  broadcaster has nobody left to send to (`NobodyLeftToSendTo`), and it writes
  to one connection at a time, only while it sends (`OneAtATime`).

- `AgentCallsAreSound`: `AgentCallsInv`, from the next three.
- `PlansAreSound`: `PlanExecutionInv`.  `PlanInductive` relates the runner's
  copy of a plan to the row it was loaded from, step by step (`StepFits`): what
  is behind the runner was executed under its number with an argument of the
  step before, what is before it is as it was loaded; and no row holds a number
  of an execution to come.  The proof corrected `RowsAreWhole`: a plan without
  steps is completed by its execution, with no step that is.
- `AcpToolCallsAreTold`: `AcpToolCallsInv`.  The ids are 1 to the last one given
  and each of one call (`IdsGiven`); an id is in the queue of its key, or was
  taken off it for one call (`QueuesFit`), as often as calls have begun to
  execute, so that none is missing at the end; and a call is not marked as
  failed before it is refused or executed (`NotYetFailed`), so that one whose
  permission could not be asked is not taken for a refused one.  This is counted with bijections
  between the calls of a key and their ids.
- `StreamedCallsAreWhole`: `ToolStreamInv`.  What is collected names calls of
  the reply and none twice (`NamesFit`), and nothing is collected before a chunk
  is handed over (`FirstChunkFirst`); if no piece is a fragment, every collected
  call is one that came whole, with the arguments that its own text gave
  (`WholeOnes`): who merges has every call that has begun, but where it cannot
  tell two apart, and who takes the last chunk has one that had calls.
  `MergeCalls` is a recursive function: that there is one, and that
  it takes in one call after the other, is proved with the least number for
  which it would fail (`LeastOf`, `UpTo`), since the library's induction
  theorems cannot be used here.

`PoolsProofs`
- `BreakerIsCorrect`: `BreakerCorrect`, with `AskersSawRecovery`: who is about
  to half-open the breaker found it recovered, or a failure has overtaken it.
- `ProviderPoolIsSound`: `ProviderPoolInv`, with `ProbedIfChecked` and `Served`.
- `ClientPoolIsCorrect`: `ClientPoolCorrect`, its action property included.
  `ClientPoolInductive` adds that pools not yet made count nothing
  (`FreshPools`) and that a caller is at a pool that was made and knows clients
  of it (`CallersSound`).
- `FileCacheIsSound`: `FileCacheInv`.  `CacheInductive` says that the file order
  names the files that exist, but one that is new and torn (`FilesOrdered`);
  that the list holds what is in memory unless a file operation failed
  (`ListHoldsAll`); that two processes which write one file have overlapped, and
  a file that is torn without one of the other causes is being written by a
  process whose file it still is (`FilesShared`); and that a process on its own agrees with the directory but
  for the file it is writing, on the order too but for a hit that is still to
  be written, and that there are no more files than the cache may hold
  (`Alone`, `OnOwn`).  Orders of use are sets of pairs: what the proofs need of
  them are two facts, about moving a key to the front and about leaving some
  keys out (`ToFrontAdds`, `WithoutKeys`), instead of induction over lists.

`AgentsProofs`
- `SquadsAreCorrect`: `SquadMembershipCorrect`, its two action properties
  included.  `SquadInductive` says for each place in a call what its checks had
  found (`ChecksHeld`) and that it writes only about agents that were made
  (`CallKnown`), that rows are of such agents (`RowsKnown`), and that a service
  under construction is as current as one in the cache (`BuildIsCurrent`).
- `ServiceRunsAreCorrect`: `ServiceRunsCorrect`.  `RunsInductive` follows the
  session through its copies: a copy carries every answer and summary that was
  saved before it was taken, unless its run met another or the copy is a fresh
  session that will replace them (`AnswersAreCarried`, `SummaryIsCarried`); two runs at work have met (`AloneUntilMet`); and unless a run
  has failed with its sources, the list holds only those of runs under way (`SourcesHaveRuns`).
- `CodeSandboxIsSound`: `CodeSandboxInv`.  `SandboxInductive` says that stamps
  differ (`StampsApart`), that executions under way together are noted as
  overlapping (`OverlapsNoted`), and what a script may still do in each place of
  its execution (`ScriptFits`, `CallsCounted`).  The entry that is dropped from
  the history exists by well-foundedness.

- `TurnsAreSound`: `TurnsAreWhole`.  The messages belong to turns that are over,
  each call answered once but for the siblings of a transfer
  (`AnswersAreOfThePast`), and what was executed has been seen, so it is not
  taken for new again (`ExecutedWasSeen`).
- `RunsTellTheirStory`: `RunIsTold`.  The events in the channel lead from
  the calls the reader has for open to those that are (`StoryGoesOn`): there is
  a sequence of sets of open calls that each event fits.  Beside it the place of
  the last word (`OneLastWord`) and of the tools (`ToolsOfTheRound`).
- `SubAgentsAreSound`: `SubAgentSafe`, its action property included.  Unless
  executions overlapped, one is under way at a time, in its own context, which
  has ended if the subagent is paused or cancelled (`OneAtATime`), and with one
  call of `Run` its channels are open (`ChannelsServe`); the outcome is empty
  until an attempt has ended (`EmptyBeforeTheEnd`).  The proof found that
  `PanicNeedsOverlap` had its condition, one call of `Run`, in a comment only:
  two calls one after the other panic without overlapping.
- `OperatorSessionsAreSound`: `OperatorSafe`, its action property included.  A
  reader leaves with all the output of a child that is gone, or with an error
  (`ReaderLeftFits`).

`StoresProofs`
- `MemoryFilesAreCorrect`: `MemoryFilesCorrect`, its action property included.
  `MemInductive` says what a call's copy is worth: unless it is of the past, it
  is what the file says but for what its call changes (`CopiesAreCurrent`), and
  a file of which there is such a copy is cut off only by a write under way; a
  new memory is known to its call only (`NewIsOwn`); at most one call writes
  (`OneWrites`); a fact that was stored stays there (`FactsAreThere`); and
  `EvidenceFits`, which counts among the active observations the one whose
  write is under way, and says that of the facts a reflection was shown only
  those its reply has cited are evidence of any of them; and a choice, cached or
  on its way, knows all that was stored before it, but for what is named as late
  (`ListingsAreCurrent`).  This proof corrected the model: a copy had to
  become one of the past also when the file it was read from is damaged by a
  failed write.  Otherwise a reflection misses the damaged observation, the
  copy restores it, and a fact counts twice although no reflections met; that
  takes three calls, and the run allows two.
- `KnowledgeBaseIsCorrect`: `KnowledgeInv`, a conjunct of `RagInv`.
  `KnowledgeInductive` says that an ingest has an answer exactly when it is over
  and has written no rows before its document is stored (`IngestFits`), that the
  chunks behind the one it is at are stored unless rows of the document were
  removed (`StoredSoFar`), and what a batch knows of its ingests (`BatchFits`).
- `ConversationsAreKept`: `ConversationsInv`, a conjunct of `RagInv`.
  `ConvInductive` says that messages, and what a call has read of them, are each
  said once, by calls that are that far (`AllFit`); that a conversation in which
  no calls crossed has one call at a time (`OneByOne`), whose copy is current,
  whose question is the last message and which sent the whole story
  (`AskedInOrder`).
- `ChunksAreRight`: `ChunkerInv`, for any text, size and overlap.
  `ChunkerInductive` says, by sentences, that each chunk is some pieces the
  chunk before ends with, and behind them the words from where that chunk ended
  (`ChunkFits`); that the chunk in the making is a stretch of the document of
  which only the first word may be cut (`Stretch`), and is one of those chunks
  once it is trimmed (`CurrentFits`); and, by words, which words each chunk has,
  that each starts behind the one before, and that the words before the next
  start are in some chunk (`WordChunksFit`).  Cutting off the last characters
  leaves a stretch (`LastCharsIs`, `OverlapTextFits`), since lengths add up
  (`CharsConcat`, `LengthConcat`).  `Chars` is a recursive function: what it
  adds up to is proved with the least number at which it would not hold
  (`LeastOf`, `UpTo`), in place of an induction theorem.  How many chunks only
  repeat the end is a count: the word they start with differs, and is among the
  last `OverlapWords` of the text (`FewSuffixes`).
- `RetrievalIsSound`: `RagInv`, of the three specifications together.

## What is only model-checked

- Liveness, and what is stated with `ENABLED`: `TasksGetTheirTurn`,
  `ReaderIsReleased`, `DueTaskRuns`, and the properties of `parts_liveness`.
  The provers have no rule for fairness.  What these hold of safety
  (`SubAgentSafe`, `RunIsTold`, `TurnsAreWhole`, `OperatorSafe`) is proved.

## What is not modelled

`PROJECT.json` gives the reason for each part.  Most are sequential: code around
one request to a model, one statement or one HTTP reply (planner prompts, graph
extraction, router, search, usage, skills, command line, web interface); some
are data (configuration, domain types, generated stubs) or maps behind a single
lock (hooks, registries).  Of the modelled parts the models leave out what each
section above names.
