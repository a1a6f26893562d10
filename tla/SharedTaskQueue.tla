--------------------------- MODULE SharedTaskQueue ---------------------------
(***************************************************************************)
(* The squad task queue of pkg/agent/squad_manager.go.  Callers of         *)
(* EnqueueSharedTaskForSquad put tasks on the queue of a squad; one worker *)
(* goroutine per squad pops and executes them; every status change is      *)
(* written to the shared_tasks table, from which NewSquadManager restores  *)
(* the queues when the process starts again.                               *)
(*                                                                         *)
(* One action is one critical section of queueMu (plus the statements that *)
(* follow it and touch only local state), so the interleavings of TLC are  *)
(* those of the goroutines.  An agent run is one step: what it returns is  *)
(* chosen freely.                                                          *)
(***************************************************************************)
EXTENDS Integers, Sequences, FiniteSets, Functions

CONSTANTS
    Tasks,       \* the tasks callers may enqueue, one call for each
    Squads,      \* the squads
    SquadOf,     \* the squad a task is enqueued for
    NoTask,      \* what a worker holds between two tasks
    MaxFaults,   \* bound: database calls that may fail
    MaxCrashes   \* bound: times the process may die

ASSUME TasksAssumption  == IsFiniteSet(Tasks) /\ NoTask \notin Tasks
ASSUME SquadOfAssumption == SquadOf \in [Tasks -> Squads]
ASSUME WorkerIdsAssumption == Tasks \cap Squads = {}
ASSUME BoundsAssumption == MaxFaults \in Nat /\ MaxCrashes \in Nat

VARIABLES
    call,         \* where each EnqueueSharedTaskForSquad call is
    starter,      \* its local variable shouldStartWorker
    createdAt,    \* SharedTask.CreatedAt (0: not stamped)
    clock,        \* time.Now(), advanced by each stamp
    ack,          \* the number of tasks ahead that AckMessage reports
    sharedTasks,  \* SquadManager.sharedTasks: status of each known task
    taskQueues,   \* SquadManager.taskQueues
    queueRunning, \* SquadManager.queueRunning: the squads marked as running
    wpc,          \* where each worker goroutine is
    wtask,        \* the task a worker executes
    db,           \* the status column of the shared_tasks table
    phase,        \* the process: down, restoring, or up
    toRestore,    \* squads whose queue restoreSharedTasks has still to rebuild
    runs,         \* history: executions of each task since the last start
    preceded,     \* history: tasks acknowledged before this one was created
    faults,       \* database calls that failed so far
    crashes       \* crashes so far

callVars    == <<call, starter, createdAt, clock, ack, preceded>>
managerVars == <<sharedTasks, taskQueues, queueRunning>>
workerVars  == <<wpc, wtask, runs>>
processVars == <<phase, toRestore, crashes>>
vars == <<callVars, managerVars, workerVars, db, faults, processVars>>

Terminal   == {"completed", "failed"}
Status     == {"queued", "running"} \cup Terminal
Entry      == Status \cup {"absent"}
CallStates == {"idle", "stamped", "saving", "ok", "err", "lost"}

\* A worker is named after the task whose call started it, or after the
\* squad for which restoreSharedTasks started it.
Workers    == Tasks \cup Squads
SquadOfWorker(w) == IF w \in Squads THEN w ELSE SquadOf[w]

TypeOK ==
    /\ call \in [Tasks -> CallStates]
    /\ starter \in [Tasks -> BOOLEAN]
    /\ createdAt \in [Tasks -> Nat]
    /\ clock \in Nat
    /\ ack \in [Tasks -> Nat]
    /\ sharedTasks \in [Tasks -> Entry]
    /\ taskQueues \in [Squads -> Seq(Tasks)]
    /\ queueRunning \subseteq Squads
    /\ wpc \in [Workers -> {"none", "next", "exec"}]
    /\ wtask \in [Workers -> Tasks \cup {NoTask}]
    /\ db \in [Tasks -> Entry]
    /\ phase \in {"up", "down", "restoring"}
    /\ toRestore \subseteq Squads
    /\ runs \in [Tasks -> Nat]
    /\ preceded \in [Tasks -> SUBSET Tasks]
    /\ faults \in Nat
    /\ crashes \in Nat

-----------------------------------------------------------------------------
(* Operations of the code that several steps share, or that decide one.  A  *)
(* definition whose name says "wrong" is a plausible mistake in the one that *)
(* follows it; the properties are tried against these mistakes.             *)

Wrong_KeepsRejected(queue, t) == queue

\* queue without task t.  Identifiers are uuids, so t occurs at most once and
\* the filter of the code removes the one occurrence.
Without(queue, t) ==
    IF t \in Range(queue)
    THEN LET k == CHOOSE i \in DOMAIN queue : queue[i] = t
         IN  SubSeq(queue, 1, k - 1) \o SubSeq(queue, k + 1, Len(queue))
    ELSE queue

\* The queue after its head was popped.
Popped(queue) == Tail(queue)

Wrong_StartsIfQueueEmpty(s) == taskQueues[s] = <<>>

\* shouldStartWorker
MustStartWorker(s) == s \notin queueRunning

Wrong_CountsItself(s) ==
    Len(taskQueues[s]) + (IF s \in queueRunning THEN 0 ELSE -1)

\* queuedAhead
QueuedAhead(s) == Len(taskQueues[s]) + (IF s \in queueRunning THEN 1 ELSE 0)

Wrong_AlwaysReleases(t, filtered) == starter[t]

\* Whether a call that takes its task back also takes back the mark.
ReleasesMark(t, filtered) == filtered = <<>> /\ starter[t]

\* The upsert of SaveSharedTask.
Upserted(t, status) == [db EXCEPT ![t] = status]

Wrong_LeavesRunning(status) == status
Wrong_RequeuesFinished(status) == IF status = "absent" THEN status ELSE "queued"

\* The status restoreSharedTasks gives to a row.
Restored(status) == IF status = "running" THEN "queued" ELSE status

Wrong_AnyOrder(q, set) == Range(q) = set

\* q lists the set in the order of CreatedAt.
SortedByCreation(q, set) ==
    /\ Range(q) = set
    /\ \A i, j \in DOMAIN q : i < j => createdAt[q[i]] < createdAt[q[j]]

\* store.SaveSharedTask(task) where the code ignores its error: the row takes
\* the status, or the call fails and the row stays as it was.
SaveIgnoringError(t, status) ==
    \/ db' = Upserted(t, status) /\ UNCHANGED faults
    \/ faults < MaxFaults /\ faults' = faults + 1 /\ UNCHANGED db

\* store.SaveSharedTask for each task of a set, errors ignored.
SaveAllIgnoringErrors(tasks, status) ==
    \E failing \in SUBSET {t \in tasks : db[t] # status} :
        /\ faults + Cardinality(failing) <= MaxFaults
        /\ faults' = faults + Cardinality(failing)
        /\ db' = [t \in Tasks |->
                    IF t \in tasks \ failing THEN status ELSE db[t]]

Init ==
    /\ call = [t \in Tasks |-> "idle"]
    /\ starter = [t \in Tasks |-> FALSE]
    /\ createdAt = [t \in Tasks |-> 0]
    /\ clock = 0
    /\ ack = [t \in Tasks |-> 0]
    /\ sharedTasks = [t \in Tasks |-> "absent"]
    /\ taskQueues = [s \in Squads |-> <<>>]
    /\ queueRunning = {}
    /\ wpc = [w \in Workers |-> "none"]
    /\ wtask = [w \in Workers |-> NoTask]
    /\ db = [t \in Tasks |-> "absent"]
    /\ phase = "up"
    /\ toRestore = {}
    /\ runs = [t \in Tasks |-> 0]
    /\ preceded = [t \in Tasks |-> {}]
    /\ faults = 0
    /\ crashes = 0

-----------------------------------------------------------------------------
(* EnqueueSharedTaskForSquad *)

\* The call has validated its arguments and builds the task; time.Now() is
\* read before queueMu is taken.
StampTask(t) ==
    /\ phase = "up"
    /\ call[t] = "idle"
    /\ call' = [call EXCEPT ![t] = "stamped"]
    /\ clock' = clock + 1
    /\ createdAt' = [createdAt EXCEPT ![t] = clock + 1]
    /\ preceded' = [preceded EXCEPT ![t] = {u \in Tasks : call[u] = "ok"}]
    /\ UNCHANGED <<starter, ack, managerVars, workerVars, db, faults, processVars>>

\* The critical section that puts the task on the queue.
AdmitTask(t) ==
    LET s == SquadOf[t] IN
    /\ call[t] = "stamped"
    /\ ack' = [ack EXCEPT ![t] = QueuedAhead(s)]
    /\ sharedTasks' = [sharedTasks EXCEPT ![t] = "queued"]
    /\ taskQueues' = [taskQueues EXCEPT ![s] = Append(@, t)]
    /\ starter' = [starter EXCEPT ![t] = MustStartWorker(s)]
    /\ queueRunning' = queueRunning \cup {s}
    /\ call' = [call EXCEPT ![t] = "saving"]
    /\ UNCHANGED <<createdAt, clock, preceded, workerVars, db, faults, processVars>>

\* SaveSharedTask succeeds: it writes the status the task has by now (the
\* worker holds the same pointer, and Store.mu makes the reading of the fields
\* and the statement one step); then the worker goroutine is started.
PersistTask(t) ==
    /\ call[t] = "saving"
    /\ db' = Upserted(t, sharedTasks[t])
    /\ call' = [call EXCEPT ![t] = "ok"]
    /\ wpc' = IF starter[t] THEN [wpc EXCEPT ![t] = "next"] ELSE wpc
    /\ UNCHANGED <<starter, createdAt, clock, ack, preceded, managerVars, wtask,
                   runs, faults, processVars>>

\* SaveSharedTask fails: the second critical section takes the task back and
\* the call returns the error.  No worker is started on this path.
RejectTask(t) ==
    LET s == SquadOf[t]
        filtered == Without(taskQueues[s], t)
    IN
    /\ call[t] = "saving"
    /\ faults < MaxFaults
    /\ faults' = faults + 1
    /\ sharedTasks' = [sharedTasks EXCEPT ![t] = "absent"]
    /\ taskQueues' = [taskQueues EXCEPT ![s] = filtered]
    /\ queueRunning' = IF ReleasesMark(t, filtered)
                       THEN queueRunning \ {s}
                       ELSE queueRunning
    /\ call' = [call EXCEPT ![t] = "err"]
    /\ UNCHANGED <<starter, createdAt, clock, ack, preceded, workerVars, db,
                   processVars>>

-----------------------------------------------------------------------------
(* runSharedTaskQueue, the worker goroutine *)

\* nextQueuedTask pops the head.  A popped task that the manager does not
\* know ends the worker and leaves queueRunning as it is.
NextQueuedTask(w) ==
    LET s == SquadOfWorker(w)
        t == Head(taskQueues[s])
    IN
    /\ wpc[w] = "next"
    /\ taskQueues[s] # <<>>
    /\ taskQueues' = [taskQueues EXCEPT ![s] = Popped(@)]
    /\ IF sharedTasks[t] = "absent"
       THEN /\ wpc' = [wpc EXCEPT ![w] = "none"]
            /\ UNCHANGED <<sharedTasks, wtask, runs, db, faults>>
       ELSE /\ sharedTasks' = [sharedTasks EXCEPT ![t] = "running"]
            /\ wpc' = [wpc EXCEPT ![w] = "exec"]
            /\ wtask' = [wtask EXCEPT ![w] = t]
            /\ runs' = [runs EXCEPT ![t] = @ + 1]
            /\ SaveIgnoringError(t, "running")
    /\ UNCHANGED <<callVars, queueRunning, processVars>>

\* nextQueuedTask finds the queue empty: the worker clears the mark and ends.
RetireWorker(w) ==
    LET s == SquadOfWorker(w) IN
    /\ wpc[w] = "next"
    /\ taskQueues[s] = <<>>
    /\ queueRunning' = queueRunning \ {s}
    /\ wpc' = [wpc EXCEPT ![w] = "none"]
    /\ UNCHANGED <<callVars, sharedTasks, taskQueues, wtask, runs, db, faults,
                   processVars>>

\* The agents are done: the last critical section of executeSharedTaskStream
\* records the outcome, unless the task was taken back in the meantime.
FinishTask(w, outcome) ==
    LET t == wtask[w] IN
    /\ wpc[w] = "exec"
    /\ IF sharedTasks[t] = "absent"
       THEN UNCHANGED <<sharedTasks, db, faults>>
       ELSE /\ sharedTasks' = [sharedTasks EXCEPT ![t] = outcome]
            /\ SaveIgnoringError(t, outcome)
    /\ wpc' = [wpc EXCEPT ![w] = "next"]
    /\ wtask' = [wtask EXCEPT ![w] = NoTask]
    /\ UNCHANGED <<callVars, taskQueues, queueRunning, runs, processVars>>

-----------------------------------------------------------------------------
(* Process death and restoreSharedTasks *)

\* The process dies: memory, goroutines and calls under way are gone.
Crash ==
    /\ phase # "down"
    /\ crashes < MaxCrashes
    /\ crashes' = crashes + 1
    /\ phase' = "down"
    /\ toRestore' = {}
    /\ call' = [t \in Tasks |->
                  IF call[t] \in {"stamped", "saving"} THEN "lost" ELSE call[t]]
    /\ starter' = [t \in Tasks |-> FALSE]
    /\ sharedTasks' = [t \in Tasks |-> "absent"]
    /\ taskQueues' = [s \in Squads |-> <<>>]
    /\ queueRunning' = {}
    /\ wpc' = [w \in Workers |-> "none"]
    /\ wtask' = [w \in Workers |-> NoTask]
    /\ runs' = [t \in Tasks |-> 0]
    /\ UNCHANGED <<createdAt, clock, ack, preceded, db, faults>>

\* The first loop of restoreSharedTasks: a row that says running was cut off
\* by the crash and goes back to queued.
LoadTasks ==
    LET loaded == [t \in Tasks |-> Restored(db[t])]
        squads == {SquadOf[t] : t \in {u \in Tasks : loaded[u] = "queued"}}
    IN
    /\ phase = "down"
    /\ sharedTasks' = loaded
    /\ SaveAllIgnoringErrors({t \in Tasks : db[t] = "running"}, "queued")
    /\ toRestore' = squads
    /\ phase' = IF squads = {} THEN "up" ELSE "restoring"
    /\ UNCHANGED <<callVars, taskQueues, queueRunning, workerVars, crashes>>

\* ListSharedTasksPersisted fails: restoreSharedTasks returns without a word
\* and the manager starts empty.
LoadTasksFails ==
    /\ phase = "down"
    /\ faults < MaxFaults
    /\ faults' = faults + 1
    /\ phase' = "up"
    /\ UNCHANGED <<callVars, managerVars, workerVars, db, toRestore, crashes>>

\* The tasks of squad s that restoreSharedTasks puts on its queue.
Requeued(s) == {t \in Tasks : sharedTasks[t] = "queued" /\ SquadOf[t] = s}

\* The second loop, for one squad.  The worker starts at once, while other
\* squads still wait for their turn.
RestoreSquad(s) ==
    /\ phase = "restoring"
    /\ s \in toRestore
    /\ \E q \in [1..Cardinality(Requeued(s)) -> Requeued(s)] :
           /\ SortedByCreation(q, Requeued(s))
           /\ taskQueues' = [taskQueues EXCEPT ![s] = q]
    /\ SaveAllIgnoringErrors(Requeued(s), "queued")
    /\ queueRunning' = queueRunning \cup {s}
    /\ wpc' = [wpc EXCEPT ![s] = "next"]
    /\ toRestore' = toRestore \ {s}
    /\ phase' = IF toRestore = {s} THEN "up" ELSE phase
    /\ UNCHANGED <<callVars, sharedTasks, wtask, runs, crashes>>

-----------------------------------------------------------------------------
Enqueue(t) == StampTask(t) \/ AdmitTask(t) \/ PersistTask(t) \/ RejectTask(t)

Work(w) ==
    \/ NextQueuedTask(w)
    \/ RetireWorker(w)
    \/ \E outcome \in Terminal : FinishTask(w, outcome)

Restart == LoadTasks \/ LoadTasksFails \/ \E s \in Squads : RestoreSquad(s)

Next ==
    \/ \E t \in Tasks : Enqueue(t)
    \/ \E w \in Workers : Work(w)
    \/ Crash
    \/ Restart

\* A call that was made goes on, a goroutine that can run is scheduled, an
\* agent run returns, and a dead process is started again.
Fairness ==
    /\ \A t \in Tasks : WF_vars(AdmitTask(t) \/ PersistTask(t) \/ RejectTask(t))
    /\ \A w \in Workers : WF_vars(Work(w))
    /\ WF_vars(Restart)

Spec     == Init /\ [][Next]_vars
FairSpec == Spec /\ Fairness
-----------------------------------------------------------------------------
(* Correctness *)

Executes(w, t) == wpc[w] = "exec" /\ wtask[w] = t
IsExecuting(t) == \E w \in Workers : Executes(w, t)

\* Call t has admitted its task as the one that must start the worker.
WillStartWorker(t) == call[t] = "saving" /\ starter[t]

\* The goroutines that serve the queue of s, or are about to.
Servants(s) ==
    {w \in Workers : /\ SquadOfWorker(w) = s
                     /\ \/ wpc[w] # "none"
                        \/ w \in Tasks /\ WillStartWorker(w)}

\* A squad whose queue is marked as running although nobody serves it, nor
\* will: no later call starts a worker, so its queue never moves again.
Stranded(s) == s \in queueRunning /\ Servants(s) = {}

\* A squad never has two workers, counting the one a call under way is about
\* to start, and a squad with a worker is marked as running; so the tasks of
\* one squad are executed one at a time (lines 245-248, 262-265, 273-275,
\* 331-335, 412-413).
OneWorkerPerSquad ==
    \A s \in Squads :
        /\ \A v, w \in Servants(s) : v = w
        /\ Servants(s) # {} => s \in queueRunning

\* What is on a queue is a task of that squad that the manager knows as
\* queued, once only, and the squad is marked as running.  So nextQueuedTask
\* never pops an unknown task, which would end the worker for good with the
\* mark still set (lines 344-347).
QueuesAreSound ==
    \A s \in Squads :
        /\ \A i \in DOMAIN taskQueues[s] :
               /\ SquadOf[taskQueues[s][i]] = s
               /\ sharedTasks[taskQueues[s][i]] = "queued"
        /\ \A i, j \in DOMAIN taskQueues[s] :
               taskQueues[s][i] = taskQueues[s][j] => i = j
        /\ taskQueues[s] # <<>> => s \in queueRunning

\* No task falls between the queue and the worker: one that the manager
\* reports as queued is on its queue, and one it reports as running is being
\* executed, also after a restart and after a call took its task back.
NoTaskForgotten ==
    phase = "up" =>
        \A t \in Tasks :
            /\ sharedTasks[t] = "queued" => t \in Range(taskQueues[SquadOf[t]])
            /\ sharedTasks[t] = "running" => IsExecuting(t)

\* An acknowledged task has a row, whatever fails and dies later.
AcknowledgedIsDurable ==
    \A t \in Tasks : call[t] = "ok" => db[t] # "absent"

\* Between two starts of the process a task is executed at most once, even
\* if its call takes it back while the worker pops it.
RunsOncePerStart == \A t \in Tasks : runs[t] <= 1

\* A task that was acknowledged before another one was even created is ahead
\* of it: it precedes it on the queue, and it does not wait while the other is
\* executed.  Queues that restoreSharedTasks rebuilds from CreatedAt keep this,
\* although CreatedAt is not taken under queueMu (lines 224, 236, 396).
NoOvertaking ==
    \A t, u \in Tasks :
        LET queue == taskQueues[SquadOf[t]] IN
        SquadOf[t] = SquadOf[u] /\ t \in preceded[u] =>
            /\ \A i, j \in DOMAIN queue : queue[i] = t /\ queue[j] = u => i < j
            /\ IsExecuting(u) => t \notin Range(queue)

\* A task whose call failed before a worker wrote its row leaves no trace: it
\* is on no queue, unknown to the manager, and no restart brings it back.
RejectedLeavesNoTrace ==
    \A t \in Tasks :
        call[t] = "err" /\ db[t] = "absent" /\ ~IsExecuting(t) =>
            /\ sharedTasks[t] = "absent"
            /\ \A s \in Squads : t \notin Range(taskQueues[s])

\* Once the table says that a task is finished, it is never executed again
\* and its row keeps the outcome: neither the late SaveSharedTask of the call
\* (line 251) nor a restart puts it back.
FinishedIsFinal ==
    [][\A t \in Tasks : db[t] \in Terminal =>
           db'[t] = db[t] /\ runs'[t] <= runs[t]]_vars

\* The tasks that are really in front of a new task of squad s.
TasksAhead(s) ==
    Len(taskQueues[s])
      + Cardinality({w \in Workers : SquadOfWorker(w) = s /\ wpc[w] = "exec"})

\* The number of tasks ahead in an acknowledgement is right or one too high:
\* the mark queueRunning also counts a worker that executes nothing.
AckIsAtMostOneTooHigh ==
    [][\A t \in Tasks : call'[t] = "saving" /\ call[t] # "saving" =>
           ack'[t] - TasksAhead(SquadOf[t]) \in {0, 1}]_vars

\* A squad is stranded in one way only: the call that was to start the worker
\* fails to save its task while others are queued behind it (lines 262-268).
StrandedOnlyByRejectedStarter ==
    [][\A s \in Squads : ~Stranded(s) /\ Stranded(s)' =>
           \E t \in Tasks : /\ WillStartWorker(t) /\ call'[t] = "err"
                            /\ SquadOf[t] = s
                            /\ Len(taskQueues[s]) > 1]_vars

\* The queues implement the serial queue: a task has its turn while a worker
\* executes it.
Abstract == INSTANCE SerialQueue WITH
    line <- taskQueues,
    turn <- [s \in Squads |->
                {t \in Tasks : SquadOf[t] = s /\ IsExecuting(t)}]

\* Every step of the manager is a step of the serial queue or leaves it alone.
ImplementsSerialQueue == Abstract!Spec

\* Unless the database fails, an acknowledged task is finished in the end,
\* across crashes.
AcknowledgedFinishes ==
    \A t \in Tasks : call[t] = "ok" ~> (sharedTasks[t] \in Terminal \/ faults > 0)

\* "It is queued behind %d task(s)." (squad_manager.go:362): the wait ends.
AckedTaskGetsItsTurn ==
    \A t \in Tasks : call[t] = "ok" ~> db[t] \notin {"queued"}

\* With database failures too, a queued task leaves the queue, unless its
\* squad is stranded or the process dies.
QueueMovesUnlessStranded ==
    \A t \in Tasks :
        t \in Range(taskQueues[SquadOf[t]]) ~>
            (t \notin Range(taskQueues[SquadOf[t]]) \/ Stranded(SquadOf[t]))

\* What the manager has accepted it keeps: on a queue of its squad once, in the
\* table, and in nobody's hands but those of the worker that executes it.
TasksAreKept == QueuesAreSound /\ NoTaskForgotten /\ AcknowledgedIsDurable

\* A task is executed at most once for each start of the process, and not at
\* all if its call was refused before that.
RunsAsAnswered == RunsOncePerStart /\ RejectedLeavesNoTrace

\* What is finished stays finished, the number told to a caller is right or one
\* too high, and a squad is stranded by a refused call alone.
StepsAreSound ==
    FinishedIsFinal /\ AckIsAtMostOneTooHigh /\ StrandedOnlyByRejectedStarter

\* An acknowledged task is finished, and a queue moves on, unless the database
\* fails or its squad is stranded.
TasksGetTheirTurn == AcknowledgedFinishes /\ QueueMovesUnlessStranded
=============================================================================
