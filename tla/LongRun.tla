------------------------------- MODULE LongRun -------------------------------
(***************************************************************************)
(* The long-running agent of pkg/agent: heartbeats that a cron job starts  *)
(* at every interval (longrun.go) and the table of tasks in SQLite they    *)
(* work on (task_queue.go).  A heartbeat that takes longer than the        *)
(* interval does not keep the next one from starting.                      *)
(*                                                                         *)
(* One action is one database statement, one critical section of mu, or    *)
(* the execution of a task, which is the free choice of its outcome.  The  *)
(* checklist a heartbeat turns to afterwards is the module Checklist.      *)
(***************************************************************************)
EXTENDS Integers, FiniteSets

CONSTANTS
    QueuedTasks,           \* identities of rows of the table tasks
    Heartbeats,            \* identities of the goroutines of the cron job
    MaxAutonomousActions,
    MaxDbFaults,           \* bound: updates that fail
    MaxDeaths,             \* bound: crashes of the process
    MaxTroubles            \* bound: both together

ASSUME LongRunAssumption ==
    /\ IsFiniteSet(QueuedTasks) /\ IsFiniteSet(Heartbeats)
    /\ MaxAutonomousActions \in Nat \ {0}
    /\ MaxDbFaults \in Nat /\ MaxDeaths \in Nat /\ MaxTroubles \in Nat

VARIABLES
    serving,    \* LongRunService.running
    stopWaits,  \* Stop holds mu and waits for the job
    row,        \* Task.Status of each row; "later" is pending but not yet due
    created,    \* the number of each row, in the order in which they were inserted
    beatPc,     \* where each heartbeat is
    toDo,       \* the tasks it has read and still to work on
    took,       \* actionsTaken
    endedAs,    \* how the execution of its task ended
    dbFaults, deaths,
    executions, \* history: how often each task was executed
    twoHands    \* history: tasks two heartbeats had to do at a time

taskRowVars == <<row, created>>
beatVars  == <<beatPc, toDo, took, endedAs>>
historyVars == <<executions, twoHands>>
longRunVars == <<serving, stopWaits, taskRowVars, beatVars, dbFaults, deaths, historyVars>>

RowStatus == {"absent", "later", "pending", "running", "completed", "failed"}

LongRunTypeOK ==
    /\ serving \in BOOLEAN /\ stopWaits \in BOOLEAN
    /\ row \in [QueuedTasks -> RowStatus]
    /\ created \in [QueuedTasks -> 0..Cardinality(QueuedTasks)]
    /\ beatPc \in [Heartbeats -> {"idle", "enter", "read", "mark", "execute", "save", "items"}]
    /\ toDo \in [Heartbeats -> SUBSET QueuedTasks]
    /\ took \in [Heartbeats -> 0..MaxAutonomousActions]
    /\ endedAs \in [Heartbeats -> {"completed", "failed"}]
    /\ dbFaults \in 0..MaxDbFaults /\ deaths \in 0..MaxDeaths
    /\ executions \in [QueuedTasks -> 0..Cardinality(Heartbeats)]
    /\ twoHands \subseteq QueuedTasks

NoBeats ==
    /\ beatPc' = [b \in Heartbeats |-> "idle"]
    /\ toDo' = [b \in Heartbeats |-> {}]
    /\ took' = [b \in Heartbeats |-> 0]
    /\ endedAs' = [b \in Heartbeats |-> "completed"]

LongRunInit ==
    /\ serving = FALSE /\ stopWaits = FALSE
    /\ row = [t \in QueuedTasks |-> "absent"] /\ created = [t \in QueuedTasks |-> 0]
    /\ beatPc = [b \in Heartbeats |-> "idle"]
    /\ toDo = [b \in Heartbeats |-> {}]
    /\ took = [b \in Heartbeats |-> 0]
    /\ endedAs = [b \in Heartbeats |-> "completed"]
    /\ dbFaults = 0 /\ deaths = 0
    /\ executions = [t \in QueuedTasks |-> 0] /\ twoHands = {}

-----------------------------------------------------------------------------
(* The calls *)

StartService ==
    /\ ~serving /\ ~stopWaits
    /\ serving' = TRUE
    /\ UNCHANGED <<stopWaits, taskRowVars, beatVars, dbFaults, deaths, historyVars>>

\* The cron stops; Stop waits for the jobs under way and keeps mu meanwhile.
StopService ==
    /\ serving /\ ~stopWaits
    /\ stopWaits' = TRUE
    /\ UNCHANGED <<serving, taskRowVars, beatVars, dbFaults, deaths, historyVars>>

Wrong_RunningRows == \A t \in QueuedTasks : row[t] # "running"

JobsDone == \A b \in Heartbeats : beatPc[b] = "idle"

ServiceStops ==
    /\ stopWaits /\ JobsDone
    /\ serving' = FALSE /\ stopWaits' = FALSE
    /\ UNCHANGED <<taskRowVars, beatVars, dbFaults, deaths, historyVars>>

\* AddTask, of the service or through the gateway; it needs no lock.
AddTask(t, scheduled) ==
    /\ row[t] = "absent"
    /\ row' = [row EXCEPT ![t] = IF scheduled THEN "later" ELSE "pending"]
    /\ created' = [created EXCEPT ![t] = Cardinality({u \in QueuedTasks : row[u] # "absent"}) + 1]
    /\ UNCHANGED <<serving, stopWaits, beatVars, dbFaults, deaths, historyVars>>

ScheduledTimeComes(t) ==
    /\ row[t] = "later"
    /\ row' = [row EXCEPT ![t] = "pending"]
    /\ UNCHANGED <<serving, stopWaits, created, beatVars, dbFaults, deaths, historyVars>>

-----------------------------------------------------------------------------
(* executeHeartbeat *)

CronFires(b) ==
    /\ serving /\ ~stopWaits /\ beatPc[b] = "idle"
    /\ beatPc' = [beatPc EXCEPT ![b] = "enter"]
    /\ UNCHANGED <<serving, stopWaits, taskRowVars, toDo, took, endedAs, dbFaults,
                   deaths, historyVars>>

\* It takes mu to note the time of the run.
NoteLastRun(b) ==
    /\ beatPc[b] = "enter" /\ ~stopWaits
    /\ beatPc' = [beatPc EXCEPT ![b] = "read"]
    /\ UNCHANGED <<serving, stopWaits, taskRowVars, toDo, took, endedAs, dbFaults,
                   deaths, historyVars>>

Wrong_AlsoFailed(t) == row[t] \in {"pending", "failed"}

IsPending(t) == row[t] = "pending"

\* GetPendingTasks: no task has a priority of its own, the older goes first.
PendingTasks ==
    LET pending == {t \in QueuedTasks : IsPending(t)} IN
    {t \in pending :
        Cardinality({u \in pending : created[u] < created[t]}) < MaxAutonomousActions}

\* The task that heartbeat b is at, or turns to: the oldest of those it has read.
OldestToDo(b) == {t \in toDo[b] : \A u \in toDo[b] : created[t] <= created[u]}
TaskOf(b) == CHOOSE t \in QueuedTasks : t \in OldestToDo(b)

ReadPending(b) ==
    /\ beatPc[b] = "read"
    /\ toDo' = [toDo EXCEPT ![b] = PendingTasks]
    /\ beatPc' = [beatPc EXCEPT ![b] = IF PendingTasks = {} THEN "items" ELSE "mark"]
    /\ twoHands' = twoHands \cup
           {t \in PendingTasks : \E other \in Heartbeats \ {b} : t \in toDo[other]}
    /\ UNCHANGED <<serving, stopWaits, taskRowVars, took, endedAs, dbFaults, deaths,
                   executions>>

\* The read fails: the heartbeat goes on with the checklist.
PendingUnread(b) ==
    /\ beatPc[b] = "read" /\ dbFaults < MaxDbFaults /\ dbFaults + deaths < MaxTroubles
    /\ dbFaults' = dbFaults + 1
    /\ beatPc' = [beatPc EXCEPT ![b] = "items"]
    /\ UNCHANGED <<serving, stopWaits, taskRowVars, toDo, took, endedAs, deaths, historyVars>>

\* An UPDATE succeeds or fails as a whole.
Update(succeeds, t, status) ==
    \/ succeeds /\ row' = [row EXCEPT ![t] = status] /\ dbFaults' = dbFaults
    \/ /\ ~succeeds /\ dbFaults < MaxDbFaults /\ dbFaults + deaths < MaxTroubles
       /\ dbFaults' = dbFaults + 1 /\ row' = row

\* The next task, or the checklist if some actions are left.
GoOn(b, actions) ==
    LET left == toDo[b] \ {TaskOf(b)} IN
    /\ toDo' = [toDo EXCEPT ![b] = left]
    /\ IF left = {} /\ actions = MaxAutonomousActions
       THEN /\ beatPc' = [beatPc EXCEPT ![b] = "idle"]
            /\ took' = [took EXCEPT ![b] = 0]
       ELSE /\ beatPc' = [beatPc EXCEPT ![b] = IF left = {} THEN "items" ELSE "mark"]
            /\ took' = [took EXCEPT ![b] = actions]

\* A task that could not be marked as running is left for another heartbeat.
ExecutedNow(succeeds) == succeeds

MarkRunning(b) ==
    /\ beatPc[b] = "mark"
    /\ \E succeeds \in BOOLEAN :
           /\ Update(succeeds, TaskOf(b), "running")
           /\ IF ExecutedNow(succeeds)
              THEN /\ beatPc' = [beatPc EXCEPT ![b] = "execute"]
                   /\ executions' = [executions EXCEPT ![TaskOf(b)] = @ + 1]
                   /\ UNCHANGED <<toDo, took>>
              ELSE GoOn(b, took[b]) /\ UNCHANGED executions
    /\ UNCHANGED <<serving, stopWaits, created, endedAs, deaths, twoHands>>

\* executeTask: the subagent's result or its error.
ExecuteTask(b) ==
    /\ beatPc[b] = "execute"
    /\ \E outcome \in {"completed", "failed"} : endedAs' = [endedAs EXCEPT ![b] = outcome]
    /\ beatPc' = [beatPc EXCEPT ![b] = "save"]
    /\ UNCHANGED <<serving, stopWaits, taskRowVars, toDo, took, dbFaults, deaths, historyVars>>

StatusAfter(b) == endedAs[b]

\* The outcome is stored; a failure of this is only logged.
SaveResult(b) ==
    /\ beatPc[b] = "save"
    /\ \E succeeds \in BOOLEAN : Update(succeeds, TaskOf(b), StatusAfter(b))
    /\ GoOn(b, took[b] + 1)
    /\ endedAs' = [endedAs EXCEPT ![b] = "completed"]
    /\ UNCHANGED <<serving, stopWaits, created, deaths, historyVars>>

\* The items of the checklist, within what is left of the quota.
ChecklistDone(b) ==
    /\ beatPc[b] = "items"
    /\ beatPc' = [beatPc EXCEPT ![b] = "idle"]
    /\ took' = [took EXCEPT ![b] = 0]
    /\ UNCHANGED <<serving, stopWaits, taskRowVars, toDo, endedAs, dbFaults, deaths, historyVars>>

\* The process dies, and another one is started on the same table.
ProcessDies ==
    /\ deaths < MaxDeaths /\ dbFaults + deaths < MaxTroubles
    /\ deaths' = deaths + 1
    /\ serving' = FALSE /\ stopWaits' = FALSE
    /\ NoBeats
    /\ UNCHANGED <<taskRowVars, dbFaults, historyVars>>

-----------------------------------------------------------------------------
Beat(b) ==
    \/ NoteLastRun(b) \/ ReadPending(b) \/ PendingUnread(b) \/ MarkRunning(b)
    \/ ExecuteTask(b) \/ SaveResult(b) \/ ChecklistDone(b)

LongRunNext ==
    \/ StartService \/ StopService \/ ServiceStops \/ ProcessDies
    \/ \E t \in QueuedTasks :
           ScheduledTimeComes(t) \/ \E scheduled \in BOOLEAN : AddTask(t, scheduled)
    \/ \E b \in Heartbeats : CronFires(b) \/ Beat(b)

\* A heartbeat runs on, and so does the wait for it.
LongRunFairness ==
    /\ WF_longRunVars(ServiceStops)
    /\ \A b \in Heartbeats : WF_longRunVars(Beat(b))

LongRunSpec == LongRunInit /\ [][LongRunNext]_longRunVars /\ LongRunFairness

-----------------------------------------------------------------------------
(* Correctness *)

\* A task is executed a second time only if two heartbeats that overlapped had
\* read it before either had marked it (longrun.go:271-287), never because of a
\* failing statement or a crash.
SecondExecutionNeedsOverlap ==
    \A t \in QueuedTasks : executions[t] > 1 => t \in twoHands

\* The same goes for an outcome that is overwritten.
OutcomeStaysUnlessOverlap ==
    [][row' # row => \A t \in QueuedTasks :
           (row[t] \in {"completed", "failed"} /\ row'[t] # row[t]) => t \in twoHands]_longRunVars

\* A row says running only while a heartbeat is at it, unless the process died
\* or a statement failed: such a row is never read again (task_queue.go:108).
RunningIsAtWork ==
    \A t \in QueuedTasks :
        row[t] = "running" =>
            \/ deaths > 0 \/ dbFaults > 0
            \/ \E b \in Heartbeats : beatPc[b] \in {"execute", "save"} /\ TaskOf(b) = t

\* When Stop has returned, no heartbeat is under way (longrun.go:246).
StoppedHasNoBeats ==
    ~serving => \A b \in Heartbeats : beatPc[b] = "idle"

\* Stop returns unless a heartbeat has just started and still needs the lock
\* that Stop holds (longrun.go:238 and 264).
StopEndsOnceBeatsEntered ==
    (stopWaits /\ \A b \in Heartbeats : beatPc[b] # "enter") ~> ~stopWaits

\* A task is executed again, or loses its outcome, only through heartbeats that
\* overlap; one that says running is at work or was left behind by a failed
\* statement or a crash; and after Stop there is no heartbeat.
LongRunCorrect ==
    /\ [](LongRunTypeOK /\ SecondExecutionNeedsOverlap /\ RunningIsAtWork /\ StoppedHasNoBeats)
    /\ OutcomeStaysUnlessOverlap
=============================================================================
