---------------------------- MODULE TaskScheduler ----------------------------
(***************************************************************************)
(* The cron scheduler of pkg/scheduler: the tables tasks and               *)
(* task_executions, the loop that looks for due tasks every minute and     *)
(* starts a goroutine for each while the semaphore has room, the callers   *)
(* of RunTask, Stop, and crashes.                                          *)
(*                                                                         *)
(* Every database statement is one action, and so is every step of a       *)
(* goroutine that another one can come between.  A time is what it is for  *)
(* the query of due tasks: none, later, or due.  Of task_executions only   *)
(* the rows that say running are kept.  One Start per process.             *)
(***************************************************************************)
EXTENDS Integers, FiniteSets

CONSTANTS
    Tasks,
    Rank,                \* Task.Priority
    Runs,                \* identities of the goroutines the loop starts
    Callers,             \* callers of RunTask
    MaxConcurrentTasks,  \* capacity of the semaphore (5 in the code)
    MaxFaults,           \* bound: failing inserts and updates of an execution
    MaxCrashes           \* bound: crashes

ASSUME TasksAssumption == Tasks # {}
ASSUME RankAssumption == Rank \in [Tasks -> Nat]
ASSUME RunsAssumption == IsFiniteSet(Runs) /\ Runs \cap Callers = {}
ASSUME BoundsAssumption ==
    /\ MaxConcurrentTasks \in Nat \ {0}
    /\ MaxFaults \in Nat /\ MaxCrashes \in Nat

VARIABLES
    table,     \* the rows of tasks
    stale,     \* tasks with a row that says running and nobody works on
    recorded,  \* executions under way that have a row, with status running
    running,   \* TaskScheduler.running
    stopping,  \* Stop holds mu and waits for the goroutines
    open,      \* the database is open
    loop,      \* where schedulerLoop is
    batch,     \* the due tasks it has still to look at, as they were read
    tokens,    \* what the semaphore holds
    pc,        \* where each execution is
    copy,      \* the task it executes, as it was read
    outcome,   \* what its executor returned
    faults, crashes

tableVars == <<table, stale>>
lifeVars  == <<running, stopping, open>>
loopVars  == <<loop, batch, tokens>>
runVars   == <<pc, copy, outcome, recorded>>
vars == <<tableVars, lifeVars, loopVars, runVars, faults, crashes>>

Executions == Runs \cup Callers
NextRun    == {"none", "later", "due"}
Absent     == [exists |-> FALSE, once |-> FALSE, enabled |-> FALSE, next |-> "none"]
Row        == [exists : BOOLEAN, once : BOOLEAN, enabled : BOOLEAN, next : NextRun]
Copy       == [task : Tasks, once : BOOLEAN]
Outcome    == {"completed", "failed"}
Phase      == {"idle", "start", "record", "run", "save", "next"}

TypeOK ==
    /\ table \in [Tasks -> Row]
    /\ stale \subseteq Tasks
    /\ recorded \subseteq Executions
    /\ running \in BOOLEAN /\ stopping \in BOOLEAN /\ open \in BOOLEAN
    /\ loop \in {"wait", "dispatch", "off"}
    /\ batch \subseteq Copy
    /\ tokens \in 0..MaxConcurrentTasks
    /\ pc \in [Executions -> Phase]
    /\ copy \in [Executions -> Copy]
    /\ outcome \in [Executions -> Outcome]
    /\ faults \in 0..MaxFaults /\ crashes \in 0..MaxCrashes

Idle == [e \in Executions |-> "idle"]

NoCopy == [e \in Executions |-> [task |-> CHOOSE t \in Tasks : TRUE, once |-> FALSE]]

\* The scheduler was just started, on an empty database.
Init ==
    /\ running = TRUE /\ stopping = FALSE /\ open = TRUE
    /\ loop = "wait" /\ batch = {} /\ tokens = 0
    /\ pc = Idle /\ recorded = {}
    /\ table = [t \in Tasks |-> Absent]
    /\ stale = {}
    /\ copy = NoCopy
    /\ outcome = [e \in Executions |-> "completed"]
    /\ faults = 0 /\ crashes = 0

-----------------------------------------------------------------------------
(* The calls on the table of tasks *)

Wrong_KeepsNext(once, given) == given

\* CreateTask and UpdateTask: a schedule decides the next run; without one,
\* CreateTask stores what the caller gave and UpdateTask stores none.
NextRunStored(once, given) == IF once THEN given ELSE "later"

Store(t, once, given, enabled) ==
    table' = [table EXCEPT ![t] = [exists |-> TRUE, once |-> once,
                  enabled |-> enabled, next |-> NextRunStored(once, given)]]

CreateTask(t) ==
    /\ running /\ ~table[t].exists
    /\ \E once, enabled \in BOOLEAN, given \in NextRun : Store(t, once, given, enabled)
    /\ UNCHANGED <<stale, lifeVars, loopVars, runVars, faults, crashes>>

UpdateTask(t) ==
    /\ running /\ table[t].exists
    /\ \E once, enabled \in BOOLEAN : Store(t, once, "none", enabled)
    /\ UNCHANGED <<stale, lifeVars, loopVars, runVars, faults, crashes>>

EnableTask(t) ==
    /\ running /\ table[t].exists
    /\ table' = [table EXCEPT ![t].enabled = ~@]
    /\ UNCHANGED <<stale, lifeVars, loopVars, runVars, faults, crashes>>

\* One transaction: the executions of the task and the task.
DeleteTask(t) ==
    /\ running /\ table[t].exists
    /\ table' = [table EXCEPT ![t] = Absent]
    /\ stale' = stale \ {t}
    /\ recorded' = {e \in recorded : copy[e].task # t}
    /\ UNCHANGED <<lifeVars, loopVars, pc, copy, outcome, faults, crashes>>

\* Time passes: a run that was due later is due.
BecomesDue(t) ==
    /\ table[t].next = "later"
    /\ table' = [table EXCEPT ![t].next = "due"]
    /\ UNCHANGED <<stale, lifeVars, loopVars, runVars, faults, crashes>>

-----------------------------------------------------------------------------
(* schedulerLoop and cleanupLoop *)

\* GetTasksDueForExecution
Due(t) == table[t].exists /\ table[t].enabled /\ table[t].next \in {"none", "due"}

\* The minute is over: the due tasks are read.  The select may prefer the
\* ticker although Stop has closed stopCh.
Tick ==
    /\ loop = "wait"
    /\ \E t \in Tasks : Due(t)
    /\ batch' = {[task |-> t, once |-> table[t].once] : t \in {u \in Tasks : Due(u)}}
    /\ loop' = "dispatch"
    /\ UNCHANGED <<tokens, tableVars, lifeVars, runVars, faults, crashes>>

\* The tasks are looked at by priority (the order within one is left open).
IsNext(b) == b \in batch /\ \A other \in batch : Rank[other.task] <= Rank[b.task]

HasRoom == tokens < MaxConcurrentTasks

LookedAt(b) ==
    /\ batch' = batch \ {b}
    /\ loop' = IF batch = {b} THEN "wait" ELSE "dispatch"

Dispatch(b, r) ==
    /\ loop = "dispatch" /\ IsNext(b)
    /\ HasRoom /\ pc[r] = "idle"
    /\ LookedAt(b)
    /\ tokens' = tokens + 1
    /\ pc' = [pc EXCEPT ![r] = "start"]
    /\ copy' = [copy EXCEPT ![r] = b]
    /\ UNCHANGED <<tableVars, lifeVars, outcome, recorded, faults, crashes>>

\* At capacity: the task is skipped until the next tick.
Skip(b) ==
    /\ loop = "dispatch" /\ IsNext(b)
    /\ ~HasRoom
    /\ LookedAt(b)
    /\ UNCHANGED <<tokens, tableVars, lifeVars, runVars, faults, crashes>>

LoopExits ==
    /\ loop = "wait" /\ ~running
    /\ loop' = "off"
    /\ UNCHANGED <<batch, tokens, tableVars, lifeVars, runVars, faults, crashes>>

\* performCleanup deletes old rows of a task and those in excess, also rows of
\* executions under way.
Cleanup(t) ==
    /\ running
    /\ stale' \in {stale, stale \ {t}}
    /\ \E old \in SUBSET {e \in recorded : copy[e].task = t} : recorded' = recorded \ old
    /\ UNCHANGED <<table, lifeVars, loopVars, pc, copy, outcome, faults, crashes>>

-----------------------------------------------------------------------------
(* executeTask, for the loop (executeTaskAsync) and for RunTask *)

RunTask(c, t) ==
    /\ running /\ pc[c] = "idle" /\ table[t].exists
    /\ pc' = [pc EXCEPT ![c] = "start"]
    /\ copy' = [copy EXCEPT ![c] = [task |-> t, once |-> table[t].once]]
    /\ UNCHANGED <<outcome, recorded, tableVars, lifeVars, loopVars, faults, crashes>>

\* The executor is looked up under mu, which Stop holds while it waits.
LookUpExecutor(e) ==
    /\ pc[e] = "start" /\ ~stopping
    /\ pc' = [pc EXCEPT ![e] = "record"]
    /\ UNCHANGED <<copy, outcome, recorded, tableVars, lifeVars, loopVars, faults, crashes>>

\* No executor is registered for the type of the task (any more).
NoExecutor(e) ==
    /\ pc[e] = "start" /\ ~stopping
    /\ pc' = [pc EXCEPT ![e] = IF e \in Runs THEN "next" ELSE "idle"]
    /\ UNCHANGED <<copy, outcome, recorded, tableVars, lifeVars, loopVars, faults, crashes>>

\* A statement fails on a closed database, or by a fault.
Statement(succeeds) ==
    \/ succeeds /\ open /\ faults' = faults
    \/ ~succeeds /\ ~open /\ faults' = faults
    \/ ~succeeds /\ open /\ faults < MaxFaults /\ faults' = faults + 1

\* CreateExecution; a failure is only logged.
RecordStart(e) ==
    /\ pc[e] = "record"
    /\ \E succeeds \in BOOLEAN :
           /\ Statement(succeeds)
           /\ recorded' = IF succeeds THEN recorded \cup {e} ELSE recorded
    /\ pc' = [pc EXCEPT ![e] = "run"]
    /\ UNCHANGED <<copy, outcome, tableVars, lifeVars, loopVars, crashes>>

\* The executor returns.
Execute(e) ==
    /\ pc[e] = "run"
    /\ \E o \in Outcome : outcome' = [outcome EXCEPT ![e] = o]
    /\ pc' = [pc EXCEPT ![e] = "save"]
    /\ UNCHANGED <<copy, recorded, tableVars, lifeVars, loopVars, faults, crashes>>

Wrong_SavesSuccessOnly(e, succeeds) ==
    ~(succeeds /\ outcome[e] = "completed")

\* Whether the row of an execution is left saying running.
LeftRunning(e, succeeds) == ~succeeds

\* UpdateExecution (it updates no row if there is none) and UpdateTaskLastRun.
SaveOutcome(e) ==
    /\ pc[e] = "save"
    /\ \E succeeds \in BOOLEAN :
           /\ Statement(succeeds)
           /\ stale' = IF e \in recorded /\ LeftRunning(e, succeeds)
                       THEN stale \cup {copy[e].task}
                       ELSE stale
    /\ recorded' = recorded \ {e}
    /\ pc' = [pc EXCEPT ![e] = IF e \in Runs THEN "next" ELSE "idle"]
    /\ copy' = [copy EXCEPT ![e] = IF e \in Runs THEN @ ELSE NoCopy[e]]
    /\ outcome' = [outcome EXCEPT ![e] = IF e \in Runs THEN @ ELSE "completed"]
    /\ UNCHANGED <<table, lifeVars, loopVars, crashes>>

Wrong_ReleasesTwice(r) == tokens - 2
Wrong_LeaksOnFailure(r) == IF outcome[r] = "failed" THEN tokens ELSE tokens - 1

\* The semaphore after the deferred release.
Released(r) == tokens - 1

\* UpdateTaskNextRun of a task that had a schedule when it was read, then the
\* deferred calls.
SetNextRun(r) ==
    /\ pc[r] = "next"
    /\ \E succeeds \in BOOLEAN :
           /\ Statement(succeeds)
           /\ table' = IF succeeds /\ ~copy[r].once /\ table[copy[r].task].exists
                       THEN [table EXCEPT ![copy[r].task].next = "later"]
                       ELSE table
    /\ tokens' = Released(r)
    /\ pc' = [pc EXCEPT ![r] = "idle"]
    /\ copy' = [copy EXCEPT ![r] = NoCopy[r]]
    /\ outcome' = [outcome EXCEPT ![r] = "completed"]
    /\ UNCHANGED <<loop, batch, recorded, stale, lifeVars, crashes>>

-----------------------------------------------------------------------------
(* Stop, and the death of the process *)

Stop ==
    /\ running
    /\ running' = FALSE /\ stopping' = TRUE
    /\ UNCHANGED <<open, tableVars, loopVars, runVars, faults, crashes>>

Wrong_WaitsForLoopsOnly == loop = "off"

\* wg.Wait: the loops and what the scheduler loop started have returned.
AllReturned == loop = "off" /\ \A r \in Runs : pc[r] = "idle"

StopReturns ==
    /\ stopping /\ AllReturned
    /\ stopping' = FALSE /\ open' = FALSE
    /\ UNCHANGED <<running, tableVars, loopVars, runVars, faults, crashes>>

\* The process dies and a new one starts its scheduler on the same database:
\* the rows of the executions under way stay as they are.
Crash ==
    /\ crashes < MaxCrashes
    /\ crashes' = crashes + 1
    /\ running' = TRUE /\ stopping' = FALSE /\ open' = TRUE
    /\ loop' = "wait" /\ batch' = {} /\ tokens' = 0
    /\ pc' = Idle /\ copy' = NoCopy /\ recorded' = {}
    /\ stale' = stale \cup {copy[e].task : e \in recorded}
    /\ UNCHANGED <<table, outcome, faults>>

-----------------------------------------------------------------------------
Operate(t) == CreateTask(t) \/ UpdateTask(t) \/ EnableTask(t) \/ DeleteTask(t)

Loop ==
    \/ Tick \/ LoopExits
    \/ \E b \in batch : Skip(b) \/ \E r \in Runs : Dispatch(b, r)

Proceed(e) ==
    LookUpExecutor(e) \/ NoExecutor(e) \/ RecordStart(e) \/ Execute(e) \/ SaveOutcome(e)

Next ==
    \/ \E t \in Tasks : Operate(t) \/ BecomesDue(t) \/ Cleanup(t)
    \/ \E c \in Callers, t \in Tasks : RunTask(c, t)
    \/ Loop
    \/ \E e \in Executions : Proceed(e)
    \/ \E r \in Runs : SetNextRun(r)
    \/ Stop \/ StopReturns \/ Crash

\* The ticker ticks, goroutines are scheduled and executors return.
Fairness ==
    /\ WF_vars(Loop) /\ WF_vars(StopReturns)
    /\ \A e \in Executions : WF_vars(Proceed(e))
    /\ \A r \in Runs : WF_vars(SetNextRun(r))

Spec     == Init /\ [][Next]_vars
FairSpec == Spec /\ Fairness

-----------------------------------------------------------------------------
(* Correctness *)

\* The semaphore holds one token for each goroutine the loop started and that
\* has not returned, whatever fails in it (lines 302-317): no slot is lost.
SlotsAccounted == tokens = Cardinality({r \in Runs : pc[r] # "idle"})

\* When Stop has returned, the loop and every execution it started have
\* returned: none of them meets the closed database (lines 113-121).
StoppedIsQuiet ==
    (~running /\ ~stopping) => (loop = "off" /\ \A r \in Runs : pc[r] = "idle")

\* A task with a schedule always has a next run: without one it would be due
\* every minute (GetTasksDueForExecution takes NULL as due).
ScheduledHasNextRun ==
    \A t \in Tasks : (table[t].exists /\ ~table[t].once) => table[t].next # "none"

\* A row says running and nobody works on it only after a crash, a failing
\* statement, or a RunTask that Stop has overtaken (executeTask).
StaleRunningNeedsFailure ==
    stale # {} => (crashes > 0 \/ faults > 0 \/ ~open)

TakenUp(t) == \E r \in Runs : pc[r] # "idle" /\ copy[r].task = t

DispatchOther(t) == \E r \in Runs, b \in batch : b.task # t /\ Dispatch(b, r)

\* A task that is due is skipped at every tick that finds the slots in use
\* (lines 296-311), and none is kept for it.  It stays due without being taken
\* up only as long as other tasks are started again and again.
DueTaskRuns ==
    \A t \in Tasks :
        <>[](running /\ Due(t) /\ ~TakenUp(t)) => []<><<DispatchOther(t)>>_vars

\* Stop returns (scheduler.go:113, "Wait for all goroutines to finish").
StopEnds == stopping ~> ~stopping
=============================================================================
