------------------------- MODULE TaskSchedulerProofs -------------------------
(***************************************************************************)
(* Proofs about what a clock starts: TaskScheduler, for any tasks,         *)
(* goroutines, callers, capacity and bounds, and the heartbeats of         *)
(* LongRun and of its checklist, for any tasks, lines, heartbeats, quota   *)
(* and bounds.                                                             *)
(***************************************************************************)
EXTENDS TaskScheduler, LongRun, Checklist, FiniteSetTheorems, SequenceTheorems,
        WellFoundedInduction, TLAPS

\* The goroutines of the loop that have not returned.
Busy == {r \in Runs : pc[r] # "idle"}

-----------------------------------------------------------------------------
(* Lemmas about the operators *)

\* The initial copy is one.
LEMMA NoCopyType == NoCopy \in [Executions -> Copy]
<1>1. (CHOOSE t \in Tasks : TRUE) \in Tasks
  BY TasksAssumption
<1>2. QED
  BY <1>1 DEF NoCopy, Copy

\* A statement that fails on an open database uses up a fault, and no
\* statement gives one back.
LEMMA StatementCounts ==
    ASSUME TypeOK, NEW succeeds \in BOOLEAN, Statement(succeeds)
    PROVE  /\ faults' \in 0..MaxFaults
           /\ faults' >= faults
           /\ (~succeeds /\ open) => faults' > 0
  BY BoundsAssumption DEF TypeOK, Statement

\* The busy goroutines can be counted.
LEMMA BusyCounted ==
    ASSUME TypeOK
    PROVE  IsFiniteSet(Busy) /\ Cardinality(Busy) \in Nat
<1>1. IsFiniteSet(Busy)
  BY RunsAssumption, FS_Subset DEF Busy
<1>2. QED
  BY <1>1, FS_CardinalityType

\* A step that leaves the semaphore alone, and starts and ends no goroutine,
\* keeps the account.
LEMMA SameAccount ==
    ASSUME SlotsAccounted, UNCHANGED tokens,
           \A r \in Runs : (pc'[r] # "idle") <=> (pc[r] # "idle")
    PROVE  SlotsAccounted'
<1>1. {r \in Runs : pc'[r] # "idle"} = {r \in Runs : pc[r] # "idle"}
  OBVIOUS
<1>2. QED
  BY <1>1 DEF SlotsAccounted

\* A goroutine that is started adds one to the busy ones.
LEMMA OneMore ==
    ASSUME TypeOK, NEW r \in Runs, pc[r] = "idle",
           pc' = [pc EXCEPT ![r] = "start"]
    PROVE  Cardinality(Busy') = Cardinality(Busy) + 1
<1>1. Busy' = Busy \cup {r} /\ r \notin Busy
  BY DEF Busy, TypeOK, Executions
<1>2. QED
  BY <1>1, BusyCounted, FS_AddElement

\* A goroutine that returns takes one away.
LEMMA OneLess ==
    ASSUME TypeOK, NEW r \in Runs, pc[r] # "idle",
           pc' = [pc EXCEPT ![r] = "idle"]
    PROVE  /\ Cardinality(Busy') = Cardinality(Busy) - 1
           /\ Cardinality(Busy) > 0
<1>1. Busy' = Busy \ {r} /\ r \in Busy
  BY DEF Busy, TypeOK, Executions
<1>2. Cardinality(Busy') = Cardinality(Busy) - 1
  BY <1>1, BusyCounted, FS_RemoveElement
<1>3. Cardinality(Busy) # 0
  BY <1>1, BusyCounted, FS_EmptySet
<1>4. QED
  BY <1>2, <1>3, BusyCounted

-----------------------------------------------------------------------------
(* Types, and the account of the semaphore *)

\* The two hold together: that the semaphore is released by a goroutine that
\* holds a token is what keeps it within its range.
IInv == TypeOK /\ SlotsAccounted

LEMMA IInvInit == Init => IInv
<1> SUFFICES ASSUME Init
             PROVE  IInv
  OBVIOUS
<1>1. TypeOK
  <2>1. /\ table \in [Tasks -> Row]
        /\ stale \subseteq Tasks
    BY DEF Init, Absent, Row, NextRun
  <2>2. pc \in [Executions -> Phase] /\ outcome \in [Executions -> Outcome]
    BY DEF Init, Idle, Phase, Outcome
  <2>3. tokens \in 0..MaxConcurrentTasks /\ faults \in 0..MaxFaults
        /\ crashes \in 0..MaxCrashes
    BY BoundsAssumption DEF Init
  <2>4. QED
    BY <2>1, <2>2, <2>3, NoCopyType DEF Init, TypeOK
<1>2. {r \in Runs : pc[r] # "idle"} = {}
  BY DEF Init, Idle, Executions
<1>3. SlotsAccounted
  BY <1>2, FS_EmptySet DEF Init, SlotsAccounted
<1>4. QED
  BY <1>1, <1>3 DEF IInv

\* What the calls on the table, the clock and performCleanup do.
LEMMA TableStep ==
    ASSUME IInv, NEW t \in Tasks, Operate(t) \/ BecomesDue(t) \/ Cleanup(t)
    PROVE  IInv'
<1> USE DEF IInv, TypeOK, Row, NextRun, Absent, lifeVars, loopVars, runVars
<1>1. UNCHANGED <<pc, tokens>> => SlotsAccounted'
  BY DEF SlotsAccounted
<1>2. CASE CreateTask(t)
  BY <1>1, <1>2 DEF CreateTask, Store, NextRunStored
<1>3. CASE UpdateTask(t)
  BY <1>1, <1>3 DEF UpdateTask, Store, NextRunStored
<1>4. CASE EnableTask(t)
  BY <1>1, <1>4 DEF EnableTask
<1>5. CASE DeleteTask(t)
  BY <1>1, <1>5 DEF DeleteTask
<1>6. CASE BecomesDue(t)
  BY <1>1, <1>6 DEF BecomesDue
<1>7. CASE Cleanup(t)
  BY <1>1, <1>7 DEF Cleanup
<1>8. QED
  BY <1>2, <1>3, <1>4, <1>5, <1>6, <1>7 DEF Operate

\* What the loop does.
LEMMA LoopStep ==
    ASSUME IInv, Loop
    PROVE  IInv'
<1> USE DEF IInv, TypeOK
<1>1. UNCHANGED <<pc, tokens>> => SlotsAccounted'
  BY DEF SlotsAccounted
<1>2. CASE Tick
  <2>1. \A t \in Tasks : table[t].once \in BOOLEAN
    BY DEF Row
  <2>2. batch' \subseteq Copy
    BY <1>2, <2>1 DEF Tick, Copy
  <2>3. QED
    BY <1>1, <1>2, <2>2 DEF Tick, tableVars, lifeVars, runVars
<1>3. CASE LoopExits
  BY <1>1, <1>3 DEF LoopExits, tableVars, lifeVars, runVars
<1>4. ASSUME NEW b \in batch, Skip(b)
      PROVE  IInv'
  BY <1>1, <1>4 DEF Skip, LookedAt, tableVars, lifeVars, runVars
<1>5. ASSUME NEW b \in batch, NEW r \in Runs, Dispatch(b, r)
      PROVE  IInv'
  <2>1. TypeOK'
    BY <1>5, BoundsAssumption
    DEF Dispatch, LookedAt, HasRoom, Phase, Executions, tableVars, lifeVars
  <2>2. Cardinality(Busy') = Cardinality(Busy) + 1
    BY <1>5, OneMore DEF Dispatch
  <2>3. SlotsAccounted'
    BY <1>5, <2>2 DEF Dispatch, SlotsAccounted, Busy
  <2>4. QED
    BY <2>1, <2>3
<1>6. QED
  BY <1>2, <1>3, <1>4, <1>5 DEF Loop

\* What an execution does before it sets the next run.
LEMMA ProceedStep ==
    ASSUME IInv, NEW e \in Executions, Proceed(e)
    PROVE  IInv'
<1> USE DEF IInv, TypeOK, Phase
<1>1. \A r \in Runs : r \in Executions
  BY DEF Executions
<1>2. CASE LookUpExecutor(e)
  <2>1. TypeOK'
    BY <1>2 DEF LookUpExecutor, tableVars, lifeVars, loopVars
  <2>2. SlotsAccounted'
    BY <1>1, <1>2, SameAccount DEF LookUpExecutor, loopVars
  <2>3. QED
    BY <2>1, <2>2
<1>3. CASE NoExecutor(e)
  <2>1. TypeOK'
    BY <1>3 DEF NoExecutor, tableVars, lifeVars, loopVars
  <2>2. SlotsAccounted'
    BY <1>1, <1>3, SameAccount DEF NoExecutor, loopVars
  <2>3. QED
    BY <2>1, <2>2
<1>4. CASE RecordStart(e)
  <2>1. faults' \in 0..MaxFaults
    BY <1>4, StatementCounts DEF RecordStart
  <2>2. TypeOK'
    BY <1>4, <2>1 DEF RecordStart, tableVars, lifeVars, loopVars
  <2>3. SlotsAccounted'
    BY <1>1, <1>4, SameAccount DEF RecordStart, loopVars
  <2>4. QED
    BY <2>2, <2>3
<1>5. CASE Execute(e)
  <2>1. TypeOK'
    BY <1>5 DEF Execute, tableVars, lifeVars, loopVars
  <2>2. SlotsAccounted'
    BY <1>1, <1>5, SameAccount DEF Execute, loopVars
  <2>3. QED
    BY <2>1, <2>2
<1>6. CASE SaveOutcome(e)
  <2>1. faults' \in 0..MaxFaults
    BY <1>6, StatementCounts DEF SaveOutcome
  <2>2. stale' \subseteq Tasks
    BY <1>6 DEF SaveOutcome, Copy
  <2>3. TypeOK'
    BY <1>6, <2>1, <2>2, NoCopyType DEF SaveOutcome, Outcome, lifeVars, loopVars
  <2>4. SlotsAccounted'
    BY <1>1, <1>6, SameAccount DEF SaveOutcome, loopVars
  <2>5. QED
    BY <2>3, <2>4
<1>7. QED
  BY <1>2, <1>3, <1>4, <1>5, <1>6 DEF Proceed

LEMMA IInvNext == IInv /\ [Next]_vars => IInv'
<1> SUFFICES ASSUME IInv, [Next]_vars
             PROVE  IInv'
  OBVIOUS
<1>1. ASSUME NEW t \in Tasks, Operate(t) \/ BecomesDue(t) \/ Cleanup(t)
      PROVE  IInv'
  BY <1>1, TableStep
<1>2. ASSUME NEW c \in Callers, NEW t \in Tasks, RunTask(c, t)
      PROVE  IInv'
  <2>1. table[t].once \in BOOLEAN /\ c \in Executions /\ c \notin Runs
    BY RunsAssumption DEF IInv, TypeOK, Row, Executions
  <2>2. TypeOK'
    <3>1. copy' \in [Executions -> Copy]
      BY <1>2, <2>1 DEF IInv, TypeOK, RunTask, Copy
    <3>2. pc' \in [Executions -> Phase]
      BY <1>2, <2>1 DEF IInv, TypeOK, RunTask, Phase
    <3>3. QED
      BY <1>2, <3>1, <3>2
      DEF IInv, TypeOK, RunTask, tableVars, lifeVars, loopVars
  <2>3. SlotsAccounted'
    BY <1>2, <2>1, SameAccount DEF IInv, TypeOK, RunTask, loopVars, Executions
  <2>4. QED
    BY <2>2, <2>3 DEF IInv
<1>3. CASE Loop
  BY <1>3, LoopStep
<1>4. ASSUME NEW e \in Executions, Proceed(e)
      PROVE  IInv'
  BY <1>4, ProceedStep
<1>5. ASSUME NEW r \in Runs, SetNextRun(r)
      PROVE  IInv'
  <2>1. /\ Cardinality(Busy') = Cardinality(Busy) - 1
        /\ Cardinality(Busy) > 0
    BY <1>5, OneLess DEF IInv, SetNextRun
  <2>2. tokens = Cardinality(Busy) /\ tokens' = tokens - 1
    BY <1>5 DEF IInv, SlotsAccounted, Busy, SetNextRun, Released
  <2>3. SlotsAccounted'
    <3>1. tokens' = Cardinality(Busy')
      BY <2>1, <2>2
    <3>2. QED
      BY <3>1 DEF SlotsAccounted, Busy
  <2>4. tokens' \in 0..MaxConcurrentTasks
    BY <2>1, <2>2, BoundsAssumption DEF IInv, TypeOK
  <2>5. faults' \in 0..MaxFaults
    BY <1>5, StatementCounts DEF IInv, SetNextRun
  <2>6. table' \in [Tasks -> Row]
    <3> DEFINE t == copy[r].task
    <3>1. t \in Tasks
      BY DEF IInv, TypeOK, Copy, Executions
    <3>2. [table EXCEPT ![t].next = "later"] \in [Tasks -> Row]
      BY <3>1 DEF IInv, TypeOK, Row, NextRun
    <3>3. table' = table \/ table' = [table EXCEPT ![t].next = "later"]
      BY <1>5 DEF SetNextRun
    <3>4. QED
      BY <3>2, <3>3 DEF IInv, TypeOK
  <2>7. TypeOK'
    BY <1>5, <2>4, <2>5, <2>6, NoCopyType
    DEF IInv, TypeOK, SetNextRun, Phase, Outcome, lifeVars
  <2>8. QED
    BY <2>3, <2>7 DEF IInv
<1>6. CASE Stop
  BY <1>6 DEF Stop, IInv, TypeOK, SlotsAccounted, tableVars, loopVars, runVars
<1>7. CASE StopReturns
  BY <1>7 DEF StopReturns, IInv, TypeOK, SlotsAccounted, tableVars, loopVars, runVars
<1>8. CASE Crash
  <2>1. stale' \subseteq Tasks
    BY <1>8 DEF Crash, IInv, TypeOK, Copy
  <2>2. TypeOK'
    <3>1. pc' \in [Executions -> Phase]
      BY <1>8 DEF Crash, Idle, Phase
    <3>2. tokens' \in 0..MaxConcurrentTasks /\ crashes' \in 0..MaxCrashes
      BY <1>8, BoundsAssumption DEF Crash, IInv, TypeOK
    <3>3. QED
      BY <1>8, <2>1, <3>1, <3>2, NoCopyType DEF Crash, IInv, TypeOK
  <2>3. {r \in Runs : pc'[r] # "idle"} = {}
    BY <1>8 DEF Crash, Idle, Executions
  <2>4. SlotsAccounted'
    BY <1>8, <2>3, FS_EmptySet DEF Crash, SlotsAccounted
  <2>5. QED
    BY <2>2, <2>4 DEF IInv
<1>9. CASE UNCHANGED vars
  BY <1>9 DEF vars, IInv, TypeOK, SlotsAccounted, tableVars, lifeVars, loopVars, runVars
<1>10. QED
  BY <1>1, <1>2, <1>3, <1>4, <1>5, <1>6, <1>7, <1>8, <1>9 DEF Next

LEMMA AlwaysIInv == Spec => []IInv
  BY IInvInit, IInvNext, PTL DEF Spec

\* Every variable keeps its type: in particular the semaphore never holds more
\* than its capacity (five executions at a time, lines 285-300).
THEOREM TypeCorrect == Spec => []TypeOK
<1>1. IInv => TypeOK
  BY DEF IInv
<1>2. QED
  BY <1>1, AlwaysIInv, PTL

\* The deferred release of executeTaskAsync gives back exactly the slot the
\* loop took for it, however the execution ends.
THEOREM NoSlotLost == Spec => []SlotsAccounted
<1>1. IInv => SlotsAccounted
  BY DEF IInv
<1>2. QED
  BY <1>1, AlwaysIInv, PTL

-----------------------------------------------------------------------------
(* What Stop leaves behind *)

LEMMA QuietNext == IInv /\ StoppedIsQuiet /\ [Next]_vars => StoppedIsQuiet'
<1> SUFFICES ASSUME IInv, StoppedIsQuiet, [Next]_vars
             PROVE  StoppedIsQuiet'
  OBVIOUS
<1> USE DEF StoppedIsQuiet
<1>1. ASSUME NEW t \in Tasks, Operate(t) \/ BecomesDue(t) \/ Cleanup(t)
      PROVE  StoppedIsQuiet'
  BY <1>1 DEF Operate, CreateTask, UpdateTask, EnableTask, DeleteTask,
              BecomesDue, Cleanup, lifeVars, loopVars, runVars
<1>2. ASSUME NEW c \in Callers, NEW t \in Tasks, RunTask(c, t)
      PROVE  StoppedIsQuiet'
  BY <1>2 DEF RunTask, lifeVars
<1>3. CASE Loop
  BY <1>3 DEF Loop, Tick, LoopExits, Skip, Dispatch, LookedAt, lifeVars, runVars
<1>4. ASSUME NEW e \in Executions, Proceed(e)
      PROVE  StoppedIsQuiet'
  <2>1. UNCHANGED lifeVars /\ loop' = loop /\ pc[e] # "idle"
    BY <1>4 DEF Proceed, LookUpExecutor, NoExecutor, RecordStart, Execute,
                SaveOutcome, loopVars
  <2>2. CASE running \/ stopping
    BY <2>1, <2>2 DEF lifeVars
  <2>3. CASE ~running /\ ~stopping
    <3>1. loop = "off" /\ e \notin Runs /\ \A r \in Runs : pc[r] = "idle"
      BY <2>1, <2>3
    <3>2. PICK p : pc' = [pc EXCEPT ![e] = p]
      BY <1>4
      DEF Proceed, LookUpExecutor, NoExecutor, RecordStart, Execute, SaveOutcome
    <3>3. \A r \in Runs : pc'[r] = pc[r]
      BY <3>1, <3>2 DEF IInv, TypeOK, Executions
    <3>4. QED
      BY <2>1, <3>1, <3>3
  <2>4. QED
    BY <2>2, <2>3
<1>5. ASSUME NEW r \in Runs, SetNextRun(r)
      PROVE  StoppedIsQuiet'
  <2>1. running \/ stopping
    BY <1>5 DEF SetNextRun
  <2>2. QED
    BY <1>5, <2>1 DEF SetNextRun, lifeVars
<1>6. CASE Stop
  BY <1>6 DEF Stop
<1>7. CASE StopReturns
  BY <1>7 DEF StopReturns, AllReturned, loopVars, runVars
<1>8. CASE Crash
  BY <1>8 DEF Crash
<1>9. CASE UNCHANGED vars
  BY <1>9 DEF vars, lifeVars, loopVars, runVars
<1>10. QED
  BY <1>1, <1>2, <1>3, <1>4, <1>5, <1>6, <1>7, <1>8, <1>9 DEF Next

\* When Stop has returned no goroutine of the loop is left, however many the
\* loop had started and whatever they were doing (lines 113-121).
THEOREM QuietWhenStopped == Spec => []StoppedIsQuiet
<1>1. Init => StoppedIsQuiet
  BY DEF Init, StoppedIsQuiet
<1>2. QED
  BY <1>1, AlwaysIInv, QuietNext, PTL DEF Spec

-----------------------------------------------------------------------------
(* Next runs *)

LEMMA NextRunNext == IInv /\ ScheduledHasNextRun /\ [Next]_vars => ScheduledHasNextRun'
<1> SUFFICES ASSUME IInv, ScheduledHasNextRun, [Next]_vars
             PROVE  ScheduledHasNextRun'
  OBVIOUS
<1> USE DEF ScheduledHasNextRun
<1>1. table \in [Tasks -> Row]
  BY DEF IInv, TypeOK
<1>2. UNCHANGED table => ScheduledHasNextRun'
  OBVIOUS
<1>3. ASSUME NEW t \in Tasks, Operate(t) \/ BecomesDue(t) \/ Cleanup(t)
      PROVE  ScheduledHasNextRun'
  <2>1. CASE CreateTask(t) \/ UpdateTask(t)
    <3>1. PICK once \in BOOLEAN, enabled \in BOOLEAN, given \in NextRun :
              Store(t, once, given, enabled)
      BY <2>1 DEF CreateTask, UpdateTask, NextRun
    <3>2. QED
      BY <1>1, <3>1 DEF Store, NextRunStored
  <2>2. CASE EnableTask(t)
    BY <1>1, <2>2 DEF EnableTask, Row
  <2>3. CASE DeleteTask(t)
    BY <1>1, <2>3 DEF DeleteTask, Absent
  <2>4. CASE BecomesDue(t)
    BY <1>1, <2>4 DEF BecomesDue, Row
  <2>5. CASE Cleanup(t)
    BY <1>2, <2>5 DEF Cleanup
  <2>6. QED
    BY <1>3, <2>1, <2>2, <2>3, <2>4, <2>5 DEF Operate
<1>4. ASSUME NEW c \in Callers, NEW t \in Tasks, RunTask(c, t)
      PROVE  ScheduledHasNextRun'
  BY <1>2, <1>4 DEF RunTask, tableVars
<1>5. CASE Loop
  BY <1>2, <1>5 DEF Loop, Tick, LoopExits, Skip, Dispatch, tableVars
<1>6. ASSUME NEW e \in Executions, Proceed(e)
      PROVE  ScheduledHasNextRun'
  BY <1>2, <1>6 DEF Proceed, LookUpExecutor, NoExecutor, RecordStart, Execute,
                    SaveOutcome, tableVars
<1>7. ASSUME NEW r \in Runs, SetNextRun(r)
      PROVE  ScheduledHasNextRun'
  <2>1. copy[r].task \in Tasks
    BY DEF IInv, TypeOK, Copy, Executions
  <2>2. CASE table' = [table EXCEPT ![copy[r].task].next = "later"]
    BY <1>1, <2>1, <2>2 DEF Row
  <2>3. QED
    BY <1>2, <1>7, <2>2 DEF SetNextRun
<1>8. CASE Stop \/ StopReturns \/ Crash
  BY <1>2, <1>8 DEF Stop, StopReturns, Crash, tableVars
<1>9. CASE UNCHANGED vars
  BY <1>2, <1>9 DEF vars, tableVars
<1>10. QED
  BY <1>3, <1>4, <1>5, <1>6, <1>7, <1>8, <1>9 DEF Next

\* No order of creations, updates and late UpdateTaskNextRun statements leaves
\* a task that has a schedule without a next run.
THEOREM ScheduledKeepsNextRun == Spec => []ScheduledHasNextRun
<1>1. Init => ScheduledHasNextRun
  BY DEF Init, ScheduledHasNextRun, Absent
<1>2. QED
  BY <1>1, AlwaysIInv, NextRunNext, PTL DEF Spec

-----------------------------------------------------------------------------
(* Rows that say running *)

LEMMA StaleNext ==
    IInv /\ StaleRunningNeedsFailure /\ [Next]_vars => StaleRunningNeedsFailure'
<1> SUFFICES ASSUME IInv, StaleRunningNeedsFailure, [Next]_vars
             PROVE  StaleRunningNeedsFailure'
  OBVIOUS
<1> USE DEF StaleRunningNeedsFailure
<1>1. faults \in Nat /\ crashes \in Nat
  BY BoundsAssumption DEF IInv, TypeOK
<1>2. ASSUME stale' \subseteq stale, faults' \in Nat, faults' >= faults,
             UNCHANGED <<open, crashes>>
      PROVE  StaleRunningNeedsFailure'
  <2>1. stale' # {} => stale # {}
    BY <1>2
  <2>2. QED
    BY <1>1, <1>2, <2>1
<1>3. ASSUME NEW t \in Tasks, Operate(t) \/ BecomesDue(t) \/ Cleanup(t)
      PROVE  StaleRunningNeedsFailure'
  <2>1. stale' \subseteq stale /\ UNCHANGED <<open, crashes, faults>>
    BY <1>3 DEF Operate, CreateTask, UpdateTask, EnableTask, DeleteTask,
                BecomesDue, Cleanup, lifeVars
  <2>2. QED
    BY <1>1, <1>2, <2>1
<1>4. ASSUME NEW c \in Callers, NEW t \in Tasks, RunTask(c, t)
      PROVE  StaleRunningNeedsFailure'
  BY <1>1, <1>2, <1>4 DEF RunTask, tableVars, lifeVars
<1>5. CASE Loop
  BY <1>1, <1>2, <1>5 DEF Loop, Tick, LoopExits, Skip, Dispatch, tableVars, lifeVars
<1>6. ASSUME NEW e \in Executions, Proceed(e)
      PROVE  StaleRunningNeedsFailure'
  <2>1. CASE LookUpExecutor(e) \/ NoExecutor(e) \/ Execute(e)
    BY <1>1, <1>2, <2>1 DEF LookUpExecutor, NoExecutor, Execute, tableVars, lifeVars
  <2>2. CASE RecordStart(e)
    <3>1. PICK succeeds \in BOOLEAN : Statement(succeeds)
      BY <2>2 DEF RecordStart
    <3>2. faults' \in Nat /\ faults' >= faults
      BY <3>1, StatementCounts, BoundsAssumption DEF IInv
    <3>3. QED
      BY <1>2, <2>2, <3>2 DEF RecordStart, tableVars, lifeVars
  <2>3. CASE SaveOutcome(e)
    <3>1. PICK succeeds \in BOOLEAN :
              /\ Statement(succeeds)
              /\ stale' = IF e \in recorded /\ LeftRunning(e, succeeds)
                          THEN stale \cup {copy[e].task}
                          ELSE stale
      BY <2>3 DEF SaveOutcome
    <3>2. /\ faults' \in Nat /\ faults' >= faults
          /\ (~succeeds /\ open) => faults' > 0
      BY <3>1, StatementCounts, BoundsAssumption DEF IInv
    <3>3. open' = open /\ crashes' = crashes
      BY <2>3 DEF SaveOutcome, lifeVars
    <3>4. CASE succeeds
      BY <1>2, <3>1, <3>2, <3>3, <3>4 DEF LeftRunning
    <3>5. CASE ~succeeds
      BY <3>2, <3>3, <3>5
    <3>6. QED
      BY <3>4, <3>5
  <2>4. QED
    BY <1>6, <2>1, <2>2, <2>3 DEF Proceed
<1>7. ASSUME NEW r \in Runs, SetNextRun(r)
      PROVE  StaleRunningNeedsFailure'
  <2>1. PICK succeeds \in BOOLEAN : Statement(succeeds)
    BY <1>7 DEF SetNextRun
  <2>2. faults' \in Nat /\ faults' >= faults
    BY <2>1, StatementCounts, BoundsAssumption DEF IInv
  <2>3. QED
    BY <1>2, <1>7, <2>2 DEF SetNextRun, lifeVars
<1>8. CASE Stop
  BY <1>1, <1>2, <1>8 DEF Stop, tableVars
<1>9. CASE StopReturns
  BY <1>9 DEF StopReturns
<1>10. CASE Crash
  BY <1>1, <1>10 DEF Crash
<1>11. CASE UNCHANGED vars
  BY <1>1, <1>2, <1>11 DEF vars, tableVars, lifeVars
<1>12. QED
  BY <1>3, <1>4, <1>5, <1>6, <1>7, <1>8, <1>9, <1>10, <1>11 DEF Next

\* A row of task_executions says running without anybody at work on it only
\* after a crash, a failed statement, or Stop.
THEOREM StaleNeedsFailure == Spec => []StaleRunningNeedsFailure
<1>1. Init => StaleRunningNeedsFailure
  BY DEF Init, StaleRunningNeedsFailure
<1>2. QED
  BY <1>1, AlwaysIInv, StaleNext, PTL DEF Spec

-----------------------------------------------------------------------------
\* Natural numbers have a smallest among them.
LEMMA LeastOf ==
    ASSUME NEW S \in SUBSET Nat, S # {}
    PROVE  \E m \in S : \A n \in S : m <= n
<1>1. \E m \in S : \A n \in S : ~(<<n, m>> \in OpToRel(<, Nat))
  BY WFMin, NatLessThanWellFounded, Zenon
<1>2. \A m, n \in Nat : <<n, m>> \in OpToRel(<, Nat) <=> n < m
  BY Zenon DEF OpToRel
<1>3. \A m, n \in Nat : ~(n < m) => m <= n
  BY SMT
<1>4. QED
  BY <1>1, <1>2, <1>3, Zenon

-----------------------------------------------------------------------------
(* The heartbeats of a long-running agent *)

Present == {t \in QueuedTasks : row[t] # "absent"}

\* Heartbeat b is at task t.
IsAt(b, t) == beatPc[b] \in {"execute", "save"} /\ TaskOf(b) = t

\* The heartbeats that have read t and not begun it.
Waiting(t) == {b \in Heartbeats : t \in toDo[b] /\ ~IsAt(b, t)}

BeatsTyped ==
    /\ serving \in BOOLEAN /\ stopWaits \in BOOLEAN
    /\ row \in [QueuedTasks -> RowStatus]
    /\ created \in [QueuedTasks -> 0..Cardinality(QueuedTasks)]
    /\ beatPc \in [Heartbeats -> {"idle", "enter", "read", "mark", "execute", "save", "items"}]
    /\ toDo \in [Heartbeats -> SUBSET QueuedTasks]
    /\ took \in [Heartbeats -> 0..MaxAutonomousActions]
    /\ endedAs \in [Heartbeats -> {"completed", "failed"}]
    /\ dbFaults \in 0..MaxDbFaults /\ deaths \in 0..MaxDeaths
    /\ executions \in [QueuedTasks -> Nat]
    /\ twoHands \subseteq QueuedTasks

\* A heartbeat has something to do as long as it is at it, within its quota.
BeatsFit ==
    \A b \in Heartbeats :
        /\ beatPc[b] \in {"mark", "execute", "save"} <=> toDo[b] # {}
        /\ beatPc[b] \in {"idle", "enter", "read"} => took[b] = 0
        /\ took[b] + Cardinality(toDo[b]) <= MaxAutonomousActions

\* Rows are numbered as they come.
RowsNumbered ==
    /\ \A t \in Present : created[t] <= Cardinality(Present)
    /\ \A t, u \in Present : t # u => created[t] # created[u]

\* Only rows that were due are read, and a row tells whether it was executed.
RowsFit ==
    \A t \in QueuedTasks :
        /\ row[t] \in {"absent", "later", "pending"} <=> executions[t] = 0
        /\ row[t] \in {"absent", "later"} => \A b \in Heartbeats : t \notin toDo[b]
        /\ row[t] \in {"absent", "later", "pending"} => \A b \in Heartbeats : ~IsAt(b, t)

\* A task in one hand only is pending until it is begun, and then running.
HandsFit ==
    /\ \A t \in QueuedTasks : \A b, c \in Heartbeats :
           b # c /\ t \in toDo[b] /\ t \in toDo[c] => t \in twoHands
    /\ \A t \in QueuedTasks \ twoHands :
           /\ executions[t] <= 1
           /\ \A b \in Heartbeats :
                  t \in toDo[b] => row[t] = IF IsAt(b, t) THEN "running" ELSE "pending"

\* Each execution of a task has had a heartbeat of its own.
ExecutionsCounted ==
    \A t \in QueuedTasks : executions[t] + Cardinality(Waiting(t)) <= Cardinality(Heartbeats)

LongRunInductive ==
    /\ BeatsTyped /\ BeatsFit /\ RowsNumbered /\ RowsFit /\ HandsFit /\ ExecutionsCounted
    /\ RunningIsAtWork /\ StoppedHasNoBeats

LEMMA HeartbeatsFinite ==
    /\ IsFiniteSet(Heartbeats) /\ Cardinality(Heartbeats) \in Nat
    /\ IsFiniteSet(QueuedTasks) /\ Cardinality(QueuedTasks) \in Nat
    /\ \A S \in SUBSET Heartbeats :
           IsFiniteSet(S) /\ Cardinality(S) \in Nat /\ Cardinality(S) <= Cardinality(Heartbeats)
    /\ \A S \in SUBSET QueuedTasks :
           IsFiniteSet(S) /\ Cardinality(S) \in Nat /\ Cardinality(S) <= Cardinality(QueuedTasks)
  BY LongRunAssumption, FS_Subset, FS_CardinalityType

LEMMA LongRunStart == LongRunInit => LongRunInductive
<1> SUFFICES ASSUME LongRunInit PROVE LongRunInductive
  OBVIOUS
<1>1. BeatsTyped
  <2>1. /\ 0 \in 0..Cardinality(QueuedTasks) /\ 0 \in 0..MaxAutonomousActions
        /\ 0 \in 0..MaxDbFaults /\ 0 \in 0..MaxDeaths /\ 0 \in Nat
    BY LongRunAssumption, HeartbeatsFinite
  <2>2. QED
    BY <2>1 DEF LongRunInit, BeatsTyped, RowStatus
<1>2. BeatsFit
  BY LongRunAssumption, FS_EmptySet DEF LongRunInit, BeatsFit
<1>3. RowsNumbered /\ RowsFit
  BY DEF LongRunInit, RowsNumbered, RowsFit, Present, IsAt
<1>4. HandsFit
  BY DEF LongRunInit, HandsFit
<1>5. ExecutionsCounted
  <2>1. \A t \in QueuedTasks : Waiting(t) = {}
    BY DEF LongRunInit, Waiting
  <2>2. QED
    BY <2>1, HeartbeatsFinite, FS_EmptySet DEF LongRunInit, ExecutionsCounted
<1>6. RunningIsAtWork /\ StoppedHasNoBeats
  BY DEF LongRunInit, RunningIsAtWork, StoppedHasNoBeats
<1>7. QED
  BY <1>1, <1>2, <1>3, <1>4, <1>5, <1>6 DEF LongRunInductive

\* The oldest of the tasks to do is there.
LEMMA TaskOfIsToDo ==
    ASSUME BeatsTyped, NEW b \in Heartbeats, toDo[b] # {}
    PROVE  TaskOf(b) \in toDo[b] /\ TaskOf(b) \in QueuedTasks
<1>1. toDo[b] \subseteq QueuedTasks /\ \A t \in QueuedTasks : created[t] \in Nat
  BY HeartbeatsFinite DEF BeatsTyped
<1>2. {created[t] : t \in toDo[b]} \in SUBSET Nat /\ {created[t] : t \in toDo[b]} # {}
  BY <1>1
<1>3. PICK m \in {created[t] : t \in toDo[b]} : \A n \in {created[t] : t \in toDo[b]} : m <= n
  BY <1>2, LeastOf
<1>4. PICK t \in toDo[b] : created[t] = m
  BY <1>3
<1>5. t \in OldestToDo(b) /\ t \in QueuedTasks
  BY <1>1, <1>3, <1>4 DEF OldestToDo
<1>6. TaskOf(b) \in OldestToDo(b) /\ TaskOf(b) \in QueuedTasks
  BY <1>5 DEF TaskOf
<1>7. QED
  BY <1>6 DEF OldestToDo

\* It stays the same while the list does.
LEMMA TaskOfStays ==
    ASSUME NEW b \in Heartbeats, toDo'[b] = toDo[b], \A t \in toDo[b] : created'[t] = created[t]
    PROVE  TaskOf(b)' = TaskOf(b)
<1>1. OldestToDo(b)' = OldestToDo(b)
  BY DEF OldestToDo
<1>2. QED
  BY <1>1 DEF TaskOf

\* A read gives at most MaxAutonomousActions tasks.
LEMMA PendingWithinQuota ==
    ASSUME BeatsTyped, RowsNumbered
    PROVE  /\ PendingTasks \subseteq QueuedTasks
           /\ Cardinality(PendingTasks) <= MaxAutonomousActions
           /\ \A t \in PendingTasks : row[t] = "pending"
<1> DEFINE P == {t \in QueuedTasks : IsPending(t)}
           Older(t) == {u \in P : created[u] < created[t]}
<1>1. /\ PendingTasks = {t \in P : Cardinality(Older(t)) < MaxAutonomousActions}
      /\ P \subseteq QueuedTasks /\ P \subseteq Present /\ \A t \in P : row[t] = "pending"
  BY DEF PendingTasks, IsPending, Present
<1>2. \A t \in QueuedTasks : created[t] \in 0..Cardinality(QueuedTasks)
  BY DEF BeatsTyped
<1>3. Cardinality(QueuedTasks) \in Nat /\ MaxAutonomousActions \in Nat \ {0}
  BY HeartbeatsFinite, LongRunAssumption
<1> HIDE DEF P
<1>4. CASE PendingTasks = {}
  <2>1. Cardinality(PendingTasks) = 0
    BY <1>1, <1>4, HeartbeatsFinite, FS_EmptySet
  <2>2. QED
    BY <1>1, <1>3, <2>1
<1>5. CASE PendingTasks # {}
  <2> DEFINE Back(t) == Cardinality(QueuedTasks) - created[t]
             B == {Back(t) : t \in PendingTasks}
  <2>1. \A t \in PendingTasks : Back(t) \in Nat
    BY <1>1, <1>2, <1>3
  <2>2. B \in SUBSET Nat /\ B # {}
    BY <1>5, <2>1
  <2> HIDE DEF B
  <2>3. PICK m \in B : \A n \in B : m <= n
    BY <2>2, LeastOf
  <2>4. PICK t \in PendingTasks : \A u \in PendingTasks : Back(t) <= Back(u)
    BY <2>3 DEF B
  <2>5. \A u \in PendingTasks : created[u] <= created[t]
    <3> SUFFICES ASSUME NEW u \in PendingTasks PROVE created[u] <= created[t]
      OBVIOUS
    <3>1. created[t] \in Nat /\ created[u] \in Nat /\ Back(t) <= Back(u)
      BY <1>1, <1>2, <2>4
    <3>2. QED
      BY <1>3, <3>1
  <2>6. \A u \in PendingTasks \ {t} : created[u] < created[t]
    <3> SUFFICES ASSUME NEW u \in PendingTasks \ {t} PROVE created[u] < created[t]
      OBVIOUS
    <3>1. created[t] \in Nat /\ created[u] \in Nat /\ created[u] <= created[t]
      BY <1>1, <1>2, <2>5
    <3>2. created[u] # created[t]
      BY <1>1 DEF RowsNumbered
    <3>3. QED
      BY <3>1, <3>2
  <2>7. PendingTasks \ {t} \subseteq Older(t)
    BY <1>1, <2>6
  <2>8. /\ IsFiniteSet(Older(t)) /\ Cardinality(Older(t)) \in Nat
        /\ IsFiniteSet(PendingTasks)
    BY <1>1, HeartbeatsFinite
  <2>9. Cardinality(PendingTasks \ {t}) <= Cardinality(Older(t))
    BY <2>7, <2>8, FS_Subset
  <2>10. Cardinality(PendingTasks \ {t}) = Cardinality(PendingTasks) - 1
         /\ Cardinality(PendingTasks) \in Nat
    BY <2>8, FS_RemoveElement, FS_CardinalityType
  <2>11. Cardinality(Older(t)) < MaxAutonomousActions
    BY <1>1
  <2>12. Cardinality(PendingTasks) <= MaxAutonomousActions
    BY <1>3, <2>8, <2>9, <2>10, <2>11
  <2>13. QED
    BY <1>1, <2>12
<1>6. QED
  BY <1>4, <1>5

\* The tables stay, and who is at what.
LEMMA CalmStep ==
    ASSUME LongRunInductive,
           UNCHANGED <<row, created, toDo, executions, twoHands, deaths>>,
           dbFaults' \in 0..MaxDbFaults, dbFaults <= dbFaults',
           serving' \in BOOLEAN, stopWaits' \in BOOLEAN,
           beatPc' \in [Heartbeats -> {"idle", "enter", "read", "mark", "execute", "save", "items"}],
           took' \in [Heartbeats -> 0..MaxAutonomousActions],
           endedAs' \in [Heartbeats -> {"completed", "failed"}],
           \A b \in Heartbeats :
               /\ beatPc'[b] = "mark" <=> beatPc[b] = "mark"
               /\ beatPc'[b] \in {"execute", "save"} <=> beatPc[b] \in {"execute", "save"}
               /\ beatPc'[b] \in {"idle", "enter", "read"} => took'[b] = 0
               /\ took'[b] <= took[b],
           StoppedHasNoBeats'
    PROVE  LongRunInductive'
<1> USE DEF LongRunInductive
<1>1. BeatsTyped'
  BY DEF BeatsTyped
<1>2. \A b \in Heartbeats, t \in QueuedTasks : IsAt(b, t)' <=> IsAt(b, t)
  BY TaskOfStays DEF IsAt
<1>3. BeatsFit'
  <2> SUFFICES ASSUME NEW b \in Heartbeats
               PROVE  /\ beatPc'[b] \in {"mark", "execute", "save"} <=> toDo'[b] # {}
                      /\ beatPc'[b] \in {"idle", "enter", "read"} => took'[b] = 0
                      /\ took'[b] + Cardinality(toDo'[b]) <= MaxAutonomousActions
    BY DEF BeatsFit
  <2>1. /\ took[b] \in Nat /\ took'[b] \in Nat /\ took'[b] <= took[b]
        /\ Cardinality(toDo[b]) \in Nat /\ MaxAutonomousActions \in Nat
        /\ took[b] + Cardinality(toDo[b]) <= MaxAutonomousActions
    BY HeartbeatsFinite, LongRunAssumption DEF BeatsTyped, BeatsFit
  <2>2. QED
    BY <2>1 DEF BeatsFit
<1>4. RowsNumbered'
  BY DEF RowsNumbered, Present
<1>5. RowsFit'
  BY <1>2 DEF RowsFit
<1>6. HandsFit'
  BY <1>2 DEF HandsFit
<1>7. ExecutionsCounted'
  <2>1. \A t \in QueuedTasks : Waiting(t)' = Waiting(t)
    BY <1>2 DEF Waiting
  <2>2. QED
    BY <2>1 DEF ExecutionsCounted
<1>8. RunningIsAtWork'
  <2> SUFFICES ASSUME NEW t \in QueuedTasks, row'[t] = "running"
               PROVE  deaths' > 0 \/ dbFaults' > 0 \/ \E b \in Heartbeats : IsAt(b, t)'
    BY DEF RunningIsAtWork, IsAt
  <2>1. deaths > 0 \/ dbFaults > 0 \/ \E b \in Heartbeats : IsAt(b, t)
    BY DEF RunningIsAtWork, IsAt
  <2>2. dbFaults > 0 => dbFaults' > 0
    BY DEF BeatsTyped
  <2>3. QED
    BY <1>2, <2>1, <2>2
<1>9. QED
  BY <1>1, <1>3, <1>4, <1>5, <1>6, <1>7, <1>8

LEMMA CalmSteps ==
    ASSUME LongRunInductive,
           \/ StartService \/ StopService \/ ServiceStops
           \/ \E b \in Heartbeats : \/ CronFires(b) \/ NoteLastRun(b) \/ PendingUnread(b)
                                    \/ ExecuteTask(b) \/ ChecklistDone(b)
    PROVE  LongRunInductive'
<1> USE DEF LongRunInductive, taskRowVars, beatVars, historyVars
<1>t. /\ BeatsTyped /\ BeatsFit /\ StoppedHasNoBeats
      /\ 0 \in 0..MaxAutonomousActions /\ MaxDbFaults \in Nat
      /\ \A b \in Heartbeats : took[b] \in Nat /\ dbFaults \in Nat
  BY LongRunAssumption DEF BeatsTyped
<1>1. CASE StartService \/ StopService \/ ServiceStops
  <2>1. UNCHANGED <<row, created, toDo, executions, twoHands, deaths, dbFaults, beatPc, took, endedAs>>
        /\ serving' \in BOOLEAN /\ stopWaits' \in BOOLEAN
    BY <1>1 DEF StartService, StopService, ServiceStops, BeatsTyped
  <2>2. \A c \in Heartbeats : beatPc'[c] \in {"idle", "enter", "read"} => took'[c] = 0
    BY <1>t, <2>1 DEF BeatsFit
  <2>3. StoppedHasNoBeats'
    BY <1>t, <1>1 DEF StartService, StopService, ServiceStops, JobsDone, StoppedHasNoBeats
  <2>4. QED
    BY <1>t, <2>1, <2>2, <2>3, CalmStep DEF BeatsTyped
<1>2. ASSUME NEW b \in Heartbeats, CronFires(b) \/ NoteLastRun(b) \/ ExecuteTask(b)
      PROVE  LongRunInductive'
  <2>1. /\ endedAs' \in [Heartbeats -> {"completed", "failed"}]
        /\ beatPc' \in [Heartbeats -> {"idle", "enter", "read", "mark", "execute", "save", "items"}]
    BY <1>t, <1>2 DEF CronFires, NoteLastRun, ExecuteTask, BeatsTyped
  <2>2. \A c \in Heartbeats :
            /\ beatPc'[c] = "mark" <=> beatPc[c] = "mark"
            /\ beatPc'[c] \in {"execute", "save"} <=> beatPc[c] \in {"execute", "save"}
            /\ beatPc'[c] \in {"idle", "enter", "read"} => took[c] = 0
    BY <1>t, <1>2 DEF CronFires, NoteLastRun, ExecuteTask, BeatsTyped, BeatsFit
  <2>3. /\ UNCHANGED <<row, created, toDo, executions, twoHands, deaths, dbFaults, took,
                       serving, stopWaits>>
    BY <1>2 DEF CronFires, NoteLastRun, ExecuteTask
  <2>4. StoppedHasNoBeats'
    BY <1>t, <1>2 DEF CronFires, NoteLastRun, ExecuteTask, StoppedHasNoBeats
  <2>5. QED
    BY <1>t, <2>1, <2>2, <2>3, <2>4, CalmStep DEF BeatsTyped
<1>3. ASSUME NEW b \in Heartbeats, PendingUnread(b) PROVE LongRunInductive'
  <2>1. /\ beatPc' \in [Heartbeats -> {"idle", "enter", "read", "mark", "execute", "save", "items"}]
        /\ dbFaults' \in 0..MaxDbFaults /\ dbFaults <= dbFaults'
    BY <1>t, <1>3 DEF PendingUnread, BeatsTyped
  <2>2. \A c \in Heartbeats :
            /\ beatPc'[c] = "mark" <=> beatPc[c] = "mark"
            /\ beatPc'[c] \in {"execute", "save"} <=> beatPc[c] \in {"execute", "save"}
            /\ beatPc'[c] \in {"idle", "enter", "read"} => took[c] = 0
    BY <1>t, <1>3 DEF PendingUnread, BeatsTyped, BeatsFit
  <2>3. UNCHANGED <<row, created, toDo, executions, twoHands, deaths, took, serving, stopWaits, endedAs>>
    BY <1>3 DEF PendingUnread
  <2>4. StoppedHasNoBeats'
    BY <1>t, <1>3 DEF PendingUnread, StoppedHasNoBeats
  <2>5. QED
    BY <1>t, <2>1, <2>2, <2>3, <2>4, CalmStep DEF BeatsTyped
<1>4. ASSUME NEW b \in Heartbeats, ChecklistDone(b) PROVE LongRunInductive'
  <2>1. /\ beatPc' \in [Heartbeats -> {"idle", "enter", "read", "mark", "execute", "save", "items"}]
        /\ took' \in [Heartbeats -> 0..MaxAutonomousActions]
    BY <1>t, <1>4 DEF ChecklistDone, BeatsTyped
  <2>2. \A c \in Heartbeats :
            /\ beatPc'[c] = "mark" <=> beatPc[c] = "mark"
            /\ beatPc'[c] \in {"execute", "save"} <=> beatPc[c] \in {"execute", "save"}
            /\ beatPc'[c] \in {"idle", "enter", "read"} => took'[c] = 0
            /\ took'[c] <= took[c]
    BY <1>t, <1>4 DEF ChecklistDone, BeatsTyped, BeatsFit
  <2>3. UNCHANGED <<row, created, toDo, executions, twoHands, deaths, dbFaults, serving, stopWaits, endedAs>>
    BY <1>4 DEF ChecklistDone
  <2>4. StoppedHasNoBeats'
    BY <1>t, <1>4 DEF ChecklistDone, StoppedHasNoBeats, BeatsTyped
  <2>5. QED
    BY <1>t, <2>1, <2>2, <2>3, <2>4, CalmStep DEF BeatsTyped
<1>5. QED
  BY <1>1, <1>2, <1>3, <1>4

LEMMA DeathStep == ASSUME LongRunInductive, ProcessDies PROVE LongRunInductive'
<1> USE DEF LongRunInductive, taskRowVars, historyVars
<1>t. /\ deaths' \in 0..MaxDeaths /\ deaths' > 0 /\ 0 \in 0..MaxAutonomousActions
      /\ UNCHANGED <<row, created, dbFaults, executions, twoHands>>
      /\ \A b \in Heartbeats : beatPc'[b] = "idle" /\ toDo'[b] = {} /\ took'[b] = 0
  BY LongRunAssumption DEF ProcessDies, NoBeats, BeatsTyped
<1>1. BeatsTyped'
  BY <1>t DEF ProcessDies, NoBeats, BeatsTyped
<1>2. BeatsFit'
  <2>1. \A S : S = {} => Cardinality(S) = 0
    BY FS_EmptySet
  <2>2. \A b \in Heartbeats : Cardinality(toDo'[b]) = 0
    BY <1>t, <2>1
  <2>3. \A b \in Heartbeats : took'[b] + Cardinality(toDo'[b]) <= MaxAutonomousActions
    BY <1>t, <2>2, LongRunAssumption
  <2>4. QED
    BY <1>t, <2>3 DEF BeatsFit
<1>3. RowsNumbered'
  BY <1>t DEF RowsNumbered, Present
<1>4. \A b \in Heartbeats, t \in QueuedTasks : ~IsAt(b, t)'
  BY <1>t DEF IsAt
<1>5. RowsFit' /\ HandsFit'
  BY <1>t, <1>4 DEF RowsFit, HandsFit
<1>6. ExecutionsCounted'
  <2>1. \A t \in QueuedTasks : Waiting(t)' = {} /\ Waiting(t) \subseteq Heartbeats
    BY <1>t DEF Waiting
  <2>2. \A t \in QueuedTasks : executions[t] <= Cardinality(Heartbeats)
    <3> SUFFICES ASSUME NEW t \in QueuedTasks PROVE executions[t] <= Cardinality(Heartbeats)
      OBVIOUS
    <3>1. /\ Cardinality(Waiting(t)) \in Nat /\ executions[t] \in Nat /\ Cardinality(Heartbeats) \in Nat
          /\ executions[t] + Cardinality(Waiting(t)) <= Cardinality(Heartbeats)
      BY <2>1, HeartbeatsFinite DEF BeatsTyped, ExecutionsCounted
    <3>2. QED
      BY <3>1
  <2>3. \A S : S = {} => Cardinality(S) = 0
    BY FS_EmptySet
  <2>4. \A t \in QueuedTasks : Cardinality(Waiting(t)') = 0
    BY <2>1, <2>3
  <2>5. \A t \in QueuedTasks : executions'[t] = executions[t] /\ executions[t] \in Nat
    BY <1>t DEF BeatsTyped
  <2>6. \A t \in QueuedTasks : executions'[t] + Cardinality(Waiting(t)') <= Cardinality(Heartbeats)
    BY <2>2, <2>4, <2>5
  <2>7. QED
    BY <2>6 DEF ExecutionsCounted
<1>7. RunningIsAtWork' /\ StoppedHasNoBeats'
  BY <1>t DEF RunningIsAtWork, StoppedHasNoBeats
<1>8. QED
  BY <1>1, <1>2, <1>3, <1>5, <1>6, <1>7

\* A row that no heartbeat has read is inserted, or becomes due.
LEMMA RowComes ==
    ASSUME LongRunInductive, NEW t \in QueuedTasks,
           row[t] \in {"absent", "later"}, NEW s \in {"later", "pending"},
           row' = [row EXCEPT ![t] = s],
           created' \in [QueuedTasks -> 0..Cardinality(QueuedTasks)],
           \A u \in QueuedTasks \ {t} : created'[u] = created[u],
           RowsNumbered',
           UNCHANGED <<serving, stopWaits, beatVars, dbFaults, deaths, historyVars>>
    PROVE  LongRunInductive'
<1> USE DEF LongRunInductive, beatVars, historyVars
<1>1. BeatsTyped'
  BY DEF BeatsTyped, RowStatus
<1>2. row'[t] = s /\ (\A u \in QueuedTasks \ {t} : row'[u] = row[u])
      /\ \A b \in Heartbeats : t \notin toDo[b]
  BY DEF BeatsTyped, RowsFit
<1>3. \A b \in Heartbeats, u \in QueuedTasks : IsAt(b, u)' <=> IsAt(b, u)
  <2>1. \A b \in Heartbeats : TaskOf(b)' = TaskOf(b)
    BY <1>2, TaskOfStays DEF BeatsTyped
  <2>2. QED
    BY <2>1 DEF IsAt
<1>4. BeatsFit'
  BY DEF BeatsFit
<1>5. RowsFit'
  BY <1>2, <1>3 DEF RowsFit
<1>6. HandsFit'
  BY <1>2, <1>3 DEF HandsFit
<1>7. ExecutionsCounted'
  <2>1. \A u \in QueuedTasks : Waiting(u)' = Waiting(u)
    BY <1>3 DEF Waiting
  <2>2. QED
    BY <2>1 DEF ExecutionsCounted
<1>8. RunningIsAtWork'
  <2> SUFFICES ASSUME NEW u \in QueuedTasks, row'[u] = "running"
               PROVE  deaths' > 0 \/ dbFaults' > 0 \/ \E b \in Heartbeats : IsAt(b, u)'
    BY DEF RunningIsAtWork, IsAt
  <2>1. row[u] = "running"
    BY <1>2
  <2>2. deaths > 0 \/ dbFaults > 0 \/ \E b \in Heartbeats : IsAt(b, u)
    BY <2>1 DEF RunningIsAtWork, IsAt
  <2>3. QED
    BY <1>3, <2>2
<1>9. StoppedHasNoBeats'
  BY DEF StoppedHasNoBeats
<1>10. QED
  BY <1>1, <1>4, <1>5, <1>6, <1>7, <1>8, <1>9

LEMMA TableSteps ==
    ASSUME LongRunInductive, NEW t \in QueuedTasks,
           ScheduledTimeComes(t) \/ \E scheduled \in BOOLEAN : AddTask(t, scheduled)
    PROVE  LongRunInductive'
<1> USE DEF LongRunInductive
<1>1. CASE ScheduledTimeComes(t)
  <2>1. Present' = Present /\ created' = created
    BY <1>1 DEF ScheduledTimeComes, Present, BeatsTyped
  <2>2. RowsNumbered'
    BY <2>1 DEF RowsNumbered
  <2>3. QED
    BY <1>1, <2>1, <2>2, RowComes DEF ScheduledTimeComes, BeatsTyped
<1>2. CASE \E scheduled \in BOOLEAN : AddTask(t, scheduled)
  <2>1. PICK s \in {"later", "pending"} :
            /\ row[t] = "absent" /\ row' = [row EXCEPT ![t] = s]
            /\ created' = [created EXCEPT ![t] = Cardinality(Present) + 1]
            /\ UNCHANGED <<serving, stopWaits, beatVars, dbFaults, deaths, historyVars>>
    BY <1>2 DEF AddTask, Present
  <2>2. Present' = Present \cup {t} /\ t \notin Present /\ Present \subseteq QueuedTasks
    BY <2>1 DEF Present, BeatsTyped
  <2>3. Cardinality(Present \cup {t}) = Cardinality(Present) + 1
    BY <2>2, HeartbeatsFinite, FS_AddElement
  <2>4. Cardinality(Present) \in Nat /\ Cardinality(Present) + 1 <= Cardinality(QueuedTasks)
        /\ Cardinality(QueuedTasks) \in Nat
    <3>1. Present \cup {t} \subseteq QueuedTasks
      BY <2>2
    <3>2. QED
      BY <2>2, <2>3, <3>1, HeartbeatsFinite
  <2>5. created' \in [QueuedTasks -> 0..Cardinality(QueuedTasks)]
    <3>1. Cardinality(Present) + 1 \in 0..Cardinality(QueuedTasks)
      BY <2>4
    <3>2. QED
      BY <2>1, <3>1 DEF BeatsTyped
  <2>6. created'[t] = Cardinality(Present) + 1
        /\ \A u \in QueuedTasks \ {t} : created'[u] = created[u]
    BY <2>1 DEF BeatsTyped
  <2>7. RowsNumbered'
    <3>1. \A u \in Present : created[u] \in Nat /\ created[u] <= Cardinality(Present)
      BY <2>4 DEF RowsNumbered, BeatsTyped, Present
    <3>2. \A u \in Present' : created'[u] <= Cardinality(Present) + 1
      BY <2>2, <2>4, <2>6, <3>1
    <3>3. \A u \in Present : created'[u] # created'[t]
      BY <2>2, <2>4, <2>6, <3>1
    <3>4. QED
      BY <2>2, <2>3, <2>6, <3>2, <3>3 DEF RowsNumbered
  <2>8. QED
    BY <2>1, <2>5, <2>6, <2>7, RowComes
<1>3. QED
  BY <1>1, <1>2

\* The heartbeat turns to the next task, within its quota.
LEMMA GoOnStep ==
    ASSUME BeatsTyped, BeatsFit, NEW b \in Heartbeats, toDo[b] # {},
           NEW n \in {took[b], took[b] + 1}, GoOn(b, n)
    PROVE  /\ TaskOf(b) \in toDo[b]
           /\ toDo' \in [Heartbeats -> SUBSET QueuedTasks]
           /\ took' \in [Heartbeats -> 0..MaxAutonomousActions]
           /\ beatPc' \in [Heartbeats -> {"idle", "enter", "read", "mark", "execute", "save", "items"}]
           /\ toDo'[b] = toDo[b] \ {TaskOf(b)}
           /\ beatPc'[b] \notin {"execute", "save"}
           /\ \A c \in Heartbeats \ {b} :
                  toDo'[c] = toDo[c] /\ beatPc'[c] = beatPc[c] /\ took'[c] = took[c]
           /\ BeatsFit'
<1> DEFINE left == toDo[b] \ {TaskOf(b)}
<1>1. TaskOf(b) \in toDo[b] /\ toDo[b] \in SUBSET QueuedTasks
  BY TaskOfIsToDo DEF BeatsTyped
<1>2. /\ IsFiniteSet(toDo[b]) /\ Cardinality(toDo[b]) \in Nat
      /\ IsFiniteSet(left) /\ Cardinality(left) \in Nat
  BY <1>1, HeartbeatsFinite
<1>3. Cardinality(left) = Cardinality(toDo[b]) - 1
  BY <1>1, <1>2, FS_RemoveElement
<1>4. /\ took[b] \in Nat /\ n \in Nat /\ MaxAutonomousActions \in Nat
      /\ took[b] + Cardinality(toDo[b]) <= MaxAutonomousActions
  BY LongRunAssumption DEF BeatsTyped, BeatsFit
<1>5. n + Cardinality(left) <= MaxAutonomousActions /\ n \in 0..MaxAutonomousActions
  BY <1>2, <1>3, <1>4
<1>6. left \in SUBSET QueuedTasks /\ 0 \in 0..MaxAutonomousActions
  BY <1>1, <1>4
<1> HIDE DEF left
<1>7. toDo' = [toDo EXCEPT ![b] = left]
      /\ \/ /\ left = {} /\ n = MaxAutonomousActions
            /\ beatPc' = [beatPc EXCEPT ![b] = "idle"] /\ took' = [took EXCEPT ![b] = 0]
         \/ /\ beatPc' = [beatPc EXCEPT ![b] = IF left = {} THEN "items" ELSE "mark"]
            /\ took' = [took EXCEPT ![b] = n]
  BY DEF GoOn, left
<1>8. /\ toDo' \in [Heartbeats -> SUBSET QueuedTasks]
      /\ took' \in [Heartbeats -> 0..MaxAutonomousActions]
      /\ beatPc' \in [Heartbeats -> {"idle", "enter", "read", "mark", "execute", "save", "items"}]
  BY <1>5, <1>6, <1>7 DEF BeatsTyped
<1>9. /\ toDo'[b] = left
      /\ \A c \in Heartbeats \ {b} :
             toDo'[c] = toDo[c] /\ beatPc'[c] = beatPc[c] /\ took'[c] = took[c]
      /\ \/ left = {} /\ beatPc'[b] = "idle" /\ took'[b] = 0
         \/ left = {} /\ beatPc'[b] = "items" /\ took'[b] = n
         \/ left # {} /\ beatPc'[b] = "mark" /\ took'[b] = n
  BY <1>7 DEF BeatsTyped
<1>10. BeatsFit'
  <2> SUFFICES ASSUME NEW c \in Heartbeats
               PROVE  /\ beatPc'[c] \in {"mark", "execute", "save"} <=> toDo'[c] # {}
                      /\ beatPc'[c] \in {"idle", "enter", "read"} => took'[c] = 0
                      /\ took'[c] + Cardinality(toDo'[c]) <= MaxAutonomousActions
    BY DEF BeatsFit
  <2>1. CASE c # b
    BY <1>9, <2>1 DEF BeatsFit
  <2>2. CASE c = b
    <3>1. Cardinality(toDo'[b]) = Cardinality(left)
      BY <1>9
    <3>2. took'[b] + Cardinality(toDo'[b]) <= MaxAutonomousActions
      BY <1>2, <1>4, <1>5, <1>9, <3>1
    <3>3. /\ beatPc'[b] \in {"mark", "execute", "save"} <=> toDo'[b] # {}
          /\ beatPc'[b] \in {"idle", "enter", "read"} => took'[b] = 0
      BY <1>9
    <3>4. QED
      BY <2>2, <3>2, <3>3
  <2>3. QED
    BY <2>1, <2>2
<1>11. QED
  BY <1>1, <1>8, <1>9, <1>10 DEF left

\* A heartbeat leaves its task as it was, after a failing statement, or with its outcome.
LEMMA LeaveTask ==
    ASSUME LongRunInductive, NEW b \in Heartbeats, beatPc[b] \in {"mark", "save"},
           NEW n \in {took[b], took[b] + 1}, GoOn(b, n),
           row' \in [QueuedTasks -> RowStatus],
           \A u \in QueuedTasks : u # TaskOf(b) => row'[u] = row[u],
           \/ row' = row /\ dbFaults' > 0
           \/ /\ beatPc[b] = "save" /\ row'[TaskOf(b)] \in {"completed", "failed"}
              /\ dbFaults' = dbFaults,
           dbFaults' \in 0..MaxDbFaults,
           endedAs' \in [Heartbeats -> {"completed", "failed"}],
           UNCHANGED <<serving, stopWaits, created, deaths, executions, twoHands>>
    PROVE  LongRunInductive'
<1> USE DEF LongRunInductive
<1>1. toDo[b] # {}
  BY DEF BeatsFit
<1>2. /\ TaskOf(b) \in toDo[b] /\ TaskOf(b) \in QueuedTasks
      /\ toDo' \in [Heartbeats -> SUBSET QueuedTasks]
      /\ took' \in [Heartbeats -> 0..MaxAutonomousActions]
      /\ beatPc' \in [Heartbeats -> {"idle", "enter", "read", "mark", "execute", "save", "items"}]
      /\ toDo'[b] = toDo[b] \ {TaskOf(b)}
      /\ beatPc'[b] \notin {"execute", "save"}
      /\ \A c \in Heartbeats \ {b} :
             toDo'[c] = toDo[c] /\ beatPc'[c] = beatPc[c] /\ took'[c] = took[c]
      /\ BeatsFit'
  BY <1>1, TaskOfIsToDo, GoOnStep
<1>3. BeatsTyped'
  BY <1>2 DEF BeatsTyped
<1>4. \A c \in Heartbeats \ {b}, u \in QueuedTasks : IsAt(c, u)' <=> IsAt(c, u)
  BY <1>2, TaskOfStays DEF IsAt
<1>5. \A u \in QueuedTasks : /\ ~IsAt(b, u)'
                             /\ u # TaskOf(b) => ~IsAt(b, u)
                             /\ beatPc[b] = "mark" => ~IsAt(b, u)
  BY <1>2 DEF IsAt
<1>6. beatPc[b] = "save" => row[TaskOf(b)] \notin {"absent", "later", "pending"}
  BY <1>2 DEF IsAt, RowsFit
<1>7. \A u \in QueuedTasks :
          /\ row'[u] \in {"absent", "later", "pending"} <=> row[u] \in {"absent", "later", "pending"}
          /\ row'[u] \in {"absent", "later"} <=> row[u] \in {"absent", "later"}
          /\ row'[u] = "absent" <=> row[u] = "absent"
          /\ row'[u] = "running" => row[u] = "running"
  BY <1>2, <1>6
<1>8. RowsNumbered'
  <2>1. Present' = Present
    BY <1>7 DEF Present
  <2>2. QED
    BY <2>1 DEF RowsNumbered
<1>9. \A c \in Heartbeats : toDo'[c] \subseteq toDo[c]
  BY <1>2
<1>10. RowsFit'
  BY <1>4, <1>5, <1>7, <1>9 DEF RowsFit
<1>11. HandsFit'
  <2>1. \A t \in QueuedTasks : \A c, d \in Heartbeats :
            c # d /\ t \in toDo'[c] /\ t \in toDo'[d] => t \in twoHands'
    BY <1>9 DEF HandsFit
  <2>2. ASSUME NEW t \in QueuedTasks \ twoHands', NEW c \in Heartbeats, t \in toDo'[c]
        PROVE  row'[t] = IF IsAt(c, t)' THEN "running" ELSE "pending"
    <3>1. t \in QueuedTasks \ twoHands /\ t \in toDo[c]
      BY <1>9, <2>2
    <3>2. row[t] = IF IsAt(c, t) THEN "running" ELSE "pending"
      BY <3>1 DEF HandsFit
    <3>3. t # TaskOf(b)
      BY <1>2, <2>2, <3>1 DEF HandsFit
    <3>4. row'[t] = row[t] /\ (IsAt(c, t)' <=> IsAt(c, t))
      BY <1>4, <1>5, <3>3
    <3>5. QED
      BY <3>2, <3>4
  <2>3. QED
    BY <2>1, <2>2 DEF HandsFit
<1>12. ExecutionsCounted'
  <2> SUFFICES ASSUME NEW t \in QueuedTasks
               PROVE  executions'[t] + Cardinality(Waiting(t)') <= Cardinality(Heartbeats)
    BY DEF ExecutionsCounted
  <2>1. ASSUME NEW c \in Waiting(t)' PROVE c \in Waiting(t)
    <3>1. c \in Heartbeats /\ t \in toDo'[c] /\ t \in toDo[c] /\ ~IsAt(c, t)'
      BY <1>9, <2>1 DEF Waiting
    <3>2. c = b => t # TaskOf(b)
      BY <1>2, <3>1
    <3>3. ~IsAt(c, t)
      BY <1>4, <1>5, <3>1, <3>2
    <3>4. QED
      BY <3>1, <3>3 DEF Waiting
  <2>2. Waiting(t)' \subseteq Waiting(t) /\ Waiting(t) \subseteq Heartbeats
    BY <2>1 DEF Waiting
  <2>3. /\ Cardinality(Waiting(t)') <= Cardinality(Waiting(t))
        /\ Cardinality(Waiting(t)') \in Nat /\ Cardinality(Waiting(t)) \in Nat
    <3>1. IsFiniteSet(Waiting(t)) /\ Cardinality(Waiting(t)) \in Nat
      BY <2>2, HeartbeatsFinite
    <3>2. QED
      BY <2>2, <3>1, FS_Subset, FS_CardinalityType
  <2>4. /\ executions[t] + Cardinality(Waiting(t)) <= Cardinality(Heartbeats)
        /\ executions'[t] = executions[t] /\ executions[t] \in Nat
        /\ Cardinality(Heartbeats) \in Nat
    BY HeartbeatsFinite DEF ExecutionsCounted, BeatsTyped
  <2>5. QED
    BY <2>3, <2>4
<1>13. RunningIsAtWork'
  <2> SUFFICES ASSUME NEW t \in QueuedTasks, row'[t] = "running", ~(dbFaults' > 0), ~(deaths' > 0)
               PROVE  \E c \in Heartbeats : IsAt(c, t)'
    BY DEF RunningIsAtWork, IsAt
  <2>1. row'[TaskOf(b)] \in {"completed", "failed"} /\ dbFaults' = dbFaults
    OBVIOUS
  <2>2. t # TaskOf(b) /\ row[t] = "running"
    BY <1>7, <2>1
  <2>3. PICK c \in Heartbeats : IsAt(c, t)
    BY <2>1, <2>2 DEF RunningIsAtWork, IsAt
  <2>4. c # b
    BY <1>5, <2>2, <2>3
  <2>5. QED
    BY <1>4, <2>3, <2>4
<1>14. StoppedHasNoBeats'
  BY DEF StoppedHasNoBeats
<1>15. QED
  BY <1>2, <1>3, <1>8, <1>10, <1>11, <1>12, <1>13, <1>14

LEMMA ReadStep ==
    ASSUME LongRunInductive, NEW b \in Heartbeats, ReadPending(b)
    PROVE  LongRunInductive'
<1> USE DEF LongRunInductive, taskRowVars
<1>1. /\ beatPc[b] = "read" /\ toDo' = [toDo EXCEPT ![b] = PendingTasks]
      /\ beatPc' = [beatPc EXCEPT ![b] = IF PendingTasks = {} THEN "items" ELSE "mark"]
      /\ twoHands' = twoHands \cup
             {t \in PendingTasks : \E other \in Heartbeats \ {b} : t \in toDo[other]}
      /\ UNCHANGED <<serving, stopWaits, row, created, took, endedAs, dbFaults, deaths, executions>>
  BY DEF ReadPending
<1>2. /\ PendingTasks \subseteq QueuedTasks /\ Cardinality(PendingTasks) <= MaxAutonomousActions
      /\ \A t \in PendingTasks : row[t] = "pending"
  BY PendingWithinQuota
<1>3. BeatsTyped'
  BY <1>1, <1>2 DEF BeatsTyped
<1>4. /\ toDo[b] = {} /\ took[b] = 0
      /\ toDo'[b] = PendingTasks /\ beatPc'[b] = IF PendingTasks = {} THEN "items" ELSE "mark"
      /\ \A c \in Heartbeats \ {b} : toDo'[c] = toDo[c] /\ beatPc'[c] = beatPc[c]
  BY <1>1 DEF BeatsTyped, BeatsFit
<1>5. /\ \A c \in Heartbeats \ {b}, u \in QueuedTasks : IsAt(c, u)' <=> IsAt(c, u)
      /\ \A u \in QueuedTasks : ~IsAt(b, u)' /\ ~IsAt(b, u)
  BY <1>1, <1>4, TaskOfStays DEF IsAt
<1>6. BeatsFit'
  <2> SUFFICES ASSUME NEW c \in Heartbeats
               PROVE  /\ beatPc'[c] \in {"mark", "execute", "save"} <=> toDo'[c] # {}
                      /\ beatPc'[c] \in {"idle", "enter", "read"} => took'[c] = 0
                      /\ took'[c] + Cardinality(toDo'[c]) <= MaxAutonomousActions
    BY DEF BeatsFit
  <2>1. CASE c # b
    BY <1>1, <1>4, <2>1 DEF BeatsFit
  <2>2. CASE c = b
    <3>1. Cardinality(toDo'[b]) = Cardinality(PendingTasks) /\ Cardinality(PendingTasks) \in Nat
      BY <1>2, <1>4, HeartbeatsFinite
    <3>2. took'[b] = 0
      BY <1>1, <1>4
    <3>3. took'[b] + Cardinality(toDo'[b]) <= MaxAutonomousActions
      BY <1>2, <3>1, <3>2, LongRunAssumption
    <3>4. QED
      BY <1>4, <2>2, <3>2, <3>3
  <2>3. QED
    BY <2>1, <2>2
<1>7. RowsNumbered'
  BY <1>1 DEF RowsNumbered, Present
<1>8. RowsFit'
  BY <1>1, <1>2, <1>4, <1>5 DEF RowsFit
<1>9. HandsFit'
  <2>1. ASSUME NEW t \in QueuedTasks, NEW c \in Heartbeats, NEW d \in Heartbeats,
               c # d, t \in toDo'[c], t \in toDo'[d]
        PROVE  t \in twoHands'
    <3>1. CASE c = b
      BY <1>1, <1>4, <2>1, <3>1
    <3>2. CASE d = b
      BY <1>1, <1>4, <2>1, <3>2
    <3>3. CASE c # b /\ d # b
      BY <1>1, <1>4, <2>1, <3>3 DEF HandsFit
    <3>4. QED
      BY <3>1, <3>2, <3>3
  <2>2. ASSUME NEW t \in QueuedTasks \ twoHands'
        PROVE  /\ executions'[t] <= 1
               /\ \A c \in Heartbeats :
                      t \in toDo'[c] => row'[t] = IF IsAt(c, t)' THEN "running" ELSE "pending"
    <3>1. t \in QueuedTasks \ twoHands
      BY <1>1, <2>2
    <3>2. executions'[t] <= 1
      BY <1>1, <3>1 DEF HandsFit
    <3>3. ASSUME NEW c \in Heartbeats, t \in toDo'[c]
          PROVE  row'[t] = IF IsAt(c, t)' THEN "running" ELSE "pending"
      <4>1. CASE c = b
        BY <1>1, <1>2, <1>4, <1>5, <3>3, <4>1
      <4>2. CASE c # b
        BY <1>1, <1>4, <1>5, <3>1, <3>3, <4>2 DEF HandsFit
      <4>3. QED
        BY <4>1, <4>2
    <3>4. QED
      BY <3>2, <3>3
  <2>3. QED
    BY <2>1, <2>2 DEF HandsFit
<1>10. ExecutionsCounted'
  <2> SUFFICES ASSUME NEW t \in QueuedTasks
               PROVE  executions'[t] + Cardinality(Waiting(t)') <= Cardinality(Heartbeats)
    BY DEF ExecutionsCounted
  <2>1. /\ executions'[t] = executions[t] /\ executions[t] \in Nat
        /\ Cardinality(Heartbeats) \in Nat
    BY <1>1, HeartbeatsFinite DEF BeatsTyped
  <2>2. CASE t \in PendingTasks
    <3>1. executions[t] = 0
      BY <1>2, <2>2 DEF RowsFit
    <3>2. Waiting(t)' \subseteq Heartbeats
      BY DEF Waiting
    <3>3. Cardinality(Waiting(t)') <= Cardinality(Heartbeats) /\ Cardinality(Waiting(t)') \in Nat
      BY <3>2, HeartbeatsFinite
    <3>4. QED
      BY <2>1, <3>1, <3>3
  <2>3. CASE t \notin PendingTasks
    <3>1. \A c \in Heartbeats : t \in toDo'[c] <=> t \in toDo[c]
      BY <1>4, <2>3
    <3>2. \A c \in Heartbeats : IsAt(c, t)' <=> IsAt(c, t)
      BY <1>5
    <3>3. Waiting(t)' = Waiting(t)
      BY <3>1, <3>2 DEF Waiting
    <3>4. QED
      BY <2>1, <3>3 DEF ExecutionsCounted
  <2>4. QED
    BY <2>2, <2>3
<1>11. RunningIsAtWork'
  <2> SUFFICES ASSUME NEW t \in QueuedTasks, row'[t] = "running", ~(dbFaults' > 0), ~(deaths' > 0)
               PROVE  \E c \in Heartbeats : IsAt(c, t)'
    BY DEF RunningIsAtWork, IsAt
  <2>1. PICK c \in Heartbeats : IsAt(c, t)
    BY <1>1 DEF RunningIsAtWork, IsAt
  <2>2. QED
    BY <1>5, <2>1
<1>12. StoppedHasNoBeats'
  BY <1>1, <1>4 DEF StoppedHasNoBeats
<1>13. QED
  BY <1>3, <1>6, <1>7, <1>8, <1>9, <1>10, <1>11, <1>12

\* The heartbeat marks its task and begins it.
LEMMA BeginTask ==
    ASSUME LongRunInductive, NEW b \in Heartbeats, beatPc[b] = "mark",
           row' = [row EXCEPT ![TaskOf(b)] = "running"],
           beatPc' = [beatPc EXCEPT ![b] = "execute"],
           executions' = [executions EXCEPT ![TaskOf(b)] = @ + 1],
           UNCHANGED <<serving, stopWaits, created, toDo, took, endedAs, dbFaults, deaths, twoHands>>
    PROVE  LongRunInductive'
<1> USE DEF LongRunInductive
<1>1. PICK t \in QueuedTasks : t \in toDo[b] /\ t = TaskOf(b)
  BY TaskOfIsToDo DEF BeatsFit
<1>2. /\ row' = [row EXCEPT ![t] = "running"] /\ executions' = [executions EXCEPT ![t] = @ + 1]
      /\ TaskOf(b) = t
  BY <1>1
<1>3. /\ row'[t] = "running" /\ executions[t] \in Nat /\ executions'[t] = executions[t] + 1
      /\ \A u \in QueuedTasks \ {t} : row'[u] = row[u] /\ executions'[u] = executions[u]
      /\ beatPc'[b] = "execute" /\ \A c \in Heartbeats \ {b} : beatPc'[c] = beatPc[c]
  BY <1>1, <1>2 DEF BeatsTyped
<1>4. BeatsTyped'
  <2>1. executions' \in [QueuedTasks -> Nat]
    BY <1>1, <1>2, <1>3 DEF BeatsTyped
  <2>2. QED
    BY <1>1, <1>2, <2>1 DEF BeatsTyped, RowStatus
<1>5. /\ \A c \in Heartbeats \ {b}, u \in QueuedTasks : IsAt(c, u)' <=> IsAt(c, u)
      /\ \A u \in QueuedTasks : (IsAt(b, u)' <=> u = t) /\ ~IsAt(b, u)
  <2>1. \A c \in Heartbeats : TaskOf(c)' = TaskOf(c)
    BY TaskOfStays
  <2>2. QED
    BY <1>2, <1>3, <2>1 DEF IsAt
<1>6. BeatsFit'
  BY <1>1, <1>3 DEF BeatsFit
<1>7. row[t] \notin {"absent", "later"}
  BY <1>1 DEF RowsFit
<1>8. RowsNumbered'
  <2>1. Present' = Present
    BY <1>3, <1>7 DEF Present
  <2>2. QED
    BY <2>1 DEF RowsNumbered
<1>9. RowsFit'
  <2> SUFFICES ASSUME NEW u \in QueuedTasks
               PROVE  /\ row'[u] \in {"absent", "later", "pending"} <=> executions'[u] = 0
                      /\ row'[u] \in {"absent", "later"} => \A c \in Heartbeats : u \notin toDo'[c]
                      /\ row'[u] \in {"absent", "later", "pending"} =>
                             \A c \in Heartbeats : ~IsAt(c, u)'
    BY DEF RowsFit
  <2>1. CASE u = t
    BY <1>3, <2>1
  <2>2. CASE u # t
    BY <1>3, <1>5, <2>2 DEF RowsFit
  <2>3. QED
    BY <2>1, <2>2
<1>10. HandsFit'
  <2>1. \A u \in QueuedTasks : \A c, d \in Heartbeats :
            c # d /\ u \in toDo'[c] /\ u \in toDo'[d] => u \in twoHands'
    BY DEF HandsFit
  <2>2. ASSUME NEW u \in QueuedTasks \ twoHands'
        PROVE  /\ executions'[u] <= 1
               /\ \A c \in Heartbeats :
                      u \in toDo'[c] => row'[u] = IF IsAt(c, u)' THEN "running" ELSE "pending"
    <3>1. CASE u = t
      <4>1. row[t] = "pending"
        BY <1>1, <1>5, <2>2, <3>1 DEF HandsFit
      <4>2. executions'[t] = 1
        BY <1>1, <1>3, <4>1 DEF RowsFit
      <4>3. \A c \in Heartbeats : t \in toDo'[c] => c = b
        BY <1>1, <2>2, <3>1 DEF HandsFit
      <4>4. QED
        BY <1>1, <1>3, <1>5, <3>1, <4>2, <4>3
    <3>2. CASE u # t
      <4>1. \A c \in Heartbeats : IsAt(c, u)' <=> IsAt(c, u)
        BY <1>5, <3>2
      <4>2. QED
        BY <1>3, <2>2, <3>2, <4>1 DEF HandsFit
    <3>3. QED
      BY <3>1, <3>2
  <2>3. QED
    BY <2>1, <2>2 DEF HandsFit
<1>11. ExecutionsCounted'
  <2> SUFFICES ASSUME NEW u \in QueuedTasks
               PROVE  executions'[u] + Cardinality(Waiting(u)') <= Cardinality(Heartbeats)
    BY DEF ExecutionsCounted
  <2>1. CASE u = t
    <3>1. Waiting(t)' = Waiting(t) \ {b} /\ b \in Waiting(t) /\ Waiting(t) \subseteq Heartbeats
      BY <1>1, <1>5 DEF Waiting
    <3>2. IsFiniteSet(Waiting(t)) /\ Cardinality(Waiting(t)) \in Nat
      BY <3>1, HeartbeatsFinite
    <3>3. Cardinality(Waiting(t) \ {b}) = Cardinality(Waiting(t)) - 1
      BY <3>1, <3>2, FS_RemoveElement
    <3>4. /\ executions[t] + Cardinality(Waiting(t)) <= Cardinality(Heartbeats)
          /\ Cardinality(Heartbeats) \in Nat
      BY <1>1, HeartbeatsFinite DEF ExecutionsCounted
    <3>5. executions'[t] + Cardinality(Waiting(t)') <= Cardinality(Heartbeats)
      BY <1>3, <3>1, <3>2, <3>3, <3>4
    <3>6. QED
      BY <2>1, <3>5
  <2>2. CASE u # t
    <3>1. Waiting(u)' = Waiting(u)
      BY <1>5, <2>2 DEF Waiting
    <3>2. QED
      BY <1>3, <2>2, <3>1 DEF ExecutionsCounted
  <2>3. QED
    BY <2>1, <2>2
<1>12. RunningIsAtWork'
  <2> SUFFICES ASSUME NEW u \in QueuedTasks, row'[u] = "running", ~(dbFaults' > 0), ~(deaths' > 0)
               PROVE  \E c \in Heartbeats : IsAt(c, u)'
    BY DEF RunningIsAtWork, IsAt
  <2>1. CASE u = t
    BY <1>5, <2>1
  <2>2. CASE u # t
    <3>1. PICK c \in Heartbeats : IsAt(c, u)
      BY <1>3, <2>2 DEF RunningIsAtWork, IsAt
    <3>2. QED
      BY <1>5, <3>1
  <2>3. QED
    BY <2>1, <2>2
<1>13. StoppedHasNoBeats'
  BY DEF StoppedHasNoBeats
<1>14. QED
  BY <1>4, <1>6, <1>8, <1>9, <1>10, <1>11, <1>12, <1>13

LEMMA MarkStep ==
    ASSUME LongRunInductive, NEW b \in Heartbeats, MarkRunning(b)
    PROVE  LongRunInductive'
<1>1. PICK succeeds \in BOOLEAN :
          /\ Update(succeeds, TaskOf(b), "running")
          /\ IF ExecutedNow(succeeds)
             THEN /\ beatPc' = [beatPc EXCEPT ![b] = "execute"]
                  /\ executions' = [executions EXCEPT ![TaskOf(b)] = @ + 1]
                  /\ UNCHANGED <<toDo, took>>
             ELSE GoOn(b, took[b]) /\ UNCHANGED executions
  BY DEF MarkRunning
<1>2. beatPc[b] = "mark" /\ UNCHANGED <<serving, stopWaits, created, endedAs, deaths, twoHands>>
  BY DEF MarkRunning
<1>3. CASE succeeds
  BY <1>1, <1>2, <1>3, BeginTask DEF Update, ExecutedNow
<1>4. CASE ~succeeds
  <2>1. row' = row /\ dbFaults' = dbFaults + 1 /\ dbFaults < MaxDbFaults
        /\ GoOn(b, took[b]) /\ UNCHANGED executions
    BY <1>1, <1>4 DEF Update, ExecutedNow
  <2>2. BeatsTyped /\ MaxDbFaults \in Nat
    BY LongRunAssumption DEF LongRunInductive
  <2>3. dbFaults' \in 0..MaxDbFaults /\ dbFaults' > 0
    BY <2>1, <2>2 DEF BeatsTyped
  <2>4. /\ row' \in [QueuedTasks -> RowStatus] /\ endedAs' \in [Heartbeats -> {"completed", "failed"}]
        /\ \A u \in QueuedTasks : u # TaskOf(b) => row'[u] = row[u]
    BY <1>2, <2>1, <2>2 DEF BeatsTyped
  <2>5. QED
    BY <1>2, <2>1, <2>3, <2>4, LeaveTask
<1>5. QED
  BY <1>3, <1>4

LEMMA OutcomeStep ==
    ASSUME LongRunInductive, NEW b \in Heartbeats, SaveResult(b)
    PROVE  LongRunInductive'
<1>1. PICK succeeds \in BOOLEAN : Update(succeeds, TaskOf(b), StatusAfter(b))
  BY DEF SaveResult
<1>2. /\ beatPc[b] = "save" /\ GoOn(b, took[b] + 1)
      /\ endedAs' = [endedAs EXCEPT ![b] = "completed"]
      /\ UNCHANGED <<serving, stopWaits, created, deaths, executions, twoHands>>
  BY DEF SaveResult, historyVars
<1>3. BeatsTyped /\ BeatsFit /\ MaxDbFaults \in Nat
  BY LongRunAssumption DEF LongRunInductive
<1>4. endedAs' \in [Heartbeats -> {"completed", "failed"}] /\ endedAs[b] \in {"completed", "failed"}
  BY <1>2, <1>3 DEF BeatsTyped
<1>5. TaskOf(b) \in QueuedTasks
  BY <1>2, <1>3, TaskOfIsToDo DEF BeatsFit
<1>6. CASE succeeds
  <2>1. row' = [row EXCEPT ![TaskOf(b)] = endedAs[b]] /\ dbFaults' = dbFaults
    BY <1>1, <1>6 DEF Update, StatusAfter
  <2>2. /\ row' \in [QueuedTasks -> RowStatus] /\ dbFaults' \in 0..MaxDbFaults
        /\ row'[TaskOf(b)] \in {"completed", "failed"}
        /\ \A u \in QueuedTasks : u # TaskOf(b) => row'[u] = row[u]
    BY <1>3, <1>4, <1>5, <2>1 DEF BeatsTyped, RowStatus
  <2>3. QED
    BY <1>2, <1>4, <2>1, <2>2, LeaveTask
<1>7. CASE ~succeeds
  <2>1. row' = row /\ dbFaults' = dbFaults + 1 /\ dbFaults < MaxDbFaults
    BY <1>1, <1>7 DEF Update
  <2>2. dbFaults' \in 0..MaxDbFaults /\ dbFaults' > 0
    BY <1>3, <2>1 DEF BeatsTyped
  <2>3. /\ row' \in [QueuedTasks -> RowStatus]
        /\ \A u \in QueuedTasks : u # TaskOf(b) => row'[u] = row[u]
    BY <1>3, <2>1 DEF BeatsTyped
  <2>4. QED
    BY <1>2, <1>4, <2>1, <2>2, <2>3, LeaveTask
<1>8. QED
  BY <1>6, <1>7

LEMMA LongRunStays ==
    ASSUME LongRunInductive, [LongRunNext]_longRunVars
    PROVE  LongRunInductive'
<1>1. CASE UNCHANGED longRunVars
  <2>1. UNCHANGED <<row, created, toDo, executions, twoHands, deaths, dbFaults, serving, stopWaits,
                    beatPc, took, endedAs>>
    BY <1>1 DEF longRunVars, taskRowVars, beatVars, historyVars
  <2>2. BeatsTyped /\ BeatsFit /\ StoppedHasNoBeats
    BY DEF LongRunInductive
  <2>3. StoppedHasNoBeats'
    BY <2>1, <2>2 DEF StoppedHasNoBeats
  <2>4. \A b \in Heartbeats : took[b] \in Nat /\ dbFaults \in Nat
    BY <2>2, LongRunAssumption DEF BeatsTyped
  <2>5. \A b \in Heartbeats : beatPc'[b] \in {"idle", "enter", "read"} => took'[b] = 0
    BY <2>1, <2>2 DEF BeatsFit
  <2>6. QED
    BY <2>1, <2>2, <2>3, <2>4, <2>5, CalmStep DEF BeatsTyped
<1>2. CASE LongRunNext
  BY <1>2, CalmSteps, DeathStep, TableSteps, ReadStep, MarkStep, OutcomeStep DEF LongRunNext, Beat
<1>3. QED
  BY <1>1, <1>2

\* Only a mark and an outcome change a row that was executed.
LEMMA OutcomeStays ==
    ASSUME LongRunInductive, [LongRunNext]_longRunVars, NEW t \in QueuedTasks,
           row[t] \in {"completed", "failed"}, row'[t] # row[t]
    PROVE  t \in twoHands
<1> USE DEF LongRunInductive
<1>1. PICK b \in Heartbeats : MarkRunning(b) \/ SaveResult(b)
  <2>1. row' # row
    OBVIOUS
  <2>2. CASE UNCHANGED longRunVars
    BY <2>1, <2>2 DEF longRunVars, taskRowVars
  <2>3. CASE StartService \/ StopService \/ ServiceStops \/ ProcessDies
    BY <2>1, <2>3 DEF StartService, StopService, ServiceStops, ProcessDies, taskRowVars
  <2>4. ASSUME NEW u \in QueuedTasks,
               ScheduledTimeComes(u) \/ \E scheduled \in BOOLEAN : AddTask(u, scheduled)
        PROVE  FALSE
    BY <2>4 DEF ScheduledTimeComes, AddTask, BeatsTyped
  <2>5. ASSUME NEW b \in Heartbeats,
               \/ CronFires(b) \/ NoteLastRun(b) \/ ReadPending(b) \/ PendingUnread(b)
               \/ ExecuteTask(b) \/ ChecklistDone(b)
        PROVE  FALSE
    BY <2>1, <2>5
    DEF CronFires, NoteLastRun, ReadPending, PendingUnread, ExecuteTask, ChecklistDone, taskRowVars
  <2>6. QED
    BY <2>2, <2>3, <2>4, <2>5 DEF LongRunNext, Beat
<1>2. TaskOf(b) \in toDo[b] /\ TaskOf(b) \in QueuedTasks
  <2>1. toDo[b] # {}
    BY <1>1 DEF MarkRunning, SaveResult, BeatsFit
  <2>2. QED
    BY <2>1, TaskOfIsToDo
<1>3. t = TaskOf(b)
  BY <1>1, <1>2 DEF MarkRunning, SaveResult, Update, BeatsTyped
<1>4. QED
  BY <1>2, <1>3 DEF HandsFit

LEMMA LongRunIsSound ==
    ASSUME LongRunInductive
    PROVE  LongRunTypeOK /\ SecondExecutionNeedsOverlap /\ RunningIsAtWork /\ StoppedHasNoBeats
<1> USE DEF LongRunInductive
<1>1. ASSUME NEW t \in QueuedTasks PROVE executions[t] \in 0..Cardinality(Heartbeats)
  <2>1. Waiting(t) \subseteq Heartbeats
    BY DEF Waiting
  <2>2. /\ executions[t] \in Nat /\ Cardinality(Waiting(t)) \in Nat /\ Cardinality(Heartbeats) \in Nat
        /\ executions[t] + Cardinality(Waiting(t)) <= Cardinality(Heartbeats)
    BY <2>1, HeartbeatsFinite DEF BeatsTyped, ExecutionsCounted
  <2>3. QED
    BY <2>2
<1>2. LongRunTypeOK
  BY <1>1 DEF BeatsTyped, LongRunTypeOK
<1>3. SecondExecutionNeedsOverlap
  <2> SUFFICES ASSUME NEW t \in QueuedTasks, executions[t] > 1, t \notin twoHands PROVE FALSE
    BY DEF SecondExecutionNeedsOverlap
  <2>1. executions[t] \in Nat /\ executions[t] <= 1
    BY DEF BeatsTyped, HandsFit
  <2>2. QED
    BY <2>1
<1>4. QED
  BY <1>2, <1>3

\* Whatever the heartbeats, the tasks and the quota: no task is executed again and
\* no outcome is lost but through heartbeats that overlap, a row that says running
\* is at work or was left by a failure, and after Stop there is no heartbeat
\* (longrun.go:246-330, task_queue.go:97-170).
THEOREM LongRunIsCorrect == LongRunSpec => LongRunCorrect
<1>1. LongRunInit => LongRunInductive
  BY LongRunStart
<1>2. LongRunInductive /\ [LongRunNext]_longRunVars => LongRunInductive'
  BY LongRunStays
<1>3. LongRunInductive =>
          LongRunTypeOK /\ SecondExecutionNeedsOverlap /\ RunningIsAtWork /\ StoppedHasNoBeats
  BY LongRunIsSound
<1>4. LongRunInductive /\ [LongRunNext]_longRunVars =>
          [row' # row => \A t \in QueuedTasks :
               (row[t] \in {"completed", "failed"} /\ row'[t] # row[t]) => t \in twoHands]_longRunVars
  BY OutcomeStays
<1>5. QED
  BY <1>1, <1>2, <1>3, <1>4, PTL DEF LongRunSpec, LongRunCorrect, OutcomeStaysUnlessOverlap

-----------------------------------------------------------------------------
(* The checklist *)

InUpdate == {"truncate", "write"}
AtItem == {"execute", "read"} \cup InUpdate

\* Where a heartbeat is, and what it has in hand.
BeatFits(b) ==
    /\ itemPc[b] = "off" => listed[b] = {} /\ acts[b] = 0
    /\ \A e, f \in listed[b] : e.at = f.at => e = f
    /\ itemPc[b] \in AtItem =>
           listed[b] # {} /\ acts[b] < Quota /\ ~(askFirst /\ ItemAt(b).line.mark = "approval")
    /\ itemPc[b] \notin InUpdate => content[b] = <<>>

\* The line that an entry of a list was read from.
IsLineOf(e, lines) == e.at \in DOMAIN lines /\ lines[e.at].item = e.line.item

\* As long as updates meet nothing, there is one at a time, it knows the file
\* as it is, no line is lost, and what is listed is still in its line.
FileFits ==
    ~torn =>
    /\ \A b, c \in Updating : b = c
    /\ \A b \in Beats : itemPc[b] = "truncate" => content[b] = file
    /\ Writing = {} => ItemsOf(file) = ownLines
    /\ \A b \in Writing : ItemsOf(content[b]) = ownLines
    /\ \A b \in Working \ shifted : \A e \in listed[b] :
           /\ Writing = {} => IsLineOf(e, file)
           /\ \A c \in Writing : IsLineOf(e, content[c])

\* The lines of the first file, with other marks, or a file that was emptied.
Unedited(lines) ==
    \/ lines = <<>>
    \/ DOMAIN lines = DOMAIN FirstFile /\ \A n \in DOMAIN lines : lines[n].item = FirstFile[n].item

\* Until the user edits the file.
FirstLinesStay ==
    mishaps["edit"] = 0 =>
    /\ shifted = {}
    /\ Unedited(file)
    /\ \A b \in Beats : Unedited(content[b])
    /\ \A b \in Beats : \A e \in listed[b] : IsLineOf(e, FirstFile)

\* Line n of the first file is as it was, in a file and in a list.
Awaits(n, lines) == n \in DOMAIN lines /\ lines[n] = FirstFile[n]
LineAwaits(n) ==
    /\ tries[FirstFile[n].item] = 0
    /\ Writing = {} => Awaits(n, file)
    /\ \A b \in Writing : Awaits(n, content[b])
    /\ \A b \in Beats : \A e \in listed[b] : e.at = n => e.line = FirstFile[n]
ApprovalsStay ==
    (askFirst /\ mishaps["edit"] = 0 /\ ~torn) =>
        \A n \in DOMAIN FirstFile : FirstFile[n].mark = "approval" => LineAwaits(n)

\* An item that was executed and must not be again: every line of it is marked,
\* or a heartbeat has it in hand.
Done(i, lines) == \A n \in DOMAIN lines : lines[n].item = i => lines[n].mark = "done"
InHand(b, i) == itemPc[b] \in AtItem /\ ItemAt(b).line.item = i
OnceExecuted(i) ==
    /\ \A b \in Beats : \A e \in listed[b] : e.line.item = i => InHand(b, i) /\ e = ItemAt(b)
    /\ (\A b \in Beats : ~InHand(b, i)) => Done(i, file)
    /\ \A b \in Beats : ~InHand(b, i) => Done(i, content[b])
OnceAtMost ==
    \A i \in Lines \ excused :
    /\ mishaps["edit"] = 0
    /\ \A b, c \in Working : b = c
    /\ tries[i] <= 1
    /\ tries[i] # 0 => OnceExecuted(i)

ChecklistInductive ==
    /\ ChecklistTypeOK
    /\ \A b \in Beats : BeatFits(b)
    /\ FileFits
    /\ FirstLinesStay
    /\ ApprovalsStay
    /\ OnceAtMost

-----------------------------------------------------------------------------
Entry == [at : Nat \ {0}, line : FileLine]

LEMMA FirstIsListed ==
    ASSUME NEW S \in SUBSET Entry, S # {}
    PROVE  FirstOf(S) \in S
<1>1. {e.at : e \in S} \in SUBSET Nat /\ {e.at : e \in S} # {}
  BY DEF Entry
<1>2. PICK m \in {e.at : e \in S} : \A n \in {e.at : e \in S} : m <= n
  BY <1>1, LeastOf
<1>3. \E e \in S : \A f \in S : e.at <= f.at
  BY <1>2
<1>4. QED
  BY <1>3 DEF FirstOf

ItemPc == {"off", "items", "execute", "read", "truncate", "write"}
MishapKind == {"edit", "fault", "crash"}

LEMMA LinesHaveItems ==
    ASSUME NEW lines \in Seq(FileLine), NEW n \in DOMAIN lines
    PROVE  lines[n] \in FileLine /\ lines[n].item \in Lines /\ n \in Nat \ {0}
<1>1. lines[n] \in FileLine /\ n \in Nat \ {0}
  BY SMT
<1>2. QED
  BY <1>1 DEF FileLine

LEMMA ChecklistStart == ChecklistInit => ChecklistInductive
<1> SUFFICES ASSUME ChecklistInit PROVE ChecklistInductive
  OBVIOUS
<1>1. ChecklistTypeOK
  <2>1. ItemsOf(FirstFile) \subseteq Lines
    BY ChecklistAssumption, LinesHaveItems DEF ItemsOf
  <2>2. \A x \in Beats : <<>> \in Seq(FileLine)
    OBVIOUS
  <2>3. acts \in [Beats -> 0..Quota] /\ tries \in [Lines -> 0..MaxTries]
          /\ mishaps \in [MishapKind -> 0..MaxMishaps]
    BY ChecklistAssumption DEF ChecklistInit, MishapKind
  <2>4. content \in [Beats -> Seq(FileLine)]
    BY <2>2 DEF ChecklistInit
  <2>5. QED
    BY <2>1, <2>3, <2>4, ChecklistAssumption DEF ChecklistInit, ChecklistTypeOK, MishapKind
<1>2. \A b \in Beats : BeatFits(b)
  BY DEF ChecklistInit, BeatFits, AtItem, InUpdate
<1>3. FileFits
  BY DEF ChecklistInit, FileFits, Working, Updating, Writing
<1>4. FirstLinesStay
  BY DEF ChecklistInit, FirstLinesStay, Unedited
<1>5. ApprovalsStay
  <2>1. \A n \in DOMAIN FirstFile : FirstFile[n].item \in Lines
    BY ChecklistAssumption, LinesHaveItems
  <2>2. Writing = {}
    BY DEF ChecklistInit, Writing
  <2>3. QED
    BY <2>1, <2>2 DEF ChecklistInit, ApprovalsStay, LineAwaits, Awaits
<1>6. OnceAtMost
  BY DEF ChecklistInit, OnceAtMost, OnceExecuted, Working
<1>7. QED
  BY <1>1, <1>2, <1>3, <1>4, <1>5, <1>6 DEF ChecklistInductive

-----------------------------------------------------------------------------
(* What the steps have in common *)

LEMMA MishapCounts ==
    ASSUME ChecklistTypeOK, NEW m \in MishapKind, Mishap(m)
    PROVE  /\ mishaps' \in [MishapKind -> 0..MaxMishaps]
           /\ mishaps'[m] # 0
           /\ \A k \in MishapKind : k # m => mishaps'[k] = mishaps[k]
           /\ mishaps' # mishaps
<1>1. mishaps["edit"] \in Nat /\ mishaps["fault"] \in Nat /\ mishaps["crash"] \in Nat
        /\ mishaps \in [MishapKind -> 0..MaxMishaps]
  BY ChecklistAssumption DEF ChecklistTypeOK, MishapKind
<1>2. mishaps[m] \in Nat /\ mishaps[m] + 1 <= MaxMishaps
  BY <1>1, ChecklistAssumption DEF Mishap, MishapKind
<1>3. QED
  BY <1>1, <1>2, ChecklistAssumption DEF Mishap

LEMMA PcMoves ==
    ASSUME itemPc \in [Beats -> ItemPc], NEW b \in Beats, NEW v \in ItemPc,
           itemPc' = [itemPc EXCEPT ![b] = v]
    PROVE  /\ itemPc' \in [Beats -> ItemPc]
           /\ itemPc'[b] = v
           /\ \A c \in Beats : c # b => itemPc'[c] = itemPc[c]
           /\ Working' = IF v = "off" THEN Working \ {b} ELSE Working \cup {b}
           /\ Updating' = IF v \in InUpdate THEN Updating \cup {b} ELSE Updating \ {b}
           /\ Writing' = IF v = "write" THEN Writing \cup {b} ELSE Writing \ {b}
<1>1. itemPc' \in [Beats -> ItemPc] /\ itemPc'[b] = v
        /\ \A c \in Beats : c # b => itemPc'[c] = itemPc[c]
  OBVIOUS
<1>2. QED
  BY <1>1 DEF Working, Updating, Writing, InUpdate

\* A heartbeat goes on to the next item, or gives the last one up.
LEMMA ItemGone ==
    ASSUME ChecklistTypeOK, NEW b \in Beats, NEW more \in 0..1, NextItem(b, more),
           acts[b] + more <= Quota
    PROVE  /\ itemPc' \in [Beats -> ItemPc]
           /\ itemPc'[b] = "items" /\ \A c \in Beats : c # b => itemPc'[c] = itemPc[c]
           /\ listed' \in [Beats -> SUBSET Entry]
           /\ listed'[b] = listed[b] \ {ItemAt(b)}
           /\ \A c \in Beats : c # b => listed'[c] = listed[c]
           /\ acts' \in [Beats -> 0..Quota]
           /\ content' \in [Beats -> Seq(FileLine)]
           /\ content'[b] = <<>> /\ \A c \in Beats : c # b => content'[c] = content[c]
           /\ Working' = Working \cup {b}
           /\ Updating' = Updating \ {b} /\ Writing' = Writing \ {b}
<1>1. itemPc \in [Beats -> ItemPc] /\ listed \in [Beats -> SUBSET Entry]
        /\ acts \in [Beats -> 0..Quota] /\ content \in [Beats -> Seq(FileLine)]
  BY DEF ChecklistTypeOK, ItemPc, Entry
<1>2. itemPc' = [itemPc EXCEPT ![b] = "items"] /\ listed' = [listed EXCEPT ![b] = listed[b] \ {ItemAt(b)}]
        /\ acts' = [acts EXCEPT ![b] = acts[b] + more] /\ content' = [content EXCEPT ![b] = <<>>]
  BY DEF NextItem
<1>3. itemPc' \in [Beats -> ItemPc] /\ itemPc'[b] = "items"
        /\ (\A c \in Beats : c # b => itemPc'[c] = itemPc[c])
        /\ Working' = Working \cup {b} /\ Updating' = Updating \ {b} /\ Writing' = Writing \ {b}
  BY <1>1, <1>2, PcMoves DEF ItemPc, InUpdate
<1>4. listed' \in [Beats -> SUBSET Entry] /\ listed'[b] = listed[b] \ {ItemAt(b)}
        /\ \A c \in Beats : c # b => listed'[c] = listed[c]
  BY <1>1, <1>2
<1>5. acts' \in [Beats -> 0..Quota]
  BY <1>1, <1>2, ChecklistAssumption
<1>6. content' \in [Beats -> Seq(FileLine)] /\ content'[b] = <<>>
        /\ \A c \in Beats : c # b => content'[c] = content[c]
  <2>1. <<>> \in Seq(FileLine)
    OBVIOUS
  <2>2. QED
    BY <1>1, <1>2, <2>1
<1>7. QED
  BY <1>3, <1>4, <1>5, <1>6

\* What has been said of the file stays true when only lists and copies go.
LEMMA FileKept ==
    ASSUME FileFits, FirstLinesStay, ApprovalsStay, ChecklistTypeOK,
           UNCHANGED <<askFirst, file, ownLines, shifted>>,
           mishaps'["edit"] = mishaps["edit"],
           Working' \subseteq Working,
           ~torn' => ~torn /\ Writing' = Writing,
           \A c \in Beats : listed'[c] \subseteq listed[c],
           \A c \in Beats : content'[c] = <<>> \/ content'[c] = content[c],
           \A c \in Beats : itemPc'[c] \in InUpdate =>
               itemPc'[c] = itemPc[c] /\ content'[c] = content[c],
           (askFirst /\ mishaps["edit"] = 0 /\ ~torn) => \A n \in DOMAIN FirstFile :
               FirstFile[n].mark = "approval" => tries'[FirstFile[n].item] = tries[FirstFile[n].item]
    PROVE  FileFits' /\ FirstLinesStay' /\ ApprovalsStay'
<1>1. FileFits'
  <2> SUFFICES ASSUME ~torn' PROVE FileFits'
    BY DEF FileFits
  <2>1. Writing' = Writing /\ Writing \subseteq Updating /\ Updating' \subseteq Updating
    BY DEF Writing, Updating, InUpdate
  <2>2. (\A b, c \in Updating : b = c)'
    BY <2>1 DEF FileFits
  <2>3. (\A b \in Beats : itemPc[b] = "truncate" => content[b] = file)'
    BY DEF FileFits, InUpdate
  <2>4. (Writing = {} => ItemsOf(file) = ownLines)'
    BY <2>1 DEF FileFits, ItemsOf
  <2>5. \A b \in Writing' : b \in Beats /\ content'[b] = content[b]
    BY DEF Writing, InUpdate
  <2>6. (\A b \in Writing : ItemsOf(content[b]) = ownLines)'
    BY <2>1, <2>5 DEF FileFits, ItemsOf
  <2>7. ASSUME NEW b \in Working' \ shifted', NEW e \in listed'[b]
        PROVE  (/\ Writing = {} => IsLineOf(e, file)
                /\ \A c \in Writing : IsLineOf(e, content[c]))'
    <3>1. b \in Working \ shifted /\ e \in listed[b]
      BY DEF Working
    <3>2. QED
      BY <2>1, <2>5, <3>1 DEF FileFits, IsLineOf
  <2>8. QED
    BY <2>2, <2>3, <2>4, <2>6, <2>7 DEF FileFits
<1>2. FirstLinesStay'
  BY DEF FirstLinesStay, Unedited, IsLineOf
<1>3. ASSUME (askFirst /\ mishaps["edit"] = 0 /\ ~torn)', NEW n \in DOMAIN FirstFile,
             FirstFile[n].mark = "approval"
      PROVE  LineAwaits(n)'
  <2>1. LineAwaits(n) /\ tries'[FirstFile[n].item] = tries[FirstFile[n].item]
    BY <1>3 DEF ApprovalsStay
  <2>2. \A b \in Writing' : b \in Writing /\ content'[b] = content[b]
    BY <1>3 DEF Writing, InUpdate
  <2>3. Writing' = Writing
    BY <1>3
  <2>4. QED
    BY <2>1, <2>2, <2>3 DEF LineAwaits, Awaits
<1>4. QED
  BY <1>1, <1>2, <1>3 DEF ApprovalsStay

\* The same of the items that must not be executed again.
LEMMA OnceKept ==
    ASSUME OnceAtMost, ChecklistTypeOK, tries' = tries, file' = file,
           mishaps'["edit"] = mishaps["edit"],
           Working' \subseteq Working, excused \subseteq excused',
           \A c \in Beats : listed'[c] \subseteq listed[c],
           \A c \in Beats : content'[c] = <<>> \/ content'[c] = content[c],
           \A i \in Lines \ excused' : \A c \in Beats :
               /\ InHand(c, i)' <=> InHand(c, i)
               /\ \A e \in listed'[c] :
                      (e.line.item = i /\ InHand(c, i) /\ e = ItemAt(c)) => e = ItemAt(c)'
    PROVE  OnceAtMost'
<1> SUFFICES ASSUME NEW i \in Lines \ excused'
             PROVE  (/\ mishaps["edit"] = 0
                     /\ \A b, c \in Working : b = c
                     /\ tries[i] <= 1
                     /\ tries[i] # 0 => OnceExecuted(i))'
  BY DEF OnceAtMost
<1>1. i \in Lines \ excused
  OBVIOUS
<1>2. mishaps'["edit"] = 0 /\ (\A b, c \in Working' : b = c) /\ tries'[i] <= 1
  BY <1>1 DEF OnceAtMost
<1>3. ASSUME tries'[i] # 0
      PROVE  OnceExecuted(i)'
  <2>1. OnceExecuted(i)
    BY <1>1, <1>3 DEF OnceAtMost
  <2>2. \A c \in Beats : \A e \in listed'[c] :
           e.line.item = i => InHand(c, i)' /\ e = ItemAt(c)'
    BY <2>1 DEF OnceExecuted
  <2>3. (\A c \in Beats : ~InHand(c, i)') => Done(i, file')
    BY <2>1 DEF OnceExecuted
  <2>4. \A c \in Beats : ~InHand(c, i)' => Done(i, content'[c])
    BY <2>1 DEF OnceExecuted, Done
  <2>5. QED
    BY <2>2, <2>3, <2>4 DEF OnceExecuted, Done
<1>4. QED
  BY <1>2, <1>3

LEMMA HandIsListed ==
    ASSUME ChecklistTypeOK, NEW b \in Beats, listed[b] # {}
    PROVE  /\ ItemAt(b) \in listed[b] /\ ItemAt(b) \in Entry
           /\ ItemAt(b).line \in FileLine /\ ItemAt(b).line.item \in Lines
<1>1. listed[b] \in SUBSET Entry
  BY DEF ChecklistTypeOK, Entry
<1>2. ItemAt(b) \in listed[b] /\ ItemAt(b) \in Entry
  BY <1>1, FirstIsListed DEF ItemAt
<1>3. QED
  BY <1>2 DEF Entry, FileLine

-----------------------------------------------------------------------------
(* The steps of a heartbeat *)

LEMMA ListFailsKept ==
    ASSUME ChecklistInductive, NEW b \in Beats, ListFails(b)
    PROVE  ChecklistInductive'
<1> USE DEF ChecklistInductive
<1>1. mishaps' \in [MishapKind -> 0..MaxMishaps] /\ mishaps'["edit"] = mishaps["edit"]
  BY MishapCounts DEF ListFails, MishapKind
<1>2. UNCHANGED <<askFirst, file, itemPc, listed, acts, content, ownLines, shifted, tries, excused, torn>>
  BY DEF ListFails, workVars, checklistHistory
<1>3. ChecklistTypeOK'
  BY <1>1, <1>2 DEF ChecklistTypeOK, MishapKind
<1>4. Working' = Working /\ Writing' = Writing
  BY <1>2 DEF Working, Writing
<1>5. (\A c \in Beats : BeatFits(c))'
  BY <1>2 DEF BeatFits, AtItem, InUpdate, ItemAt
<1>6. FileFits' /\ FirstLinesStay' /\ ApprovalsStay'
  BY <1>1, <1>2, <1>4, FileKept
<1>7. OnceAtMost'
  <2>1. \A i \in Lines : \A c \in Beats : (InHand(c, i)' <=> InHand(c, i)) /\ ItemAt(c)' = ItemAt(c)
    BY <1>2 DEF InHand, ItemAt, AtItem, InUpdate
  <2>2. QED
    BY <1>1, <1>2, <1>4, <2>1, OnceKept
<1>8. QED
  BY <1>3, <1>5, <1>6, <1>7

LEMMA BeatEndsKept ==
    ASSUME ChecklistInductive, NEW b \in Beats, BeatEnds(b)
    PROVE  ChecklistInductive'
<1> USE DEF ChecklistInductive
<1>1. UNCHANGED <<askFirst, file, content, mishaps, ownLines, shifted, tries, excused, torn>>
  BY DEF BeatEnds, checklistHistory
<1>2. itemPc \in [Beats -> ItemPc] /\ listed \in [Beats -> SUBSET Entry]
        /\ acts \in [Beats -> 0..Quota] /\ content \in [Beats -> Seq(FileLine)]
  BY DEF ChecklistTypeOK, ItemPc, Entry
<1>3. itemPc' = [itemPc EXCEPT ![b] = "off"] /\ itemPc[b] = "items"
        /\ listed' = [listed EXCEPT ![b] = {}] /\ acts' = [acts EXCEPT ![b] = 0]
  BY DEF BeatEnds
<1>4. /\ itemPc' \in [Beats -> ItemPc]
      /\ itemPc'[b] = "off" /\ \A c \in Beats : c # b => itemPc'[c] = itemPc[c]
      /\ Working' = Working \ {b} /\ Writing' = Writing \ {b}
  BY <1>2, <1>3, PcMoves DEF ItemPc, InUpdate
<1>5. /\ listed' \in [Beats -> SUBSET Entry] /\ listed'[b] = {}
      /\ \A c \in Beats : c # b => listed'[c] = listed[c]
  BY <1>2, <1>3
<1>6. /\ acts' \in [Beats -> 0..Quota] /\ acts'[b] = 0
      /\ \A c \in Beats : c # b => acts'[c] = acts[c]
  BY <1>2, <1>3, ChecklistAssumption
<1>7. ChecklistTypeOK'
  BY <1>1, <1>4, <1>5, <1>6 DEF ChecklistTypeOK, ItemPc, Entry
<1>8. (\A c \in Beats : BeatFits(c))'
  BY <1>1, <1>3, <1>4, <1>5, <1>6 DEF BeatFits, AtItem, InUpdate, ItemAt
<1>9. Writing' = Writing
  BY <1>3, <1>4 DEF Writing
<1>10. FileFits' /\ FirstLinesStay' /\ ApprovalsStay'
  <2>1. \A c \in Beats : listed'[c] \subseteq listed[c]
    BY <1>5
  <2>2. \A c \in Beats : itemPc'[c] \in InUpdate => itemPc'[c] = itemPc[c]
    BY <1>4 DEF InUpdate
  <2>3. QED
    BY <1>1, <1>4, <1>9, <2>1, <2>2, FileKept
<1>11. OnceAtMost'
  <2>1. \A c \in Beats : listed'[c] \subseteq listed[c]
    BY <1>5
  <2>2. ASSUME NEW i \in Lines, NEW c \in Beats
        PROVE  /\ InHand(c, i)' <=> InHand(c, i)
               /\ \A e \in listed'[c] :
                      (e.line.item = i /\ InHand(c, i) /\ e = ItemAt(c)) => e = ItemAt(c)'
    BY <1>3, <1>4, <1>5 DEF InHand, ItemAt, AtItem, InUpdate
  <2>3. QED
    BY <1>1, <1>4, <2>1, <2>2, OnceKept
<1>12. QED
  BY <1>7, <1>8, <1>10, <1>11

\* A heartbeat that goes on without having marked its item: it had not begun,
\* or the item is excused.
LEMMA GoneKept ==
    ASSUME ChecklistInductive, NEW b \in Beats, NEW more \in 0..1, NextItem(b, more),
           acts[b] + more <= Quota, itemPc[b] # "off",
           UNCHANGED <<askFirst, file, ownLines, shifted, tries>>,
           mishaps' \in [MishapKind -> 0..MaxMishaps], mishaps'["edit"] = mishaps["edit"],
           torn' \in BOOLEAN, torn' <=> (torn \/ itemPc[b] = "write"),
           \/ excused' = excused /\ itemPc[b] = "items"
           \/ excused' = excused \cup {ItemAt(b).line.item} /\ itemPc[b] \in AtItem
    PROVE  ChecklistInductive'
<1> USE DEF ChecklistInductive
<1>1. /\ itemPc' \in [Beats -> ItemPc]
      /\ itemPc'[b] = "items" /\ \A c \in Beats : c # b => itemPc'[c] = itemPc[c]
      /\ listed' \in [Beats -> SUBSET Entry]
      /\ listed'[b] = listed[b] \ {ItemAt(b)}
      /\ \A c \in Beats : c # b => listed'[c] = listed[c]
      /\ acts' \in [Beats -> 0..Quota]
      /\ content' \in [Beats -> Seq(FileLine)]
      /\ content'[b] = <<>> /\ \A c \in Beats : c # b => content'[c] = content[c]
      /\ Working' = Working \cup {b}
      /\ Updating' = Updating \ {b} /\ Writing' = Writing \ {b}
  BY ItemGone
<1>2. excused' \subseteq Lines
  <2>1. CASE excused' = excused
    BY <2>1 DEF ChecklistTypeOK
  <2>2. CASE excused' = excused \cup {ItemAt(b).line.item} /\ itemPc[b] \in AtItem
    BY <2>2, HandIsListed DEF ChecklistTypeOK, BeatFits
  <2>3. QED
    BY <2>1, <2>2 DEF ChecklistTypeOK
<1>3. ChecklistTypeOK'
  BY <1>1, <1>2 DEF ChecklistTypeOK, ItemPc, MishapKind, Entry
<1>4. \A c \in Beats : c # b => acts'[c] = acts[c]
  BY DEF NextItem, ChecklistTypeOK
<1>5. (\A c \in Beats : BeatFits(c))'
  BY <1>1, <1>4, ZenonT(60) DEF BeatFits, AtItem, InUpdate, ItemAt
<1>6. Working' = Working
  BY <1>1 DEF Working
<1>7. ~torn' => ~torn /\ Writing' = Writing
  BY <1>1 DEF Writing
<1>8. \A c \in Beats : listed'[c] \subseteq listed[c]
  BY <1>1
<1>9. FileFits' /\ FirstLinesStay' /\ ApprovalsStay'
  <2>1. \A c \in Beats : content'[c] = <<>> \/ content'[c] = content[c]
    BY <1>1
  <2>2. \A c \in Beats : itemPc'[c] \in InUpdate =>
               itemPc'[c] = itemPc[c] /\ content'[c] = content[c]
    BY <1>1 DEF InUpdate
  <2>3. QED
    BY <1>6, <1>7, <1>8, <2>1, <2>2, FileKept
<1>10. OnceAtMost'
  <2>1. \A c \in Beats : content'[c] = <<>> \/ content'[c] = content[c]
    BY <1>1
  <2>2. ASSUME NEW i \in Lines \ excused', NEW c \in Beats
        PROVE  /\ InHand(c, i)' <=> InHand(c, i)
               /\ \A e \in listed'[c] :
                      (e.line.item = i /\ InHand(c, i) /\ e = ItemAt(c)) => e = ItemAt(c)'
    BY <1>1 DEF InHand, ItemAt, AtItem, InUpdate
  <2>3. excused \subseteq excused'
    OBVIOUS
  <2>4. QED
    BY <1>6, <1>8, <2>1, <2>2, <2>3, OnceKept
<1>11. QED
  BY <1>3, <1>5, <1>9, <1>10

LEMMA SkipItemKept ==
    ASSUME ChecklistInductive, NEW b \in Beats, SkipItem(b)
    PROVE  ChecklistInductive'
<1>1. /\ UNCHANGED <<askFirst, file, mishaps, ownLines, shifted, tries, excused, torn>>
      /\ itemPc[b] = "items" /\ acts[b] < Quota /\ NextItem(b, 1)
  BY DEF SkipItem, TakesItem, checklistHistory
<1>2. acts[b] + 1 <= Quota /\ mishaps' \in [MishapKind -> 0..MaxMishaps] /\ torn \in BOOLEAN
  BY <1>1, ChecklistAssumption DEF ChecklistInductive, ChecklistTypeOK, MishapKind
<1>3. torn' \in BOOLEAN /\ (torn' <=> (torn \/ itemPc[b] = "write"))
  BY <1>1, <1>2
<1>4. itemPc[b] # "off" /\ 1 \in 0..1
  BY <1>1
<1>5. QED
  BY <1>1, <1>2, <1>3, <1>4, GoneKept

LEMMA ItemExecutedKept ==
    ASSUME ChecklistInductive, NEW b \in Beats, NEW succeeds \in BOOLEAN, ItemExecuted(b, succeeds)
    PROVE  ChecklistInductive'
<1>1. /\ UNCHANGED <<askFirst, file, mishaps, ownLines, shifted, tries, torn>>
      /\ itemPc[b] = "execute"
  BY DEF ItemExecuted
<1>2. CASE ~succeeds
  <2>1. NextItem(b, 0) /\ excused' = excused \cup {ItemAt(b).line.item}
    BY <1>2 DEF ItemExecuted
  <2>2. acts[b] + 0 <= Quota /\ mishaps' \in [MishapKind -> 0..MaxMishaps] /\ torn \in BOOLEAN
    BY <1>1, ChecklistAssumption DEF ChecklistInductive, ChecklistTypeOK, MishapKind
  <2>3. torn' \in BOOLEAN /\ (torn' <=> (torn \/ itemPc[b] = "write"))
    BY <1>1, <2>2
  <2>4. itemPc[b] \in AtItem /\ itemPc[b] # "off" /\ 0 \in 0..1
    BY <1>1 DEF AtItem
  <2>5. QED
    BY <1>1, <2>1, <2>2, <2>3, <2>4, GoneKept
<1>3. CASE succeeds
  <2> USE DEF ChecklistInductive
  <2>1. UNCHANGED <<listed, acts, content, excused>> /\ itemPc' = [itemPc EXCEPT ![b] = "read"]
    BY <1>3 DEF ItemExecuted
  <2>2. itemPc \in [Beats -> ItemPc]
    BY DEF ChecklistTypeOK, ItemPc
  <2>3. /\ itemPc' \in [Beats -> ItemPc]
        /\ itemPc'[b] = "read" /\ \A c \in Beats : c # b => itemPc'[c] = itemPc[c]
        /\ Working' = Working \cup {b} /\ Writing' = Writing \ {b}
    BY <2>1, <2>2, PcMoves DEF ItemPc, InUpdate
  <2>4. Working' = Working /\ Writing' = Writing
    BY <1>1, <2>3 DEF Working, Writing
  <2>5. ChecklistTypeOK'
    BY <1>1, <2>1, <2>3 DEF ChecklistTypeOK, ItemPc
  <2>6. (\A c \in Beats : BeatFits(c))'
    BY <1>1, <2>1, <2>3 DEF BeatFits, AtItem, InUpdate, ItemAt
  <2>7. FileFits' /\ FirstLinesStay' /\ ApprovalsStay'
    <3>1. \A c \in Beats : itemPc'[c] \in InUpdate => itemPc'[c] = itemPc[c]
      BY <2>3 DEF InUpdate
    <3>2. QED
      BY <1>1, <2>1, <2>4, <3>1, FileKept
  <2>8. OnceAtMost'
    <3>1. \A i \in Lines : \A c \in Beats : (InHand(c, i)' <=> InHand(c, i)) /\ ItemAt(c)' = ItemAt(c)
      BY <1>1, <2>1, <2>3 DEF InHand, ItemAt, AtItem, InUpdate
    <3>2. QED
      BY <1>1, <2>1, <2>4, <3>1, OnceKept
  <2>9. QED
    BY <2>5, <2>6, <2>7, <2>8
<1>4. QED
  BY <1>2, <1>3

LEMMA UpdateFailsKept ==
    ASSUME ChecklistInductive, NEW b \in Beats, UpdateFails(b)
    PROVE  ChecklistInductive'
<1>1. /\ UNCHANGED <<askFirst, file, ownLines, shifted, tries>>
      /\ itemPc[b] \in AtItem /\ NextItem(b, 0)
      /\ torn' <=> (torn \/ itemPc[b] = "write")
      /\ torn' \in BOOLEAN
      /\ excused' = excused \cup {ItemAt(b).line.item}
      /\ Mishap("fault")
  BY DEF UpdateFails, AtItem, InUpdate
<1>2. acts[b] + 0 <= Quota
  BY ChecklistAssumption DEF ChecklistInductive, ChecklistTypeOK
<1>3. mishaps' \in [MishapKind -> 0..MaxMishaps] /\ mishaps'["edit"] = mishaps["edit"]
  BY <1>1, MishapCounts DEF ChecklistInductive, MishapKind
<1>4. itemPc[b] # "off"
  BY <1>1 DEF AtItem, InUpdate
<1>5. QED
  BY <1>1, <1>2, <1>3, <1>4, GoneKept

LEMMA ExecuteItemKept ==
    ASSUME ChecklistInductive, NEW b \in Beats, ExecuteItem(b)
    PROVE  ChecklistInductive'
<1> USE DEF ChecklistInductive
<1>1. /\ UNCHANGED <<askFirst, file, listed, acts, content, mishaps, ownLines, shifted, excused, torn>>
      /\ itemPc[b] = "items" /\ listed[b] # {} /\ acts[b] < Quota
      /\ ~(askFirst /\ ItemAt(b).line.mark = "approval")
      /\ itemPc' = [itemPc EXCEPT ![b] = "execute"]
  BY DEF ExecuteItem, TakesItem, NeedsApproval
<1>2. PICK j \in Lines : j = ItemAt(b).line.item
  BY <1>1, HandIsListed
<1>3. tries[j] < MaxTries /\ tries' = [tries EXCEPT ![j] = tries[j] + 1]
  BY <1>2 DEF ExecuteItem
<1>4. tries' \in [Lines -> 0..MaxTries] /\ tries'[j] = tries[j] + 1
        /\ \A i \in Lines : i # j => tries'[i] = tries[i]
  BY <1>3, ChecklistAssumption DEF ChecklistTypeOK
<1>5. itemPc \in [Beats -> ItemPc]
  BY DEF ChecklistTypeOK, ItemPc
<1>6. /\ itemPc' \in [Beats -> ItemPc]
      /\ itemPc'[b] = "execute" /\ \A c \in Beats : c # b => itemPc'[c] = itemPc[c]
      /\ Working' = Working \cup {b} /\ Writing' = Writing \ {b}
  BY <1>1, <1>5, PcMoves DEF ItemPc, InUpdate
<1>7. Working' = Working /\ Writing' = Writing
  BY <1>1, <1>6 DEF Working, Writing
<1>8. ChecklistTypeOK'
  BY <1>1, <1>4, <1>6 DEF ChecklistTypeOK, ItemPc
<1>9. (\A c \in Beats : BeatFits(c))'
  BY <1>1, <1>6 DEF BeatFits, AtItem, InUpdate, ItemAt
<1>10. FileFits' /\ FirstLinesStay' /\ ApprovalsStay'
  <2>1. ASSUME askFirst, mishaps["edit"] = 0, ~torn, NEW n \in DOMAIN FirstFile,
               FirstFile[n].mark = "approval"
        PROVE  tries'[FirstFile[n].item] = tries[FirstFile[n].item]
    <3>1. FirstFile[n].item \in Lines
      BY ChecklistAssumption, LinesHaveItems
    <3>2. ItemAt(b) \in listed[b]
      BY <1>1, HandIsListed
    <3>3. IsLineOf(ItemAt(b), FirstFile) /\ (ItemAt(b).at = n => ItemAt(b).line = FirstFile[n])
      BY <2>1, <3>2 DEF FirstLinesStay, ApprovalsStay, LineAwaits
    <3>4. FirstFile[n].item # j
      BY <1>1, <1>2, <2>1, <3>3, ChecklistAssumption DEF IsLineOf
    <3>5. QED
      BY <1>4, <3>1, <3>4
  <2>2. \A c \in Beats : itemPc'[c] \in InUpdate => itemPc'[c] = itemPc[c]
    BY <1>6 DEF InUpdate
  <2>3. QED
    BY <1>1, <1>7, <2>1, <2>2, FileKept
<1>11. OnceAtMost'
  <2> SUFFICES ASSUME NEW i \in Lines \ excused'
               PROVE  (/\ mishaps["edit"] = 0
                       /\ \A c, d \in Working : c = d
                       /\ tries[i] <= 1
                       /\ tries[i] # 0 => OnceExecuted(i))'
    BY DEF OnceAtMost
  <2>1. /\ i \in Lines \ excused /\ mishaps["edit"] = 0
        /\ \A c, d \in Working : c = d
        /\ tries[i] <= 1 /\ (tries[i] # 0 => OnceExecuted(i))
    BY <1>1 DEF OnceAtMost
  <2>2. CASE i # j
    <3>1. \A c \in Beats : (InHand(c, i)' <=> InHand(c, i)) /\ ItemAt(c)' = ItemAt(c)
      BY <1>1, <1>2, <1>6, <2>2 DEF InHand, ItemAt, AtItem, InUpdate
    <3>2. OnceExecuted(i) => OnceExecuted(i)'
      BY <1>1, <3>1 DEF OnceExecuted, Done
    <3>3. QED
      BY <1>1, <1>4, <1>7, <2>1, <2>2, <3>2
  <2>3. CASE i = j
    <3>1. tries[i] = 0
      <4>1. ~InHand(b, i) /\ ItemAt(b) \in listed[b]
        BY <1>1, HandIsListed DEF InHand, AtItem, InUpdate
      <4>2. ~OnceExecuted(i)
        BY <1>2, <2>3, <4>1 DEF OnceExecuted
      <4>3. QED
        BY <2>1, <4>2
    <3>2. InHand(b, i)'
      BY <1>1, <1>2, <1>6, <2>3 DEF InHand, ItemAt, AtItem
    <3>3. \A e \in listed[b] : e.line.item = i => e = ItemAt(b)
      <4>1. \A e \in listed[b] : IsLineOf(e, FirstFile)
        BY <2>1 DEF FirstLinesStay
      <4>2. ItemAt(b) \in listed[b] /\ listed[b] \in SUBSET Entry
        BY <1>1, HandIsListed DEF ChecklistTypeOK, Entry
      <4>3. \A e \in listed[b] : e.line.item = i => e.at = ItemAt(b).at
        BY <1>2, <2>3, <4>1, <4>2, ChecklistAssumption DEF IsLineOf
      <4>4. \A e \in listed[b] : e.at = ItemAt(b).at => e = ItemAt(b)
        BY <4>2 DEF BeatFits
      <4>5. QED
        BY <4>3, <4>4
    <3>4. \A c \in Beats : c # b => listed[c] = {} /\ content[c] = <<>>
      BY <1>1, <2>1 DEF Working, BeatFits, InUpdate
    <3>5. content[b] = <<>>
      BY <1>1 DEF BeatFits, InUpdate
    <3>6. OnceExecuted(i)'
      BY <1>1, <3>2, <3>3, <3>4, <3>5 DEF OnceExecuted, Done, ItemAt
    <3>7. QED
      BY <1>1, <1>4, <1>7, <2>1, <2>3, <3>1, <3>6
  <2>4. QED
    BY <2>2, <2>3
<1>12. QED
  BY <1>8, <1>9, <1>10, <1>11

LEMMA TruncateFileKept ==
    ASSUME ChecklistInductive, NEW b \in Beats, TruncateFile(b)
    PROVE  ChecklistInductive'
<1> USE DEF ChecklistInductive
<1>1. /\ UNCHANGED <<askFirst, listed, acts, content, mishaps, ownLines, shifted, tries, excused>>
      /\ itemPc[b] = "truncate" /\ itemPc' = [itemPc EXCEPT ![b] = "write"] /\ file' = <<>>
      /\ torn' = (torn \/ Updating # {b})
  BY DEF TruncateFile
<1>2. itemPc \in [Beats -> ItemPc]
  BY DEF ChecklistTypeOK, ItemPc
<1>3. /\ itemPc' \in [Beats -> ItemPc]
      /\ itemPc'[b] = "write" /\ \A c \in Beats : c # b => itemPc'[c] = itemPc[c]
      /\ Working' = Working \cup {b} /\ Updating' = Updating \cup {b} /\ Writing' = Writing \cup {b}
  BY <1>1, <1>2, PcMoves DEF ItemPc, InUpdate
<1>4. ChecklistTypeOK'
  <2>1. <<>> \in Seq(FileLine)
    OBVIOUS
  <2>2. torn' \in BOOLEAN
    BY <1>1
  <2>3. QED
    BY <1>1, <1>3, <2>1, <2>2 DEF ChecklistTypeOK, ItemPc
<1>5. (\A c \in Beats : BeatFits(c))'
  BY <1>1, <1>3 DEF BeatFits, AtItem, InUpdate, ItemAt
<1>6. Working' = Working
  BY <1>1, <1>3 DEF Working
<1>7. ASSUME ~torn'
      PROVE  /\ ~torn /\ Updating' = {b} /\ Writing = {} /\ Writing' = {b}
             /\ content'[b] = file
  BY <1>1, <1>3, <1>7 DEF FileFits, Updating, Writing
<1>8. FileFits'
  <2> SUFFICES ASSUME ~torn' PROVE FileFits'
    BY DEF FileFits
  <2>1. \A c \in Beats : itemPc'[c] = "truncate" => c \in Updating' /\ c # b
    BY <1>3 DEF Updating
  <2>2. ItemsOf(file) = ownLines
    BY <1>7 DEF FileFits
  <2>3. \A c \in Working \ shifted : \A e \in listed[c] : IsLineOf(e, file)
    BY <1>7 DEF FileFits
  <2>4. QED
    BY <1>1, <1>6, <1>7, <2>1, <2>2, <2>3 DEF FileFits, ItemsOf, IsLineOf
<1>9. FirstLinesStay'
  BY <1>1 DEF FirstLinesStay, Unedited, IsLineOf
<1>10. ApprovalsStay'
  <2>1. ASSUME ~torn', askFirst, mishaps["edit"] = 0, NEW n \in DOMAIN FirstFile,
               FirstFile[n].mark = "approval"
        PROVE  LineAwaits(n)'
    <3>1. LineAwaits(n) /\ Writing = {} /\ Writing' = {b} /\ content'[b] = file
      BY <1>7, <2>1 DEF ApprovalsStay
    <3>2. Awaits(n, file)
      BY <3>1 DEF LineAwaits
    <3>3. /\ \A c \in Writing' : Awaits(n, content'[c])
          /\ Writing' # {}
      BY <3>1, <3>2
    <3>4. QED
      BY <1>1, <3>1, <3>3 DEF LineAwaits, Awaits
  <2>2. QED
    BY <1>1, <2>1 DEF ApprovalsStay
<1>11. OnceAtMost'
  <2>1. \A i \in Lines : \A c \in Beats : (InHand(c, i)' <=> InHand(c, i)) /\ ItemAt(c)' = ItemAt(c)
    BY <1>1, <1>3 DEF InHand, ItemAt, AtItem, InUpdate
  <2>2. \A i \in Lines : OnceExecuted(i) => OnceExecuted(i)'
    BY <1>1, <2>1 DEF OnceExecuted, Done
  <2>3. QED
    BY <1>1, <1>6, <2>2 DEF OnceAtMost
<1>12. QED
  BY <1>4, <1>5, <1>8, <1>9, <1>10, <1>11

LEMMA ReadContentKept ==
    ASSUME ChecklistInductive, NEW b \in Beats, ReadContent(b)
    PROVE  ChecklistInductive'
<1> USE DEF ChecklistInductive
<1>1. /\ UNCHANGED <<askFirst, file, listed, acts, mishaps, ownLines, shifted, tries, excused>>
      /\ itemPc[b] = "read" /\ itemPc' = [itemPc EXCEPT ![b] = "truncate"]
      /\ content' = [content EXCEPT ![b] = file]
      /\ torn' = (torn \/ Updating # {})
  BY DEF ReadContent
<1>2. itemPc \in [Beats -> ItemPc] /\ content \in [Beats -> Seq(FileLine)] /\ file \in Seq(FileLine)
  BY DEF ChecklistTypeOK, ItemPc
<1>3. /\ itemPc' \in [Beats -> ItemPc]
      /\ itemPc'[b] = "truncate" /\ \A c \in Beats : c # b => itemPc'[c] = itemPc[c]
      /\ Working' = Working \cup {b} /\ Updating' = Updating \cup {b} /\ Writing' = Writing \ {b}
  BY <1>1, <1>2, PcMoves DEF ItemPc, InUpdate
<1>4. content' \in [Beats -> Seq(FileLine)] /\ content'[b] = file
        /\ \A c \in Beats : c # b => content'[c] = content[c]
  BY <1>1, <1>2
<1>5. ChecklistTypeOK'
  <2>1. torn' \in BOOLEAN
    BY <1>1
  <2>2. QED
    BY <1>1, <1>3, <1>4, <2>1 DEF ChecklistTypeOK, ItemPc
<1>6. (\A c \in Beats : BeatFits(c))'
  BY <1>1, <1>3, <1>4 DEF BeatFits, AtItem, InUpdate, ItemAt
<1>7. Working' = Working /\ Writing' = Writing
  BY <1>1, <1>3 DEF Working, Writing
<1>8. ~torn' => ~torn /\ Updating' = {b} /\ Writing = {}
  BY <1>1, <1>3 DEF Updating, Writing
<1>9. FileFits'
  <2> SUFFICES ASSUME ~torn' PROVE FileFits'
    BY DEF FileFits
  <2>1. \A c \in Beats : itemPc'[c] = "truncate" => c = b
    BY <1>8 DEF Updating
  <2>2. ItemsOf(file) = ownLines
    BY <1>8 DEF FileFits
  <2>3. \A c \in Working \ shifted : \A e \in listed[c] : IsLineOf(e, file)
    BY <1>8 DEF FileFits
  <2>4. QED
    BY <1>1, <1>4, <1>7, <1>8, <2>1, <2>2, <2>3 DEF FileFits, ItemsOf, IsLineOf
<1>10. FirstLinesStay'
  BY <1>1, <1>4 DEF FirstLinesStay, Unedited, IsLineOf
<1>11. ApprovalsStay'
  BY <1>1, <1>7, <1>8 DEF ApprovalsStay, LineAwaits, Awaits
<1>12. OnceAtMost'
  <2> SUFFICES ASSUME NEW i \in Lines \ excused'
               PROVE  (/\ mishaps["edit"] = 0
                       /\ \A c, d \in Working : c = d
                       /\ tries[i] <= 1
                       /\ tries[i] # 0 => OnceExecuted(i))'
    BY DEF OnceAtMost
  <2>1. /\ i \in Lines \ excused /\ mishaps["edit"] = 0
        /\ \A c, d \in Working : c = d
        /\ tries[i] <= 1 /\ (tries[i] # 0 => OnceExecuted(i))
    BY <1>1 DEF OnceAtMost
  <2>2. \A c \in Beats : (InHand(c, i)' <=> InHand(c, i)) /\ ItemAt(c)' = ItemAt(c)
    BY <1>1, <1>3 DEF InHand, ItemAt, AtItem, InUpdate
  <2>3. ASSUME OnceExecuted(i), ~InHand(b, i)
        PROVE  Done(i, file)
    <3>1. \A c \in Beats : c # b => ~InHand(c, i)
      BY <1>1, <2>1 DEF InHand, AtItem, InUpdate, Working
    <3>2. QED
      BY <2>3, <3>1 DEF OnceExecuted
  <2>4. OnceExecuted(i) => OnceExecuted(i)'
    BY <1>1, <1>4, <2>2, <2>3 DEF OnceExecuted, Done
  <2>5. QED
    BY <1>1, <1>7, <2>1, <2>4
<1>13. QED
  BY <1>5, <1>6, <1>9, <1>10, <1>11, <1>12

LEMMA ListItemsKept ==
    ASSUME ChecklistInductive, NEW b \in Beats, NEW used \in 0..Quota - 1, ListItems(b, used)
    PROVE  ChecklistInductive'
<1> USE DEF ChecklistInductive
<1> DEFINE list == {[at |-> n, line |-> file[n]] : n \in OpenLines(file)}
<1>1. /\ UNCHANGED <<askFirst, file, content, mishaps, ownLines, tries>>
      /\ itemPc[b] = "off" /\ itemPc' = [itemPc EXCEPT ![b] = "items"]
      /\ listed' = [listed EXCEPT ![b] = list]
      /\ acts' = [acts EXCEPT ![b] = used] /\ shifted' = shifted \ {b}
      /\ excused' = (IF Working = {} THEN excused ELSE Lines)
      /\ torn' = (torn \/ Writing # {})
  BY DEF ListItems
<1>2. itemPc \in [Beats -> ItemPc] /\ listed \in [Beats -> SUBSET Entry]
        /\ acts \in [Beats -> 0..Quota] /\ file \in Seq(FileLine)
  BY DEF ChecklistTypeOK, ItemPc, Entry
<1>3. \A n \in DOMAIN file : file[n] \in FileLine /\ n \in Nat \ {0}
  BY <1>2, LinesHaveItems
<1>4. /\ list \in SUBSET Entry
      /\ \A e \in list : /\ e.at \in DOMAIN file /\ e.line = file[e.at]
                         /\ file[e.at].mark \in {"open", "approval"}
      /\ \A e, f \in list : e.at = f.at => e = f
  BY <1>3 DEF Entry, OpenLines
<1> HIDE DEF list
<1>5. /\ itemPc' \in [Beats -> ItemPc]
      /\ itemPc'[b] = "items" /\ \A c \in Beats : c # b => itemPc'[c] = itemPc[c]
      /\ Working' = Working \cup {b} /\ Updating' = Updating \ {b} /\ Writing' = Writing \ {b}
  BY <1>1, <1>2, PcMoves DEF ItemPc, InUpdate
<1>6. /\ listed' \in [Beats -> SUBSET Entry] /\ listed'[b] = list
      /\ \A c \in Beats : c # b => listed'[c] = listed[c]
  BY <1>1, <1>2, <1>4
<1>7. acts' \in [Beats -> 0..Quota] /\ \A c \in Beats : c # b => acts'[c] = acts[c]
  BY <1>1, <1>2, ChecklistAssumption
<1>8. ChecklistTypeOK'
  <2>1. torn' \in BOOLEAN /\ excused' \subseteq Lines /\ shifted' \subseteq Beats
    BY <1>1 DEF ChecklistTypeOK
  <2>2. QED
    BY <1>1, <1>5, <1>6, <1>7, <2>1 DEF ChecklistTypeOK, ItemPc, Entry
<1>9. (\A c \in Beats : BeatFits(c))'
  BY <1>1, <1>4, <1>5, <1>6, <1>7 DEF BeatFits, AtItem, InUpdate, ItemAt
<1>10. Writing' = Writing /\ Updating' = Updating /\ (~torn' => ~torn /\ Writing = {})
  BY <1>1, <1>5 DEF Writing, Updating
<1>11. FileFits'
  <2> SUFFICES ASSUME ~torn' PROVE FileFits'
    BY DEF FileFits
  <2>1. (\A c, d \in Updating : c = d) /\ ItemsOf(file) = ownLines
    BY <1>10 DEF FileFits
  <2>2. \A c \in Beats : itemPc'[c] = "truncate" => content[c] = file
    BY <1>5, <1>10 DEF FileFits
  <2>3. \A c \in Working' \ shifted' : \A e \in listed'[c] : IsLineOf(e, file)
    <3>1. ASSUME NEW c \in Working' \ shifted', NEW e \in listed'[c]
          PROVE  IsLineOf(e, file)
      <4>1. CASE c = b
        BY <1>4, <1>6, <3>1, <4>1 DEF IsLineOf
      <4>2. CASE c # b
        BY <1>1, <1>5, <1>6, <1>10, <3>1, <4>2 DEF FileFits, Working
      <4>3. QED
        BY <4>1, <4>2
    <3>2. QED
      BY <3>1
  <2>4. QED
    BY <1>1, <1>10, <2>1, <2>2, <2>3 DEF FileFits, ItemsOf, IsLineOf
<1>12. FirstLinesStay'
  <2> SUFFICES ASSUME mishaps["edit"] = 0 PROVE FirstLinesStay'
    BY <1>1 DEF FirstLinesStay
  <2>1. \A e \in list : IsLineOf(e, FirstFile)
    BY <1>4 DEF FirstLinesStay, Unedited, IsLineOf
  <2>2. \A c \in Beats : \A e \in listed'[c] : IsLineOf(e, FirstFile)
    BY <1>6, <2>1 DEF FirstLinesStay
  <2>3. QED
    BY <1>1, <2>2 DEF FirstLinesStay, Unedited, IsLineOf
<1>13. ApprovalsStay'
  <2> SUFFICES ASSUME askFirst, mishaps["edit"] = 0, ~torn', NEW n \in DOMAIN FirstFile,
                      FirstFile[n].mark = "approval"
               PROVE  LineAwaits(n)'
    BY <1>1 DEF ApprovalsStay
  <2>1. LineAwaits(n) /\ Awaits(n, file)
    BY <1>10 DEF ApprovalsStay, LineAwaits
  <2>2. \A c \in Beats : \A e \in listed'[c] : e.at = n => e.line = FirstFile[n]
    BY <1>4, <1>6, <2>1 DEF LineAwaits, Awaits
  <2>3. QED
    BY <1>1, <1>10, <2>1, <2>2 DEF LineAwaits, Awaits
<1>14. OnceAtMost'
  <2> SUFFICES ASSUME NEW i \in Lines \ excused'
               PROVE  (/\ mishaps["edit"] = 0
                       /\ \A c, d \in Working : c = d
                       /\ tries[i] <= 1
                       /\ tries[i] # 0 => OnceExecuted(i))'
    BY DEF OnceAtMost
  <2>1. Working = {} /\ i \in Lines \ excused
    BY <1>1
  <2>2. mishaps["edit"] = 0 /\ tries[i] <= 1 /\ (tries[i] # 0 => OnceExecuted(i))
    BY <2>1 DEF OnceAtMost
  <2>3. \A c \in Beats : ~InHand(c, i) /\ ~InHand(c, i)' /\ (c # b => listed[c] = {}) /\ content[c] = <<>>
    BY <1>5, <2>1 DEF InHand, AtItem, InUpdate, Working, BeatFits
  <2>4. ASSUME tries[i] # 0
        PROVE  OnceExecuted(i)'
    <3>1. Done(i, file)
      BY <2>2, <2>3, <2>4 DEF OnceExecuted
    <3>2. \A e \in list : e.line.item # i
      BY <1>4, <3>1 DEF Done
    <3>3. QED
      BY <1>1, <1>6, <2>3, <3>1, <3>2 DEF OnceExecuted, Done
  <2>5. QED
    BY <1>1, <1>5, <2>1, <2>2, <2>4
<1>15. QED
  BY <1>8, <1>9, <1>11, <1>12, <1>13, <1>14

\* The item that was executed is marked, and every other line is as it was.
LEMMA WriteContentKept ==
    ASSUME ChecklistInductive, NEW b \in Beats, WriteContent(b)
    PROVE  /\ ChecklistInductive'
           /\ b \notin shifted /\ ~torn =>
                /\ [item |-> ItemAt(b).line.item, mark |-> "done"] \in ToSet(file')
                /\ \A n \in DOMAIN content[b] :
                       content[b][n].item # ItemAt(b).line.item => file'[n] = content[b][n]
<1> USE DEF ChecklistInductive
<1>1. /\ UNCHANGED <<askFirst, mishaps, ownLines, shifted, tries, excused, torn>>
      /\ itemPc[b] = "write" /\ NextItem(b, 1)
      /\ file' = Marked(content[b], ItemAt(b).at)
  BY DEF WriteContent, ActionsOfItem, checklistHistory
<1>2. listed[b] # {} /\ acts[b] < Quota /\ ~(askFirst /\ ItemAt(b).line.mark = "approval")
  BY <1>1 DEF BeatFits, AtItem, InUpdate
<1>3. acts[b] + 1 <= Quota
  BY <1>2, ChecklistAssumption DEF ChecklistTypeOK
<1>4. /\ itemPc' \in [Beats -> ItemPc]
      /\ itemPc'[b] = "items" /\ \A c \in Beats : c # b => itemPc'[c] = itemPc[c]
      /\ listed' \in [Beats -> SUBSET Entry]
      /\ listed'[b] = listed[b] \ {ItemAt(b)}
      /\ \A c \in Beats : c # b => listed'[c] = listed[c]
      /\ acts' \in [Beats -> 0..Quota]
      /\ content' \in [Beats -> Seq(FileLine)]
      /\ content'[b] = <<>> /\ \A c \in Beats : c # b => content'[c] = content[c]
      /\ Working' = Working \cup {b}
      /\ Updating' = Updating \ {b} /\ Writing' = Writing \ {b}
  BY <1>1, <1>3, ItemGone
<1>5. PICK h \in Entry : h = ItemAt(b)
  BY <1>2, HandIsListed
<1>6. h \in listed[b] /\ h.line \in FileLine /\ h.line.item \in Lines
  BY <1>2, <1>5, HandIsListed
<1>7. content[b] \in Seq(FileLine)
  BY DEF ChecklistTypeOK
\* What the write makes of the copied.
<1>8. /\ file' \in Seq(FileLine) /\ DOMAIN file' = DOMAIN content[b]
      /\ \A n \in DOMAIN content[b] :
             /\ file'[n].item = content[b][n].item
             /\ n # h.at => file'[n] = content[b][n]
             /\ n = h.at => file'[n] = [item |-> content[b][n].item, mark |-> "done"]
  <2>1. CASE h.at \notin DOMAIN content[b]
    BY <1>1, <1>5, <1>7, <2>1 DEF Marked
  <2>2. CASE h.at \in DOMAIN content[b]
    <3>1. file' = [content[b] EXCEPT ![h.at] = [content[b][h.at] EXCEPT !.mark = "done"]]
      BY <1>1, <1>5, <2>2 DEF Marked
    <3>2. content[b][h.at] \in FileLine
      BY <1>7, <2>2, LinesHaveItems
    <3>3. [content[b][h.at] EXCEPT !.mark = "done"] \in FileLine
            /\ [content[b][h.at] EXCEPT !.mark = "done"] = [item |-> content[b][h.at].item, mark |-> "done"]
      BY <3>2 DEF FileLine, Mark
    <3>4. PICK d \in FileLine : d = [content[b][h.at] EXCEPT !.mark = "done"]
      BY <3>3
    <3>5. file' = [content[b] EXCEPT ![h.at] = d]
            /\ d = [item |-> content[b][h.at].item, mark |-> "done"]
      BY <3>1, <3>3, <3>4
    <3>6. file' \in Seq(FileLine) /\ DOMAIN file' = DOMAIN content[b]
      BY <1>7, <2>2, <3>4, <3>5, ExceptSeq
    <3>7. file'[h.at] = d /\ \A n \in DOMAIN content[b] : n # h.at => file'[n] = content[b][n]
      BY <1>7, <2>2, <3>5
    <3>8. d.item = content[b][h.at].item
      BY <3>5
    <3>9. QED
      BY <3>5, <3>6, <3>7, <3>8
  <2>3. QED
    BY <2>1, <2>2
<1>9. ItemsOf(file') = ItemsOf(content[b])
  BY <1>8 DEF ItemsOf
<1>10. ChecklistTypeOK'
  BY <1>1, <1>4, <1>8 DEF ChecklistTypeOK, ItemPc, Entry
<1>11. (\A c \in Beats : BeatFits(c))'
  <2>1. \A c \in Beats : c # b => acts'[c] = acts[c]
    BY <1>1 DEF NextItem, ChecklistTypeOK
  <2>2. QED
    BY <1>1, <1>4, <2>1 DEF BeatFits, AtItem, InUpdate, ItemAt
<1>12. Working' = Working /\ b \in Writing
  BY <1>1, <1>4 DEF Working, Writing
<1>13. ASSUME ~torn
       PROVE  /\ Writing' = {} /\ ItemsOf(content[b]) = ownLines
              /\ \A c \in Beats : itemPc'[c] # "truncate"
              /\ Updating' = {}
              /\ \A c \in Working \ shifted : \A e \in listed[c] : IsLineOf(e, content[b])
  <2>1. Updating = {b}
    BY <1>1, <1>13 DEF FileFits, Updating
  <2>2. Updating' = {} /\ Writing' = {}
    BY <1>4, <2>1 DEF Updating, Writing
  <2>3. QED
    BY <1>12, <1>13, <2>2 DEF FileFits, Updating
<1>14. FileFits'
  <2> SUFFICES ASSUME ~torn PROVE FileFits'
    BY <1>1 DEF FileFits
  <2>1. \A c \in Working' \ shifted' : \A e \in listed'[c] : IsLineOf(e, file')
    <3>1. \A c \in Beats : listed'[c] \subseteq listed[c]
      BY <1>4
    <3>2. \A c \in Working \ shifted : \A e \in listed'[c] : IsLineOf(e, content[b])
      BY <1>13, <3>1 DEF Working
    <3>3. QED
      BY <1>1, <1>8, <1>12, <3>2 DEF IsLineOf
  <2>2. QED
    BY <1>1, <1>9, <1>13, <2>1 DEF FileFits, ItemsOf, IsLineOf
<1>15. FirstLinesStay'
  <2> SUFFICES ASSUME mishaps["edit"] = 0 PROVE FirstLinesStay'
    BY <1>1 DEF FirstLinesStay
  <2>1. Unedited(content[b])
    BY DEF FirstLinesStay
  <2>2. Unedited(file')
    <3>1. CASE content[b] = <<>>
      BY <1>8, <3>1 DEF Unedited
    <3>2. CASE content[b] # <<>>
      BY <1>8, <2>1, <3>2 DEF Unedited
    <3>3. QED
      BY <3>1, <3>2
  <2>3. \A c \in Beats : Unedited(content'[c])
    <3>1. Unedited(<<>>) /\ \A c \in Beats : Unedited(content[c])
      BY DEF FirstLinesStay, Unedited
    <3>2. \A c \in Beats : content'[c] = <<>> \/ content'[c] = content[c]
      BY <1>4
    <3>3. QED
      BY <3>1, <3>2
  <2>4. \A c \in Beats : \A e \in listed'[c] : IsLineOf(e, FirstFile)
    BY <1>4 DEF FirstLinesStay
  <2>5. QED
    BY <1>1, <2>2, <2>3, <2>4 DEF FirstLinesStay, Unedited, IsLineOf
<1>16. ApprovalsStay'
  <2> SUFFICES ASSUME askFirst, mishaps["edit"] = 0, ~torn, NEW n \in DOMAIN FirstFile,
                      FirstFile[n].mark = "approval"
               PROVE  LineAwaits(n)'
    BY <1>1 DEF ApprovalsStay
  <2>1. LineAwaits(n) /\ Awaits(n, content[b])
    BY <1>12 DEF ApprovalsStay, LineAwaits
  <2>2. h.at # n
    BY <1>2, <1>5, <1>6, <2>1 DEF LineAwaits
  <2>3. Awaits(n, file')
    BY <1>8, <2>1, <2>2 DEF Awaits
  <2>4. \A c \in Beats : \A e \in listed'[c] : e.at = n => e.line = FirstFile[n]
    BY <1>4, <2>1 DEF LineAwaits
  <2>5. QED
    BY <1>1, <1>13, <2>1, <2>3, <2>4 DEF LineAwaits, Awaits
<1>17. OnceAtMost'
  <2> SUFFICES ASSUME NEW i \in Lines \ excused'
               PROVE  (/\ mishaps["edit"] = 0
                       /\ \A c, d \in Working : c = d
                       /\ tries[i] <= 1
                       /\ tries[i] # 0 => OnceExecuted(i))'
    BY DEF OnceAtMost
  <2>1. /\ i \in Lines \ excused /\ mishaps["edit"] = 0
        /\ \A c, d \in Working : c = d
        /\ tries[i] <= 1 /\ (tries[i] # 0 => OnceExecuted(i))
    BY <1>1 DEF OnceAtMost
  <2>2. \A c \in Beats : c # b => listed[c] = {} /\ itemPc[c] = "off"
    BY <1>1, <2>1 DEF Working, BeatFits
  <2>3. ASSUME OnceExecuted(i)
        PROVE  OnceExecuted(i)'
    <3>1. \A c \in Beats : ~InHand(c, i)'
      BY <1>4, <2>2 DEF InHand, AtItem, InUpdate
    <3>2. \A c \in Beats : \A e \in listed'[c] : e.line.item # i
      BY <1>4, <1>5, <2>2, <2>3 DEF OnceExecuted
    <3>3. Done(i, file')
      <4> DEFINE copied == content[b]
      <4>0. /\ DOMAIN file' = DOMAIN copied
            /\ \A n \in DOMAIN copied : file'[n].item = copied[n].item
            /\ \A n \in DOMAIN copied : n = h.at => file'[n].mark = "done"
            /\ \A n \in DOMAIN copied : n # h.at => file'[n].mark = copied[n].mark
        <5>1. DOMAIN file' = DOMAIN copied /\ (\A n \in DOMAIN copied : file'[n].item = copied[n].item)
          BY <1>8
        <5>2. \A n \in DOMAIN copied : n = h.at => file'[n] = [item |-> copied[n].item, mark |-> "done"]
          BY <1>8
        <5>3. \A n \in DOMAIN copied : n # h.at => file'[n] = copied[n]
          BY <1>8
        <5> HIDE DEF copied
        <5>4. QED
          BY <5>1, <5>2, <5>3
      <4> HIDE DEF copied
      <4>1. CASE h.line.item # i
        <5>1. Done(i, copied)
          BY <1>5, <2>3, <4>1 DEF OnceExecuted, InHand, copied
        <5>2. QED
          BY <4>0, <5>1 DEF Done
      <4>2. CASE h.line.item = i
        <5>1. IsLineOf(h, FirstFile) /\ Unedited(copied)
          BY <1>6, <2>1 DEF FirstLinesStay, copied
        <5>2. \A n \in DOMAIN copied : copied[n].item = i => n = h.at
          BY <4>2, <5>1, ChecklistAssumption DEF IsLineOf, Unedited
        <5>3. QED
          BY <4>0, <5>2 DEF Done
      <4>3. QED
        BY <4>1, <4>2
    <3>4. \A c \in Beats : Done(i, content'[c])
      <4>1. \A c \in Beats : content'[c] = <<>>
        BY <1>4, <2>2 DEF BeatFits, InUpdate
      <4>2. QED
        BY <4>1 DEF Done
    <3>5. QED
      BY <3>1, <3>2, <3>3, <3>4 DEF OnceExecuted, Done
  <2>4. QED
    BY <1>1, <1>12, <2>1, <2>3
<1>18. ASSUME b \notin shifted, ~torn
       PROVE  /\ [item |-> h.line.item, mark |-> "done"] \in ToSet(file')
              /\ \A n \in DOMAIN content[b] :
                     content[b][n].item # h.line.item => file'[n] = content[b][n]
  <2>1. IsLineOf(h, content[b])
    BY <1>1, <1>6, <1>13, <1>18 DEF Working
  <2>2. QED
    BY <1>8, <2>1 DEF IsLineOf, ToSet
<1>19. QED
  BY <1>5, <1>10, <1>11, <1>14, <1>15, <1>16, <1>17, <1>18

-----------------------------------------------------------------------------
(* The user, and the end of the process *)

LEMMA EditsAreFiles ==
    ASSUME ChecklistTypeOK, NEW f \in EditedFiles
    PROVE  f \in Seq(FileLine)
<1>1. file \in Seq(FileLine)
  BY DEF ChecklistTypeOK
<1>2. ASSUME NEW l \in [item : Lines \ ownLines, mark : {"open", "approval"}]
      PROVE  <<l>> \o file \in Seq(FileLine)
  <2>1. l \in FileLine
    BY DEF FileLine, Mark
  <2>2. QED
    BY <1>1, <2>1
<1>3. ASSUME NEW n \in DOMAIN file
      PROVE  RemoveAt(file, n) \in Seq(FileLine)
  <2>1. n \in 1..Len(file) /\ Len(file) \in Nat
    BY <1>1
  <2>2. SubSeq(file, 1, n - 1) \in Seq(FileLine) /\ SubSeq(file, n + 1, Len(file)) \in Seq(FileLine)
    BY <1>1, <2>1
  <2>3. QED
    BY <2>2 DEF RemoveAt
<1>4. ASSUME NEW n \in DOMAIN file
      PROVE  [file EXCEPT ![n].mark = "open"] \in Seq(FileLine)
  <2>1. [file[n] EXCEPT !.mark = "open"] \in FileLine
    BY <1>1, LinesHaveItems DEF FileLine, Mark
  <2>2. QED
    BY <1>1, <2>1, ExceptSeq
<1>5. \/ \E l \in [item : Lines \ ownLines, mark : {"open", "approval"}] : f = <<l>> \o file
      \/ \E n \in DOMAIN file : f = RemoveAt(file, n)
      \/ \E n \in DOMAIN file : f = [file EXCEPT ![n].mark = "open"]
  BY Zenon DEF EditedFiles
<1>6. QED
  BY <1>2, <1>3, <1>4, <1>5, Zenon

LEMMA UserEditsKept ==
    ASSUME ChecklistInductive, NEW f \in EditedFiles, UserEdits(f)
    PROVE  ChecklistInductive'
<1> USE DEF ChecklistInductive
<1>1. /\ UNCHANGED <<askFirst, itemPc, listed, acts, content, tries>>
      /\ file' = f /\ shifted' = Working /\ excused' = excused \cup Lines
      /\ ownLines' = ItemsOf(f) \cup (IF Writing # {} THEN ownLines ELSE {})
      /\ torn' = (torn \/ Updating # {})
  BY DEF UserEdits, workVars
<1>2. mishaps' \in [MishapKind -> 0..MaxMishaps] /\ mishaps'["edit"] # 0
  BY MishapCounts DEF UserEdits, MishapKind
<1>3. f \in Seq(FileLine)
  BY EditsAreFiles
<1>4. ItemsOf(f) \subseteq Lines
  BY <1>3, LinesHaveItems DEF ItemsOf
<1>5. ChecklistTypeOK'
  <2>1. ownLines' \subseteq Lines /\ excused' \subseteq Lines /\ shifted' \subseteq Beats /\ torn' \in BOOLEAN
    BY <1>1, <1>4 DEF ChecklistTypeOK, Working
  <2>2. QED
    BY <1>1, <1>2, <1>3, <2>1 DEF ChecklistTypeOK, MishapKind
<1>6. (\A c \in Beats : BeatFits(c))'
  BY <1>1 DEF BeatFits, AtItem, InUpdate, ItemAt
<1>7. FileFits'
  <2> SUFFICES ASSUME ~torn' PROVE FileFits'
    BY DEF FileFits
  <2>1. Working' = Working /\ Updating' = {} /\ Writing' = {} /\ Writing = {}
    BY <1>1 DEF Working, Updating, Writing
  <2>2. \A c \in Beats : itemPc'[c] # "truncate"
    BY <2>1 DEF Updating
  <2>3. QED
    BY <1>1, <2>1, <2>2 DEF FileFits
<1>8. FirstLinesStay' /\ ApprovalsStay'
  BY <1>2 DEF FirstLinesStay, ApprovalsStay
<1>9. OnceAtMost'
  BY <1>1 DEF OnceAtMost
<1>10. QED
  BY <1>5, <1>6, <1>7, <1>8, <1>9

LEMMA KilledKept ==
    ASSUME ChecklistInductive, Killed
    PROVE  ChecklistInductive'
<1> USE DEF ChecklistInductive
<1>1. /\ UNCHANGED <<askFirst, file, ownLines, shifted, tries>>
      /\ itemPc' = [b \in Beats |-> "off"] /\ listed' = [b \in Beats |-> {}]
      /\ acts' = [b \in Beats |-> 0] /\ content' = [b \in Beats |-> <<>>]
      /\ excused' = (IF Working = {} THEN excused ELSE Lines)
      /\ torn' = (torn \/ Writing # {})
  BY DEF Killed
<1>2. mishaps' \in [MishapKind -> 0..MaxMishaps] /\ mishaps'["edit"] = mishaps["edit"]
  BY MishapCounts DEF Killed, MishapKind
<1>3. ChecklistTypeOK'
  <2>1. \A b \in Beats : <<>> \in Seq(FileLine)
    OBVIOUS
  <2>2. torn' \in BOOLEAN /\ excused' \subseteq Lines
    BY <1>1 DEF ChecklistTypeOK
  <2>3. content' \in [Beats -> Seq(FileLine)]
    BY <1>1, <2>1
  <2>4. acts' \in [Beats -> 0..Quota]
    BY <1>1, ChecklistAssumption
  <2>5. QED
    BY <1>1, <1>2, <2>2, <2>3, <2>4 DEF ChecklistTypeOK, MishapKind
<1>4. \A b \in Beats : itemPc'[b] = "off" /\ listed'[b] = {} /\ acts'[b] = 0 /\ content'[b] = <<>>
  BY <1>1
<1>5. (\A c \in Beats : BeatFits(c))'
  BY <1>4 DEF BeatFits, AtItem, InUpdate
<1>6. Working' = {} /\ Writing' = {}
  BY <1>4 DEF Working, Writing
<1>7. FileFits' /\ FirstLinesStay' /\ ApprovalsStay'
  <2>1. ~torn' => ~torn /\ Writing' = Writing
    BY <1>1, <1>6
  <2>2. \A c \in Beats : itemPc'[c] \notin InUpdate /\ listed'[c] \subseteq listed[c]
    BY <1>4 DEF InUpdate
  <2>3. QED
    BY <1>1, <1>2, <1>4, <1>6, <2>1, <2>2, FileKept
<1>8. OnceAtMost'
  <2>1. ASSUME NEW i \in Lines \ excused', NEW c \in Beats
        PROVE  ~InHand(c, i)' /\ ~InHand(c, i)
    BY <1>1, <1>4 DEF InHand, AtItem, InUpdate, Working
  <2>2. excused \subseteq excused'
    BY <1>1 DEF ChecklistTypeOK
  <2>3. \A c \in Beats : listed'[c] \subseteq listed[c]
    BY <1>4
  <2>4. QED
    BY <1>1, <1>2, <1>4, <1>6, <2>1, <2>2, <2>3, OnceKept
<1>9. QED
  BY <1>3, <1>5, <1>7, <1>8

LEMMA ChecklistStep == ChecklistInductive /\ [ChecklistNext]_checklistVars => ChecklistInductive'
<1> SUFFICES ASSUME ChecklistInductive, [ChecklistNext]_checklistVars PROVE ChecklistInductive'
  OBVIOUS
<1>1. CASE UNCHANGED checklistVars
  BY <1>1, SMTT(30) DEF checklistVars, workVars, checklistHistory, ChecklistInductive, ChecklistTypeOK,
     BeatFits, AtItem, InUpdate, ItemAt, FileFits, Working, Updating, Writing, ItemsOf, IsLineOf,
     FirstLinesStay, Unedited, ApprovalsStay, LineAwaits, Awaits, OnceAtMost, OnceExecuted, InHand, Done
<1>2. CASE Killed \/ \E f \in EditedFiles : UserEdits(f)
  BY <1>2, KilledKept, UserEditsKept
<1>3. ASSUME NEW b \in Beats,
             \/ \E used \in 0..Quota - 1 : ListItems(b, used)
             \/ ListFails(b) \/ BeatEnds(b) \/ SkipItem(b) \/ ExecuteItem(b)
             \/ \E succeeds \in BOOLEAN : ItemExecuted(b, succeeds)
             \/ ReadContent(b) \/ UpdateFails(b) \/ TruncateFile(b) \/ WriteContent(b)
      PROVE  ChecklistInductive'
  BY <1>3, ListItemsKept, ListFailsKept, BeatEndsKept, SkipItemKept, ExecuteItemKept,
     ItemExecutedKept, ReadContentKept, UpdateFailsKept, TruncateFileKept, WriteContentKept
<1>4. QED
  BY <1>1, <1>2, <1>3 DEF ChecklistNext

LEMMA ChecklistKept == ChecklistInductive =>
    ChecklistTypeOK /\ LinesSurvive /\ ExecutedOnceUnlessExcused /\ ApprovalIsAwaited
<1> SUFFICES ASSUME ChecklistInductive
             PROVE  ChecklistTypeOK /\ LinesSurvive /\ ExecutedOnceUnlessExcused /\ ApprovalIsAwaited
  OBVIOUS
<1> USE DEF ChecklistInductive
<1>1. LinesSurvive
  BY DEF LinesSurvive, FileFits
<1>2. ExecutedOnceUnlessExcused
  BY DEF ExecutedOnceUnlessExcused, OnceAtMost, ChecklistTypeOK
<1>3. ApprovalIsAwaited
  BY DEF ApprovalIsAwaited, ApprovalsStay, LineAwaits, Awaits
<1>4. QED
  BY <1>1, <1>2, <1>3

\* What a step of the heartbeat marks is what it has executed.
LEMMA StepMarksWhatWasDone ==
    ASSUME ChecklistInductive, [ChecklistNext]_checklistVars, itemPc' # itemPc,
           NEW b \in Beats, itemPc[b] = "write", itemPc'[b] = "items", mishaps' = mishaps,
           b \notin shifted, ~torn
    PROVE  /\ [item |-> ItemAt(b).line.item, mark |-> "done"] \in ToSet(file')
           /\ \A n \in DOMAIN content[b] :
                  content[b][n].item # ItemAt(b).line.item => file'[n] = content[b][n]
<1>1. itemPc \in [Beats -> ItemPc] /\ ChecklistNext
  BY DEF ChecklistInductive, ChecklistTypeOK, ItemPc, checklistVars, workVars
<1>2. \A m \in MishapKind : ~Mishap(m)
  BY MishapCounts DEF ChecklistInductive
<1>3. ~Killed /\ ~\E f \in EditedFiles : UserEdits(f)
  BY <1>2 DEF Killed, UserEdits, MishapKind
<1>4. ASSUME NEW c \in Beats,
             \/ \E used \in 0..Quota - 1 : ListItems(c, used)
             \/ ListFails(c) \/ BeatEnds(c) \/ SkipItem(c) \/ ExecuteItem(c)
             \/ \E succeeds \in BOOLEAN : ItemExecuted(c, succeeds)
             \/ ReadContent(c) \/ UpdateFails(c) \/ TruncateFile(c)
      PROVE  FALSE
  <2>1. ~ListFails(c) /\ ~UpdateFails(c)
    BY <1>2 DEF ListFails, UpdateFails, MishapKind
  <2>2. \/ itemPc[c] # "write" /\ \E v \in ItemPc : itemPc' = [itemPc EXCEPT ![c] = v]
    BY <1>4, <2>1 DEF ListItems, BeatEnds, SkipItem, TakesItem, ExecuteItem, ItemExecuted,
       ReadContent, TruncateFile, NextItem, ItemPc
  <2>3. QED
    BY <1>1, <2>2
<1>5. PICK c \in Beats : WriteContent(c)
  BY <1>1, <1>3, <1>4 DEF ChecklistNext
<1>6. c = b
  BY <1>1, <1>5 DEF WriteContent, NextItem
<1>7. QED
  BY <1>5, <1>6, WriteContentKept

\* The checklist of a long-running agent (checklist.go, longrun.go): no line is
\* lost unless an update met another one, an edit or the end of the process, what
\* is marked was done, and an item is executed again, or without the approval it
\* asks for, for a known reason only; for every file, quota and any heartbeats.
THEOREM ChecklistIsCorrect == ChecklistSpec => ChecklistCorrect
<1>1. ChecklistSpec => []ChecklistInductive
  BY ChecklistStart, ChecklistStep, PTL DEF ChecklistSpec
<1>2. ChecklistSpec => [](ChecklistTypeOK /\ LinesSurvive /\ ExecutedOnceUnlessExcused /\ ApprovalIsAwaited)
  BY <1>1, ChecklistKept, PTL
<1>3. ASSUME ChecklistInductive, [ChecklistNext]_checklistVars
      PROVE  [itemPc' # itemPc => \A b \in Beats :
                (itemPc[b] = "write" /\ itemPc'[b] = "items" /\ mishaps' = mishaps
                     /\ b \notin shifted /\ ~torn)
                => LET i == ItemAt(b).line.item IN
                   /\ [item |-> i, mark |-> "done"] \in ToSet(file')
                   /\ \A n \in DOMAIN content[b] :
                          content[b][n].item # i => file'[n] = content[b][n]]_checklistVars
  BY <1>3, StepMarksWhatWasDone
<1>4. ChecklistSpec => MarksWhatWasDone
  BY <1>1, <1>3, PTL DEF ChecklistSpec, MarksWhatWasDone
<1>5. QED
  BY <1>2, <1>4 DEF ChecklistCorrect
=============================================================================
