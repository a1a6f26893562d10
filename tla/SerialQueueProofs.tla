-------------------------- MODULE SerialQueueProofs --------------------------
(***************************************************************************)
(* The squad queues serve their tasks in turn: SharedTaskQueue implements  *)
(* SerialQueue, and a task does not overtake one acknowledged before it    *)
(* was created.  For any tasks, squads and bounds.                         *)
(***************************************************************************)
EXTENDS SharedTaskQueueProofs

-----------------------------------------------------------------------------
(* The order of the tasks *)

\* What is noted as acknowledged before a task was created is acknowledged and
\* older, and no time stamp lies in the future.
CreationInOrder ==
    /\ \A u \in Tasks : \A t \in preceded[u] :
           call[t] = "ok" /\ createdAt[t] < createdAt[u]
    /\ \A t \in Tasks : createdAt[t] <= clock

OrderInv == KeepsInv /\ CreationInOrder /\ NoOvertaking

\* A queue in which older before younger stays so.
Ahead(queue, t, u) ==
    \A i, j \in DOMAIN queue : queue[i] = t /\ queue[j] = u => i < j

LEMMA AheadStays ==
    ASSUME NEW S, NEW new \in Seq(S), NEW old \in Seq(S), InOrderOf(new, old),
           NEW t, NEW u, t # u, Ahead(old, t, u)
    PROVE  Ahead(new, t, u)
<1> SUFFICES ASSUME NEW i \in DOMAIN new, NEW j \in DOMAIN new,
                    new[i] = t, new[j] = u, ~(i < j)
             PROVE  FALSE
  BY DEF Ahead
<1>1. i \in Int /\ j \in Int
  BY LenProperties
<1>2. j < i
  BY <1>1
<1>3. PICK a \in DOMAIN old, b \in DOMAIN old : a < b /\ old[a] = u /\ old[b] = t
  BY <1>2 DEF InOrderOf
<1>4. a \in Int /\ b \in Int
  BY LenProperties
<1>5. b < a
  BY <1>3 DEF Ahead
<1>6. QED
  BY <1>3, <1>4, <1>5

LEMMA OrderInit == Init => OrderInv
  BY KeepsInit DEF Init, OrderInv, CreationInOrder, NoOvertaking

\* The steps keep the notes and the time stamps in order.
LEMMA CreationNext == KeepsInv /\ CreationInOrder /\ [Next]_vars => CreationInOrder'
<1> SUFFICES ASSUME KeepsInv, CreationInOrder, [Next]_vars
             PROVE  CreationInOrder'
  OBVIOUS
<1>0. TypeOK
  BY DEF KeepsInv, WorkerInv
<1>1. ASSUME NEW t \in Tasks, StampTask(t)
      PROVE  CreationInOrder'
  <2>1. /\ call[t] = "idle"
        /\ \A v \in Tasks :
               /\ call'[v] = IF v = t THEN "stamped" ELSE call[v]
               /\ createdAt'[v] = IF v = t THEN clock + 1 ELSE createdAt[v]
               /\ preceded'[v] = IF v = t THEN {x \in Tasks : call[x] = "ok"}
                                 ELSE preceded[v]
        /\ clock' = clock + 1
    BY <1>0, <1>1 DEF StampTask, TypeOK
  <2>2. /\ clock \in Nat
        /\ \A v \in Tasks : createdAt[v] \in Nat /\ createdAt[v] <= clock
        /\ \A v \in Tasks : preceded[v] \subseteq Tasks
    BY <1>0 DEF TypeOK, CreationInOrder
  <2>3. ASSUME NEW u \in Tasks, NEW x \in preceded'[u]
        PROVE  call'[x] = "ok" /\ createdAt'[x] < createdAt'[u]
    <3>1. x \in Tasks /\ call[x] = "ok"
      BY <2>1, <2>2, <2>3 DEF CreationInOrder
    <3>2. CASE u = t
      <4>1. x # t
        BY <2>1, <3>1
      <4>2. createdAt'[x] = createdAt[x] /\ createdAt'[u] = clock + 1
        BY <2>1, <3>1, <3>2, <4>1
      <4>3. createdAt[x] \in Nat /\ createdAt[x] <= clock /\ clock \in Nat
        BY <2>2, <3>1
      <4>4. createdAt[x] < clock + 1
        BY <4>3
      <4>5. QED
        BY <2>1, <3>1, <4>1, <4>2, <4>4
    <3>3. CASE u # t
      BY <2>1, <2>3, <3>1, <3>3 DEF CreationInOrder
    <3>4. QED
      BY <3>2, <3>3
  <2>4. ASSUME NEW v \in Tasks
        PROVE  createdAt'[v] <= clock'
    <3>1. createdAt[v] \in Nat /\ createdAt[v] <= clock /\ clock \in Nat
      BY <2>2
    <3>2. createdAt[v] <= clock + 1 /\ clock + 1 <= clock + 1
      BY <3>1
    <3>3. createdAt'[v] \in {createdAt[v], clock + 1} /\ clock' = clock + 1
      BY <2>1
    <3>4. QED
      BY <3>2, <3>3
  <2>5. QED
    BY <2>3, <2>4 DEF CreationInOrder
<1>2. ASSUME \A v \in Tasks : call[v] = "ok" => call'[v] = "ok",
             UNCHANGED <<createdAt, clock, preceded>>
      PROVE  CreationInOrder'
  BY <1>0, <1>2 DEF CreationInOrder, TypeOK
<1>3. ASSUME NEW t \in Tasks, AdmitTask(t) \/ PersistTask(t) \/ RejectTask(t)
      PROVE  CreationInOrder'
  <2>1. \A v \in Tasks : call[v] = "ok" => call'[v] = "ok"
    BY <1>0, <1>3 DEF AdmitTask, PersistTask, RejectTask, TypeOK
  <2>2. UNCHANGED <<createdAt, clock, preceded>>
    BY <1>3 DEF AdmitTask, PersistTask, RejectTask
  <2>3. QED
    BY <1>2, <2>1, <2>2
<1>4. ASSUME UNCHANGED callVars
      PROVE  CreationInOrder'
  BY <1>2, <1>4 DEF callVars
<1>5. ASSUME NEW w \in Workers, Work(w)
      PROVE  CreationInOrder'
  BY <1>4, <1>5 DEF Work, NextQueuedTask, RetireWorker, FinishTask
<1>6. CASE Crash
  BY <1>2, <1>6 DEF Crash
<1>7. CASE Restart \/ UNCHANGED vars
  BY <1>4, <1>7 DEF Restart, LoadTasks, LoadTasksFails, RestoreSquad, vars
<1>8. QED
  BY <1>1, <1>3, <1>5, <1>6, <1>7 DEF Next, Enqueue

\* In a step that changes a queue by taking tasks out and lets nobody begin,
\* no task overtakes another.
LEMMA QueueNext == OrderInv /\ [Next]_vars => NoOvertaking'
<1> SUFFICES ASSUME OrderInv, [Next]_vars, NEW t \in Tasks, NEW u \in Tasks,
                    SquadOf[t] = SquadOf[u], t \in preceded'[u]
             PROVE  LET queue == taskQueues'[SquadOf[t]] IN
                    /\ Ahead(queue, t, u)
                    /\ IsExecuting(u)' => t \notin Range(queue)
  BY DEF NoOvertaking, Ahead
<1> DEFINE s == SquadOf[t]
           Goal == /\ Ahead(taskQueues'[s], t, u)
                   /\ IsExecuting(u)' => t \notin Range(taskQueues'[s])
<1> USE SquadOfAssumption, WorkerIdsAssumption
<1>0. /\ TypeOK /\ WorkerInv /\ QueuesAreSound /\ KeepsInv /\ CreationInOrder
      /\ s \in Squads /\ SquadOf[u] = s
      /\ taskQueues[s] \in Seq(Tasks) /\ Once(taskQueues[s])
  BY OnQueue DEF OrderInv, KeepsInv, WorkerInv
<1>1. t # u
  <2>1. createdAt'[t] < createdAt'[u] /\ createdAt'[t] \in Nat
    BY <1>0, CreationNext, TypeNext DEF CreationInOrder, TypeOK
  <2>2. QED
    BY <2>1
<1>2. t \in preceded[u] => /\ call[t] = "ok"
                           /\ createdAt[t] < createdAt[u]
                           /\ Ahead(taskQueues[s], t, u)
                           /\ IsExecuting(u) => t \notin Range(taskQueues[s])
  BY <1>0 DEF OrderInv, CreationInOrder, NoOvertaking, Ahead
\* The steps that leave the queue, or take tasks out of it, and let nobody begin.
<1>3. ASSUME taskQueues'[s] = taskQueues[s] \/
                 (taskQueues'[s] \in Seq(Tasks)
                    /\ InOrderOf(taskQueues'[s], taskQueues[s])),
             IsExecuting(u)' => IsExecuting(u),
             preceded' = preceded
      PROVE  Goal
  <2>1. Ahead(taskQueues'[s], t, u)
    BY <1>0, <1>1, <1>2, <1>3, AheadStays
  <2>2. t \in Range(taskQueues'[s]) => t \in Range(taskQueues[s])
    BY <1>3 DEF InOrderOf, Range
  <2>3. QED
    BY <1>2, <1>3, <2>1, <2>2
<1>4. ASSUME UNCHANGED <<wpc, wtask>> \/ UNCHANGED workerVars
      PROVE  IsExecuting(u)' = IsExecuting(u)
  BY <1>4 DEF workerVars, IsExecuting, Executes
<1>5. ASSUME NEW v \in Tasks, StampTask(v)
      PROVE  Goal
  <2>1. /\ call[v] = "idle"
        /\ preceded' = [preceded EXCEPT ![v] = {x \in Tasks : call[x] = "ok"}]
        /\ UNCHANGED <<taskQueues, workerVars>>
    BY <1>5 DEF StampTask, managerVars
  <2>2. IsExecuting(u)' = IsExecuting(u)
    BY <1>4, <2>1
  <2>3. CASE u # v
    <3>1. t \in preceded[u]
      BY <1>0, <2>1, <2>3 DEF TypeOK
    <3>2. QED
      BY <1>2, <2>1, <2>2, <3>1
  <2>4. CASE u = v
    <3>1. sharedTasks[u] = "absent" /\ runs[u] = 0
      BY <1>0, <2>1, <2>4 DEF KeepsInv, UnbornAreUnknown
    <3>2. u \notin Range(taskQueues[s])
      BY <1>0, <3>1, OnQueue
    <3>3. ~IsExecuting(u)
      BY <1>0, <3>1 DEF KeepsInv, WorkersHoldTheirTask, IsExecuting, Executes
    <3>4. QED
      BY <2>1, <2>2, <3>2, <3>3 DEF Ahead, Range
  <2>5. QED
    BY <2>3, <2>4
<1>6. ASSUME NEW v \in Tasks, AdmitTask(v)
      PROVE  Goal
  <2>1. /\ call[v] = "stamped"
        /\ taskQueues' = [taskQueues EXCEPT ![SquadOf[v]] = Append(taskQueues[SquadOf[v]], v)]
        /\ UNCHANGED <<preceded, workerVars>>
    BY <1>6 DEF AdmitTask
  <2>2. IsExecuting(u)' = IsExecuting(u) /\ t \in preceded[u]
    BY <1>4, <2>1
  <2>3. CASE SquadOf[v] # s
    <3>1. taskQueues'[s] = taskQueues[s]
      BY <1>0, <2>1, <2>3 DEF TypeOK
    <3>2. QED
      BY <1>3, <2>1, <2>2, <3>1
  <2>4. CASE SquadOf[v] = s
    <3> DEFINE q == taskQueues[s]
    <3>1. taskQueues'[s] = Append(q, v) /\ q \in Seq(Tasks)
      BY <1>0, <2>1, <2>4 DEF TypeOK
    <3>2. v # t
      BY <1>2, <2>1, <2>2
    <3>3. /\ Ahead(q, t, u)
          /\ IsExecuting(u) => t \notin Range(q)
      BY <1>2, <2>2
    <3> HIDE DEF q
    <3>4. /\ Append(q, v) \in Seq(Tasks)
          /\ Len(Append(q, v)) = Len(q) + 1
          /\ \A i \in 1..Len(q) : Append(q, v)[i] = q[i]
          /\ Append(q, v)[Len(q) + 1] = v
      BY <3>1, AppendProperties
    <3>5. /\ Len(q) \in Nat /\ DOMAIN q = 1..Len(q)
          /\ DOMAIN Append(q, v) = 1..(Len(q) + 1)
      BY <3>1, <3>4, LenProperties
    <3>6. ASSUME NEW i \in DOMAIN Append(q, v), Append(q, v)[i] = t
          PROVE  i \in 1..Len(q) /\ q[i] = t
      BY <3>2, <3>4, <3>5, <3>6
    <3>7. Ahead(Append(q, v), t, u)
      <4> SUFFICES ASSUME NEW i \in DOMAIN Append(q, v), NEW j \in DOMAIN Append(q, v),
                          Append(q, v)[i] = t, Append(q, v)[j] = u
                   PROVE  i < j
        BY DEF Ahead
      <4>1. i \in 1..Len(q) /\ q[i] = t
        BY <3>6
      <4>2. CASE j = Len(q) + 1
        BY <3>5, <4>1, <4>2
      <4>3. CASE j # Len(q) + 1
        <5>1. j \in 1..Len(q)
          BY <3>5, <4>3
        <5>2. q[j] = u
          BY <3>4, <5>1
        <5>3. QED
          BY <3>3, <3>5, <4>1, <5>1, <5>2 DEF Ahead
      <4>4. QED
        BY <4>2, <4>3
    <3>8. t \in Range(Append(q, v)) => t \in Range(q)
      BY <3>5, <3>6 DEF Range
    <3>9. QED
      BY <2>2, <3>1, <3>3, <3>7, <3>8
  <2>5. QED
    BY <2>3, <2>4
<1>7. ASSUME NEW v \in Tasks, PersistTask(v)
      PROVE  Goal
  <2>1. wpc[v] = "none"
    BY <1>0, <1>7 DEF PersistTask, WorkerInv
  <2>2. \A w \in Workers : wpc'[w] = "exec" => wpc[w] = "exec"
    BY <1>0, <1>7, <2>1 DEF PersistTask, TypeOK
  <2>3. IsExecuting(u)' => IsExecuting(u)
    BY <1>7, <2>2 DEF PersistTask, IsExecuting, Executes
  <2>4. QED
    BY <1>3, <1>7, <2>3 DEF PersistTask, managerVars
<1>8. ASSUME NEW v \in Tasks, RejectTask(v)
      PROVE  Goal
  <2>1. /\ taskQueues' = [taskQueues EXCEPT ![SquadOf[v]] = Without(taskQueues[SquadOf[v]], v)]
        /\ UNCHANGED <<preceded, workerVars>>
    BY <1>8 DEF RejectTask
  <2>2. IsExecuting(u)' = IsExecuting(u)
    BY <1>4, <2>1
  <2>3. CASE SquadOf[v] # s
    <3>1. taskQueues'[s] = taskQueues[s]
      BY <1>0, <2>1, <2>3 DEF TypeOK
    <3>2. QED
      BY <1>3, <2>1, <2>2, <3>1
  <2>4. CASE SquadOf[v] = s /\ v \in Range(taskQueues[s])
    <3>1. taskQueues'[s] = Without(taskQueues[s], v)
      BY <1>0, <2>1, <2>4 DEF TypeOK
    <3>2. /\ Without(taskQueues[s], v) \in Seq(Tasks)
          /\ InOrderOf(Without(taskQueues[s], v), taskQueues[s])
      BY <1>0, <2>4, WithoutKeeps
    <3>3. QED
      BY <1>3, <2>1, <2>2, <3>1, <3>2
  <2>5. CASE SquadOf[v] = s /\ v \notin Range(taskQueues[s])
    <3>1. taskQueues'[s] = taskQueues[s]
      BY <1>0, <2>1, <2>5 DEF TypeOK, Without
    <3>2. QED
      BY <1>3, <2>1, <2>2, <3>1
  <2>6. QED
    BY <2>3, <2>4, <2>5
<1>9. ASSUME NEW w \in Workers, NextQueuedTask(w)
      PROVE  Goal
  <2> DEFINE r == SquadOfWorker(w)
             h == Head(taskQueues[r])
  <2>1. r \in Squads /\ wpc[w] = "next" /\ taskQueues[r] # <<>>
    BY <1>9 DEF NextQueuedTask, SquadOfWorker, Workers
  <2>2. taskQueues[r] \in Seq(Tasks) /\ Once(taskQueues[r])
    BY <1>0, <2>1, OnQueue
  <2>3. /\ Tail(taskQueues[r]) \in Seq(Tasks)
        /\ h \in Range(taskQueues[r])
        /\ Range(Tail(taskQueues[r])) = Range(taskQueues[r]) \ {h}
        /\ InOrderOf(Tail(taskQueues[r]), taskQueues[r])
        /\ \A i \in DOMAIN taskQueues[r] : taskQueues[r][i] = h => i = 1
    BY <2>1, <2>2, TailKeeps
  <2>4. h \in Tasks /\ SquadOf[h] = r /\ sharedTasks[h] = "queued"
    BY <1>0, <2>1, <2>3, OnQueue
  <2>5. /\ taskQueues' = [taskQueues EXCEPT ![r] = Tail(taskQueues[r])]
        /\ wpc' = [wpc EXCEPT ![w] = "exec"]
        /\ wtask' = [wtask EXCEPT ![w] = h]
        /\ preceded' = preceded
    BY <1>9, <2>4 DEF NextQueuedTask, Popped, callVars
  <2> HIDE DEF h
  <2>6. IsExecuting(u)' => IsExecuting(u) \/ u = h
    BY <1>0, <2>5 DEF IsExecuting, Executes, TypeOK
  <2>7. CASE u # h
    <3>1. \/ taskQueues'[s] = taskQueues[s]
          \/ /\ taskQueues'[s] \in Seq(Tasks)
             /\ InOrderOf(taskQueues'[s], taskQueues[s])
      BY <1>0, <2>1, <2>3, <2>5 DEF TypeOK
    <3>2. QED
      BY <1>3, <2>5, <2>6, <2>7, <3>1
  <2>8. CASE u = h
    <3>1. r = s /\ t \in preceded[u]
      BY <1>0, <2>4, <2>5, <2>8
    <3>2. t \notin Range(taskQueues[s])
      <4> SUFFICES ASSUME NEW i \in DOMAIN taskQueues[s], taskQueues[s][i] = t
                   PROVE  FALSE
        BY DEF Range
      <4>1. PICK j \in DOMAIN taskQueues[s] : taskQueues[s][j] = u
        BY <2>3, <2>8, <3>1 DEF Range
      <4>2. j = 1 /\ i < j
        BY <1>2, <2>3, <2>8, <3>1, <4>1 DEF Ahead
      <4>3. i \in 1..Len(taskQueues[s])
        BY <1>0, LenProperties
      <4>4. QED
        BY <4>2, <4>3
    <3>3. taskQueues'[s] = Tail(taskQueues[s])
      BY <1>0, <2>5, <3>1 DEF TypeOK
    <3>4. t \notin Range(taskQueues'[s])
      BY <2>3, <3>1, <3>2, <3>3
    <3>5. QED
      BY <3>4 DEF Ahead, Range
  <2>9. QED
    BY <2>7, <2>8
<1>10. ASSUME NEW w \in Workers, RetireWorker(w)
       PROVE  Goal
  <2>1. IsExecuting(u)' => IsExecuting(u)
    BY <1>0, <1>10 DEF RetireWorker, IsExecuting, Executes, TypeOK
  <2>2. QED
    BY <1>3, <1>10, <2>1 DEF RetireWorker, callVars
<1>11. ASSUME NEW w \in Workers, NEW outcome \in Terminal, FinishTask(w, outcome)
       PROVE  Goal
  <2>1. IsExecuting(u)' => IsExecuting(u)
    BY <1>0, <1>11 DEF FinishTask, IsExecuting, Executes, TypeOK
  <2>2. QED
    BY <1>3, <1>11, <2>1 DEF FinishTask, callVars
<1>12. CASE Crash
  <2>1. taskQueues'[s] = <<>>
    BY <1>0, <1>12 DEF Crash
  <2>2. QED
    BY <2>1 DEF Ahead, Range
<1>13. CASE LoadTasks \/ LoadTasksFails
  <2>1. UNCHANGED <<taskQueues, workerVars, preceded>>
    BY <1>13 DEF LoadTasks, LoadTasksFails, callVars, managerVars
  <2>2. QED
    BY <1>3, <1>4, <2>1
<1>14. ASSUME NEW r \in Squads, RestoreSquad(r)
       PROVE  Goal
  <2>1. /\ r \in toRestore
        /\ wpc' = [wpc EXCEPT ![r] = "next"]
        /\ UNCHANGED <<wtask, preceded>>
    BY <1>14 DEF RestoreSquad, callVars
  <2>2. PICK q \in [1..Cardinality(Requeued(r)) -> Requeued(r)] :
            /\ SortedByCreation(q, Requeued(r))
            /\ taskQueues' = [taskQueues EXCEPT ![r] = q]
    BY <1>14 DEF RestoreSquad
  <2>3. IsExecuting(u)' => IsExecuting(u)
    BY <1>0, <2>1 DEF IsExecuting, Executes, TypeOK
  <2>4. CASE r # s
    <3>1. taskQueues'[s] = taskQueues[s]
      BY <1>0, <2>2, <2>4 DEF TypeOK
    <3>2. QED
      BY <1>3, <2>1, <2>3, <3>1
  <2>5. CASE r = s
    <3>1. ~IsExecuting(u)
      <4>1. s \notin queueRunning
        BY <1>0, <2>1, <2>5 DEF WorkerInv
      <4>2. \A w \in Workers : Executes(w, u) => wpc[w] # "none" /\ SquadOfWorker(w) = s
        BY <1>0 DEF KeepsInv, WorkersHoldTheirTask, Executes
      <4>3. QED
        BY <1>0, <4>1, <4>2, WorkersApart DEF IsExecuting
    <3>2. Ahead(q, t, u)
      <4> SUFFICES ASSUME NEW i \in DOMAIN q, NEW j \in DOMAIN q, q[i] = t, q[j] = u
                   PROVE  i < j
        BY DEF Ahead
      <4>1. i \in Int /\ j \in Int
        BY <2>2
      <4>2. createdAt[t] < createdAt[u] /\ createdAt[t] \in Nat /\ createdAt[u] \in Nat
        BY <1>0, <1>2, <2>1 DEF TypeOK
      <4>3. ~(j < i)
        BY <2>2, <4>2 DEF SortedByCreation
      <4>4. QED
        BY <1>1, <4>1, <4>3
    <3>3. taskQueues'[s] = q
      BY <1>0, <2>2, <2>5 DEF TypeOK
    <3>4. QED
      BY <2>3, <3>1, <3>2, <3>3
  <2>6. QED
    BY <2>4, <2>5
<1>15. CASE UNCHANGED vars
  <2>1. UNCHANGED <<taskQueues, workerVars, preceded>>
    BY <1>15 DEF vars, callVars, managerVars
  <2>2. QED
    BY <1>3, <1>4, <2>1
<1>16. Goal
  BY <1>5, <1>6, <1>7, <1>8, <1>9, <1>10, <1>11, <1>12, <1>13, <1>14, <1>15
  DEF Next, Enqueue, Work, Restart
<1>17. QED
  BY <1>16

LEMMA OrderNext == OrderInv /\ [Next]_vars => OrderInv'
  BY KeepsNext, CreationNext, QueueNext DEF OrderInv

\* A task that was acknowledged before another one was created is ahead of it,
\* for any tasks, failures and crashes.
THEOREM NobodyOvertakes == Spec => []NoOvertaking
<1>1. OrderInv => NoOvertaking
  BY DEF OrderInv
<1>2. QED
  BY OrderInit, OrderNext, <1>1, PTL DEF Spec
-----------------------------------------------------------------------------
(* SharedTaskQueue implements SerialQueue *)

\* The tasks of squad s that have their turn.
TurnOf(s) == {t \in Tasks : SquadOf[t] = s /\ IsExecuting(t)}

\* Seen as turns, only a worker of the squad that executes something counts.
LEMMA TurnsAreWorkers ==
    ASSUME KeepsInv, NEW s \in Squads
    PROVE  /\ \A t : t \in TurnOf(s) <=>
                  \E w \in Workers :
                      SquadOfWorker(w) = s /\ wpc[w] = "exec" /\ wtask[w] = t
           /\ s \notin queueRunning => TurnOf(s) = {}
<1>1. \A t : t \in TurnOf(s) <=>
          \E w \in Workers : SquadOfWorker(w) = s /\ wpc[w] = "exec" /\ wtask[w] = t
  BY DEF KeepsInv, WorkersHoldTheirTask, TurnOf, IsExecuting, Executes
<1>2. s \notin queueRunning => TurnOf(s) = {}
  BY <1>1, WorkersApart DEF KeepsInv
<1>3. QED
  BY <1>1, <1>2

\* In the beginning nobody waits and nobody has a turn.
LEMMA SerialInit == Init => Abstract!Init
<1> SUFFICES ASSUME Init
             PROVE  Abstract!Init
  OBVIOUS
<1>1. \A s \in Squads : TurnOf(s) = {}
  BY DEF Init, TurnOf, IsExecuting, Executes
<1>2. QED
  BY <1>1 DEF Init, Abstract!Init, TurnOf

\* A step that changes neither queues nor executions is a stutter.
LEMMA SerialStutter ==
    ASSUME taskQueues' = taskQueues,
           \A t \in Tasks : IsExecuting(t)' = IsExecuting(t)
    PROVE  UNCHANGED Abstract!vars
  BY DEF Abstract!vars

\* Every step of the manager is a step of the serial queue or leaves it alone.
LEMMA SerialNext == KeepsInv /\ [Next]_vars => [Abstract!Next]_(Abstract!vars)
<1> SUFFICES ASSUME KeepsInv, [Next]_vars
             PROVE  Abstract!Next \/ UNCHANGED Abstract!vars
  OBVIOUS
<1> DEFINE turn == [s \in Squads |-> TurnOf(s)]
<1> USE SquadOfAssumption, WorkerIdsAssumption
<1>0. /\ TypeOK /\ WorkerInv /\ QueuesAreSound
      /\ KeepsInv' /\ TypeOK' /\ WorkerInv'
  BY KeepsNext DEF KeepsInv, WorkerInv
<1>1. ASSUME UNCHANGED workerVars
      PROVE  \A t \in Tasks : IsExecuting(t)' = IsExecuting(t)
  BY <1>1 DEF workerVars, IsExecuting, Executes
<1>2. ASSUME NEW t \in Tasks, StampTask(t)
      PROVE  UNCHANGED Abstract!vars
  BY <1>1, <1>2, SerialStutter DEF StampTask, managerVars
<1>3. ASSUME NEW t \in Tasks, AdmitTask(t)
      PROVE  Abstract!Join(t)
  <2> DEFINE s == SquadOf[t]
  <2>1. /\ call[t] = "stamped"
        /\ taskQueues' = [taskQueues EXCEPT ![s] = Append(taskQueues[s], t)]
        /\ UNCHANGED workerVars
    BY <1>3 DEF AdmitTask
  <2>2. t \notin Range(taskQueues[s])
    BY <1>0, <2>1, OnQueue DEF KeepsInv, UnbornAreUnknown
  <2>3. turn' = turn
    BY <1>1, <2>1 DEF TurnOf
  <2>4. QED
    BY <2>1, <2>2, <2>3 DEF Abstract!Join, Abstract!Waiting, Range, TurnOf
<1>4. ASSUME NEW t \in Tasks, PersistTask(t)
      PROVE  UNCHANGED Abstract!vars
  <2>1. wpc[t] = "none" /\ taskQueues' = taskQueues /\ wtask' = wtask
    BY <1>0, <1>4 DEF PersistTask, WorkerInv, managerVars
  <2>2. \A w \in Workers : (wpc'[w] = "exec") = (wpc[w] = "exec")
    BY <1>0, <1>4, <2>1 DEF PersistTask, TypeOK
  <2>3. \A u \in Tasks : IsExecuting(u)' = IsExecuting(u)
    BY <2>1, <2>2 DEF IsExecuting, Executes
  <2>4. QED
    BY <2>1, <2>3, SerialStutter
<1>5. ASSUME NEW t \in Tasks, RejectTask(t)
      PROVE  Abstract!Withdraw(t) \/ UNCHANGED Abstract!vars
  <2> DEFINE s == SquadOf[t]
  <2>1. /\ taskQueues' = [taskQueues EXCEPT ![s] = Without(taskQueues[s], t)]
        /\ UNCHANGED workerVars
    BY <1>5 DEF RejectTask
  <2>2. turn' = turn
    BY <1>1, <2>1 DEF TurnOf
  <2>3. taskQueues[s] \in Seq(Tasks)
    BY <1>0 DEF TypeOK
  <2>4. CASE t \in Range(taskQueues[s])
    <3>1. PICK k \in 1..Len(taskQueues[s]) :
              /\ taskQueues[s][k] = t
              /\ Without(taskQueues[s], t) = SubSeq(taskQueues[s], 1, k - 1)
                                     \o SubSeq(taskQueues[s], k + 1, Len(taskQueues[s]))
      BY <2>3, <2>4, WithoutCuts
    <3>2. k \in DOMAIN taskQueues[s]
      BY <2>3, LenProperties
    <3>3. Abstract!Withdraw(t)
      BY <2>1, <2>2, <3>1, <3>2 DEF Abstract!Withdraw, TurnOf
    <3>4. QED
      BY <3>3
  <2>5. CASE t \notin Range(taskQueues[s])
    <3>1. taskQueues' = taskQueues
      BY <1>0, <2>1, <2>5 DEF Without, TypeOK
    <3>2. QED
      BY <1>1, <2>1, <3>1, SerialStutter
  <2>6. QED
    BY <2>4, <2>5
<1>6. ASSUME NEW w \in Workers, NextQueuedTask(w)
      PROVE  Abstract!Begin(SquadOfWorker(w))
  <2> DEFINE s == SquadOfWorker(w)
             h == Head(taskQueues[s])
  <2>1. s \in Squads /\ wpc[w] = "next" /\ taskQueues[s] # <<>>
    BY <1>6 DEF NextQueuedTask, SquadOfWorker, Workers
  <2>2. h \in Tasks /\ SquadOf[h] = s /\ sharedTasks[h] = "queued"
    <3>1. taskQueues[s] \in Seq(Tasks) /\ Once(taskQueues[s])
      BY <1>0, <2>1, OnQueue
    <3>2. h \in Range(taskQueues[s])
      BY <2>1, <3>1, TailKeeps
    <3>3. QED
      BY <1>0, <2>1, <3>2, OnQueue
  <2>3. /\ taskQueues' = [taskQueues EXCEPT ![s] = Tail(taskQueues[s])]
        /\ wpc' = [wpc EXCEPT ![w] = "exec"]
        /\ wtask' = [wtask EXCEPT ![w] = h]
    BY <1>6, <2>2 DEF NextQueuedTask, Popped
  <2>4. TurnOf(s) = {}
    <3>1. \A v \in Workers : SquadOfWorker(v) = s /\ wpc[v] # "none" => v = w
      BY <1>0, <2>1, WorkersApart
    <3>2. \A x : x \notin TurnOf(s)
      BY <2>1, <3>1, TurnsAreWorkers
    <3>3. QED
      BY <3>2
  <2> HIDE DEF h
  <2>5. turn' = [turn EXCEPT ![s] = {h}]
    <3>1. ASSUME NEW r \in Squads
          PROVE  TurnOf(r)' = IF r = s THEN {h} ELSE TurnOf(r)
      <4>1. \A x \in Tasks : IsExecuting(x)' <=>
                \E v \in Workers : wpc'[v] = "exec" /\ wtask'[v] = x
        BY DEF IsExecuting, Executes
      <4>2. \A v \in Workers :
                /\ wpc'[v] = IF v = w THEN "exec" ELSE wpc[v]
                /\ wtask'[v] = IF v = w THEN h ELSE wtask[v]
        BY <1>0, <2>3 DEF TypeOK
      <4>3. \A x \in Tasks : IsExecuting(x)' <=> (x = h \/ IsExecuting(x))
        <5>1. \A x \in Tasks : IsExecuting(x) <=>
                  \E v \in Workers : v # w /\ wpc[v] = "exec" /\ wtask[v] = x
          BY <2>1 DEF IsExecuting, Executes
        <5>2. QED
          BY <4>1, <4>2, <5>1
      <4>4. QED
        BY <2>2, <2>4, <4>3 DEF TurnOf
    <3>2. QED
      BY <2>1, <3>1
  <2>6. QED
    BY <2>1, <2>3, <2>4, <2>5 DEF Abstract!Begin, TurnOf, h
<1>7. ASSUME NEW w \in Workers, RetireWorker(w)
      PROVE  UNCHANGED Abstract!vars
  <2>1. \A v \in Workers : (wpc'[v] = "exec") = (wpc[v] = "exec")
    BY <1>0, <1>7 DEF RetireWorker, TypeOK
  <2>2. \A u \in Tasks : IsExecuting(u)' = IsExecuting(u)
    BY <1>7, <2>1 DEF RetireWorker, IsExecuting, Executes
  <2>3. QED
    BY <1>7, <2>2, SerialStutter DEF RetireWorker
<1>8. ASSUME NEW w \in Workers, NEW outcome \in Terminal, FinishTask(w, outcome)
      PROVE  Abstract!End(SquadOfWorker(w))
  <2> DEFINE s == SquadOfWorker(w)
  <2>1. /\ s \in Squads /\ wpc[w] = "exec"
        /\ wpc' = [wpc EXCEPT ![w] = "next"]
        /\ wtask' = [wtask EXCEPT ![w] = NoTask]
        /\ taskQueues' = taskQueues
    BY <1>8 DEF FinishTask, SquadOfWorker, Workers
  <2>2. TurnOf(s) # {}
    BY <2>1, TurnsAreWorkers
  <2>3. \A v \in Workers : SquadOfWorker(v) = s /\ wpc[v] = "exec" => v = w
    BY <1>0, <2>1, WorkersApart
  <2>4. turn' = [turn EXCEPT ![s] = {}]
    <3>1. ASSUME NEW r \in Squads
          PROVE  TurnOf(r)' = IF r = s THEN {} ELSE TurnOf(r)
      <4>1. \A v \in Workers :
                /\ (wpc'[v] = "exec") <=> (wpc[v] = "exec" /\ v # w)
                /\ v # w => wtask'[v] = wtask[v]
        BY <1>0, <2>1 DEF TypeOK
      <4>2. \A x \in Tasks : IsExecuting(x)' <=>
                \E v \in Workers : v # w /\ wpc[v] = "exec" /\ wtask[v] = x
        BY <4>1 DEF IsExecuting, Executes
      <4>3. \A v \in Workers : wpc[v] = "exec" =>
                wtask[v] \in Tasks /\ SquadOf[wtask[v]] = SquadOfWorker(v)
        BY DEF KeepsInv, WorkersHoldTheirTask
      <4>4. CASE r = s
        BY <2>3, <4>2, <4>3, <4>4 DEF TurnOf
      <4>5. CASE r # s
        BY <4>2, <4>3, <4>5 DEF TurnOf, IsExecuting, Executes
      <4>6. QED
        BY <4>4, <4>5
    <3>2. QED
      BY <2>1, <3>1
  <2>5. QED
    BY <2>1, <2>2, <2>4 DEF Abstract!End, TurnOf
<1>9. CASE Crash
  <2>1. \A r \in Squads : TurnOf(r)' = {}
    BY <1>9 DEF Crash, TurnOf, IsExecuting, Executes
  <2>2. turn' = [s \in Squads |-> {}]
    BY <2>1
  <2>3. Abstract!Reset
    BY <1>9, <2>2 DEF Crash, Abstract!Reset, TurnOf
  <2>4. QED
    BY <2>3 DEF Abstract!Next
<1>10. CASE LoadTasks \/ LoadTasksFails
  <2>1. UNCHANGED <<taskQueues, workerVars>>
    BY <1>10 DEF LoadTasks, LoadTasksFails, managerVars
  <2>2. QED
    BY <1>1, <2>1, SerialStutter
<1>11. ASSUME NEW s \in Squads, RestoreSquad(s)
       PROVE  Abstract!Refill(s)
  <2>1. /\ s \in toRestore
        /\ wpc' = [wpc EXCEPT ![s] = "next"]
        /\ wtask' = wtask
    BY <1>11 DEF RestoreSquad
  <2>2. PICK q \in [1..Cardinality(Requeued(s)) -> Requeued(s)] :
            /\ SortedByCreation(q, Requeued(s))
            /\ taskQueues' = [taskQueues EXCEPT ![s] = q]
    BY <1>11 DEF RestoreSquad
  <2>3. s \notin queueRunning
    BY <1>0, <2>1 DEF WorkerInv
  <2>4. taskQueues[s] = <<>> /\ TurnOf(s) = {}
    BY <1>0, <2>3, OnQueue, TurnsAreWorkers
  <2>5. wpc[s] = "none"
    <3>1. s \in Workers /\ SquadOfWorker(s) = s
      BY DEF Workers, SquadOfWorker
    <3>2. QED
      BY <1>0, <2>3, <3>1, WorkersApart
  <2>6. \A v \in Workers : (wpc'[v] = "exec") = (wpc[v] = "exec")
    BY <1>0, <2>1, <2>5 DEF TypeOK
  <2>7. turn' = turn
    BY <2>1, <2>6 DEF TurnOf, IsExecuting, Executes
  <2>8. /\ Requeued(s) \in SUBSET {t \in Tasks : SquadOf[t] = s}
        /\ {q[i] : i \in DOMAIN q} = Requeued(s)
    BY <2>2 DEF Requeued, SortedByCreation, Range
  <2>9. Abstract!Cardinality(Requeued(s)) = Cardinality(Requeued(s))
    BY DEF Abstract!Cardinality, Cardinality
  <2>10. QED
    BY <2>2, <2>4, <2>7, <2>8, <2>9 DEF Abstract!Refill, TurnOf
<1>12. CASE UNCHANGED vars
  BY <1>1, <1>12, SerialStutter DEF vars, managerVars
<1>13. \A w \in Workers : SquadOfWorker(w) \in Squads
  BY DEF SquadOfWorker, Workers
<1>14. QED
  BY <1>2, <1>3, <1>4, <1>5, <1>6, <1>7, <1>8, <1>9, <1>10, <1>11, <1>12, <1>13
  DEF Next, Enqueue, Work, Restart, Abstract!Next

\* The queues serve their tasks one at a time and in the order of the line, for
\* any tasks, failures and crashes.
THEOREM QueueIsSerial == Spec => ImplementsSerialQueue
  BY SerialInit, SerialNext, KeepsInit, KeepsNext, PTL
  DEF Spec, ImplementsSerialQueue, Abstract!Spec
=============================================================================
