------------------------ MODULE SharedTaskQueueProofs ------------------------
(***************************************************************************)
(* Proofs about SharedTaskQueue for any tasks, squads and bounds: what the *)
(* worker of a squad is, what the queue keeps, the answers given to callers *)
(* and the outcomes.                                                       *)
(***************************************************************************)
EXTENDS SharedTaskQueue, FiniteSetTheorems, SequenceTheorems, TLAPS

-----------------------------------------------------------------------------
(* Lemmas about the operators *)

\* Taking a task off a queue gives a queue.
LEMMA WithoutType ==
    ASSUME NEW S, NEW queue \in Seq(S), NEW t
    PROVE  Without(queue, t) \in Seq(S)
<1>1. CASE t \in Range(queue)
  <2> DEFINE k == CHOOSE i \in DOMAIN queue : queue[i] = t
  <2>1. k \in 1..Len(queue) /\ Len(queue) \in Nat
    BY <1>1, LenProperties DEF Range
  <2>2. \A i \in 1..Len(queue) : queue[i] \in S
    BY ElementOfSeq
  <2> HIDE DEF k
  <2>3. k - 1 \in Int /\ \A i \in 1..(k - 1) : queue[i] \in S
    BY <2>1, <2>2
  <2>4. SubSeq(queue, 1, k - 1) \in Seq(S)
    BY <2>3, SubSeqProperties
  <2>5. k + 1 \in Int /\ \A i \in (k + 1)..Len(queue) : queue[i] \in S
    BY <2>1, <2>2
  <2>6. SubSeq(queue, k + 1, Len(queue)) \in Seq(S)
    BY <2>1, <2>5, SubSeqProperties
  <2>7. Without(queue, t) = SubSeq(queue, 1, k - 1) \o SubSeq(queue, k + 1, Len(queue))
    BY <1>1 DEF Without, k
  <2>8. QED
    BY <2>4, <2>6, <2>7, ConcatProperties
<1>2. CASE t \notin Range(queue)
  BY <1>2 DEF Without
<1>3. QED
  BY <1>1, <1>2

\* A listing of a set of tasks, as restoreSharedTasks builds it, is a queue.
LEMMA ListingIsQueue ==
    ASSUME NEW R \in SUBSET Tasks, NEW q \in [1..Cardinality(R) -> R]
    PROVE  q \in Seq(Tasks)
<1>1. IsFiniteSet(R)
  BY TasksAssumption, FS_Subset
<1>2. Cardinality(R) \in Nat
  BY <1>1, FS_CardinalityType
<1>3. q \in Seq(R)
  BY <1>2, IsASeq
<1>4. QED
  BY <1>3, SeqMonotonic

\* Whatever saves fail, the table and the count of failures keep their types.
LEMMA SavesType ==
    ASSUME TypeOK, NEW status \in Status
    PROVE  /\ \A t \in Tasks : SaveIgnoringError(t, status) =>
                 db' \in [Tasks -> Entry] /\ faults' \in Nat
           /\ \A set \in SUBSET Tasks : SaveAllIgnoringErrors(set, status) =>
                 db' \in [Tasks -> Entry] /\ faults' \in Nat
<1>1. ASSUME NEW t \in Tasks, SaveIgnoringError(t, status)
      PROVE  db' \in [Tasks -> Entry] /\ faults' \in Nat
  <2>1. db \in [Tasks -> Entry] /\ faults \in Nat /\ status \in Entry
    BY DEF TypeOK, Entry
  <2>2. CASE db' = [db EXCEPT ![t] = status] /\ UNCHANGED faults
    BY <2>1, <2>2
  <2>3. CASE faults' = faults + 1 /\ UNCHANGED db
    BY <2>1, <2>3
  <2>4. QED
    BY <1>1, <2>2, <2>3 DEF SaveIgnoringError, Upserted
<1>2. ASSUME NEW set \in SUBSET Tasks, SaveAllIgnoringErrors(set, status)
      PROVE  db' \in [Tasks -> Entry] /\ faults' \in Nat
  <2>1. PICK failing \in SUBSET {t \in set : db[t] # status} :
            /\ faults' = faults + Cardinality(failing)
            /\ db' = [t \in Tasks |->
                        IF t \in set \ failing THEN status ELSE db[t]]
    BY <1>2 DEF SaveAllIgnoringErrors
  <2>2. IsFiniteSet(failing)
    BY TasksAssumption, FS_Subset
  <2>3. Cardinality(failing) \in Nat
    BY <2>2, FS_CardinalityType
  <2>4. QED
    BY <2>1, <2>3 DEF TypeOK, Entry
<1>3. QED
  BY <1>1, <1>2

-----------------------------------------------------------------------------
(* Type correctness *)

LEMMA TypeInit == Init => TypeOK
  BY DEF Init, TypeOK, CallStates, Entry

LEMMA TypeNext == TypeOK /\ [Next]_vars => TypeOK'
<1> SUFFICES ASSUME TypeOK, [Next]_vars
             PROVE  TypeOK'
  OBVIOUS
<1> USE SquadOfAssumption
<1>1. ASSUME NEW t \in Tasks, StampTask(t)
      PROVE  TypeOK'
  BY <1>1 DEF StampTask, TypeOK, CallStates, managerVars, workerVars, processVars
<1>2. ASSUME NEW t \in Tasks, AdmitTask(t)
      PROVE  TypeOK'
  <2>1. SquadOf[t] \in Squads
    OBVIOUS
  <2>2. taskQueues[SquadOf[t]] \in Seq(Tasks)
    BY <2>1 DEF TypeOK
  <2>3. Append(taskQueues[SquadOf[t]], t) \in Seq(Tasks)
    BY <2>2, AppendProperties
  <2>4. QueuedAhead(SquadOf[t]) \in Nat
    <3>1. Len(taskQueues[SquadOf[t]]) \in Nat
      BY <2>2, LenProperties
    <3>2. CASE SquadOf[t] \in queueRunning
      BY <3>1, <3>2 DEF QueuedAhead
    <3>3. CASE SquadOf[t] \notin queueRunning
      BY <3>1, <3>3 DEF QueuedAhead
    <3>4. QED
      BY <3>2, <3>3
  <2>5. taskQueues' \in [Squads -> Seq(Tasks)] /\ ack' \in [Tasks -> Nat]
    BY <1>2, <2>3, <2>4 DEF AdmitTask, TypeOK
  <2>6. QED
    BY <1>2, <2>1, <2>5
    DEF AdmitTask, TypeOK, CallStates, Entry, Status, MustStartWorker,
        workerVars, processVars
<1>3. ASSUME NEW t \in Tasks, PersistTask(t)
      PROVE  TypeOK'
  BY <1>3 DEF PersistTask, TypeOK, Upserted, CallStates, Workers,
              managerVars, processVars
<1>4. ASSUME NEW t \in Tasks, RejectTask(t)
      PROVE  TypeOK'
  <2>1. taskQueues[SquadOf[t]] \in Seq(Tasks)
    BY DEF TypeOK
  <2>2. Without(taskQueues[SquadOf[t]], t) \in Seq(Tasks)
    BY <2>1, WithoutType
  <2>3. taskQueues' \in [Squads -> Seq(Tasks)]
    BY <1>4, <2>2 DEF RejectTask, TypeOK
  <2>4. queueRunning' \subseteq Squads
    BY <1>4 DEF RejectTask, TypeOK
  <2>5. QED
    BY <1>4, <2>3, <2>4
    DEF RejectTask, TypeOK, CallStates, Entry, workerVars, processVars
<1>5. ASSUME NEW w \in Workers, NextQueuedTask(w)
      PROVE  TypeOK'
  <2> DEFINE s == SquadOfWorker(w)
             t == Head(taskQueues[s])
  <2>1. s \in Squads
    BY DEF SquadOfWorker, Workers
  <2>2. taskQueues[s] \in Seq(Tasks) /\ taskQueues[s] # <<>>
    BY <1>5, <2>1 DEF NextQueuedTask, TypeOK
  <2>3. t \in Tasks /\ Tail(taskQueues[s]) \in Seq(Tasks)
    BY <2>2, HeadTailProperties
  <2>4. taskQueues' \in [Squads -> Seq(Tasks)]
    BY <1>5, <2>3 DEF NextQueuedTask, Popped, TypeOK
  <2>5. CASE sharedTasks[t] = "absent"
    BY <1>5, <2>4, <2>5 DEF NextQueuedTask, TypeOK, callVars, processVars
  <2>6. CASE sharedTasks[t] # "absent"
    <3>1. SaveIgnoringError(t, "running")
      BY <1>5, <2>6 DEF NextQueuedTask
    <3>2. db' \in [Tasks -> Entry] /\ faults' \in Nat
      BY <2>3, <3>1, SavesType DEF Status
    <3>3. /\ sharedTasks' = [sharedTasks EXCEPT ![t] = "running"]
          /\ wpc' = [wpc EXCEPT ![w] = "exec"]
          /\ wtask' = [wtask EXCEPT ![w] = t]
          /\ runs' = [runs EXCEPT ![t] = @ + 1]
          /\ UNCHANGED <<callVars, queueRunning, processVars>>
      BY <1>5, <2>6 DEF NextQueuedTask
    <3> HIDE DEF t, s
    <3>4. /\ sharedTasks' \in [Tasks -> Entry]
          /\ wpc' \in [Workers -> {"none", "next", "exec"}]
          /\ wtask' \in [Workers -> Tasks \cup {NoTask}]
      BY <2>3, <3>3 DEF TypeOK, Entry, Status
    <3>5. runs' \in [Tasks -> Nat]
      BY <2>3, <3>3 DEF TypeOK
    <3>6. QED
      BY <2>4, <3>2, <3>3, <3>4, <3>5 DEF TypeOK, callVars, processVars
  <2>7. QED
    BY <2>5, <2>6
<1>6. ASSUME NEW w \in Workers, RetireWorker(w)
      PROVE  TypeOK'
  BY <1>6 DEF RetireWorker, TypeOK, callVars, processVars
<1>7. ASSUME NEW w \in Workers, NEW outcome \in Terminal, FinishTask(w, outcome)
      PROVE  TypeOK'
  <2>1. wtask' \in [Workers -> Tasks \cup {NoTask}] /\ wpc' \in [Workers -> {"none", "next", "exec"}]
    BY <1>7 DEF FinishTask, TypeOK
  <2>2. CASE sharedTasks[wtask[w]] = "absent"
    BY <1>7, <2>1, <2>2 DEF FinishTask, TypeOK, callVars, processVars
  <2>3. CASE sharedTasks[wtask[w]] # "absent"
    <3>1. /\ sharedTasks' = [sharedTasks EXCEPT ![wtask[w]] = outcome]
          /\ SaveIgnoringError(wtask[w], outcome)
          /\ UNCHANGED <<callVars, taskQueues, queueRunning, runs, processVars>>
      BY <1>7, <2>3 DEF FinishTask
    <3>2. outcome \in Status
      BY DEF Status
    <3>3. db' \in [Tasks -> Entry] /\ faults' \in Nat
      <4>1. CASE wtask[w] \in Tasks
        BY <3>1, <3>2, <4>1, SavesType
      <4>2. CASE wtask[w] \notin Tasks
        <5>1. [db EXCEPT ![wtask[w]] = outcome] = db
          BY <4>2 DEF TypeOK
        <5>2. QED
          BY <3>1, <5>1 DEF SaveIgnoringError, Upserted, TypeOK
      <4>3. QED
        BY <4>1, <4>2
    <3>4. sharedTasks' \in [Tasks -> Entry]
      BY <3>1, <3>2 DEF TypeOK, Entry
    <3>5. QED
      BY <2>1, <3>1, <3>3, <3>4 DEF TypeOK, callVars, processVars
  <2>4. QED
    BY <2>2, <2>3
<1>8. CASE Crash
  BY <1>8 DEF Crash, TypeOK, CallStates, Entry
<1>9. CASE LoadTasks
  <2>1. sharedTasks' = [t \in Tasks |-> Restored(db[t])]
    BY <1>9 DEF LoadTasks
  <2>2. sharedTasks' \in [Tasks -> Entry]
    BY <2>1 DEF TypeOK, Restored, Entry, Status
  <2>3. db' \in [Tasks -> Entry] /\ faults' \in Nat
    BY <1>9, SavesType DEF LoadTasks, Status
  <2>4. toRestore' \subseteq Squads /\ phase' \in {"up", "restoring"}
    BY <1>9 DEF LoadTasks
  <2>5. QED
    BY <1>9, <2>2, <2>3, <2>4 DEF LoadTasks, TypeOK, callVars, workerVars
<1>10. CASE LoadTasksFails
  BY <1>10 DEF LoadTasksFails, TypeOK, callVars, managerVars, workerVars
<1>11. ASSUME NEW s \in Squads, RestoreSquad(s)
       PROVE  TypeOK'
  <2>1. Requeued(s) \in SUBSET Tasks
    BY DEF Requeued
  <2>2. PICK q \in [1..Cardinality(Requeued(s)) -> Requeued(s)] :
            taskQueues' = [taskQueues EXCEPT ![s] = q]
    BY <1>11 DEF RestoreSquad
  <2>3. q \in Seq(Tasks)
    BY <2>1, ListingIsQueue
  <2>4. taskQueues' \in [Squads -> Seq(Tasks)]
    BY <2>2, <2>3 DEF TypeOK
  <2>5. db' \in [Tasks -> Entry] /\ faults' \in Nat
    BY <1>11, <2>1, SavesType DEF RestoreSquad, Status
  <2>6. wpc' \in [Workers -> {"none", "next", "exec"}]
    BY <1>11 DEF RestoreSquad, TypeOK
  <2>7. QED
    BY <1>11, <2>4, <2>5, <2>6 DEF RestoreSquad, TypeOK, callVars
<1>12. CASE UNCHANGED vars
  BY <1>12 DEF TypeOK, vars, callVars, managerVars, workerVars, processVars
<1>13. QED
  BY <1>1, <1>2, <1>3, <1>4, <1>5, <1>6, <1>7, <1>8, <1>9, <1>10, <1>11, <1>12
  DEF Next, Enqueue, Work, Restart

\* Every variable keeps its type, whatever fails and whenever the process dies.
THEOREM TypeCorrect == Spec => []TypeOK
  BY TypeInit, TypeNext, PTL DEF Spec

-----------------------------------------------------------------------------
(* One worker per squad *)

\* What keeps OneWorkerPerSquad: calls run only while the process is up, a
\* call under way has no worker of its own yet, and restoreSharedTasks finds
\* the squads it has still to restore unmarked.
WorkerInv ==
    /\ TypeOK
    /\ OneWorkerPerSquad
    /\ \A t \in Tasks : call[t] \in {"stamped", "saving"} => phase = "up"
    /\ \A t \in Tasks : call[t] \in {"idle", "stamped", "saving"} => wpc[t] = "none"
    /\ phase # "restoring" => toRestore = {}
    /\ phase = "down" => queueRunning = {}
    /\ toRestore \cap queueRunning = {}

LEMMA WorkerInit == Init => WorkerInv
<1> SUFFICES ASSUME Init
             PROVE  WorkerInv
  OBVIOUS
<1>1. \A s \in Squads : Servants(s) = {}
  BY DEF Init, Servants, WillStartWorker, Workers
<1>2. OneWorkerPerSquad
  BY <1>1 DEF OneWorkerPerSquad
<1>3. QED
  BY <1>2, TypeInit DEF Init, WorkerInv, Workers

\* A step that adds nobody to the servants of a squad and, if it unmarks the
\* squad, leaves none, keeps the squad in order.
LEMMA ServantsShrink ==
    ASSUME OneWorkerPerSquad,
           \A s \in Squads : /\ Servants(s)' \subseteq Servants(s)
                             /\ s \in queueRunning' \/ Servants(s)' = {}
                                  \/ s \notin queueRunning
    PROVE  OneWorkerPerSquad'
  BY DEF OneWorkerPerSquad

LEMMA WorkerNext == WorkerInv /\ [Next]_vars => WorkerInv'
<1> SUFFICES ASSUME WorkerInv, [Next]_vars
             PROVE  WorkerInv'
  OBVIOUS
<1> USE SquadOfAssumption, WorkerIdsAssumption
<1>0. TypeOK /\ TypeOK' /\ OneWorkerPerSquad
  BY TypeNext DEF WorkerInv
<1>1. ASSUME NEW t \in Tasks, StampTask(t)
      PROVE  WorkerInv'
  <2>1. \A s \in Squads : Servants(s)' = Servants(s)
    BY <1>0, <1>1 DEF StampTask, Servants, WillStartWorker, workerVars, TypeOK
  <2>2. OneWorkerPerSquad'
    BY <1>0, <1>1, <2>1 DEF OneWorkerPerSquad, StampTask, managerVars
  <2>3. QED
    BY <1>0, <1>1, <2>2
    DEF WorkerInv, StampTask, TypeOK, managerVars, workerVars, processVars
<1>2. ASSUME NEW t \in Tasks, AdmitTask(t)
      PROVE  WorkerInv'
  <2> DEFINE s == SquadOf[t]
  <2>1. /\ call[t] = "stamped"
        /\ call' = [call EXCEPT ![t] = "saving"]
        /\ starter' = [starter EXCEPT ![t] = s \notin queueRunning]
        /\ queueRunning' = queueRunning \cup {s}
        /\ wpc' = wpc /\ phase' = phase /\ toRestore' = toRestore
    BY <1>2 DEF AdmitTask, MustStartWorker, workerVars, processVars
  <2>2. phase = "up" /\ toRestore = {} /\ wpc[t] = "none"
    BY <2>1 DEF WorkerInv
  <2>3. \A r \in Squads : r # s => Servants(r)' = Servants(r)
    BY <1>0, <2>1 DEF Servants, WillStartWorker, SquadOfWorker, TypeOK
  <2>4. Servants(s)' \subseteq Servants(s) \cup (IF s \in queueRunning THEN {} ELSE {t})
    BY <1>0, <2>1 DEF Servants, WillStartWorker, TypeOK
  <2>5. s \notin queueRunning => Servants(s) = {}
    BY <1>0 DEF OneWorkerPerSquad
  <2>6. \A v, w \in Servants(s)' : v = w
    BY <1>0, <2>4, <2>5 DEF OneWorkerPerSquad
  <2>7. OneWorkerPerSquad'
    BY <1>0, <2>1, <2>3, <2>6 DEF OneWorkerPerSquad
  <2>8. QED
    BY <1>0, <2>1, <2>2, <2>7 DEF WorkerInv, TypeOK
<1>3. ASSUME NEW t \in Tasks, PersistTask(t)
      PROVE  WorkerInv'
  <2>1. /\ call[t] = "saving"
        /\ call' = [call EXCEPT ![t] = "ok"]
        /\ UNCHANGED <<starter, queueRunning, phase, toRestore>>
    BY <1>3 DEF PersistTask, managerVars, processVars
  <2>2. wpc' = wpc \/ (WillStartWorker(t) /\ wpc' = [wpc EXCEPT ![t] = "next"])
    <3>1. CASE starter[t]
      BY <1>3, <2>1, <3>1 DEF PersistTask, WillStartWorker
    <3>2. CASE ~starter[t]
      BY <1>3, <3>2 DEF PersistTask
    <3>3. QED
      BY <3>1, <3>2
  <2>3. \A s \in Squads : Servants(s)' \subseteq Servants(s)
    <3>1. \A u \in Tasks : WillStartWorker(u)' => WillStartWorker(u)
      BY <1>0, <2>1 DEF WillStartWorker, TypeOK
    <3>2. \A w \in Workers :
              wpc'[w] # "none" => wpc[w] # "none" \/ (w = t /\ WillStartWorker(t))
      BY <1>0, <2>2 DEF TypeOK
    <3>3. QED
      BY <3>1, <3>2 DEF Servants
  <2>4. OneWorkerPerSquad'
    BY <1>0, <2>1, <2>3, ServantsShrink
  <2>5. \A u \in Tasks : u # t => call'[u] = call[u] /\ wpc'[u] = wpc[u]
    BY <1>0, <2>1, <2>2 DEF TypeOK, Workers
  <2>6. call'[t] = "ok"
    BY <1>0, <2>1 DEF TypeOK
  <2>7. QED
    BY <1>0, <2>1, <2>4, <2>5, <2>6 DEF WorkerInv
<1>4. ASSUME NEW t \in Tasks, RejectTask(t)
      PROVE  WorkerInv'
  <2> DEFINE s == SquadOf[t]
  <2>1. /\ call[t] = "saving"
        /\ call' = [call EXCEPT ![t] = "err"]
        /\ UNCHANGED <<starter, wpc, phase, toRestore>>
        /\ queueRunning' \subseteq queueRunning
        /\ \A r \in Squads : r \in queueRunning /\ r \notin queueRunning' =>
               r = s /\ starter[t]
    BY <1>4 DEF RejectTask, ReleasesMark, workerVars, processVars
  <2>2. wpc[t] = "none"
    BY <2>1 DEF WorkerInv
  <2>3. \A r \in Squads : Servants(r)' \subseteq Servants(r) \ {t}
    BY <1>0, <2>1, <2>2 DEF Servants, WillStartWorker, TypeOK
  <2>4. starter[t] => t \in Servants(s)
    BY <2>1 DEF Servants, WillStartWorker, SquadOfWorker, Workers
  <2>5. starter[t] => Servants(s)' = {}
    BY <1>0, <2>3, <2>4 DEF OneWorkerPerSquad
  <2>6. OneWorkerPerSquad'
    BY <1>0, <2>1, <2>3, <2>5, ServantsShrink
  <2>7. QED
    BY <1>0, <2>1, <2>6 DEF WorkerInv, TypeOK
<1>5. ASSUME NEW w \in Workers, NextQueuedTask(w)
      PROVE  WorkerInv'
  <2>1. /\ wpc[w] = "next"
        /\ wpc' = [wpc EXCEPT ![w] = "none"] \/ wpc' = [wpc EXCEPT ![w] = "exec"]
        /\ UNCHANGED <<call, starter, queueRunning, phase, toRestore>>
    BY <1>5 DEF NextQueuedTask, callVars, processVars
  <2>2. \A s \in Squads : Servants(s)' \subseteq Servants(s)
    BY <1>0, <2>1 DEF Servants, WillStartWorker, TypeOK
  <2>3. OneWorkerPerSquad'
    BY <1>0, <2>1, <2>2, ServantsShrink
  <2>4. QED
    BY <1>0, <2>1, <2>3 DEF WorkerInv, TypeOK, Workers
<1>6. ASSUME NEW w \in Workers, RetireWorker(w)
      PROVE  WorkerInv'
  <2> DEFINE s == SquadOfWorker(w)
  <2>1. /\ wpc[w] = "next"
        /\ wpc' = [wpc EXCEPT ![w] = "none"]
        /\ queueRunning' = queueRunning \ {s}
        /\ UNCHANGED <<call, starter, phase, toRestore>>
    BY <1>6 DEF RetireWorker, callVars, processVars
  <2>2. w \in Tasks => ~WillStartWorker(w)
    BY <2>1 DEF WorkerInv, WillStartWorker
  <2>3. \A r \in Squads : Servants(r)' \subseteq Servants(r) \ {w}
    BY <1>0, <2>1, <2>2 DEF Servants, WillStartWorker, TypeOK
  <2>4. s \in Squads /\ w \in Servants(s)
    BY <2>1 DEF Servants, SquadOfWorker, Workers
  <2>5. Servants(s)' = {}
    BY <1>0, <2>3, <2>4 DEF OneWorkerPerSquad
  <2>6. OneWorkerPerSquad'
    BY <1>0, <2>1, <2>3, <2>5, ServantsShrink
  <2>7. QED
    BY <1>0, <2>1, <2>6 DEF WorkerInv, TypeOK, Workers
<1>7. ASSUME NEW w \in Workers, NEW outcome \in Terminal, FinishTask(w, outcome)
      PROVE  WorkerInv'
  <2>1. /\ wpc[w] = "exec"
        /\ wpc' = [wpc EXCEPT ![w] = "next"]
        /\ UNCHANGED <<call, starter, queueRunning, phase, toRestore>>
    BY <1>7 DEF FinishTask, callVars, processVars
  <2>2. \A s \in Squads : Servants(s)' \subseteq Servants(s)
    BY <1>0, <2>1 DEF Servants, WillStartWorker, TypeOK
  <2>3. OneWorkerPerSquad'
    BY <1>0, <2>1, <2>2, ServantsShrink
  <2>4. QED
    BY <1>0, <2>1, <2>3 DEF WorkerInv, TypeOK, Workers
<1>8. CASE Crash
  <2>1. \A s \in Squads : Servants(s)' = {}
    BY <1>8 DEF Crash, Servants, WillStartWorker, Workers
  <2>2. OneWorkerPerSquad'
    BY <2>1 DEF OneWorkerPerSquad
  <2>3. QED
    BY <1>0, <1>8, <2>2 DEF WorkerInv, Crash, Workers, TypeOK
<1>9. CASE LoadTasks \/ LoadTasksFails
  <2>1. /\ phase = "down"
        /\ UNCHANGED <<call, starter, queueRunning, wpc>>
        /\ phase' \in {"up", "restoring"}
        /\ phase' = "up" => toRestore' = {}
    BY <1>9 DEF LoadTasks, LoadTasksFails, WorkerInv, callVars, managerVars, workerVars
  <2>2. \A s \in Squads : Servants(s)' = Servants(s)
    BY <2>1 DEF Servants, WillStartWorker
  <2>3. OneWorkerPerSquad'
    BY <1>0, <2>1, <2>2 DEF OneWorkerPerSquad
  <2>4. QED
    BY <1>0, <2>1, <2>3 DEF WorkerInv, TypeOK
<1>10. ASSUME NEW s \in Squads, RestoreSquad(s)
       PROVE  WorkerInv'
  <2>1. /\ phase = "restoring" /\ s \in toRestore
        /\ queueRunning' = queueRunning \cup {s}
        /\ wpc' = [wpc EXCEPT ![s] = "next"]
        /\ toRestore' = toRestore \ {s}
        /\ phase' = IF toRestore = {s} THEN "up" ELSE phase
        /\ UNCHANGED <<call, starter>>
    BY <1>10 DEF RestoreSquad, callVars
  <2>2. Servants(s) = {}
    BY <1>0, <2>1 DEF WorkerInv, OneWorkerPerSquad
  <2>3. \A r \in Squads : Servants(r)' \subseteq Servants(r) \cup {s}
    BY <1>0, <2>1 DEF Servants, WillStartWorker, TypeOK
  <2>4. \A r \in Squads : r # s => s \notin Servants(r)'
    BY DEF Servants, SquadOfWorker
  <2>5. OneWorkerPerSquad'
    BY <1>0, <2>1, <2>2, <2>3, <2>4 DEF OneWorkerPerSquad
  <2>6. s \notin Tasks
    OBVIOUS
  <2>7. QED
    BY <1>0, <2>1, <2>5, <2>6 DEF WorkerInv, TypeOK, Workers
<1>11. CASE UNCHANGED vars
  <2>1. \A s \in Squads : Servants(s)' = Servants(s)
    BY <1>11 DEF vars, callVars, workerVars, Servants, WillStartWorker
  <2>2. QED
    BY <1>0, <1>11, <2>1
    DEF WorkerInv, OneWorkerPerSquad, vars, callVars, managerVars, workerVars, processVars
<1>12. QED
  BY <1>1, <1>2, <1>3, <1>4, <1>5, <1>6, <1>7, <1>8, <1>9, <1>10, <1>11
  DEF Next, Enqueue, Work, Restart

\* A squad has at most one worker, counting the one a call is about to start,
\* for any number of tasks and squads, failures and crashes.
THEOREM OneWorker == Spec => []OneWorkerPerSquad
<1>1. WorkerInv => OneWorkerPerSquad
  BY DEF WorkerInv
<1>2. QED
  BY WorkerInit, WorkerNext, <1>1, PTL DEF Spec
-----------------------------------------------------------------------------
(* Lemmas about queues *)

\* No task is on the queue twice.
Once(queue) == \A i, j \in DOMAIN queue : queue[i] = queue[j] => i = j

\* The elements of new are elements of old, in the same order.
InOrderOf(new, old) ==
    /\ \A i \in DOMAIN new : \E a \in DOMAIN old : new[i] = old[a]
    /\ \A i, j \in DOMAIN new : i < j =>
           \E a, b \in DOMAIN old : a < b /\ new[i] = old[a] /\ new[j] = old[b]

\* A sequence without its element k.
LEMMA CutAt ==
    ASSUME NEW S, NEW queue \in Seq(S), NEW k \in 1..Len(queue)
    PROVE  LET cut == SubSeq(queue, 1, k - 1) \o SubSeq(queue, k + 1, Len(queue))
           IN  /\ cut \in Seq(S)
               /\ Len(cut) = Len(queue) - 1
               /\ \A i \in 1..Len(cut) : cut[i] = IF i < k THEN queue[i] ELSE queue[i + 1]
<1> DEFINE front == SubSeq(queue, 1, k - 1)
           back  == SubSeq(queue, k + 1, Len(queue))
           cut   == front \o back
<1>1. Len(queue) \in Nat /\ k \in Nat /\ k >= 1 /\ k <= Len(queue)
  BY LenProperties
<1>2. \A i \in 1..Len(queue) : queue[i] \in S
  BY ElementOfSeq
<1>3. /\ front \in Seq(S)
      /\ Len(front) = k - 1
      /\ \A i \in 1..(k - 1) : front[i] = queue[i]
  <2>1. k - 1 \in Int /\ \A i \in 1..(k - 1) : queue[i] \in S
    BY <1>1, <1>2
  <2>2. (IF 1 <= k - 1 THEN k - 1 - 1 + 1 ELSE 0) = k - 1
    BY <1>1
  <2>3. \A i \in 1..(k - 1) : 1 + i - 1 = i
    OBVIOUS
  <2>4. QED
    BY <2>1, <2>2, <2>3, SubSeqProperties
<1>4. /\ back \in Seq(S)
      /\ Len(back) = Len(queue) - k
      /\ \A i \in 1..(Len(queue) - k) : back[i] = queue[k + i]
  <2>1. k + 1 \in Int /\ \A i \in (k + 1)..Len(queue) : queue[i] \in S
    BY <1>1, <1>2
  <2>2. (IF k + 1 <= Len(queue) THEN Len(queue) - (k + 1) + 1 ELSE 0) = Len(queue) - k
    BY <1>1
  <2>3. \A i \in 1..(Len(queue) - k) : k + 1 + i - 1 = k + i
    BY <1>1
  <2>4. QED
    BY <1>1, <2>1, <2>2, <2>3, SubSeqProperties
<1> HIDE DEF front, back
<1>5. /\ cut \in Seq(S)
      /\ Len(cut) = Len(front) + Len(back)
      /\ \A i \in 1..Len(cut) :
             cut[i] = IF i <= Len(front) THEN front[i] ELSE back[i - Len(front)]
  <2>1. /\ cut \in Seq(S)
        /\ Len(cut) = Len(front) + Len(back)
        /\ \A i \in 1..(Len(front) + Len(back)) :
               cut[i] = IF i <= Len(front) THEN front[i] ELSE back[i - Len(front)]
    BY <1>3, <1>4, ConcatProperties
  <2> HIDE DEF cut
  <2>2. QED
    BY <2>1
<1>6. Len(cut) = Len(queue) - 1
  BY <1>1, <1>3, <1>4, <1>5
<1>7. ASSUME NEW i \in 1..Len(cut)
      PROVE  cut[i] = IF i < k THEN queue[i] ELSE queue[i + 1]
  <2>1. CASE i < k
    BY <1>1, <1>3, <1>5, <1>6, <2>1
  <2>2. CASE ~(i < k)
    <3>1. i - (k - 1) \in 1..(Len(queue) - k) /\ k + (i - (k - 1)) = i + 1
      BY <1>1, <1>6, <2>2
    <3>2. cut[i] = back[i - (k - 1)]
      BY <1>1, <1>3, <1>5, <2>2
    <3>3. back[i - (k - 1)] = queue[k + (i - (k - 1))]
      BY <1>4, <3>1
    <3>4. QED
      BY <2>2, <3>1, <3>2, <3>3
  <2>3. QED
    BY <2>1, <2>2
<1>8. QED
  BY <1>5, <1>6, <1>7 DEF front, back

\* Without cuts its task out of the queue.
LEMMA WithoutCuts ==
    ASSUME NEW S, NEW queue \in Seq(S), NEW t \in Range(queue)
    PROVE  \E k \in 1..Len(queue) :
               /\ queue[k] = t
               /\ Without(queue, t) = SubSeq(queue, 1, k - 1)
                                        \o SubSeq(queue, k + 1, Len(queue))
<1> DEFINE k == CHOOSE i \in DOMAIN queue : queue[i] = t
<1>1. DOMAIN queue = 1..Len(queue)
  BY LenProperties
<1>2. k \in DOMAIN queue /\ queue[k] = t
  BY DEF Range
<1>3. Without(queue, t) = SubSeq(queue, 1, k - 1) \o SubSeq(queue, k + 1, Len(queue))
  BY DEF Without
<1> HIDE DEF k
<1>4. QED
  BY <1>1, <1>2, <1>3

\* Taking a task off a queue that holds it once leaves the others in order.
LEMMA WithoutKeeps ==
    ASSUME NEW S, NEW queue \in Seq(S), NEW t \in Range(queue), Once(queue)
    PROVE  /\ Without(queue, t) \in Seq(S)
           /\ Len(Without(queue, t)) = Len(queue) - 1
           /\ Range(Without(queue, t)) = Range(queue) \ {t}
           /\ InOrderOf(Without(queue, t), queue)
<1> DEFINE cut == Without(queue, t)
<1>1. PICK k \in 1..Len(queue) :
          /\ queue[k] = t
          /\ Without(queue, t) = SubSeq(queue, 1, k - 1) \o SubSeq(queue, k + 1, Len(queue))
  BY WithoutCuts
<1>2. /\ cut \in Seq(S)
      /\ Len(cut) = Len(queue) - 1
      /\ \A i \in 1..Len(cut) : cut[i] = IF i < k THEN queue[i] ELSE queue[i + 1]
  BY <1>1, CutAt, ZenonT(60)
<1>3. Len(queue) \in Nat /\ DOMAIN queue = 1..Len(queue) /\ DOMAIN cut = 1..Len(cut)
  BY <1>2, LenProperties
<1> HIDE DEF cut
<1>4. ASSUME NEW i \in DOMAIN cut
      PROVE  \E a \in DOMAIN queue : a # k /\ cut[i] = queue[a] /\ a \in {i, i + 1}
  <2>1. i \in DOMAIN queue /\ i + 1 \in DOMAIN queue
    BY <1>2, <1>3
  <2>2. CASE i < k
    BY <1>2, <1>3, <2>1, <2>2
  <2>3. CASE ~(i < k)
    BY <1>2, <1>3, <2>1, <2>3
  <2>4. QED
    BY <2>2, <2>3
<1>5. ASSUME NEW a \in DOMAIN queue, a # k
      PROVE  \E i \in DOMAIN cut : cut[i] = queue[a]
  <2>1. CASE a < k
    BY <1>2, <1>3, <2>1
  <2>2. CASE ~(a < k)
    <3>1. a - 1 \in 1..Len(cut) /\ ~(a - 1 < k) /\ (a - 1) + 1 = a
      BY <1>2, <1>3, <1>5, <2>2
    <3>2. QED
      BY <1>2, <1>3, <3>1
  <2>3. QED
    BY <2>1, <2>2
<1>6. Range(cut) = Range(queue) \ {t}
  <2>1. \A a \in DOMAIN queue : queue[a] = t => a = k
    BY <1>1, <1>3 DEF Once
  <2>2. \A x : x \in Range(cut) => x \in Range(queue) /\ x # t
    BY <1>4, <2>1 DEF Range
  <2>3. \A x : x \in Range(queue) /\ x # t => x \in Range(cut)
    BY <1>1, <1>5 DEF Range
  <2>4. QED
    BY <2>2, <2>3
<1>7. InOrderOf(cut, queue)
  <2>1. ASSUME NEW i \in DOMAIN cut, NEW j \in DOMAIN cut, i < j
        PROVE  \E a, b \in DOMAIN queue : a < b /\ cut[i] = queue[a] /\ cut[j] = queue[b]
    <3> DEFINE at(n) == IF n < k THEN n ELSE n + 1
    <3>1. at(i) \in DOMAIN queue /\ at(j) \in DOMAIN queue /\ at(i) < at(j)
      BY <1>2, <1>3, <2>1
    <3>2. cut[i] = queue[at(i)] /\ cut[j] = queue[at(j)]
      BY <1>2, <1>3
    <3>3. QED
      BY <3>1, <3>2
  <2>2. QED
    BY <1>4, <2>1 DEF InOrderOf
<1>8. QED
  BY <1>2, <1>6, <1>7 DEF cut

\* So does popping the head.
LEMMA TailKeeps ==
    ASSUME NEW S, NEW queue \in Seq(S), queue # <<>>, Once(queue)
    PROVE  /\ Tail(queue) \in Seq(S)
           /\ Head(queue) \in Range(queue)
           /\ Range(Tail(queue)) = Range(queue) \ {Head(queue)}
           /\ InOrderOf(Tail(queue), queue)
           /\ \A i \in DOMAIN queue : queue[i] = Head(queue) => i = 1
<1>1. /\ Tail(queue) \in Seq(S)
      /\ Len(Tail(queue)) = Len(queue) - 1
      /\ \A i \in 1..Len(Tail(queue)) : Tail(queue)[i] = queue[i + 1]
      /\ Head(queue) = queue[1]
  BY HeadTailProperties
<1>2. /\ Len(queue) \in Nat \ {0}
      /\ DOMAIN queue = 1..Len(queue)
      /\ DOMAIN Tail(queue) = 1..(Len(queue) - 1)
  BY <1>1, LenProperties, EmptySeq
<1>3. Head(queue) \in Range(queue)
  BY <1>1, <1>2 DEF Range
<1>4. \A i \in DOMAIN queue : queue[i] = Head(queue) => i = 1
  BY <1>1, <1>2 DEF Once
<1>5. \A i \in DOMAIN Tail(queue) :
          i + 1 \in DOMAIN queue /\ i + 1 # 1 /\ Tail(queue)[i] = queue[i + 1]
  BY <1>1, <1>2
<1>6. \A x : x \in Range(Tail(queue)) => x \in Range(queue) /\ x # Head(queue)
  BY <1>4, <1>5 DEF Range
<1>7. ASSUME NEW x \in Range(queue), x # Head(queue)
      PROVE  x \in Range(Tail(queue))
  <2>1. PICK a \in DOMAIN queue : queue[a] = x
    BY DEF Range
  <2>2. a # 1
    BY <1>1, <1>7, <2>1
  <2>3. a - 1 \in DOMAIN Tail(queue) /\ (a - 1) + 1 = a
    BY <1>2, <2>2
  <2>4. Tail(queue)[a - 1] = queue[a]
    BY <1>5, <2>3
  <2>5. QED
    BY <2>1, <2>3, <2>4 DEF Range
<1>8. InOrderOf(Tail(queue), queue)
  <2>1. ASSUME NEW i \in DOMAIN Tail(queue), NEW j \in DOMAIN Tail(queue), i < j
        PROVE  /\ i + 1 \in DOMAIN queue /\ j + 1 \in DOMAIN queue /\ i + 1 < j + 1
               /\ Tail(queue)[i] = queue[i + 1] /\ Tail(queue)[j] = queue[j + 1]
    BY <1>2, <1>5, <2>1
  <2>2. QED
    BY <1>5, <2>1 DEF InOrderOf
<1>9. QED
  BY <1>1, <1>3, <1>4, <1>6, <1>7, <1>8

\* A queue in the order of another one that holds each task once does so too.
LEMMA OrderKeepsOnce ==
    ASSUME NEW S, NEW new \in Seq(S), NEW old, Once(old), InOrderOf(new, old),
           \A a \in DOMAIN old : a \in Int
    PROVE  Once(new)
<1> SUFFICES ASSUME NEW i \in DOMAIN new, NEW j \in DOMAIN new, new[i] = new[j], i # j
             PROVE  FALSE
  BY DEF Once
<1>1. i \in Int /\ j \in Int
  BY LenProperties
<1>2. \A x, y \in DOMAIN new : x < y => new[x] # new[y]
  <2> SUFFICES ASSUME NEW x \in DOMAIN new, NEW y \in DOMAIN new, x < y
               PROVE  new[x] # new[y]
    OBVIOUS
  <2>1. PICK a \in DOMAIN old, b \in DOMAIN old :
            a < b /\ new[x] = old[a] /\ new[y] = old[b]
    BY DEF InOrderOf
  <2>2. a # b
    BY <2>1
  <2>3. QED
    BY <2>1, <2>2 DEF Once
<1>3. i < j \/ j < i
  BY <1>1
<1>4. QED
  BY <1>2, <1>3
-----------------------------------------------------------------------------
(* The inductive invariant *)

\* A task whose call has not admitted it is known to nobody.
UnbornAreUnknown ==
    \A t \in Tasks : call[t] \in {"idle", "stamped"} =>
        sharedTasks[t] = "absent" /\ db[t] = "absent" /\ runs[t] = 0

\* A task that is being saved is known to the manager.
SavingAreKnown == \A t \in Tasks : call[t] = "saving" => sharedTasks[t] # "absent"

\* A worker executes a task of its squad, for the first time since the start;
\* the manager knows it as running, or no more.
WorkersHoldTheirTask ==
    \A w \in Workers : wpc[w] = "exec" =>
        /\ wtask[w] \in Tasks
        /\ SquadOf[wtask[w]] = SquadOfWorker(w)
        /\ sharedTasks[wtask[w]] \in {"running", "absent"}
        /\ runs[wtask[w]] = 1

\* Queued tasks are on their queue or will be put there by restoreSharedTasks.
TasksAreHeld ==
    \A t \in Tasks :
        /\ sharedTasks[t] = "queued" =>
               t \in Range(taskQueues[SquadOf[t]]) \/ SquadOf[t] \in toRestore
        /\ sharedTasks[t] = "running" => IsExecuting(t)

\* While the process is down its memory holds nothing.
DownIsEmpty ==
    phase = "down" =>
        /\ \A t \in Tasks : sharedTasks[t] = "absent" /\ runs[t] = 0
        /\ \A w \in Workers : wpc[w] = "none"

\* A queued task has not been executed since the start.
QueuedHaveNotRun == \A t \in Tasks : sharedTasks[t] = "queued" => runs[t] = 0

\* A refused task without a row is unknown to the manager.
RefusedAreUnknown ==
    \A t \in Tasks :
        call[t] = "err" /\ db[t] = "absent" => sharedTasks[t] = "absent"

\* Where the table says finished, the manager says the same or nothing.
FinishedRowsAgree ==
    \A t \in Tasks : db[t] \in Terminal => sharedTasks[t] \in {db[t], "absent"}

\* While a call is to start the worker its task waits: nobody else serves it.
StartersWait == \A t \in Tasks : WillStartWorker(t) => sharedTasks[t] = "queued"

\* What is to be true together for every step to keep it.
KeepsInv ==
    /\ WorkerInv
    /\ QueuesAreSound
    /\ UnbornAreUnknown
    /\ SavingAreKnown
    /\ WorkersHoldTheirTask
    /\ TasksAreHeld
    /\ DownIsEmpty
    /\ AcknowledgedIsDurable
    /\ QueuedHaveNotRun
    /\ RunsOncePerStart
    /\ RefusedAreUnknown
    /\ FinishedRowsAgree
    /\ StartersWait

\* SaveIgnoringError writes the row of its task or nothing.
LEMMA SaveWrites ==
    ASSUME TypeOK, NEW t \in Tasks, NEW status, SaveIgnoringError(t, status),
           NEW u \in Tasks
    PROVE  db'[u] = db[u] \/ (u = t /\ db'[u] = status)
  BY DEF SaveIgnoringError, Upserted, TypeOK

\* SaveAllIgnoringErrors writes rows of its tasks or nothing.
LEMMA SaveAllWrites ==
    ASSUME NEW set, NEW status, SaveAllIgnoringErrors(set, status), NEW u \in Tasks
    PROVE  db'[u] = db[u] \/ (u \in set /\ db'[u] = status)
  BY DEF SaveAllIgnoringErrors

\* What OneWorkerPerSquad says of the workers that run: they have different
\* squads, a marked one each, and none of a call that is to start a worker.
LEMMA WorkersApart ==
    ASSUME WorkerInv
    PROVE  /\ \A v, w \in Workers :
                  wpc[v] # "none" /\ wpc[w] # "none"
                      /\ SquadOfWorker(v) = SquadOfWorker(w) => v = w
           /\ \A w \in Workers : wpc[w] # "none" => SquadOfWorker(w) \in queueRunning
           /\ \A t \in Tasks, w \in Workers :
                  WillStartWorker(t) /\ wpc[w] # "none" => SquadOfWorker(w) # SquadOf[t]
<1>1. \A w \in Workers : SquadOfWorker(w) \in Squads
  BY SquadOfAssumption DEF Workers, SquadOfWorker
<1>2. \A w \in Workers : wpc[w] # "none" => w \in Servants(SquadOfWorker(w))
  BY DEF Servants
<1>3. \A t \in Tasks : WillStartWorker(t) =>
          t \in Workers /\ t \in Servants(SquadOf[t]) /\ SquadOf[t] \in Squads
              /\ wpc[t] = "none"
  BY SquadOfAssumption, WorkerIdsAssumption
  DEF Servants, Workers, SquadOfWorker, WorkerInv, WillStartWorker
<1>4. OneWorkerPerSquad
  BY DEF WorkerInv
<1>5. QED
  BY <1>1, <1>2, <1>3, <1>4 DEF OneWorkerPerSquad

\* What is on a queue, in terms of the set of its elements.
LEMMA OnQueue ==
    ASSUME TypeOK, QueuesAreSound, NEW s \in Squads
    PROVE  /\ taskQueues[s] \in Seq(Tasks)
           /\ Once(taskQueues[s])
           /\ \A t \in Range(taskQueues[s]) :
                  t \in Tasks /\ SquadOf[t] = s /\ sharedTasks[t] = "queued"
           /\ taskQueues[s] # <<>> => s \in queueRunning
<1>1. taskQueues[s] \in Seq(Tasks)
  BY DEF TypeOK
<1>2. \A i \in DOMAIN taskQueues[s] : taskQueues[s][i] \in Tasks
  BY <1>1, ElementOfSeq, LenProperties
<1>3. QED
  BY <1>1, <1>2 DEF QueuesAreSound, Once, Range

LEMMA KeepsInit == Init => KeepsInv
<1> SUFFICES ASSUME Init
             PROVE  KeepsInv
  OBVIOUS
<1>1. WorkerInv
  BY WorkerInit
<1>2. QueuesAreSound
  BY DEF Init, QueuesAreSound
<1>3. QED
  BY <1>1, <1>2
  DEF Init, KeepsInv, UnbornAreUnknown, SavingAreKnown, WorkersHoldTheirTask,
      TasksAreHeld, DownIsEmpty, AcknowledgedIsDurable, QueuedHaveNotRun,
      RunsOncePerStart, RefusedAreUnknown, FinishedRowsAgree, StartersWait,
      WillStartWorker, Workers, Terminal
\* Every step keeps the invariant.
LEMMA KeepsNext == KeepsInv /\ [Next]_vars => KeepsInv'
<1> SUFFICES ASSUME KeepsInv, [Next]_vars
             PROVE  KeepsInv'
  OBVIOUS
<1> USE SquadOfAssumption, WorkerIdsAssumption
<1>0. TypeOK /\ TypeOK' /\ WorkerInv /\ WorkerInv' /\ QueuesAreSound
  BY WorkerNext, TypeNext DEF KeepsInv, WorkerInv
<1>1. ASSUME NEW t \in Tasks, StampTask(t)
      PROVE  KeepsInv'
  <2>1. /\ call[t] = "idle"
        /\ call' = [call EXCEPT ![t] = "stamped"]
        /\ UNCHANGED <<starter, managerVars, workerVars, db, processVars>>
    BY <1>1 DEF StampTask
  <2>2. \A u \in Tasks : call'[u] = IF u = t THEN "stamped" ELSE call[u]
    BY <1>0, <2>1 DEF TypeOK
  <2>3. QED
    BY <1>0, <2>1, <2>2
    DEF KeepsInv, managerVars, workerVars, processVars, QueuesAreSound,
        UnbornAreUnknown, SavingAreKnown, WorkersHoldTheirTask, TasksAreHeld,
        IsExecuting, Executes, DownIsEmpty, AcknowledgedIsDurable, QueuedHaveNotRun,
        RunsOncePerStart, RefusedAreUnknown, FinishedRowsAgree, StartersWait,
        WillStartWorker
<1>2. ASSUME NEW t \in Tasks, AdmitTask(t)
      PROVE  KeepsInv'
  <2> DEFINE s == SquadOf[t]
  <2>1. /\ call[t] = "stamped"
        /\ call' = [call EXCEPT ![t] = "saving"]
        /\ sharedTasks' = [sharedTasks EXCEPT ![t] = "queued"]
        /\ taskQueues' = [taskQueues EXCEPT ![s] = Append(taskQueues[s], t)]
        /\ queueRunning' = queueRunning \cup {s}
        /\ starter' = [starter EXCEPT ![t] = s \notin queueRunning]
        /\ UNCHANGED <<wpc, wtask, runs, db, phase, toRestore>>
    BY <1>2 DEF AdmitTask, MustStartWorker, workerVars, processVars
  <2>2. \A u \in Tasks :
            /\ call'[u] = IF u = t THEN "saving" ELSE call[u]
            /\ sharedTasks'[u] = IF u = t THEN "queued" ELSE sharedTasks[u]
            /\ u # t => starter'[u] = starter[u]
    BY <1>0, <2>1 DEF TypeOK
  <2>3. /\ sharedTasks[t] = "absent" /\ db[t] = "absent" /\ runs[t] = 0
        /\ phase = "up"
    BY <1>0, <2>1 DEF KeepsInv, UnbornAreUnknown, WorkerInv
  <2>4. \A w \in Workers : wpc[w] = "exec" => wtask[w] # t
    BY <2>3 DEF KeepsInv, WorkersHoldTheirTask
  <2>5. \A r \in Squads :
            taskQueues'[r] = IF r = s THEN Append(taskQueues[s], t) ELSE taskQueues[r]
    BY <1>0, <2>1 DEF TypeOK
  <2>6. \A r \in Squads : t \notin Range(taskQueues[r])
    BY <1>0, <2>3, OnQueue
  <2>7. /\ Once(taskQueues'[s])
        /\ Range(taskQueues'[s]) = Range(taskQueues[s]) \cup {t}
    <3> DEFINE q == taskQueues[s]
    <3>1. /\ q \in Seq(Tasks) /\ Once(q) /\ t \notin Range(q)
          /\ taskQueues'[s] = Append(q, t)
      BY <1>0, <2>5, <2>6, OnQueue
    <3> HIDE DEF q, s
    <3>2. /\ Append(q, t) \in Seq(Tasks)
          /\ Len(Append(q, t)) = Len(q) + 1
          /\ \A i \in 1..Len(q) : Append(q, t)[i] = q[i]
          /\ Append(q, t)[Len(q) + 1] = t
      BY <3>1, AppendProperties
    <3>3. /\ Len(q) \in Nat /\ DOMAIN q = 1..Len(q)
          /\ DOMAIN Append(q, t) = 1..(Len(q) + 1)
      BY <3>1, <3>2, LenProperties
    <3>4. \A i \in 1..(Len(q) + 1) : i \in 1..Len(q) \/ i = Len(q) + 1
      BY <3>3
    <3>5. \A i \in 1..Len(q) : q[i] # t
      BY <3>1, <3>3 DEF Range
    <3>6. Once(Append(q, t))
      BY <3>1, <3>2, <3>3, <3>4, <3>5 DEF Once
    <3>7. Len(q) + 1 \in 1..(Len(q) + 1) /\ \A i \in 1..Len(q) : i \in 1..(Len(q) + 1)
      BY <3>3
    <3>8. Range(Append(q, t)) = Range(q) \cup {t}
      BY <3>2, <3>3, <3>4, <3>7 DEF Range
    <3>9. QED
      BY <3>1, <3>6, <3>8 DEF q
  <2>8. QueuesAreSound'
    <3>1. ASSUME NEW r \in Squads
          PROVE  /\ Once(taskQueues'[r])
                 /\ \A u \in Range(taskQueues'[r]) :
                        SquadOf[u] = r /\ sharedTasks'[u] = "queued"
                 /\ taskQueues'[r] # <<>> => r \in queueRunning'
      <4>1. CASE r = s
        BY <1>0, <2>1, <2>2, <2>7, <4>1, OnQueue
      <4>2. CASE r # s
        BY <1>0, <2>1, <2>2, <2>5, <2>6, <4>2, OnQueue
      <4>3. QED
        BY <4>1, <4>2
    <3>2. QED
      BY <3>1 DEF QueuesAreSound, Once, Range
  <2>9. TasksAreHeld'
    <3>1. ASSUME NEW u \in Tasks, sharedTasks'[u] = "queued"
          PROVE  u \in Range(taskQueues'[SquadOf[u]]) \/ SquadOf[u] \in toRestore'
      <4>1. CASE u = t
        BY <2>7, <4>1
      <4>2. CASE u # t
        <5>1. u \in Range(taskQueues[SquadOf[u]]) \/ SquadOf[u] \in toRestore
          BY <2>2, <3>1, <4>2 DEF KeepsInv, TasksAreHeld
        <5>2. SquadOf[u] \in Squads
          OBVIOUS
        <5>3. QED
          BY <2>1, <2>5, <2>7, <5>1, <5>2
      <4>3. QED
        BY <4>1, <4>2
    <3>2. \A u \in Tasks : IsExecuting(u)' = IsExecuting(u)
      BY <2>1 DEF IsExecuting, Executes
    <3>3. QED
      BY <2>2, <3>1, <3>2 DEF KeepsInv, TasksAreHeld
  <2>10. StartersWait'
    BY <2>1, <2>2 DEF KeepsInv, StartersWait, WillStartWorker
  <2>11. WorkersHoldTheirTask'
    BY <2>1, <2>2, <2>4 DEF KeepsInv, WorkersHoldTheirTask
  <2>12. /\ UnbornAreUnknown' /\ SavingAreKnown' /\ DownIsEmpty'
         /\ AcknowledgedIsDurable' /\ QueuedHaveNotRun' /\ RunsOncePerStart'
         /\ RefusedAreUnknown' /\ FinishedRowsAgree'
    BY <2>1, <2>2, <2>3
    DEF KeepsInv, UnbornAreUnknown, SavingAreKnown, DownIsEmpty, Terminal,
        AcknowledgedIsDurable, QueuedHaveNotRun, RunsOncePerStart,
        RefusedAreUnknown, FinishedRowsAgree
  <2>13. QED
    BY <1>0, <2>8, <2>9, <2>10, <2>11, <2>12 DEF KeepsInv
<1>3. ASSUME NEW t \in Tasks, PersistTask(t)
      PROVE  KeepsInv'
  <2>1. /\ call[t] = "saving"
        /\ call' = [call EXCEPT ![t] = "ok"]
        /\ db' = [db EXCEPT ![t] = sharedTasks[t]]
        /\ UNCHANGED <<starter, sharedTasks, taskQueues, queueRunning, wtask, runs,
                       phase, toRestore>>
    BY <1>3 DEF PersistTask, Upserted, managerVars, processVars
  <2>2. /\ wpc[t] = "none" /\ phase = "up"
        /\ sharedTasks[t] # "absent"
    BY <2>1 DEF KeepsInv, WorkerInv, SavingAreKnown
  <2>3. \A u \in Tasks :
            /\ call'[u] = IF u = t THEN "ok" ELSE call[u]
            /\ db'[u] = IF u = t THEN sharedTasks[t] ELSE db[u]
    BY <1>0, <2>1 DEF TypeOK
  <2>4. \A w \in Workers : (wpc'[w] = "exec") = (wpc[w] = "exec")
    <3>1. wpc' = wpc \/ wpc' = [wpc EXCEPT ![t] = "next"]
      BY <1>3 DEF PersistTask
    <3>2. QED
      BY <1>0, <2>2, <3>1 DEF TypeOK, Workers
  <2>5. QueuesAreSound'
    BY <1>0, <2>1 DEF QueuesAreSound
  <2>6. TasksAreHeld' /\ WorkersHoldTheirTask' /\ DownIsEmpty'
    BY <2>1, <2>2, <2>4
    DEF KeepsInv, TasksAreHeld, WorkersHoldTheirTask, DownIsEmpty, IsExecuting, Executes
  <2>7. StartersWait'
    BY <2>1, <2>3 DEF KeepsInv, StartersWait, WillStartWorker
  <2>8. /\ UnbornAreUnknown' /\ SavingAreKnown'
        /\ AcknowledgedIsDurable' /\ QueuedHaveNotRun' /\ RunsOncePerStart'
        /\ RefusedAreUnknown' /\ FinishedRowsAgree'
    BY <2>1, <2>2, <2>3
    DEF KeepsInv, UnbornAreUnknown, SavingAreKnown, Terminal,
        AcknowledgedIsDurable, QueuedHaveNotRun, RunsOncePerStart,
        RefusedAreUnknown, FinishedRowsAgree
  <2>9. QED
    BY <1>0, <2>5, <2>6, <2>7, <2>8 DEF KeepsInv
<1>4. ASSUME NEW t \in Tasks, RejectTask(t)
      PROVE  KeepsInv'
  <2> DEFINE s == SquadOf[t]
             filtered == Without(taskQueues[s], t)
  <2>1. /\ call[t] = "saving"
        /\ call' = [call EXCEPT ![t] = "err"]
        /\ sharedTasks' = [sharedTasks EXCEPT ![t] = "absent"]
        /\ taskQueues' = [taskQueues EXCEPT ![s] = filtered]
        /\ queueRunning' = IF filtered = <<>> /\ starter[t]
                           THEN queueRunning \ {s} ELSE queueRunning
        /\ UNCHANGED <<starter, wpc, wtask, runs, db, phase, toRestore>>
    BY <1>4 DEF RejectTask, ReleasesMark, workerVars, processVars
  <2>2. \A u \in Tasks :
            /\ call'[u] = IF u = t THEN "err" ELSE call[u]
            /\ sharedTasks'[u] = IF u = t THEN "absent" ELSE sharedTasks[u]
    BY <1>0, <2>1 DEF TypeOK
  <2>3. phase = "up"
    BY <2>1 DEF KeepsInv, WorkerInv
  <2>4. \A r \in Squads :
            taskQueues'[r] = IF r = s THEN filtered ELSE taskQueues[r]
    BY <1>0, <2>1 DEF TypeOK
  <2>5. /\ Once(filtered)
        /\ Range(filtered) = Range(taskQueues[s]) \ {t}
        /\ filtered # <<>> => taskQueues[s] # <<>>
    <3>1. taskQueues[s] \in Seq(Tasks) /\ Once(taskQueues[s])
      BY <1>0, OnQueue
    <3>2. CASE t \in Range(taskQueues[s])
      <4>1. /\ filtered \in Seq(Tasks)
            /\ Range(filtered) = Range(taskQueues[s]) \ {t}
            /\ InOrderOf(filtered, taskQueues[s])
        BY <3>1, <3>2, WithoutKeeps
      <4>2. \A a \in DOMAIN taskQueues[s] : a \in Int
        BY <3>1, LenProperties
      <4>3. Once(filtered)
        BY <3>1, <4>1, <4>2, OrderKeepsOnce
      <4>4. taskQueues[s] # <<>>
        BY <3>2 DEF Range
      <4>5. QED
        BY <4>1, <4>3, <4>4
    <3>3. CASE t \notin Range(taskQueues[s])
      BY <3>1, <3>3 DEF Without
    <3>4. QED
      BY <3>2, <3>3
  <2> HIDE DEF filtered
  <2>6. QueuesAreSound'
    <3>1. ASSUME NEW r \in Squads
          PROVE  /\ Once(taskQueues'[r])
                 /\ \A u \in Range(taskQueues'[r]) :
                        SquadOf[u] = r /\ sharedTasks'[u] = "queued"
                 /\ taskQueues'[r] # <<>> => r \in queueRunning'
      <4>1. CASE r = s
        BY <1>0, <2>1, <2>2, <2>4, <2>5, <4>1, OnQueue
      <4>2. CASE r # s
        BY <1>0, <2>1, <2>2, <2>4, <4>2, OnQueue
      <4>3. QED
        BY <4>1, <4>2
    <3>2. QED
      BY <3>1 DEF QueuesAreSound, Once, Range
  <2>7. TasksAreHeld'
    <3>1. ASSUME NEW u \in Tasks, sharedTasks'[u] = "queued"
          PROVE  u \in Range(taskQueues'[SquadOf[u]]) \/ SquadOf[u] \in toRestore'
      <4>1. u # t /\ SquadOf[u] \in Squads
        BY <2>2, <3>1
      <4>2. u \in Range(taskQueues[SquadOf[u]]) \/ SquadOf[u] \in toRestore
        BY <2>2, <3>1, <4>1 DEF KeepsInv, TasksAreHeld
      <4>3. QED
        BY <2>1, <2>4, <2>5, <4>1, <4>2
    <3>2. \A u \in Tasks : IsExecuting(u)' = IsExecuting(u)
      BY <2>1 DEF IsExecuting, Executes
    <3>3. QED
      BY <2>2, <3>1, <3>2 DEF KeepsInv, TasksAreHeld
  <2>8. StartersWait'
    BY <2>1, <2>2 DEF KeepsInv, StartersWait, WillStartWorker
  <2>9. WorkersHoldTheirTask'
    BY <2>1, <2>2 DEF KeepsInv, WorkersHoldTheirTask
  <2>10. /\ UnbornAreUnknown' /\ SavingAreKnown' /\ DownIsEmpty'
         /\ AcknowledgedIsDurable' /\ QueuedHaveNotRun' /\ RunsOncePerStart'
         /\ RefusedAreUnknown' /\ FinishedRowsAgree'
    BY <2>1, <2>2, <2>3
    DEF KeepsInv, UnbornAreUnknown, SavingAreKnown, DownIsEmpty, Terminal,
        AcknowledgedIsDurable, QueuedHaveNotRun, RunsOncePerStart,
        RefusedAreUnknown, FinishedRowsAgree
  <2>11. QED
    BY <1>0, <2>6, <2>7, <2>8, <2>9, <2>10 DEF KeepsInv
<1>5. ASSUME NEW w \in Workers, NextQueuedTask(w)
      PROVE  KeepsInv'
  <2> DEFINE s == SquadOfWorker(w)
             t == Head(taskQueues[s])
  <2>1. s \in Squads /\ wpc[w] = "next" /\ taskQueues[s] # <<>>
    BY <1>5 DEF NextQueuedTask, SquadOfWorker, Workers
  <2>2. /\ taskQueues[s] \in Seq(Tasks) /\ Once(taskQueues[s])
        /\ s \in queueRunning
        /\ \A u \in Range(taskQueues[s]) :
               u \in Tasks /\ SquadOf[u] = s /\ sharedTasks[u] = "queued"
    BY <1>0, <2>1, OnQueue
  <2>3. /\ Tail(taskQueues[s]) \in Seq(Tasks)
        /\ t \in Range(taskQueues[s])
        /\ Range(Tail(taskQueues[s])) = Range(taskQueues[s]) \ {t}
        /\ InOrderOf(Tail(taskQueues[s]), taskQueues[s])
    BY <2>1, <2>2, TailKeeps
  <2>4. Once(Tail(taskQueues[s]))
    <3>1. \A a \in DOMAIN taskQueues[s] : a \in Int
      BY <2>2, LenProperties
    <3>2. QED
      BY <2>2, <2>3, <3>1, OrderKeepsOnce
  <2>5. t \in Tasks /\ SquadOf[t] = s /\ sharedTasks[t] = "queued"
    BY <2>2, <2>3
  <2>6. /\ taskQueues' = [taskQueues EXCEPT ![s] = Tail(taskQueues[s])]
        /\ sharedTasks' = [sharedTasks EXCEPT ![t] = "running"]
        /\ wpc' = [wpc EXCEPT ![w] = "exec"]
        /\ wtask' = [wtask EXCEPT ![w] = t]
        /\ runs' = [runs EXCEPT ![t] = runs[t] + 1]
        /\ SaveIgnoringError(t, "running")
        /\ UNCHANGED <<call, starter, queueRunning, phase, toRestore>>
    BY <1>5, <2>5 DEF NextQueuedTask, Popped, callVars, processVars
  <2> HIDE DEF t
  <2>7. /\ \A u \in Tasks :
               /\ sharedTasks'[u] = IF u = t THEN "running" ELSE sharedTasks[u]
               /\ runs'[u] = IF u = t THEN runs[t] + 1 ELSE runs[u]
        /\ \A v \in Workers :
               /\ wpc'[v] = IF v = w THEN "exec" ELSE wpc[v]
               /\ wtask'[v] = IF v = w THEN t ELSE wtask[v]
        /\ \A r \in Squads :
               taskQueues'[r] = IF r = s THEN Tail(taskQueues[s]) ELSE taskQueues[r]
    BY <1>0, <2>1, <2>5, <2>6 DEF TypeOK
  <2>8. \A u \in Tasks : db'[u] = db[u] \/ (u = t /\ db'[u] = "running")
    BY <1>0, <2>5, <2>6, SaveWrites
  <2>9. /\ call[t] \notin {"idle", "stamped"}
        /\ ~WillStartWorker(t)
        /\ runs[t] = 0
        /\ db[t] \notin Terminal
        /\ phase # "down"
    <3>1. ~WillStartWorker(t)
      BY <1>0, <2>1, <2>5, WorkersApart
    <3>2. QED
      BY <2>1, <2>5, <3>1
      DEF KeepsInv, UnbornAreUnknown, QueuedHaveNotRun, FinishedRowsAgree,
          DownIsEmpty, Terminal
  <2>10. \A v \in Workers : wpc[v] = "exec" => v # w /\ wtask[v] # t
    BY <2>1, <2>5 DEF KeepsInv, WorkersHoldTheirTask
  <2>11. QueuesAreSound'
    <3>1. ASSUME NEW r \in Squads
          PROVE  /\ Once(taskQueues'[r])
                 /\ \A u \in Range(taskQueues'[r]) :
                        SquadOf[u] = r /\ sharedTasks'[u] = "queued"
                 /\ taskQueues'[r] # <<>> => r \in queueRunning'
      <4>1. CASE r = s
        BY <2>2, <2>3, <2>4, <2>6, <2>7, <4>1
      <4>2. CASE r # s
        BY <1>0, <2>5, <2>6, <2>7, <4>2, OnQueue
      <4>3. QED
        BY <4>1, <4>2
    <3>2. QED
      BY <3>1 DEF QueuesAreSound, Once, Range
  <2>12. WorkersHoldTheirTask'
    BY <2>5, <2>7, <2>9, <2>10 DEF KeepsInv, WorkersHoldTheirTask
  <2>13. TasksAreHeld'
    <3>1. ASSUME NEW u \in Tasks, sharedTasks'[u] = "queued"
          PROVE  u \in Range(taskQueues'[SquadOf[u]]) \/ SquadOf[u] \in toRestore'
      <4>1. u # t /\ SquadOf[u] \in Squads
        BY <2>7, <3>1
      <4>2. u \in Range(taskQueues[SquadOf[u]]) \/ SquadOf[u] \in toRestore
        BY <2>7, <3>1, <4>1 DEF KeepsInv, TasksAreHeld
      <4>3. QED
        BY <2>3, <2>6, <2>7, <4>1, <4>2
    <3>2. \A u \in Tasks : u = t => IsExecuting(u)'
      BY <2>7 DEF IsExecuting, Executes
    <3>3. \A u \in Tasks : IsExecuting(u) => IsExecuting(u)'
      BY <2>7, <2>10 DEF IsExecuting, Executes
    <3>4. QED
      BY <2>7, <3>1, <3>2, <3>3 DEF KeepsInv, TasksAreHeld
  <2>14. StartersWait'
    BY <2>6, <2>7, <2>9 DEF KeepsInv, StartersWait, WillStartWorker
  <2>15. /\ UnbornAreUnknown' /\ SavingAreKnown' /\ DownIsEmpty'
         /\ AcknowledgedIsDurable' /\ QueuedHaveNotRun' /\ RunsOncePerStart'
    BY <2>5, <2>6, <2>7, <2>8, <2>9
    DEF KeepsInv, UnbornAreUnknown, SavingAreKnown, DownIsEmpty,
        AcknowledgedIsDurable, QueuedHaveNotRun, RunsOncePerStart
  <2>16. RefusedAreUnknown' /\ FinishedRowsAgree'
    BY <2>5, <2>6, <2>7, <2>8, <2>9
    DEF KeepsInv, RefusedAreUnknown, FinishedRowsAgree, Terminal
  <2>17. QED
    BY <1>0, <2>11, <2>12, <2>13, <2>14, <2>15, <2>16 DEF KeepsInv
<1>6. ASSUME NEW w \in Workers, RetireWorker(w)
      PROVE  KeepsInv'
  <2> DEFINE s == SquadOfWorker(w)
  <2>1. /\ s \in Squads /\ wpc[w] = "next" /\ taskQueues[s] = <<>>
        /\ queueRunning' = queueRunning \ {s}
        /\ wpc' = [wpc EXCEPT ![w] = "none"]
        /\ UNCHANGED <<call, starter, sharedTasks, taskQueues, wtask, runs, db,
                       phase, toRestore>>
    BY <1>6 DEF RetireWorker, callVars, processVars, SquadOfWorker, Workers
  <2>2. \A v \in Workers : (wpc'[v] = "exec") = (wpc[v] = "exec")
    BY <1>0, <2>1 DEF TypeOK
  <2>3. QueuesAreSound'
    BY <1>0, <2>1 DEF QueuesAreSound
  <2>4. DownIsEmpty'
    BY <1>0, <2>1 DEF KeepsInv, DownIsEmpty, TypeOK
  <2>5. /\ UnbornAreUnknown' /\ SavingAreKnown' /\ WorkersHoldTheirTask'
        /\ TasksAreHeld' /\ AcknowledgedIsDurable' /\ QueuedHaveNotRun'
        /\ RunsOncePerStart' /\ RefusedAreUnknown' /\ FinishedRowsAgree'
        /\ StartersWait'
    BY <2>1, <2>2
    DEF KeepsInv, UnbornAreUnknown, SavingAreKnown, WorkersHoldTheirTask,
        TasksAreHeld, IsExecuting, Executes, AcknowledgedIsDurable, QueuedHaveNotRun,
        RunsOncePerStart, RefusedAreUnknown, FinishedRowsAgree, StartersWait,
        WillStartWorker
  <2>6. QED
    BY <1>0, <2>3, <2>4, <2>5 DEF KeepsInv
<1>7. ASSUME NEW w \in Workers, NEW outcome \in Terminal, FinishTask(w, outcome)
      PROVE  KeepsInv'
  <2> DEFINE t == wtask[w]
  <2>1. /\ wpc[w] = "exec"
        /\ wpc' = [wpc EXCEPT ![w] = "next"]
        /\ wtask' = [wtask EXCEPT ![w] = NoTask]
        /\ IF sharedTasks[t] = "absent"
           THEN UNCHANGED <<sharedTasks, db>>
           ELSE /\ sharedTasks' = [sharedTasks EXCEPT ![t] = outcome]
                /\ SaveIgnoringError(t, outcome)
        /\ UNCHANGED <<call, starter, taskQueues, queueRunning, runs, phase,
                       toRestore>>
    BY <1>7 DEF FinishTask, callVars, processVars
  <2>2. /\ t \in Tasks
        /\ SquadOf[t] = SquadOfWorker(w)
        /\ sharedTasks[t] \in {"running", "absent"}
        /\ runs[t] = 1
    BY <2>1 DEF KeepsInv, WorkersHoldTheirTask
  <2> HIDE DEF t
  <2>3. /\ call[t] \notin {"idle", "stamped"}
        /\ sharedTasks[t] # "absent" => db[t] \notin Terminal
    BY <2>2 DEF KeepsInv, UnbornAreUnknown, FinishedRowsAgree, Terminal
  <2>4. \A u \in Tasks :
            sharedTasks'[u] = IF u = t /\ sharedTasks[t] # "absent"
                              THEN outcome ELSE sharedTasks[u]
    BY <1>0, <2>1, <2>2 DEF TypeOK
  <2>5. \A u \in Tasks :
            \/ db'[u] = db[u]
            \/ u = t /\ sharedTasks[t] # "absent" /\ db'[u] = outcome
    <3>1. CASE sharedTasks[t] = "absent"
      BY <2>1, <3>1
    <3>2. CASE sharedTasks[t] # "absent"
      BY <1>0, <2>1, <2>2, <3>2, SaveWrites
    <3>3. QED
      BY <3>1, <3>2
  <2>6. \A v \in Workers :
            /\ wpc'[v] = IF v = w THEN "next" ELSE wpc[v]
            /\ v # w => wtask'[v] = wtask[v]
    BY <1>0, <2>1 DEF TypeOK
  <2>7. \A v \in Workers : wpc[v] = "exec" /\ v # w => wtask[v] # t
    <3>1. \A v \in Workers : wpc[v] = "exec" =>
              wpc[v] # "none" /\ SquadOf[wtask[v]] = SquadOfWorker(v)
      BY DEF KeepsInv, WorkersHoldTheirTask
    <3>2. QED
      BY <1>0, <2>1, <2>2, <3>1, WorkersApart
  <2>8. /\ \A u \in Tasks : sharedTasks'[u] \in {"queued", "running", "absent"} =>
               sharedTasks'[u] = sharedTasks[u]
        /\ \A u \in Tasks : sharedTasks[u] \in {"queued", "absent"} =>
               sharedTasks'[u] = sharedTasks[u]
    BY <2>2, <2>4 DEF Terminal
  <2>9. QueuesAreSound'
    <3>1. \A r \in Squads : \A i \in DOMAIN taskQueues[r] : taskQueues[r][i] \in Tasks
      BY <1>0, ElementOfSeq, LenProperties DEF TypeOK
    <3>2. QED
      BY <1>0, <2>1, <2>8, <3>1 DEF QueuesAreSound
  <2>10. WorkersHoldTheirTask'
    BY <2>1, <2>4, <2>6, <2>7 DEF KeepsInv, WorkersHoldTheirTask
  <2>11. TasksAreHeld'
    <3>1. ASSUME NEW u \in Tasks, sharedTasks'[u] = "running"
          PROVE  IsExecuting(u)'
      <4>1. u # t /\ sharedTasks[u] = "running"
        BY <2>2, <2>4, <2>8, <3>1 DEF Terminal
      <4>2. PICK v \in Workers : wpc[v] = "exec" /\ wtask[v] = u
        BY <4>1 DEF KeepsInv, TasksAreHeld, IsExecuting, Executes
      <4>3. v # w
        BY <4>1, <4>2 DEF t
      <4>4. wpc'[v] = "exec" /\ wtask'[v] = u
        BY <2>6, <4>2, <4>3
      <4>5. QED
        BY <4>4 DEF IsExecuting, Executes
    <3>2. QED
      BY <2>1, <2>8, <3>1 DEF KeepsInv, TasksAreHeld
  <2>12. phase # "down"
    BY <2>1 DEF KeepsInv, DownIsEmpty
  <2>13. StartersWait' /\ SavingAreKnown' /\ DownIsEmpty' /\ QueuedHaveNotRun'
             /\ RunsOncePerStart'
    BY <2>1, <2>8, <2>12
    DEF KeepsInv, StartersWait, WillStartWorker, SavingAreKnown, DownIsEmpty,
        QueuedHaveNotRun, RunsOncePerStart
  <2>14. UnbornAreUnknown' /\ AcknowledgedIsDurable' /\ RefusedAreUnknown'
    BY <2>1, <2>3, <2>4, <2>5
    DEF KeepsInv, UnbornAreUnknown, AcknowledgedIsDurable, RefusedAreUnknown, Terminal
  <2>15. FinishedRowsAgree'
    BY <2>3, <2>4, <2>5 DEF KeepsInv, FinishedRowsAgree
  <2>16. QED
    BY <1>0, <2>9, <2>10, <2>11, <2>13, <2>14, <2>15 DEF KeepsInv
<1>8. CASE Crash
  <2>1. /\ \A u \in Tasks :
               /\ sharedTasks'[u] = "absent" /\ runs'[u] = 0 /\ starter'[u] = FALSE
               /\ call'[u] \in {"idle", "ok", "err"} => call'[u] = call[u]
               /\ call'[u] \notin {"stamped", "saving"}
        /\ \A r \in Squads : taskQueues'[r] = <<>>
        /\ \A v \in Workers : wpc'[v] = "none"
        /\ db' = db
    BY <1>0, <1>8 DEF Crash, TypeOK, CallStates
  <2>2. QueuesAreSound'
    BY <2>1 DEF QueuesAreSound
  <2>3. QED
    BY <1>0, <2>1, <2>2
    DEF KeepsInv, UnbornAreUnknown, SavingAreKnown, WorkersHoldTheirTask,
        TasksAreHeld, DownIsEmpty, AcknowledgedIsDurable, QueuedHaveNotRun,
        RunsOncePerStart, RefusedAreUnknown, FinishedRowsAgree, StartersWait,
        WillStartWorker
<1>9. CASE LoadTasks
  <2>1. /\ phase = "down"
        /\ sharedTasks' = [t \in Tasks |-> Restored(db[t])]
        /\ SaveAllIgnoringErrors({t \in Tasks : db[t] = "running"}, "queued")
        /\ toRestore' = {SquadOf[t] : t \in {u \in Tasks : sharedTasks'[u] = "queued"}}
        /\ phase' # "down"
        /\ UNCHANGED <<call, starter, taskQueues, queueRunning, wpc, wtask, runs>>
    <3>1. {u \in Tasks : [t \in Tasks |-> Restored(db[t])][u] = "queued"}
             = {u \in Tasks : Restored(db[u]) = "queued"}
      OBVIOUS
    <3>2. QED
      BY <1>9, <3>1 DEF LoadTasks, callVars, workerVars
  <2>2. /\ \A u \in Tasks : sharedTasks[u] = "absent" /\ runs[u] = 0
        /\ \A v \in Workers : wpc[v] = "none"
        /\ \A u \in Tasks : call[u] \notin {"stamped", "saving"}
    BY <2>1 DEF KeepsInv, DownIsEmpty, WorkerInv
  <2>3. \A r \in Squads : taskQueues[r] = <<>>
    BY <1>0, <2>1 DEF WorkerInv, QueuesAreSound
  <2>4. \A u \in Tasks : db'[u] = db[u] \/ (db[u] = "running" /\ db'[u] = "queued")
    BY <2>1, SaveAllWrites
  <2>5. \A u \in Tasks :
            sharedTasks'[u] = IF db[u] = "running" THEN "queued" ELSE db[u]
    BY <2>1 DEF Restored
  <2>6. QueuesAreSound'
    BY <2>1, <2>3 DEF QueuesAreSound
  <2>7. TasksAreHeld'
    BY <2>1, <2>5 DEF TasksAreHeld
  <2>8. /\ UnbornAreUnknown' /\ SavingAreKnown' /\ WorkersHoldTheirTask'
        /\ DownIsEmpty' /\ AcknowledgedIsDurable' /\ QueuedHaveNotRun'
        /\ RunsOncePerStart' /\ StartersWait'
    BY <2>1, <2>2, <2>4, <2>5
    DEF KeepsInv, UnbornAreUnknown, SavingAreKnown, WorkersHoldTheirTask,
        DownIsEmpty, AcknowledgedIsDurable, QueuedHaveNotRun, RunsOncePerStart,
        StartersWait, WillStartWorker
  <2>9. RefusedAreUnknown' /\ FinishedRowsAgree'
    BY <2>1, <2>4, <2>5 DEF RefusedAreUnknown, FinishedRowsAgree, Terminal
  <2>10. QED
    BY <1>0, <2>6, <2>7, <2>8, <2>9 DEF KeepsInv
<1>10. CASE LoadTasksFails
  <2>1. /\ phase = "down" /\ phase' = "up"
        /\ UNCHANGED <<call, starter, managerVars, workerVars, db, toRestore>>
    BY <1>10 DEF LoadTasksFails, callVars
  <2>2. QED
    BY <1>0, <2>1
    DEF KeepsInv, managerVars, workerVars, QueuesAreSound,
        UnbornAreUnknown, SavingAreKnown, WorkersHoldTheirTask, TasksAreHeld,
        IsExecuting, Executes, DownIsEmpty, AcknowledgedIsDurable, QueuedHaveNotRun,
        RunsOncePerStart, RefusedAreUnknown, FinishedRowsAgree, StartersWait,
        WillStartWorker
<1>11. ASSUME NEW s \in Squads, RestoreSquad(s)
       PROVE  KeepsInv'
  <2>1. /\ phase = "restoring" /\ s \in toRestore
        /\ SaveAllIgnoringErrors(Requeued(s), "queued")
        /\ queueRunning' = queueRunning \cup {s}
        /\ wpc' = [wpc EXCEPT ![s] = "next"]
        /\ toRestore' = toRestore \ {s}
        /\ phase' # "down"
        /\ UNCHANGED <<call, starter, sharedTasks, wtask, runs>>
    BY <1>11 DEF RestoreSquad, callVars
  <2>2. PICK q \in [1..Cardinality(Requeued(s)) -> Requeued(s)] :
            /\ SortedByCreation(q, Requeued(s))
            /\ taskQueues' = [taskQueues EXCEPT ![s] = q]
    BY <1>11 DEF RestoreSquad
  <2>3. Once(q) /\ Range(q) = Requeued(s)
    <3>1. \A i, j \in DOMAIN q : i < j => createdAt[q[i]] < createdAt[q[j]]
      BY <2>2 DEF SortedByCreation
    <3>2. Range(q) = Requeued(s)
      BY <2>2 DEF SortedByCreation
    <3>3. \A i \in DOMAIN q : i \in Int /\ q[i] \in Tasks
      BY <2>2 DEF Requeued
    <3>4. \A i \in DOMAIN q : createdAt[q[i]] \in Nat
      BY <1>0, <3>3 DEF TypeOK
    <3>5. ASSUME NEW i \in DOMAIN q, NEW j \in DOMAIN q, q[i] = q[j]
          PROVE  i = j
      <4>1. ~(i < j) /\ ~(j < i)
        BY <3>1, <3>4, <3>5
      <4>2. QED
        BY <3>3, <4>1
    <3>6. QED
      BY <3>2, <3>5 DEF Once
  <2>4. \A r \in Squads : taskQueues'[r] = IF r = s THEN q ELSE taskQueues[r]
    BY <1>0, <2>2 DEF TypeOK
  <2>5. wpc[s] = "none"
    <3>1. s \notin queueRunning
      BY <1>0, <2>1 DEF WorkerInv
    <3>2. s \in Workers /\ SquadOfWorker(s) = s
      BY DEF Workers, SquadOfWorker
    <3>3. QED
      BY <1>0, <3>1, <3>2, WorkersApart
  <2>6. \A v \in Workers : (wpc'[v] = "exec") = (wpc[v] = "exec")
    BY <1>0, <2>1, <2>5 DEF TypeOK
  <2>7. \A u \in Tasks :
            db'[u] = db[u] \/ (sharedTasks[u] = "queued" /\ db'[u] = "queued")
    <3>1. \A u \in Tasks : db'[u] = db[u] \/ (u \in Requeued(s) /\ db'[u] = "queued")
      BY <2>1, SaveAllWrites
    <3>2. QED
      BY <3>1 DEF Requeued
  <2>8. QueuesAreSound'
    <3>1. ASSUME NEW r \in Squads
          PROVE  /\ Once(taskQueues'[r])
                 /\ \A u \in Range(taskQueues'[r]) :
                        SquadOf[u] = r /\ sharedTasks'[u] = "queued"
                 /\ taskQueues'[r] # <<>> => r \in queueRunning'
      <4>1. CASE r = s
        BY <2>1, <2>3, <2>4, <4>1 DEF Requeued
      <4>2. CASE r # s
        BY <1>0, <2>1, <2>4, <4>2, OnQueue
      <4>3. QED
        BY <4>1, <4>2
    <3>2. QED
      BY <3>1 DEF QueuesAreSound, Once, Range
  <2>9. TasksAreHeld'
    <3>1. \A u \in Tasks : IsExecuting(u)' = IsExecuting(u)
      BY <2>1, <2>6 DEF IsExecuting, Executes
    <3>2. ASSUME NEW u \in Tasks, sharedTasks'[u] = "queued"
          PROVE  u \in Range(taskQueues'[SquadOf[u]]) \/ SquadOf[u] \in toRestore'
      <4>1. CASE SquadOf[u] = s
        BY <2>1, <2>3, <2>4, <3>2, <4>1 DEF Requeued
      <4>2. CASE SquadOf[u] # s
        <5>1. u \in Range(taskQueues[SquadOf[u]]) \/ SquadOf[u] \in toRestore
          BY <2>1, <3>2 DEF KeepsInv, TasksAreHeld
        <5>2. SquadOf[u] \in Squads
          OBVIOUS
        <5>3. QED
          BY <2>1, <2>4, <4>2, <5>1, <5>2
      <4>3. QED
        BY <4>1, <4>2
    <3>3. QED
      BY <2>1, <3>1, <3>2 DEF KeepsInv, TasksAreHeld
  <2>10. /\ SavingAreKnown' /\ WorkersHoldTheirTask' /\ DownIsEmpty'
         /\ QueuedHaveNotRun' /\ RunsOncePerStart' /\ StartersWait'
    BY <2>1, <2>6
    DEF KeepsInv, SavingAreKnown, WorkersHoldTheirTask, DownIsEmpty,
        QueuedHaveNotRun, RunsOncePerStart, StartersWait, WillStartWorker
  <2>11. /\ UnbornAreUnknown' /\ AcknowledgedIsDurable'
         /\ RefusedAreUnknown' /\ FinishedRowsAgree'
    BY <2>1, <2>7
    DEF KeepsInv, UnbornAreUnknown, AcknowledgedIsDurable, RefusedAreUnknown,
        FinishedRowsAgree, Terminal
  <2>12. QED
    BY <1>0, <2>8, <2>9, <2>10, <2>11 DEF KeepsInv
<1>12. CASE UNCHANGED vars
  BY <1>0, <1>12
  DEF KeepsInv, vars, callVars, managerVars, workerVars, processVars, QueuesAreSound,
      UnbornAreUnknown, SavingAreKnown, WorkersHoldTheirTask, TasksAreHeld,
      IsExecuting, Executes, DownIsEmpty, AcknowledgedIsDurable, QueuedHaveNotRun,
      RunsOncePerStart, RefusedAreUnknown, FinishedRowsAgree, StartersWait,
      WillStartWorker
<1>13. QED
  BY <1>1, <1>2, <1>3, <1>4, <1>5, <1>6, <1>7, <1>8, <1>9, <1>10, <1>11, <1>12
  DEF Next, Enqueue, Work, Restart
-----------------------------------------------------------------------------
(* Theorems *)

\* What the manager has accepted it keeps: on the queue of its squad once, or
\* in the hands of the worker that executes it, and in the table.
THEOREM QueueKeepsTasks == Spec => []TasksAreKept
<1>1. KeepsInv => TasksAreKept
  <2> SUFFICES ASSUME KeepsInv
               PROVE  TasksAreKept
    OBVIOUS
  <2>1. NoTaskForgotten
    <3> SUFFICES ASSUME phase = "up", NEW t \in Tasks
                 PROVE  /\ sharedTasks[t] = "queued" => t \in Range(taskQueues[SquadOf[t]])
                        /\ sharedTasks[t] = "running" => IsExecuting(t)
      BY DEF NoTaskForgotten
    <3>1. toRestore = {}
      BY DEF KeepsInv, WorkerInv
    <3>2. QED
      BY <3>1 DEF KeepsInv, TasksAreHeld
  <2>2. QED
    BY <2>1 DEF KeepsInv, TasksAreKept
<1>2. QED
  BY KeepsInit, KeepsNext, <1>1, PTL DEF Spec

\* A task is executed at most once per start of the process, and one whose call
\* was refused before it was written down is on no queue and known to nobody.
THEOREM QueueRunsAsAnswered == Spec => []RunsAsAnswered
<1>1. KeepsInv => RunsAsAnswered
  <2> SUFFICES ASSUME KeepsInv
               PROVE  RunsAsAnswered
    OBVIOUS
  <2>1. ASSUME NEW t \in Tasks, call[t] = "err", db[t] = "absent"
        PROVE  sharedTasks[t] = "absent" /\ \A s \in Squads : t \notin Range(taskQueues[s])
    <3>1. sharedTasks[t] = "absent"
      BY <2>1 DEF KeepsInv, RefusedAreUnknown
    <3>2. QED
      BY <3>1, OnQueue DEF KeepsInv, WorkerInv
  <2>2. RejectedLeavesNoTrace
    BY <2>1 DEF RejectedLeavesNoTrace
  <2>3. QED
    BY <2>2 DEF KeepsInv, RunsAsAnswered
<1>2. QED
  BY KeepsInit, KeepsNext, <1>1, PTL DEF Spec

\* A finished row changes no more and its task is not executed again.
LEMMA FinishedStays ==
    ASSUME KeepsInv, [Next]_vars, NEW t \in Tasks, db[t] \in Terminal
    PROVE  db'[t] = db[t] /\ runs'[t] <= runs[t]
<1> USE SquadOfAssumption, WorkerIdsAssumption
<1>1. /\ TypeOK /\ QueuesAreSound
      /\ runs[t] \in Nat
      /\ sharedTasks[t] \in {db[t], "absent"}
      /\ sharedTasks[t] \notin {"queued", "running"}
      /\ call[t] \notin {"idle", "stamped"}
      /\ call[t] = "saving" => sharedTasks[t] = db[t]
  BY DEF KeepsInv, WorkerInv, TypeOK, FinishedRowsAgree, UnbornAreUnknown,
         SavingAreKnown, Terminal
<1>2. ASSUME NEW u \in Tasks, Enqueue(u)
      PROVE  db'[t] = db[t] /\ runs' = runs
  <2>1. CASE PersistTask(u)
    BY <1>1, <2>1 DEF PersistTask, Upserted, TypeOK
  <2>2. CASE StampTask(u) \/ AdmitTask(u) \/ RejectTask(u)
    BY <2>2 DEF StampTask, AdmitTask, RejectTask, workerVars
  <2>3. QED
    BY <1>2, <2>1, <2>2 DEF Enqueue, PersistTask
<1>3. ASSUME NEW w \in Workers, NextQueuedTask(w)
      PROVE  db'[t] = db[t] /\ runs'[t] = runs[t]
  <2> DEFINE s == SquadOfWorker(w)
             h == Head(taskQueues[s])
  <2>1. s \in Squads /\ taskQueues[s] # <<>>
    BY <1>3 DEF NextQueuedTask, SquadOfWorker, Workers
  <2>2. h \in Tasks /\ sharedTasks[h] = "queued"
    <3>1. taskQueues[s] \in Seq(Tasks) /\ Once(taskQueues[s])
      BY <1>1, <2>1, OnQueue
    <3>2. h \in Range(taskQueues[s])
      BY <2>1, <3>1, TailKeeps
    <3>3. QED
      BY <1>1, <2>1, <3>2, OnQueue
  <2>3. SaveIgnoringError(h, "running") /\ runs' = [runs EXCEPT ![h] = runs[h] + 1]
    BY <1>3, <2>2 DEF NextQueuedTask
  <2> HIDE DEF h
  <2>4. h # t
    BY <1>1, <2>2
  <2>5. QED
    BY <1>1, <2>2, <2>3, <2>4, SaveWrites DEF TypeOK
<1>4. ASSUME NEW w \in Workers, RetireWorker(w)
      PROVE  db' = db /\ runs' = runs
  BY <1>4 DEF RetireWorker
<1>5. ASSUME NEW w \in Workers, NEW outcome \in Terminal, FinishTask(w, outcome)
      PROVE  db'[t] = db[t] /\ runs' = runs
  <2>1. wtask[w] \in Tasks /\ sharedTasks[wtask[w]] \in {"running", "absent"}
    BY <1>5 DEF FinishTask, KeepsInv, WorkersHoldTheirTask
  <2>2. CASE sharedTasks[wtask[w]] = "absent"
    BY <1>5, <2>2 DEF FinishTask
  <2>3. CASE sharedTasks[wtask[w]] # "absent"
    <3>1. SaveIgnoringError(wtask[w], outcome) /\ runs' = runs
      BY <1>5, <2>3 DEF FinishTask
    <3>2. wtask[w] # t
      BY <1>1, <2>1, <2>3
    <3>3. QED
      BY <1>1, <2>1, <3>1, <3>2, SaveWrites
  <2>4. QED
    BY <2>2, <2>3
<1>6. CASE Crash
  BY <1>1, <1>6 DEF Crash, TypeOK
<1>7. CASE LoadTasks
  <2>1. SaveAllIgnoringErrors({u \in Tasks : db[u] = "running"}, "queued") /\ runs' = runs
    BY <1>7 DEF LoadTasks, workerVars
  <2>2. t \notin {u \in Tasks : db[u] = "running"}
    BY DEF Terminal
  <2>3. QED
    BY <1>1, <2>1, <2>2, SaveAllWrites
<1>8. CASE LoadTasksFails
  BY <1>1, <1>8 DEF LoadTasksFails, workerVars
<1>9. ASSUME NEW s \in Squads, RestoreSquad(s)
      PROVE  db'[t] = db[t] /\ runs' = runs
  <2>1. SaveAllIgnoringErrors(Requeued(s), "queued") /\ runs' = runs
    BY <1>9 DEF RestoreSquad
  <2>2. t \notin Requeued(s)
    BY <1>1 DEF Requeued
  <2>3. QED
    BY <2>1, <2>2, SaveAllWrites
<1>10. CASE UNCHANGED vars
  BY <1>1, <1>10 DEF vars, workerVars
<1>11. QED
  BY <1>1, <1>2, <1>3, <1>4, <1>5, <1>6, <1>7, <1>8, <1>9, <1>10
  DEF Next, Work, Restart

\* The number a call reports counts the queue, and one for the mark; the tasks
\* in front are those on the queue and at most one that is executed.
LEMMA AckCounts ==
    ASSUME KeepsInv, [Next]_vars, NEW t \in Tasks,
           call'[t] = "saving", call[t] # "saving"
    PROVE  ack'[t] - TasksAhead(SquadOf[t]) \in {0, 1}
<1> USE SquadOfAssumption
<1> DEFINE s == SquadOf[t]
           busy == {w \in Workers : SquadOfWorker(w) = s /\ wpc[w] = "exec"}
<1>1. TypeOK /\ WorkerInv /\ s \in Squads
  BY DEF KeepsInv, WorkerInv
<1>2. AdmitTask(t)
  <2>1. ASSUME NEW u \in Tasks, Enqueue(u)
        PROVE  AdmitTask(t)
    <3>1. u = t /\ ~PersistTask(u) /\ ~RejectTask(u) /\ ~StampTask(u)
      BY <1>1, <2>1 DEF Enqueue, StampTask, AdmitTask, PersistTask, RejectTask, TypeOK
    <3>2. QED
      BY <2>1, <3>1 DEF Enqueue
  <2>2. ASSUME NEW w \in Workers, Work(w)
        PROVE  call' = call
    BY <2>2 DEF Work, NextQueuedTask, RetireWorker, FinishTask, callVars
  <2>3. ~Crash
    BY <1>1 DEF Crash, TypeOK
  <2>4. Restart => call' = call
    BY DEF Restart, LoadTasks, LoadTasksFails, RestoreSquad, callVars
  <2>5. UNCHANGED vars => call' = call
    BY DEF vars, callVars
  <2>6. QED
    BY <2>1, <2>2, <2>3, <2>4, <2>5 DEF Next
<1>3. ack'[t] = QueuedAhead(s)
  BY <1>1, <1>2 DEF AdmitTask, TypeOK
<1>4. Len(taskQueues[s]) \in Nat
  BY <1>1, LenProperties DEF TypeOK
<1>5. \A v, w \in busy : v = w
  BY <1>1, WorkersApart
<1>6. Cardinality(busy) = IF busy = {} THEN 0 ELSE 1
  <2>1. CASE busy = {}
    BY <2>1, FS_EmptySet
  <2>2. CASE busy # {}
    <3>1. PICK w : w \in busy
      BY <2>2
    <3>2. busy = {w}
      BY <1>5, <3>1
    <3>3. QED
      BY <2>2, <3>2, FS_Singleton
  <2>3. QED
    BY <2>1, <2>2
<1>7. busy # {} => s \in queueRunning
  BY <1>1, WorkersApart
<1>8. TasksAhead(s) = Len(taskQueues[s]) + Cardinality(busy)
  BY DEF TasksAhead
<1> HIDE DEF busy, s
<1>9. QueuedAhead(s) = Len(taskQueues[s]) + (IF s \in queueRunning THEN 1 ELSE 0)
  BY DEF QueuedAhead
<1>10. QED
  <2>1. ack'[t] - TasksAhead(s) \in {0, 1}
    BY <1>3, <1>4, <1>6, <1>7, <1>8, <1>9
  <2>2. QED
    BY <2>1 DEF s
\* Only the refusal of a call that is to start the worker, with another task
\* behind its own, leaves a marked squad without anybody to serve it.
LEMMA StrandsOnlyByRefusal ==
    ASSUME KeepsInv, [Next]_vars, NEW s \in Squads, ~Stranded(s), Stranded(s)'
    PROVE  \E t \in Tasks : /\ WillStartWorker(t) /\ call'[t] = "err"
                            /\ SquadOf[t] = s
                            /\ Len(taskQueues[s]) > 1
<1> USE SquadOfAssumption, WorkerIdsAssumption
<1>1. /\ TypeOK /\ WorkerInv /\ QueuesAreSound
      /\ s \in queueRunning' /\ Servants(s)' = {}
      /\ s \in queueRunning => Servants(s) # {}
  BY DEF KeepsInv, WorkerInv, Stranded
\* A step after which a mark was there before and all servants remain is none.
<1>2. ASSUME s \in queueRunning, Servants(s) \subseteq Servants(s)'
      PROVE  FALSE
  BY <1>1, <1>2
<1>3. ASSUME NEW t \in Tasks, StampTask(t)
      PROVE  FALSE
  <2>1. Servants(s) \subseteq Servants(s)' /\ queueRunning' = queueRunning
    BY <1>1, <1>3 DEF StampTask, Servants, WillStartWorker, workerVars, managerVars, TypeOK
  <2>2. QED
    BY <1>1, <1>2, <2>1
<1>4. ASSUME NEW t \in Tasks, AdmitTask(t)
      PROVE  FALSE
  <2>1. /\ call[t] = "stamped"
        /\ call' = [call EXCEPT ![t] = "saving"]
        /\ starter' = [starter EXCEPT ![t] = SquadOf[t] \notin queueRunning]
        /\ queueRunning' = queueRunning \cup {SquadOf[t]}
        /\ wpc' = wpc
    BY <1>4 DEF AdmitTask, MustStartWorker, workerVars
  <2>2. Servants(s) \subseteq Servants(s)'
    BY <1>1, <2>1 DEF Servants, WillStartWorker, TypeOK
  <2>3. s \notin queueRunning
    BY <1>2, <2>2
  <2>4. SquadOf[t] = s
    BY <1>1, <2>1, <2>3
  <2>5. t \in Servants(s)'
    BY <1>1, <2>1, <2>3, <2>4 DEF Servants, WillStartWorker, SquadOfWorker, Workers, TypeOK
  <2>6. QED
    BY <1>1, <2>5
<1>5. ASSUME NEW t \in Tasks, PersistTask(t)
      PROVE  FALSE
  <2>1. /\ call[t] = "saving"
        /\ call' = [call EXCEPT ![t] = "ok"]
        /\ wpc' = IF starter[t] THEN [wpc EXCEPT ![t] = "next"] ELSE wpc
        /\ UNCHANGED <<starter, queueRunning>>
    BY <1>5 DEF PersistTask, managerVars
  <2>2. \A w \in Workers : wpc[w] # "none" => wpc'[w] # "none"
    BY <1>1, <2>1 DEF TypeOK
  <2>3. \A u \in Tasks : WillStartWorker(u) => WillStartWorker(u)' \/ wpc'[u] # "none"
    <3>1. \A u \in Tasks : u # t => call'[u] = call[u]
      BY <1>1, <2>1 DEF TypeOK
    <3>2. starter[t] => wpc'[t] = "next"
      BY <1>1, <2>1 DEF TypeOK, Workers
    <3>3. QED
      BY <2>1, <3>1, <3>2 DEF WillStartWorker
  <2>4. Servants(s) \subseteq Servants(s)'
    BY <2>2, <2>3 DEF Servants
  <2>5. QED
    BY <1>1, <1>2, <2>1, <2>4
<1>6. ASSUME NEW t \in Tasks, RejectTask(t)
      PROVE  \E u \in Tasks : /\ WillStartWorker(u) /\ call'[u] = "err"
                              /\ SquadOf[u] = s
                              /\ Len(taskQueues[s]) > 1
  <2> DEFINE filtered == Without(taskQueues[SquadOf[t]], t)
  <2>1. /\ call[t] = "saving"
        /\ call' = [call EXCEPT ![t] = "err"]
        /\ queueRunning' = IF filtered = <<>> /\ starter[t]
                           THEN queueRunning \ {SquadOf[t]} ELSE queueRunning
        /\ UNCHANGED <<starter, wpc>>
    BY <1>6 DEF RejectTask, ReleasesMark, workerVars
  <2>2. wpc[t] = "none" /\ phase = "up" /\ toRestore = {} /\ call'[t] = "err"
    BY <1>1, <2>1 DEF WorkerInv, TypeOK
  <2> HIDE DEF filtered
  <2>3. s \in queueRunning
    BY <1>1, <2>1
  <2>4. \A u \in Tasks : u # t => (WillStartWorker(u) => WillStartWorker(u)')
    BY <1>1, <2>1 DEF WillStartWorker, TypeOK
  <2>5. Servants(s) \ {t} \subseteq Servants(s)'
    BY <2>1, <2>4 DEF Servants
  <2>6. t \in Servants(s)
    BY <1>2, <2>3, <2>5
  <2>7. WillStartWorker(t) /\ SquadOf[t] = s
    BY <2>2, <2>6 DEF Servants, SquadOfWorker
  <2>8. t \in Range(taskQueues[s])
    BY <2>2, <2>7 DEF KeepsInv, StartersWait, TasksAreHeld
  <2>9. /\ filtered \in Seq(Tasks)
        /\ Len(filtered) = Len(taskQueues[s]) - 1
        /\ Len(taskQueues[s]) \in Nat
    <3>1. taskQueues[s] \in Seq(Tasks) /\ Once(taskQueues[s])
      BY <1>1, OnQueue
    <3>2. QED
      BY <2>7, <2>8, <3>1, WithoutKeeps, LenProperties DEF filtered
  <2>10. filtered # <<>>
    BY <1>1, <2>1, <2>7 DEF WillStartWorker
  <2>11. Len(filtered) \in Nat \ {0}
    BY <2>9, <2>10, EmptySeq
  <2>12. Len(taskQueues[s]) > 1
    <3>1. \A a \in Nat : a - 1 \in Nat \ {0} => a > 1
      OBVIOUS
    <3>2. Len(taskQueues[s]) \in Nat /\ Len(taskQueues[s]) - 1 \in Nat \ {0}
      BY <2>9, <2>11
    <3>3. QED
      BY <3>1, <3>2
  <2>13. QED
    BY <2>2, <2>7, <2>12
<1>7. ASSUME NEW w \in Workers, NextQueuedTask(w)
      PROVE  FALSE
  <2> DEFINE r == SquadOfWorker(w)
  <2>1. r \in Squads /\ taskQueues[r] # <<>>
    BY <1>7 DEF NextQueuedTask, SquadOfWorker, Workers
  <2>2. sharedTasks[Head(taskQueues[r])] = "queued"
    <3>1. taskQueues[r] \in Seq(Tasks) /\ Once(taskQueues[r])
      BY <1>1, <2>1, OnQueue
    <3>2. Head(taskQueues[r]) \in Range(taskQueues[r])
      BY <2>1, <3>1, TailKeeps
    <3>3. QED
      BY <1>1, <2>1, <3>2, OnQueue
  <2>3. /\ wpc[w] = "next" /\ wpc' = [wpc EXCEPT ![w] = "exec"]
        /\ UNCHANGED <<call, starter, queueRunning>>
    BY <1>7, <2>2 DEF NextQueuedTask, callVars
  <2>4. Servants(s) \subseteq Servants(s)'
    BY <1>1, <2>3 DEF Servants, WillStartWorker, TypeOK
  <2>5. QED
    BY <1>1, <1>2, <2>3, <2>4
<1>8. ASSUME NEW w \in Workers, RetireWorker(w)
      PROVE  FALSE
  <2>1. /\ wpc' = [wpc EXCEPT ![w] = "none"]
        /\ queueRunning' = queueRunning \ {SquadOfWorker(w)}
        /\ UNCHANGED <<call, starter>>
    BY <1>8 DEF RetireWorker, callVars
  <2>2. w \notin Servants(s)
    BY <1>1, <2>1 DEF Servants
  <2>3. Servants(s) \subseteq Servants(s)'
    BY <1>1, <2>1, <2>2 DEF Servants, WillStartWorker, TypeOK
  <2>4. QED
    BY <1>1, <1>2, <2>1, <2>3
<1>9. ASSUME NEW w \in Workers, NEW outcome \in Terminal, FinishTask(w, outcome)
      PROVE  FALSE
  <2>1. /\ wpc' = [wpc EXCEPT ![w] = "next"]
        /\ UNCHANGED <<call, starter, queueRunning>>
    BY <1>9 DEF FinishTask, callVars
  <2>2. Servants(s) \subseteq Servants(s)'
    BY <1>1, <2>1 DEF Servants, WillStartWorker, TypeOK
  <2>3. QED
    BY <1>1, <1>2, <2>1, <2>2
<1>10. CASE Crash
  BY <1>1, <1>10 DEF Crash
<1>11. CASE LoadTasks \/ LoadTasksFails
  <2>1. queueRunning' = queueRunning /\ queueRunning = {}
    BY <1>1, <1>11 DEF LoadTasks, LoadTasksFails, managerVars, WorkerInv
  <2>2. QED
    BY <1>1, <2>1
<1>12. ASSUME NEW r \in Squads, RestoreSquad(r)
       PROVE  FALSE
  <2>1. /\ wpc' = [wpc EXCEPT ![r] = "next"]
        /\ queueRunning' = queueRunning \cup {r}
        /\ UNCHANGED <<call, starter>>
    BY <1>12 DEF RestoreSquad, callVars
  <2>2. r \in Servants(r)'
    BY <1>1, <2>1 DEF Servants, SquadOfWorker, Workers, TypeOK
  <2>3. s \in queueRunning
    BY <1>1, <2>1, <2>2
  <2>4. Servants(s) \subseteq Servants(s)'
    BY <1>1, <2>1 DEF Servants, WillStartWorker, TypeOK
  <2>5. QED
    BY <1>2, <2>3, <2>4
<1>13. CASE UNCHANGED vars
  <2>1. Servants(s) \subseteq Servants(s)' /\ queueRunning' = queueRunning
    BY <1>13 DEF Servants, WillStartWorker, vars, callVars, workerVars, managerVars
  <2>2. QED
    BY <1>1, <1>2, <2>1
<1>14. QED
  BY <1>3, <1>4, <1>5, <1>6, <1>7, <1>8, <1>9, <1>10, <1>11, <1>12, <1>13
  DEF Next, Enqueue, Work, Restart

\* What is finished stays finished, the number told to a caller is right or one
\* too high, and only the refusal of the call that is to start the worker, with
\* another task behind its own, strands a squad.
THEOREM QueueStepsAreSound == Spec => StepsAreSound
<1>1. KeepsInv /\ [Next]_vars =>
          [\A t \in Tasks : db[t] \in Terminal =>
               db'[t] = db[t] /\ runs'[t] <= runs[t]]_vars
  BY FinishedStays
<1>2. KeepsInv /\ [Next]_vars =>
          [\A t \in Tasks : call'[t] = "saving" /\ call[t] # "saving" =>
               ack'[t] - TasksAhead(SquadOf[t]) \in {0, 1}]_vars
  BY AckCounts
<1>3. KeepsInv /\ [Next]_vars =>
          [\A s \in Squads : ~Stranded(s) /\ Stranded(s)' =>
               \E t \in Tasks : /\ WillStartWorker(t) /\ call'[t] = "err"
                                /\ SquadOf[t] = s
                                /\ Len(taskQueues[s]) > 1]_vars
  BY StrandsOnlyByRefusal
<1>4. QED
  BY KeepsInit, KeepsNext, <1>1, <1>2, <1>3, PTL
  DEF Spec, StepsAreSound, FinishedIsFinal, AckIsAtMostOneTooHigh,
      StrandedOnlyByRejectedStarter
=============================================================================
