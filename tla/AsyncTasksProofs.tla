--------------------------- MODULE AsyncTasksProofs ---------------------------
(***************************************************************************)
(* Proofs about background tasks, for any agents, readers, cases and       *)
(* sizes.                                                                  *)
(***************************************************************************)
EXTENDS AsyncTasks, SequenceTheorems, FiniteSetTheorems, TLAPS

-----------------------------------------------------------------------------
(* The inductive invariant *)

\* The agents have ended, and the outcome is settled.
OverStates == {"finish", "emitEnd", "done"}

\* A task of an agent is submitted by one goroutine and run after that; a task
\* of a squad is in the table of shared tasks once it is submitted.
PhasesFit ==
    /\ kind = "agent" =>
           /\ spc \in {"submit", "emit", "return", "done"}
           /\ wpc \notin {"check", "upsert"} /\ shared = "absent"
           /\ wpc = "wait" \/ spc = "done"
    /\ kind = "squad" =>
           /\ spc = "submit" <=> shared = "absent"
           /\ shared = "absent" => wpc = "wait"
    /\ kind = "squad" \/ spc # "check"

\* The worker alone delivers a last event, and a channel that is to be closed
\* is not sent to any more.
LastEventIsWorkers ==
    \A e \in Emitters :
        /\ out[e].terminal => e = "worker" /\ wpc = "done"
        /\ out[e].closing # None => out[e].terminal /\ out[e].closing \notin out[e].to

\* Who has not subscribed has no channel, and nobody sends to it.
IdleReadersAreUnknown ==
    \A r \in Readers : rpc[r] = "idle" =>
        /\ capacity[r] = 0 /\ ~closed[r] /\ chan[r] = <<>>
        /\ r \notin registered
        /\ \A e \in Emitters : r \notin out[e].to /\ out[e].closing # r

ReplayHasBacklog == \A r \in Readers : rpc[r] = "replay" => backlog[r] # <<>>

\* The worker will close the channel of r.
WorkerCloses(r) ==
    out["worker"].terminal /\ (r \in out["worker"].to \/ out["worker"].closing = r)

\* A channel is open as long as it is registered or the worker is to close it,
\* and never both.
OpenIsOwned ==
    \A r \in Readers :
        /\ ~(r \in registered /\ WorkerCloses(r))
        /\ (r \in registered \/ WorkerCloses(r)) <=> (capacity[r] # 0 /\ ~closed[r])

ChannelInv ==
    /\ TypeOK /\ PhasesFit /\ LastEventIsWorkers /\ IdleReadersAreUnknown
    /\ ReplayHasBacklog /\ OpenIsOwned

\* The events that may be told: an outcome is told when the worker is through,
\* and it is the one of the agents.
Settled == {x \in EventType : x \in TerminalStatus => wpc = "done" /\ x = Outcome}

EventsHold ==
    /\ log \in Seq(Settled)
    /\ \A e \in Emitters : out[e].event \in Settled
    /\ \A r \in Readers : chan[r] \in Seq(Settled) /\ backlog[r] \in Seq(Settled)

\* A status that tells an outcome tells the one of the agents.
StatusHolds(x) == x \in TerminalStatus => wpc \in OverStates /\ x = Outcome

StatusesHold ==
    /\ StatusHolds(status) /\ StatusHolds(shared) /\ StatusHolds(snapshot)
    /\ wpc \in OverStates => AgentsDone /\ (kind = "squad" => shared = Outcome)
    /\ kind = "agent" =>
           /\ status \in TerminalStatus => wpc # "finish"
           /\ wpc \in {"emitEnd", "done"} => status = Outcome

\* A reader of an agent's task finds its channel closed, or asks for the
\* result, when the status is final.
ReadersAskInTime ==
    kind = "agent" =>
        \A r \in Readers :
            (rpc[r] = "ask" \/ (closed[r] /\ rpc[r] \in {"replay", "read"}))
                => wpc \in {"emitEnd", "done"}

OutcomeInv ==
    /\ EventsHold /\ StatusesHold /\ ReadersAskInTime
    /\ OutcomeIsLogged /\ WaiterFindsOutcome /\ NothingRunsAfterOutcome

-----------------------------------------------------------------------------
(* Lemmas about the operators *)

LEMMA EmittersApart ==
    /\ "submitter" \in Emitters /\ "worker" \in Emitters /\ Agents \subseteq Emitters
    /\ "submitter" # "worker" /\ "worker" \notin Agents /\ "subscribers" \notin Emitters
  BY CasesAssumption DEF Emitters

\* How many events a full log drops for a new one.
Dropped(events) == IF Len(events) = MaxTaskEvents THEN 1 ELSE 0

\* The log with one more event: it ends with that event, and holds before it
\* what it held, without the oldest if it was full.
LEMMA AppendedIs ==
    ASSUME NEW S, NEW events \in Seq(S), Len(events) <= MaxTaskEvents, NEW x \in S
    PROVE  /\ Appended(events, x) \in Seq(S)
           /\ Len(Appended(events, x)) <= MaxTaskEvents
           /\ Len(Appended(events, x)) >= 1 /\ Appended(events, x) # <<>>
           /\ Appended(events, x)[Len(Appended(events, x))] = x
           /\ \A i \in 1..(Len(Appended(events, x)) - 1) :
                  /\ i + Dropped(events) \in 1..Len(events)
                  /\ Appended(events, x)[i] = events[i + Dropped(events)]
<1> DEFINE all == Append(events, x)
           n == Appended(events, x)
<1>1. /\ all \in Seq(S) /\ Len(all) = Len(events) + 1
      /\ Len(events) \in Nat /\ MaxTaskEvents \in Nat \ {0}
      /\ \A i \in 1..Len(events) : all[i] = events[i]
      /\ all[Len(events) + 1] = x
  BY SizesAssumption
<1> HIDE DEF all
<1>2. CASE Len(all) > MaxTaskEvents
  <2>1. Len(events) = MaxTaskEvents /\ Dropped(events) = 1
    BY <1>1, <1>2 DEF Dropped
  <2>2. n = SubSeq(all, 2, Len(all))
    <3>1. Len(all) - MaxTaskEvents + 1 = 2
      BY <1>1, <2>1
    <3>2. QED
      BY <1>2, <3>1 DEF Appended, all
  <2> HIDE DEF n
  <2>3. /\ n \in Seq(S)
        /\ Len(n) = Len(events)
        /\ \A i \in 1..Len(events) : n[i] = all[i + 1]
    <3>1. \A i \in 2..Len(all) : all[i] \in S
      BY <1>1
    <3>2. /\ (IF 2 <= Len(all) THEN Len(all) - 2 + 1 ELSE 0) = Len(events)
          /\ Len(all) - 2 + 1 = Len(events)
      BY <1>1, <2>1
    <3>3. \A i \in 1..Len(events) : 2 + i - 1 = i + 1
      BY <1>1
    <3>4. 2 \in Int /\ Len(all) \in Int
      BY <1>1
    <3>5. QED
      BY <2>2, <3>1, <3>2, <3>3, <3>4, SubSeqProperties
  <2>4. Len(n) >= 1 /\ n # <<>> /\ Len(n) <= MaxTaskEvents /\ n[Len(n)] = x
    BY <1>1, <2>1, <2>3
  <2>5. \A i \in 1..(Len(n) - 1) :
            i + Dropped(events) \in 1..Len(events) /\ n[i] = events[i + Dropped(events)]
    BY <1>1, <2>1, <2>3
  <2>6. QED
    BY <2>3, <2>4, <2>5 DEF n
<1>3. CASE ~(Len(all) > MaxTaskEvents)
  <2>1. n = all
    BY <1>3 DEF Appended, all
  <2> HIDE DEF n
  <2>2. Len(n) >= 1 /\ n # <<>> /\ Len(n) <= MaxTaskEvents /\ n[Len(n)] = x
    BY <1>1, <1>3, <2>1
  <2>3. Dropped(events) = 0
    BY <1>1, <1>3 DEF Dropped
  <2>4. \A i \in 1..(Len(n) - 1) :
            i + Dropped(events) \in 1..Len(events) /\ n[i] = events[i + Dropped(events)]
    BY <1>1, <2>1, <2>3
  <2>5. QED
    BY <1>1, <2>1, <2>2, <2>4 DEF n
<1>4. QED
  BY <1>2, <1>3

\* A new channel has room for the whole log.
LEMMA CapacityFits ==
    ASSUME TypeOK
    PROVE  ChannelCapacity \in Nat \ {0} /\ Len(log) <= ChannelCapacity
<1>1. Len(log) \in Nat
  BY DEF TypeOK
<1>2. QED
  BY <1>1, SizesAssumption DEF ChannelCapacity

\* What the critical section of emitTaskEvent changes.
LEMMA EmitEffect ==
    ASSUME TypeOK, NEW e \in Emitters, NEW x \in EventType, NEW t \in BOOLEAN, Emit(e, x, t)
    PROVE  /\ log' = Appended(log, x) /\ log' \in Seq(EventType) /\ Len(log') <= MaxTaskEvents
           /\ status' = status
           /\ out' \in [Emitters -> Delivery]
           /\ registered' \subseteq Readers
           /\ registered' = IF t THEN {} ELSE registered
           /\ out[e].to = {} /\ out[e].closing = None
           /\ \A f \in Emitters :
                  out'[f] = IF f = e THEN [to |-> registered, event |-> x, terminal |-> t,
                                           closing |-> None]
                            ELSE out[f]
<1>1. log' = Appended(log, x) /\ log \in Seq(EventType) /\ Len(log) <= MaxTaskEvents
  BY DEF Emit, TypeOK
<1>2. log' \in Seq(EventType) /\ Len(log') <= MaxTaskEvents
  BY <1>1, AppendedIs
<1>3. QED
  BY <1>1, <1>2 DEF Emit, TypeOK, Delivered, Delivery, SubscribersAfter

\* What an agent does, it does before the outcome.
LEMMA AgentsActEarly ==
    ASSUME AgentsStarted, NEW a \in Agents, apc[a] \in {"idle", "forward"},
           wpc \in OverStates => AgentsDone
    PROVE  wpc = "agents"
  BY DEF AgentsStarted, OverStates, AgentsDone

LEMMA OutcomeIsFinal == Outcome \in TerminalStatus
  BY DEF Outcome, TerminalStatus

-----------------------------------------------------------------------------
(* Channels *)

LEMMA ChannelStart == Init => ChannelInv
<1> SUFFICES ASSUME Init PROVE ChannelInv
  OBVIOUS
<1>1. PICK c \in Cases :
          /\ kind = c.kind
          /\ apc = [a \in Agents |-> IF a \in c.agents THEN "idle" ELSE "absent"]
          /\ rpc = [r \in Readers |-> IF r \in c.readers THEN "idle" ELSE "done"]
  BY DEF Init
<1>2. kind \in {"agent", "squad"}
  BY <1>1, CasesAssumption
<1>3. Nothing \in Delivery
  BY DEF Nothing, Delivery, EventType
<1>4. TypeOK
  <2>1. 0 \in 0..MaxRuntime /\ MaxTaskEvents \in Nat \ {0}
    BY SizesAssumption
  <2>2. /\ apc \in [Agents -> {"absent", "idle", "forward", "ok", "failed"}]
        /\ rpc \in [Readers -> {"idle", "replay", "read", "ask", "leave", "done"}]
        /\ emitted \in [Agents -> 0..MaxRuntime]
        /\ out \in [Emitters -> Delivery]
    BY <1>1, <1>3, <2>1 DEF Init
  <2>3. <<>> \in Seq(EventType) /\ Len(<<>>) = 0
    OBVIOUS
  <2>4. /\ backlog \in [Readers -> Seq(EventType)]
        /\ chan \in [Readers -> Seq(EventType)]
        /\ capacity \in [Readers -> Nat]
        /\ closed \in [Readers -> BOOLEAN]
        /\ result \in [Readers -> TaskStatus \cup {"absent"}]
        /\ \A r \in Readers : Len(chan[r]) <= capacity[r]
    BY <2>3 DEF Init
  <2>5. log \in Seq(EventType) /\ Len(log) <= MaxTaskEvents
    BY <2>1, <2>3 DEF Init
  <2>6. QED
    BY <1>2, <2>2, <2>4, <2>5 DEF Init, TypeOK, TaskStatus
<1>5. QED
  BY <1>4, EmittersApart, ReadersAssumption
  DEF Init, ChannelInv, PhasesFit, LastEventIsWorkers, IdleReadersAreUnknown,
      ReplayHasBacklog, OpenIsOwned, WorkerCloses, Nothing

\* A step that touches no channel and lets nobody subscribe.
LEMMA QuietStep ==
    ASSUME ChannelInv, TypeOK', PhasesFit',
           UNCHANGED <<registered, out, backlog, capacity, chan, closed>>,
           wpc = "done" => wpc' = "done",
           \A r \in Readers : rpc'[r] = rpc[r] \/ rpc'[r] \notin {"idle", "replay"}
    PROVE  ChannelInv'
  BY DEF ChannelInv, LastEventIsWorkers, IdleReadersAreUnknown, ReplayHasBacklog,
         OpenIsOwned, WorkerCloses

\* The critical section of emitTaskEvent: the last event takes the channels
\* over from the table of subscribers.
LEMMA EmitKeepsChannels ==
    ASSUME ChannelInv, TypeOK', PhasesFit',
           NEW e \in Emitters, NEW x \in EventType, NEW t \in BOOLEAN, Emit(e, x, t),
           UNCHANGED <<readerVars, chanVars>>,
           wpc = "done" => wpc' = "done",
           t => e = "worker" /\ wpc' = "done",
           e = "worker" => wpc # "done"
    PROVE  ChannelInv'
<1>0. /\ TypeOK /\ LastEventIsWorkers /\ IdleReadersAreUnknown /\ ReplayHasBacklog /\ OpenIsOwned
      /\ UNCHANGED <<rpc, backlog, capacity, chan, closed>>
  BY DEF ChannelInv, readerVars, chanVars
<1>1. /\ registered' = IF t THEN {} ELSE registered
      /\ \A f \in Emitters :
            out'[f] = IF f = e THEN [to |-> registered, event |-> x, terminal |-> t,
                                     closing |-> None]
                      ELSE out[f]
  BY <1>0, EmitEffect
<1>2. \A f \in Emitters :
          /\ out'[f].to = IF f = e THEN registered ELSE out[f].to
          /\ out'[f].terminal = IF f = e THEN t ELSE out[f].terminal
          /\ out'[f].closing = IF f = e THEN None ELSE out[f].closing
  BY <1>1
<1>3. LastEventIsWorkers'
  BY <1>0, <1>2 DEF LastEventIsWorkers
<1>4. registered' \subseteq registered /\ None \notin Readers
  BY <1>1, ReadersAssumption
<1>5. IdleReadersAreUnknown' /\ ReplayHasBacklog'
  BY <1>0, <1>2, <1>4 DEF IdleReadersAreUnknown, ReplayHasBacklog
<1>6. OpenIsOwned'
  <2> SUFFICES ASSUME NEW r \in Readers
               PROVE  /\ ~(r \in registered' /\ WorkerCloses(r)')
                      /\ (r \in registered' \/ WorkerCloses(r)') <=> (capacity[r] # 0 /\ ~closed[r])
    BY <1>0 DEF OpenIsOwned
  <2>1. /\ ~(r \in registered /\ WorkerCloses(r))
        /\ (r \in registered \/ WorkerCloses(r)) <=> (capacity[r] # 0 /\ ~closed[r])
    BY <1>0 DEF OpenIsOwned
  <2>2. CASE e = "worker"
    <3>1. ~WorkerCloses(r)
      BY <1>0, <2>2, EmittersApart DEF LastEventIsWorkers, WorkerCloses
    <3>2. WorkerCloses(r)' <=> t /\ r \in registered
      BY <1>2, <1>4, <2>2, EmittersApart DEF WorkerCloses
    <3>3. QED
      BY <1>1, <2>1, <3>1, <3>2
  <2>3. CASE e # "worker"
    <3>1. WorkerCloses(r)' <=> WorkerCloses(r)
      BY <1>2, <2>3, EmittersApart DEF WorkerCloses
    <3>2. QED
      BY <1>1, <2>1, <2>3, <3>1
  <2>4. QED
    BY <2>2, <2>3
<1>7. QED
  BY <1>3, <1>5, <1>6 DEF ChannelInv

\* sendTaskEventToSubscribers: the channel that was sent the last event is the
\* next one to be closed.
LEMMA DeliverKeepsChannels ==
    ASSUME ChannelInv, NEW e \in Emitters, NEW r \in Readers, Deliver(e, r), UNCHANGED kind
    PROVE  ChannelInv'
<1> USE DEF taskVars, runVars, readerVars
<1>0. /\ TypeOK /\ PhasesFit /\ LastEventIsWorkers /\ IdleReadersAreUnknown
      /\ ReplayHasBacklog /\ OpenIsOwned
  BY DEF ChannelInv
<1>1. /\ out[e].closing = None /\ r \in out[e].to
      /\ out' = [out EXCEPT ![e].to = @ \ {r},
                            ![e].closing = IF out[e].terminal THEN r ELSE None]
      /\ panicked' = closed[r]
      /\ chan' = IF ~closed[r] /\ Len(chan[r]) < capacity[r]
                 THEN [chan EXCEPT ![r] = Append(@, out[e].event)]
                 ELSE chan
      /\ UNCHANGED <<kind, taskVars, runVars, registered, readerVars, closed>>
  BY DEF Deliver
<1>2. out \in [Emitters -> Delivery] /\ out[e] \in Delivery /\ out[e].event \in EventType
  BY <1>0 DEF TypeOK, Delivery
<1>3. /\ out' \in [Emitters -> Delivery]
      /\ \A f \in Emitters :
            /\ out'[f].to = IF f = e THEN out[e].to \ {r} ELSE out[f].to
            /\ out'[f].terminal = out[f].terminal
            /\ out'[f].closing = IF f = e /\ out[e].terminal THEN r ELSE out[f].closing
  <2> DEFINE d == [out[e] EXCEPT !.to = @ \ {r},
                                 !.closing = IF out[e].terminal THEN r ELSE None]
  <2>1. /\ d \in Delivery /\ d.to = out[e].to \ {r} /\ d.terminal = out[e].terminal
        /\ d.closing = IF out[e].terminal THEN r ELSE None
    BY <1>2 DEF Delivery
  <2>2. /\ \A f \in Emitters : out'[f] = IF f = e THEN d ELSE out[f]
        /\ out' = [f \in Emitters |-> out'[f]]
    BY <1>1, <1>2
  <2> HIDE DEF d
  <2>3. out' \in [Emitters -> Delivery]
    BY <1>2, <2>1, <2>2
  <2>4. QED
    BY <1>1, <2>1, <2>2, <2>3
<1>4. /\ chan' \in [Readers -> Seq(EventType)]
      /\ \A q \in Readers : Len(chan'[q]) <= capacity[q]
      /\ \A q \in Readers : q # r => chan'[q] = chan[q]
  <2>1. /\ chan \in [Readers -> Seq(EventType)] /\ capacity \in [Readers -> Nat]
        /\ \A q \in Readers : Len(chan[q]) <= capacity[q]
    BY <1>0 DEF TypeOK
  <2>2. CASE ~closed[r] /\ Len(chan[r]) < capacity[r]
    <3>1. /\ Append(chan[r], out[e].event) \in Seq(EventType)
          /\ Len(Append(chan[r], out[e].event)) <= capacity[r]
      BY <1>2, <2>1, <2>2
    <3>2. chan' = [chan EXCEPT ![r] = Append(chan[r], out[e].event)]
      BY <1>1, <2>2
    <3>3. QED
      BY <2>1, <3>1, <3>2
  <2>3. CASE ~(~closed[r] /\ Len(chan[r]) < capacity[r])
    BY <1>1, <2>1, <2>3
  <2>4. QED
    BY <2>2, <2>3
<1>5. TypeOK'
  BY <1>0, <1>1, <1>3, <1>4 DEF TypeOK
<1>6. PhasesFit' /\ ReplayHasBacklog'
  BY <1>0, <1>1 DEF PhasesFit, ReplayHasBacklog
<1>7. LastEventIsWorkers'
  BY <1>0, <1>1, <1>3 DEF LastEventIsWorkers
<1>8. IdleReadersAreUnknown'
  <2>1. rpc[r] # "idle"
    BY <1>0, <1>1 DEF IdleReadersAreUnknown
  <2>2. QED
    BY <1>0, <1>1, <1>3, <1>4, <2>1 DEF IdleReadersAreUnknown
<1>9. OpenIsOwned'
  <2>1. \A q \in Readers : WorkerCloses(q)' <=> WorkerCloses(q)
    BY <1>1, <1>3, EmittersApart, ReadersAssumption DEF WorkerCloses
  <2>2. QED
    BY <1>0, <1>1, <2>1 DEF OpenIsOwned
<1>10. QED
  BY <1>5, <1>6, <1>7, <1>8, <1>9 DEF ChannelInv

\* The worker closes the channel: nobody is left to close it again.
LEMMA CloseKeepsChannels ==
    ASSUME ChannelInv, NEW e \in Emitters, NEW r \in Readers, CloseAfter(e, r), UNCHANGED kind
    PROVE  ChannelInv'
<1> USE DEF taskVars, runVars, readerVars
<1>0. /\ TypeOK /\ PhasesFit /\ LastEventIsWorkers /\ IdleReadersAreUnknown
      /\ ReplayHasBacklog /\ OpenIsOwned
  BY DEF ChannelInv
<1>1. /\ out[e].closing = r
      /\ out' = [out EXCEPT ![e].closing = None]
      /\ closed' = [closed EXCEPT ![r] = TRUE]
      /\ panicked' = closed[r]
      /\ UNCHANGED <<kind, taskVars, runVars, registered, readerVars, chan>>
  BY DEF CloseAfter
<1>2. out \in [Emitters -> Delivery] /\ closed \in [Readers -> BOOLEAN]
  BY <1>0 DEF TypeOK
<1>3. e = "worker" /\ r \notin out[e].to /\ out[e].terminal
  BY <1>0, <1>1, ReadersAssumption DEF LastEventIsWorkers
<1>4. /\ out' \in [Emitters -> Delivery]
      /\ \A f \in Emitters :
            /\ out'[f].to = out[f].to
            /\ out'[f].terminal = out[f].terminal
            /\ out'[f].closing = IF f = e THEN None ELSE out[f].closing
  <2> DEFINE d == [out[e] EXCEPT !.closing = None]
  <2>1. /\ d \in Delivery /\ d.to = out[e].to /\ d.terminal = out[e].terminal /\ d.closing = None
    BY <1>2 DEF Delivery
  <2>2. out' = [out EXCEPT ![e] = d]
    BY <1>1
  <2> HIDE DEF d
  <2>3. \A f \in Emitters : out'[f] = IF f = e THEN d ELSE out[f]
    BY <1>2, <2>2
  <2>4. out' \in [Emitters -> Delivery]
    BY <1>2, <2>1, <2>2
  <2>5. QED
    BY <2>1, <2>3, <2>4
<1>5. \A q \in Readers : closed'[q] = IF q = r THEN TRUE ELSE closed[q]
  BY <1>1, <1>2
<1>6. TypeOK'
  BY <1>0, <1>1, <1>2, <1>4 DEF TypeOK
<1>7. PhasesFit' /\ ReplayHasBacklog'
  BY <1>0, <1>1 DEF PhasesFit, ReplayHasBacklog
<1>8. LastEventIsWorkers'
  BY <1>0, <1>1, <1>4 DEF LastEventIsWorkers
<1>9. IdleReadersAreUnknown'
  <2>1. rpc[r] # "idle"
    BY <1>0, <1>1 DEF IdleReadersAreUnknown
  <2>2. QED
    BY <1>0, <1>1, <1>4, <1>5, <2>1, ReadersAssumption DEF IdleReadersAreUnknown
<1>10. OpenIsOwned'
  <2>1. WorkerCloses(r) /\ ~WorkerCloses(r)' /\ r \notin registered
    BY <1>0, <1>1, <1>3, <1>4, EmittersApart, ReadersAssumption DEF WorkerCloses, OpenIsOwned
  <2>2. \A q \in Readers : q # r => (WorkerCloses(q)' <=> WorkerCloses(q))
    BY <1>1, <1>3, <1>4, EmittersApart, ReadersAssumption DEF WorkerCloses
  <2>3. \A q \in Readers :
            /\ ~(q \in registered' /\ WorkerCloses(q)')
            /\ (q \in registered' \/ WorkerCloses(q)') <=> (capacity'[q] # 0 /\ ~closed'[q])
    BY <1>0, <1>1, <1>5, <2>1, <2>2 DEF OpenIsOwned
  <2>4. QED
    BY <2>3 DEF OpenIsOwned
<1>11. QED
  BY <1>6, <1>7, <1>8, <1>9, <1>10 DEF ChannelInv

\* A reader that subscribes, and one that replays, receives or leaves.
LEMMA FollowKeepsChannels ==
    ASSUME ChannelInv, NEW r \in Readers, Follow(r) \/ GiveUp(r), ~panicked, UNCHANGED kind
    PROVE  ChannelInv'
<1> USE DEF taskVars, runVars, readerVars, chanVars
<1>0. /\ TypeOK /\ PhasesFit /\ LastEventIsWorkers /\ IdleReadersAreUnknown
      /\ ReplayHasBacklog /\ OpenIsOwned
  BY DEF ChannelInv
<1>t. /\ rpc \in [Readers -> {"idle", "replay", "read", "ask", "leave", "done"}]
      /\ backlog \in [Readers -> Seq(EventType)]
      /\ chan \in [Readers -> Seq(EventType)]
      /\ capacity \in [Readers -> Nat]
      /\ \A q \in Readers : Len(chan[q]) <= capacity[q]
      /\ closed \in [Readers -> BOOLEAN]
      /\ registered \subseteq Readers
      /\ log \in Seq(EventType)
  BY <1>0 DEF TypeOK
<1>w. UNCHANGED <<kind, taskVars, runVars, out>>
  BY DEF Follow, GiveUp, SubscribeFinished, SubscribeLive, Replay, Receive, AskTask, Unsubscribe
<1>l. LastEventIsWorkers' /\ PhasesFit'
  BY <1>0, <1>w DEF LastEventIsWorkers, PhasesFit
<1>m. ASSUME rpc' \in [Readers -> {"idle", "replay", "read", "ask", "leave", "done"}],
             backlog' \in [Readers -> Seq(EventType)],
             chan' \in [Readers -> Seq(EventType)],
             capacity' \in [Readers -> Nat],
             \A q \in Readers : Len(chan'[q]) <= capacity'[q],
             closed' \in [Readers -> BOOLEAN],
             registered' \subseteq Readers,
             result' \in [Readers -> TaskStatus \cup {"absent"}],
             panicked' \in BOOLEAN
      PROVE  TypeOK'
  BY <1>0, <1>w, <1>m DEF TypeOK
<1>c. \A q \in Readers : WorkerCloses(q)' <=> WorkerCloses(q)
  BY <1>w DEF WorkerCloses
<1>1. CASE SubscribeFinished(r)
  <2>1. /\ rpc[r] = "idle"
        /\ capacity' = [capacity EXCEPT ![r] = ChannelCapacity]
        /\ chan' = [chan EXCEPT ![r] = log]
        /\ closed' = [closed EXCEPT ![r] = TRUE]
        /\ rpc' = [rpc EXCEPT ![r] = "read"]
        /\ UNCHANGED <<registered, backlog, result, panicked>>
    BY <1>1 DEF SubscribeFinished
  <2>2. \A q \in Readers :
            /\ capacity'[q] = IF q = r THEN ChannelCapacity ELSE capacity[q]
            /\ chan'[q] = IF q = r THEN log ELSE chan[q]
            /\ closed'[q] = IF q = r THEN TRUE ELSE closed[q]
            /\ rpc'[q] = IF q = r THEN "read" ELSE rpc[q]
    BY <1>t, <2>1
  <2>3. TypeOK'
    <3>1. /\ capacity' \in [Readers -> Nat]
          /\ \A q \in Readers : Len(chan'[q]) <= capacity'[q]
      BY <1>0, <1>t, <2>1, <2>2, CapacityFits
    <3>2. /\ chan' \in [Readers -> Seq(EventType)]
          /\ closed' \in [Readers -> BOOLEAN]
          /\ rpc' \in [Readers -> {"idle", "replay", "read", "ask", "leave", "done"}]
      BY <1>t, <2>1
    <3>3. /\ backlog' \in [Readers -> Seq(EventType)] /\ registered' \subseteq Readers
          /\ result' \in [Readers -> TaskStatus \cup {"absent"}] /\ panicked' \in BOOLEAN
      BY <1>0, <1>t, <2>1 DEF TypeOK
    <3>4. QED
      BY <1>m, <3>1, <3>2, <3>3
  <2>4. IdleReadersAreUnknown' /\ ReplayHasBacklog'
    <3>1. IdleReadersAreUnknown'
      <4>1. \A q \in Readers : rpc'[q] = "idle" => q # r /\ rpc[q] = "idle"
        BY <2>2
      <4>2. UNCHANGED <<registered, out>>
        BY <1>w, <2>1
      <4>3. QED
        BY <1>0, <2>2, <4>1, <4>2 DEF IdleReadersAreUnknown
    <3>2. ReplayHasBacklog'
      BY <1>0, <2>1, <2>2 DEF ReplayHasBacklog
    <3>3. QED
      BY <3>1, <3>2
  <2>5. r \notin registered /\ ~WorkerCloses(r)
    BY <1>0, <2>1 DEF IdleReadersAreUnknown, OpenIsOwned
  <2>6. \A q \in Readers :
            /\ ~(q \in registered' /\ WorkerCloses(q)')
            /\ (q \in registered' \/ WorkerCloses(q)') <=> (capacity'[q] # 0 /\ ~closed'[q])
    BY <1>0, <1>c, <2>1, <2>2, <2>5 DEF OpenIsOwned
  <2>7. QED
    BY <1>l, <2>3, <2>4, <2>6 DEF ChannelInv, OpenIsOwned
<1>2. CASE SubscribeLive(r)
  <2>1. /\ rpc[r] = "idle"
        /\ capacity' = [capacity EXCEPT ![r] = ChannelCapacity]
        /\ registered' = registered \cup {r}
        /\ backlog' = [backlog EXCEPT ![r] = log]
        /\ rpc' = [rpc EXCEPT ![r] = IF log = <<>> THEN "read" ELSE "replay"]
        /\ UNCHANGED <<result, chan, closed, panicked>>
    BY <1>2 DEF SubscribeLive
  <2>2. \A q \in Readers :
            /\ capacity'[q] = IF q = r THEN ChannelCapacity ELSE capacity[q]
            /\ backlog'[q] = IF q = r THEN log ELSE backlog[q]
            /\ rpc'[q] = IF q = r THEN IF log = <<>> THEN "read" ELSE "replay" ELSE rpc[q]
    BY <1>t, <2>1
  <2>3. /\ chan[r] = <<>> /\ ~closed[r] /\ r \notin registered
        /\ ~WorkerCloses(r)
    BY <1>0, <2>1 DEF IdleReadersAreUnknown, OpenIsOwned
  <2>4. ChannelCapacity \in Nat \ {0}
    BY <1>0, CapacityFits
  <2>5. TypeOK'
    <3>1. /\ capacity' \in [Readers -> Nat]
          /\ \A q \in Readers : Len(chan'[q]) <= capacity'[q]
      BY <1>t, <2>1, <2>2, <2>3, <2>4
    <3>2. /\ backlog' \in [Readers -> Seq(EventType)]
          /\ rpc' \in [Readers -> {"idle", "replay", "read", "ask", "leave", "done"}]
          /\ registered' \subseteq Readers
      BY <1>t, <2>1
    <3>3. QED
      BY <1>0, <1>w, <2>1, <3>1, <3>2 DEF TypeOK
  <2>6. IdleReadersAreUnknown' /\ ReplayHasBacklog'
    BY <1>0, <1>w, <2>1, <2>2 DEF IdleReadersAreUnknown, ReplayHasBacklog
  <2>7. \A q \in Readers :
            /\ ~(q \in registered' /\ WorkerCloses(q)')
            /\ (q \in registered' \/ WorkerCloses(q)') <=> (capacity'[q] # 0 /\ ~closed'[q])
    BY <1>0, <1>c, <2>1, <2>2, <2>3, <2>4 DEF OpenIsOwned
  <2>8. QED
    BY <1>l, <2>5, <2>6, <2>7 DEF ChannelInv, OpenIsOwned
<1>3. CASE Replay(r)
  <2>1. /\ rpc[r] = "replay" /\ (closed[r] \/ Len(chan[r]) < capacity[r])
        /\ panicked' = closed[r]
        /\ chan' = IF closed[r] THEN chan
                   ELSE [chan EXCEPT ![r] = Append(@, Head(backlog[r]))]
        /\ backlog' = [backlog EXCEPT ![r] = Tail(@)]
        /\ rpc' = [rpc EXCEPT ![r] = IF Len(backlog[r]) = 1 THEN "read" ELSE @]
        /\ UNCHANGED <<registered, capacity, result, closed>>
    BY <1>3 DEF Replay
  <2>2. /\ Head(backlog[r]) \in EventType
        /\ Tail(backlog[r]) \in Seq(EventType)
        /\ Len(Tail(backlog[r])) = Len(backlog[r]) - 1
        /\ Len(backlog[r]) \in Nat \ {0}
    BY <1>0, <1>t, <2>1 DEF ReplayHasBacklog
  <2>3. /\ backlog' \in [Readers -> Seq(EventType)]
        /\ rpc' \in [Readers -> {"idle", "replay", "read", "ask", "leave", "done"}]
        /\ \A q \in Readers :
              /\ backlog'[q] = IF q = r THEN Tail(backlog[r]) ELSE backlog[q]
              /\ rpc'[q] = IF q = r /\ Len(backlog[r]) = 1 THEN "read" ELSE rpc[q]
    BY <1>t, <2>1, <2>2
  <2>4. /\ chan' \in [Readers -> Seq(EventType)]
        /\ \A q \in Readers : Len(chan'[q]) <= capacity'[q]
        /\ \A q \in Readers : q # r => chan'[q] = chan[q]
    <3>1. CASE closed[r]
      BY <1>t, <2>1, <3>1
    <3>2. CASE ~closed[r]
      <4>1. /\ Append(chan[r], Head(backlog[r])) \in Seq(EventType)
            /\ Len(Append(chan[r], Head(backlog[r]))) <= capacity[r]
        BY <1>t, <2>1, <2>2, <3>2
      <4>2. chan' = [chan EXCEPT ![r] = Append(chan[r], Head(backlog[r]))]
        BY <2>1, <3>2
      <4>3. QED
        BY <1>t, <2>1, <4>1, <4>2
    <3>3. QED
      BY <3>1, <3>2
  <2>5. TypeOK'
    <3>1. /\ capacity' \in [Readers -> Nat] /\ closed' \in [Readers -> BOOLEAN]
          /\ registered' \subseteq Readers /\ panicked' \in BOOLEAN
          /\ result' \in [Readers -> TaskStatus \cup {"absent"}]
      BY <1>0, <1>t, <2>1 DEF TypeOK
    <3>2. QED
      BY <1>m, <2>3, <2>4, <3>1
  <2>6. Tail(backlog[r]) = <<>> => Len(backlog[r]) = 1
    <3> DEFINE rest == Tail(backlog[r])
    <3>1. rest \in Seq(EventType) /\ Len(rest) = Len(backlog[r]) - 1 /\ Len(backlog[r]) \in Nat
      BY <2>2
    <3> HIDE DEF rest
    <3>2. rest = <<>> => Len(rest) = 0
      OBVIOUS
    <3>3. rest = <<>> => Len(backlog[r]) = 1
      BY <3>1, <3>2
    <3>4. QED
      BY <3>3 DEF rest
  <2>7. ReplayHasBacklog'
    BY <1>0, <2>3, <2>6 DEF ReplayHasBacklog
  <2>8. IdleReadersAreUnknown'
    BY <1>0, <1>w, <2>1, <2>3, <2>4 DEF IdleReadersAreUnknown
  <2>9. OpenIsOwned'
    BY <1>0, <1>c, <2>1 DEF OpenIsOwned
  <2>10. QED
    BY <1>l, <2>5, <2>7, <2>8, <2>9 DEF ChannelInv
<1>4. CASE Receive(r)
  <2>1. /\ rpc[r] = "read"
        /\ UNCHANGED <<registered, backlog, capacity, result, closed, panicked>>
    BY <1>4 DEF Receive
  <2>2. /\ chan' \in [Readers -> Seq(EventType)]
        /\ \A q \in Readers : q # r => chan'[q] = chan[q]
        /\ \A q \in Readers : Len(chan'[q]) <= capacity[q]
    <3>1. CASE chan[r] = <<>>
      BY <1>4, <1>t, <3>1 DEF Receive
    <3>2. CASE chan[r] # <<>>
      <4>1. chan' = [chan EXCEPT ![r] = Tail(chan[r])]
        BY <1>4, <3>2 DEF Receive
      <4>2. Tail(chan[r]) \in Seq(EventType) /\ Len(Tail(chan[r])) <= capacity[r]
        BY <1>t, <3>2
      <4>3. QED
        BY <1>t, <4>1, <4>2
    <3>3. QED
      BY <3>1, <3>2
  <2>3. /\ rpc' \in [Readers -> {"idle", "replay", "read", "ask", "leave", "done"}]
        /\ \A q \in Readers : q # r => rpc'[q] = rpc[q]
        /\ rpc'[r] \in {"ask", "read"}
    BY <1>4, <1>t, <2>1 DEF Receive
  <2>4. TypeOK'
    BY <1>0, <1>w, <2>1, <2>2, <2>3 DEF TypeOK
  <2>5. ReplayHasBacklog' /\ OpenIsOwned'
    BY <1>0, <1>c, <2>1, <2>3 DEF ReplayHasBacklog, OpenIsOwned
  <2>6. IdleReadersAreUnknown'
    BY <1>0, <1>w, <2>1, <2>2, <2>3 DEF IdleReadersAreUnknown
  <2>7. QED
    BY <1>l, <2>4, <2>5, <2>6 DEF ChannelInv
<1>5. CASE AskTask(r) \/ GiveUp(r)
  <2>1. /\ rpc' = [rpc EXCEPT ![r] = "leave"]
        /\ UNCHANGED <<registered, backlog, capacity, chan, closed, panicked>>
        /\ result' \in [Readers -> TaskStatus \cup {"absent"}]
    BY <1>0, <1>5 DEF AskTask, GiveUp, TypeOK
  <2>2. TypeOK'
    BY <1>0, <1>w, <1>t, <2>1 DEF TypeOK
  <2>3. \A q \in Readers : rpc'[q] = rpc[q] \/ rpc'[q] \notin {"idle", "replay"}
    BY <1>t, <2>1
  <2>4. QED
    BY <1>l, <1>w, <2>1, <2>2, <2>3, QuietStep
<1>6. CASE Unsubscribe(r)
  <2>1. /\ rpc[r] = "leave"
        /\ registered' = registered \ {r}
        /\ closed' = [closed EXCEPT ![r] = closed[r] \/ r \in registered]
        /\ panicked' = (r \in registered /\ closed[r])
        /\ rpc' = [rpc EXCEPT ![r] = "done"]
        /\ UNCHANGED <<backlog, capacity, result, chan>>
    BY <1>6 DEF Unsubscribe
  <2>2. \A q \in Readers :
            /\ closed'[q] = IF q = r THEN closed[r] \/ r \in registered ELSE closed[q]
            /\ rpc'[q] = IF q = r THEN "done" ELSE rpc[q]
    BY <1>t, <2>1
  <2>3. TypeOK'
    <3>1. /\ closed' \in [Readers -> BOOLEAN] /\ panicked' \in BOOLEAN
          /\ rpc' \in [Readers -> {"idle", "replay", "read", "ask", "leave", "done"}]
      BY <1>t, <2>1
    <3>2. QED
      BY <1>0, <1>w, <1>t, <2>1, <3>1 DEF TypeOK
  <2>4. ReplayHasBacklog'
    BY <1>0, <2>1, <2>2 DEF ReplayHasBacklog
  <2>5. IdleReadersAreUnknown'
    BY <1>0, <1>w, <2>1, <2>2 DEF IdleReadersAreUnknown
  <2>6. \A q \in Readers :
            /\ ~(q \in registered' /\ WorkerCloses(q)')
            /\ (q \in registered' \/ WorkerCloses(q)') <=> (capacity'[q] # 0 /\ ~closed'[q])
    BY <1>0, <1>c, <2>1, <2>2 DEF OpenIsOwned
  <2>7. QED
    BY <1>l, <2>3, <2>4, <2>5, <2>6 DEF ChannelInv, OpenIsOwned
<1>7. QED
  BY <1>1, <1>2, <1>3, <1>4, <1>5, <1>6 DEF Follow

\* Every step keeps the channels in order.
LEMMA ChannelStep == ChannelInv /\ [Next]_vars => ChannelInv'
<1> SUFFICES ASSUME ChannelInv, [Next]_vars PROVE ChannelInv'
  OBVIOUS
<1> USE DEF taskVars, runVars, readerVars, chanVars
<1>0. /\ TypeOK /\ PhasesFit /\ LastEventIsWorkers /\ IdleReadersAreUnknown
      /\ ReplayHasBacklog /\ OpenIsOwned
  BY DEF ChannelInv
<1>l. <<>> \in Seq(EventType) /\ Len(<<>>) <= MaxTaskEvents
  BY SizesAssumption
<1>1. ASSUME Submit, ~panicked, UNCHANGED kind
      PROVE  ChannelInv'
  <2>1. CASE SubmitAgentTask
    <3>1. TypeOK' /\ PhasesFit'
      BY <1>0, <1>1, <1>l, <2>1 DEF SubmitAgentTask, Upsert, TypeOK, PhasesFit, TaskStatus
    <3>2. QED
      BY <2>1, <3>1, QuietStep DEF SubmitAgentTask
  <2>2. CASE SubmitSquadTask
    <3>1. TypeOK' /\ PhasesFit'
      BY <1>0, <1>1, <2>2 DEF SubmitSquadTask, TypeOK, PhasesFit, TaskStatus
    <3>2. QED
      BY <2>2, <3>1, QuietStep DEF SubmitSquadTask
  <2>3. CASE CheckSubmitted
    <3>1. spc = "check" /\ kind = "squad" /\ shared \in TaskStatus
      BY <1>0, <2>3 DEF CheckSubmitted, PhasesFit, TypeOK
    <3>2. TypeOK' /\ PhasesFit'
      BY <1>0, <1>1, <2>3, <3>1 DEF CheckSubmitted, TypeOK, PhasesFit
    <3>3. QED
      BY <2>3, <3>2, QuietStep DEF CheckSubmitted
  <2>4. CASE UpsertSubmitted \/ UpdateSubmitted
    <3>1. TypeOK' /\ PhasesFit'
      BY <1>0, <1>1, <1>l, <2>4
      DEF UpsertSubmitted, UpdateSubmitted, Upsert, SetStatus, StatusOfExisting, TypeOK, PhasesFit
    <3>2. QED
      BY <2>4, <3>1, QuietStep DEF UpsertSubmitted, UpdateSubmitted
  <2>5. CASE EmitCreated
    <3>1. Emit("submitter", "created", FALSE) /\ "created" \in EventType
      BY <2>5 DEF EmitCreated, EventType
    <3>2. /\ log' \in Seq(EventType) /\ Len(log') <= MaxTaskEvents /\ status' = status
          /\ out' \in [Emitters -> Delivery] /\ registered' \subseteq Readers
      BY <1>0, <3>1, EmitEffect, EmittersApart
    <3>3. TypeOK' /\ PhasesFit'
      BY <1>0, <1>1, <2>5, <3>2 DEF EmitCreated, TypeOK, PhasesFit
    <3>4. QED
      BY <2>5, <3>1, <3>3, EmitKeepsChannels, EmittersApart DEF EmitCreated
  <2>6. CASE ReturnFromSubmit
    <3>1. TypeOK' /\ PhasesFit'
      BY <1>0, <1>1, <2>6 DEF ReturnFromSubmit, TypeOK, PhasesFit
    <3>2. kind = "agent" => wpc = "wait"
      BY <1>0, <2>6 DEF ReturnFromSubmit, PhasesFit
    <3>3. QED
      BY <2>6, <3>1, <3>2, QuietStep DEF ReturnFromSubmit
  <2>7. QED
    BY <1>1, <2>1, <2>2, <2>3, <2>4, <2>5, <2>6 DEF Submit
<1>2. ASSUME Run, ~panicked, UNCHANGED kind
      PROVE  ChannelInv'
  <2>1. CASE StartSharedTask \/ CheckStarted \/ UpsertStarted \/ MarkRunning
    <3>1. /\ wpc \in {"wait", "check", "upsert", "run"}
          /\ wpc' \in {"check", "upsert", "run", "emit"}
          /\ UNCHANGED <<spc, apc, emitted, snapshot, registered, out, readerVars, chanVars, panicked>>
          /\ status' = status \/ status' \in TaskStatus
          /\ log' = log \/ log' = <<>>
          /\ shared' = shared \/ (wpc = "wait" /\ shared = "queued" /\ shared' = "running")
          /\ wpc = "wait" => shared = "queued" /\ wpc' = "check"
          /\ wpc' \in {"check", "upsert"} => wpc \in {"wait", "check"}
      <4>1. CASE StartSharedTask
        BY <4>1 DEF StartSharedTask
      <4>2. CASE CheckStarted
        BY <4>2 DEF CheckStarted
      <4>3. CASE UpsertStarted
        BY <4>3 DEF UpsertStarted, Upsert, TaskStatus
      <4>4. CASE MarkRunning
        BY <4>4 DEF MarkRunning, SetStatus, TaskStatus
      <4>5. QED
        BY <2>1, <4>1, <4>2, <4>3, <4>4
    <3>2. kind = "agent" => wpc # "wait"
      <4>1. CASE StartSharedTask
        BY <1>0, <4>1 DEF StartSharedTask, PhasesFit
      <4>2. QED
        BY <2>1, <4>1 DEF CheckStarted, UpsertStarted, MarkRunning
    <3>3. TypeOK' /\ PhasesFit'
      BY <1>0, <1>2, <1>l, <3>1, <3>2, ZenonT(60) DEF TypeOK, PhasesFit, TaskStatus
    <3>4. QED
      BY <3>1, <3>3, QuietStep
  <2>2. CASE RecordOutcome \/ FinishAsyncTask
    <3>1. /\ TypeOK' /\ PhasesFit'
      BY <1>0, <1>2, <2>2, OutcomeIsFinal
      DEF RecordOutcome, FinishAsyncTask, SetStatus, SharedOutcome, TypeOK, PhasesFit, TaskStatus,
          TerminalStatus
    <3>2. QED
      BY <2>2, <3>1, QuietStep DEF RecordOutcome, FinishAsyncTask
  <2>3. CASE EmitStarted
    <3>1. Emit("worker", "started", FALSE) /\ "started" \in EventType
      BY <2>3 DEF EmitStarted, EventType
    <3>2. /\ log' \in Seq(EventType) /\ Len(log') <= MaxTaskEvents /\ status' = status
          /\ out' \in [Emitters -> Delivery] /\ registered' \subseteq Readers
      BY <1>0, <3>1, EmitEffect, EmittersApart
    <3>3. TypeOK' /\ PhasesFit'
      BY <1>0, <1>2, <2>3, <3>2 DEF EmitStarted, TypeOK, PhasesFit
    <3>4. QED
      BY <2>3, <3>1, <3>3, EmitKeepsChannels, EmittersApart DEF EmitStarted
  <2>4. CASE EmitOutcome
    <3>1. Emit("worker", Outcome, TRUE) /\ Outcome \in EventType
      BY <2>4, OutcomeIsFinal DEF EmitOutcome, EventType
    <3>2. /\ log' \in Seq(EventType) /\ Len(log') <= MaxTaskEvents /\ status' = status
          /\ out' \in [Emitters -> Delivery] /\ registered' \subseteq Readers
      BY <1>0, <3>1, EmitEffect, EmittersApart
    <3>3. TypeOK' /\ PhasesFit'
      BY <1>0, <1>2, <2>4, <3>2 DEF EmitOutcome, TypeOK, PhasesFit
    <3>4. QED
      BY <2>4, <3>1, <3>3, EmitKeepsChannels, EmittersApart DEF EmitOutcome
  <2>5. QED
    BY <1>2, <2>1, <2>2, <2>3, <2>4 DEF Run
<1>3. ASSUME NEW a \in Agents, Forward(a), ~panicked, UNCHANGED kind
      PROVE  ChannelInv'
  <2>1. CASE ForwardRuntimeEvent(a)
    <3>1. Emit(a, "runtime", FALSE) /\ "runtime" \in EventType /\ a \in Emitters /\ a # "worker"
      BY <2>1, EmittersApart DEF ForwardRuntimeEvent, EventType
    <3>2. /\ log' \in Seq(EventType) /\ Len(log') <= MaxTaskEvents /\ status' = status
          /\ out' \in [Emitters -> Delivery] /\ registered' \subseteq Readers
      BY <1>0, <3>1, EmitEffect
    <3>3. /\ emitted' \in [Agents -> 0..MaxRuntime]
          /\ apc' \in [Agents -> {"absent", "idle", "forward", "ok", "failed"}]
      BY <1>0, <2>1, SizesAssumption DEF ForwardRuntimeEvent, TypeOK
    <3>4. TypeOK' /\ PhasesFit'
      BY <1>0, <1>3, <2>1, <3>2, <3>3 DEF ForwardRuntimeEvent, TypeOK, PhasesFit
    <3>5. QED
      BY <2>1, <3>1, <3>4, EmitKeepsChannels DEF ForwardRuntimeEvent
  <2>2. ASSUME NEW res \in {"ok", "failed"}, AgentDone(a, res)
        PROVE  ChannelInv'
    <3>1. TypeOK' /\ PhasesFit'
      BY <1>0, <1>3, <2>2 DEF AgentDone, TypeOK, PhasesFit
    <3>2. QED
      BY <2>2, <3>1, QuietStep DEF AgentDone
  <2>3. QED
    BY <1>3, <2>1, <2>2 DEF Forward
<1>4. CASE UNCHANGED vars
  BY <1>0, <1>4
  DEF vars, ChannelInv, TypeOK, PhasesFit, LastEventIsWorkers, IdleReadersAreUnknown,
      ReplayHasBacklog, OpenIsOwned, WorkerCloses
<1>5. QED
  BY <1>1, <1>2, <1>3, <1>4, DeliverKeepsChannels, CloseKeepsChannels, FollowKeepsChannels
  DEF Next, Send

\* A channel is closed once, by whoever has taken it out of the table of
\* subscribers, and holds no more than it has room for (async_tasks.go:135-249).
THEOREM ChannelsStaySafe == Spec => []ChannelsAreSafe
<1>1. ChannelInv => ChannelsAreSafe
  <2> SUFFICES ASSUME ChannelInv, NEW r \in Readers
               PROVE  Cardinality(Closers(r)) = IF capacity[r] = 0 \/ closed[r] THEN 0 ELSE 1
    BY DEF ChannelsAreSafe, OneCloser, ChannelInv
  <2>1. /\ ~(r \in registered /\ WorkerCloses(r))
        /\ (r \in registered \/ WorkerCloses(r)) <=> (capacity[r] # 0 /\ ~closed[r])
    BY DEF ChannelInv, OpenIsOwned
  <2>2. Closers(r) = (IF WorkerCloses(r) THEN {"worker"} ELSE {})
                        \cup (IF r \in registered THEN {"subscribers"} ELSE {})
    <3>1. \A e \in Emitters : out[e].terminal => e = "worker"
      BY DEF ChannelInv, LastEventIsWorkers
    <3>2. QED
      BY <3>1, EmittersApart DEF Closers, WorkerCloses
  <2>3. Closers(r) = {} \/ Closers(r) = {"worker"} \/ Closers(r) = {"subscribers"}
    BY <2>1, <2>2
  <2>4. Cardinality({}) = 0 /\ Cardinality({"worker"}) = 1 /\ Cardinality({"subscribers"}) = 1
    BY FS_EmptySet, FS_Singleton
  <2>5. CASE capacity[r] = 0 \/ closed[r]
    <3>1. Closers(r) = {}
      BY <2>1, <2>2, <2>5
    <3>2. QED
      BY <2>4, <2>5, <3>1
  <2>6. CASE ~(capacity[r] = 0 \/ closed[r])
    <3>1. Closers(r) # {}
      BY <2>1, <2>2, <2>6
    <3>2. QED
      BY <2>3, <2>4, <2>6, <3>1
  <2>7. QED
    BY <2>5, <2>6
<1>2. QED
  BY <1>1, ChannelStart, ChannelStep, PTL DEF Spec

-----------------------------------------------------------------------------
(* Outcomes *)

LEMMA OutcomeStart == Init => OutcomeInv
<1> SUFFICES ASSUME Init PROVE OutcomeInv
  OBVIOUS
<1>1. <<>> \in Seq(Settled) /\ "created" \in Settled /\ DOMAIN <<>> = {}
  BY DEF Settled, EventType, TerminalStatus
<1>2. EventsHold
  BY <1>1 DEF Init, EventsHold, Nothing
<1>3. StatusesHold
  BY DEF Init, StatusesHold, StatusHolds, OverStates, TerminalStatus
<1>4. ReadersAskInTime /\ WaiterFindsOutcome
  BY DEF Init, ReadersAskInTime, WaiterFindsOutcome
<1>5. OutcomeIsLogged /\ NothingRunsAfterOutcome
  BY <1>1 DEF Init, OutcomeIsLogged, NothingRunsAfterOutcome
<1>6. QED
  BY <1>2, <1>3, <1>4, <1>5 DEF OutcomeInv

\* Once the agents have ended the outcome does not change, and the worker only
\* goes on: what may be told may be told for ever.
LEMMA OutcomeStays ==
    ASSUME ChannelInv, OutcomeInv, [Next]_vars
    PROVE  /\ kind' = kind
           /\ wpc \in OverStates => wpc' \in OverStates /\ apc' = apc /\ Outcome' = Outcome
           /\ wpc \in {"emitEnd", "done"} => wpc' \in {"emitEnd", "done"}
           /\ wpc = "done" => wpc' = "done"
           /\ Settled \subseteq Settled'
<1> USE DEF taskVars, runVars, readerVars, chanVars, OverStates
<1>1. /\ kind' = kind
      /\ wpc \in OverStates => wpc' \in OverStates /\ apc' = apc
      /\ wpc \in {"emitEnd", "done"} => wpc' \in {"emitEnd", "done"}
      /\ wpc = "done" => wpc' = "done"
  <2>1. CASE Submit /\ UNCHANGED kind
    <3>1. apc' = apc /\ (wpc' = wpc \/ (spc = "return" /\ kind = "agent" /\ wpc' = "run"))
      <4>1. CASE ReturnFromSubmit
        BY <4>1 DEF ReturnFromSubmit
      <4>2. QED
        BY <2>1, <4>1 DEF Submit, SubmitAgentTask, SubmitSquadTask, CheckSubmitted,
                          UpsertSubmitted, UpdateSubmitted, EmitCreated
    <3>2. spc = "return" /\ kind = "agent" => wpc = "wait"
      BY DEF ChannelInv, PhasesFit
    <3>3. QED
      BY <2>1, <3>1, <3>2
  <2>2. CASE Run /\ UNCHANGED kind
    BY <2>2 DEF Run, StartSharedTask, CheckStarted, UpsertStarted, MarkRunning, EmitStarted,
                RecordOutcome, FinishAsyncTask, EmitOutcome
  <2>3. ASSUME NEW a \in Agents, Forward(a), UNCHANGED kind
        PROVE  wpc = "agents" /\ wpc' = wpc
    <3>1. AgentsStarted /\ apc[a] \in {"idle", "forward"} /\ wpc' = wpc
      BY <2>3 DEF Forward, ForwardRuntimeEvent, AgentDone
    <3>2. wpc \in OverStates => AgentsDone
      BY DEF OutcomeInv, StatusesHold
    <3>3. QED
      BY <3>1, <3>2, AgentsActEarly
  <2>4. CASE (\E e \in Emitters : Send(e)) /\ UNCHANGED kind
    BY <2>4 DEF Send, Deliver, CloseAfter
  <2>5. CASE (\E r \in Readers : Follow(r) \/ GiveUp(r)) /\ UNCHANGED kind
    BY <2>5 DEF Follow, GiveUp, SubscribeFinished, SubscribeLive, Replay, Receive, AskTask,
                Unsubscribe
  <2>6. CASE UNCHANGED vars
    BY <2>6 DEF vars
  <2>7. QED
    BY <2>1, <2>2, <2>3, <2>4, <2>5, <2>6 DEF Next
<1>2. apc' = apc => Outcome' = Outcome
  BY DEF Outcome
<1>3. QED
  BY <1>1, <1>2 DEF Settled

\* A status tells an outcome only when the agents have ended.
LEMMA StatusesStep ==
    ASSUME ChannelInv, OutcomeInv, [Next]_vars
    PROVE  StatusesHold'
<1> USE DEF taskVars, runVars, readerVars, chanVars, OverStates
<1>0. StatusesHold /\ PhasesFit
  BY DEF ChannelInv, OutcomeInv
<1>1. /\ kind' = kind
      /\ wpc \in OverStates => wpc' \in OverStates /\ apc' = apc /\ Outcome' = Outcome
      /\ wpc \in {"emitEnd", "done"} => wpc' \in {"emitEnd", "done"}
  BY OutcomeStays
<1>2. apc' = apc => Outcome' = Outcome /\ (AgentsDone' <=> AgentsDone)
  BY DEF Outcome, AgentsDone
<1>3. ASSUME UNCHANGED <<status, shared, snapshot, wpc>>
      PROVE  StatusesHold'
  BY <1>0, <1>1, <1>2, <1>3 DEF StatusesHold, StatusHolds
<1>4. CASE Submit
  <2>0. apc' = apc
    BY <1>4 DEF Submit, SubmitAgentTask, SubmitSquadTask, CheckSubmitted, UpsertSubmitted,
                UpdateSubmitted, EmitCreated, ReturnFromSubmit
  <2>1. CASE SubmitAgentTask
    <3>1. kind = "agent" /\ wpc = "wait" /\ wpc' = wpc
      BY <1>0, <2>1 DEF SubmitAgentTask, PhasesFit
    <3>2. QED
      BY <1>0, <1>1, <2>1, <3>1
      DEF SubmitAgentTask, Upsert, StatusesHold, StatusHolds, TerminalStatus
  <2>2. CASE SubmitSquadTask
    <3>1. kind = "squad" /\ wpc = "wait" /\ wpc' = wpc
      BY <1>0, <2>2 DEF SubmitSquadTask, PhasesFit
    <3>2. QED
      BY <1>0, <1>1, <2>2, <3>1 DEF SubmitSquadTask, StatusesHold, StatusHolds, TerminalStatus
  <2>3. CASE CheckSubmitted
    BY <1>0, <1>1, <1>2, <2>0, <2>3 DEF CheckSubmitted, StatusesHold, StatusHolds
  <2>4. CASE UpsertSubmitted
    <3>1. kind # "agent"
      BY <1>0, <2>4 DEF UpsertSubmitted, PhasesFit
    <3>2. QED
      BY <1>0, <1>1, <1>2, <2>0, <2>4, <3>1 DEF UpsertSubmitted, Upsert, StatusesHold, StatusHolds
  <2>5. CASE UpdateSubmitted
    BY <1>3, <2>5 DEF UpdateSubmitted, SetStatus, StatusOfExisting
  <2>6. CASE EmitCreated
    BY <1>3, <2>6 DEF EmitCreated, Emit
  <2>7. CASE ReturnFromSubmit
    <3>1. CASE kind = "agent"
      <4>1. wpc = "wait" /\ wpc' = "run"
        BY <1>0, <2>7, <3>1 DEF ReturnFromSubmit, PhasesFit
      <4>2. QED
        BY <1>0, <1>1, <2>7, <3>1, <4>1 DEF ReturnFromSubmit, StatusesHold, StatusHolds
    <3>2. CASE kind # "agent"
      BY <1>3, <2>7, <3>2 DEF ReturnFromSubmit
    <3>3. QED
      BY <3>1, <3>2
  <2>8. QED
    BY <1>4, <2>1, <2>2, <2>3, <2>4, <2>5, <2>6, <2>7 DEF Submit
<1>5. CASE Run
  <2>1. CASE StartSharedTask
    BY <1>0, <1>1, <2>1 DEF StartSharedTask, StatusesHold, StatusHolds, TerminalStatus
  <2>2. CASE CheckStarted \/ UpsertStarted \/ MarkRunning \/ EmitStarted
    BY <1>0, <1>1, <2>2
    DEF CheckStarted, UpsertStarted, MarkRunning, EmitStarted, Emit, Upsert, SetStatus,
        StatusesHold, StatusHolds, TerminalStatus
  <2>3. CASE RecordOutcome
    <3>1. /\ apc' = apc /\ wpc = "agents" /\ wpc' = "finish" /\ AgentsDone
          /\ shared' = IF kind = "squad" THEN Outcome ELSE shared
          /\ UNCHANGED <<status, snapshot>>
      BY <2>3 DEF RecordOutcome, SharedOutcome
    <3>2. status \notin TerminalStatus /\ shared \notin TerminalStatus
          /\ snapshot \notin TerminalStatus
      BY <1>0, <3>1 DEF StatusesHold, StatusHolds
    <3>3. QED
      BY <1>1, <1>2, <3>1, <3>2 DEF StatusesHold, StatusHolds
  <2>4. CASE FinishAsyncTask
    <3>1. apc' = apc /\ wpc = "finish" /\ wpc' = "emitEnd" /\ status' = Outcome
          /\ UNCHANGED <<shared, snapshot>>
      BY <2>4 DEF FinishAsyncTask, SetStatus
    <3>2. QED
      BY <1>0, <1>1, <1>2, <3>1 DEF StatusesHold, StatusHolds
  <2>5. CASE EmitOutcome
    <3>1. apc' = apc /\ wpc = "emitEnd" /\ wpc' = "done"
          /\ UNCHANGED <<status, shared, snapshot>>
      BY <2>5 DEF EmitOutcome, Emit
    <3>2. QED
      BY <1>0, <1>1, <1>2, <3>1 DEF StatusesHold, StatusHolds
  <2>6. QED
    BY <1>5, <2>1, <2>2, <2>3, <2>4, <2>5 DEF Run
<1>6. CASE \E a \in Agents : Forward(a)
  <2>1. UNCHANGED <<status, shared, snapshot, wpc>>
    BY <1>6 DEF Forward, ForwardRuntimeEvent, AgentDone, Emit
  <2>2. QED
    BY <1>3, <2>1
<1>7. CASE \E e \in Emitters : Send(e)
  <2>1. UNCHANGED <<status, shared, snapshot, wpc>>
    BY <1>7 DEF Send, Deliver, CloseAfter
  <2>2. QED
    BY <1>3, <2>1
<1>8. CASE \E r \in Readers : Follow(r) \/ GiveUp(r)
  <2>1. UNCHANGED <<status, shared, snapshot, wpc>>
    BY <1>8 DEF Follow, GiveUp, SubscribeFinished, SubscribeLive, Replay, Receive, AskTask,
                Unsubscribe
  <2>2. QED
    BY <1>3, <2>1
<1>9. CASE UNCHANGED vars
  BY <1>3, <1>9 DEF vars
<1>10. QED
  BY <1>4, <1>5, <1>6, <1>7, <1>8, <1>9 DEF Next

\* What a step does to the log: nothing, it empties it with a new entry, or it
\* adds an event.  After the outcome only the "created" of a squad's late
\* submitter is added; the outcome is added to a status that tells it.
LEMMA LogChanges ==
    ASSUME ChannelInv, OutcomeInv, [Next]_vars
    PROVE  \/ log' = log /\ status' = status /\ (wpc' = "done" => wpc = "done")
           \/ log' = log /\ wpc \in {"run", "finish"} /\ wpc' # "done"
           \/ log' = <<>> /\ (kind = "agent" => wpc' # "done")
           \/ \E x \in Settled' :
                 /\ log' = Appended(log, x)
                 /\ wpc = "done" => x = "created" /\ kind = "squad"
                 /\ kind = "agent" /\ wpc' = "done" => x = status'
<1> USE DEF taskVars, runVars, readerVars, chanVars
<1>0. PhasesFit /\ StatusesHold
  BY DEF ChannelInv, OutcomeInv
<1>1. CASE Submit
  <2>1. CASE SubmitAgentTask
    BY <1>0, <2>1 DEF SubmitAgentTask, Upsert, PhasesFit
  <2>2. CASE UpsertSubmitted
    BY <1>0, <2>2 DEF UpsertSubmitted, Upsert, PhasesFit
  <2>3. CASE EmitCreated
    <3>1. log' = Appended(log, "created") /\ spc = "emit" /\ wpc' = wpc
      BY <2>3 DEF EmitCreated, Emit
    <3>2. "created" \in Settled'
      BY DEF Settled, EventType, TerminalStatus
    <3>3. kind = "agent" => wpc = "wait"
      BY <1>0, <3>1 DEF PhasesFit
    <3>4. kind = "agent" \/ kind = "squad"
      BY DEF ChannelInv, TypeOK
    <3>5. QED
      BY <3>1, <3>2, <3>3, <3>4
  <2>4. CASE SubmitSquadTask \/ CheckSubmitted \/ UpdateSubmitted \/ ReturnFromSubmit
    BY <2>4
    DEF SubmitSquadTask, CheckSubmitted, UpdateSubmitted, ReturnFromSubmit, SetStatus,
        StatusOfExisting
  <2>5. QED
    BY <1>1, <2>1, <2>2, <2>3, <2>4 DEF Submit
<1>2. CASE Run
  <2>1. CASE StartSharedTask \/ CheckStarted \/ RecordOutcome
    BY <2>1 DEF StartSharedTask, CheckStarted, RecordOutcome
  <2>2. CASE MarkRunning \/ FinishAsyncTask
    BY <2>2 DEF MarkRunning, FinishAsyncTask, SetStatus
  <2>3. CASE UpsertStarted
    BY <2>3 DEF UpsertStarted, Upsert
  <2>4. CASE EmitStarted
    <3>1. log' = Appended(log, "started") /\ wpc = "emit" /\ wpc' = "agents"
      BY <2>4 DEF EmitStarted, Emit
    <3>2. "started" \in Settled'
      BY DEF Settled, EventType, TerminalStatus
    <3>3. QED
      BY <3>1, <3>2
  <2>5. CASE EmitOutcome
    <3>1. log' = Appended(log, Outcome) /\ wpc = "emitEnd" /\ wpc' = "done" /\ status' = status
      BY <2>5 DEF EmitOutcome, Emit
    <3>2. Outcome' = Outcome
      BY <3>1, OutcomeStays DEF OverStates
    <3>3. Outcome \in Settled'
      BY <3>1, <3>2, OutcomeIsFinal DEF Settled, EventType
    <3>4. kind = "agent" => status = Outcome
      BY <1>0, <3>1 DEF StatusesHold
    <3>5. QED
      BY <3>1, <3>3, <3>4
  <2>6. QED
    BY <1>2, <2>1, <2>2, <2>3, <2>4, <2>5 DEF Run
<1>3. ASSUME NEW a \in Agents, Forward(a)
      PROVE  \/ log' = log /\ status' = status /\ wpc' = wpc
             \/ log' = Appended(log, "runtime") /\ wpc = "agents" /\ wpc' = "agents"
  <2>1. AgentsStarted /\ apc[a] \in {"idle", "forward"} /\ wpc' = wpc
    BY <1>3 DEF Forward, ForwardRuntimeEvent, AgentDone
  <2>2. wpc = "agents"
    BY <1>0, <2>1, AgentsActEarly DEF StatusesHold
  <2>3. QED
    BY <1>3, <2>1, <2>2 DEF Forward, ForwardRuntimeEvent, AgentDone, Emit
<1>4. CASE \E a \in Agents : Forward(a)
  <2>1. "runtime" \in Settled'
    BY DEF Settled, EventType, TerminalStatus
  <2>2. QED
    BY <1>3, <1>4, <2>1
<1>5. CASE \E e \in Emitters : Send(e)
  BY <1>5 DEF Send, Deliver, CloseAfter
<1>6. CASE \E r \in Readers : Follow(r) \/ GiveUp(r)
  BY <1>6 DEF Follow, GiveUp, SubscribeFinished, SubscribeLive, Replay, Receive, AskTask,
              Unsubscribe
<1>7. CASE UNCHANGED vars
  BY <1>7 DEF vars
<1>8. QED
  BY <1>1, <1>2, <1>4, <1>5, <1>6, <1>7 DEF Next

\* The log keeps only what may be told, and nothing of the execution comes
\* after the outcome, which is its end for a task of an agent.
LEMMA LogStep ==
    ASSUME ChannelInv, OutcomeInv, [Next]_vars
    PROVE  log' \in Seq(Settled') /\ NothingRunsAfterOutcome' /\ OutcomeIsLogged'
<1>0. /\ log \in Seq(Settled) /\ Len(log) <= MaxTaskEvents /\ Settled \subseteq Settled'
      /\ kind' = kind /\ (wpc = "done" => wpc' = "done")
      /\ NothingRunsAfterOutcome /\ OutcomeIsLogged
  BY OutcomeStays DEF ChannelInv, OutcomeInv, TypeOK, EventsHold
<1>1. log \in Seq(Settled')
  BY <1>0
<1>2. ASSUME log' = log, kind = "agent" /\ wpc' = "done" => wpc = "done" /\ status' = status
      PROVE  log' \in Seq(Settled') /\ NothingRunsAfterOutcome' /\ OutcomeIsLogged'
  BY <1>0, <1>1, <1>2 DEF NothingRunsAfterOutcome, OutcomeIsLogged
<1>3. CASE log' = <<>> /\ (kind = "agent" => wpc' # "done")
  <2>1. <<>> \in Seq(Settled') /\ DOMAIN <<>> = {}
    OBVIOUS
  <2>2. QED
    BY <1>0, <1>3, <2>1 DEF NothingRunsAfterOutcome, OutcomeIsLogged
<1>4. ASSUME NEW y \in Settled', log' = Appended(log, y),
             wpc = "done" => y = "created" /\ kind = "squad",
             kind = "agent" /\ wpc' = "done" => y = status'
      PROVE  log' \in Seq(Settled') /\ NothingRunsAfterOutcome' /\ OutcomeIsLogged'
  <2>1. /\ log' \in Seq(Settled') /\ Len(log') >= 1 /\ log' # <<>> /\ log'[Len(log')] = y
        /\ \A i \in 1..(Len(log') - 1) :
              i + Dropped(log) \in 1..Len(log) /\ log'[i] = log[i + Dropped(log)]
    <3>1. /\ Appended(log, y) \in Seq(Settled')
          /\ Len(Appended(log, y)) >= 1 /\ Appended(log, y) # <<>>
          /\ Appended(log, y)[Len(Appended(log, y))] = y
          /\ \A i \in 1..(Len(Appended(log, y)) - 1) :
                /\ i + Dropped(log) \in 1..Len(log)
                /\ Appended(log, y)[i] = log[i + Dropped(log)]
      BY <1>0, <1>1, AppendedIs, ZenonT(60)
    <3>2. QED
      BY <1>4, <3>1
  <2>2. OutcomeIsLogged'
    BY <1>0, <1>4, <2>1 DEF OutcomeIsLogged
  <2>3. ASSUME NEW i \in DOMAIN log', NEW j \in DOMAIN log', i < j, log'[i] \in TerminalStatus
        PROVE  log'[j] = "created"
    <3>1. Dropped(log) \in {0, 1}
      BY DEF Dropped
    <3>2. DOMAIN log' = 1..Len(log') /\ Len(log') \in Nat /\ DOMAIN log = 1..Len(log)
          /\ Len(log) \in Nat
      BY <1>0, <2>1
    <3>3. i \in 1..(Len(log') - 1) /\ i \in Nat /\ j \in Nat
      BY <2>3, <3>2
    <3>4. i + Dropped(log) \in 1..Len(log) /\ log[i + Dropped(log)] \in TerminalStatus
      BY <2>1, <2>3, <3>3
    <3>5. CASE j = Len(log')
      <4>1. log[i + Dropped(log)] \in Settled
        BY <1>0, <3>2, <3>4
      <4>2. y = "created"
        BY <1>4, <3>4, <4>1 DEF Settled
      <4>3. QED
        BY <2>1, <3>5, <4>2
    <3>6. CASE j # Len(log')
      <4>1. j \in 1..(Len(log') - 1)
        BY <2>3, <3>2, <3>3, <3>6
      <4>2. j + Dropped(log) \in 1..Len(log) /\ log'[j] = log[j + Dropped(log)] /\ i + Dropped(log) < j + Dropped(log)
        BY <2>1, <2>3, <3>1, <3>3, <4>1
      <4>3. QED
        BY <1>0, <3>2, <3>4, <4>2 DEF NothingRunsAfterOutcome
    <3>7. QED
      BY <3>5, <3>6
  <2>4. NothingRunsAfterOutcome'
    BY <2>3 DEF NothingRunsAfterOutcome
  <2>5. QED
    BY <2>1, <2>2, <2>4
<1>5. QED
  BY <1>2, <1>3, <1>4, LogChanges

\* What is delivered, buffered or to be replayed is the log's.
LEMMA EventsStep ==
    ASSUME ChannelInv, OutcomeInv, [Next]_vars
    PROVE  EventsHold'
<1> USE DEF taskVars, runVars, readerVars, chanVars
<1>0. /\ log \in Seq(Settled) /\ Settled \subseteq Settled'
      /\ \A e \in Emitters : out[e].event \in Settled'
      /\ \A r \in Readers : chan[r] \in Seq(Settled') /\ backlog[r] \in Seq(Settled')
      /\ log \in Seq(Settled')
  <2>1. /\ log \in Seq(Settled) /\ Settled \subseteq Settled'
        /\ \A e \in Emitters : out[e].event \in Settled
        /\ \A r \in Readers : chan[r] \in Seq(Settled) /\ backlog[r] \in Seq(Settled)
    BY OutcomeStays DEF OutcomeInv, EventsHold
  <2>2. Seq(Settled) \subseteq Seq(Settled')
    BY <2>1
  <2>3. QED
    BY <2>1, <2>2
<1>1. log' \in Seq(Settled')
  BY LogStep
<1>2. TypeOK
  BY DEF ChannelInv
<1>3. ASSUME NEW e \in Emitters, NEW x \in EventType, NEW t \in BOOLEAN, Emit(e, x, t),
             x \in Settled', UNCHANGED <<chan, backlog>>
      PROVE  EventsHold'
  <2>1. \A f \in Emitters :
           out'[f] = IF f = e THEN [to |-> registered, event |-> x, terminal |-> t,
                                    closing |-> None]
                     ELSE out[f]
    BY <1>2, <1>3, EmitEffect
  <2>2. \A f \in Emitters : out'[f].event \in Settled'
    BY <1>0, <1>3, <2>1
  <2>3. QED
    BY <1>0, <1>1, <1>3, <2>2 DEF EventsHold
<1>4. ASSUME UNCHANGED <<out, chan, backlog>>
      PROVE  EventsHold'
  BY <1>0, <1>1, <1>4 DEF EventsHold
<1>5. {"created", "started", "runtime"} \subseteq Settled'
  BY DEF Settled, EventType, TerminalStatus
<1>6. CASE Submit
  <2>1. CASE EmitCreated
    <3>1. Emit("submitter", "created", FALSE) /\ UNCHANGED <<chan, backlog>>
      BY <2>1 DEF EmitCreated
    <3>2. QED
      BY <1>3, <1>5, <3>1, EmittersApart DEF EventType
  <2>2. CASE ~EmitCreated
    BY <1>4, <1>6, <2>2
    DEF Submit, SubmitAgentTask, SubmitSquadTask, CheckSubmitted, UpsertSubmitted,
        UpdateSubmitted, ReturnFromSubmit
  <2>3. QED
    BY <2>1, <2>2
<1>7. CASE Run
  <2>1. CASE EmitStarted
    <3>1. Emit("worker", "started", FALSE) /\ UNCHANGED <<chan, backlog>>
      BY <2>1 DEF EmitStarted
    <3>2. QED
      BY <1>3, <1>5, <3>1, EmittersApart DEF EventType
  <2>2. CASE EmitOutcome
    <3>1. Emit("worker", Outcome, TRUE) /\ UNCHANGED <<chan, backlog>>
          /\ wpc = "emitEnd" /\ wpc' = "done"
      BY <2>2 DEF EmitOutcome
    <3>2. Outcome' = Outcome
      BY <3>1, OutcomeStays DEF OverStates
    <3>3. Outcome \in EventType /\ Outcome \in Settled'
      BY <3>1, <3>2, OutcomeIsFinal DEF Settled, EventType
    <3>4. QED
      BY <1>3, <3>1, <3>3, EmittersApart
  <2>3. CASE ~EmitStarted /\ ~EmitOutcome
    BY <1>4, <1>7, <2>3
    DEF Run, StartSharedTask, CheckStarted, UpsertStarted, MarkRunning, RecordOutcome,
        FinishAsyncTask
  <2>4. QED
    BY <2>1, <2>2, <2>3
<1>8. ASSUME NEW a \in Agents, Forward(a)
      PROVE  EventsHold'
  <2>1. CASE ForwardRuntimeEvent(a)
    <3>1. Emit(a, "runtime", FALSE) /\ UNCHANGED <<chan, backlog>> /\ a \in Emitters
      BY <2>1, EmittersApart DEF ForwardRuntimeEvent
    <3>2. QED
      BY <1>3, <1>5, <3>1 DEF EventType
  <2>2. CASE \E res \in {"ok", "failed"} : AgentDone(a, res)
    BY <1>4, <2>2 DEF AgentDone
  <2>3. QED
    BY <1>8, <2>1, <2>2 DEF Forward
<1>9. ASSUME NEW e \in Emitters, Send(e)
      PROVE  EventsHold'
  <2>1. /\ \A f \in Emitters : out'[f].event = out[f].event
        /\ backlog' = backlog
        /\ \/ chan' = chan
           \/ \E r \in Readers : chan' = [chan EXCEPT ![r] = Append(@, out[e].event)]
    <3>1. out \in [Emitters -> Delivery] /\ out[e] \in Delivery
      BY <1>2 DEF TypeOK
    <3>2. PICK r \in Readers : Deliver(e, r) \/ CloseAfter(e, r)
      BY <1>9 DEF Send
    <3>3. /\ \A f \in Emitters : f # e => out'[f] = out[f]
          /\ out'[e].event = out[e].event
      <4>1. CASE Deliver(e, r)
        BY <3>1, <4>1 DEF Deliver, Delivery
      <4>2. CASE CloseAfter(e, r)
        BY <3>1, <4>2 DEF CloseAfter, Delivery
      <4>3. QED
        BY <3>2, <4>1, <4>2
    <3>4. /\ backlog' = backlog
          /\ chan' = chan \/ chan' = [chan EXCEPT ![r] = Append(@, out[e].event)]
      BY <3>2 DEF Deliver, CloseAfter
    <3>5. QED
      BY <3>3, <3>4
  <2>2. \A r \in Readers : chan'[r] = chan[r] \/ chan'[r] = Append(chan[r], out[e].event)
    BY <1>2, <2>1 DEF TypeOK
  <2>3. \A r \in Readers : Append(chan[r], out[e].event) \in Seq(Settled')
    BY <1>0
  <2>4. \A r \in Readers : chan'[r] \in Seq(Settled')
    BY <1>0, <2>2, <2>3
  <2>5. QED
    BY <1>0, <1>1, <2>1, <2>4 DEF EventsHold
<1>10. ASSUME NEW r \in Readers, Follow(r) \/ GiveUp(r)
       PROVE  EventsHold'
  <2>0. out' = out
    BY <1>10 DEF Follow, GiveUp, SubscribeFinished, SubscribeLive, Replay, Receive, AskTask,
                 Unsubscribe
  <2>1. CASE SubscribeFinished(r)
    <3>1. backlog' = backlog /\ \A q \in Readers : chan'[q] = IF q = r THEN log ELSE chan[q]
      BY <1>2, <2>1 DEF SubscribeFinished, TypeOK
    <3>2. QED
      BY <1>0, <1>1, <2>0, <3>1 DEF EventsHold
  <2>2. CASE SubscribeLive(r)
    <3>1. chan' = chan /\ \A q \in Readers : backlog'[q] = IF q = r THEN log ELSE backlog[q]
      BY <1>2, <2>2 DEF SubscribeLive, TypeOK
    <3>2. QED
      BY <1>0, <1>1, <2>0, <3>1 DEF EventsHold
  <2>3. CASE Replay(r)
    <3>1. /\ \A q \in Readers : backlog'[q] = IF q = r THEN Tail(backlog[r]) ELSE backlog[q]
          /\ \A q \in Readers : chan'[q] = chan[q] \/ chan'[q] = Append(chan[q], Head(backlog[r]))
      BY <1>2, <2>3 DEF Replay, TypeOK
    <3>2. backlog[r] # <<>>
      BY <2>3 DEF Replay, ChannelInv, ReplayHasBacklog
    <3>3. Tail(backlog[r]) \in Seq(Settled') /\ Head(backlog[r]) \in Settled'
      BY <1>0, <3>2
    <3>4. \A q \in Readers : Append(chan[q], Head(backlog[r])) \in Seq(Settled')
      BY <1>0, <3>3
    <3>5. QED
      BY <1>0, <1>1, <2>0, <3>1, <3>3, <3>4 DEF EventsHold
  <2>4. CASE Receive(r)
    <3>1. /\ backlog' = backlog
          /\ \A q \in Readers :
                chan'[q] = IF q = r /\ chan[r] # <<>> THEN Tail(chan[r]) ELSE chan[q]
      BY <1>2, <2>4 DEF Receive, TypeOK
    <3>2. chan[r] # <<>> => Tail(chan[r]) \in Seq(Settled')
      BY <1>0
    <3>3. QED
      BY <1>0, <1>1, <2>0, <3>1, <3>2 DEF EventsHold
  <2>5. CASE AskTask(r) \/ Unsubscribe(r) \/ GiveUp(r)
    BY <1>4, <2>0, <2>5 DEF AskTask, Unsubscribe, GiveUp
  <2>6. QED
    BY <1>10, <2>1, <2>2, <2>3, <2>4, <2>5 DEF Follow
<1>11. CASE UNCHANGED vars
  BY <1>4, <1>11 DEF vars
<1>12. QED
  BY <1>6, <1>7, <1>8, <1>9, <1>10, <1>11 DEF Next

\* A reader of an agent's task asks for the result when it is final.
LEMMA ReadersStep ==
    ASSUME ChannelInv, OutcomeInv, [Next]_vars
    PROVE  ReadersAskInTime' /\ WaiterFindsOutcome'
<1> USE DEF taskVars, runVars, readerVars, chanVars
<1>0. /\ ReadersAskInTime /\ WaiterFindsOutcome /\ StatusesHold /\ EventsHold
      /\ TypeOK /\ LastEventIsWorkers /\ IdleReadersAreUnknown
      /\ kind' = kind
      /\ wpc \in {"emitEnd", "done"} => wpc' \in {"emitEnd", "done"}
  BY OutcomeStays DEF ChannelInv, OutcomeInv
<1>1. ASSUME UNCHANGED <<rpc, closed, result>>
      PROVE  ReadersAskInTime' /\ WaiterFindsOutcome'
  BY <1>0, <1>1 DEF ReadersAskInTime, WaiterFindsOutcome
<1>2. CASE Submit
  BY <1>1, <1>2
  DEF Submit, SubmitAgentTask, SubmitSquadTask, CheckSubmitted, UpsertSubmitted,
      UpdateSubmitted, EmitCreated, ReturnFromSubmit
<1>3. CASE Run
  BY <1>1, <1>3
  DEF Run, StartSharedTask, CheckStarted, UpsertStarted, MarkRunning, EmitStarted,
      RecordOutcome, FinishAsyncTask, EmitOutcome
<1>4. CASE \E a \in Agents : Forward(a)
  BY <1>1, <1>4 DEF Forward, ForwardRuntimeEvent, AgentDone
<1>5. ASSUME NEW e \in Emitters, Send(e)
      PROVE  ReadersAskInTime' /\ WaiterFindsOutcome'
  <2>1. PICK r \in Readers : Deliver(e, r) \/ CloseAfter(e, r)
    BY <1>5 DEF Send
  <2>2. CASE Deliver(e, r)
    BY <1>1, <2>2 DEF Deliver
  <2>3. CASE CloseAfter(e, r)
    <3>1. out[e].closing = r /\ r # None
      BY <2>3, ReadersAssumption DEF CloseAfter
    <3>2. wpc = "done"
      BY <1>0, <3>1 DEF LastEventIsWorkers
    <3>3. UNCHANGED <<rpc, result>>
      BY <2>3 DEF CloseAfter
    <3>4. QED
      BY <1>0, <3>2, <3>3 DEF ReadersAskInTime, WaiterFindsOutcome
  <2>4. QED
    BY <2>1, <2>2, <2>3
<1>6. ASSUME NEW r \in Readers, Follow(r) \/ GiveUp(r)
      PROVE  ReadersAskInTime' /\ WaiterFindsOutcome'
  <2>w. wpc' = wpc
    BY <1>6 DEF Follow, GiveUp, SubscribeFinished, SubscribeLive, Replay, Receive, AskTask,
                Unsubscribe
  <2>t. /\ rpc \in [Readers -> {"idle", "replay", "read", "ask", "leave", "done"}]
        /\ closed \in [Readers -> BOOLEAN]
        /\ result \in [Readers -> TaskStatus \cup {"absent"}]
    BY <1>0 DEF TypeOK
  <2>a. ASSUME kind = "agent" => wpc \in {"emitEnd", "done"},
               result' = result \/ result' = [result EXCEPT ![r] = status]
        PROVE  ReadersAskInTime' /\ WaiterFindsOutcome'
    <3>1. kind = "agent" => status \in TerminalStatus
      BY <1>0, <2>a, OutcomeIsFinal DEF StatusesHold
    <3>2. \A q \in Readers : result'[q] = result[q] \/ result'[q] = status
      BY <2>a, <2>t
    <3>3. QED
      BY <1>0, <2>a, <2>w, <3>1, <3>2 DEF ReadersAskInTime, WaiterFindsOutcome
  <2>b. ASSUME result' = result,
               \A q \in Readers :
                   (rpc'[q] = "ask" \/ (closed'[q] /\ rpc'[q] \in {"replay", "read"}))
                     => (rpc[q] = "ask" \/ (closed[q] /\ rpc[q] \in {"replay", "read"}))
        PROVE  ReadersAskInTime' /\ WaiterFindsOutcome'
    BY <1>0, <2>b, <2>w DEF ReadersAskInTime, WaiterFindsOutcome
  <2>1. CASE SubscribeFinished(r)
    <3>1. status \in TerminalStatus /\ result' = result
      BY <2>1 DEF SubscribeFinished, IsTerminal
    <3>2. kind = "agent" => wpc \in {"emitEnd", "done"}
      BY <1>0, <3>1 DEF StatusesHold, StatusHolds, OverStates
    <3>3. QED
      BY <2>a, <3>1, <3>2
  <2>2. CASE SubscribeLive(r)
    <3>1. ~closed[r] /\ UNCHANGED <<result, closed>>
      BY <1>0, <2>2 DEF SubscribeLive, IdleReadersAreUnknown
    <3>2. \A q \in Readers : q # r => rpc'[q] = rpc[q]
      BY <2>2, <2>t DEF SubscribeLive
    <3>3. rpc'[r] # "ask"
      BY <2>2, <2>t DEF SubscribeLive
    <3>4. QED
      BY <2>b, <3>1, <3>2, <3>3
  <2>3. CASE Replay(r)
    <3>1. rpc[r] = "replay" /\ UNCHANGED <<result, closed>>
      BY <2>3 DEF Replay
    <3>2. /\ \A q \in Readers : q # r => rpc'[q] = rpc[q]
          /\ rpc'[r] \in {"read", "replay"}
      BY <2>3, <2>t, <3>1 DEF Replay
    <3>3. QED
      BY <2>b, <3>1, <3>2
  <2>4. CASE Receive(r)
    <3>1. /\ rpc[r] = "read" /\ UNCHANGED <<result, closed>>
          /\ \A q \in Readers : q # r => rpc'[q] = rpc[q]
      BY <2>4, <2>t DEF Receive
    <3>2. CASE rpc'[r] = "ask"
      <4>1. closed[r] \/ (chan[r] # <<>> /\ Head(chan[r]) \in TerminalStatus)
        BY <2>4, <2>t, <3>1, <3>2 DEF Receive, IsTerminal
      <4>2. chan[r] # <<>> => Head(chan[r]) \in Settled
        BY <1>0 DEF EventsHold
      <4>3. kind = "agent" => wpc \in {"emitEnd", "done"}
        BY <1>0, <3>1, <4>1, <4>2 DEF ReadersAskInTime, Settled
      <4>4. QED
        BY <2>a, <3>1, <4>3
    <3>3. CASE rpc'[r] # "ask"
      BY <2>b, <3>1, <3>3
    <3>4. QED
      BY <3>2, <3>3
  <2>5. CASE AskTask(r)
    <3>1. rpc[r] = "ask" /\ result' = [result EXCEPT ![r] = status]
      BY <2>5 DEF AskTask
    <3>2. kind = "agent" => wpc \in {"emitEnd", "done"}
      BY <1>0, <3>1 DEF ReadersAskInTime
    <3>3. QED
      BY <2>a, <3>1, <3>2
  <2>6. CASE Unsubscribe(r) \/ GiveUp(r)
    <3>1. /\ result' = result /\ rpc'[r] \in {"done", "leave"}
          /\ \A q \in Readers : q # r => rpc'[q] = rpc[q] /\ closed'[q] = closed[q]
      BY <2>6, <2>t DEF Unsubscribe, GiveUp
    <3>2. QED
      BY <2>b, <3>1
  <2>7. QED
    BY <1>6, <2>1, <2>2, <2>3, <2>4, <2>5, <2>6 DEF Follow
<1>7. CASE UNCHANGED vars
  BY <1>1, <1>7 DEF vars
<1>8. QED
  BY <1>2, <1>3, <1>4, <1>5, <1>6, <1>7 DEF Next

LEMMA OutcomeStep == ChannelInv /\ OutcomeInv /\ [Next]_vars => OutcomeInv'
  BY EventsStep, StatusesStep, ReadersStep, LogStep DEF OutcomeInv

\* The log, the entry, the shared task and the results that readers get tell the
\* same outcome, and nothing of the execution is logged after it
\* (async_tasks.go:250-467, runAsyncAgentTask and executeSharedTaskStream).
THEOREM OutcomeStaysTold == Spec => []OutcomeIsTold
<1>1. OutcomeInv => OutcomeIsTold
  <2> SUFFICES ASSUME OutcomeInv PROVE OutcomeIsRecorded
    BY DEF OutcomeIsTold, OutcomeInv
  <2>1. ASSUME NEW o \in TerminalStatus, kind = "squad",
               status = o \/ o \in Range(log) \/ \E r \in Readers : o \in Range(chan[r])
        PROVE  shared = o
    <3>1. /\ log \in Seq(Settled) /\ (\A r \in Readers : chan[r] \in Seq(Settled))
          /\ StatusHolds(status) /\ (wpc \in OverStates => shared = Outcome)
      BY <2>1 DEF OutcomeInv, EventsHold, StatusesHold
    <3>2. CASE status = o
      BY <2>1, <3>1, <3>2 DEF StatusHolds
    <3>3. o \in Settled => shared = o
      BY <2>1, <3>1 DEF Settled, OverStates
    <3>4. CASE o \in Range(log)
      <4>1. Range(log) \subseteq Settled
        BY <3>1 DEF Range
      <4>2. QED
        BY <3>3, <3>4, <4>1
    <3>5. CASE \E r \in Readers : o \in Range(chan[r])
      <4>1. \A r \in Readers : Range(chan[r]) \subseteq Settled
        BY <3>1 DEF Range
      <4>2. QED
        BY <3>3, <3>5, <4>1
    <3>6. QED
      BY <2>1, <3>2, <3>4, <3>5
  <2>2. QED
    BY <2>1 DEF OutcomeIsRecorded
<1>2. QED
  BY <1>1, ChannelStart, ChannelStep, OutcomeStart, OutcomeStep, PTL DEF Spec

\* Nobody but a late submitter of a squad task takes an outcome back
\* (async_tasks_helpers.go:16-19 and 76).
THEOREM OutcomeIsFinalUnlessLate == Spec => FinalUnlessLateUpsert
<1>1. ASSUME ChannelInv, OutcomeInv, [Next]_vars
      PROVE  (status \in TerminalStatus /\ status' # status) => spc = "upsert"
  <2> SUFFICES ASSUME status \in TerminalStatus, status' # status
               PROVE  spc = "upsert"
    OBVIOUS
  <2> USE DEF taskVars, runVars, readerVars, chanVars
  <2>1. wpc \in OverStates /\ status = Outcome /\ PhasesFit
    BY <1>1 DEF ChannelInv, OutcomeInv, StatusesHold, StatusHolds
  <2>2. CASE Submit
    <3>1. ~SubmitAgentTask
      BY <2>1 DEF SubmitAgentTask, PhasesFit, OverStates
    <3>2. QED
      BY <2>2, <3>1
      DEF Submit, SubmitSquadTask, CheckSubmitted, UpsertSubmitted, UpdateSubmitted,
          EmitCreated, Emit, ReturnFromSubmit, SetStatus, StatusOfExisting
  <2>3. CASE Run
    BY <2>1, <2>3
    DEF Run, StartSharedTask, CheckStarted, UpsertStarted, MarkRunning, EmitStarted,
        RecordOutcome, FinishAsyncTask, EmitOutcome, Emit, SetStatus, OverStates
  <2>4. CASE \E a \in Agents : Forward(a)
    BY <2>4 DEF Forward, ForwardRuntimeEvent, AgentDone, Emit
  <2>5. CASE \E e \in Emitters : Send(e)
    BY <2>5 DEF Send, Deliver, CloseAfter
  <2>6. CASE \E r \in Readers : Follow(r) \/ GiveUp(r)
    BY <2>6 DEF Follow, GiveUp, SubscribeFinished, SubscribeLive, Replay, Receive, AskTask,
                Unsubscribe
  <2>7. CASE UNCHANGED vars
    BY <2>7 DEF vars
  <2>8. QED
    BY <1>1, <2>2, <2>3, <2>4, <2>5, <2>6, <2>7 DEF Next
<1>2. QED
  BY <1>1, ChannelStart, ChannelStep, OutcomeStart, OutcomeStep, PTL
  DEF Spec, FinalUnlessLateUpsert
=============================================================================
