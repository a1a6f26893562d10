------------------------------ MODULE PoolsProofs ------------------------------
(***************************************************************************)
(* Proofs about the circuit breaker, the pool of providers, the pool of    *)
(* clients and the cache kept in files, for any providers, clients, keys,  *)
(* callers or processes, limits and bounds.                                *)
(***************************************************************************)
EXTENDS CircuitBreaker, ProviderPool, ClientPool, FileCache, FiniteSetTheorems,
        SequenceTheorems, TLAPS

-----------------------------------------------------------------------------
(* The circuit breaker *)

\* Who may half-open the breaker read so when its recovery time was over, and
\* only a failure since then has started that time anew.
AskersSawRecovery == \A a \in asking : recovered \/ a \in overtook

BreakerInductive == BreakerTypeOK /\ ClosedIsBelowThreshold /\ AskersSawRecovery

\* The breaker starts closed, and every step keeps what is stated together.
LEMMA BreakerStep ==
    /\ BreakerInit => BreakerInductive
    /\ BreakerInductive /\ [BreakerNext]_breakerVars => BreakerInductive'
<1> USE BreakerAssumption
    DEF BreakerInductive, BreakerTypeOK, ClosedIsBelowThreshold, AskersSawRecovery
<1>1. BreakerInit => BreakerInductive
  BY DEF BreakerInit
<1>2. ASSUME BreakerInductive, [BreakerNext]_breakerVars
      PROVE  BreakerInductive'
  <2>1. CASE RecordSuccess
    BY <1>2, <2>1 DEF RecordSuccess, FailsAfterSuccess
  <2>2. CASE RecordFailure
    <3>1. /\ consecutiveFails' = consecutiveFails + 1
          /\ consecutiveFails' \in 0..FailureThreshold + MaxBeyond
          /\ breaker' = IF consecutiveFails' >= FailureThreshold THEN "open" ELSE breaker
          /\ recovered' = FALSE /\ asking' = asking /\ overtook' = asking
      BY <1>2, <2>2 DEF RecordFailure
    <3>2. breaker' = "closed" => consecutiveFails' < FailureThreshold
      BY <3>1
    <3>3. QED
      BY <1>2, <3>1, <3>2
  <2>3. CASE RecoveryTimePasses
    BY <1>2, <2>3 DEF RecoveryTimePasses
  <2>4. ASSUME NEW a \in Askers, FindsOpen(a)
        PROVE  BreakerInductive'
    BY <1>2, <2>4 DEF FindsOpen, MayTryAgain
  <2>5. ASSUME NEW a \in Askers, HalfOpens(a)
        PROVE  BreakerInductive'
    BY <1>2, <2>5 DEF HalfOpens
  <2>6. CASE UNCHANGED breakerVars
    BY <1>2, <2>6 DEF breakerVars
  <2>7. QED
    BY <1>2, <2>1, <2>2, <2>3, <2>4, <2>5, <2>6 DEF BreakerNext
<1>3. QED
  BY <1>1, <1>2

\* A closed breaker is below its threshold, and an open one is tried again
\* after its recovery time only, or by a caller that a failure has overtaken,
\* however RecordFailure, RecordSuccess and the two halves of CanRequest are
\* interleaved (pool_enhanced.go:160-216).
THEOREM BreakerIsCorrect == BreakerSpec => BreakerCorrect
<1>1. BreakerInductive /\ [BreakerNext]_breakerVars
        => [(breaker # "halfOpen" /\ breaker' = "halfOpen")
                => recovered \/ overtook # {}]_breakerVars
  <2> SUFFICES ASSUME BreakerInductive, BreakerNext,
                      breaker # "halfOpen", breaker' = "halfOpen"
               PROVE  recovered \/ overtook # {}
    OBVIOUS
  <2>1. PICK a \in Askers : HalfOpens(a)
    BY DEF BreakerNext, RecordSuccess, RecordFailure, RecoveryTimePasses, FindsOpen
  <2>2. QED
    BY <2>1 DEF HalfOpens, BreakerInductive, AskersSawRecovery
<1>2. BreakerInductive => BreakerTypeOK /\ ClosedIsBelowThreshold
  BY DEF BreakerInductive
<1>3. BreakerInit => BreakerInductive
  BY BreakerStep
<1>4. BreakerInductive /\ [BreakerNext]_breakerVars => BreakerInductive'
  BY BreakerStep
<1>5. QED
  BY <1>1, <1>2, <1>3, <1>4, PTL DEF BreakerSpec, BreakerCorrect, TriedAgainAfterRecovery
-----------------------------------------------------------------------------
(* The pool of providers *)

\* The requests a provider is serving.
Served(p) == {r \in LLMRequests : reqPc[r] = "call" /\ chosen[r] = p}

\* Without health checks nobody probes.
ProbedIfChecked == ~poolConfig.checked => probing = {}

ProviderPoolInductive == ProviderPoolInv /\ ProbedIfChecked

LEMMA AnyProviderIsOne == AnyProvider \in Providers
  BY ProviderPoolAssumption DEF AnyProvider

\* No provider serves more requests than there are.
LEMMA ServedCounted ==
    ASSUME NEW p \in Providers
    PROVE  /\ IsFiniteSet(Served(p))
           /\ Cardinality(Served(p)) \in 0..Cardinality(LLMRequests)
<1>1. IsFiniteSet(Served(p)) /\ Cardinality(Served(p)) <= Cardinality(LLMRequests)
  BY ProviderPoolAssumption, FS_Subset DEF Served
<1>2. Cardinality(Served(p)) \in Nat /\ Cardinality(LLMRequests) \in Nat
  BY <1>1, ProviderPoolAssumption, FS_CardinalityType
<1>3. QED
  BY <1>1, <1>2

\* The same, of the state after a step.
LEMMA ServedCountedThen ==
    ASSUME NEW p \in Providers
    PROVE  /\ IsFiniteSet(Served(p)')
           /\ Cardinality(Served(p)') \in 0..Cardinality(LLMRequests)
<1>1. IsFiniteSet(Served(p)') /\ Cardinality(Served(p)') <= Cardinality(LLMRequests)
  BY ProviderPoolAssumption, FS_Subset DEF Served
<1>2. Cardinality(Served(p)') \in Nat /\ Cardinality(LLMRequests) \in Nat
  BY <1>1, ProviderPoolAssumption, FS_CardinalityType
<1>3. QED
  BY <1>1, <1>2

\* A step that begins and ends no call leaves the loads right.
LEMMA LoadsUntouched ==
    ASSUME ProviderPoolInv, UNCHANGED activeLoads,
           \A r \in LLMRequests :
               /\ (reqPc'[r] = "call") <=> (reqPc[r] = "call")
               /\ reqPc[r] = "call" => chosen'[r] = chosen[r]
    PROVE  LoadsAreCalls' /\ activeLoads' \in [Providers -> 0..Cardinality(LLMRequests)]
<1>1. \A p \in Providers : {r \in LLMRequests : reqPc'[r] = "call" /\ chosen'[r] = p}
                             = {r \in LLMRequests : reqPc[r] = "call" /\ chosen[r] = p}
  OBVIOUS
<1>2. QED
  BY <1>1 DEF ProviderPoolInv, LoadsAreCalls, ProviderPoolTypeOK

\* A call that begins is one more for its provider.
LEMMA LoadTaken ==
    ASSUME ProviderPoolInv, NEW r \in LLMRequests, NEW p \in Providers,
           reqPc[r] # "call",
           reqPc' = [reqPc EXCEPT ![r] = "call"],
           chosen' = [chosen EXCEPT ![r] = p],
           activeLoads' = [activeLoads EXCEPT ![p] = @ + 1]
    PROVE  LoadsAreCalls' /\ activeLoads' \in [Providers -> 0..Cardinality(LLMRequests)]
<1>1. /\ activeLoads \in [Providers -> 0..Cardinality(LLMRequests)]
      /\ reqPc \in [LLMRequests -> {"idle", "select", "call", "mark", "delay"}]
      /\ chosen \in [LLMRequests -> Providers]
      /\ \A q \in Providers : activeLoads[q] = Cardinality(Served(q))
  BY DEF ProviderPoolInv, ProviderPoolTypeOK, LoadsAreCalls, Served
<1>2. \A q \in Providers : Served(q)' = IF q = p THEN Served(q) \cup {r} ELSE Served(q)
  BY <1>1 DEF Served
<1>3. r \notin Served(p)
  BY DEF Served
<1>4. Cardinality(Served(p) \cup {r}) = Cardinality(Served(p)) + 1
  BY <1>3, ServedCounted, FS_AddElement
<1>5. \A q \in Providers : activeLoads'[q] = Cardinality(Served(q)')
  BY <1>1, <1>2, <1>4
<1>6. \A q \in Providers : activeLoads'[q] \in 0..Cardinality(LLMRequests)
  BY <1>5, ServedCountedThen
<1>7. activeLoads' \in [Providers -> 0..Cardinality(LLMRequests)]
  BY <1>1, <1>6
<1>8. QED
  BY <1>5, <1>7 DEF LoadsAreCalls, Served

\* A call that ends is one less for its provider, whatever becomes of the
\* request.
LEMMA LoadGivenBack ==
    ASSUME ProviderPoolInv, NEW r \in LLMRequests, NEW to \in {"idle", "mark"},
           reqPc[r] = "call",
           reqPc' = [reqPc EXCEPT ![r] = to],
           \A s \in LLMRequests : s # r => chosen'[s] = chosen[s],
           activeLoads' = [activeLoads EXCEPT ![chosen[r]] = activeLoads[chosen[r]] - 1]
    PROVE  LoadsAreCalls' /\ activeLoads' \in [Providers -> 0..Cardinality(LLMRequests)]
<1>1. /\ activeLoads \in [Providers -> 0..Cardinality(LLMRequests)]
      /\ reqPc \in [LLMRequests -> {"idle", "select", "call", "mark", "delay"}]
      /\ chosen \in [LLMRequests -> Providers]
      /\ \A q \in Providers : activeLoads[q] = Cardinality(Served(q))
  BY DEF ProviderPoolInv, ProviderPoolTypeOK, LoadsAreCalls, Served
<1>2. \A q \in Providers :
          Served(q)' = IF q = chosen[r] THEN Served(q) \ {r} ELSE Served(q)
  BY <1>1 DEF Served
<1>3. r \in Served(chosen[r]) /\ chosen[r] \in Providers
  BY <1>1 DEF Served
<1>4. Cardinality(Served(chosen[r]) \ {r}) = Cardinality(Served(chosen[r])) - 1
  BY <1>3, ServedCounted, FS_RemoveElement
<1>5. \A q \in Providers : activeLoads'[q] = Cardinality(Served(q)')
  BY <1>1, <1>2, <1>4
<1>6. \A q \in Providers : activeLoads'[q] \in 0..Cardinality(LLMRequests)
  BY <1>5, ServedCountedThen
<1>7. activeLoads' \in [Providers -> 0..Cardinality(LLMRequests)]
  BY <1>1, <1>6
<1>8. QED
  BY <1>5, <1>7 DEF LoadsAreCalls, Served

\* The loads of a pool that starts.
LEMMA PoolStart == ProviderPoolInit => ProviderPoolInductive
<1> SUFFICES ASSUME ProviderPoolInit PROVE ProviderPoolInductive
  OBVIOUS
<1> USE ProviderPoolAssumption, AnyProviderIsOne DEF ProviderPoolInit
<1>1. \A p \in Providers : Served(p) = {}
  BY DEF Served
<1>2. Cardinality(LLMRequests) \in Nat
  BY FS_CardinalityType
<1>3. LoadsAreCalls
  BY <1>1, FS_EmptySet DEF LoadsAreCalls, Served
<1>4. /\ 0 \in 0..Cardinality(LLMRequests)
      /\ 0 \in 0..MaxTimers /\ 0 \in 0..MaxRetries
  BY <1>2
<1>5. /\ activeLoads \in [Providers -> 0..Cardinality(LLMRequests)]
      /\ timers \in [Providers -> 0..MaxTimers]
      /\ attempt \in [LLMRequests -> 0..MaxRetries]
  BY <1>4
<1>6. ProviderPoolTypeOK
  BY <1>5 DEF ProviderPoolTypeOK
<1>7. QED
  BY <1>3, <1>6
  DEF ProviderPoolInductive, ProviderPoolInv, ProbedIfChecked, OutOnlyForAWhile, FailedIsAvoided
\* A step keeps the invariant if it keeps the types of what it changes, the
\* loads, and the two parts about health.
LEMMA PoolStep == ProviderPoolInductive /\ [ProviderPoolNext]_providerVars => ProviderPoolInductive'
<1> SUFFICES ASSUME ProviderPoolInductive, [ProviderPoolNext]_providerVars
             PROVE  ProviderPoolInductive'
  OBVIOUS
<1> USE ProviderPoolAssumption, AnyProviderIsOne DEF healthVars, checkVars, requestVars
<1>0. /\ ProviderPoolInv /\ ProviderPoolTypeOK /\ LoadsAreCalls
      /\ OutOnlyForAWhile /\ FailedIsAvoided /\ ProbedIfChecked
  BY DEF ProviderPoolInductive, ProviderPoolInv
<1> DEFINE LoadType == activeLoads \in [Providers -> 0..Cardinality(LLMRequests)]
           Rest == /\ poolConfig \in PoolConfigs
                   /\ healthy \in [Providers -> BOOLEAN]
                   /\ timers \in [Providers -> 0..MaxTimers]
                   /\ probing \subseteq Providers
                   /\ cancelled \in BOOLEAN
                   /\ reqPc \in [LLMRequests -> {"idle", "select", "call", "mark", "delay"}]
                   /\ attempt \in [LLMRequests -> 0..MaxRetries]
                   /\ chosen \in [LLMRequests -> Providers]
                   /\ failedIt \in [LLMRequests -> SUBSET Providers]
<1>t. Rest
  BY <1>0 DEF ProviderPoolTypeOK
<1>g. ASSUME Rest', LoadType', LoadsAreCalls', OutOnlyForAWhile', FailedIsAvoided',
             ProbedIfChecked'
      PROVE  ProviderPoolInductive'
  BY <1>g DEF ProviderPoolInductive, ProviderPoolInv, ProviderPoolTypeOK
<1> HIDE DEF LoadType
<1>1. ASSUME NEW r \in LLMRequests, StartRequest(r)
      PROVE  ProviderPoolInductive'
  <2>1. LoadsAreCalls' /\ LoadType'
    BY <1>0, <1>1, <1>t, LoadsUntouched DEF StartRequest, LoadType
  <2>2. Rest'
    BY <1>t, <1>1 DEF StartRequest
  <2>3. OutOnlyForAWhile' /\ FailedIsAvoided' /\ ProbedIfChecked'
    BY <1>0, <1>1 DEF StartRequest, OutOnlyForAWhile, FailedIsAvoided, ProbedIfChecked
  <2>4. QED
    BY <1>g, <2>1, <2>2, <2>3
<1>2. ASSUME NEW r \in LLMRequests, NEW p \in Providers, SelectProvider(r, p)
      PROVE  ProviderPoolInductive'
  <2>1. LoadsAreCalls' /\ LoadType'
    BY <1>0, <1>2, LoadTaken DEF SelectProvider, LoadType
  <2>2. Rest'
    BY <1>t, <1>2 DEF SelectProvider
  <2>3. OutOnlyForAWhile' /\ FailedIsAvoided' /\ ProbedIfChecked'
    BY <1>0, <1>2 DEF SelectProvider, OutOnlyForAWhile, FailedIsAvoided, ProbedIfChecked
  <2>4. QED
    BY <1>g, <2>1, <2>2, <2>3
<1>e. ASSUME NEW r \in LLMRequests, Ended(r)
      PROVE  /\ reqPc' = [reqPc EXCEPT ![r] = "idle"]
             /\ attempt' \in [LLMRequests -> 0..MaxRetries]
             /\ chosen' \in [LLMRequests -> Providers]
             /\ \A s \in LLMRequests : s # r => chosen'[s] = chosen[s]
             /\ failedIt' \in [LLMRequests -> SUBSET Providers]
             /\ failedIt'[r] = {}
             /\ \A s \in LLMRequests : s # r => failedIt'[s] = failedIt[s]
  BY <1>t, <1>e DEF Ended
<1>a. ASSUME NEW r \in LLMRequests, NEW failed \in SUBSET Providers, AttemptFailed(r, failed)
      PROVE  /\ \E to \in {"idle", "delay"} : reqPc' = [reqPc EXCEPT ![r] = to]
             /\ attempt' \in [LLMRequests -> 0..MaxRetries]
             /\ chosen' \in [LLMRequests -> Providers]
             /\ \A s \in LLMRequests : s # r => chosen'[s] = chosen[s]
             /\ failedIt' \in [LLMRequests -> SUBSET Providers]
             /\ failedIt'[r] \subseteq failed
             /\ \A s \in LLMRequests : s # r => failedIt'[s] = failedIt[s]
  <2>1. CASE attempt[r] = MaxRetries
    BY <1>e, <1>a, <2>1 DEF AttemptFailed
  <2>2. CASE attempt[r] # MaxRetries
    <3>1. /\ attempt' = [attempt EXCEPT ![r] = attempt[r] + 1]
          /\ attempt[r] + 1 \in 0..MaxRetries
      BY <1>t, <1>a, <2>2 DEF AttemptFailed
    <3>2. attempt' \in [LLMRequests -> 0..MaxRetries]
      BY <1>t, <3>1
    <3>3. QED
      BY <1>t, <1>a, <2>2, <3>2 DEF AttemptFailed
  <2>3. QED
    BY <2>1, <2>2
<1>3. ASSUME NEW r \in LLMRequests, NoneHealthy(r)
      PROVE  ProviderPoolInductive'
  <2>1. AttemptFailed(r, failedIt[r]) /\ failedIt[r] \in SUBSET Providers
    BY <1>3, <1>t DEF NoneHealthy
  <2>2. Rest'
    BY <1>t, <1>3, <1>a, <2>1 DEF NoneHealthy
  <2>3. LoadsAreCalls' /\ LoadType'
    BY <1>0, <1>3, <1>t, <1>a, <2>1, LoadsUntouched DEF NoneHealthy, LoadType
  <2>4. OutOnlyForAWhile' /\ FailedIsAvoided' /\ ProbedIfChecked'
    BY <1>0, <1>3, <1>a, <2>1 DEF NoneHealthy, OutOnlyForAWhile, FailedIsAvoided, ProbedIfChecked
  <2>5. QED
    BY <1>g, <2>2, <2>3, <2>4
<1>4. ASSUME NEW r \in LLMRequests, CallSucceeds(r)
      PROVE  ProviderPoolInductive'
  <2>1. Ended(r)
    BY <1>4 DEF CallSucceeds
  <2>2. Rest'
    BY <1>t, <1>4, <1>e, <2>1 DEF CallSucceeds
  <2>3. LoadsAreCalls' /\ LoadType'
    BY <1>0, <1>4, <1>e, <2>1, LoadGivenBack DEF CallSucceeds, LoadAfter, LoadType
  <2>4. OutOnlyForAWhile' /\ FailedIsAvoided' /\ ProbedIfChecked'
    BY <1>0, <1>4, <1>e, <2>1
    DEF CallSucceeds, OutOnlyForAWhile, FailedIsAvoided, ProbedIfChecked
  <2>5. QED
    BY <1>g, <2>2, <2>3, <2>4
<1>5. ASSUME NEW r \in LLMRequests, CallFails(r)
      PROVE  ProviderPoolInductive'
  <2>1. Rest'
    BY <1>t, <1>5 DEF CallFails
  <2>2. LoadsAreCalls' /\ LoadType'
    BY <1>0, <1>5, LoadGivenBack DEF CallFails, LoadAfter, LoadType
  <2>3. OutOnlyForAWhile' /\ FailedIsAvoided' /\ ProbedIfChecked'
    BY <1>0, <1>5 DEF CallFails, OutOnlyForAWhile, FailedIsAvoided, ProbedIfChecked
  <2>4. QED
    BY <1>g, <2>1, <2>2, <2>3
<1>6. ASSUME NEW r \in LLMRequests, MarkAfterFailure(r)
      PROVE  ProviderPoolInductive'
  <2>1. /\ AttemptFailed(r, failedIt[r] \cup {chosen[r]})
        /\ failedIt[r] \cup {chosen[r]} \in SUBSET Providers
    BY <1>6, <1>t DEF MarkAfterFailure
  <2>2. /\ healthy' = [healthy EXCEPT ![chosen[r]] = healthy[chosen[r]] /\ ~Marks(r)]
        /\ timers' = [timers EXCEPT ![chosen[r]] = timers[chosen[r]] + TimersStarted(r)]
        /\ timers[chosen[r]] + TimersStarted(r) \in 0..MaxTimers
        /\ poolConfig.failover => timers[chosen[r]] + TimersStarted(r) > 0
        /\ poolConfig.failover => Marks(r)
        /\ chosen[r] \in Providers
    BY <1>6, <1>t DEF MarkAfterFailure, TimersStarted, Marks
  <2>3. healthy' \in [Providers -> BOOLEAN]
    BY <2>2, <1>t
  <2>4. timers' \in [Providers -> 0..MaxTimers]
    BY <2>2, <1>t
  <2>5. UNCHANGED <<poolConfig, activeLoads, probing, cancelled>> /\ reqPc[r] = "mark"
    BY <1>6 DEF MarkAfterFailure
  <2>6. Rest'
    BY <1>t, <2>3, <2>4, <2>5, <1>a, <2>1
  <2>7. LoadsAreCalls' /\ LoadType'
    BY <1>0, <1>t, <1>a, <2>1, <2>5, LoadsUntouched DEF LoadType
  <2>8. \A p \in Providers :
            /\ healthy'[p] = IF p = chosen[r] THEN healthy[p] /\ ~Marks(r) ELSE healthy[p]
            /\ timers'[p] = IF p = chosen[r] THEN timers[p] + TimersStarted(r) ELSE timers[p]
    BY <2>2, <1>t
  <2>9. OutOnlyForAWhile' /\ ProbedIfChecked'
    BY <1>0, <2>2, <2>5, <2>8 DEF OutOnlyForAWhile, ProbedIfChecked
  <2>10. FailedIsAvoided'
    <3> SUFFICES ASSUME poolConfig.failover, NEW s \in LLMRequests, NEW p \in failedIt'[s]
                 PROVE  ~healthy'[p]
      BY <2>5 DEF FailedIsAvoided
    <3>1. p \in Providers /\ (p \in failedIt[s] \/ p = chosen[r])
      BY <1>t, <1>a, <2>1, <2>6
    <3>2. p = chosen[r] => ~healthy'[p]
      BY <2>2, <2>8
    <3>3. p \in failedIt[s] => ~healthy[p]
      BY <1>0 DEF FailedIsAvoided
    <3>4. QED
      BY <3>1, <3>2, <3>3, <2>8
  <2>11. QED
    BY <1>g, <2>6, <2>7, <2>9, <2>10
<1>7. ASSUME NEW r \in LLMRequests, DelayOver(r)
      PROVE  ProviderPoolInductive'
  <2>1. LoadsAreCalls' /\ LoadType'
    BY <1>0, <1>7, <1>t, LoadsUntouched DEF DelayOver, LoadType
  <2>2. Rest'
    BY <1>t, <1>7 DEF DelayOver
  <2>3. OutOnlyForAWhile' /\ FailedIsAvoided' /\ ProbedIfChecked'
    BY <1>0, <1>7 DEF DelayOver, OutOnlyForAWhile, FailedIsAvoided, ProbedIfChecked
  <2>4. QED
    BY <1>g, <2>1, <2>2, <2>3
<1>8. ASSUME NEW r \in LLMRequests, RequestCancelled(r)
      PROVE  ProviderPoolInductive'
  <2>1. Ended(r)
    BY <1>8 DEF RequestCancelled
  <2>2. Rest'
    BY <1>t, <1>8, <1>e, <2>1 DEF RequestCancelled
  <2>3. LoadsAreCalls' /\ LoadType'
    BY <1>0, <1>8, <1>t, <1>e, <2>1, LoadsUntouched DEF RequestCancelled, LoadType
  <2>4. OutOnlyForAWhile' /\ FailedIsAvoided' /\ ProbedIfChecked'
    BY <1>0, <1>8, <1>e, <2>1
    DEF RequestCancelled, OutOnlyForAWhile, FailedIsAvoided, ProbedIfChecked
  <2>5. QED
    BY <1>g, <2>2, <2>3, <2>4
<1>r. ASSUME NEW p \in Providers, NEW back \in BOOLEAN, Restored(p, back),
             healthy' = [healthy EXCEPT ![p] = back],
             UNCHANGED poolConfig
      PROVE  FailedIsAvoided' /\ failedIt' \in [LLMRequests -> SUBSET Providers]
  BY <1>0, <1>t, <1>r DEF Restored, FailedIsAvoided
<1>9. ASSUME NEW p \in Providers, RestoreHealth(p)
      PROVE  ProviderPoolInductive'
  <2>1. FailedIsAvoided' /\ failedIt' \in [LLMRequests -> SUBSET Providers]
    BY <1>r, <1>9 DEF RestoreHealth
  <2>2. /\ timers' = [timers EXCEPT ![p] = timers[p] - 1]
        /\ timers[p] - 1 \in 0..MaxTimers
        /\ healthy' = [healthy EXCEPT ![p] = TRUE]
        /\ UNCHANGED <<poolConfig, activeLoads, probing, cancelled, reqPc, attempt, chosen>>
    BY <1>9, <1>t DEF RestoreHealth
  <2>3. Rest'
    BY <2>1, <2>2, <1>t
  <2>4. LoadsAreCalls' /\ LoadType'
    BY <1>0, <1>t, <2>2, LoadsUntouched DEF LoadType
  <2>5. \A q \in Providers : q # p => healthy'[q] = healthy[q] /\ timers'[q] = timers[q]
    BY <2>2, <1>t
  <2>6. healthy'[p] = TRUE
    BY <2>2, <1>t
  <2>7. OutOnlyForAWhile' /\ ProbedIfChecked'
    BY <1>0, <2>2, <2>5, <2>6 DEF OutOnlyForAWhile, ProbedIfChecked
  <2>8. QED
    BY <1>g, <2>1, <2>3, <2>4, <2>7
<1>10. ASSUME NEW p \in Providers, NEW answer \in BOOLEAN, ProbeReturns(p, answer)
       PROVE  ProviderPoolInductive'
  <2>1. PICK result \in BOOLEAN : /\ healthy' = [healthy EXCEPT ![p] = result]
                                  /\ Restored(p, result)
    BY <1>10 DEF ProbeReturns, ProbeResults
  <2>2. /\ UNCHANGED <<poolConfig, activeLoads, timers, cancelled, reqPc, attempt, chosen>>
        /\ p \in probing /\ probing' = probing \ {p}
    BY <1>10 DEF ProbeReturns
  <2>3. FailedIsAvoided' /\ failedIt' \in [LLMRequests -> SUBSET Providers]
    BY <1>r, <2>1, <2>2
  <2>4. Rest'
    BY <1>t, <2>1, <2>2, <2>3
  <2>5. LoadsAreCalls' /\ LoadType'
    BY <1>0, <1>t, <2>2, LoadsUntouched DEF LoadType
  <2>6. OutOnlyForAWhile' /\ ProbedIfChecked'
    BY <1>0, <2>2 DEF OutOnlyForAWhile, ProbedIfChecked
  <2>7. QED
    BY <1>g, <2>3, <2>4, <2>5, <2>6
<1>11. CASE StartProbes \/ CheckHealthReturns
  <2>1. /\ UNCHANGED <<poolConfig, healthy, activeLoads, timers>>
        /\ UNCHANGED <<reqPc, attempt, chosen, failedIt>>
        /\ probing' \subseteq Providers /\ cancelled' \in BOOLEAN
        /\ poolConfig.checked \/ probing # {}
    BY <1>11, <1>t DEF StartProbes, CheckHealthReturns
  <2>2. LoadsAreCalls' /\ LoadType'
    BY <1>0, <2>1, LoadsUntouched DEF LoadType
  <2>3. Rest'
    BY <1>t, <2>1
  <2>4. OutOnlyForAWhile' /\ FailedIsAvoided' /\ ProbedIfChecked'
    BY <1>0, <2>1 DEF OutOnlyForAWhile, FailedIsAvoided, ProbedIfChecked
  <2>5. QED
    BY <1>g, <2>2, <2>3, <2>4
<1>12. CASE UNCHANGED providerVars
  BY <1>0, <1>12 DEF providerVars, ProviderPoolInductive, ProviderPoolInv, ProviderPoolTypeOK,
       LoadsAreCalls, OutOnlyForAWhile, FailedIsAvoided, ProbedIfChecked
<1>13. QED
  BY <1>1, <1>2, <1>3, <1>4, <1>5, <1>6, <1>7, <1>8, <1>9, <1>10, <1>11, <1>12
  DEF ProviderPoolNext

\* A provider's load counts the calls it serves, a provider that has failed a
\* request is not offered to its retries while it is out, and with failover
\* alone none stays out without a timer (llm_pool.go:174-234).
THEOREM ProviderPoolIsSound == ProviderPoolSpec => []ProviderPoolInv
<1>1. ProviderPoolInductive => ProviderPoolInv
  BY DEF ProviderPoolInductive
<1>2. QED
  BY <1>1, PoolStart, PoolStep, PTL DEF ProviderPoolSpec
-----------------------------------------------------------------------------
(* The pool of clients *)

\* Nobody has counted in a pool that is still to come.
FreshPools == \A p \in Pools, c \in Clients : p > pools => activeRequests[p][c] = 0

\* What holds of a caller: it works with a pool that was created; unless it asks
\* by the name of a provider, it has chosen a client that it found with room,
\* and that room is still there unless others have overtaken it; the hint of
\* its request is honoured.
CallerSound(k) ==
    /\ poolPc[k] # "idle" => inPool[k] \in 1..pools
    /\ (poolPc[k] = "count" /\ request[k].by # "provider") => client[k] \in room[k]
    /\ (poolPc[k] \in {"choose", "count"} /\ request[k].by # "provider" /\ ~overtaken[k])
           => \A c \in room[k] : HasRoomFor(inPool[k], c)
    /\ (poolPc[k] = "count" /\ request[k].by = "hint") =>
           LET capable == Capable(room[k], request[k].min) IN
           /\ capable # {} => client[k] \in capable
           /\ capable \cap request[k].preferred # {} => client[k] \in request[k].preferred

CallersSound == \A k \in PoolCallers : CallerSound(k)

ClientPoolInductive ==
    ClientPoolTypeOK /\ CountsAreUsers /\ ClosedWithoutCalls /\ FreshPools /\ CallersSound

LEMMA AnyClientIsOne == AnyClient \in Clients
  BY ClientPoolAssumption DEF AnyClient

\* Every request, the empty one included, is one of the kind.
LEMMA RequestsAreSound == Requests \cup {NoRequest} \subseteq PoolRequest
  BY ClientPoolAssumption DEF NoRequest, PoolRequest

\* Every way but by the name of a provider chooses among the clients with
\* room.
LEMMA EligibleHaveRoom ==
    ASSUME NEW p, NEW cs, NEW q \in PoolRequest, q.by # "provider"
    PROVE  Eligible(p, cs, q) \subseteq cs
<1>1. ByStrategy(p, cs) \subseteq cs
  BY ClientPoolAssumption DEF ByStrategy, LeastLoaded, ByCapability, Capable
<1>2. WithHint(p, cs, q) \subseteq cs
  BY <1>1 DEF WithHint, LeastLoaded, ByCapability, Capable
<1>3. CASE q.by = "strategy"
  BY <1>1, <1>3 DEF Eligible
<1>4. CASE q.by = "model"
  BY <1>4 DEF Eligible, LeastLoaded
<1>5. CASE q.by = "capability"
  BY <1>5 DEF Eligible, LeastLoaded, ByCapability, Capable
<1>6. CASE q.by = "hint"
  BY <1>2, <1>6 DEF Eligible
<1>7. QED
  BY <1>3, <1>4, <1>5, <1>6 DEF PoolRequest

\* selectWithHint chooses a preferred and capable client if there is one, and
\* else a capable one if there is one, whatever the strategy.
LEMMA HintChoosesWell ==
    ASSUME NEW p, NEW cs \in SUBSET Clients, NEW q \in PoolRequest,
           NEW c \in WithHint(p, cs, q)
    PROVE  /\ Capable(cs, q.min) # {} => c \in Capable(cs, q.min)
           /\ Capable(cs, q.min) \cap q.preferred # {} => c \in q.preferred
<1> DEFINE preferred == Capable(cs \cap q.preferred, q.min)
<1>0. q.min \in Nat /\ q.preferred \in SUBSET Clients
  BY DEF PoolRequest
<1>1. preferred = Capable(cs, q.min) \cap q.preferred
  BY DEF Capable
<1>2. CASE preferred # {}
  <2>1. c \in preferred
    <3>1. CASE q.min > 0
      BY <1>2, <3>1 DEF WithHint, ByCapability, LeastLoaded, Capable
    <3>2. CASE ~(q.min > 0)
      BY <1>2, <3>2 DEF WithHint, LeastLoaded
    <3>3. QED
      BY <3>1, <3>2
  <2>2. QED
    BY <1>1, <2>1
<1>3. CASE preferred = {} /\ q.min > 0 /\ Capable(cs, q.min) # {}
  <2>1. c \in ByCapability(p, cs, q.min)
    BY <1>3 DEF WithHint
  <2>2. c \in Capable(cs, q.min)
    BY <2>1 DEF ByCapability, LeastLoaded
  <2>3. QED
    BY <1>1, <1>3, <2>2
<1>4. CASE preferred = {} /\ (~(q.min > 0) \/ Capable(cs, q.min) = {})
  <2>1. c \in cs
    BY <1>4, ClientPoolAssumption
    DEF WithHint, ByStrategy, LeastLoaded, ByCapability, Capable
  <2>2. ~(q.min > 0) => c \in Capable(cs, q.min)
    BY <1>0, <2>1, ClientPoolAssumption DEF Capable
  <2>3. QED
    BY <1>1, <1>4, <2>2
<1>5. QED
  BY <1>2, <1>3, <1>4

\* Those who use a client can be counted.
LEMMA UsersCounted ==
    ASSUME NEW p, NEW c
    PROVE  IsFiniteSet(Users(p, c)) /\ Cardinality(Users(p, c)) \in Nat
<1>1. IsFiniteSet(Users(p, c))
  BY ClientPoolAssumption, FS_Subset DEF Users
<1>2. QED
  BY <1>1, FS_CardinalityType

LEMMA ClientPoolStart == ClientPoolInit => ClientPoolInductive
<1> SUFFICES ASSUME ClientPoolInit PROVE ClientPoolInductive
  OBVIOUS
<1> USE ClientPoolAssumption, AnyClientIsOne DEF ClientPoolInit
<1>1. ClientPoolTypeOK
  <2>1. 0 \in 0..MaxPools
    OBVIOUS
  <2>2. activeRequests \in [Pools -> [Clients -> Nat]]
    OBVIOUS
  <2>3. QED
    BY <2>1, <2>2 DEF ClientPoolTypeOK
<1>2. CountsAreUsers
  <2>1. \A p, c : Users(p, c) = {}
    BY DEF Users
  <2>2. \A p, c : Cardinality(Users(p, c)) = 0
    BY <2>1, FS_EmptySet
  <2>3. QED
    BY <2>2 DEF CountsAreUsers
<1>3. FreshPools
  BY DEF FreshPools
<1>4. QED
  BY <1>1, <1>2, <1>3
  DEF ClientPoolInductive, ClosedWithoutCalls, CallersSound, CallerSound

\* A step that leaves the counters alone, and lets nobody begin or end to use
\* a client, keeps the account.
LEMMA SameUsers ==
    ASSUME CountsAreUsers, UNCHANGED <<activeRequests, pools>>,
           initialized' => initialized,
           \A k \in PoolCallers :
               /\ (poolPc'[k] = "use") <=> (poolPc[k] = "use")
               /\ poolPc[k] = "use" => inPool'[k] = inPool[k] /\ client'[k] = client[k]
    PROVE  CountsAreUsers'
<1>1. \A p, c : Users(p, c)' = Users(p, c)
  BY DEF Users
<1>2. QED
  BY <1>1 DEF CountsAreUsers

\* What holds of a caller holds after the step of another, if that leaves it
\* room where it counts on it.
LEMMA CallerUntouched ==
    ASSUME ClientPoolTypeOK, NEW k \in PoolCallers, CallerSound(k),
           pools' \in Nat, pools' >= pools,
           poolPc'[k] = poolPc[k], request'[k] = request[k], inPool'[k] = inPool[k],
           room'[k] = room[k], client'[k] = client[k],
           overtaken'[k] \/ /\ ~overtaken[k]
                            /\ \A c \in Clients : HasRoomFor(inPool[k], c)
                                                    => HasRoomFor(inPool[k], c)'
    PROVE  CallerSound(k)'
<1>t. pools \in Nat /\ room[k] \in SUBSET Clients
  BY ClientPoolAssumption DEF ClientPoolTypeOK
<1>1. poolPc'[k] # "idle" => inPool'[k] \in 1..pools'
  BY <1>t DEF CallerSound
<1>2. (poolPc'[k] = "count" /\ request'[k].by # "provider") => client'[k] \in room'[k]
  BY DEF CallerSound
<1>3. ASSUME poolPc'[k] \in {"choose", "count"}, request'[k].by # "provider", ~overtaken'[k],
             NEW c \in room'[k]
      PROVE  HasRoomFor(inPool[k], c)'
  BY <1>t, <1>3 DEF CallerSound
<1>4. (poolPc'[k] = "count" /\ request'[k].by = "hint") =>
          /\ Capable(room'[k], request'[k].min) # {}
                => client'[k] \in Capable(room'[k], request'[k].min)
          /\ Capable(room'[k], request'[k].min) \cap request'[k].preferred # {}
                => client'[k] \in request'[k].preferred
  BY DEF CallerSound
<1>5. QED
  BY <1>1, <1>2, <1>3, <1>4 DEF CallerSound, Capable

\* Each step of the pool of clients keeps what is stated together.
LEMMA ClientPoolStep == ClientPoolInductive /\ [ClientPoolNext]_poolVars => ClientPoolInductive'
<1> SUFFICES ASSUME ClientPoolInductive, [ClientPoolNext]_poolVars
             PROVE  ClientPoolInductive'
  OBVIOUS
<1> USE DEF callerVars
<1>0. ClientPoolTypeOK /\ CountsAreUsers /\ ClosedWithoutCalls /\ FreshPools /\ CallersSound
  BY DEF ClientPoolInductive
<1>t. /\ initialized \in BOOLEAN
      /\ pools \in 0..MaxPools
      /\ activeRequests \in [Pools -> [Clients -> Nat]]
      /\ poolPc \in [PoolCallers -> {"idle", "choose", "count", "use"}]
      /\ way \in [PoolCallers -> {"call", "lease", "keep"}]
      /\ request \in [PoolCallers -> Requests \cup {NoRequest}]
      /\ inPool \in [PoolCallers -> 0..MaxPools]
      /\ room \in [PoolCallers -> SUBSET Clients]
      /\ client \in [PoolCallers -> Clients]
      /\ overtaken \in [PoolCallers -> BOOLEAN]
  BY <1>0 DEF ClientPoolTypeOK
<1>n. pools \in Nat /\ MaxPools \in Nat
  BY <1>t, ClientPoolAssumption
<1>i. \A k \in PoolCallers : poolPc[k] # "idle" => inPool[k] \in 1..pools /\ inPool[k] \in Pools
  BY <1>0, <1>t, <1>n DEF CallersSound, CallerSound, Pools
<1>g. ASSUME ClientPoolTypeOK', CountsAreUsers', ClosedWithoutCalls', FreshPools', CallersSound'
      PROVE  ClientPoolInductive'
  BY <1>g DEF ClientPoolInductive
<1>1. CASE Initialize
  <2>1. /\ pools' = pools + 1 /\ pools' \in 0..MaxPools /\ initialized' = TRUE
        /\ UNCHANGED activeRequests
        /\ UNCHANGED <<poolPc, way, request, inPool, room, client, overtaken>>
    <3>1. pools' = pools + 1 /\ pools < MaxPools
      BY <1>1 DEF Initialize
    <3>2. pools' \in 0..MaxPools
      BY <1>n, <3>1
    <3>3. QED
      BY <1>1, <3>2 DEF Initialize
  <2>2. ClientPoolTypeOK'
    BY <1>t, <2>1 DEF ClientPoolTypeOK
  <2>3. \A p, c : Users(p, c)' = Users(p, c)
    BY <2>1 DEF Users
  <2>4. \A k \in PoolCallers : poolPc[k] = "use" => inPool[k] # pools + 1
    BY <1>n, <1>i
  <2>5. \A c : Users(pools + 1, c) = {}
    BY <2>4 DEF Users
  <2>6. ASSUME NEW c \in Clients, pools + 1 \in Pools
        PROVE  activeRequests[pools + 1][c] = 0 /\ Cardinality(Users(pools + 1, c)) = 0
    <3>1. pools + 1 > pools
      BY <1>n
    <3>2. FreshPools
      BY <1>0 DEF ClientPoolInductive
    <3>3. activeRequests[pools + 1][c] = 0
      BY <2>6, <3>1, <3>2 DEF FreshPools
    <3>4. Cardinality(Users(pools + 1, c)) = 0
      BY <2>5, FS_EmptySet
    <3>5. QED
      BY <3>3, <3>4
  <2>7. CountsAreUsers'
    BY <1>0, <2>1, <2>3, <2>6 DEF CountsAreUsers
  <2>8. FreshPools'
    <3>1. \A p \in Pools : p > pools' => p > pools
      BY <1>n, <2>1 DEF Pools
    <3>2. QED
      BY <1>0, <2>1, <3>1 DEF FreshPools
  <2>9. CallersSound'
    BY <1>0, <1>n, <1>t, <2>1, CallerUntouched DEF CallersSound, HasRoomFor
  <2>10. ClosedWithoutCalls'
    BY <2>1 DEF ClosedWithoutCalls
  <2>11. QED
    BY <1>g, <2>2, <2>7, <2>8, <2>9, <2>10
<1>2. CASE CloseService
  <2>1. /\ initialized' = FALSE /\ UNCHANGED <<pools, activeRequests>>
        /\ UNCHANGED <<poolPc, way, request, inPool, room, client, overtaken>>
        /\ \A k \in PoolCallers : way[k] = "call" => poolPc[k] = "idle"
    BY <1>2 DEF CloseService, ServiceUnlocked
  <2>2. ClientPoolTypeOK'
    BY <1>t, <2>1 DEF ClientPoolTypeOK
  <2>3. CountsAreUsers'
    BY <1>0, <2>1, SameUsers
  <2>4. ClosedWithoutCalls' /\ FreshPools'
    BY <1>0, <2>1 DEF ClosedWithoutCalls, FreshPools
  <2>5. CallersSound'
    BY <1>0, <1>n, <1>t, <2>1, CallerUntouched DEF CallersSound, HasRoomFor
  <2>6. QED
    BY <1>g, <2>2, <2>3, <2>4, <2>5
<1>3. ASSUME NEW k \in PoolCallers, NEW w \in {"call", "lease", "keep"}, NEW p \in Pools,
             NEW q \in Requests, LookForRoom(k, w, p, q)
      PROVE  ClientPoolInductive'
  <2> DEFINE found == {c \in Clients : HasRoomFor(p, c)}
             seen == IF q.by = "provider" THEN {} ELSE found
  <2>1. /\ poolPc[k] = "idle" /\ Reaches(w, p)
        /\ UNCHANGED <<initialized, pools, activeRequests, client>>
        /\ poolPc' = [poolPc EXCEPT ![k] = "choose"]
        /\ way' = [way EXCEPT ![k] = w]
        /\ request' = [request EXCEPT ![k] = q]
        /\ inPool' = [inPool EXCEPT ![k] = p]
        /\ room' = [room EXCEPT ![k] = seen]
        /\ overtaken' = [overtaken EXCEPT ![k] = FALSE]
    BY <1>3 DEF LookForRoom
  <2>2. seen \in SUBSET Clients /\ (q.by # "provider" => \A c \in seen : HasRoomFor(p, c))
    OBVIOUS
  <2> HIDE DEF seen
  <2>p. p \in 0..MaxPools
    BY DEF Pools
  <2>3. ClientPoolTypeOK'
    BY <1>t, <2>p, <2>1, <2>2 DEF ClientPoolTypeOK
  <2>4. \A j \in PoolCallers :
            /\ poolPc'[j] = IF j = k THEN "choose" ELSE poolPc[j]
            /\ way'[j] = IF j = k THEN w ELSE way[j]
            /\ request'[j] = IF j = k THEN q ELSE request[j]
            /\ inPool'[j] = IF j = k THEN p ELSE inPool[j]
            /\ room'[j] = IF j = k THEN seen ELSE room[j]
            /\ overtaken'[j] = IF j = k THEN FALSE ELSE overtaken[j]
    BY <1>t, <2>1
  <2>5. CountsAreUsers'
    BY <1>0, <2>1, <2>4, SameUsers
  <2>6. ClosedWithoutCalls'
    BY <1>0, <2>1, <2>4, ZenonT(60) DEF ClosedWithoutCalls, Reaches
  <2>7. FreshPools'
    BY <1>0, <2>1 DEF FreshPools
  <2>8. p \in 1..pools
    BY <1>n, <2>1 DEF Reaches, Pools
  <2>9. q.by # "provider" => \A c \in seen : HasRoomFor(p, c)'
    BY <2>1, <2>2 DEF HasRoomFor
  <2>10. CallerSound(k)'
    <3>1. /\ poolPc'[k] = "choose" /\ request'[k] = q /\ inPool'[k] = p /\ room'[k] = seen
          /\ pools' = pools
      BY <2>1, <2>4
    <3>2. q.by # "provider" => \A c \in seen : HasRoomFor(inPool[k], c)'
      BY <2>9, <3>1 DEF HasRoomFor
    <3>3. QED
      BY <2>8, <3>1, <3>2 DEF CallerSound
  <2>11. ASSUME NEW j \in PoolCallers, j # k PROVE CallerSound(j)'
    BY <1>0, <1>n, <1>t, <2>1, <2>4, <2>11, CallerUntouched DEF CallersSound, HasRoomFor
  <2>12. QED
    BY <1>g, <2>3, <2>5, <2>6, <2>7, <2>10, <2>11 DEF CallersSound
<1>4. ASSUME NEW k \in PoolCallers, NEW c \in Clients, ChooseClient(k, c)
      PROVE  ClientPoolInductive'
  <2>1. /\ poolPc[k] = "choose"
        /\ c \in Eligible(inPool[k], room[k], request[k])
        /\ client' = [client EXCEPT ![k] = c]
        /\ poolPc' = [poolPc EXCEPT ![k] = "count"]
        /\ UNCHANGED <<initialized, pools, activeRequests, way, request, inPool, room, overtaken>>
    BY <1>4 DEF ChooseClient
  <2>2. ClientPoolTypeOK'
    BY <1>t, <2>1 DEF ClientPoolTypeOK
  <2>3. \A j \in PoolCallers :
            /\ poolPc'[j] = IF j = k THEN "count" ELSE poolPc[j]
            /\ client'[j] = IF j = k THEN c ELSE client[j]
    BY <1>t, <2>1
  <2>4. CountsAreUsers'
    BY <1>0, <2>1, <2>3, SameUsers
  <2>5. request[k] \in PoolRequest /\ room[k] \in SUBSET Clients
    BY <1>t, RequestsAreSound
  <2>6. request[k].by # "provider" => c \in room[k]
    BY <2>1, <2>5, EligibleHaveRoom
  <2>7. request[k].by = "hint" => c \in WithHint(inPool[k], room[k], request[k])
    BY <2>1 DEF Eligible
  <2>8. request[k].by = "hint" =>
            /\ Capable(room[k], request[k].min) # {} => c \in Capable(room[k], request[k].min)
            /\ Capable(room[k], request[k].min) \cap request[k].preferred # {}
                   => c \in request[k].preferred
    BY <2>5, <2>7, HintChoosesWell
  <2>9. CallerSound(k)'
    <3>1. CallerSound(k)
      BY <1>0 DEF CallersSound
    <3>2. QED
      BY <2>1, <2>3, <2>6, <2>8, <3>1 DEF CallerSound, HasRoomFor, Capable
  <2>10. ASSUME NEW j \in PoolCallers, j # k PROVE CallerSound(j)'
    BY <1>0, <1>n, <1>t, <2>1, <2>3, <2>10, CallerUntouched DEF CallersSound, HasRoomFor
  <2>11. ClosedWithoutCalls' /\ FreshPools'
    BY <1>0, <2>1, <2>3 DEF ClosedWithoutCalls, FreshPools
  <2>12. QED
    BY <1>g, <2>2, <2>4, <2>9, <2>10, <2>11 DEF CallersSound
<1>f. ASSUME NEW k \in PoolCallers, Forgotten(k), poolPc' = [poolPc EXCEPT ![k] = "idle"]
      PROVE  /\ poolPc' \in [PoolCallers -> {"idle", "choose", "count", "use"}]
             /\ way' \in [PoolCallers -> {"call", "lease", "keep"}]
             /\ request' \in [PoolCallers -> Requests \cup {NoRequest}]
             /\ inPool' \in [PoolCallers -> 0..MaxPools]
             /\ room' \in [PoolCallers -> SUBSET Clients]
             /\ client' \in [PoolCallers -> Clients]
             /\ overtaken' \in [PoolCallers -> BOOLEAN]
             /\ poolPc'[k] = "idle"
             /\ \A j \in PoolCallers : j # k =>
                    /\ poolPc'[j] = poolPc[j] /\ way'[j] = way[j] /\ request'[j] = request[j]
                    /\ inPool'[j] = inPool[j] /\ room'[j] = room[j]
                    /\ client'[j] = client[j] /\ overtaken'[j] = overtaken[j]
  <2>1. 0 \in 0..MaxPools
    BY <1>n
  <2>2. QED
    BY <1>t, <1>f, <2>1, AnyClientIsOne DEF Forgotten
<1>5. ASSUME NEW k \in PoolCallers, NoClient(k)
      PROVE  ClientPoolInductive'
  <2>1. /\ poolPc[k] = "choose" /\ poolPc' = [poolPc EXCEPT ![k] = "idle"] /\ Forgotten(k)
        /\ UNCHANGED <<initialized, pools, activeRequests>>
    BY <1>5 DEF NoClient
  <2>2. ClientPoolTypeOK'
    BY <1>t, <2>1, <1>f DEF ClientPoolTypeOK
  <2>3. \A j \in PoolCallers : poolPc[j] = "use" \/ poolPc'[j] = "use" => j # k
    BY <2>1, <1>f
  <2>4. CountsAreUsers'
    BY <1>0, <2>1, <1>f, <2>3, SameUsers
  <2>5. CallerSound(k)'
    <3>1. poolPc'[k] = "idle"
      BY <2>1, <1>f
    <3>2. QED
      BY <3>1 DEF CallerSound
  <2>6. ASSUME NEW j \in PoolCallers, j # k PROVE CallerSound(j)'
    <3>1. /\ poolPc'[j] = poolPc[j] /\ request'[j] = request[j] /\ inPool'[j] = inPool[j]
          /\ room'[j] = room[j] /\ client'[j] = client[j] /\ overtaken'[j] = overtaken[j]
      BY <2>1, <1>f, <2>6
    <3>2. CallerSound(j) /\ pools' \in Nat /\ pools' >= pools
      BY <1>0, <1>n, <2>1 DEF CallersSound
    <3>3. \A c \in Clients : HasRoomFor(inPool[j], c) => HasRoomFor(inPool[j], c)'
      BY <2>1, <3>1 DEF HasRoomFor
    <3>4. overtaken[j] \in BOOLEAN
      BY <1>t
    <3>5. QED
      BY <1>0, <3>1, <3>2, <3>3, <3>4, CallerUntouched
  <2>7. ASSUME NEW j \in PoolCallers, ~initialized', way'[j] = "call"
        PROVE  poolPc'[j] = "idle"
    BY <1>0, <2>1, <1>f, <2>7, ZenonT(60) DEF ClosedWithoutCalls
  <2>8. ClosedWithoutCalls' /\ FreshPools'
    BY <1>0, <2>1, <2>7 DEF ClosedWithoutCalls, FreshPools
  <2>9. QED
    BY <1>g, <2>2, <2>4, <2>5, <2>6, <2>8 DEF CallersSound
<1>6. ASSUME NEW k \in PoolCallers, CountRequest(k)
      PROVE  ClientPoolInductive'
  <2>1. /\ poolPc[k] = "count" /\ poolPc' = [poolPc EXCEPT ![k] = "use"]
        /\ activeRequests' = [activeRequests EXCEPT ![inPool[k]][client[k]] = @ + 1]
        /\ overtaken' = [other \in PoolCallers |->
                            /\ other # k
                            /\ \/ overtaken[other]
                               \/ /\ inPool[other] = inPool[k]
                                  /\ poolPc[other] \in {"choose", "count"}]
        /\ request' = [request EXCEPT ![k] = NoRequest]
        /\ room' = [room EXCEPT ![k] = {}]
        /\ UNCHANGED <<initialized, pools, way, inPool, client>>
    BY <1>6 DEF CountRequest
  <2>2. inPool[k] \in 1..pools /\ inPool[k] \in Pools /\ client[k] \in Clients
    BY <1>i, <1>t, <2>1
  <2>3. \A p \in Pools, c \in Clients : activeRequests[p][c] \in Nat
    BY <1>t
  <2>4. /\ activeRequests' \in [Pools -> [Clients -> Nat]]
        /\ \A p \in Pools, c \in Clients :
              activeRequests'[p][c] = IF p = inPool[k] /\ c = client[k]
                                      THEN activeRequests[p][c] + 1 ELSE activeRequests[p][c]
    <3> DEFINE new == [activeRequests[inPool[k]] EXCEPT ![client[k]] = @ + 1]
    <3>1. new \in [Clients -> Nat]
      BY <1>t, <2>2
    <3>2. \A c \in Clients : new[c] = IF c = client[k] THEN activeRequests[inPool[k]][c] + 1
                                      ELSE activeRequests[inPool[k]][c]
      BY <1>t, <2>2
    <3>3. activeRequests' = [activeRequests EXCEPT ![inPool[k]] = new]
      BY <2>1
    <3> HIDE DEF new
    <3>4. QED
      BY <1>t, <2>2, <3>1, <3>2, <3>3
  <2>5. ClientPoolTypeOK'
    BY <1>t, <2>1, <2>4 DEF ClientPoolTypeOK
  <2>6. \A j \in PoolCallers :
            /\ poolPc'[j] = IF j = k THEN "use" ELSE poolPc[j]
            /\ request'[j] = IF j = k THEN NoRequest ELSE request[j]
            /\ room'[j] = IF j = k THEN {} ELSE room[j]
    BY <1>t, <2>1
  <2>7. \A p, c : Users(p, c)' = IF p = inPool[k] /\ c = client[k]
                                 THEN Users(p, c) \cup {k} ELSE Users(p, c)
    BY <2>1, <2>6 DEF Users
  <2>8. k \notin Users(inPool[k], client[k])
    BY <2>1 DEF Users
  <2>9. Cardinality(Users(inPool[k], client[k]) \cup {k})
            = Cardinality(Users(inPool[k], client[k])) + 1
    BY <2>8, UsersCounted, FS_AddElement
  <2>10. \A p \in Pools, c \in Clients :
            Cardinality(Users(p, c)') = IF p = inPool[k] /\ c = client[k]
                                        THEN Cardinality(Users(p, c)) + 1
                                        ELSE Cardinality(Users(p, c))
    BY <2>7, <2>9
  <2>11. \A p \in Pools, c \in Clients : Cardinality(Users(p, c)) \in Nat
    BY UsersCounted
  <2>12. \A p \in Pools, c \in Clients :
            /\ activeRequests'[p][c] >= Cardinality(Users(p, c)')
            /\ (initialized' /\ p = pools') => activeRequests'[p][c] = Cardinality(Users(p, c)')
    BY <1>0, <2>1, <2>3, <2>4, <2>10, <2>11 DEF CountsAreUsers
  <2>13. CountsAreUsers'
    BY <2>12 DEF CountsAreUsers
  <2>14. ClosedWithoutCalls'
    <3> SUFFICES ASSUME ~initialized', NEW j \in PoolCallers, way'[j] = "call"
                 PROVE  poolPc'[j] = "idle"
      BY DEF ClosedWithoutCalls
    <3>1. poolPc[j] = "idle"
      BY <1>0, <2>1 DEF ClosedWithoutCalls
    <3>2. QED
      BY <2>1, <2>6, <3>1
  <2>15. FreshPools'
    <3> SUFFICES ASSUME NEW p \in Pools, NEW c \in Clients, p > pools
                 PROVE  activeRequests'[p][c] = 0
      BY <2>1 DEF FreshPools
    <3>1. p # inPool[k]
      BY <1>n, <2>2
    <3>2. QED
      BY <1>0, <2>4, <3>1 DEF FreshPools
  <2>16. CallerSound(k)'
    BY <2>1, <2>2, <2>6 DEF CallerSound
  <2>17. ASSUME NEW j \in PoolCallers, j # k PROVE CallerSound(j)'
    <3>1. CASE overtaken'[j]
      BY <1>0, <1>n, <2>1, <2>6, <2>17, <3>1, CallerUntouched DEF CallersSound
    <3>2. CASE ~overtaken'[j] /\ poolPc[j] \in {"choose", "count"}
      <4>1. ~overtaken[j] /\ inPool[j] # inPool[k] /\ inPool[j] \in Pools
        BY <1>i, <2>1, <2>17, <3>2
      <4>2. \A c \in Clients : HasRoomFor(inPool[j], c) => HasRoomFor(inPool[j], c)'
        BY <2>1, <2>4, <4>1 DEF HasRoomFor
      <4>3. QED
        BY <1>0, <1>n, <2>1, <2>6, <2>17, <4>1, <4>2, CallerUntouched DEF CallersSound
    <3>3. CASE poolPc[j] \notin {"choose", "count"}
      BY <1>0, <2>1, <2>6, <2>17, <3>3 DEF CallersSound, CallerSound
    <3>4. QED
      BY <3>1, <3>2, <3>3
  <2>18. QED
    BY <1>g, <2>5, <2>13, <2>14, <2>15, <2>16, <2>17 DEF CallersSound
<1>7. ASSUME NEW k \in PoolCallers, Release(k)
      PROVE  ClientPoolInductive'
  <2>1. /\ poolPc[k] = "use" /\ poolPc' = [poolPc EXCEPT ![k] = "idle"] /\ Forgotten(k)
        /\ UNCHANGED <<initialized, pools>>
    BY <1>7 DEF Release
  <2>2. inPool[k] \in 1..pools /\ inPool[k] \in Pools /\ client[k] \in Clients
    BY <1>i, <1>t, <2>1
  <2>3. activeRequests' = IF ReachesItsPool(k)
                          THEN [activeRequests EXCEPT ![inPool[k]][client[k]] = @ - 1]
                          ELSE activeRequests
    BY <1>7 DEF Release, ReachesItsPool
  <2>4. k \in Users(inPool[k], client[k])
    BY <2>1 DEF Users
  <2>5. /\ Cardinality(Users(inPool[k], client[k]) \ {k})
            = Cardinality(Users(inPool[k], client[k])) - 1
        /\ Cardinality(Users(inPool[k], client[k])) # 0
    BY <2>4, UsersCounted, FS_RemoveElement, FS_EmptySet
  <2>6. \A p \in Pools, c \in Clients :
            activeRequests[p][c] \in Nat /\ Cardinality(Users(p, c)) \in Nat
    BY <1>t, UsersCounted
  <2>7. activeRequests[inPool[k]][client[k]] - 1 \in Nat
    BY <1>0, <2>2, <2>5, <2>6 DEF CountsAreUsers
  <2>8. /\ activeRequests' \in [Pools -> [Clients -> Nat]]
        /\ \A p \in Pools, c \in Clients :
              activeRequests'[p][c] =
                  IF p = inPool[k] /\ c = client[k] /\ ReachesItsPool(k)
                  THEN activeRequests[p][c] - 1 ELSE activeRequests[p][c]
    <3> DEFINE new == [activeRequests[inPool[k]] EXCEPT ![client[k]] = @ - 1]
    <3>1. new \in [Clients -> Nat]
      BY <1>t, <2>2, <2>7
    <3>2. \A c \in Clients : new[c] = IF c = client[k] THEN activeRequests[inPool[k]][c] - 1
                                      ELSE activeRequests[inPool[k]][c]
      BY <1>t, <2>2
    <3>3. activeRequests' = IF ReachesItsPool(k)
                            THEN [activeRequests EXCEPT ![inPool[k]] = new]
                            ELSE activeRequests
      BY <2>3
    <3> HIDE DEF new
    <3>4. QED
      BY <1>t, <2>2, <3>1, <3>2, <3>3
  <2>9. ClientPoolTypeOK'
    BY <1>t, <2>1, <1>f, <2>8 DEF ClientPoolTypeOK
  <2>10. \A p, c : Users(p, c)' = Users(p, c) \ {k}
    <3>1. \A j \in PoolCallers : poolPc'[j] = "use" <=> (poolPc[j] = "use" /\ j # k)
      BY <2>1, <1>f
    <3>2. \A j \in PoolCallers : j # k => inPool'[j] = inPool[j] /\ client'[j] = client[j]
      BY <2>1, <1>f
    <3>3. QED
      BY <3>1, <3>2 DEF Users
  <2>11. \A p, c : ~(p = inPool[k] /\ c = client[k]) => Users(p, c) \ {k} = Users(p, c)
    BY DEF Users
  <2>12. \A p \in Pools, c \in Clients :
            Cardinality(Users(p, c)') = IF p = inPool[k] /\ c = client[k]
                                        THEN Cardinality(Users(p, c)) - 1
                                        ELSE Cardinality(Users(p, c))
    BY <2>5, <2>10, <2>11
  <2>13. initialized /\ inPool[k] = pools => ReachesItsPool(k)
    BY DEF ReachesItsPool
  <2>14. \A p \in Pools, c \in Clients :
            /\ activeRequests'[p][c] >= Cardinality(Users(p, c)')
            /\ (initialized' /\ p = pools') => activeRequests'[p][c] = Cardinality(Users(p, c)')
    BY <1>0, <2>1, <2>6, <2>8, <2>12, <2>13 DEF CountsAreUsers
  <2>15. CountsAreUsers'
    BY <2>14 DEF CountsAreUsers
  <2>16. ASSUME NEW j \in PoolCallers, ~initialized', way'[j] = "call"
         PROVE  poolPc'[j] = "idle"
    BY <1>0, <2>1, <1>f, <2>16, ZenonT(60) DEF ClosedWithoutCalls
  <2>17. ClosedWithoutCalls'
    BY <2>16 DEF ClosedWithoutCalls
  <2>18. FreshPools'
    <3> SUFFICES ASSUME NEW p \in Pools, NEW c \in Clients, p > pools
                 PROVE  activeRequests'[p][c] = 0
      BY <2>1 DEF FreshPools
    <3>1. p # inPool[k]
      BY <1>n, <2>2
    <3>2. QED
      BY <1>0, <2>8, <3>1 DEF FreshPools
  <2>19. CallerSound(k)'
    BY <2>1, <1>f DEF CallerSound
  <2>20. ASSUME NEW j \in PoolCallers, j # k PROVE CallerSound(j)'
    <3>1. CASE poolPc[j] = "idle"
      BY <2>1, <1>f, <2>20, <3>1 DEF CallerSound
    <3>2. CASE poolPc[j] # "idle"
      <4>1. inPool[j] \in Pools /\ inPool'[j] = inPool[j]
        BY <1>i, <2>1, <1>f, <2>20, <3>2
      <4>2. \A c \in Clients :
                /\ activeRequests'[inPool[j]][c] <= activeRequests[inPool[j]][c]
                /\ activeRequests'[inPool[j]][c] \in Nat /\ activeRequests[inPool[j]][c] \in Nat
                /\ MaxConcurrency[c] \in Nat
        BY <2>6, <2>8, <4>1, ClientPoolAssumption
      <4>3. \A c \in Clients : HasRoomFor(inPool[j], c) => HasRoomFor(inPool[j], c)'
        BY <4>1, <4>2 DEF HasRoomFor
      <4>4. overtaken'[j] \/ ~overtaken[j]
        BY <2>1, <1>f, <2>20
      <4>5. /\ poolPc'[j] = poolPc[j] /\ request'[j] = request[j]
            /\ inPool'[j] = inPool[j] /\ room'[j] = room[j] /\ client'[j] = client[j]
        BY <2>1, <1>f, <2>20
      <4>6. CallerSound(j) /\ pools' \in Nat /\ pools' >= pools
        BY <1>0, <1>n, <2>1 DEF CallersSound
      <4>7. overtaken'[j] \/ /\ ~overtaken[j]
                             /\ \A c \in Clients : HasRoomFor(inPool[j], c)
                                                     => HasRoomFor(inPool[j], c)'
        BY <4>3, <4>4
      <4>8. QED
        BY <1>0, <4>5, <4>6, <4>7, CallerUntouched
    <3>3. QED
      BY <3>1, <3>2
  <2>21. QED
    BY <1>g, <2>9, <2>15, <2>17, <2>18, <2>19, <2>20 DEF CallersSound
<1>8. CASE UNCHANGED poolVars
  <2>1. UNCHANGED <<initialized, pools, activeRequests, poolPc, way, request, inPool, room,
                    client, overtaken>>
    BY <1>8 DEF poolVars
  <2>2. ClientPoolTypeOK' /\ CountsAreUsers'
    BY <1>0, <1>t, <2>1, SameUsers DEF ClientPoolTypeOK
  <2>3. ClosedWithoutCalls' /\ FreshPools'
    BY <1>0, <2>1 DEF ClosedWithoutCalls, FreshPools
  <2>4. CallersSound'
    BY <1>0, <1>n, <1>t, <2>1, CallerUntouched DEF CallersSound, HasRoomFor
  <2>5. QED
    BY <1>g, <2>2, <2>3, <2>4
<1>9. QED
  BY <1>1, <1>2, <1>3, <1>4, <1>5, <1>6, <1>7, <1>8 DEF ClientPoolNext

\* The limit of a client is passed only where the client was asked for by the
\* name of its provider, or by a call that was overtaken.
LEMMA LimitStep ==
    ASSUME ClientPoolInductive, ClientPoolNext,
           NEW p \in Pools, NEW c \in Clients,
           activeRequests'[p][c] > activeRequests[p][c],
           MaxConcurrency[c] > 0, activeRequests'[p][c] > MaxConcurrency[c]
    PROVE  \E k \in PoolCallers : /\ poolPc[k] = "count" /\ client[k] = c /\ inPool[k] = p
                                  /\ overtaken[k] \/ request[k].by = "provider"
<1>t. /\ activeRequests \in [Pools -> [Clients -> Nat]]
      /\ room \in [PoolCallers -> SUBSET Clients]
      /\ client \in [PoolCallers -> Clients]
      /\ inPool \in [PoolCallers -> 0..MaxPools]
      /\ CallersSound /\ CountsAreUsers
  BY DEF ClientPoolInductive, ClientPoolTypeOK
<1>n. activeRequests[p][c] \in Nat /\ MaxConcurrency[c] \in Nat
  BY <1>t, ClientPoolAssumption
<1>1. activeRequests' # activeRequests
  BY <1>n
<1>2. ASSUME NEW k \in PoolCallers, Release(k)
      PROVE  FALSE
  <2> DEFINE q == IF way[k] = "lease" THEN pools ELSE inPool[k]
             less == [activeRequests EXCEPT ![q][client[k]] = @ - 1]
  <2>1. activeRequests' = less
    BY <1>1, <1>2 DEF Release
  <2>2. activeRequests'[p][c] = activeRequests[p][c]
            \/ activeRequests'[p][c] = activeRequests[p][c] - 1
    BY <1>t, <2>1
  <2>3. QED
    BY <1>n, <2>2
<1>3. PICK k \in PoolCallers : CountRequest(k)
  BY <1>1, <1>2
  DEF ClientPoolNext, Initialize, CloseService, LookForRoom, ChooseClient, NoClient
<1>4. /\ poolPc[k] = "count"
      /\ activeRequests' = [activeRequests EXCEPT ![inPool[k]][client[k]] = @ + 1]
  BY <1>3 DEF CountRequest
<1>5. inPool[k] = p /\ client[k] = c /\ activeRequests'[p][c] = activeRequests[p][c] + 1
  <2> DEFINE more == [activeRequests[inPool[k]] EXCEPT ![client[k]] = @ + 1]
  <2>1. activeRequests' = [activeRequests EXCEPT ![inPool[k]] = more]
    BY <1>4
  <2>2. p = inPool[k]
    BY <1>t, <1>n, <2>1
  <2>3. activeRequests'[p] = more
    BY <1>t, <2>1, <2>2
  <2>4. c = client[k]
    BY <1>t, <1>n, <2>2, <2>3
  <2>5. QED
    BY <1>t, <2>2, <2>3, <2>4
<1>6. CASE request[k].by # "provider" /\ ~overtaken[k]
  <2>1. HasRoomFor(p, c)
    BY <1>t, <1>4, <1>5, <1>6 DEF CallersSound, CallerSound
  <2>2. activeRequests[p][c] < MaxConcurrency[c]
    BY <1>n, <2>1 DEF HasRoomFor
  <2>3. QED
    BY <1>n, <1>5, <2>2
<1>7. CASE overtaken[k] \/ request[k].by = "provider"
  BY <1>4, <1>5, <1>7
<1>8. QED
  BY <1>6, <1>7

\* The counters of the pool in service are its users, no hint is ignored that
\* could be followed, no pool is closed under a call, and a limit is passed
\* only by who was overtaken or asked by name (pool.go:85-391,
\* global_pool.go:48-343).
THEOREM ClientPoolIsCorrect == ClientPoolSpec => ClientPoolCorrect
<1>1. ClientPoolInductive => ClientPoolTypeOK /\ CountsAreUsers /\ HintHonoured /\ ClosedWithoutCalls
  BY DEF ClientPoolInductive, HintHonoured, CallersSound, CallerSound
<1>2. ClientPoolInductive /\ [ClientPoolNext]_poolVars
        => [activeRequests' # activeRequests =>
            \A p \in Pools, c \in Clients :
               (activeRequests'[p][c] > activeRequests[p][c]
                    /\ MaxConcurrency[c] > 0 /\ activeRequests'[p][c] > MaxConcurrency[c])
               => \E k \in PoolCallers :
                      /\ poolPc[k] = "count" /\ client[k] = c /\ inPool[k] = p
                      /\ overtaken[k] \/ request[k].by = "provider"]_poolVars
  BY LimitStep
<1>3. QED
  BY <1>1, <1>2, ClientPoolStart, ClientPoolStep, PTL
  DEF ClientPoolSpec, ClientPoolCorrect, LimitHoldsUnlessOvertaken

-----------------------------------------------------------------------------
(* The cache kept in files *)

CachePc == {"down", "idle", "write"}
CacheTyped ==
    /\ cachePc \in [CacheProcs -> CachePc]
    /\ writing \in [CacheProcs -> [by : {"none", "set", "get"}, key : CacheKeys \cup {None}, id : 0..MaxSets]]
    /\ entries \in [CacheProcs -> [CacheKeys -> 0..MaxSets]]
    /\ lru \in [CacheProcs -> SUBSET (CacheKeys \X CacheKeys)]
    /\ disk \in [CacheKeys -> 0..TornFile]
    /\ written \in SUBSET (CacheKeys \X CacheKeys)
    /\ expired \subseteq EntryIds /\ faulty \subseteq CacheKeys /\ shared \in BOOLEAN
    /\ detached \subseteq CacheProcs /\ behind \subseteq CacheProcs /\ overlapped \subseteq CacheKeys
    /\ sets \in 0..MaxSets /\ ioFaults \in Nat /\ kills \in Nat

\* What a process is at.
ProcFits(p) ==
    /\ cachePc[p] = "down" => Held(p) = {} /\ lru[p] = {}
    /\ cachePc[p] # "write" => writing[p] = NoWrite /\ p \notin detached \cup behind
    /\ cachePc[p] = "write" =>
           /\ writing[p].by \in {"set", "get"}
           /\ writing[p].key \in CacheKeys /\ writing[p].id # None

\* The files are in the order in which they were used, but one that is new.
FilesOrdered ==
    /\ \A k \in InOrder(written) : disk[k] # None
    /\ \A k \in CacheKeys : disk[k] # None /\ ~Torn(k) => k \in InOrder(written)
    /\ \A pair \in written : pair[1] \in InOrder(written)

\* What is in memory can be evicted.
ListHoldsAll ==
    /\ \A p \in CacheProcs : InOrder(lru[p]) \subseteq Held(p)
    /\ faulty = {} => \A p \in CacheProcs : Held(p) = InOrder(lru[p])

\* A process on its own: files and memory agree but for the file it writes, on
\* the order too but for a hit that has still to write, and files are not too many.
InWrite(p, k) == cachePc[p] = "write" /\ writing[p].key = k
Files == {k \in CacheKeys : disk[k] # None}
OnOwn(p) ==
    /\ \A k \in CacheKeys \ faulty :
           IF InWrite(p, k)
           THEN disk[k] = TornFile /\ (writing[p].by = "get" => entries[p][k] = writing[p].id)
           ELSE disk[k] = entries[p][k]
    /\ faulty = {} => lru[p] = IF cachePc[p] = "write" /\ writing[p].by = "get"
                               THEN ToFront(written, writing[p].key) ELSE written
Alone ==
    ~shared =>
    /\ \A p, q \in CacheProcs : Up(p) /\ Up(q) => p = q
    /\ \A p \in CacheProcs : Up(p) => OnOwn(p)
    /\ faulty = {} => Cardinality(Files) <= CacheSize

\* Two who write one file have overlapped, whoever is behind has met another one,
\* and what is torn is being written by one whose file is still there.
FilesShared ==
    /\ ~shared => detached = {} /\ behind = {}
    /\ \A p \in behind : writing[p].key \in overlapped
    /\ \A k \in CacheKeys \ overlapped : \A p, q \in Writers(k) : p = q
    /\ \A k \in CacheKeys : Torn(k) =>
           kills > 0 \/ k \in faulty \cup overlapped \/ Writers(k) # {}

CacheInductive ==
    /\ CacheTyped
    /\ \A p \in CacheProcs : ProcFits(p)
    /\ FilesOrdered
    /\ ListHoldsAll
    /\ Alone
    /\ FilesShared

Orders == SUBSET (CacheKeys \X CacheKeys)

-----------------------------------------------------------------------------
(* Orders of keys *)

LEMMA WithoutKeys ==
    ASSUME NEW order \in Orders, NEW keys
    PROVE  /\ Without(order, keys) \in Orders
           /\ InOrder(Without(order, keys)) = InOrder(order) \ keys
           /\ (\A pair \in order : pair[1] \in InOrder(order)) =>
                  \A pair \in Without(order, keys) : pair[1] \in InOrder(Without(order, keys))
<1>1. \A k, j : <<k, j>> \in Without(order, keys) <=> <<k, j>> \in order /\ k \notin keys /\ j \notin keys
  BY DEF Without
<1>2. QED
  BY <1>1 DEF Without, InOrder, Orders

LEMMA ToFrontAdds ==
    ASSUME NEW order \in Orders, NEW k \in CacheKeys
    PROVE  /\ ToFront(order, k) \in Orders
           /\ InOrder(ToFront(order, k)) = InOrder(order) \cup {k}
           /\ (\A pair \in order : pair[1] \in InOrder(order)) =>
                  \A pair \in ToFront(order, k) : pair[1] \in InOrder(ToFront(order, k))
<1>1. Without(order, {k}) \in Orders /\ InOrder(Without(order, {k})) = InOrder(order) \ {k}
  BY WithoutKeys
<1>2. {<<j, k>> : j \in InOrder(order) \cup {k}} \in Orders
  <2>1. \A j \in InOrder(order) \cup {k} : j \in CacheKeys
    BY DEF InOrder
  <2>2. \A j \in InOrder(order) \cup {k} : <<j, k>> \in CacheKeys \X CacheKeys
    BY <2>1
  <2>3. QED
    BY <2>2, Zenon DEF Orders
<1>3. \A j \in CacheKeys : <<j, j>> \in {<<i, k>> : i \in InOrder(order) \cup {k}} <=> j = k
  OBVIOUS
<1>4. ToFront(order, k) \in Orders
  BY <1>1, <1>2 DEF ToFront, Orders
<1>5. InOrder(ToFront(order, k)) = InOrder(order) \cup {k}
  BY <1>1, <1>3 DEF ToFront, InOrder
<1>6. ASSUME \A pair \in order : pair[1] \in InOrder(order), NEW pair \in ToFront(order, k)
      PROVE  pair[1] \in InOrder(order) \cup {k}
  <2>1. CASE pair \in Without(order, {k})
    BY <1>6, <2>1 DEF Without
  <2>2. CASE pair \in {<<j, k>> : j \in InOrder(order) \cup {k}}
    BY <2>2
  <2>3. QED
    BY <1>6, <2>1, <2>2 DEF ToFront
<1>7. QED
  BY <1>4, <1>5, <1>6

\* At most as many files as the cache may hold, when one is added for one that goes.
LEMMA FilesAreFinite ==
    ASSUME NEW S \in SUBSET CacheKeys
    PROVE  IsFiniteSet(S) /\ Cardinality(S) \in Nat
  BY FileCacheAssumption, FS_Subset, FS_CardinalityType

LEMMA CacheStart == FileCacheInit => CacheInductive
<1> SUFFICES ASSUME FileCacheInit PROVE CacheInductive
  OBVIOUS
<1> USE FileCacheAssumption
<1>1. NoWrite \in [by : {"none", "set", "get"}, key : CacheKeys \cup {None}, id : 0..MaxSets]
        /\ None \in 0..MaxSets /\ None \in 0..TornFile /\ None # TornFile
  BY DEF NoWrite, None, TornFile
<1>2. CacheTyped
  <2>1. writing \in [CacheProcs -> [by : {"none", "set", "get"}, key : CacheKeys \cup {None}, id : 0..MaxSets]]
    BY <1>1, Zenon DEF FileCacheInit
  <2>2. /\ disk \in [CacheKeys -> 0..TornFile]
        /\ entries \in [CacheProcs -> [CacheKeys -> 0..MaxSets]]
        /\ lru \in [CacheProcs -> SUBSET (CacheKeys \X CacheKeys)]
    BY <1>1 DEF FileCacheInit
  <2>3. cachePc \in [CacheProcs -> CachePc] /\ written \in SUBSET (CacheKeys \X CacheKeys)
          /\ sets \in 0..MaxSets /\ ioFaults \in Nat /\ kills \in Nat
    BY DEF FileCacheInit, CachePc
  <2>4. QED
    BY <2>1, <2>2, <2>3 DEF FileCacheInit, CacheTyped
<1>3. \A p \in CacheProcs : ProcFits(p)
  BY DEF FileCacheInit, ProcFits, Held
<1>4. FilesOrdered /\ FilesShared
  BY <1>1 DEF FileCacheInit, FilesOrdered, FilesShared, Torn, InOrder, Writers, NoWrite, None
<1>5. ListHoldsAll
  BY DEF FileCacheInit, ListHoldsAll, Held, InOrder
<1>6. Files = {}
  BY DEF FileCacheInit, Files
<1>7. Alone
  BY <1>6, FS_EmptySet DEF FileCacheInit, Alone, Up
<1>8. QED
  BY <1>2, <1>3, <1>4, <1>5, <1>7 DEF CacheInductive

-----------------------------------------------------------------------------
\* Keys, with their files, that go: some of those a process holds or that have
\* expired.
LEMMA FilesGo ==
    ASSUME CacheTyped, FilesOrdered, NEW keys \in SUBSET CacheKeys, Unlinked(keys)
    PROVE  /\ disk' \in [CacheKeys -> 0..TornFile] /\ written' \in Orders
           /\ \A k \in CacheKeys : disk'[k] = IF k \in keys THEN None ELSE disk[k]
           /\ InOrder(written') = InOrder(written) \ keys
           /\ Files' = Files \ keys
           /\ FilesOrdered' /\ detached' \subseteq CacheProcs
<1>1. /\ disk' \in [CacheKeys -> 0..TornFile]
      /\ \A k \in CacheKeys : disk'[k] = IF k \in keys THEN None ELSE disk[k]
  BY FileCacheAssumption DEF CacheTyped, Unlinked, None, TornFile
<1>2. /\ written' \in Orders /\ InOrder(written') = InOrder(written) \ keys
      /\ \A pair \in written' : pair[1] \in InOrder(written')
      /\ InOrder(written) \subseteq CacheKeys
  <2>1. written \in Orders /\ written' = Without(written, keys) /\ InOrder(written) \subseteq CacheKeys
    BY DEF CacheTyped, Unlinked, Orders, InOrder
  <2>2. QED
    BY <2>1, WithoutKeys DEF FilesOrdered
<1>3. Files' = Files \ keys
  BY <1>1 DEF Files
<1>4. TornFile # None
  BY FileCacheAssumption DEF None, TornFile
<1>5. FilesOrdered'
  BY <1>1, <1>2, <1>4 DEF FilesOrdered, Torn
<1>6. detached' \subseteq CacheProcs
  BY DEF Unlinked, CacheTyped
<1>7. QED
  BY <1>1, <1>2, <1>3, <1>5, <1>6

\* Who writes a file that is removed goes on with one that is not in the
\* directory; the other files keep their writers.
LEMMA UnlinkedShared ==
    ASSUME CacheTyped, FilesShared, NEW keys \in SUBSET CacheKeys, Unlinked(keys),
           \A p \in CacheProcs : ProcFits(p),
           ~shared' => ~shared /\ \A p \in CacheProcs : cachePc[p] # "write",
           UNCHANGED <<writing, behind, overlapped, kills>>, faulty \subseteq faulty'
    PROVE  /\ FilesShared'
           /\ \A p \in CacheProcs : cachePc[p] # "write" => p \notin detached' \cup behind'
<1>1. \A k \in CacheKeys : disk'[k] = IF k \in keys THEN None ELSE disk[k]
  BY DEF CacheTyped, Unlinked
<1>2. TornFile # None /\ None \notin CacheKeys
  BY FileCacheAssumption DEF None, TornFile
<1>3. \A k \in CacheKeys : Writers(k)' = IF k \in keys THEN {} ELSE Writers(k)
  BY DEF Writers, Unlinked
<1>4. \A p \in CacheProcs : cachePc[p] # "write" => writing[p].key \notin keys
  BY <1>2 DEF ProcFits, NoWrite
<1>5. \A p \in CacheProcs : cachePc[p] # "write" => p \notin detached' \cup behind'
  BY <1>4 DEF ProcFits, Unlinked
<1>6. ~shared' => detached' = {} /\ behind' = {}
  BY <1>4 DEF FilesShared, Unlinked
<1>7. \A k \in CacheKeys : Torn(k)' => Torn(k) /\ k \notin keys
  BY <1>1, <1>2 DEF Torn
<1>8. \A p \in behind' : writing'[p].key \in overlapped'
  BY DEF FilesShared
<1>9. \A k \in CacheKeys \ overlapped' : \A p, q \in Writers(k)' : p = q
  BY <1>3 DEF FilesShared
<1>10. \A k \in CacheKeys : Torn(k)' =>
           kills' > 0 \/ k \in faulty' \cup overlapped' \/ Writers(k)' # {}
  BY <1>3, <1>7 DEF FilesShared
<1>11. QED
  BY <1>5, <1>6, <1>8, <1>9, <1>10 DEF FilesShared

LEMMA FewerFiles ==
    ASSUME NEW S \in SUBSET CacheKeys, NEW T \in SUBSET S, Cardinality(S) <= CacheSize
    PROVE  Cardinality(T) <= CacheSize
  BY FilesAreFinite, FS_Subset, FileCacheAssumption

LEMMA OpenKept ==
    ASSUME CacheInductive, NEW p \in CacheProcs, Open(p)
    PROVE  CacheInductive'
<1> USE DEF CacheInductive
<1> DEFINE old == {k \in CacheKeys : disk[k] \in expired}
<1>1. /\ UNCHANGED <<writing, behind, expired, sets, faulty, overlapped, ioFaults, kills>>
      /\ cachePc[p] = "down"
      /\ shared' = (shared \/ \E q \in CacheProcs : Up(q))
  BY DEF Open
<1>2. shared' \in BOOLEAN /\ (~shared' => ~shared /\ \A q \in CacheProcs : ~Up(q))
  BY <1>1 DEF CacheTyped
<1>3. CASE /\ \E k \in CacheKeys : Torn(k)
           /\ \E gone \in SUBSET old : gone # {} /\ Unlinked(gone)
           /\ UNCHANGED <<entries, lru, cachePc>>
  <2>1. PICK gone \in SUBSET CacheKeys : Unlinked(gone)
    BY <1>3
  <2>2. /\ disk' \in [CacheKeys -> 0..TornFile] /\ written' \in Orders
        /\ Files' = Files \ gone /\ FilesOrdered' /\ detached' \subseteq CacheProcs
        /\ FilesShared'
        /\ \A q \in CacheProcs : cachePc[q] # "write" => q \notin detached' \cup behind'
    BY <1>1, <1>2, <2>1, FilesGo, UnlinkedShared DEF Up
  <2>3. CacheTyped'
    BY <1>1, <1>2, <1>3, <2>2 DEF CacheTyped, Orders
  <2>4. (\A q \in CacheProcs : ProcFits(q))' /\ ListHoldsAll'
    BY <1>1, <1>3, <2>2 DEF ProcFits, Held, ListHoldsAll, InOrder
  <2>5. Alone'
    <3>1. ~shared' => \A q \in CacheProcs : ~Up(q)'
      BY <1>2, <1>3 DEF Up
    <3>2. (~shared' /\ faulty' = {}) => Cardinality(Files') <= CacheSize
      BY <1>1, <1>2, <2>2, FewerFiles DEF Alone, Files
    <3>3. QED
      BY <3>1, <3>2 DEF Alone
  <2>6. QED
    BY <2>2, <2>3, <2>4, <2>5
<1>4. CASE /\ \A k \in CacheKeys : ~Torn(k)
           /\ Unlinked(old)
           /\ entries' = [entries EXCEPT ![p] = [k \in CacheKeys |-> IF k \in old THEN None ELSE disk[k]]]
           /\ lru' = [lru EXCEPT ![p] = written']
           /\ cachePc' = [cachePc EXCEPT ![p] = "idle"]
  <2>1. /\ disk' \in [CacheKeys -> 0..TornFile] /\ written' \in Orders
        /\ \A k \in CacheKeys : disk'[k] = IF k \in old THEN None ELSE disk[k]
        /\ InOrder(written') = InOrder(written) \ old
        /\ Files' = Files \ old /\ FilesOrdered' /\ detached' \subseteq CacheProcs
        /\ FilesShared'
        /\ \A q \in CacheProcs : cachePc[q] # "write" => q \notin detached' \cup behind'
    BY <1>1, <1>2, <1>4, FilesGo, UnlinkedShared DEF Up
  <2> DEFINE loaded == [k \in CacheKeys |-> IF k \in old THEN None ELSE disk[k]]
  <2>2. loaded \in [CacheKeys -> 0..MaxSets] /\ \A k \in CacheKeys : loaded[k] = disk'[k]
    <3>1. \A k \in CacheKeys : disk[k] \in 0..MaxSets
      BY <1>4, FileCacheAssumption DEF CacheTyped, Torn, TornFile
    <3>2. QED
      BY <2>1, <3>1, FileCacheAssumption DEF None
  <2>3. entries' = [entries EXCEPT ![p] = loaded]
    BY <1>4
  <2> HIDE DEF loaded
  <2>4. /\ entries' \in [CacheProcs -> [CacheKeys -> 0..MaxSets]] /\ entries'[p] = loaded
        /\ \A q \in CacheProcs : q # p => entries'[q] = entries[q]
    BY <2>2, <2>3 DEF CacheTyped
  <2>5. /\ lru' \in [CacheProcs -> Orders] /\ lru'[p] = written'
        /\ \A q \in CacheProcs : q # p => lru'[q] = lru[q]
    BY <1>4, <2>1 DEF CacheTyped, Orders
  <2>6. /\ cachePc' \in [CacheProcs -> CachePc] /\ cachePc'[p] = "idle"
        /\ \A q \in CacheProcs : q # p => cachePc'[q] = cachePc[q]
    BY <1>4 DEF CacheTyped, CachePc
  <2>7. CacheTyped'
    BY <1>1, <1>2, <2>1, <2>4, <2>5, <2>6 DEF CacheTyped, Orders
  <2>8. (\A q \in CacheProcs : ProcFits(q))'
    BY <1>1, <2>1, <2>4, <2>5, <2>6 DEF ProcFits, Held
  <2>9. ListHoldsAll'
    <3>1. Held(p)' = InOrder(lru'[p])
      <4>1. \A k \in CacheKeys : k \in InOrder(written') <=> disk'[k] # None
        <5>1. \A k \in CacheKeys : k \in InOrder(written) <=> disk[k] # None
          BY <1>4 DEF FilesOrdered
        <5>2. QED
          BY <2>1, <5>1
      <4>2. InOrder(written') \subseteq CacheKeys
        BY DEF InOrder
      <4>3. QED
        BY <2>2, <2>4, <2>5, <4>1, <4>2 DEF Held
    <3>2. \A q \in CacheProcs : q # p => Held(q)' = Held(q)
      BY <2>4 DEF Held
    <3>3. QED
      BY <1>1, <2>5, <3>1, <3>2 DEF ListHoldsAll, InOrder
  <2>10. Alone'
    <3>1. ~shared' => \A q \in CacheProcs : Up(q)' => q = p
      BY <1>2, <2>6 DEF Up
    <3>2. OnOwn(p)'
      BY <2>2, <2>4, <2>5, <2>6 DEF OnOwn, InWrite
    <3>3. (~shared' /\ faulty' = {}) => Cardinality(Files') <= CacheSize
      BY <1>1, <1>2, <2>1, FewerFiles DEF Alone, Files
    <3>4. QED
      BY <3>1, <3>2, <3>3 DEF Alone
  <2>11. QED
    BY <2>1, <2>7, <2>8, <2>9, <2>10
<1>5. QED
  BY <1>3, <1>4 DEF Open

\* The end of a write, or of a process.  Only what is excused may be torn now
\* that is not still written by another one.
LEMMA WriterLeaves ==
    ASSUME CacheTyped, FilesShared, Alone, NEW p \in CacheProcs, Up(p),
           \A q \in CacheProcs : ProcFits(q),
           writing' = [writing EXCEPT ![p] = NoWrite], detached' = detached \ {p},
           \/ behind' = behind \ {p}
           \/ /\ cachePc[p] = "write" /\ p \notin detached
              /\ behind' = (behind \cup Writers(writing[p].key)) \ {p},
           UNCHANGED <<overlapped, shared>>, faulty \subseteq faulty', kills' \in {kills, kills + 1},
           \A j \in CacheKeys : Torn(j)' =>
               \/ kills' > 0 \/ j \in faulty' \cup overlapped
               \/ Torn(j) /\ p \notin Writers(j)
    PROVE  FilesShared' /\ \A q \in detached' \cup behind' : q # p /\ cachePc[q] = "write"
<1>1. /\ writing'[p].key = None /\ None \notin CacheKeys
      /\ \A q \in CacheProcs : q # p => writing'[q] = writing[q]
  BY FileCacheAssumption DEF CacheTyped, NoWrite, None
<1>2. \A j \in CacheKeys : Writers(j)' = Writers(j) \ {p}
  BY <1>1 DEF Writers
<1>3. ASSUME NEW q \in behind'
      PROVE  q \in CacheProcs /\ q # p /\ cachePc[q] = "write" /\ writing[q].key \in overlapped /\ shared
  <2>1. CASE q \in behind
    BY <2>1, <1>3 DEF CacheTyped, FilesShared, ProcFits
  <2>2. CASE q \notin behind
    <3>1. p \notin detached /\ q \in Writers(writing[p].key) /\ q # p
      BY <1>3, <2>2
    <3>2. q \in CacheProcs /\ q \notin detached /\ writing[q].key = writing[p].key
      BY <3>1 DEF Writers
    <3>3. cachePc[p] = "write" /\ writing[p].key \in CacheKeys
      BY <1>3, <2>2 DEF ProcFits
    <3>4. cachePc[q] = "write"
      BY <1>1, <3>2, <3>3 DEF ProcFits, NoWrite
    <3>5. p \in Writers(writing[p].key) /\ q \in Writers(writing[p].key)
      BY <3>1, <3>2 DEF Writers
    <3>6. writing[q].key \in overlapped
      BY <3>1, <3>2, <3>3, <3>5 DEF FilesShared
    <3>7. shared
      BY <3>1, <3>2, <3>4 DEF Alone, Up, CacheTyped
    <3>8. QED
      BY <3>1, <3>2, <3>4, <3>6, <3>7
  <2>3. QED
    BY <2>1, <2>2
<1>4. \A q \in detached' : q \in CacheProcs /\ q # p /\ cachePc[q] = "write"
  BY DEF CacheTyped, ProcFits
<1>5. ~shared' => detached' = {} /\ behind' = {}
  BY <1>3 DEF FilesShared
<1>6. \A q \in behind' : writing'[q].key \in overlapped'
  BY <1>1, <1>3
<1>7. \A j \in CacheKeys \ overlapped' : \A q, r \in Writers(j)' : q = r
  BY <1>2 DEF FilesShared
<1>8. ASSUME NEW j \in CacheKeys, Torn(j)'
      PROVE  kills' > 0 \/ j \in faulty' \cup overlapped' \/ Writers(j)' # {}
  <2>1. CASE Torn(j) /\ p \notin Writers(j)
    <3>1. kills > 0 \/ j \in faulty \cup overlapped \/ Writers(j) # {}
      BY <2>1 DEF FilesShared
    <3>2. kills > 0 => kills' > 0
      BY DEF CacheTyped
    <3>3. Writers(j)' = Writers(j)
      BY <1>2, <2>1
    <3>4. QED
      BY <3>1, <3>2, <3>3
  <2>2. QED
    BY <1>8, <2>1
<1>9. QED
  BY <1>3, <1>4, <1>5, <1>6, <1>7, <1>8 DEF FilesShared

LEMMA ExitKept ==
    ASSUME CacheInductive, NEW p \in CacheProcs, Exit(p)
    PROVE  CacheInductive'
<1> USE DEF CacheInductive
<1>1. /\ UNCHANGED <<written, expired, sets, faulty, overlapped, shared, ioFaults>>
      /\ cachePc' = [cachePc EXCEPT ![p] = "down"] /\ writing' = [writing EXCEPT ![p] = NoWrite]
      /\ entries' = [entries EXCEPT ![p] = [k \in CacheKeys |-> None]]
      /\ lru' = [lru EXCEPT ![p] = {}] /\ Up(p)
      /\ \/ cachePc[p] = "idle" /\ UNCHANGED <<disk, behind, detached, kills>>
         \/ cachePc[p] = "write" /\ kills' = kills + 1 /\ WriteCutShort(p)
  BY DEF Exit
<1>2. /\ NoWrite \in [by : {"none", "set", "get"}, key : CacheKeys \cup {None}, id : 0..MaxSets]
      /\ [k \in CacheKeys |-> None] \in [CacheKeys -> 0..MaxSets]
  BY FileCacheAssumption DEF NoWrite, None
<1>3. /\ cachePc' \in [CacheProcs -> CachePc] /\ cachePc'[p] = "down"
      /\ \A q \in CacheProcs : q # p => cachePc'[q] = cachePc[q] /\ writing'[q] = writing[q]
                                        /\ entries'[q] = entries[q] /\ lru'[q] = lru[q]
      /\ entries'[p] = [k \in CacheKeys |-> None] /\ lru'[p] = {} /\ writing'[p] = NoWrite
  BY <1>1 DEF CacheTyped, CachePc
<1>4. /\ kills' \in Nat /\ kills' \in {kills, kills + 1}
      /\ detached' = detached \ {p}
      /\ cachePc[p] = "write" => kills' > 0
      /\ \/ behind' = behind \ {p}
         \/ /\ cachePc[p] = "write" /\ p \notin detached
            /\ behind' = (behind \cup Writers(writing[p].key)) \ {p}
  BY <1>1 DEF CacheTyped, WriteCutShort, ProcFits
<1>d. /\ disk' \in [CacheKeys -> 0..TornFile] /\ behind' \subseteq CacheProcs
      /\ \/ disk' = disk
         \/ /\ cachePc[p] = "write" /\ kills' > 0 /\ p \notin detached
            /\ \A j \in CacheKeys : disk'[j] = IF j = writing[p].key THEN TornFile ELSE disk[j]
  <2>1. TornFile \in 0..TornFile
    BY FileCacheAssumption DEF TornFile
  <2>2. behind' \subseteq CacheProcs
    BY <1>4 DEF CacheTyped, Writers
  <2>3. CASE disk' = disk
    BY <2>2, <2>3 DEF CacheTyped
  <2>4. CASE disk' # disk
    <3>1. /\ cachePc[p] = "write" /\ kills' = kills + 1 /\ p \notin detached
          /\ disk' = [disk EXCEPT ![writing[p].key] = TornFile]
      BY <1>1, <2>4 DEF WriteCutShort
    <3>2. disk \in [CacheKeys -> 0..TornFile] /\ kills' > 0
      BY <1>4, <3>1 DEF CacheTyped
    <3>3. QED
      BY <2>1, <2>2, <3>1, <3>2
  <2>5. QED
    BY <2>3, <2>4
<1>s. FilesShared' /\ \A q \in detached' \cup behind' : q # p /\ cachePc[q] = "write"
  <2>1. \A j \in CacheKeys : Torn(j)' => kills' > 0 \/ (Torn(j) /\ p \notin Writers(j))
    <3>1. CASE cachePc[p] = "write"
      BY <1>4, <3>1
    <3>2. CASE cachePc[p] = "idle"
      <4>1. writing[p].key \notin CacheKeys
        BY <3>2, FileCacheAssumption DEF ProcFits, NoWrite, None
      <4>2. QED
        BY <1>1, <3>2, <4>1 DEF Torn, Writers
    <3>3. QED
      BY <1>1, <3>1, <3>2
  <2>2. QED
    BY <1>1, <1>4, <2>1, WriterLeaves
<1>5. CacheTyped'
  BY <1>1, <1>2, <1>3, <1>4, <1>d DEF CacheTyped
<1>6. (\A q \in CacheProcs : ProcFits(q))'
  BY <1>1, <1>3, <1>4, <1>s DEF ProcFits, Held
<1>t. TornFile # None
  BY FileCacheAssumption DEF None, TornFile
<1>7. FilesOrdered'
  BY <1>1, <1>d, <1>t DEF FilesOrdered, InOrder, Torn
<1>8. ListHoldsAll'
  BY <1>1, <1>3 DEF ListHoldsAll, Held, InOrder
<1>9. Alone'
  <2>1. \A q \in CacheProcs : Up(q)' => q # p /\ Up(q)
    BY <1>3 DEF Up
  <2>2. \A q \in CacheProcs : Up(q)' => (~shared => FALSE)
    BY <1>1, <2>1 DEF Alone
  <2>3. ASSUME ~shared', faulty' = {}
        PROVE  Cardinality(Files') <= CacheSize
    <3>1. Cardinality(Files) <= CacheSize /\ OnOwn(p)
      BY <1>1, <2>3 DEF Alone
    <3>2. Files' = Files
      BY <1>1, <1>d, <1>t, <2>3, <3>1 DEF OnOwn, InWrite, Files
    <3>3. QED
      BY <3>1, <3>2
  <2>4. QED
    BY <1>1, <2>2, <2>3 DEF Alone
<1>10. QED
  BY <1>5, <1>6, <1>7, <1>8, <1>9, <1>s

-----------------------------------------------------------------------------
(* A write: it truncates the file, and then writes it *)

LEMMA TruncateStarts ==
    ASSUME CacheTyped, NEW p \in CacheProcs, NEW by \in {"set", "get"}, NEW k \in CacheKeys,
           NEW id \in EntryIds, NEW files \in [CacheKeys -> 0..TornFile], Truncate(p, by, k, id, files)
    PROVE  /\ disk' \in [CacheKeys -> 0..TornFile]
           /\ \A j \in CacheKeys : disk'[j] = IF j = k THEN TornFile ELSE files[j]
           /\ writing' \in [CacheProcs -> [by : {"none", "set", "get"}, key : CacheKeys \cup {None}, id : 0..MaxSets]]
           /\ writing'[p].by = by /\ writing'[p].key = k /\ writing'[p].id = id
           /\ \A q \in CacheProcs : q # p => writing'[q] = writing[q] /\ cachePc'[q] = cachePc[q]
           /\ cachePc' \in [CacheProcs -> CachePc] /\ cachePc'[p] = "write"
<1> DEFINE w == [by |-> by, key |-> k, id |-> id]
<1>1. w \in [by : {"none", "set", "get"}, key : CacheKeys \cup {None}, id : 0..MaxSets]
        /\ w.by = by /\ w.key = k /\ w.id = id
  BY FileCacheAssumption DEF EntryIds
<1>2. writing' = [writing EXCEPT ![p] = w] /\ disk' = [files EXCEPT ![k] = TornFile]
        /\ cachePc' = [cachePc EXCEPT ![p] = "write"]
  BY DEF Truncate
<1> HIDE DEF w
<1>3. writing' \in [CacheProcs -> [by : {"none", "set", "get"}, key : CacheKeys \cup {None}, id : 0..MaxSets]]
        /\ writing'[p] = w /\ \A q \in CacheProcs : q # p => writing'[q] = writing[q]
  BY <1>1, <1>2 DEF CacheTyped
<1>4. disk' \in [CacheKeys -> 0..TornFile]
        /\ \A j \in CacheKeys : disk'[j] = IF j = k THEN TornFile ELSE files[j]
  BY <1>2, FileCacheAssumption DEF TornFile
<1>5. cachePc' \in [CacheProcs -> CachePc] /\ cachePc'[p] = "write"
        /\ \A q \in CacheProcs : q # p => cachePc'[q] = cachePc[q]
  BY <1>2 DEF CacheTyped, CachePc
<1>6. QED
  BY <1>1, <1>3, <1>4, <1>5

\* The first half of a write, after an eviction or none.
Begins(p, by, k, id, gone, files) ==
    /\ cachePc[p] = "idle"
    /\ \A j \in CacheKeys : files[j] = IF j \in gone THEN None ELSE disk[j]
    /\ Truncate(p, by, k, id, files) /\ k \notin gone
    /\ written' = Without(written, gone)
    /\ entries' \in [CacheProcs -> [CacheKeys -> 0..MaxSets]]
    /\ \A j \in CacheKeys : entries'[p][j] = IF j \in gone THEN None ELSE entries[p][j]
    /\ \A q \in CacheProcs : q # p => entries'[q] = entries[q] /\ lru'[q] = lru[q]
    /\ lru' \in [CacheProcs -> Orders]
    /\ InOrder(lru'[p]) = InOrder(lru[p]) \ gone
    /\ by = "get" => gone = {} /\ entries[p][k] = id
    /\ ~shared /\ faulty = {} =>
           /\ by = "get" => lru'[p] = ToFront(written, k)
           /\ by = "set" => lru'[p] = Without(lru[p], gone)
           /\ Cardinality((Files \ gone) \cup {k}) <= CacheSize
    /\ detached' = detached \cup {q \in CacheProcs : q \notin detached /\ writing[q].key \in gone}
    /\ UNCHANGED <<expired, faulty, shared, kills>> /\ sets' \in 0..MaxSets /\ ioFaults' \in Nat

LEMMA WriteBegins ==
    ASSUME CacheInductive, NEW p \in CacheProcs, NEW by \in {"set", "get"}, NEW k \in CacheKeys,
           NEW id \in EntryIds, NEW gone \in SUBSET CacheKeys, NEW files \in [CacheKeys -> 0..TornFile],
           Begins(p, by, k, id, gone, files)
    PROVE  CacheInductive'
<1> USE DEF CacheInductive, Begins
<1>1. /\ disk' \in [CacheKeys -> 0..TornFile]
      /\ \A j \in CacheKeys : disk'[j] = IF j = k THEN TornFile ELSE IF j \in gone THEN None ELSE disk[j]
      /\ writing' \in [CacheProcs -> [by : {"none", "set", "get"}, key : CacheKeys \cup {None}, id : 0..MaxSets]]
      /\ writing'[p].by = by /\ writing'[p].key = k /\ writing'[p].id = id
      /\ \A q \in CacheProcs : q # p => writing'[q] = writing[q] /\ cachePc'[q] = cachePc[q]
      /\ cachePc' \in [CacheProcs -> CachePc] /\ cachePc'[p] = "write"
  BY TruncateStarts
<1>2. /\ written' \in Orders /\ InOrder(written') = InOrder(written) \ gone
      /\ \A pair \in written' : pair[1] \in InOrder(written')
      /\ InOrder(written) \subseteq CacheKeys
  <2>1. written \in Orders /\ written' = Without(written, gone) /\ InOrder(written) \subseteq CacheKeys
    BY DEF CacheTyped, Orders, InOrder
  <2>2. QED
    BY <2>1, WithoutKeys DEF FilesOrdered
<1>w. /\ overlapped' = (IF Writers(k) = {} THEN overlapped ELSE overlapped \cup {k})
      /\ behind' = behind \ Writers(k)
  BY DEF Truncate
<1>3. CacheTyped'
  BY <1>1, <1>2, <1>w DEF CacheTyped, Orders
<1>s. FilesShared' /\ \A q \in detached' \cup behind' : q # p /\ cachePc[q] = "write"
  <2>1. /\ writing[p].key = None /\ None \notin CacheKeys /\ p \notin detached \cup behind
        /\ TornFile # None
    BY FileCacheAssumption DEF ProcFits, NoWrite, None, TornFile
  <2>2. p \notin detached'
    BY <2>1
  <2>3. \A j \in CacheKeys : Writers(j)' = IF j = k THEN Writers(j) \cup {p}
                                          ELSE IF j \in gone THEN {} ELSE Writers(j)
    BY <1>1, <2>1, <2>2 DEF Writers
  <2>4. \A q \in detached' \cup behind' : q \in CacheProcs /\ q # p /\ cachePc[q] = "write"
    <3>1. \A q \in CacheProcs : cachePc[q] # "write" =>
              writing[q].key = None /\ q \notin detached \cup behind
      BY DEF ProcFits, NoWrite
    <3>2. detached \subseteq CacheProcs /\ behind \subseteq CacheProcs
      BY DEF CacheTyped
    <3>3. QED
      BY <1>w, <2>1, <3>1, <3>2
  <2>5. ~shared' => detached' = {} /\ behind' = {}
    <3>1. ~shared => \A q \in CacheProcs : cachePc[q] = "write" => q = p
      BY DEF Alone, Up
    <3>2. \A q \in detached' \cup behind' : q \in CacheProcs /\ q # p /\ cachePc[q] = "write"
      BY <2>4
    <3>3. shared' = shared
      OBVIOUS
    <3> HIDE DEF CacheInductive, Begins
    <3>4. QED
      BY <3>1, <3>2, <3>3
  <2>6. \A q \in behind' : writing'[q].key \in overlapped'
    BY <1>1, <1>w, <2>1, <2>4 DEF FilesShared, CacheTyped
  <2>7. \A j \in CacheKeys \ overlapped' : \A q, r \in Writers(j)' : q = r
    <3>1. \A j \in CacheKeys \ overlapped' : j = k => Writers(j) = {}
      BY <1>w
    <3>2. QED
      BY <1>w, <2>3, <3>1 DEF FilesShared
  <2>8. ASSUME NEW j \in CacheKeys, Torn(j)'
        PROVE  kills' > 0 \/ j \in faulty' \cup overlapped' \/ Writers(j)' # {}
    <3>1. CASE j = k
      BY <2>3, <3>1
    <3>2. CASE j # k
      <4>1. Torn(j) /\ j \notin gone
        BY <1>1, <2>1, <2>8, <3>2 DEF Torn
      <4>2. QED
        BY <1>w, <2>3, <3>2, <4>1 DEF FilesShared
    <3>3. QED
      BY <3>1, <3>2
  <2>9. QED
    BY <2>4, <2>5, <2>6, <2>7, <2>8 DEF FilesShared
<1>4. (\A q \in CacheProcs : ProcFits(q))'
  <2>1. id # None /\ \A q \in CacheProcs : q # p => entries'[q] = entries[q] /\ lru'[q] = lru[q]
    BY FileCacheAssumption DEF EntryIds, None
  <2>2. \A q \in CacheProcs : ProcFits(q)
    OBVIOUS
  <2> HIDE DEF CacheInductive, Begins
  <2>3. ProcFits(p)'
    BY <1>1, <2>1 DEF ProcFits
  <2>4. ASSUME NEW q \in CacheProcs, q # p
        PROVE  ProcFits(q)'
    <3>1. Held(q)' = Held(q)
      BY <2>1, <2>4 DEF Held
    <3>2. QED
      BY <1>1, <1>s, <2>1, <2>2, <2>4, <3>1 DEF ProcFits
  <2>5. QED
    BY <2>3, <2>4
<1>5. TornFile # None
  BY FileCacheAssumption DEF None, TornFile
<1>6. FilesOrdered'
  BY <1>1, <1>2, <1>5 DEF FilesOrdered, Torn
<1>7. ListHoldsAll'
  <2>1. Held(p)' = Held(p) \ gone /\ \A q \in CacheProcs : q # p => Held(q)' = Held(q)
    BY DEF Held
  <2>2. InOrder(lru'[p]) = InOrder(lru[p]) \ gone /\ faulty' = faulty
          /\ \A q \in CacheProcs : q # p => lru'[q] = lru[q]
    OBVIOUS
  <2> HIDE DEF CacheInductive, Begins
  <2>3. ListHoldsAll
    BY DEF CacheInductive
  <2>4. \A q \in CacheProcs : InOrder(lru'[q]) \subseteq Held(q)'
    BY <2>1, <2>2, <2>3 DEF ListHoldsAll
  <2>5. faulty' = {} => \A q \in CacheProcs : Held(q)' = InOrder(lru'[q])
    BY <2>1, <2>2, <2>3 DEF ListHoldsAll
  <2>6. QED
    BY <2>4, <2>5 DEF ListHoldsAll, InOrder
<1>8. Files' = (Files \ gone) \cup {k}
  BY <1>1, <1>5 DEF Files
<1>9. Alone'
  <2>1. \A q \in CacheProcs : Up(q)' <=> Up(q)
    BY <1>1 DEF Up
  <2>2. Up(p)
    BY DEF Up
  <2>3. ~shared => OnOwn(p)'
    <3>1. ASSUME ~shared, NEW j \in CacheKeys \ faulty, j # k
          PROVE  disk'[j] = entries'[p][j]
      <4>1. disk[j] = entries[p][j]
        BY <2>2, <3>1 DEF Alone, OnOwn, InWrite
      <4>2. QED
        BY <1>1, <3>1, <4>1
    <3>2. disk'[k] = TornFile /\ (by = "get" => entries'[p][k] = id)
      BY <1>1
    <3>3. ASSUME ~shared, faulty = {}
          PROVE  lru'[p] = IF by = "get" THEN ToFront(written', k) ELSE written'
      <4>1. lru[p] = written
        BY <2>2, <3>3 DEF Alone, OnOwn
      <4>2. CASE by = "get"
        <5>1. written' = written
          BY <4>2 DEF Without, CacheTyped
        <5>2. QED
          BY <3>3, <4>2, <5>1
      <4>3. CASE by = "set"
        BY <3>3, <4>1, <4>3
      <4>4. QED
        BY <4>2, <4>3
    <3>4. QED
      BY <1>1, <3>1, <3>2, <3>3 DEF OnOwn, InWrite
  <2>4. QED
    BY <1>8, <2>1, <2>2, <2>3 DEF Alone
<1>10. QED
  BY <1>3, <1>4, <1>6, <1>7, <1>9, <1>s

LEMMA SetKept ==
    ASSUME CacheInductive, NEW p \in CacheProcs, NEW k \in CacheKeys, Set(p, k)
    PROVE  CacheInductive'
<1> USE DEF CacheInductive
<1>1. /\ cachePc[p] = "idle" /\ sets < MaxSets /\ sets' = sets + 1
      /\ UNCHANGED <<expired, faulty, shared, ioFaults, kills>>
  BY DEF Set
<1>2. sets + 1 \in EntryIds /\ sets' \in 0..MaxSets /\ ioFaults' \in Nat
  BY <1>1, FileCacheAssumption DEF CacheTyped, EntryIds
<1>3. (~shared /\ faulty = {}) => Files = Held(p) /\ lru[p] = written /\ Cardinality(Files) <= CacheSize
  BY <1>1 DEF Alone, OnOwn, InWrite, Up, Files, Held
<1>4. Held(p) \in SUBSET CacheKeys /\ IsFiniteSet(Held(p)) /\ Cardinality(Held(p)) \in Nat
  BY FilesAreFinite DEF Held
<1>5. PICK id \in EntryIds : id = sets + 1
  BY <1>2
<1>6. CASE /\ ~MustEvict(p, k)
           /\ Truncate(p, "set", k, sets + 1, disk)
           /\ UNCHANGED <<lru, entries, written, detached>>
  <2>1. written' = Without(written, {}) /\ lru'[p] = Without(lru[p], {})
    BY <1>6 DEF Without, CacheTyped
  <2>2. ASSUME ~shared, faulty = {}
        PROVE  Cardinality((Files \ {}) \cup {k}) <= CacheSize
    <3>1. CASE k \in Held(p)
      <4>1. (Files \ {}) \cup {k} = Files
        BY <1>3, <2>2, <3>1
      <4>2. QED
        BY <1>3, <2>2, <4>1
    <3>2. CASE k \notin Held(p)
      <4>1. Cardinality(Held(p)) < CacheSize
        <5>1. CASE lru[p] = {}
          <6>1. Held(p) = {}
            BY <2>2, <5>1 DEF ListHoldsAll, InOrder
          <6>2. QED
            BY <6>1, FS_EmptySet, FileCacheAssumption
        <5>2. CASE lru[p] # {}
          BY <1>4, <1>6, <3>2, <5>2, FileCacheAssumption DEF MustEvict
        <5>3. QED
          BY <5>1, <5>2
      <4>2. Cardinality(Held(p) \cup {k}) = Cardinality(Held(p)) + 1
        BY <1>4, <3>2, FS_AddElement
      <4>3. (Files \ {}) \cup {k} = Held(p) \cup {k}
        BY <1>3, <2>2
      <4>4. QED
        BY <1>4, <4>1, <4>2, <4>3, FileCacheAssumption
    <3>3. QED
      BY <3>1, <3>2
  <2>3. /\ disk \in [CacheKeys -> 0..TornFile] /\ entries' \in [CacheProcs -> [CacheKeys -> 0..MaxSets]]
        /\ lru' \in [CacheProcs -> Orders] /\ "set" \in {"set", "get"} /\ {} \in SUBSET CacheKeys
        /\ InOrder(lru'[p]) = InOrder(lru[p]) \ {}
        /\ \A q \in CacheProcs : q # p => entries'[q] = entries[q] /\ lru'[q] = lru[q]
        /\ \A j \in CacheKeys : entries'[p][j] = entries[p][j]
        /\ detached' = detached \cup {q \in CacheProcs : q \notin detached /\ writing[q].key \in {}}
    BY <1>6 DEF CacheTyped, Orders
  <2>4. PICK files \in [CacheKeys -> 0..TornFile] : files = disk
    BY <2>3
  <2>5. Truncate(p, "set", k, id, files)
    BY <1>5, <1>6, <2>4
  <2>6. QED
    <3>1. Begins(p, "set", k, id, {}, files)
      BY <1>1, <1>2, <2>1, <2>2, <2>3, <2>4, <2>5 DEF Begins
    <3>2. QED
      BY <2>3, <3>1, WriteBegins
<1>7. ASSUME MustEvict(p, k), NEW victim \in InOrder(lru[p]),
             lru' = [lru EXCEPT ![p] = Without(@, {victim})],
             entries' = [entries EXCEPT ![p][victim] = None],
             written' = Without(written, {victim}),
             detached' = detached \cup Writers(victim),
             Truncate(p, "set", k, sets + 1, [disk EXCEPT ![victim] = None])
      PROVE  CacheInductive'
  <2>1. /\ victim \in CacheKeys /\ Cardinality(Held(p)) >= CacheSize /\ k \notin Held(p)
        /\ victim \in Held(p) /\ k # victim
    BY <1>7 DEF InOrder, MustEvict, ListHoldsAll
  <2>2. PICK files \in [CacheKeys -> 0..TornFile] : files = [disk EXCEPT ![victim] = None]
    <3>1. None \in 0..TornFile /\ disk \in [CacheKeys -> 0..TornFile]
      BY FileCacheAssumption DEF CacheTyped, None, TornFile
    <3>2. [disk EXCEPT ![victim] = None] \in [CacheKeys -> 0..TornFile]
      BY <2>1, <3>1
    <3>3. QED
      BY <3>2
  <2>3. \A j \in CacheKeys : files[j] = IF j \in {victim} THEN None ELSE disk[j]
    BY <2>2 DEF CacheTyped
  <2>4. Without(lru[p], {victim}) \in Orders
          /\ InOrder(Without(lru[p], {victim})) = InOrder(lru[p]) \ {victim}
    BY WithoutKeys DEF CacheTyped, Orders
  <2>5. lru' \in [CacheProcs -> Orders] /\ lru'[p] = Without(lru[p], {victim})
          /\ \A q \in CacheProcs : q # p => lru'[q] = lru[q]
    BY <1>7, <2>4 DEF CacheTyped, Orders
  <2>6. /\ entries' \in [CacheProcs -> [CacheKeys -> 0..MaxSets]]
        /\ \A j \in CacheKeys : entries'[p][j] = IF j \in {victim} THEN None ELSE entries[p][j]
        /\ \A q \in CacheProcs : q # p => entries'[q] = entries[q]
    <3>1. PICK held \in [CacheKeys -> 0..MaxSets] : held = [entries[p] EXCEPT ![victim] = None]
      <4>1. None \in 0..MaxSets /\ entries[p] \in [CacheKeys -> 0..MaxSets]
        BY FileCacheAssumption DEF CacheTyped, None
      <4>2. [entries[p] EXCEPT ![victim] = None] \in [CacheKeys -> 0..MaxSets]
        BY <2>1, <4>1
      <4>3. QED
        BY <4>2
    <3>2. entries' = [entries EXCEPT ![p] = held]
      BY <1>7, <3>1
    <3>3. \A j \in CacheKeys : held[j] = IF j \in {victim} THEN None ELSE entries[p][j]
      BY <3>1 DEF CacheTyped
    <3>4. QED
      BY <3>2, <3>3 DEF CacheTyped
  <2>7. ASSUME ~shared, faulty = {}
        PROVE  Cardinality((Files \ {victim}) \cup {k}) <= CacheSize
    <3>1. Cardinality(Held(p) \ {victim}) = Cardinality(Held(p)) - 1
            /\ IsFiniteSet(Held(p) \ {victim})
      BY <1>4, <2>1, FS_RemoveElement
    <3>2. Cardinality((Held(p) \ {victim}) \cup {k}) = Cardinality(Held(p) \ {victim}) + 1
      BY <2>1, <3>1, FS_AddElement
    <3>3. QED
      BY <1>3, <1>4, <2>7, <3>1, <3>2
  <2>8. Truncate(p, "set", k, id, files)
    BY <1>5, <1>7, <2>2
  <2>9. {victim} \in SUBSET CacheKeys /\ k \notin {victim} /\ "set" \in {"set", "get"}
    BY <2>1
  <2>10. /\ InOrder(lru'[p]) = InOrder(lru[p]) \ {victim}
         /\ detached' = detached \cup {q \in CacheProcs : q \notin detached /\ writing[q].key \in {victim}}
    BY <1>7, <2>4, <2>5 DEF Writers
  <2>11. QED
    <3>1. Begins(p, "set", k, id, {victim}, files)
      BY <1>1, <1>2, <1>7, <2>3, <2>5, <2>6, <2>7, <2>8, <2>9, <2>10 DEF Begins
    <3>2. QED
      BY <2>9, <3>1, WriteBegins
<1>8. QED
  BY <1>6, <1>7 DEF Set

LEMMA GetHitKept ==
    ASSUME CacheInductive, NEW p \in CacheProcs, NEW k \in CacheKeys, GetHit(p, k)
    PROVE  CacheInductive'
<1> USE DEF CacheInductive
<1>1. /\ cachePc[p] = "idle" /\ k \in Held(p)
      /\ lru' = [lru EXCEPT ![p] = IF k \in InOrder(@) THEN ToFront(@, k) ELSE @]
      /\ Truncate(p, "get", k, entries[p][k], disk)
      /\ UNCHANGED <<entries, written, detached, expired, sets, faulty, shared, ioFaults, kills>>
  BY DEF GetHit
<1>2. ToFront(lru[p], k) \in Orders /\ InOrder(ToFront(lru[p], k)) = InOrder(lru[p]) \cup {k}
  BY ToFrontAdds DEF CacheTyped, Orders
<1>3. /\ lru' \in [CacheProcs -> Orders] /\ InOrder(lru'[p]) = InOrder(lru[p]) \ {}
      /\ k \in InOrder(lru[p]) => lru'[p] = ToFront(lru[p], k)
      /\ \A q \in CacheProcs : q # p => lru'[q] = lru[q]
  <2>1. CASE k \in InOrder(lru[p])
    BY <1>1, <1>2, <2>1 DEF CacheTyped, Orders
  <2>2. CASE k \notin InOrder(lru[p])
    BY <1>1, <2>2 DEF CacheTyped, Orders
  <2>3. QED
    BY <2>1, <2>2
<1>4. ASSUME ~shared, faulty = {}
      PROVE  /\ lru'[p] = ToFront(written, k)
             /\ Cardinality((Files \ {}) \cup {k}) <= CacheSize
  <2>1. Files = Held(p) /\ lru[p] = written /\ Cardinality(Files) <= CacheSize
    BY <1>1, <1>4 DEF Alone, OnOwn, InWrite, Up, Files, Held
  <2>2. k \in InOrder(lru[p]) /\ (Files \ {}) \cup {k} = Files
    BY <1>1, <1>4, <2>1 DEF ListHoldsAll
  <2>3. QED
    BY <1>3, <2>1, <2>2
<1>5. PICK id \in EntryIds : id = entries[p][k]
  BY <1>1 DEF Held, CacheTyped, EntryIds, None
<1>6. PICK files \in [CacheKeys -> 0..TornFile] : files = disk
  BY DEF CacheTyped
<1>7. written' = Without(written, {})
  BY <1>1 DEF Without, CacheTyped
<1>8. Truncate(p, "get", k, id, files) /\ {} \in SUBSET CacheKeys /\ "get" \in {"set", "get"}
  BY <1>1, <1>5, <1>6
<1>9. entries' \in [CacheProcs -> [CacheKeys -> 0..MaxSets]] /\ sets' \in 0..MaxSets /\ ioFaults' \in Nat
  BY <1>1 DEF CacheTyped
<1>10. QED
  <2>1. Begins(p, "get", k, id, {}, files)
    BY <1>1, <1>3, <1>4, <1>5, <1>6, <1>7, <1>8, <1>9 DEF Begins
  <2>2. QED
    BY <1>8, <2>1, WriteBegins

-----------------------------------------------------------------------------
(* The end of a write *)

LEMMA WriteDoneKept ==
    ASSUME CacheInductive, NEW p \in CacheProcs, WriteDone(p)
    PROVE  CacheInductive'
<1> USE DEF CacheInductive
<1>1. /\ cachePc[p] = "write" /\ writing' = [writing EXCEPT ![p] = NoWrite]
      /\ cachePc' = [cachePc EXCEPT ![p] = "idle"]
      /\ UNCHANGED <<expired, sets, faulty, overlapped, shared, ioFaults, kills>>
      /\ detached' = detached \ {p} /\ Up(p)
  BY DEF WriteDone, Up
<1>2. PICK k \in CacheKeys : k = writing[p].key
  BY <1>1 DEF ProcFits
<1>3. PICK id \in EntryIds : id = writing[p].id
  BY <1>1 DEF ProcFits, CacheTyped, EntryIds, None
<1>4. /\ \/ p \in detached /\ UNCHANGED <<disk, written>>
         \/ /\ p \notin detached
            /\ disk' = [disk EXCEPT ![k] = id] /\ written' = ToFront(written, k)
         \/ /\ p \in behind \ detached
            /\ disk' = [disk EXCEPT ![k] = TornFile] /\ written' = written
      /\ behind' = (IF p \in detached THEN behind ELSE behind \cup Writers(k)) \ {p}
      /\ IF writing[p].by = "set"
         THEN /\ entries' = [entries EXCEPT ![p][k] = id]
              /\ lru' = [lru EXCEPT ![p] = ToFront(@, k)]
         ELSE UNCHANGED <<entries, lru>>
  BY <1>2, <1>3 DEF WriteDone
<1>5. /\ disk' \in [CacheKeys -> 0..TornFile]
      /\ \/ p \in detached /\ disk' = disk
         \/ /\ p \notin detached
            /\ \A j \in CacheKeys : disk'[j] = IF j = k THEN id ELSE disk[j]
         \/ /\ p \in behind \ detached
            /\ \A j \in CacheKeys : disk'[j] = IF j = k THEN TornFile ELSE disk[j]
      /\ id # None /\ id # TornFile /\ id \in 0..MaxSets /\ TornFile # None
  BY <1>4, FileCacheAssumption DEF CacheTyped, EntryIds, TornFile, None
<1>o. ~shared => /\ written' = ToFront(written, k)
                 /\ \A j \in CacheKeys : disk'[j] = IF j = k THEN id ELSE disk[j]
  <2>1. ~shared => p \notin detached \cup behind
    BY DEF FilesShared
  <2>2. QED
    BY <1>4, <1>5, <2>1
<1>6. /\ cachePc' \in [CacheProcs -> CachePc] /\ cachePc'[p] = "idle"
      /\ writing' \in [CacheProcs -> [by : {"none", "set", "get"}, key : CacheKeys \cup {None}, id : 0..MaxSets]]
      /\ writing'[p] = NoWrite
      /\ \A q \in CacheProcs : q # p => cachePc'[q] = cachePc[q] /\ writing'[q] = writing[q]
  <2>1. NoWrite \in [by : {"none", "set", "get"}, key : CacheKeys \cup {None}, id : 0..MaxSets]
    BY FileCacheAssumption DEF NoWrite, None
  <2>2. QED
    BY <1>1, <2>1 DEF CacheTyped, CachePc
<1>7. /\ written' \in Orders /\ InOrder(written') \in {InOrder(written), InOrder(written) \cup {k}}
      /\ p \notin detached => (disk'[k] = id => k \in InOrder(written'))
      /\ \A pair \in written' : pair[1] \in InOrder(written')
      /\ InOrder(written) \subseteq CacheKeys
      /\ k \in InOrder(written') => k \in InOrder(written) \/ p \notin detached
  <2>1. /\ written \in Orders /\ InOrder(written) \subseteq CacheKeys
        /\ \A pair \in written : pair[1] \in InOrder(written)
    BY DEF CacheTyped, Orders, InOrder, FilesOrdered
  <2>2. CASE written' = ToFront(written, k) /\ p \notin detached
    BY <2>1, <2>2, ToFrontAdds
  <2>3. CASE p \in detached /\ written' = written
    BY <2>1, <2>3
  <2>4. CASE p \notin detached /\ disk' = [disk EXCEPT ![k] = TornFile] /\ written' = written
    BY <1>5, <2>1, <2>4 DEF CacheTyped
  <2>5. QED
    BY <1>4, <2>2, <2>3, <2>4
<1>s. FilesShared' /\ \A q \in detached' \cup behind' : q # p /\ cachePc[q] = "write"
  <2>1. ASSUME NEW j \in CacheKeys, Torn(j)'
        PROVE  j \in overlapped \/ (Torn(j) /\ p \notin Writers(j))
    <3>1. CASE p \in detached
      BY <1>5, <2>1, <3>1 DEF Torn, Writers
    <3>2. CASE p \notin detached /\ j = k
      BY <1>2, <1>5, <2>1, <3>2 DEF Torn, FilesShared
    <3>3. CASE p \notin detached /\ j # k
      BY <1>2, <1>5, <2>1, <3>3 DEF Torn, Writers
    <3>4. QED
      BY <3>1, <3>2, <3>3
  <2>2. \/ behind' = behind \ {p}
        \/ /\ cachePc[p] = "write" /\ p \notin detached
           /\ behind' = (behind \cup Writers(writing[p].key)) \ {p}
    BY <1>1, <1>2, <1>4
  <2>3. kills' \in {kills, kills + 1} /\ faulty \subseteq faulty'
    BY <1>1
  <2>4. QED
    BY <1>1, <2>1, <2>2, <2>3, WriterLeaves
<1>b. behind' \subseteq CacheProcs /\ detached' \subseteq CacheProcs
  BY <1>1, <1>4 DEF CacheTyped, Writers
<1>8. /\ entries' \in [CacheProcs -> [CacheKeys -> 0..MaxSets]] /\ lru' \in [CacheProcs -> Orders]
      /\ \A q \in CacheProcs : q # p => entries'[q] = entries[q] /\ lru'[q] = lru[q]
      /\ writing[p].by = "set" =>
             /\ \A j \in CacheKeys : entries'[p][j] = IF j = k THEN id ELSE entries[p][j]
             /\ lru'[p] = ToFront(lru[p], k)
      /\ writing[p].by # "set" => entries'[p] = entries[p] /\ lru'[p] = lru[p]
  <2>1. CASE writing[p].by = "set"
    <3>1. ToFront(lru[p], k) \in Orders
      BY ToFrontAdds DEF CacheTyped, Orders
    <3>2. lru' \in [CacheProcs -> Orders] /\ lru'[p] = ToFront(lru[p], k)
            /\ \A q \in CacheProcs : q # p => lru'[q] = lru[q]
      BY <1>4, <2>1, <3>1 DEF CacheTyped, Orders
    <3>3. entries[p] \in [CacheKeys -> 0..MaxSets]
      BY DEF CacheTyped
    <3>4. PICK held \in [CacheKeys -> 0..MaxSets] : held = [entries[p] EXCEPT ![k] = id]
      <4>1. [entries[p] EXCEPT ![k] = id] \in [CacheKeys -> 0..MaxSets]
        BY <1>5, <3>3
      <4>2. QED
        BY <4>1
    <3>5. entries' = [entries EXCEPT ![p] = held]
      BY <1>4, <2>1, <3>4
    <3>6. \A j \in CacheKeys : held[j] = IF j = k THEN id ELSE entries[p][j]
      BY <3>3, <3>4
    <3>7. QED
      BY <2>1, <3>2, <3>5, <3>6 DEF CacheTyped
  <2>2. CASE writing[p].by # "set"
    BY <1>4, <2>2 DEF CacheTyped, Orders
  <2>3. QED
    BY <2>1, <2>2
<1>9. CacheTyped'
  BY <1>1, <1>5, <1>6, <1>7, <1>8, <1>b DEF CacheTyped, Orders
<1>10. (\A q \in CacheProcs : ProcFits(q))'
  BY <1>6, <1>8, <1>s DEF ProcFits, Held
<1>11. FilesOrdered'
  <2>1. ASSUME NEW j \in InOrder(written')
        PROVE  disk'[j] # None
    BY <1>5, <1>7, <2>1 DEF FilesOrdered
  <2>2. ASSUME NEW j \in CacheKeys, disk'[j] # None, ~Torn(j)'
        PROVE  j \in InOrder(written')
    BY <1>5, <1>7, <2>2 DEF FilesOrdered, Torn
  <2>3. QED
    BY <1>7, <2>1, <2>2 DEF FilesOrdered
<1>12. ListHoldsAll'
  <2>1. CASE writing[p].by = "set"
    <3>1. Held(p)' = Held(p) \cup {k}
      BY <1>5, <1>8, <2>1 DEF Held
    <3>2. InOrder(lru'[p]) = InOrder(lru[p]) \cup {k}
      <4>1. lru[p] \in Orders
        BY DEF CacheTyped, Orders
      <4>2. InOrder(ToFront(lru[p], k)) = InOrder(lru[p]) \cup {k}
        BY <4>1, ToFrontAdds
      <4>3. QED
        BY <1>8, <2>1, <4>2
    <3>3. \A q \in CacheProcs : q # p => Held(q)' = Held(q)
      BY <1>8 DEF Held
    <3>4. QED
      BY <1>1, <1>8, <3>1, <3>2, <3>3, SMTT(30) DEF ListHoldsAll, InOrder
  <2>2. CASE writing[p].by # "set"
    <3>1. \A q \in CacheProcs : Held(q)' = Held(q) /\ lru'[q] = lru[q]
      BY <1>8, <2>2 DEF Held
    <3>2. QED
      BY <1>1, <3>1 DEF ListHoldsAll, InOrder
  <2>3. QED
    BY <2>1, <2>2
<1>13. Alone'
  <2>1. \A q \in CacheProcs : Up(q)' <=> Up(q)
    BY <1>1, <1>6 DEF Up
  <2>2. Up(p)
    BY <1>1 DEF Up
  <2>3. ASSUME ~shared
        PROVE  OnOwn(p)' /\ (faulty = {} => Files' = Files)
    <3>1. OnOwn(p)
      BY <2>2, <2>3 DEF Alone
    <3>2. \A j \in CacheKeys \ faulty : disk'[j] = entries'[p][j]
      <4>1. ASSUME NEW j \in CacheKeys \ faulty, j # k
            PROVE  disk'[j] = entries'[p][j]
        <5>1. disk[j] = entries[p][j]
          BY <1>2, <3>1, <4>1 DEF OnOwn, InWrite
        <5>2. QED
          BY <1>o, <1>8, <2>3, <4>1, <5>1
      <4>2. k \notin faulty => disk'[k] = entries'[p][k]
        <5>1. CASE writing[p].by = "set"
          BY <1>o, <1>8, <2>3, <5>1
        <5>2. CASE writing[p].by # "set"
          BY <1>1, <1>2, <1>3, <1>5, <1>8, <1>o, <2>3, <3>1, <5>2 DEF OnOwn, InWrite, ProcFits
        <5>3. QED
          BY <5>1, <5>2
      <4>3. QED
        BY <4>1, <4>2
    <3>3. faulty = {} => lru'[p] = written'
      BY <1>1, <1>2, <1>4, <1>8, <1>o, <2>3, <3>1 DEF OnOwn, ProcFits
    <3>4. OnOwn(p)'
      BY <1>1, <1>6, <3>2, <3>3 DEF OnOwn, InWrite
    <3>5. Files' = Files \cup {k}
      BY <1>5, <1>o, <2>3 DEF Files
    <3>6. faulty = {} => k \in Files
      BY <1>1, <1>2, <1>5, <3>1 DEF OnOwn, InWrite, Files
    <3>7. QED
      BY <3>4, <3>5, <3>6
  <2>4. QED
    BY <1>1, <2>1, <2>2, <2>3 DEF Alone
<1>14. QED
  BY <1>9, <1>10, <1>11, <1>12, <1>13, <1>s

LEMMA CacheWriteFailsKept ==
    ASSUME CacheInductive, NEW p \in CacheProcs, CacheWriteFails(p)
    PROVE  CacheInductive'
<1> USE DEF CacheInductive
<1>1. /\ cachePc[p] = "write" /\ ioFaults' = ioFaults + 1
      /\ faulty' = faulty \cup {writing[p].key}
      /\ writing' = [writing EXCEPT ![p] = NoWrite]
      /\ cachePc' = [cachePc EXCEPT ![p] = "idle"]
      /\ UNCHANGED <<entries, lru, written, expired, sets, overlapped, shared, kills>>
      /\ WriteCutShort(p) /\ Up(p)
  BY DEF CacheWriteFails, Up
<1>2. PICK k \in CacheKeys : k = writing[p].key
  BY <1>1 DEF ProcFits
<1>3. /\ cachePc' \in [CacheProcs -> CachePc] /\ cachePc'[p] = "idle"
      /\ writing' \in [CacheProcs -> [by : {"none", "set", "get"}, key : CacheKeys \cup {None}, id : 0..MaxSets]]
      /\ writing'[p] = NoWrite
      /\ \A q \in CacheProcs : q # p => cachePc'[q] = cachePc[q] /\ writing'[q] = writing[q]
  <2>1. NoWrite \in [by : {"none", "set", "get"}, key : CacheKeys \cup {None}, id : 0..MaxSets]
    BY FileCacheAssumption DEF NoWrite, None
  <2>2. QED
    BY <1>1, <2>1 DEF CacheTyped, CachePc
<1>d. /\ disk' \in [CacheKeys -> 0..TornFile] /\ behind' \subseteq CacheProcs
      /\ disk' = disk \/ \A j \in CacheKeys : disk'[j] = IF j = k THEN TornFile ELSE disk[j]
      /\ detached' = detached \ {p} /\ TornFile # None
      /\ \/ behind' = behind \ {p}
         \/ /\ cachePc[p] = "write" /\ p \notin detached
            /\ behind' = (behind \cup Writers(writing[p].key)) \ {p}
  BY <1>1, <1>2, FileCacheAssumption DEF CacheTyped, WriteCutShort, Writers, TornFile, None
<1>s. FilesShared' /\ \A q \in detached' \cup behind' : q # p /\ cachePc[q] = "write"
  <2>1. ASSUME NEW j \in CacheKeys, Torn(j)'
        PROVE  j \in faulty' \/ (Torn(j) /\ p \notin Writers(j))
    BY <1>1, <1>2, <1>d, <2>1 DEF Torn, Writers
  <2>2. kills' \in {kills, kills + 1} /\ faulty \subseteq faulty'
    BY <1>1
  <2>3. QED
    BY <1>1, <1>d, <2>1, <2>2, WriterLeaves
<1>4. CacheTyped'
  BY <1>1, <1>2, <1>3, <1>d DEF CacheTyped
<1>5. (\A q \in CacheProcs : ProcFits(q))'
  BY <1>1, <1>3, <1>s DEF ProcFits, Held
<1>6. FilesOrdered'
  BY <1>1, <1>d DEF FilesOrdered, Torn, InOrder
<1>7. faulty' # {} /\ faulty \subseteq faulty' /\ k \in faulty'
  BY <1>1, <1>2
<1>8. ListHoldsAll'
  BY <1>1, <1>7 DEF ListHoldsAll, Held, InOrder
<1>9. Alone'
  <2>1. \A q \in CacheProcs : Up(q)' <=> Up(q)
    BY <1>1, <1>3 DEF Up
  <2>2. ~shared => OnOwn(p)'
    <3>1. Up(p)
      BY <1>1 DEF Up
    <3>2. QED
      BY <1>1, <1>2, <1>3, <1>7, <1>d, <3>1 DEF OnOwn, InWrite, Alone
  <2>3. Up(p)
    BY <1>1 DEF Up
  <2>4. QED
    BY <1>1, <1>7, <2>1, <2>2, <2>3 DEF Alone
<1>10. QED
  BY <1>4, <1>5, <1>6, <1>8, <1>9, <1>s

-----------------------------------------------------------------------------
(* Entries that go *)

\* A process forgets keys, and files go, or some cannot be deleted.
Removes(p, gone, forgot) ==
    /\ cachePc[p] = "idle" /\ Unlinked(gone)
    /\ entries' \in [CacheProcs -> [CacheKeys -> 0..MaxSets]] /\ lru' \in [CacheProcs -> Orders]
    /\ \A j \in CacheKeys : entries'[p][j] = IF j \in forgot THEN None ELSE entries[p][j]
    /\ InOrder(lru'[p]) \subseteq InOrder(lru[p]) \ forgot
    /\ \A q \in CacheProcs : q # p => entries'[q] = entries[q] /\ lru'[q] = lru[q]
    /\ faulty' \subseteq CacheKeys /\ faulty \subseteq faulty'
    /\ (gone \ forgot) \cup (forgot \ gone) \subseteq faulty'
    /\ faulty' = {} => InOrder(lru'[p]) = InOrder(lru[p]) \ forgot
    /\ faulty' = {} /\ lru[p] = written => lru'[p] = written'
    /\ UNCHANGED <<cachePc, writing, behind, expired, overlapped, shared, kills>>
    /\ sets' \in 0..MaxSets /\ ioFaults' \in Nat

LEMMA RemovesKept ==
    ASSUME CacheInductive, NEW p \in CacheProcs, NEW gone \in SUBSET CacheKeys,
           NEW forgot \in SUBSET CacheKeys, Removes(p, gone, forgot)
    PROVE  CacheInductive'
<1> USE DEF CacheInductive, Removes
<1>1. /\ disk' \in [CacheKeys -> 0..TornFile] /\ written' \in Orders
      /\ \A k \in CacheKeys : disk'[k] = IF k \in gone THEN None ELSE disk[k]
      /\ Files' = Files \ gone
      /\ FilesOrdered' /\ detached' \subseteq CacheProcs
  BY FilesGo
<1>s. FilesShared' /\ \A q \in CacheProcs : cachePc[q] # "write" => q \notin detached' \cup behind'
  <2>1. ~shared => \A q \in CacheProcs : cachePc[q] # "write"
    BY DEF Alone, Up
  <2>2. QED
    BY <2>1, UnlinkedShared
<1>2. CacheTyped'
  BY <1>1 DEF CacheTyped, Orders
<1>3. Held(p)' = Held(p) \ forgot /\ \A q \in CacheProcs : q # p => Held(q)' = Held(q)
  BY DEF Held
<1>4. (\A q \in CacheProcs : ProcFits(q))'
  BY <1>3, <1>s DEF ProcFits
<1>5. faulty' = {} => faulty = {}
  OBVIOUS
<1>6. ListHoldsAll'
  <2>1. \A q \in CacheProcs : InOrder(lru'[q]) \subseteq Held(q)'
    <3>1. InOrder(lru'[p]) \subseteq Held(p)'
      BY <1>3 DEF ListHoldsAll
    <3>2. ASSUME NEW q \in CacheProcs, q # p
          PROVE  InOrder(lru'[q]) \subseteq Held(q)'
      BY <1>3, <3>2 DEF ListHoldsAll
    <3>3. QED
      BY <3>1, <3>2
  <2>2. ASSUME faulty' = {}, NEW q \in CacheProcs
        PROVE  Held(q)' = InOrder(lru'[q])
    BY <1>3, <1>5, <2>2 DEF ListHoldsAll
  <2>3. QED
    BY <2>1, <2>2 DEF ListHoldsAll, InOrder
<1>7. Alone'
  <2>1. \A q \in CacheProcs : Up(q)' <=> Up(q)
    BY DEF Up
  <2>2. Up(p)
    BY DEF Up
  <2>3. ASSUME ~shared
        PROVE  OnOwn(p)'
    <3>1. OnOwn(p)
      BY <2>2, <2>3 DEF Alone
    <3>2. ASSUME NEW j \in CacheKeys \ faulty'
          PROVE  disk'[j] = entries'[p][j]
      <4>1. disk[j] = entries[p][j] /\ (j \in gone <=> j \in forgot)
        BY <3>1, <3>2 DEF OnOwn, InWrite
      <4>2. QED
        BY <1>1, <4>1
    <3>3. faulty' = {} => lru'[p] = written'
      BY <1>5, <3>1 DEF OnOwn
    <3>4. QED
      BY <3>2, <3>3 DEF OnOwn, InWrite
  <2>4. (~shared /\ faulty' = {}) => Cardinality(Files') <= CacheSize
    BY <1>1, <1>5, FewerFiles DEF Alone, Files
  <2>5. QED
    BY <2>1, <2>2, <2>3, <2>4 DEF Alone
<1>8. QED
  BY <1>1, <1>2, <1>4, <1>6, <1>7, <1>s

LEMMA EvictFailsKept ==
    ASSUME CacheInductive, NEW p \in CacheProcs, NEW k \in CacheKeys, EvictFails(p, k)
    PROVE  CacheInductive'
<1>1. PICK victim \in InOrder(lru[p]) :
          /\ lru' = [lru EXCEPT ![p] = Without(@, {victim})]
          /\ faulty' = faulty \cup {victim}
  BY DEF EvictFails
<1>2. /\ cachePc[p] = "idle" /\ sets < MaxSets /\ sets' = sets + 1 /\ ioFaults' = ioFaults + 1
      /\ UNCHANGED <<cachePc, writing, entries, disk, written, detached, behind, expired, overlapped,
                     shared, kills>>
  BY DEF EvictFails
<1>3. CacheTyped
  BY DEF CacheInductive
<1>4. lru[p] \in Orders /\ victim \in CacheKeys
  BY <1>3 DEF CacheTyped, Orders, InOrder
<1>5. Without(lru[p], {victim}) \in Orders
        /\ InOrder(Without(lru[p], {victim})) = InOrder(lru[p]) \ {victim}
  BY <1>4, WithoutKeys
<1>6. /\ lru' \in [CacheProcs -> Orders] /\ lru'[p] = Without(lru[p], {victim})
      /\ \A q \in CacheProcs : q # p => lru'[q] = lru[q]
  BY <1>1, <1>3, <1>5 DEF CacheTyped, Orders
<1>7. Unlinked({})
  <2>1. {q \in CacheProcs : writing[q].key \in {}} = {}
    OBVIOUS
  <2>2. QED
    BY <1>2, <1>3, <2>1 DEF Unlinked, CacheTyped, Without
<1>8. Removes(p, {}, {})
  <2>1. sets' \in 0..MaxSets /\ ioFaults' \in Nat
    BY <1>2, <1>3, FileCacheAssumption DEF CacheTyped
  <2>2. faulty' \subseteq CacheKeys /\ faulty \subseteq faulty' /\ faulty' # {}
    BY <1>1, <1>3, <1>4 DEF CacheTyped
  <2>3. QED
    BY <1>2, <1>3, <1>5, <1>6, <1>7, <2>1, <2>2 DEF Removes, CacheTyped
<1>9. QED
  BY <1>8, RemovesKept

\* Get of an entry that has expired, and Delete.
LEMMA ForgetKept ==
    ASSUME CacheInductive, NEW p \in CacheProcs, NEW k \in CacheKeys,
           cachePc[p] = "idle", Forget(p, k), RemoveFiles({k}) \/ RemoveFails({k}),
           UNCHANGED <<cachePc, writing, behind, expired, sets, overlapped, shared, kills>>
    PROVE  CacheInductive'
<1>1. CacheTyped
  BY DEF CacheInductive
<1>2. lru[p] \in Orders /\ entries[p] \in [CacheKeys -> 0..MaxSets]
  BY <1>1 DEF CacheTyped, Orders
<1>3. Without(lru[p], {k}) \in Orders /\ InOrder(Without(lru[p], {k})) = InOrder(lru[p]) \ {k}
  BY <1>2, WithoutKeys
<1>4. /\ lru' \in [CacheProcs -> Orders] /\ lru'[p] = Without(lru[p], {k})
      /\ \A q \in CacheProcs : q # p => lru'[q] = lru[q]
  BY <1>1, <1>3 DEF CacheTyped, Orders, Forget
<1>5. PICK held \in [CacheKeys -> 0..MaxSets] : held = [entries[p] EXCEPT ![k] = None]
  <2>1. [entries[p] EXCEPT ![k] = None] \in [CacheKeys -> 0..MaxSets]
    BY <1>2, FileCacheAssumption DEF None
  <2>2. QED
    BY <2>1
<1>6. entries' = [entries EXCEPT ![p] = held]
  BY <1>5 DEF Forget
<1>7. /\ entries' \in [CacheProcs -> [CacheKeys -> 0..MaxSets]]
      /\ \A j \in CacheKeys : entries'[p][j] = IF j \in {k} THEN None ELSE entries[p][j]
      /\ \A q \in CacheProcs : q # p => entries'[q] = entries[q]
  <2>1. \A j \in CacheKeys : held[j] = IF j \in {k} THEN None ELSE entries[p][j]
    BY <1>2, <1>5
  <2>2. QED
    BY <1>1, <1>6, <2>1 DEF CacheTyped
<1>8. sets' \in 0..MaxSets
  BY <1>1 DEF CacheTyped
<1>9. CASE RemoveFiles({k})
  <2>1. /\ Unlinked({k}) /\ faulty' = faulty /\ ioFaults' \in Nat /\ faulty' \subseteq CacheKeys
        /\ written' = Without(written, {k})
    BY <1>1, <1>9 DEF RemoveFiles, Unlinked, CacheTyped
  <2>2. Removes(p, {k}, {k})
    BY <1>3, <1>4, <1>7, <1>8, <2>1 DEF Removes
  <2>3. QED
    BY <2>2, RemovesKept
<1>10. CASE RemoveFails({k})
  <2>1. PICK gone \in SUBSET {k} : gone # {k} /\ Unlinked(gone)
    BY <1>10 DEF RemoveFails
  <2>2. /\ faulty' = faulty \cup {k} /\ ioFaults' \in Nat /\ faulty' \subseteq CacheKeys
    BY <1>1, <1>10 DEF RemoveFails, CacheTyped
  <2>3. gone = {}
    BY <2>1
  <2>4. Unlinked({})
    BY <2>1, <2>3
  <2>5. Removes(p, {}, {k})
    BY <1>3, <1>4, <1>7, <1>8, <2>2, <2>4 DEF Removes
  <2>6. QED
    BY <2>5, RemovesKept
<1>11. QED
  BY <1>9, <1>10

LEMMA ClearKept ==
    ASSUME CacheInductive, NEW p \in CacheProcs, Clear(p)
    PROVE  CacheInductive'
<1>1. CacheTyped
  BY DEF CacheInductive
<1>2. /\ cachePc[p] = "idle" /\ UNCHANGED <<cachePc, writing, behind, expired, sets, overlapped, shared, kills>>
      /\ sets' \in 0..MaxSets /\ Held(p) \in SUBSET CacheKeys
  BY <1>1 DEF Clear, CacheTyped, Held
<1>3. CASE /\ RemoveFiles(Held(p))
           /\ entries' = [entries EXCEPT ![p] = [k \in CacheKeys |-> None]]
           /\ lru' = [lru EXCEPT ![p] = {}]
  <2>1. /\ Unlinked(Held(p)) /\ faulty' = faulty /\ ioFaults' \in Nat /\ faulty' \subseteq CacheKeys
        /\ written' = Without(written, Held(p))
    BY <1>1, <1>3 DEF RemoveFiles, Unlinked, CacheTyped
  <2>2. /\ entries' \in [CacheProcs -> [CacheKeys -> 0..MaxSets]]
        /\ \A j \in CacheKeys : entries'[p][j] = None
        /\ \A q \in CacheProcs : q # p => entries'[q] = entries[q]
    <3>1. [k \in CacheKeys |-> None] \in [CacheKeys -> 0..MaxSets]
      BY FileCacheAssumption DEF None
    <3>2. QED
      BY <1>1, <1>3, <3>1 DEF CacheTyped
  <2>3. /\ lru' \in [CacheProcs -> Orders] /\ lru'[p] = {} /\ InOrder(lru'[p]) = {}
        /\ \A q \in CacheProcs : q # p => lru'[q] = lru[q]
    BY <1>1, <1>3 DEF CacheTyped, Orders, InOrder
  <2>4. \A j \in CacheKeys : j \in Held(p) \/ entries[p][j] = None
    BY DEF Held
  <2>5. faulty = {} => InOrder(lru[p]) = Held(p)
    BY DEF CacheInductive, ListHoldsAll
  <2>6. (faulty = {} /\ lru[p] = written) => written' = {}
    BY <2>1, <2>5 DEF CacheInductive, FilesOrdered, Without
  <2>7. Removes(p, Held(p), Held(p))
    BY <1>2, <2>1, <2>2, <2>3, <2>4, <2>5, <2>6 DEF Removes
  <2>8. QED
    BY <1>2, <2>7, RemovesKept
<1>4. CASE RemoveFails(Held(p)) /\ UNCHANGED <<entries, lru>>
  <2>1. PICK gone \in SUBSET Held(p) : Unlinked(gone)
    BY <1>4 DEF RemoveFails
  <2>2. /\ faulty' = faulty \cup Held(p) /\ Held(p) # {} /\ ioFaults' \in Nat /\ faulty' \subseteq CacheKeys
    BY <1>1, <1>2, <1>4 DEF RemoveFails, CacheTyped
  <2>3. Removes(p, gone, {})
    BY <1>1, <1>2, <1>4, <2>1, <2>2 DEF Removes, CacheTyped, Orders
  <2>4. QED
    BY <1>2, <2>1, <2>3, RemovesKept
<1>5. QED
  BY <1>3, <1>4 DEF Clear

LEMMA CacheStep == CacheInductive /\ [FileCacheNext]_cacheVars => CacheInductive'
<1> SUFFICES ASSUME CacheInductive, [FileCacheNext]_cacheVars PROVE CacheInductive'
  OBVIOUS
<1>1. ASSUME UNCHANGED <<cachePc, writing, entries, lru, disk, written, detached, behind, sets,
                         faulty, overlapped, shared, ioFaults, kills>>,
             expired' \subseteq EntryIds
      PROVE  CacheInductive'
  <2>1. CacheTyped'
    BY <1>1 DEF CacheInductive, CacheTyped
  <2>2. (\A p \in CacheProcs : ProcFits(p))' /\ ListHoldsAll'
    BY <1>1 DEF CacheInductive, ProcFits, Held, ListHoldsAll, InOrder
  <2>3. FilesOrdered' /\ FilesShared'
    BY <1>1 DEF CacheInductive, FilesOrdered, Torn, InOrder, FilesShared, Writers
  <2>4. Alone'
    BY <1>1 DEF CacheInductive, Alone, Up, OnOwn, InWrite, Files
  <2>5. QED
    BY <2>1, <2>2, <2>3, <2>4 DEF CacheInductive
<1>2. CASE UNCHANGED cacheVars
  BY <1>1, <1>2 DEF cacheVars, CacheInductive, CacheTyped
<1>3. ASSUME NEW k \in CacheKeys, Expire(k)
      PROVE  CacheInductive'
  <2>1. expired' \subseteq EntryIds
    BY <1>3 DEF Expire, CacheInductive, CacheTyped
  <2>2. QED
    BY <1>1, <1>3, <2>1 DEF Expire
<1>4. ASSUME NEW p \in CacheProcs, Open(p) \/ Exit(p) \/ WriteDone(p) \/ CacheWriteFails(p) \/ Clear(p)
      PROVE  CacheInductive'
  BY <1>4, OpenKept, ExitKept, WriteDoneKept, CacheWriteFailsKept, ClearKept
<1>5. ASSUME NEW p \in CacheProcs, NEW k \in CacheKeys,
             \/ Set(p, k) \/ EvictFails(p, k)
             \/ GetHit(p, k) \/ GetExpired(p, k) \/ Delete(p, k)
      PROVE  CacheInductive'
  <2>1. CASE GetExpired(p, k) \/ Delete(p, k)
    BY <2>1, ForgetKept DEF GetExpired, Delete
  <2>2. QED
    BY <1>5, <2>1, SetKept, EvictFailsKept, GetHitKept
<1>6. QED
  BY <1>2, <1>3, <1>4, <1>5 DEF FileCacheNext

LEMMA CacheKept == CacheInductive => FileCacheInv
<1> SUFFICES ASSUME CacheInductive PROVE FileCacheInv
  OBVIOUS
<1> USE DEF CacheInductive
<1>1. MemoryIsOnDisk /\ OrderIsOnDisk
  BY DEF MemoryIsOnDisk, OrderIsOnDisk, Alone, OnOwn, InWrite, Up
<1>2. ASSUME NEW p \in CacheProcs, ~shared, faulty = {}
      PROVE  Cardinality(Held(p)) <= CacheSize
  <2>1. CASE Up(p)
    <3>1. Held(p) \subseteq Files
      <4>1. TornFile # None
        BY FileCacheAssumption DEF None, TornFile
      <4>2. QED
        BY <1>2, <2>1, <4>1 DEF Alone, OnOwn, Held, Files
    <3>2. QED
      BY <1>2, <3>1, FewerFiles DEF Alone, Files
  <2>2. CASE ~Up(p)
    BY <2>2, FS_EmptySet, FileCacheAssumption DEF Up, ProcFits
  <2>3. QED
    BY <2>1, <2>2
<1>3. SizeIsKept
  BY <1>2 DEF SizeIsKept, ListHoldsAll
<1>4. TornHasACause
  BY DEF TornHasACause, FilesShared, Writers
<1>5. QED
  BY <1>1, <1>3, <1>4 DEF FileCacheInv

\* The cache kept in files (file_cache.go, lru.go): with one process at a time a
\* restart restores what is in memory, in its order, but for keys on which a file
\* operation failed; the limit holds and all that is held can be evicted, and a
\* file that no process can load has a cause; for any keys, size and processes.
THEOREM FileCacheIsSound == FileCacheSpec => []FileCacheInv
<1>1. FileCacheSpec => []CacheInductive
  BY CacheStart, CacheStep, PTL DEF FileCacheSpec
<1>2. QED
  BY <1>1, CacheKept, PTL
=============================================================================
