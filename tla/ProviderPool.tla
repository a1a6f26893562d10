----------------------------- MODULE ProviderPool -----------------------------
(***************************************************************************)
(* The pool of providers (pkg/providers/llm_pool.go): requests that are    *)
(* retried over several providers, the marks that say which of these are   *)
(* healthy, the timers that take a mark back, and the health check.        *)
(*                                                                         *)
(* A request chooses a provider and counts itself in one step (no limit    *)
(* depends on the counter), and marks it after a failure in another one.   *)
(* Whether a call succeeds, and when a timer goes off, is left open.       *)
(***************************************************************************)
EXTENDS Integers, FiniteSets

CONSTANTS
    Providers,
    Order,             \* Providers -> Nat: their place in LLMPool.providers
    PoolConfigs,       \* LLMPoolConfig: is the strategy failover, is the
                       \* interval of health checks set
    MaxRetries,        \* LLMPoolConfig.MaxRetries
    LLMRequests,       \* callers
    MaxTimers          \* bound: timers under way for a provider

ASSUME ProviderPoolAssumption ==
    /\ Providers # {} /\ IsFiniteSet(LLMRequests)
    /\ Order \in [Providers -> Nat]
    /\ \A p, q \in Providers : Order[p] = Order[q] => p = q
    /\ PoolConfigs \subseteq [failover : BOOLEAN, checked : BOOLEAN]
    /\ MaxRetries \in Nat
    /\ MaxTimers \in Nat

VARIABLES
    poolConfig,
    healthy,      \* ProviderStatus.Healthy
    activeLoads,  \* ProviderStatus.ActiveLoads
    timers,       \* restoring goroutines asleep, for each provider
    probing,      \* providers a goroutine of checkHealth is probing
    cancelled,    \* checkHealth has returned and cancelled their context
    reqPc,        \* where each request is
    attempt,      \* its attempt
    chosen,       \* the provider it has chosen
    failedIt      \* history: the providers that have failed it, and that no
                  \* timer or probe has restored since

healthVars  == <<healthy, activeLoads, timers>>
checkVars   == <<probing, cancelled>>
requestVars == <<reqPc, attempt, chosen, failedIt>>
providerVars == <<poolConfig, healthVars, checkVars, requestVars>>

ProviderPoolTypeOK ==
    /\ poolConfig \in PoolConfigs
    /\ healthy \in [Providers -> BOOLEAN]
    /\ activeLoads \in [Providers -> 0..Cardinality(LLMRequests)]
    /\ timers \in [Providers -> 0..MaxTimers]
    /\ probing \subseteq Providers
    /\ cancelled \in BOOLEAN
    /\ reqPc \in [LLMRequests -> {"idle", "select", "call", "mark", "delay"}]
    /\ attempt \in [LLMRequests -> 0..MaxRetries]
    /\ chosen \in [LLMRequests -> Providers]
    /\ failedIt \in [LLMRequests -> SUBSET Providers]

\* A request that is not under way has chosen nothing; any provider will do.
AnyProvider == CHOOSE p \in Providers : TRUE

ProviderPoolInit ==
    /\ poolConfig \in PoolConfigs
    /\ healthy = [p \in Providers |-> TRUE]
    /\ activeLoads = [p \in Providers |-> 0]
    /\ timers = [p \in Providers |-> 0]
    /\ probing = {} /\ cancelled = FALSE
    /\ reqPc = [r \in LLMRequests |-> "idle"]
    /\ attempt = [r \in LLMRequests |-> 0]
    /\ chosen = [r \in LLMRequests |-> AnyProvider]
    /\ failedIt = [r \in LLMRequests |-> {}]

-----------------------------------------------------------------------------
(* withRetry *)

StartRequest(r) ==
    /\ reqPc[r] = "idle"
    /\ reqPc' = [reqPc EXCEPT ![r] = "select"]
    /\ UNCHANGED <<poolConfig, healthVars, checkVars, attempt, chosen, failedIt>>

\* selectProvider: failover takes the first healthy provider, the other
\* strategies any of them.
MaySelect(p) ==
    /\ healthy[p]
    /\ poolConfig.failover => \A q \in Providers : healthy[q] => Order[p] <= Order[q]

SelectProvider(r, p) ==
    /\ reqPc[r] = "select" /\ MaySelect(p)
    /\ chosen' = [chosen EXCEPT ![r] = p]
    /\ activeLoads' = [activeLoads EXCEPT ![p] = @ + 1]
    /\ reqPc' = [reqPc EXCEPT ![r] = "call"]
    /\ UNCHANGED <<poolConfig, healthy, timers, checkVars, attempt, failedIt>>

Ended(r) ==
    /\ reqPc' = [reqPc EXCEPT ![r] = "idle"]
    /\ attempt' = [attempt EXCEPT ![r] = 0]
    /\ chosen' = [chosen EXCEPT ![r] = AnyProvider]
    /\ failedIt' = [failedIt EXCEPT ![r] = {}]

\* The attempts are used up, or the next one waits for RetryDelay.
AttemptFailed(r, failed) ==
    IF attempt[r] = MaxRetries THEN Ended(r)
    ELSE /\ reqPc' = [reqPc EXCEPT ![r] = "delay"]
         /\ attempt' = [attempt EXCEPT ![r] = @ + 1]
         /\ failedIt' = [failedIt EXCEPT ![r] = failed]
         /\ UNCHANGED chosen

NoneHealthy(r) ==
    /\ reqPc[r] = "select" /\ \A p \in Providers : ~healthy[p]
    /\ AttemptFailed(r, failedIt[r])
    /\ UNCHANGED <<poolConfig, healthVars, checkVars>>

\* The counter after the call, whatever it returned.
LoadAfter(r, ok) == activeLoads[chosen[r]] - 1

CallSucceeds(r) ==
    /\ reqPc[r] = "call"
    /\ activeLoads' = [activeLoads EXCEPT ![chosen[r]] = LoadAfter(r, TRUE)]
    /\ Ended(r)
    /\ UNCHANGED <<poolConfig, healthy, timers, checkVars>>

CallFails(r) ==
    /\ reqPc[r] = "call"
    /\ activeLoads' = [activeLoads EXCEPT ![chosen[r]] = LoadAfter(r, FALSE)]
    /\ reqPc' = [reqPc EXCEPT ![r] = "mark"]
    /\ UNCHANGED <<poolConfig, healthy, timers, checkVars, attempt, chosen, failedIt>>

Wrong_RetriesMark(r) == attempt[r] > 0

\* "attemptedProviders[provider.Name] && attempt > 0": the first half was set
\* just before.
Marks(r) == attempt[r] > 0 \/ poolConfig.failover

\* The goroutine that will make the provider healthy again.
TimersStarted(r) == IF poolConfig.failover THEN 1 ELSE 0

MarkAfterFailure(r) ==
    /\ reqPc[r] = "mark"
    /\ timers[chosen[r]] < MaxTimers
    /\ healthy' = [healthy EXCEPT ![chosen[r]] = @ /\ ~Marks(r)]
    /\ timers' = [timers EXCEPT ![chosen[r]] = @ + TimersStarted(r)]
    /\ AttemptFailed(r, failedIt[r] \cup {chosen[r]})
    /\ UNCHANGED <<poolConfig, activeLoads, checkVars>>

DelayOver(r) ==
    /\ reqPc[r] = "delay"
    /\ reqPc' = [reqPc EXCEPT ![r] = "select"]
    /\ UNCHANGED <<poolConfig, healthVars, checkVars, attempt, chosen, failedIt>>

\* The context of the request ends while it waits.
RequestCancelled(r) ==
    /\ reqPc[r] = "delay"
    /\ Ended(r)
    /\ UNCHANGED <<poolConfig, healthVars, checkVars>>

\* Whoever makes a provider healthy offers it to the retries again.
Restored(p, back) ==
    failedIt' = [r \in LLMRequests |-> IF back THEN failedIt[r] \ {p} ELSE failedIt[r]]

\* The sleep of 100 ms is over.
RestoreHealth(p) ==
    /\ timers[p] > 0
    /\ timers' = [timers EXCEPT ![p] = @ - 1]
    /\ healthy' = [healthy EXCEPT ![p] = TRUE]
    /\ Restored(p, TRUE)
    /\ UNCHANGED <<poolConfig, activeLoads, checkVars, reqPc, attempt, chosen>>

-----------------------------------------------------------------------------
(* checkHealth; a tick finds the probes of the last one done *)

StartProbes ==
    /\ poolConfig.checked /\ probing = {}
    /\ probing' = Providers /\ cancelled' = FALSE
    /\ UNCHANGED <<poolConfig, healthVars, requestVars>>

\* checkHealth does not wait for the goroutines: its deferred cancel runs.
CheckHealthReturns ==
    /\ probing # {} /\ ~cancelled
    /\ cancelled' = TRUE
    /\ UNCHANGED <<poolConfig, healthVars, probing, requestVars>>

\* What Health(ctx) may return: the endpoint's answer if that was in time.
ProbeResults(answer) == IF cancelled THEN {answer, FALSE} ELSE {answer}

ProbeReturns(p, answer) ==
    /\ p \in probing
    /\ \E result \in ProbeResults(answer) :
           /\ healthy' = [healthy EXCEPT ![p] = result]
           /\ Restored(p, result)
    /\ probing' = probing \ {p}
    /\ UNCHANGED <<poolConfig, activeLoads, timers, cancelled, reqPc, attempt, chosen>>

-----------------------------------------------------------------------------
ProviderPoolNext ==
    \/ \E p \in Providers :
           RestoreHealth(p) \/ \E answer \in BOOLEAN : ProbeReturns(p, answer)
    \/ \E r \in LLMRequests :
           \/ StartRequest(r) \/ \E p \in Providers : SelectProvider(r, p)
           \/ NoneHealthy(r) \/ CallSucceeds(r) \/ CallFails(r)
           \/ MarkAfterFailure(r) \/ DelayOver(r) \/ RequestCancelled(r)
    \/ StartProbes \/ CheckHealthReturns

ProviderPoolSpec == ProviderPoolInit /\ [][ProviderPoolNext]_providerVars

-----------------------------------------------------------------------------
(* Correctness *)

\* The load of a provider is the number of requests it is serving, however
\* they end (llm_pool.go:198-202): no request keeps its place.
LoadsAreCalls ==
    \A p \in Providers :
        activeLoads[p] = Cardinality({r \in LLMRequests : reqPc[r] = "call" /\ chosen[r] = p})

\* With failover and without health checks a provider is out of service only
\* for a while: a timer is under way that brings it back (llm_pool.go:221).
OutOnlyForAWhile ==
    (poolConfig.failover /\ ~poolConfig.checked) =>
        \A p \in Providers : ~healthy[p] => timers[p] > 0

\* With failover a provider that has failed a request is not offered to its
\* retries until a timer or a probe has brought it back, whatever the other
\* requests meet there (llm_pool.go:212).
FailedIsAvoided ==
    poolConfig.failover => \A r \in LLMRequests : \A p \in failedIt[r] : ~healthy[p]

\* The pool keeps account of its calls, avoids a provider that has failed, and
\* leaves none out for ever.
ProviderPoolInv ==
    ProviderPoolTypeOK /\ LoadsAreCalls /\ OutOnlyForAWhile /\ FailedIsAvoided
=============================================================================
