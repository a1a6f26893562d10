------------------------------ MODULE ClientPool ------------------------------
(***************************************************************************)
(* The pool of model clients (pkg/pool/pool.go) behind the service that    *)
(* creates, closes and replaces it (pkg/services/global_pool.go).          *)
(*                                                                         *)
(* The counters of a pool are atomics under a lock that is only read: a    *)
(* call looks for clients with room, chooses one of them, and counts       *)
(* itself, in three steps that other calls come between.  A caller works   *)
(* in one of three ways: through a call of the service, which keeps its    *)
(* lock until the model has answered ("call"); with a client it gets and   *)
(* releases in two calls ("lease"); or with the pool that a generator it   *)
(* was handed refers to ("keep").                                          *)
(***************************************************************************)
EXTENDS Integers, FiniteSets

CONSTANTS
    Clients,         \* the configured providers
    MaxConcurrency,  \* Provider.MaxConcurrency, 0 for no limit
    Capability,      \* Provider.Capability
    PoolStrategy,    \* PoolConfig.Strategy, "any" for those that ignore loads
    PoolCallers,
    Requests,        \* what callers ask for
    MaxPools         \* bound: how often the service is initialised

PoolRequest == [by : {"strategy", "provider", "model", "capability", "hint"},
                preferred : SUBSET Clients, min : Nat]

ASSUME ClientPoolAssumption ==
    /\ Clients # {} /\ IsFiniteSet(Clients) /\ IsFiniteSet(PoolCallers)
    /\ MaxConcurrency \in [Clients -> Nat]
    /\ Capability \in [Clients -> Nat]
    /\ PoolStrategy \in {"any", "least_load", "capability"}
    /\ Requests \subseteq PoolRequest
    /\ MaxPools \in Nat

VARIABLES
    initialized,     \* GlobalPoolService.initialized
    pools,           \* how many pools were created; the last is the current one
    activeRequests,  \* of each client in each pool
    poolPc,          \* where each caller is
    way,             \* how it works
    request,         \* what it asks for
    inPool,          \* the pool it works with
    room,            \* healthyClients: those it found with room
    client,          \* the client it has chosen
    overtaken        \* history: others have counted since it looked

callerVars == <<poolPc, way, request, inPool, room, client, overtaken>>
poolVars == <<initialized, pools, activeRequests, callerVars>>

Pools == 1..MaxPools
NoRequest == [by |-> "strategy", preferred |-> {}, min |-> 0]

ClientPoolTypeOK ==
    /\ initialized \in BOOLEAN
    /\ pools \in 0..MaxPools
    /\ activeRequests \in [Pools -> [Clients -> Nat]]
    /\ poolPc \in [PoolCallers -> {"idle", "choose", "count", "use"}]
    /\ way \in [PoolCallers -> {"call", "lease", "keep"}]
    /\ request \in [PoolCallers -> Requests \cup {NoRequest}]
    /\ inPool \in [PoolCallers -> 0..MaxPools]
    /\ room \in [PoolCallers -> SUBSET Clients]
    /\ client \in [PoolCallers -> Clients]
    /\ overtaken \in [PoolCallers -> BOOLEAN]

AnyClient == CHOOSE c \in Clients : TRUE

ClientPoolInit ==
    /\ initialized = FALSE /\ pools = 0
    /\ activeRequests = [p \in Pools |-> [c \in Clients |-> 0]]
    /\ poolPc = [k \in PoolCallers |-> "idle"]
    /\ way = [k \in PoolCallers |-> "call"]
    /\ request = [k \in PoolCallers |-> NoRequest]
    /\ inPool = [k \in PoolCallers |-> 0]
    /\ room = [k \in PoolCallers |-> {}]
    /\ client = [k \in PoolCallers |-> AnyClient]
    /\ overtaken = [k \in PoolCallers |-> FALSE]

-----------------------------------------------------------------------------
(* Selection *)

\* healthyClients: nobody marks a client as unhealthy, the limit is compared.
HasRoomFor(p, c) ==
    MaxConcurrency[c] = 0 \/ activeRequests[p][c] < MaxConcurrency[c]

LeastLoaded(p, cs) ==
    {c \in cs : \A d \in cs : activeRequests[p][c] <= activeRequests[p][d]}

Capable(cs, min) == {c \in cs : Capability[c] >= min}

\* The most capable ones, and among them the least loaded.
ByCapability(p, cs, min) ==
    LeastLoaded(p, {c \in Capable(cs, min) :
                        \A d \in Capable(cs, min) : Capability[d] <= Capability[c]})

ByStrategy(p, cs) ==
    CASE PoolStrategy = "any"        -> cs
      [] PoolStrategy = "least_load" -> LeastLoaded(p, cs)
      [] PoolStrategy = "capability" -> ByCapability(p, cs, 0)

\* selectWithHint: a preferred client that is capable; else a capable one; else
\* what the strategy says.
WithHint(p, cs, q) ==
    LET preferred == Capable(cs \cap q.preferred, q.min) IN
    IF preferred # {}
    THEN IF q.min > 0 THEN ByCapability(p, preferred, q.min) ELSE LeastLoaded(p, preferred)
    ELSE IF q.min > 0 /\ Capable(cs, q.min) # {}
    THEN ByCapability(p, cs, q.min)
    ELSE ByStrategy(p, cs)

\* What the four ways of asking may choose; the empty set is an error.
Eligible(p, cs, q) ==
    CASE q.by = "strategy"   -> ByStrategy(p, cs)
      [] q.by = "provider"   -> q.preferred
      [] q.by = "model"      -> LeastLoaded(p, cs \cap q.preferred)
      [] q.by = "capability" -> ByCapability(p, cs, q.min)
      [] q.by = "hint"       -> WithHint(p, cs, q)

-----------------------------------------------------------------------------
(* The service *)

\* The lock of the service is free: a call keeps it until its end, a lease
\* while it gets the client, and a generator with a pool of its own never.
ServiceUnlocked ==
    \A k \in PoolCallers :
        /\ way[k] = "call"  => poolPc[k] = "idle"
        /\ way[k] = "lease" => poolPc[k] \in {"idle", "use"}

Initialize ==
    /\ ServiceUnlocked /\ ~initialized /\ pools < MaxPools
    /\ initialized' = TRUE
    /\ pools' = pools + 1
    /\ UNCHANGED <<activeRequests, callerVars>>

CloseService ==
    /\ ServiceUnlocked /\ initialized
    /\ initialized' = FALSE
    /\ UNCHANGED <<pools, activeRequests, callerVars>>

-----------------------------------------------------------------------------
(* A call *)

\* Whether a caller that works this way can reach the pool.
Reaches(w, p) == IF w = "keep" THEN p <= pools ELSE initialized /\ p = pools

\* healthyClients; an empty result is an error.  By the name of its provider a
\* client is had without a look at the others or the limit.
LookForRoom(k, w, p, q) ==
    /\ poolPc[k] = "idle" /\ Reaches(w, p)
    /\ LET found == {c \in Clients : HasRoomFor(p, c)} IN
           /\ q.by = "provider" \/ found # {}
           /\ room' = [room EXCEPT ![k] = IF q.by = "provider" THEN {} ELSE found]
    /\ poolPc' = [poolPc EXCEPT ![k] = "choose"]
    /\ way' = [way EXCEPT ![k] = w]
    /\ request' = [request EXCEPT ![k] = q]
    /\ inPool' = [inPool EXCEPT ![k] = p]
    /\ overtaken' = [overtaken EXCEPT ![k] = FALSE]
    /\ UNCHANGED <<initialized, pools, activeRequests, client>>

ChooseClient(k, c) ==
    /\ poolPc[k] = "choose"
    /\ c \in Eligible(inPool[k], room[k], request[k])
    /\ client' = [client EXCEPT ![k] = c]
    /\ poolPc' = [poolPc EXCEPT ![k] = "count"]
    /\ UNCHANGED <<initialized, pools, activeRequests, way, request, inPool, room, overtaken>>

Forgotten(k) ==
    /\ way' = [way EXCEPT ![k] = "call"]
    /\ request' = [request EXCEPT ![k] = NoRequest]
    /\ inPool' = [inPool EXCEPT ![k] = 0]
    /\ room' = [room EXCEPT ![k] = {}]
    /\ client' = [client EXCEPT ![k] = AnyClient]
    /\ overtaken' = [overtaken EXCEPT ![k] = FALSE]

\* No client matches: the caller gets an error.
NoClient(k) ==
    /\ poolPc[k] = "choose"
    /\ Eligible(inPool[k], room[k], request[k]) = {}
    /\ poolPc' = [poolPc EXCEPT ![k] = "idle"]
    /\ Forgotten(k)
    /\ UNCHANGED <<initialized, pools, activeRequests>>

\* How the client was chosen matters no more once the request is counted.
CountRequest(k) ==
    /\ poolPc[k] = "count"
    /\ activeRequests' = [activeRequests EXCEPT ![inPool[k]][client[k]] = @ + 1]
    /\ poolPc' = [poolPc EXCEPT ![k] = "use"]
    /\ overtaken' = [other \in PoolCallers |->
                        /\ other # k
                        /\ \/ overtaken[other]
                           \/ /\ inPool[other] = inPool[k]
                              /\ poolPc[other] \in {"choose", "count"}]
    /\ request' = [request EXCEPT ![k] = NoRequest]
    /\ room' = [room EXCEPT ![k] = {}]
    /\ UNCHANGED <<initialized, pools, way, inPool, client>>

Wrong_ReleasesAnyway(k) == way[k] # "lease" \/ initialized

\* A lease is given back to the service, which knows the current pool only and
\* looks for the very client.
ReachesItsPool(k) == way[k] # "lease" \/ (initialized /\ inPool[k] = pools)

Release(k) ==
    /\ poolPc[k] = "use"
    /\ LET p == IF way[k] = "lease" THEN pools ELSE inPool[k] IN
           activeRequests' = IF ReachesItsPool(k)
                             THEN [activeRequests EXCEPT ![p][client[k]] = @ - 1]
                             ELSE activeRequests
    /\ poolPc' = [poolPc EXCEPT ![k] = "idle"]
    /\ Forgotten(k)
    /\ UNCHANGED <<initialized, pools>>

-----------------------------------------------------------------------------
ClientPoolNext ==
    \/ Initialize \/ CloseService
    \/ \E k \in PoolCallers :
           \/ \E w \in {"call", "lease", "keep"}, p \in Pools, q \in Requests :
                  LookForRoom(k, w, p, q)
           \/ \E c \in Clients : ChooseClient(k, c)
           \/ NoClient(k) \/ CountRequest(k) \/ Release(k)

ClientPoolSpec == ClientPoolInit /\ [][ClientPoolNext]_poolVars

-----------------------------------------------------------------------------
(* Correctness *)

Users(p, c) == {k \in PoolCallers : poolPc[k] = "use" /\ inPool[k] = p /\ client[k] = c}

\* The counters of the pool in service count those who use its clients, and
\* those of no pool miss one: a lease that outlives its pool is never taken off
\* the counters of the next one (ReleaseLLM, pool.go:258).
CountsAreUsers ==
    \A p \in Pools, c \in Clients :
        /\ activeRequests[p][c] >= Cardinality(Users(p, c))
        /\ (initialized /\ p = pools) => activeRequests[p][c] = Cardinality(Users(p, c))

\* A limit is exceeded only for a client that was asked for by the name of its
\* provider, or by a call that others have overtaken since it looked
\* (pool.go:275 compares, pool.go:159 counts).
LimitHoldsUnlessOvertaken ==
    [][activeRequests' # activeRequests =>
       \A p \in Pools, c \in Clients :
           (activeRequests'[p][c] > activeRequests[p][c]
                /\ MaxConcurrency[c] > 0 /\ activeRequests'[p][c] > MaxConcurrency[c])
           => \E k \in PoolCallers :
                  /\ poolPc[k] = "count" /\ client[k] = c /\ inPool[k] = p
                  /\ overtaken[k] \/ request[k].by = "provider"]_poolVars

\* A hint is honoured as far as the clients with room allow: who prefers a
\* client gets a preferred and capable one if there is one, and who needs a
\* capable client gets one if there is one (selectWithHint).
HintHonoured ==
    \A k \in PoolCallers :
        (poolPc[k] = "count" /\ request[k].by = "hint") =>
            LET capable == Capable(room[k], request[k].min) IN
            /\ capable # {} => client[k] \in capable
            /\ capable \cap request[k].preferred # {} => client[k] \in request[k].preferred

\* Close waits for the calls that run through the service: none of them finds
\* its clients closed (global_pool.go:329).
ClosedWithoutCalls ==
    ~initialized => \A k \in PoolCallers : way[k] = "call" => poolPc[k] = "idle"

\* The pool as its callers see it: what is counted is in use, a limit is passed
\* only by a caller that was overtaken between its look and its count, a hint
\* with a free client is followed, and no pool is closed under a call that
\* will return to it.
ClientPoolCorrect ==
    /\ [](ClientPoolTypeOK /\ CountsAreUsers /\ HintHonoured /\ ClosedWithoutCalls)
    /\ LimitHoldsUnlessOvertaken
=============================================================================
