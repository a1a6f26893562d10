---------------------------- MODULE ServersProofs ----------------------------
(***************************************************************************)
(* Proofs about the sessions of the ACP server, the MCP manager and the    *)
(* gateway, for any sessions, servers, connections, calls and bounds; and  *)
(* about the calls of agents: the steps of plans, the calls of streamed    *)
(* replies and those that ACP reports, for any plans, replies and calls.   *)
(***************************************************************************)
EXTENDS AcpSessions, McpManager, Gateway, AgentCalls, FiniteSetTheorems, WellFoundedInduction,
        TLAPS

-----------------------------------------------------------------------------
(* The sessions of the ACP server *)

\* A load has a runtime while it is under way.
LoadsHoldRuntimes == \A l \in Loads : loadPc[l] = "idle" <=> loadRt[l] = 0

\* The runtime of a session is open, and of no other session.
SessionsAreOpen ==
    /\ \A s \in AcpIds : acpSessions[s] \notin shut
    /\ \A s, r \in AcpIds : acpSessions[s] = acpSessions[r] /\ acpSessions[s] # 0 => s = r

\* Until it is installed, a new runtime is open and only its load knows it.
FreshRuntimes ==
    \A l \in Loads : loadPc[l] \in {"history", "install"} =>
        /\ loadRt[l] \notin shut
        /\ \A s \in AcpIds : acpSessions[s] # loadRt[l]
        /\ \A k \in Loads : loadRt[k] = loadRt[l] => k = l
        /\ \A p \in Prompts : promptRt[p] # loadRt[l]

\* During the replay a runtime belongs to its session, or was closed again.
ReplayedRuntimes ==
    \A l \in Loads : loadPc[l] = "replay" =>
        loadRt[l] \in shut \/ \E s \in AcpIds : acpSessions[s] = loadRt[l]

\* A prompt works on the runtime of its session, or on one that was closed
\* since it was found.
PromptRuntimes ==
    \A p \in Prompts : promptPc[p] # "idle" =>
        /\ promptRt[p] # 0
        /\ promptRt[p] \in shut => p \in disturbed
        /\ promptRt[p] \notin shut => acpSessions[promptId[p]] = promptRt[p]

\* One prompt at a time runs on a runtime.
OneRunPerRuntime ==
    \A p, q \in Prompts :
        promptPc[p] = "stream" /\ promptPc[q] = "stream" /\ promptRt[p] = promptRt[q]
            => p = q

\* What is to be true together for every step to keep it.
AcpInductive ==
    /\ AcpTypeOK
    /\ LoadsHoldRuntimes
    /\ SessionsAreOpen
    /\ FreshRuntimes
    /\ ReplayedRuntimes
    /\ PromptRuntimes
    /\ OneRunPerRuntime
    /\ NoRuntimeLost

LEMMA AnyIdIsId == AnyId \in AcpIds
  BY AcpAssumption DEF AnyId

LEMMA AcpStart == AcpInit => AcpInductive
  BY AnyIdIsId, AcpAssumption
  DEF AcpInit, AcpInductive, AcpTypeOK, LoadsHoldRuntimes, SessionsAreOpen,
      FreshRuntimes, ReplayedRuntimes, PromptRuntimes, OneRunPerRuntime, NoRuntimeLost

\* The state that loads use, and the state that prompts use, in full.
LEMMA AcpStep == AcpInductive /\ [AcpNext]_acpVars => AcpInductive'
<1> SUFFICES ASSUME AcpInductive, [AcpNext]_acpVars
             PROVE  AcpInductive'
  OBVIOUS
<1> USE AnyIdIsId, AcpAssumption DEF loadVars, promptVars
<1>0. /\ AcpTypeOK
      /\ 0 \in 0..made
      /\ \A n \in (0..made) \ {0} : n \in 1..made
  BY DEF AcpInductive, AcpTypeOK
<1>1. ASSUME NEW l \in Loads, NEW s \in AcpIds, NEW to \in {"history", "install"},
             MakesRuntime(l, s, to)
      PROVE  AcpInductive'
  <2>1. /\ made' = made + 1 /\ made < MaxRuntimes
        /\ loadPc[l] = "idle"
        /\ UNCHANGED <<acpSessions, shut, promptVars, abandoned, disturbed>>
        /\ \A k \in Loads :
               /\ loadPc'[k] = IF k = l THEN to ELSE loadPc[k]
               /\ loadRt'[k] = IF k = l THEN made + 1 ELSE loadRt[k]
    BY <1>0, <1>1 DEF MakesRuntime, AcpTypeOK
  <2>2. made \in Nat /\ made + 1 \in 0..MaxRuntimes
    BY <1>0, <2>1 DEF AcpTypeOK
  <2>3. AcpTypeOK'
    <3>1. 0..made \subseteq 0..made' /\ 1..made \subseteq 1..made' /\ made + 1 \in 0..made'
      BY <2>1, <2>2
    <3>2. loadPc' \in [Loads -> {"idle", "history", "install", "replay"}]
              /\ loadId' \in [Loads -> AcpIds]
      BY <1>0, <1>1 DEF MakesRuntime, AcpTypeOK
    <3>3. loadRt' \in [Loads -> 0..made']
      BY <1>0, <1>1, <3>1 DEF MakesRuntime, AcpTypeOK
    <3>4. acpSessions' \in [AcpIds -> 0..made'] /\ promptRt' \in [Prompts -> 0..made']
      BY <1>0, <2>1, <3>1 DEF AcpTypeOK
    <3>5. QED
      BY <1>0, <2>1, <2>2, <3>1, <3>2, <3>3, <3>4 DEF AcpTypeOK
  <2>4. /\ made + 1 \notin shut /\ made + 1 # 0
        /\ \A r \in AcpIds : acpSessions[r] # made + 1
        /\ \A k \in Loads : loadRt[k] # made + 1
        /\ \A p \in Prompts : promptRt[p] # made + 1
    BY <1>0, <2>2 DEF AcpTypeOK
  <2>5. FreshRuntimes'
    BY <2>1, <2>4 DEF AcpInductive, FreshRuntimes
  <2>6. NoRuntimeLost'
    <3> SUFFICES ASSUME NEW r \in (1..made') \ shut'
                 PROVE  (\E x \in AcpIds : acpSessions'[x] = r) \/ \E k \in Loads : loadRt'[k] = r
      BY DEF NoRuntimeLost
    <3>1. CASE r = made + 1
      BY <2>1, <3>1
    <3>2. CASE r # made + 1
      <4>1. r \in (1..made) \ shut /\ r # 0
        BY <2>1, <2>2, <3>2
      <4>2. PICK x \in AcpIds \cup Loads :
                (x \in AcpIds /\ acpSessions[x] = r) \/ (x \in Loads /\ loadRt[x] = r)
        BY <4>1 DEF AcpInductive, NoRuntimeLost
      <4>3. loadRt[l] = 0
        BY <2>1 DEF AcpInductive, LoadsHoldRuntimes
      <4>4. QED
        BY <2>1, <4>1, <4>2, <4>3
    <3>3. QED
      BY <3>1, <3>2
  <2>7. LoadsHoldRuntimes' /\ ReplayedRuntimes'
    BY <2>1, <2>2, <2>4 DEF AcpInductive, LoadsHoldRuntimes, ReplayedRuntimes
  <2>8. SessionsAreOpen' /\ PromptRuntimes' /\ OneRunPerRuntime'
    BY <2>1 DEF AcpInductive, SessionsAreOpen, PromptRuntimes, OneRunPerRuntime
  <2>9. QED
    BY <2>3, <2>5, <2>6, <2>7, <2>8 DEF AcpInductive
<1>2. ASSUME NEW l \in Loads, NEW found \in BOOLEAN, GetHistory(l, found)
      PROVE  AcpInductive'
  <2>1. /\ loadPc[l] = "history"
        /\ UNCHANGED <<acpSessions, made, promptVars, abandoned, disturbed>>
    BY <1>2 DEF GetHistory
  <2>2. CASE found
    <3>1. /\ UNCHANGED <<loadId, loadRt, shut>>
          /\ loadPc' = [loadPc EXCEPT ![l] = "install"]
      BY <1>2, <2>2 DEF GetHistory
    <3>2. \A k \in Loads : loadPc'[k] = IF k = l THEN "install" ELSE loadPc[k]
      BY <1>0, <3>1 DEF AcpTypeOK
    <3>3. AcpTypeOK'
      BY <1>0, <2>1, <3>1 DEF AcpTypeOK
    <3>4. LoadsHoldRuntimes' /\ FreshRuntimes' /\ ReplayedRuntimes'
      BY <2>1, <3>1, <3>2
      DEF AcpInductive, LoadsHoldRuntimes, FreshRuntimes, ReplayedRuntimes
    <3>5. SessionsAreOpen' /\ PromptRuntimes' /\ OneRunPerRuntime' /\ NoRuntimeLost'
      BY <2>1, <3>1
      DEF AcpInductive, SessionsAreOpen, PromptRuntimes, OneRunPerRuntime, NoRuntimeLost
    <3>6. QED
      BY <3>3, <3>4, <3>5 DEF AcpInductive
  <2>3. CASE ~found
    <3>1. /\ shut' = shut \cup {loadRt[l]}
          /\ loadPc' = [loadPc EXCEPT ![l] = "idle"]
          /\ loadId' = [loadId EXCEPT ![l] = AnyId]
          /\ loadRt' = [loadRt EXCEPT ![l] = 0]
      BY <1>2, <2>3 DEF GetHistory, LoadOver, ShutAfterNoHistory
    <3>2. \A k \in Loads :
              /\ loadPc'[k] = IF k = l THEN "idle" ELSE loadPc[k]
              /\ loadRt'[k] = IF k = l THEN 0 ELSE loadRt[k]
      BY <1>0, <3>1 DEF AcpTypeOK
    <3>3. /\ loadRt[l] # 0
          /\ \A s \in AcpIds : acpSessions[s] # loadRt[l]
          /\ \A k \in Loads : loadRt[k] = loadRt[l] => k = l
          /\ \A p \in Prompts : promptRt[p] # loadRt[l]
      BY <2>1 DEF AcpInductive, LoadsHoldRuntimes, FreshRuntimes
    <3>4. AcpTypeOK'
      <4>1. loadRt[l] \in 1..made
        BY <1>0, <3>3 DEF AcpTypeOK
      <4>2. shut' \subseteq 1..made'
        BY <1>0, <2>1, <3>1, <4>1 DEF AcpTypeOK
      <4>3. /\ loadPc' \in [Loads -> {"idle", "history", "install", "replay"}]
            /\ loadId' \in [Loads -> AcpIds] /\ loadRt' \in [Loads -> 0..made']
        BY <1>0, <2>1, <3>1 DEF AcpTypeOK
      <4>4. QED
        BY <1>0, <2>1, <4>2, <4>3 DEF AcpTypeOK
    <3>5. LoadsHoldRuntimes' /\ SessionsAreOpen' /\ ReplayedRuntimes'
              /\ PromptRuntimes' /\ OneRunPerRuntime'
      BY <2>1, <3>1, <3>2, <3>3
      DEF AcpInductive, LoadsHoldRuntimes, SessionsAreOpen, ReplayedRuntimes,
          PromptRuntimes, OneRunPerRuntime
    <3>6. FreshRuntimes'
      BY <2>1, <3>1, <3>2, <3>3 DEF AcpInductive, FreshRuntimes, LoadsHoldRuntimes
    <3>7. NoRuntimeLost'
      BY <2>1, <3>1, <3>2 DEF AcpInductive, NoRuntimeLost
    <3>8. QED
      BY <3>4, <3>5, <3>6, <3>7 DEF AcpInductive
  <2>4. QED
    BY <2>2, <2>3
<1>3. ASSUME NEW l \in Loads, Install(l)
      PROVE  AcpInductive'
  <2> DEFINE s == loadId[l]
             new == loadRt[l]
             old == acpSessions[s]
  <2>1. /\ loadPc[l] = "install"
        /\ shut' = shut \cup ({old} \ {0})
        /\ acpSessions' = [acpSessions EXCEPT ![s] = new]
        /\ disturbed' = disturbed \cup PromptsOf(s)
        /\ loadPc' = [loadPc EXCEPT ![l] = "replay"]
        /\ UNCHANGED <<made, loadId, loadRt, promptVars, abandoned>>
    BY <1>3 DEF Install, ShutAfterInstall
  <2>2. /\ s \in AcpIds
        /\ \A r \in AcpIds : acpSessions'[r] = IF r = s THEN new ELSE acpSessions[r]
        /\ \A k \in Loads : loadPc'[k] = IF k = l THEN "replay" ELSE loadPc[k]
    BY <1>0, <2>1 DEF AcpTypeOK
  <2>3. /\ new # 0 /\ new \notin shut
        /\ \A r \in AcpIds : acpSessions[r] # new
        /\ \A k \in Loads : loadRt[k] = new => k = l
        /\ \A p \in Prompts : promptRt[p] # new
    BY <2>1 DEF AcpInductive, LoadsHoldRuntimes, FreshRuntimes
  <2>4. AcpTypeOK'
    <3>1. acpSessions' \in [AcpIds -> 0..made']
      BY <1>0, <2>1 DEF AcpTypeOK
    <3>2. old # 0 => old \in 1..made
      BY <1>0, <2>2 DEF AcpTypeOK
    <3>3. shut' \subseteq 1..made'
      BY <1>0, <2>1, <3>2 DEF AcpTypeOK
    <3>4. disturbed' \subseteq Prompts
      BY <1>0, <2>1 DEF AcpTypeOK, PromptsOf
    <3>5. loadPc' \in [Loads -> {"idle", "history", "install", "replay"}]
      BY <1>0, <2>1 DEF AcpTypeOK
    <3>6. QED
      BY <1>0, <2>1, <3>1, <3>3, <3>4, <3>5 DEF AcpTypeOK
  <2> HIDE DEF s, new, old
  <2>5. \A r \in AcpIds : r # s => acpSessions[r] # old \/ old = 0
    BY <2>2 DEF AcpInductive, SessionsAreOpen, old
  <2>6. SessionsAreOpen'
    <3>1. 0 \notin shut
      BY <1>0 DEF AcpTypeOK
    <3>2. \A r \in AcpIds : acpSessions'[r] \notin shut'
      BY <2>1, <2>2, <2>3, <2>5, <3>1 DEF AcpInductive, SessionsAreOpen, old
    <3>3. QED
      BY <2>2, <2>3, <3>2 DEF AcpInductive, SessionsAreOpen
  <2>7. FreshRuntimes'
    <3>1. ASSUME NEW k \in Loads, loadPc'[k] \in {"history", "install"}
          PROVE  /\ loadRt[k] \notin shut'
                 /\ \A r \in AcpIds : acpSessions'[r] # loadRt[k]
      <4>1. k # l /\ loadPc[k] \in {"history", "install"}
        BY <2>2, <3>1
      <4>2. /\ loadRt[k] \notin shut /\ loadRt[k] # new
            /\ \A r \in AcpIds : acpSessions[r] # loadRt[k]
        BY <2>3, <4>1 DEF AcpInductive, FreshRuntimes
      <4>3. QED
        BY <2>1, <2>2, <4>2 DEF old
    <3>2. \A k \in Loads : loadPc'[k] \in {"history", "install"} =>
              loadPc[k] \in {"history", "install"}
      BY <2>2
    <3>3. QED
      BY <2>1, <3>1, <3>2 DEF AcpInductive, FreshRuntimes
  <2>8. ReplayedRuntimes'
    <3>1. ASSUME NEW k \in Loads, loadPc'[k] = "replay"
          PROVE  loadRt[k] \in shut' \/ \E r \in AcpIds : acpSessions'[r] = loadRt[k]
      <4>1. CASE k = l
        BY <2>2, <4>1 DEF new
      <4>2. CASE k # l
        <5>1. loadPc[k] = "replay" /\ loadRt[k] # 0
          BY <2>2, <3>1, <4>2 DEF AcpInductive, LoadsHoldRuntimes
        <5>2. loadRt[k] \in shut \/ \E r \in AcpIds : acpSessions[r] = loadRt[k]
          BY <5>1 DEF AcpInductive, ReplayedRuntimes
        <5>3. QED
          BY <2>1, <2>2, <5>1, <5>2 DEF old
      <4>3. QED
        BY <4>1, <4>2
    <3>2. QED
      BY <2>1, <3>1 DEF ReplayedRuntimes
  <2>9. PromptRuntimes'
    <3>1. ASSUME NEW p \in Prompts, promptPc[p] # "idle"
          PROVE  /\ promptRt[p] # 0
                 /\ promptRt[p] \in shut' => p \in disturbed'
                 /\ promptRt[p] \notin shut' => acpSessions'[promptId[p]] = promptRt[p]
      <4>1. /\ promptRt[p] # 0
            /\ promptRt[p] \in shut => p \in disturbed
            /\ promptRt[p] \notin shut => acpSessions[promptId[p]] = promptRt[p]
            /\ promptId[p] \in AcpIds
        BY <1>0, <3>1 DEF AcpInductive, PromptRuntimes, AcpTypeOK
      <4>2. CASE promptRt[p] \in shut
        BY <2>1, <4>1, <4>2
      <4>3. CASE promptRt[p] \notin shut /\ promptId[p] = s
        BY <2>1, <3>1, <4>1, <4>3 DEF PromptsOf, old
      <4>4. CASE promptRt[p] \notin shut /\ promptId[p] # s
        BY <2>1, <2>2, <2>5, <4>1, <4>4
      <4>5. QED
        BY <4>2, <4>3, <4>4
    <3>2. QED
      BY <2>1, <3>1 DEF PromptRuntimes
  <2>10. NoRuntimeLost'
    <3> SUFFICES ASSUME NEW r \in (1..made') \ shut'
                 PROVE  (\E x \in AcpIds : acpSessions'[x] = r) \/ \E k \in Loads : loadRt'[k] = r
      BY DEF NoRuntimeLost
    <3>1. r \in (1..made) \ shut /\ r # 0 /\ r # old
      BY <2>1
    <3>2. CASE \E k \in Loads : loadRt[k] = r
      BY <2>1, <3>2
    <3>3. CASE \E x \in AcpIds : acpSessions[x] = r
      BY <2>2, <3>1, <3>3 DEF old
    <3>4. QED
      BY <3>1, <3>2, <3>3 DEF AcpInductive, NoRuntimeLost
  <2>11. LoadsHoldRuntimes' /\ OneRunPerRuntime'
    BY <2>1, <2>2, <2>3 DEF AcpInductive, LoadsHoldRuntimes, OneRunPerRuntime, new
  <2>12. QED
    BY <2>4, <2>6, <2>7, <2>8, <2>9, <2>10, <2>11 DEF AcpInductive
<1>4. ASSUME NEW l \in Loads, Replayed(l)
      PROVE  AcpInductive'
  <2>1. /\ loadPc[l] = "replay"
        /\ loadPc' = [loadPc EXCEPT ![l] = "idle"]
        /\ loadId' = [loadId EXCEPT ![l] = AnyId]
        /\ loadRt' = [loadRt EXCEPT ![l] = 0]
        /\ UNCHANGED <<acpSessions, made, shut, promptVars, abandoned, disturbed>>
    BY <1>4 DEF Replayed, LoadOver
  <2>2. \A k \in Loads :
            /\ loadPc'[k] = IF k = l THEN "idle" ELSE loadPc[k]
            /\ loadRt'[k] = IF k = l THEN 0 ELSE loadRt[k]
    BY <1>0, <2>1 DEF AcpTypeOK
  <2>3. AcpTypeOK'
    <3>1. 0 \in 0..made
      BY <1>0 DEF AcpTypeOK
    <3>2. QED
      BY <1>0, <2>1, <3>1 DEF AcpTypeOK
  <2>4. LoadsHoldRuntimes' /\ ReplayedRuntimes'
    BY <2>1, <2>2 DEF AcpInductive, LoadsHoldRuntimes, ReplayedRuntimes
  <2>5. FreshRuntimes'
    BY <2>1, <2>2 DEF AcpInductive, FreshRuntimes, LoadsHoldRuntimes
  <2>6. SessionsAreOpen' /\ PromptRuntimes' /\ OneRunPerRuntime'
    BY <2>1 DEF AcpInductive, SessionsAreOpen, PromptRuntimes, OneRunPerRuntime
  <2>7. NoRuntimeLost'
    BY <2>1, <2>2 DEF AcpInductive, NoRuntimeLost, ReplayedRuntimes
  <2>8. QED
    BY <2>3, <2>4, <2>5, <2>6, <2>7 DEF AcpInductive
<1>5. ASSUME NEW p \in Prompts, NEW s \in AcpIds, FindSession(p, s)
      PROVE  AcpInductive'
  <2>1. /\ promptPc[p] = "idle" /\ acpSessions[s] # 0
        /\ UNCHANGED <<acpSessions, made, shut, loadVars, abandoned, disturbed>>
        /\ \A q \in Prompts :
               /\ promptPc'[q] = IF q = p THEN "lock" ELSE promptPc[q]
               /\ promptId'[q] = IF q = p THEN s ELSE promptId[q]
               /\ promptRt'[q] = IF q = p THEN acpSessions[s] ELSE promptRt[q]
    BY <1>0, <1>5 DEF FindSession, AcpTypeOK
  <2>2. AcpTypeOK'
    BY <1>0, <1>5 DEF FindSession, AcpTypeOK
  <2>3. FreshRuntimes'
    BY <2>1 DEF AcpInductive, FreshRuntimes
  <2>4. PromptRuntimes'
    BY <2>1 DEF AcpInductive, PromptRuntimes, SessionsAreOpen
  <2>5. LoadsHoldRuntimes' /\ SessionsAreOpen' /\ ReplayedRuntimes' /\ NoRuntimeLost'
    BY <2>1
    DEF AcpInductive, LoadsHoldRuntimes, SessionsAreOpen, ReplayedRuntimes, NoRuntimeLost
  <2>6. OneRunPerRuntime'
    BY <2>1 DEF AcpInductive, OneRunPerRuntime
  <2>7. QED
    BY <2>2, <2>3, <2>4, <2>5, <2>6 DEF AcpInductive
<1>6. ASSUME NEW p \in Prompts, StartRun(p)
      PROVE  AcpInductive'
  <2>1. /\ promptPc[p] = "lock" /\ MyTurn(p)
        /\ promptPc' = [promptPc EXCEPT ![p] = "stream"]
        /\ UNCHANGED <<acpSessions, made, shut, loadVars, promptId, promptRt, abandoned,
                       disturbed>>
    BY <1>6 DEF StartRun
  <2>2. \A q \in Prompts : promptPc'[q] = IF q = p THEN "stream" ELSE promptPc[q]
    BY <1>0, <2>1 DEF AcpTypeOK
  <2>3. AcpTypeOK'
    BY <1>0, <2>1 DEF AcpTypeOK
  <2>4. OneRunPerRuntime'
    BY <2>1, <2>2 DEF AcpInductive, OneRunPerRuntime, MyTurn
  <2>5. PromptRuntimes'
    BY <2>1, <2>2 DEF AcpInductive, PromptRuntimes
  <2>6. LoadsHoldRuntimes' /\ SessionsAreOpen' /\ FreshRuntimes' /\ ReplayedRuntimes'
            /\ NoRuntimeLost'
    BY <2>1
    DEF AcpInductive, LoadsHoldRuntimes, SessionsAreOpen, FreshRuntimes, ReplayedRuntimes,
        NoRuntimeLost
  <2>7. QED
    BY <2>3, <2>4, <2>5, <2>6 DEF AcpInductive
<1>7. ASSUME NEW p \in Prompts, RunRefused(p) \/ RunOver(p) \/ ReplyFails(p)
      PROVE  AcpInductive'
  <2>1. /\ promptPc[p] # "idle"
        /\ PromptOver(p)
        /\ abandoned' \subseteq abandoned \cup {promptRt[p]}
        /\ UNCHANGED <<acpSessions, made, shut, loadVars>>
    BY <1>7 DEF RunRefused, RunOver, ReplyFails
  <2>2. \A q \in Prompts :
            /\ promptPc'[q] = IF q = p THEN "idle" ELSE promptPc[q]
            /\ promptRt'[q] = IF q = p THEN 0 ELSE promptRt[q]
            /\ q # p => promptId'[q] = promptId[q]
    BY <1>0, <2>1 DEF PromptOver, AcpTypeOK
  <2>3. disturbed' = disturbed \ {p}
    BY <2>1 DEF PromptOver
  <2>4. AcpTypeOK'
    <3>1. promptRt[p] # 0 /\ promptRt[p] \in 0..made
      BY <1>0, <2>1 DEF AcpInductive, PromptRuntimes, AcpTypeOK
    <3>2. promptRt[p] \in 1..made /\ 0 \in 0..made
      BY <1>0, <3>1 DEF AcpTypeOK
    <3>3. QED
      BY <1>0, <2>1, <2>3, <3>2 DEF AcpTypeOK, PromptOver
  <2>5. FreshRuntimes'
    BY <2>1, <2>2 DEF AcpInductive, FreshRuntimes, LoadsHoldRuntimes
  <2>6. PromptRuntimes' /\ OneRunPerRuntime'
    BY <2>1, <2>2, <2>3 DEF AcpInductive, PromptRuntimes, OneRunPerRuntime
  <2>7. LoadsHoldRuntimes' /\ SessionsAreOpen' /\ ReplayedRuntimes' /\ NoRuntimeLost'
    BY <2>1
    DEF AcpInductive, LoadsHoldRuntimes, SessionsAreOpen, ReplayedRuntimes, NoRuntimeLost
  <2>8. QED
    BY <2>4, <2>5, <2>6, <2>7 DEF AcpInductive
<1>8. ASSUME NEW r \in Runtimes, AbandonedEnds(r)
      PROVE  AcpInductive'
  <2>1. abandoned' \subseteq abandoned
        /\ UNCHANGED <<acpSessions, made, shut, loadVars, promptVars, disturbed>>
    BY <1>8 DEF AbandonedEnds
  <2>2. QED
    BY <1>0, <2>1
    DEF AcpInductive, AcpTypeOK, LoadsHoldRuntimes, SessionsAreOpen, FreshRuntimes,
        ReplayedRuntimes, PromptRuntimes, OneRunPerRuntime, NoRuntimeLost
<1>9. CASE CloseServer
  <2>1. /\ shut' = shut \cup ({acpSessions[s] : s \in AcpIds} \ {0})
        /\ \A s \in AcpIds : acpSessions'[s] = 0
        /\ disturbed' = disturbed \cup {p \in Prompts : promptPc[p] # "idle"}
        /\ UNCHANGED <<made, loadVars, promptVars, abandoned>>
    BY <1>9 DEF CloseServer, SessionsAfterClose
  <2>2. AcpTypeOK'
    <3>1. acpSessions' \in [AcpIds -> 0..made']
      BY <1>0, <1>9 DEF CloseServer, SessionsAfterClose, AcpTypeOK
    <3>2. shut' \subseteq 1..made'
      <4>1. \A s \in AcpIds : acpSessions[s] # 0 => acpSessions[s] \in 1..made
        BY <1>0 DEF AcpTypeOK
      <4>2. shut \subseteq 1..made /\ made' = made
        BY <1>0, <2>1 DEF AcpTypeOK
      <4>3. QED
        BY <2>1, <4>1, <4>2
    <3>3. QED
      BY <1>0, <2>1, <3>1, <3>2 DEF AcpTypeOK
  <2>3. SessionsAreOpen'
    BY <1>0, <2>1 DEF AcpInductive, SessionsAreOpen, AcpTypeOK
  <2>4. FreshRuntimes'
    BY <2>1 DEF AcpInductive, FreshRuntimes, LoadsHoldRuntimes
  <2>5. ReplayedRuntimes'
    BY <2>1 DEF AcpInductive, ReplayedRuntimes, LoadsHoldRuntimes
  <2>6. PromptRuntimes'
    BY <1>0, <2>1 DEF AcpInductive, PromptRuntimes, AcpTypeOK
  <2>7. NoRuntimeLost'
    BY <2>1 DEF AcpInductive, NoRuntimeLost
  <2>8. LoadsHoldRuntimes' /\ OneRunPerRuntime'
    BY <2>1 DEF AcpInductive, LoadsHoldRuntimes, OneRunPerRuntime
  <2>9. QED
    BY <2>2, <2>3, <2>4, <2>5, <2>6, <2>7, <2>8 DEF AcpInductive
<1>10. CASE UNCHANGED acpVars
  BY <1>0, <1>10
  DEF acpVars, AcpInductive, AcpTypeOK, LoadsHoldRuntimes, SessionsAreOpen, FreshRuntimes,
      ReplayedRuntimes, PromptRuntimes, OneRunPerRuntime, NoRuntimeLost
<1>11. QED
  BY <1>1, <1>2, <1>3, <1>4, <1>5, <1>6, <1>7, <1>8, <1>9, <1>10
  DEF AcpNext, NewSession, LoadSession

\* No runtime of the ACP server is lost open, a prompt finds one that is open
\* unless it was replaced or closed since, and one prompt of a session runs at
\* a time, for any sessions, loads and prompts.
THEOREM AcpSessionsAreSound == AcpSpec => []AcpSessionsInv
<1>1. AcpInductive => AcpSessionsInv
  <2> SUFFICES ASSUME AcpInductive
               PROVE  AcpSessionsInv
    OBVIOUS
  <2>1. PromptFindsItOpen
    BY DEF AcpInductive, PromptRuntimes, PromptFindsItOpen
  <2>2. OneRunPerSession
    BY DEF AcpInductive, PromptRuntimes, OneRunPerRuntime, OneRunPerSession
  <2>3. QED
    BY <2>1, <2>2 DEF AcpInductive, AcpSessionsInv
<1>2. QED
  BY AcpStart, AcpStep, <1>1, PTL DEF AcpSpec
-----------------------------------------------------------------------------
(* The MCP manager *)

\* The call that connects a server has locked the manager, which knows no
\* client of that server.
ConnectingHoldsLock ==
    \A k \in ToolCalls : mcpPc[k] = "connect" =>
        managerLock = k /\ clientOf[wanted[k]] = 0

\* A call that has checked its client finds a session, unless the client was
\* stopped since.
CheckedHasSession ==
    \A k \in ToolCalls : mcpPc[k] = "send" => using[k] \in sessions \cup stopped

\* A session without the mark belongs to a client a monitor has marked as gone.
UnmarkedIsGone == sessions \ marked \subseteq gone

\* What is to be true together for every step to keep it.
McpInductive ==
    /\ McpTypeOK
    /\ ConnectingHoldsLock
    /\ CheckedHasSession
    /\ UnmarkedIsGone
    /\ ConnectedAreKnown
    /\ ForgottenAreClosed
    /\ PanicNeedsStop

LEMMA AnyServerAndCall == AnyServer \in McpServers /\ AnyCall \in ToolCalls
  BY McpAssumption DEF AnyServer, AnyCall

LEMMA McpStart == McpInit => McpInductive
  BY AnyServerAndCall, McpAssumption
  DEF McpInit, McpInductive, McpTypeOK, ConnectingHoldsLock, CheckedHasSession,
      UnmarkedIsGone, ConnectedAreKnown, ForgottenAreClosed, PanicNeedsStop

\* A step of one call that leaves the clients and the manager alone.
LEMMA CallStepKeeps ==
    ASSUME McpInductive, NEW k \in ToolCalls, McpTypeOK',
           UNCHANGED <<clientOf, serverOf, marked, sessions, gone, stopped, panics,
                       managerLock>>,
           \A j \in ToolCalls \ {k} :
               mcpPc'[j] = mcpPc[j] /\ wanted'[j] = wanted[j] /\ using'[j] = using[j],
           mcpPc'[k] # "connect",
           mcpPc'[k] = "send" => using'[k] \in sessions
    PROVE  McpInductive'
  BY DEF McpInductive, ConnectingHoldsLock, CheckedHasSession, UnmarkedIsGone,
         ConnectedAreKnown, ForgottenAreClosed, PanicNeedsStop

\* Closing clients and forgetting them, as StopServer and Close of the manager
\* do while nobody has locked it.
LEMMA ForgetKeeps ==
    ASSUME McpInductive, NEW cs \in SUBSET (1..connections), CloseClients(cs),
           ManagerFree,
           clientOf' \in [McpServers -> 0..connections],
           \A s \in McpServers :
               clientOf'[s] = clientOf[s] \/ (clientOf'[s] = 0 /\ clientOf[s] \in cs \cup {0}),
           UNCHANGED <<connections, serverOf, startedBy, managerLock, mcpCallVars, losses,
                       gone, panics>>
    PROVE  McpInductive'
<1> USE DEF mcpCallVars
<1>1. /\ marked' = marked \ cs
      /\ sessions' = sessions \ (cs \cap marked)
      /\ linkUp' = linkUp \ (cs \cap marked)
      /\ stopped' = stopped \cup (cs \cap marked)
  BY DEF CloseClients, MarkedAfterClose
<1>2. McpTypeOK /\ \A c \in sessions : c \in 1..connections /\ serverOf[c] \in McpServers
  <2>1. McpTypeOK
    BY DEF McpInductive
  <2>2. connections \in Nat /\ connections <= MaxClients
    BY <2>1, McpAssumption DEF McpTypeOK
  <2>3. \A c \in 1..connections : c \in McpClients
    BY <2>2, McpAssumption DEF McpClients
  <2>4. QED
    BY <2>1, <2>3 DEF McpTypeOK
<1>3. McpTypeOK'
  <2>1. /\ linkUp' \cup sessions' \subseteq 1..connections' /\ marked' \subseteq sessions'
        /\ gone' \cup stopped' \cup panics' \subseteq 1..connections'
    BY <1>1, <1>2 DEF McpTypeOK
  <2>2. QED
    BY <1>2, <2>1 DEF McpTypeOK
<1>4. ConnectingHoldsLock'
  BY McpAssumption DEF ManagerFree, McpInductive, ConnectingHoldsLock
<1>5. CheckedHasSession'
  BY <1>1 DEF McpInductive, CheckedHasSession
<1>6. UnmarkedIsGone'
  BY <1>1 DEF McpInductive, UnmarkedIsGone
<1>7. \A c \in sessions' : clientOf[serverOf[c]] = c => clientOf'[serverOf[c]] = c \/ c \in gone
  <2> SUFFICES ASSUME NEW c \in sessions', clientOf[serverOf[c]] = c,
                      clientOf'[serverOf[c]] # c
               PROVE  c \in gone
    OBVIOUS
  <2>1. c \in sessions /\ serverOf[c] \in McpServers /\ c # 0
    BY <1>1, <1>2
  <2>2. c \in cs
    BY <2>1
  <2>3. c \notin marked
    BY <1>1, <2>2
  <2>4. QED
    BY <2>1, <2>3 DEF McpInductive, UnmarkedIsGone
<1>8. ForgottenAreClosed'
  BY <1>1, <1>7 DEF McpInductive, ForgottenAreClosed
<1>9. ConnectedAreKnown'
  <2> SUFFICES ASSUME NEW c \in marked'
               PROVE  clientOf'[serverOf[c]] = c
    BY DEF ConnectedAreKnown
  <2>1. c \in marked /\ c \notin cs /\ c \in sessions /\ c # 0
    BY <1>1, <1>2 DEF McpTypeOK
  <2>2. clientOf[serverOf[c]] = c /\ serverOf[c] \in McpServers
    BY <1>2, <2>1 DEF McpInductive, ConnectedAreKnown
  <2>3. QED
    BY <2>1, <2>2
<1>10. PanicNeedsStop'
  BY <1>1 DEF McpInductive, PanicNeedsStop
<1>11. QED
  BY <1>3, <1>4, <1>5, <1>6, <1>8, <1>9, <1>10 DEF McpInductive

LEMMA McpStep == McpInductive /\ [McpNext]_mcpVars => McpInductive'
<1> SUFFICES ASSUME McpInductive, [McpNext]_mcpVars
             PROVE  McpInductive'
  OBVIOUS
<1> USE AnyServerAndCall, McpAssumption
<1> USE DEF clientVars, mcpCallVars, mcpHistory
<1>0. McpTypeOK
  BY DEF McpInductive
<1>1. ASSUME NEW k \in ToolCalls, NEW s \in McpServers, CallTool(k, s)
      PROVE  McpInductive'
  <2>1. McpTypeOK'
    BY <1>0, <1>1 DEF CallTool, CallAt, McpTypeOK
  <2>2. /\ UNCHANGED <<clientOf, serverOf, marked, sessions, gone, stopped, panics,
                       managerLock>>
        /\ \A j \in ToolCalls \ {k} :
               mcpPc'[j] = mcpPc[j] /\ wanted'[j] = wanted[j] /\ using'[j] = using[j]
        /\ mcpPc'[k] = "find"
    BY <1>0, <1>1 DEF CallTool, CallAt, McpTypeOK
  <2>3. QED
    BY <2>1, <2>2, CallStepKeeps
<1>2. ASSUME NEW k \in ToolCalls, NEW from \in {"find", "findAgain"},
             FindProvider(k, from) \/ NoProvider(k, from)
      PROVE  McpInductive'
  <2>1. McpTypeOK'
    BY <1>0, <1>2 DEF FindProvider, NoProvider, CallAt, McpTypeOK
  <2>2. /\ UNCHANGED <<clientOf, serverOf, marked, sessions, gone, stopped, panics,
                       managerLock>>
        /\ \A j \in ToolCalls \ {k} :
               mcpPc'[j] = mcpPc[j] /\ wanted'[j] = wanted[j] /\ using'[j] = using[j]
        /\ mcpPc'[k] \in {"check", "start", "over"}
    BY <1>0, <1>2 DEF FindProvider, NoProvider, CallAt, McpTypeOK
  <2>3. QED
    BY <2>1, <2>2, CallStepKeeps
<1>3. ASSUME NEW k \in ToolCalls, StartServer(k)
      PROVE  McpInductive'
  <2>1. CASE AlreadyThere(wanted[k])
    <3>1. McpTypeOK'
      BY <1>0, <1>3, <2>1 DEF StartServer, McpTypeOK
    <3>2. /\ UNCHANGED <<clientOf, serverOf, marked, sessions, gone, stopped, panics,
                         managerLock>>
          /\ \A j \in ToolCalls \ {k} :
                 mcpPc'[j] = mcpPc[j] /\ wanted'[j] = wanted[j] /\ using'[j] = using[j]
          /\ mcpPc'[k] = "findAgain"
      BY <1>0, <1>3, <2>1 DEF StartServer, McpTypeOK
    <3>3. QED
      BY <3>1, <3>2, CallStepKeeps
  <2>2. CASE ~AlreadyThere(wanted[k])
    <3>1. /\ managerLock = NoCall /\ managerLock' = k
          /\ clientOf[wanted[k]] \notin marked
          /\ wanted[k] \in McpServers
          /\ \A s \in McpServers :
                 clientOf'[s] = IF s = wanted[k] THEN 0 ELSE clientOf[s]
          /\ \A j \in ToolCalls : mcpPc'[j] = IF j = k THEN "connect" ELSE mcpPc[j]
          /\ UNCHANGED <<clientVars, wanted, using, losses, mcpHistory>>
      BY <1>0, <1>3, <2>2 DEF StartServer, AlreadyThere, Provided, ManagerFree, McpTypeOK
    <3>2. McpTypeOK'
      <4>1. 0 \in 0..connections
        BY <1>0 DEF McpTypeOK
      <4>2. /\ clientOf' \in [McpServers -> 0..connections]
            /\ mcpPc' \in [ToolCalls -> {"idle", "find", "start", "connect", "findAgain",
                                         "check", "send", "answer", "over"}]
        BY <1>0, <1>3, <2>2, <4>1 DEF StartServer, McpTypeOK
      <4>3. QED
        BY <1>0, <3>1, <4>2 DEF McpTypeOK
    <3>3. ConnectingHoldsLock'
      BY <3>1 DEF McpInductive, ConnectingHoldsLock
    <3>4. CheckedHasSession' /\ UnmarkedIsGone' /\ PanicNeedsStop'
      BY <3>1 DEF McpInductive, CheckedHasSession, UnmarkedIsGone, PanicNeedsStop
    <3>5. \A c \in sessions : serverOf[c] \in McpServers
      BY <1>0 DEF McpTypeOK, McpClients
    <3>6. ConnectedAreKnown'
      BY <1>0, <3>1, <3>5 DEF McpInductive, ConnectedAreKnown, McpTypeOK
    <3>7. ForgottenAreClosed'
      BY <3>1, <3>5 DEF McpInductive, ForgottenAreClosed, UnmarkedIsGone
    <3>8. QED
      BY <3>2, <3>3, <3>4, <3>6, <3>7 DEF McpInductive
  <2>3. QED
    BY <2>1, <2>2
<1>4. ASSUME NEW k \in ToolCalls, Connects(k)
      PROVE  McpInductive'
  <2> DEFINE new == connections + 1
  <2>1. /\ connections < MaxClients /\ connections' = new
        /\ mcpPc[k] = "connect" /\ mcpPc' = [mcpPc EXCEPT ![k] = "findAgain"]
        /\ serverOf' = [serverOf EXCEPT ![new] = wanted[k]]
        /\ startedBy' = [startedBy EXCEPT ![new] = k]
        /\ linkUp' = linkUp \cup {new}
        /\ marked' = marked \cup {new}
        /\ sessions' = sessions \cup {new}
        /\ clientOf' = [clientOf EXCEPT ![wanted[k]] = new]
        /\ managerLock' = NoCall
        /\ UNCHANGED <<wanted, using, losses, mcpHistory>>
    BY <1>4 DEF Connects, CallAt, LockAfterStart
  <2>2. connections \in Nat /\ new \in McpClients /\ new # 0
    BY <1>0, <2>1 DEF McpTypeOK, McpClients
  <2>3. /\ 1..connections \subseteq McpClients
        /\ 0..connections \subseteq 0..new /\ 1..connections \subseteq 1..new
        /\ new \in 1..new /\ new \in 0..new /\ new \in 0..MaxClients
        /\ new \notin 1..connections
    <3>1. connections \in Nat /\ MaxClients \in Nat /\ connections < MaxClients
      BY <1>0, <2>1 DEF McpTypeOK
    <3>2. QED
      BY <3>1 DEF McpClients
  <2>4. /\ clientOf[wanted[k]] = 0 /\ managerLock = k
        /\ wanted[k] \in McpServers
    BY <1>0, <2>1 DEF McpInductive, ConnectingHoldsLock, McpTypeOK
  <2>5. /\ \A s \in McpServers :
               clientOf'[s] = IF s = wanted[k] THEN new ELSE clientOf[s]
        /\ \A c \in McpClients : serverOf'[c] = IF c = new THEN wanted[k] ELSE serverOf[c]
        /\ \A j \in ToolCalls : mcpPc'[j] = IF j = k THEN "findAgain" ELSE mcpPc[j]
    BY <1>0, <2>1 DEF McpTypeOK
  <2> HIDE DEF new
  <2>6. McpTypeOK'
    <3>1. /\ clientOf' \in [McpServers -> 0..new]
          /\ using' \in [ToolCalls -> 0..new]
      BY <1>0, <2>1, <2>3 DEF McpTypeOK
    <3>2. /\ serverOf' \in [McpClients -> McpServers]
          /\ startedBy' \in [McpClients -> ToolCalls]
      BY <1>0, <2>1, <2>4 DEF McpTypeOK
    <3>3. linkUp' \cup sessions' \subseteq 1..new /\ marked' \subseteq sessions'
              /\ gone' \cup stopped' \cup panics' \subseteq 1..new
      BY <1>0, <2>1, <2>3 DEF McpTypeOK
    <3>4. mcpPc' \in [ToolCalls -> {"idle", "find", "start", "connect", "findAgain",
                                    "check", "send", "answer", "over"}]
      BY <1>0, <2>1 DEF McpTypeOK
    <3>5. QED
      BY <1>0, <2>1, <2>3, <3>1, <3>2, <3>3, <3>4 DEF McpTypeOK
  <2>7. ConnectingHoldsLock'
    BY <2>1, <2>4, <2>5 DEF McpInductive, ConnectingHoldsLock
  <2>8. CheckedHasSession' /\ UnmarkedIsGone' /\ PanicNeedsStop'
    BY <2>1, <2>5 DEF McpInductive, CheckedHasSession, UnmarkedIsGone, PanicNeedsStop
  <2>9. \A c \in sessions : c \in McpClients /\ c # new /\ c # 0 /\ serverOf[c] \in McpServers
    BY <1>0, <2>3 DEF McpTypeOK
  <2>10. ConnectedAreKnown'
    <3>1. marked \subseteq sessions
      BY <1>0 DEF McpTypeOK
    <3>2. QED
      BY <2>1, <2>2, <2>4, <2>5, <2>9, <3>1 DEF McpInductive, ConnectedAreKnown
  <2>11. ForgottenAreClosed'
    BY <2>1, <2>2, <2>4, <2>5, <2>9 DEF McpInductive, ForgottenAreClosed
  <2>12. QED
    BY <2>6, <2>7, <2>8, <2>10, <2>11 DEF McpInductive
<1>5. ASSUME NEW k \in ToolCalls, ConnectFails(k)
      PROVE  McpInductive'
  <2>1. /\ mcpPc[k] = "connect" /\ mcpPc' = [mcpPc EXCEPT ![k] = "over"]
        /\ managerLock' = NoCall
        /\ UNCHANGED <<clientOf, clientVars, wanted, using, losses, mcpHistory>>
    BY <1>5 DEF ConnectFails, CallAt, LockAfterStart
  <2>2. \A j \in ToolCalls : mcpPc'[j] = IF j = k THEN "over" ELSE mcpPc[j]
    BY <1>0, <2>1 DEF McpTypeOK
  <2>3. McpTypeOK'
    BY <1>0, <2>1 DEF McpTypeOK
  <2>4. ConnectingHoldsLock'
    BY <2>1, <2>2 DEF McpInductive, ConnectingHoldsLock
  <2>5. CheckedHasSession' /\ UnmarkedIsGone' /\ PanicNeedsStop' /\ ConnectedAreKnown'
            /\ ForgottenAreClosed'
    BY <2>1, <2>2
    DEF McpInductive, CheckedHasSession, UnmarkedIsGone, PanicNeedsStop, ConnectedAreKnown,
        ForgottenAreClosed
  <2>6. QED
    BY <2>3, <2>4, <2>5 DEF McpInductive
<1>6. ASSUME NEW k \in ToolCalls, CheckClient(k)
      PROVE  McpInductive'
  <2>1. McpTypeOK'
    BY <1>0, <1>6 DEF CheckClient, CallAt, McpTypeOK
  <2>2. /\ UNCHANGED <<clientOf, serverOf, marked, sessions, gone, stopped, panics,
                       managerLock>>
        /\ \A j \in ToolCalls \ {k} :
               mcpPc'[j] = mcpPc[j] /\ wanted'[j] = wanted[j] /\ using'[j] = using[j]
        /\ mcpPc'[k] \in {"send", "over"}
        /\ mcpPc'[k] = "send" => using'[k] \in sessions
    BY <1>0, <1>6 DEF CheckClient, CallAt, McpTypeOK
  <2>3. QED
    BY <2>1, <2>2, CallStepKeeps
<1>7. ASSUME NEW k \in ToolCalls, Send(k)
      PROVE  McpInductive'
  <2>1. /\ mcpPc[k] = "send"
        /\ mcpPc' = [mcpPc EXCEPT ![k] = IF using[k] \in sessions THEN "answer" ELSE "over"]
        /\ panics' = IF using[k] \in sessions THEN panics ELSE panics \cup {using[k]}
        /\ UNCHANGED <<clientOf, clientVars, managerLock, wanted, using, losses, gone, stopped>>
    BY <1>7 DEF Send, CallAt
  <2>2. \A j \in ToolCalls : mcpPc'[j] = mcpPc[j] \/ (j = k /\ mcpPc'[j] \in {"answer", "over"})
    BY <1>0, <2>1 DEF McpTypeOK
  <2>3. using[k] \in sessions \cup stopped
    BY <2>1 DEF McpInductive, CheckedHasSession
  <2>4. panics' \subseteq panics \cup stopped
    BY <2>1, <2>3
  <2>5. McpTypeOK'
    <3>1. mcpPc' \in [ToolCalls -> {"idle", "find", "start", "connect", "findAgain",
                                    "check", "send", "answer", "over"}]
      BY <1>0, <2>1 DEF McpTypeOK
    <3>2. QED
      BY <1>0, <2>1, <2>4, <3>1 DEF McpTypeOK
  <2>6. QED
    BY <2>1, <2>2, <2>4, <2>5
    DEF McpInductive, ConnectingHoldsLock, CheckedHasSession, UnmarkedIsGone,
        PanicNeedsStop, ConnectedAreKnown, ForgottenAreClosed
<1>8. ASSUME NEW k \in ToolCalls, Answered(k)
      PROVE  McpInductive'
  <2>1. McpTypeOK'
    BY <1>0, <1>8 DEF Answered, CallAt, McpTypeOK
  <2>2. /\ UNCHANGED <<clientOf, serverOf, marked, sessions, gone, stopped, panics,
                       managerLock>>
        /\ \A j \in ToolCalls \ {k} :
               mcpPc'[j] = mcpPc[j] /\ wanted'[j] = wanted[j] /\ using'[j] = using[j]
        /\ mcpPc'[k] = "over"
    BY <1>0, <1>8 DEF Answered, CallAt, McpTypeOK
  <2>3. QED
    BY <2>1, <2>2, CallStepKeeps
<1>9. ASSUME NEW k \in ToolCalls, ContextEndsAfter(k) \/ CallReturns(k)
      PROVE  McpInductive'
  <2>1. /\ mcpPc' = [mcpPc EXCEPT ![k] = "idle"]
        /\ wanted' = [wanted EXCEPT ![k] = AnyServer]
        /\ using' = [using EXCEPT ![k] = 0]
        /\ linkUp' \subseteq linkUp
        /\ UNCHANGED <<clientOf, connections, serverOf, startedBy, marked, sessions,
                       managerLock, losses, mcpHistory>>
    BY <1>9 DEF ContextEndsAfter, CallReturns, CallForgotten, CallAt
  <2>2. McpTypeOK'
    <3>1. 0 \in 0..connections
      BY <1>0 DEF McpTypeOK
    <3>2. /\ mcpPc' \in [ToolCalls -> {"idle", "find", "start", "connect", "findAgain",
                                       "check", "send", "answer", "over"}]
          /\ wanted' \in [ToolCalls -> McpServers] /\ using' \in [ToolCalls -> 0..connections]
      BY <1>0, <2>1, <3>1 DEF McpTypeOK
    <3>3. QED
      BY <1>0, <2>1, <3>2 DEF McpTypeOK
  <2>3. \A j \in ToolCalls \ {k} :
            mcpPc'[j] = mcpPc[j] /\ wanted'[j] = wanted[j] /\ using'[j] = using[j]
    BY <1>0, <2>1 DEF McpTypeOK
  <2>4. mcpPc'[k] = "idle"
    BY <1>0, <2>1 DEF McpTypeOK
  <2>5. QED
    BY <2>1, <2>2, <2>3, <2>4, CallStepKeeps
<1>10. ASSUME NEW c \in McpClients, ServerDies(c)
       PROVE  McpInductive'
  <2>1. /\ linkUp' \subseteq linkUp /\ losses < MaxFailures /\ losses' = losses + 1
        /\ UNCHANGED <<clientOf, connections, serverOf, startedBy, marked, sessions,
                       managerLock, mcpCallVars, mcpHistory>>
    BY <1>10 DEF ServerDies
  <2>2. losses' \in 0..MaxFailures
    BY <1>0, <2>1 DEF McpTypeOK
  <2>3. QED
    BY <1>0, <2>1, <2>2
    DEF McpInductive, McpTypeOK, ConnectingHoldsLock, CheckedHasSession, UnmarkedIsGone,
        PanicNeedsStop, ConnectedAreKnown, ForgottenAreClosed
<1>11. ASSUME NEW c \in McpClients, MonitorNotices(c)
       PROVE  McpInductive'
  <2>1. /\ c \in marked
        /\ marked' = marked \ {c} /\ gone' = gone \cup {c}
        /\ UNCHANGED <<clientOf, connections, serverOf, startedBy, linkUp, sessions,
                       managerLock, mcpCallVars, losses, stopped, panics>>
    BY <1>11 DEF MonitorNotices, SessionsAfterLoss
  <2>2. McpTypeOK'
    BY <1>0, <2>1 DEF McpTypeOK
  <2>3. QED
    BY <2>1, <2>2
    DEF McpInductive, ConnectingHoldsLock, CheckedHasSession, UnmarkedIsGone,
        PanicNeedsStop, ConnectedAreKnown, ForgottenAreClosed
<1>12. ASSUME NEW s \in McpServers, StopServer(s)
       PROVE  McpInductive'
  <2>1. /\ ManagerFree /\ clientOf[s] # 0
        /\ CloseClients({clientOf[s]})
        /\ clientOf' = [clientOf EXCEPT ![s] = 0]
        /\ UNCHANGED <<connections, serverOf, startedBy, managerLock, mcpCallVars, losses,
                       gone, panics>>
    BY <1>12 DEF StopServer, ClosedByStop
  <2>2. {clientOf[s]} \in SUBSET (1..connections) /\ 0 \in 0..connections
    BY <1>0, <2>1 DEF McpTypeOK
  <2>3. /\ clientOf' \in [McpServers -> 0..connections]
        /\ \A r \in McpServers :
               clientOf'[r] = clientOf[r] \/ (clientOf'[r] = 0 /\ clientOf[r] \in {clientOf[s]} \cup {0})
    BY <1>0, <2>1, <2>2 DEF McpTypeOK
  <2>4. QED
    BY <2>1, <2>2, <2>3, ForgetKeeps
<1>13. CASE CloseManager
  <2> DEFINE cs == {clientOf[s] : s \in McpServers} \ {0}
  <2>1. /\ ManagerFree
        /\ CloseClients(cs)
        /\ clientOf' = [s \in McpServers |-> 0]
        /\ UNCHANGED <<connections, serverOf, startedBy, managerLock, mcpCallVars, losses,
                       gone, panics>>
    BY <1>13 DEF CloseManager
  <2>2. cs \in SUBSET (1..connections) /\ 0 \in 0..connections
    <3>1. \A s \in McpServers : clientOf[s] # 0 => clientOf[s] \in 1..connections
      BY <1>0 DEF McpTypeOK
    <3>2. 0 \in 0..connections
      BY <1>0 DEF McpTypeOK
    <3>3. QED
      BY <3>1, <3>2
  <2>3. /\ clientOf' \in [McpServers -> 0..connections]
        /\ \A r \in McpServers : clientOf'[r] = 0 /\ clientOf[r] \in cs \cup {0}
    BY <2>1, <2>2
  <2> HIDE DEF cs
  <2>4. QED
    BY <2>1, <2>2, <2>3, ForgetKeeps
<1>14. CASE UNCHANGED mcpVars
  BY <1>0, <1>14
  DEF mcpVars, McpInductive, McpTypeOK, ConnectingHoldsLock, CheckedHasSession,
      UnmarkedIsGone, PanicNeedsStop, ConnectedAreKnown, ForgottenAreClosed
<1>15. QED
  BY <1>1, <1>2, <1>3, <1>4, <1>5, <1>6, <1>7, <1>8, <1>9, <1>10, <1>11, <1>12, <1>13, <1>14
  DEF McpNext, CallProgress

\* A client that is connected is the one the manager knows, a forgotten one is
\* closed or was gone before, and a call meets a nil session only after a stop,
\* for any servers, calls and failures.
THEOREM McpManagerIsSound == McpSpec => []McpManagerInv
<1>1. McpInductive => McpManagerInv
  BY DEF McpInductive, McpManagerInv
<1>2. QED
  BY McpStart, McpStep, <1>1, PTL DEF McpSpec

-----------------------------------------------------------------------------
(* The gateway *)

\* The set of clients holds those whose handler has registered and not yet left.
ClientsHaveHandlers ==
    \A c \in Peers : handler[c] \in {"none", "register", "done"} => c \notin gatewayClients

\* Nothing is open before its upgrade, a connection stays open until the
\* broadcaster or its handler's end closes it.
OpenHaveHandlers ==
    \A c \in Peers :
        /\ handler[c] \in {"none", "done"} => c \notin open
        /\ handler[c] = "register" => c \in open

\* Between two messages the broadcaster has nobody left to send to.
NobodyLeftToSendTo == broadcaster \in {"select", "ended"} => sendTo = {}

\* The broadcaster writes to one client at a time.
OneAtATime == \A c, d \in sendingTo : c = d

GatewayInductive ==
    GatewayInv /\ ClientsHaveHandlers /\ OpenHaveHandlers /\ NobodyLeftToSendTo /\ OneAtATime

LEMMA GatewayStep ==
    /\ GatewayInit => GatewayInductive
    /\ GatewayInductive /\ [GatewayNext]_gatewayVars => GatewayInductive'
<1> USE DEF linkVars, loopVars
<1>q. QueueSize \in Nat \ {0}
  BY GatewayAssumption
<1>1. ASSUME GatewayInit PROVE GatewayInductive
  <2>1. GatewayTypeOK
    <3>1. 0 \in 0..QueueSize
      BY <1>q
    <3>2. QED
      BY <1>1, <3>1 DEF GatewayInit, GatewayTypeOK
  <2>2. QED
    BY <1>1, <2>1 DEF GatewayInit, GatewayInductive, GatewayInv, ClientsAreServed,
       NothingLeftOpen, MeetingsEnd, StillUp, ClientsHaveHandlers, OpenHaveHandlers,
       NobodyLeftToSendTo, OneAtATime
<1>2. ASSUME GatewayInductive, [GatewayNext]_gatewayVars PROVE GatewayInductive'
  <2>0. /\ GatewayTypeOK /\ ClientsAreServed /\ NothingLeftOpen /\ MeetingsEnd
        /\ ClientsHaveHandlers /\ OpenHaveHandlers /\ NobodyLeftToSendTo /\ OneAtATime
    BY <1>2 DEF GatewayInductive, GatewayInv
  <2> USE DEF GatewayInductive, GatewayInv, ClientsAreServed, NothingLeftOpen, MeetingsEnd,
              ClientsHaveHandlers, OpenHaveHandlers, NobodyLeftToSendTo, OneAtATime,
              GatewayTypeOK
  <2>1. CASE ContextEnds
    BY <2>0, <2>1 DEF ContextEnds, StillUp
  <2>2. CASE LongRunLocks
    BY <2>0, <2>2 DEF LongRunLocks, StillUp
  <2>3. ASSUME NEW c \in Peers, NEW how \in {"reads", "stalls", "left"}, PeerChanges(c, how)
        PROVE  GatewayInductive'
    BY <2>0, <2>3 DEF PeerChanges, StillUp
  <2>4. ASSUME NEW c \in Peers, Upgrade(c)
        PROVE  GatewayInductive'
    BY <2>0, <2>4 DEF Upgrade, StillUp
  \* A step of the handler moves it among the places where it is served.
  <2>5. ASSUME NEW c \in Peers,
               HandlerStep(c) \/ ReadMessage(c) \/ AnswerCollides(c)
        PROVE  GatewayInductive'
    <3>1. PICK next \in {"answer", "writing", "read", "status", "unregister"} :
              handler' = [handler EXCEPT ![c] = next]
      BY <2>5 DEF HandlerStep, ReadMessage, GetStatus, WriteAnswer, AnswerWritten,
         AnswerCollides, ReadFails
    <3>2. /\ handler[c] \in {"status", "answer", "writing", "read"}
          /\ UNCHANGED <<ctxDone, muFree, peer, open, loopVars, queued, caller>>
          /\ StillUp
      BY <2>5 DEF HandlerStep, ReadMessage, GetStatus, WriteAnswer, AnswerWritten,
         AnswerCollides, ReadFails
    \* The connection is among those where writes have met as long as one lasts.
    <3>3. /\ meeting' = meeting \/ meeting' = meeting \cup {c} \/ meeting' = meeting \ {c}
          /\ c \in meeting' => c \in sendingTo' \/ handler'[c] = "writing"
      <4>1. CASE GetStatus(c) \/ ReadMessage(c) \/ ReadFails(c)
        BY <2>0, <3>1, <4>1 DEF GetStatus, ReadMessage, ReadFails
      <4>2. CASE WriteAnswer(c)
        BY <2>0, <4>2 DEF WriteAnswer, Meeting
      <4>3. CASE AnswerWritten(c) \/ AnswerCollides(c)
        BY <2>0, <4>3 DEF AnswerWritten, AnswerCollides, Parting
      <4>4. QED
        BY <2>5, <4>1, <4>2, <4>3 DEF HandlerStep
    <3>4. \A d \in Peers : handler'[d] = IF d = c THEN next ELSE handler[d]
      BY <2>0, <3>1
    <3>5. GatewayTypeOK'
      <4>1. handler' \in [Peers -> {"none", "register", "status", "answer", "writing", "read",
                                    "unregister", "done"}]
        BY <2>0, <3>1
      <4>2. QED
        BY <2>0, <3>2, <3>3, <4>1
    <3>6. /\ ClientsAreServed' /\ NothingLeftOpen' /\ ClientsHaveHandlers'
          /\ OpenHaveHandlers' /\ NobodyLeftToSendTo' /\ OneAtATime'
      BY <2>0, <3>2, <3>4
    <3>7. MeetingsEnd'
      BY <2>0, <3>2, <3>3, <3>4 DEF StillUp
    <3>8. QED
      BY <3>5, <3>6, <3>7
  <2>6. CASE BroadcasterEnds
    BY <2>0, <2>6 DEF BroadcasterEnds, StillUp
  <2>7. ASSUME NEW c \in Peers, Register(c)
        PROVE  GatewayInductive'
    BY <2>0, <2>7 DEF Register, StillUp
  <2>8. ASSUME NEW c \in Peers, Unregister(c)
        PROVE  GatewayInductive'
    <3>1. /\ UNCHANGED <<ctxDone, muFree, peer, broadcaster, sendTo, sendingTo, meeting, queued,
                         caller>>
          /\ broadcaster = "select" /\ handler[c] = "unregister"
          /\ gatewayClients' = gatewayClients \ {c} /\ open' = open \ {c}
          /\ handler' = [handler EXCEPT ![c] = "done"]
      BY <2>8 DEF Unregister, ClientsWithout, OpenAfter
    <3>2. GatewayTypeOK'
      BY <2>0, <3>1
    <3>3. \A d \in Peers : handler'[d] = IF d = c THEN "done" ELSE handler[d]
      BY <2>0, <3>1
    <3>4. /\ ClientsAreServed' /\ NothingLeftOpen' /\ MeetingsEnd' /\ OneAtATime'
          /\ ClientsHaveHandlers' /\ OpenHaveHandlers' /\ NobodyLeftToSendTo'
      BY <2>0, <3>1, <3>3 DEF StillUp
    <3>5. QED
      BY <3>2, <3>4
  <2>9. CASE TakeMessage
    <3>1. queued' \in 0..QueueSize
      BY <2>0, <2>9, <1>q DEF TakeMessage
    <3>2. QED
      BY <2>0, <2>9, <3>1 DEF TakeMessage, StillUp
  <2>10. ASSUME NEW c \in Peers, SendTo(c)
         PROVE  GatewayInductive'
    BY <2>0, <2>10 DEF SendTo, Meeting, StillUp
  \* The write returns: the client is written to no more, and whether it is
  \* forgotten or not, it is so both among the clients and the connections.
  <2>11. ASSUME NEW c \in Peers, SendReturns(c) \/ SendFails(c)
         PROVE  GatewayInductive'
    <3>1. PICK failed \in BOOLEAN : SendEnds(c, failed)
      BY <2>11 DEF SendReturns, SendFails, WriteFails
    <3>2. /\ sendingTo' = {} /\ sendTo' = sendTo \ {c}
          /\ broadcaster' = "send" /\ broadcaster = "send"
          /\ UNCHANGED <<ctxDone, muFree, handler, peer, queued, caller>>
      <4>1. broadcaster = "send"
        BY <2>11 DEF SendReturns, SendFails
      <4>2. QED
        BY <3>1, <4>1 DEF SendEnds, AfterWrite
    <3>w. c \in sendingTo /\ \A d \in sendingTo : d = c
      BY <2>0, <3>1 DEF SendEnds
    <3>3. \/ open' = open /\ gatewayClients' = gatewayClients
          \/ open' = open \ {c} /\ gatewayClients' = gatewayClients \ {c}
      BY <3>1 DEF SendEnds, Dropped
    <3>4. meeting' \subseteq meeting /\ (c \in meeting' => handler[c] = "writing")
      BY <3>1 DEF SendEnds, Parting
    <3>5. handler[c] \notin {"none", "register", "done"}
      BY <2>0, <3>w
    <3>6. QED
      BY <2>0, <3>2, <3>w, <3>3, <3>4, <3>5 DEF StillUp
  <2>12. ASSUME NEW c \in Peers, SendPanics(c)
         PROVE  GatewayInductive'
    BY <2>0, <2>12 DEF SendPanics, StillUp
  <2>13. CASE MessageSent
    BY <2>0, <2>13 DEF MessageSent, StillUp
  <2>14. ASSUME NEW k \in Broadcasters, CallBroadcast(k)
         PROVE  GatewayInductive'
    BY <2>0, <2>14 DEF CallBroadcast, StillUp
  <2>15. ASSUME NEW k \in Broadcasters, Enqueue(k)
         PROVE  GatewayInductive'
    <3>1. queued' \in 0..QueueSize
      BY <2>0, <2>15, <1>q DEF Enqueue, HasPlace
    <3>2. QED
      BY <2>0, <2>15, <3>1 DEF Enqueue, StillUp
  <2>16. CASE UNCHANGED gatewayVars
    BY <2>0, <2>16 DEF gatewayVars, StillUp
  <2>17. QED
    BY <1>2, <2>1, <2>2, <2>3, <2>4, <2>5, <2>6, <2>7, <2>8, <2>9, <2>10, <2>11, <2>12, <2>13,
       <2>14, <2>15, <2>16 DEF GatewayNext, BroadcasterStep, WritesCollide
<1>3. QED
  BY <1>1, <1>2

\* Whoever is in the set of clients has a running handler and an open
\* connection, a handler that is done has closed its own, whether the
\* broadcaster or the handler was first, and the broadcaster panics only in a
\* write to a client whose handler is still at work (gateway.go:118-292).
THEOREM GatewayIsSound == GatewaySpec => []GatewayInv
<1>1. GatewayInductive => GatewayInv
  BY DEF GatewayInductive
<1>2. QED
  BY <1>1, GatewayStep, PTL DEF GatewaySpec

-----------------------------------------------------------------------------
(* Plans and their executions *)

\* A step before or after an execution: completed with a result, and given an
\* output of the step before it that this one has renewed at most.
StepFits(plan, i) ==
    /\ plan.steps[i].status = "completed" => plan.steps[i].result # 0
    /\ plan.steps[i].argument # 0 =>
           (i > 1 /\ plan.steps[i - 1].result >= plan.steps[i].argument)

RowFits(plan) ==
    /\ plan.status # "running"
    /\ StepsThat(plan, "pending") = IF plan.status = "pending" THEN PlanStep ELSE {}
    /\ plan.status = "completed" => (StepsThat(plan, "completed") # {} \/ PlanStep = {})
    /\ plan.status = "failed" => (StepsThat(plan, "failed") = PlanStep /\ PlanStep # {})
    /\ \A i \in PlanStep : StepFits(plan, i)

\* A plan holds what executions before this number have put out.
OlderThan(plan, number) ==
    \A i \in PlanStep : plan.steps[i].result < number /\ plan.steps[i].argument < number

\* Step i of a copy: as it was loaded, or executed under a number that is new.
StepKept(x, i) == x.plan.steps[i] = x.loaded.steps[i]
StepDone(x, i) ==
    LET row == x.plan.steps[i]  old == x.loaded.steps[i] IN
    /\ row.status \in {"completed", "failed"}
    /\ row.status = "completed" => row.result = x.number
    /\ row.status = "failed" => row.result = old.result
    /\ old.argument # 0 => row.argument = old.argument
    /\ old.argument = 0 => row.argument \in {0, x.number}
    /\ row.argument # 0 => (i > 1 /\ x.plan.steps[i - 1].result >= row.argument)
    /\ row.result = x.number =>
           \A d \in x.plan.needs[i] :
               IF d < i THEN x.plan.steps[d].result = x.number
                        ELSE x.loaded.steps[d].result # 0

LoadedFits(x) ==
    /\ RowFits(x.loaded)
    /\ x.plan.needs = x.loaded.needs
    /\ OlderThan(x.loaded, x.number)

ExecutionFits(x) ==
    /\ LoadedFits(x)
    /\ \A i \in PlanStep : IF i < x.at THEN StepDone(x, i) ELSE StepKept(x, i)

OutcomeFits(x) ==
    /\ LoadedFits(x)
    /\ \A i \in PlanStep : StepDone(x, i)
    /\ x.answer = "success" => StepsThat(x.plan, "failed") = {}

PlanInductive ==
    /\ PlanTypeOK
    /\ \A q \in PlanIds : storedPlan[q] # NoPlan =>
           (RowFits(storedPlan[q]) /\ OlderThan(storedPlan[q], planExecutions + 1))
    /\ \A r \in PlanRunners : execution[r] # NoPlan =>
           (ExecutionFits(execution[r]) /\ execution[r].number <= planExecutions)
    /\ lastOutcome # NoPlan => (OutcomeFits(lastOutcome) /\ lastOutcome.number <= planExecutions)

-----------------------------------------------------------------------------

\* What the assumptions say of the sets.
LEMMA PlanSets ==
    /\ NoPlan \notin Plan /\ NoPlan \notin Execution /\ NoPlan \notin Outcome
    /\ PlanSize \in Nat /\ MaxExecutions \in Nat /\ MaxSaveFaults \in Nat
    /\ PlanStep \subseteq Nat
    /\ \A plan \in Plan : \A i \in PlanStep :
           /\ plan.steps[i] \in StepRow /\ plan.needs[i] \subseteq PlanStep
<1>1. \A needs \in Dependencies \cup {NoNeeds} : needs \in [PlanStep -> SUBSET PlanStep]
  BY DependenciesAssumption DEF NoNeeds, PlanStep
<1>2. \A plan \in Plan : \A i \in PlanStep : plan.steps[i] \in StepRow
  BY DEF Plan
<1>3. \A plan \in Plan : \A i \in PlanStep : plan.needs[i] \subseteq PlanStep
  <2>1. SUFFICES ASSUME NEW plan \in Plan, NEW i \in PlanStep PROVE plan.needs[i] \subseteq PlanStep
    OBVIOUS
  <2>2. plan.needs \in Dependencies \cup {NoNeeds}
    BY <2>1 DEF Plan
  <2>3. QED BY <2>1, <2>2, <1>1
<1>4. QED
  BY <1>2, <1>3, PlanSizeAssumption, NoPlanAssumption DEF PlanStep

\* The first plan of an id, and what a revision puts beside the one it revises.
LEMMA NewPlansFit ==
    ASSUME NEW tools \in [PlanStep -> {"known", "unknown"}], NEW revised \in BOOLEAN,
           NEW needs \in Dependencies \cup {NoNeeds}, NEW plan,
           plan = [status |-> "pending", revised |-> revised, needs |-> needs,
                   steps |-> [i \in PlanStep |-> NewStep(tools[i])]]
    PROVE  plan \in Plan /\ RowFits(plan) /\ \A n \in Nat : OlderThan(plan, n + 1)
<1>1. plan \in Plan
  <2>1. \A i \in PlanStep : NewStep(tools[i]) \in StepRow
    BY PlanSets DEF NewStep, StepRow
  <2>2. QED BY <2>1 DEF Plan
<1>2. \A i \in PlanStep : plan.steps[i].status = "pending" /\ plan.steps[i].argument = 0
                           /\ plan.steps[i].result = 0
  BY DEF NewStep
<1>3. RowFits(plan)
  BY <1>2 DEF RowFits, StepFits, StepsThat
<1>4. QED
  BY <1>1, <1>2, <1>3 DEF OlderThan

\* The copy after a step.
Moved(x, row) == [x EXCEPT !.plan.steps[x.at] = row, !.at = @ + 1]

LEMMA MovedFields ==
    ASSUME NEW x \in Execution, NEW row \in StepRow, x.at \in PlanStep
    PROVE  /\ Moved(x, row) \in Execution
           /\ Moved(x, row).number = x.number /\ Moved(x, row).loaded = x.loaded
           /\ Moved(x, row).plan.needs = x.plan.needs
           /\ Moved(x, row).at = x.at + 1
           /\ Moved(x, row).plan.steps[x.at] = row
           /\ \A i \in PlanStep : i # x.at => Moved(x, row).plan.steps[i] = x.plan.steps[i]
<1>1. x.plan \in Plan /\ x.at \in 1..PlanSize + 1
  BY DEF Execution
<1>2. x.plan.steps \in [PlanStep -> StepRow]
  BY <1>1 DEF Plan
<1>3. [x.plan.steps EXCEPT ![x.at] = row] \in [PlanStep -> StepRow]
  BY <1>2
<1>4. [x.plan EXCEPT !.steps[x.at] = row] \in Plan
  BY <1>1, <1>3 DEF Plan
<1>5. x.at + 1 \in 1..PlanSize + 1
  BY PlanSets DEF PlanStep
<1>6. Moved(x, row) = [[x EXCEPT !.plan = [x.plan EXCEPT !.steps[x.at] = row]] EXCEPT !.at = x.at + 1]
  BY DEF Moved, Execution
<1>7. Moved(x, row) = [id |-> x.id, plan |-> [x.plan EXCEPT !.steps[x.at] = row], number |-> x.number,
                       at |-> x.at + 1, loaded |-> x.loaded]
  BY <1>6 DEF Execution
<1>8. Moved(x, row) \in Execution
  BY <1>4, <1>5, <1>7 DEF Execution
<1>9. [x.plan EXCEPT !.steps[x.at] = row].steps = [x.plan.steps EXCEPT ![x.at] = row]
      /\ [x.plan EXCEPT !.steps[x.at] = row].needs = x.plan.needs
  BY <1>1 DEF Plan
<1>10. Moved(x, row).plan = [x.plan EXCEPT !.steps[x.at] = row] /\ Moved(x, row).at = x.at + 1
       /\ Moved(x, row).number = x.number /\ Moved(x, row).loaded = x.loaded
  BY <1>7
<1>11. Moved(x, row).plan.steps = [x.plan.steps EXCEPT ![x.at] = row]
  BY <1>9, <1>10
<1>12. Moved(x, row).plan.steps[x.at] = row
       /\ \A i \in PlanStep : i # x.at => Moved(x, row).plan.steps[i] = x.plan.steps[i]
  BY <1>2, <1>11
<1>13. QED
  BY <1>8, <1>9, <1>10, <1>12

\* What the fields of an execution are.
LEMMA ExecutionFields ==
    ASSUME NEW x \in Execution
    PROVE  /\ x.plan \in Plan /\ x.loaded \in Plan
           /\ x.number \in Nat /\ x.number > 0 /\ x.at \in Nat
           /\ x.id \in PlanIds
           /\ \A i \in PlanStep :
                  /\ i \in Nat
                  /\ i > 1 => i - 1 \in PlanStep
                  /\ x.plan.steps[i] \in StepRow /\ x.loaded.steps[i] \in StepRow
                  /\ x.plan.steps[i].result \in Nat /\ x.plan.steps[i].argument \in Nat
                  /\ x.loaded.steps[i].result \in Nat /\ x.loaded.steps[i].argument \in Nat
                  /\ x.plan.needs[i] \subseteq PlanStep
<1>1. x.plan \in Plan /\ x.loaded \in Plan /\ x.number \in Nat /\ x.number > 0 /\ x.at \in Nat
      /\ x.id \in PlanIds
  BY PlanSets DEF Execution
<1>2. \A i \in PlanStep : x.plan.steps[i] \in StepRow /\ x.loaded.steps[i] \in StepRow
                         /\ x.plan.needs[i] \subseteq PlanStep
  BY <1>1, PlanSets
<1>3. \A row \in StepRow : row.result \in Nat /\ row.argument \in Nat
  BY PlanSets DEF StepRow
<1>4. \A i \in PlanStep : i \in Nat /\ (i > 1 => i - 1 \in PlanStep)
  BY PlanSets DEF PlanStep
<1>5. QED
  BY <1>1, <1>2, <1>3, <1>4

\* A step done stays done while later steps are.
LEMMA DoneStays ==
    ASSUME NEW x \in Execution, NEW row \in StepRow, x.at \in PlanStep, ExecutionFits(x),
           StepDone(Moved(x, row), x.at)
    PROVE  Moved(x, row) \in Execution /\ ExecutionFits(Moved(x, row))
<1> DEFINE y == Moved(x, row)
<1>1. /\ y \in Execution /\ y.number = x.number /\ y.loaded = x.loaded
      /\ y.plan.needs = x.plan.needs /\ y.at = x.at + 1
      /\ \A i \in PlanStep : i # x.at => y.plan.steps[i] = x.plan.steps[i]
  BY MovedFields
<1>2. StepDone(y, x.at)
  OBVIOUS
<1> HIDE DEF y
<1>3. LoadedFits(y)
  BY <1>1 DEF ExecutionFits, LoadedFits
<1>4. ASSUME NEW i \in PlanStep, i < x.at PROVE StepDone(y, i)
  <2>1. StepDone(x, i)
    BY <1>4 DEF ExecutionFits
  <2>2. i \in Nat /\ x.at \in Nat /\ (i > 1 => i - 1 \in PlanStep) /\ x.plan.needs[i] \subseteq PlanStep
    BY ExecutionFields
  <2>3. y.plan.steps[i] = x.plan.steps[i]
    BY <1>1, <1>4, <2>2
  <2>4. i > 1 => y.plan.steps[i - 1] = x.plan.steps[i - 1]
    BY <1>1, <1>4, <2>2
  <2>5. \A d \in x.plan.needs[i] : d < i => y.plan.steps[d] = x.plan.steps[d]
    <3>1. SUFFICES ASSUME NEW d \in x.plan.needs[i], d < i PROVE y.plan.steps[d] = x.plan.steps[d]
      OBVIOUS
    <3>2. d \in PlanStep /\ d # x.at
      BY <1>4, <2>2, <3>1, PlanSets
    <3>3. QED BY <3>2, <1>1
  <2>6. QED
    BY <1>1, <2>1, <2>3, <2>4, <2>5 DEF StepDone
<1>5. ASSUME NEW i \in PlanStep, ~(i < x.at + 1) PROVE StepKept(y, i)
  <2>1. i \in Nat /\ x.at \in Nat
    BY ExecutionFields
  <2>2. i # x.at /\ ~(i < x.at)
    BY <1>5, <2>1
  <2>3. QED
    BY <1>1, <2>2 DEF ExecutionFits, StepKept
<1>6. \A i \in PlanStep : i < x.at + 1 => (i < x.at \/ i = x.at)
  <2>1. x.at \in Nat /\ PlanStep \subseteq Nat
    BY ExecutionFields, PlanSets
  <2>2. QED BY <2>1
<1>7. QED
  BY <1>1, <1>2, <1>3, <1>4, <1>5, <1>6 DEF ExecutionFits, y

\* What a copy says of the step it has come to, and of those around it.
LEMMA AroundTheStep ==
    ASSUME NEW x \in Execution, x.at \in PlanStep, ExecutionFits(x)
    PROVE  LET i == x.at  row == x.plan.steps[i]  old == x.loaded.steps[i] IN
           /\ row = old
           /\ old.result < x.number /\ old.argument < x.number
           /\ old.argument # 0 => (i > 1 /\ x.plan.steps[i - 1].result >= old.argument)
           /\ (i > 1 /\ x.plan.steps[i - 1].status = "completed") => x.plan.steps[i - 1].result = x.number
           /\ DependenciesSatisfied(x, i) =>
                  \A d \in x.plan.needs[i] :
                      IF d < i THEN x.plan.steps[d].result = x.number
                               ELSE x.loaded.steps[d].result # 0
<1> DEFINE i == x.at
<1>1. i \in Nat /\ (i > 1 => i - 1 \in PlanStep) /\ x.plan.needs[i] \subseteq PlanStep
  BY ExecutionFields
<1>2. LoadedFits(x) /\ \A j \in PlanStep : (j < i => StepDone(x, j)) /\ (~(j < i) => StepKept(x, j))
  BY DEF ExecutionFits
<1>3. x.plan.steps[i] = x.loaded.steps[i]
  BY <1>1, <1>2 DEF StepKept
<1>4. x.loaded.steps[i].result < x.number /\ x.loaded.steps[i].argument < x.number
  BY <1>2 DEF LoadedFits, OlderThan
<1>5. x.loaded.steps[i].argument # 0 =>
         (i > 1 /\ x.loaded.steps[i - 1].result >= x.loaded.steps[i].argument)
  BY <1>2 DEF LoadedFits, RowFits, StepFits
<1>6. i > 1 => StepDone(x, i - 1)
  BY <1>1, <1>2
<1>7. i > 1 => (x.plan.steps[i - 1].result = x.number
                \/ x.plan.steps[i - 1].result = x.loaded.steps[i - 1].result)
  BY <1>6 DEF StepDone
<1>8. x.loaded.steps[i].argument # 0 =>
         (i > 1 /\ x.plan.steps[i - 1].result >= x.loaded.steps[i].argument)
  <2>1. x.number \in Nat /\ x.loaded.steps[i].argument \in Nat
    BY ExecutionFields
  <2>2. QED BY <1>4, <1>5, <1>7, <2>1
<1>9. (i > 1 /\ x.plan.steps[i - 1].status = "completed") => x.plan.steps[i - 1].result = x.number
  BY <1>6 DEF StepDone
<1>10. ASSUME DependenciesSatisfied(x, i), NEW d \in x.plan.needs[i]
       PROVE  IF d < i THEN x.plan.steps[d].result = x.number
                       ELSE x.loaded.steps[d].result # 0
  <2>1. d \in PlanStep
    BY <1>1
  <2>2. x.plan.steps[d].status = "completed"
    BY <1>10 DEF DependenciesSatisfied
  <2>3. CASE d < i
    BY <1>2, <2>1, <2>2, <2>3 DEF StepDone
  <2>4. CASE ~(d < i)
    <3>1. x.loaded.steps[d].status = "completed"
      BY <1>2, <2>1, <2>2, <2>4 DEF StepKept
    <3>2. QED
      BY <1>2, <2>1, <2>4, <3>1 DEF LoadedFits, RowFits, StepFits
  <2>5. QED BY <2>3, <2>4
<1>11. QED
  BY <1>3, <1>4, <1>8, <1>9, <1>10

\* A step whose dependencies failed.
LEMMA BlockedStepDone ==
    ASSUME NEW x \in Execution, x.at \in PlanStep, ExecutionFits(x),
           NEW row, row = [x.plan.steps[x.at] EXCEPT !.status = "failed", !.error = TRUE]
    PROVE  row \in StepRow /\ StepDone(Moved(x, row), x.at)
<1> DEFINE i == x.at  y == Moved(x, row)
<1>1. x.plan.steps[i] \in StepRow /\ x.plan.steps[i] = x.loaded.steps[i]
  BY ExecutionFields, AroundTheStep
<1>2. row \in StepRow /\ row.status = "failed" /\ row.result = x.loaded.steps[i].result
      /\ row.argument = x.loaded.steps[i].argument
  BY <1>1 DEF StepRow
<1>3. /\ y.number = x.number /\ y.loaded = x.loaded
      /\ y.plan.steps[i] = row
      /\ i > 1 => y.plan.steps[i - 1] = x.plan.steps[i - 1]
  <2>1. i \in Nat /\ (i > 1 => i - 1 \in PlanStep)
    BY ExecutionFields
  <2>2. i > 1 => i - 1 # i
    BY <2>1
  <2>3. /\ y.number = x.number /\ y.loaded = x.loaded /\ y.plan.steps[i] = row
        /\ \A j \in PlanStep : j # i => y.plan.steps[j] = x.plan.steps[j]
    BY <1>2, MovedFields, ZenonT(60)
  <2>4. QED BY <2>1, <2>2, <2>3
<1>4. x.loaded.steps[i].result < x.number
      /\ (row.argument # 0 => (i > 1 /\ x.plan.steps[i - 1].result >= row.argument))
  BY <1>2, AroundTheStep
<1>5. row.result # x.number
  <2>1. x.loaded.steps[i].result \in Nat /\ x.number \in Nat
    BY ExecutionFields
  <2>2. QED BY <1>2, <1>4, <2>1
<1> HIDE DEF y, i
<1>6. StepDone(y, i)
  BY <1>2, <1>3, <1>4, <1>5 DEF StepDone
<1>7. QED BY <1>2, <1>6 DEF y, i

\* A step that is executed, as far as its argument is concerned.
LEMMA PreprocessedFits ==
    ASSUME NEW x \in Execution, x.at \in PlanStep, ExecutionFits(x)
    PROVE  LET i == x.at  old == x.loaded.steps[i].argument IN
           /\ Preprocessed(x, i) \in 0..MaxExecutions
           /\ old # 0 => Preprocessed(x, i) = old
           /\ old = 0 => Preprocessed(x, i) \in {0, x.number}
           /\ Preprocessed(x, i) # 0 =>
                  (i > 1 /\ x.plan.steps[i - 1].result >= Preprocessed(x, i))
<1> DEFINE i == x.at
<1>1. x.plan.steps[i] = x.loaded.steps[i] /\ x.plan.steps[i] \in StepRow /\ x.number \in Nat
      /\ x.number \in 0..MaxExecutions
  BY ExecutionFields, AroundTheStep, PlanSets DEF Execution
<1>2. CASE i \in RefersBack /\ i > 1 /\ x.plan.steps[i].argument = 0
           /\ x.plan.steps[i - 1].status = "completed"
  <2>1. Preprocessed(x, i) = x.plan.steps[i - 1].result /\ x.plan.steps[i - 1].result = x.number
    BY <1>2, AroundTheStep DEF Preprocessed
  <2>2. QED BY <1>1, <1>2, <2>1
<1>3. CASE ~(i \in RefersBack /\ i > 1 /\ x.plan.steps[i].argument = 0
             /\ x.plan.steps[i - 1].status = "completed")
  <2>1. Preprocessed(x, i) = x.plan.steps[i].argument
    BY <1>3 DEF Preprocessed
  <2>2. x.plan.steps[i].argument \in 0..MaxExecutions
    BY <1>1 DEF StepRow
  <2>3. QED BY <1>1, <2>1, <2>2, AroundTheStep
<1>4. QED BY <1>2, <1>3

\* A step that is executed, and succeeds or fails.
LEMMA ExecutedStepDone ==
    ASSUME NEW x \in Execution, x.at \in PlanStep, ExecutionFits(x), DependenciesSatisfied(x, x.at),
           NEW ok \in BOOLEAN, NEW given, NEW row,
           given = [x.plan.steps[x.at] EXCEPT !.argument = Preprocessed(x, x.at)],
           row = IF ok THEN [given EXCEPT !.status = "completed", !.result = x.number]
                       ELSE [given EXCEPT !.status = "failed", !.error = TRUE]
    PROVE  row \in StepRow /\ StepDone(Moved(x, row), x.at)
<1> DEFINE i == x.at  y == Moved(x, row)
<1>1. x.plan.steps[i] \in StepRow /\ x.plan.steps[i] = x.loaded.steps[i] /\ x.number \in 0..MaxExecutions
  BY ExecutionFields, AroundTheStep, PlanSets DEF Execution
<1>2. /\ row \in StepRow /\ row.argument = Preprocessed(x, i)
      /\ IF ok THEN row.status = "completed" /\ row.result = x.number
               ELSE row.status = "failed" /\ row.result = x.loaded.steps[i].result
  <2>1. Preprocessed(x, i) \in 0..MaxExecutions
    BY PreprocessedFits
  <2>2. given \in StepRow /\ given.argument = Preprocessed(x, i)
        /\ given.result = x.loaded.steps[i].result
    BY <1>1, <2>1 DEF StepRow
  <2>3. CASE ok
    BY <1>1, <2>2, <2>3 DEF StepRow
  <2>4. CASE ~ok
    BY <1>1, <2>2, <2>4 DEF StepRow
  <2>5. QED BY <2>3, <2>4
<1>3. /\ y.number = x.number /\ y.loaded = x.loaded /\ y.plan.needs = x.plan.needs
      /\ y.plan.steps[i] = row
      /\ \A j \in PlanStep : j # i => y.plan.steps[j] = x.plan.steps[j]
  <2>1. row \in StepRow
    BY <1>2
  <2>2. QED BY <2>1, MovedFields, ZenonT(60)
<1>4. i > 1 => y.plan.steps[i - 1] = x.plan.steps[i - 1]
  <2>1. i \in Nat /\ (i > 1 => i - 1 \in PlanStep)
    BY ExecutionFields
  <2>2. i > 1 => i - 1 # i
    BY <2>1
  <2>3. QED BY <1>3, <2>1, <2>2
<1>5. /\ x.loaded.steps[i].argument # 0 => row.argument = x.loaded.steps[i].argument
      /\ x.loaded.steps[i].argument = 0 => row.argument \in {0, x.number}
      /\ row.argument # 0 => (i > 1 /\ x.plan.steps[i - 1].result >= row.argument)
  BY <1>2, PreprocessedFits
<1>6. \A d \in x.plan.needs[i] : IF d < i THEN y.plan.steps[d].result = x.number
                                        ELSE x.loaded.steps[d].result # 0
  <2>1. SUFFICES ASSUME NEW d \in x.plan.needs[i]
                 PROVE  IF d < i THEN y.plan.steps[d].result = x.number
                                 ELSE x.loaded.steps[d].result # 0
    OBVIOUS
  <2>2. d \in PlanStep /\ i \in Nat /\ d \in Nat
    BY ExecutionFields, PlanSets
  <2>3. IF d < i THEN x.plan.steps[d].result = x.number ELSE x.loaded.steps[d].result # 0
    BY <2>1, AroundTheStep
  <2>4. d < i => d # i
    BY <2>2
  <2>5. d < i => y.plan.steps[d] = x.plan.steps[d]
    BY <1>3, <2>2, <2>4
  <2>6. QED BY <2>3, <2>5
<1> HIDE DEF y, i
<1>7. StepDone(y, i)
  <2>1. CASE ok
    BY <1>2, <1>3, <1>4, <1>5, <1>6, <2>1 DEF StepDone
  <2>2. CASE ~ok
    BY <1>2, <1>3, <1>4, <1>5, <1>6, <2>2 DEF StepDone
  <2>3. QED BY <2>1, <2>2
<1>8. QED BY <1>2, <1>7 DEF y, i

-----------------------------------------------------------------------------

LEMMA PlanInit == PlanExecutionInit => PlanInductive
  BY PlanSets DEF PlanExecutionInit, PlanInductive, PlanTypeOK

\* A new row in the place of none, when nothing else changes.
LEMMA RowMade ==
    ASSUME PlanInductive, NEW q \in PlanIds, NEW plan \in Plan, RowFits(plan),
           \A n \in Nat : OlderThan(plan, n + 1),
           storedPlan' = [storedPlan EXCEPT ![q] = plan],
           UNCHANGED <<execution, planExecutions, lastOutcome, saveFaults>>
    PROVE  PlanInductive'
<1>1. PlanTypeOK'
  BY DEF PlanInductive, PlanTypeOK
<1>2. ASSUME NEW p \in PlanIds, storedPlan'[p] # NoPlan
      PROVE  RowFits(storedPlan'[p]) /\ OlderThan(storedPlan'[p], planExecutions' + 1)
  <2>1. CASE p = q
    <3>1. storedPlan'[p] = plan /\ planExecutions' \in Nat
      BY <2>1, PlanSets DEF PlanInductive, PlanTypeOK
    <3>2. QED BY <3>1
  <2>2. CASE p # q
    <3>1. storedPlan'[p] = storedPlan[p] /\ planExecutions' = planExecutions
      BY <2>2 DEF PlanInductive, PlanTypeOK
    <3>2. QED BY <1>2, <3>1 DEF PlanInductive
  <2>3. QED BY <2>1, <2>2
<1>3. QED
  BY <1>1, <1>2 DEF PlanInductive

LEMMA PlanMakes ==
    ASSUME PlanInductive, NEW q \in PlanIds, MakePlan(q) PROVE PlanInductive'
<1>1. PICK needs \in Dependencies :
          storedPlan' = [storedPlan EXCEPT ![q] =
              [status |-> "pending", revised |-> FALSE, needs |-> needs,
               steps  |-> [i \in PlanStep |-> NewStep("known")]]]
  BY DEF MakePlan
<1>2. PICK tools \in [PlanStep -> {"known", "unknown"}] : tools = [i \in PlanStep |-> "known"]
  OBVIOUS
<1>3. [i \in PlanStep |-> NewStep("known")] = [i \in PlanStep |-> NewStep(tools[i])]
  BY <1>2
<1>4. PICK plan : plan = [status |-> "pending", revised |-> FALSE, needs |-> needs,
                          steps |-> [i \in PlanStep |-> NewStep(tools[i])]]
  OBVIOUS
<1>5. plan \in Plan /\ RowFits(plan) /\ \A n \in Nat : OlderThan(plan, n + 1)
  BY <1>4, NewPlansFit
<1>6. storedPlan' = [storedPlan EXCEPT ![q] = plan]
  BY <1>1, <1>3, <1>4
<1>7. QED
  BY <1>5, <1>6, RowMade DEF MakePlan

LEMMA PlanRevises ==
    ASSUME PlanInductive, NEW p \in PlanIds, NEW q \in PlanIds, RevisePlan(p, q) PROVE PlanInductive'
<1>1. PICK tools \in [PlanStep -> {"known", "unknown"}] :
          storedPlan' = [storedPlan EXCEPT ![q] =
              [status |-> "pending", revised |-> TRUE, needs |-> NoNeeds,
               steps  |-> [i \in PlanStep |-> NewStep(tools[i])]]]
  BY DEF RevisePlan
<1>2. PICK plan : plan = [status |-> "pending", revised |-> TRUE, needs |-> NoNeeds,
                          steps |-> [i \in PlanStep |-> NewStep(tools[i])]]
  OBVIOUS
<1>3. PICK needs \in Dependencies \cup {NoNeeds} : needs = NoNeeds
  OBVIOUS
<1>4. plan \in Plan /\ RowFits(plan) /\ \A n \in Nat : OlderThan(plan, n + 1)
  BY <1>2, <1>3, NewPlansFit
<1>5. QED
  BY <1>1, <1>2, <1>4, RowMade DEF RevisePlan

LEMMA OlderThanLater ==
    ASSUME NEW plan \in Plan, NEW m \in Nat, NEW n \in Nat, m <= n, OlderThan(plan, m + 1)
    PROVE  OlderThan(plan, n + 1)
<1>1. \A i \in PlanStep : plan.steps[i].result \in Nat /\ plan.steps[i].argument \in Nat
  BY PlanSets DEF StepRow
<1>2. QED BY <1>1 DEF OlderThan

\* A runner goes on with a copy that fits, when nothing else changes.
LEMMA CopyMade ==
    ASSUME PlanInductive, NEW r \in PlanRunners, NEW y \in Execution,
           ExecutionFits(y), NEW n \in Nat, n >= planExecutions, n <= MaxExecutions, y.number <= n,
           execution' = [execution EXCEPT ![r] = y], planExecutions' = n,
           UNCHANGED <<storedPlan, lastOutcome, saveFaults>>
    PROVE  PlanInductive'
<1>0. planExecutions \in Nat
  BY PlanSets DEF PlanInductive, PlanTypeOK
<1>1. PlanTypeOK'
  BY PlanSets DEF PlanInductive, PlanTypeOK
<1>2. ASSUME NEW q \in PlanIds, storedPlan[q] # NoPlan
      PROVE  RowFits(storedPlan[q]) /\ OlderThan(storedPlan[q], n + 1)
  <2>1. RowFits(storedPlan[q]) /\ OlderThan(storedPlan[q], planExecutions + 1)
    BY <1>2 DEF PlanInductive
  <2>2. storedPlan[q] \in Plan
    BY <1>2 DEF PlanInductive, PlanTypeOK
  <2>3. QED BY <1>0, <2>1, <2>2, OlderThanLater
<1>3. ASSUME NEW s \in PlanRunners, execution'[s] # NoPlan
      PROVE  ExecutionFits(execution'[s]) /\ execution'[s].number <= n
  <2>1. CASE s = r
    BY <2>1 DEF PlanInductive, PlanTypeOK
  <2>2. CASE s # r
    <3>1. execution'[s] = execution[s]
      BY <2>2 DEF PlanInductive, PlanTypeOK
    <3>2. ExecutionFits(execution[s]) /\ execution[s].number <= planExecutions
          /\ execution[s].number \in Nat
      BY <1>3, <3>1, ExecutionFields DEF PlanInductive, PlanTypeOK
    <3>3. QED BY <1>0, <3>1, <3>2
  <2>3. QED BY <2>1, <2>2
<1>4. ASSUME lastOutcome # NoPlan
      PROVE  OutcomeFits(lastOutcome) /\ lastOutcome.number <= n
  <2>1. lastOutcome.number \in Nat
    <3>1. lastOutcome \in Outcome
      BY <1>4 DEF PlanInductive, PlanTypeOK
    <3>2. lastOutcome.number \in 1..MaxExecutions
      BY <3>1 DEF Outcome
    <3>3. QED BY <3>2, PlanSizeAssumption
  <2>2. OutcomeFits(lastOutcome) /\ lastOutcome.number <= planExecutions
    BY <1>4 DEF PlanInductive
  <2>3. QED BY <1>0, <2>1, <2>2
<1>5. QED
  BY <1>1, <1>2, <1>3, <1>4 DEF PlanInductive

LEMMA PlanBegins ==
    ASSUME PlanInductive, NEW r \in PlanRunners, NEW q \in PlanIds, BeginExecution(r, q)
    PROVE  PlanInductive'
<1>1. storedPlan[q] \in Plan /\ planExecutions \in Nat /\ planExecutions < MaxExecutions
      /\ RowFits(storedPlan[q]) /\ OlderThan(storedPlan[q], planExecutions + 1)
  BY PlanSets DEF PlanInductive, PlanTypeOK, BeginExecution
<1>2. PICK old \in Plan : old = storedPlan[q]
  BY <1>1
<1>3. PICK n \in Nat : n = planExecutions + 1
  BY <1>1
<1>4. PICK y : y = [id |-> q, plan |-> [old EXCEPT !.status = "running"],
                    number |-> n, at |-> 1, loaded |-> old]
  OBVIOUS
<1>5. [old EXCEPT !.status = "running"] \in Plan
      /\ [old EXCEPT !.status = "running"].steps = old.steps
      /\ [old EXCEPT !.status = "running"].needs = old.needs
  BY DEF Plan
<1>6. y \in Execution
  <2>1. n \in 1..MaxExecutions /\ 1 \in 1..PlanSize + 1
    BY <1>1, <1>3, PlanSets
  <2>2. QED BY <1>4, <1>5, <2>1 DEF Execution
<1>7. ExecutionFits(y)
  <2>1. LoadedFits(y)
    BY <1>1, <1>2, <1>3, <1>4, <1>5 DEF LoadedFits
  <2>2. \A i \in PlanStep : ~(i < 1)
    BY PlanSets DEF PlanStep
  <2>3. QED BY <1>4, <1>5, <2>1, <2>2 DEF ExecutionFits, StepKept
<1>8. execution' = [execution EXCEPT ![r] = y] /\ planExecutions' = n
  BY <1>2, <1>3, <1>4 DEF BeginExecution
<1>9. n >= planExecutions /\ n <= MaxExecutions /\ y.number <= n
  BY <1>1, <1>3, <1>4, PlanSets
<1>10. QED
  BY <1>6, <1>7, <1>8, <1>9, CopyMade DEF BeginExecution

\* The copy a runner has.
LEMMA CopyOf ==
    ASSUME PlanInductive, NEW r \in PlanRunners, execution[r] # NoPlan
    PROVE  /\ execution[r] \in Execution /\ ExecutionFits(execution[r])
           /\ execution[r].number <= planExecutions /\ planExecutions \in Nat
           /\ planExecutions <= MaxExecutions
  BY PlanSets DEF PlanInductive, PlanTypeOK

\* A step of the copy is a step of the runner.
LEMMA StepTaken ==
    ASSUME PlanInductive, NEW r \in PlanRunners, NEW x \in Execution, x = execution[r],
           NEW row \in StepRow, x.at \in PlanStep, StepDone(Moved(x, row), x.at),
           StepIs(r, row), UNCHANGED <<storedPlan, planExecutions, lastOutcome, saveFaults>>
    PROVE  PlanInductive'
<1>1. x # NoPlan
  BY PlanSets
<1>2. ExecutionFits(x) /\ x.number <= planExecutions /\ planExecutions \in Nat
      /\ planExecutions <= MaxExecutions
  BY <1>1, CopyOf
<1>3. Moved(x, row) \in Execution /\ ExecutionFits(Moved(x, row))
  BY <1>2, DoneStays
<1>4. Moved(x, row).number = x.number
  BY MovedFields
<1>5. execution' = [execution EXCEPT ![r] = Moved(x, row)]
  BY DEF StepIs, Moved, PlanInductive, PlanTypeOK
<1>6. PICK y \in Execution : y = Moved(x, row)
  BY <1>3
<1>7. PICK n \in Nat : n = planExecutions
  BY <1>2
<1>8. n >= planExecutions
  BY <1>7
<1>9. QED
  BY <1>2, <1>3, <1>4, <1>5, <1>6, <1>7, <1>8, CopyMade

LEMMA PlanBlocks ==
    ASSUME PlanInductive, NEW r \in PlanRunners, BlockedStep(r) PROVE PlanInductive'
<1>1. execution[r] \in Execution /\ ExecutionFits(execution[r])
  BY CopyOf DEF BlockedStep
<1>2. PICK x \in Execution : x = execution[r]
  BY <1>1
<1>3. x.at \in PlanStep
  BY <1>2 DEF BlockedStep
<1>4. PICK row : row = [x.plan.steps[x.at] EXCEPT !.status = "failed", !.error = TRUE]
  OBVIOUS
<1>5. row \in StepRow /\ StepDone(Moved(x, row), x.at)
  BY <1>1, <1>2, <1>3, <1>4, BlockedStepDone
<1>6. StepIs(r, row) /\ UNCHANGED <<storedPlan, planExecutions, lastOutcome, saveFaults>>
  BY <1>2, <1>4 DEF BlockedStep
<1>7. QED
  BY <1>2, <1>3, <1>5, <1>6, StepTaken

LEMMA PlanExecutes ==
    ASSUME PlanInductive, NEW r \in PlanRunners, NEW ok \in BOOLEAN, ExecutePlanStep(r, ok)
    PROVE  PlanInductive'
<1>1. execution[r] \in Execution /\ ExecutionFits(execution[r])
  BY CopyOf DEF ExecutePlanStep
<1>2. PICK x \in Execution : x = execution[r]
  BY <1>1
<1>3. x.at \in PlanStep /\ DependenciesSatisfied(x, x.at)
  BY <1>2 DEF ExecutePlanStep
<1>4. PICK given : given = [x.plan.steps[x.at] EXCEPT !.argument = Preprocessed(x, x.at)]
  OBVIOUS
<1>5. PICK row : row = IF ok THEN [given EXCEPT !.status = "completed", !.result = x.number]
                             ELSE [given EXCEPT !.status = "failed", !.error = TRUE]
  OBVIOUS
<1>6. row \in StepRow /\ StepDone(Moved(x, row), x.at)
  BY <1>1, <1>2, <1>3, <1>4, <1>5, ExecutedStepDone
<1>7. StepIs(r, row) /\ UNCHANGED <<storedPlan, planExecutions, lastOutcome, saveFaults>>
  BY <1>2, <1>4, <1>5 DEF ExecutePlanStep
<1>8. QED
  BY <1>2, <1>3, <1>6, <1>7, StepTaken

\* What an execution that has come to its end leaves, and what it answers.
LEMMA DoneFits ==
    ASSUME NEW x \in Execution, ExecutionFits(x), x.at = PlanSize + 1, NEW done,
           done = [x.plan EXCEPT !.status = StatusAfterSteps(x.plan)]
    PROVE  /\ done \in Plan /\ RowFits(done) /\ OlderThan(done, x.number + 1)
           /\ done.steps = x.plan.steps /\ done.needs = x.plan.needs
           /\ LoadedFits(x) /\ \A i \in PlanStep : StepDone(x, i)
<1>1. x.plan \in Plan /\ x.number \in Nat /\ x.number > 0
  BY ExecutionFields
<1>2. done \in Plan /\ done.steps = x.plan.steps /\ done.needs = x.plan.needs
      /\ done.status = StatusAfterSteps(x.plan)
  BY <1>1 DEF Plan, StatusAfterSteps
<1>3. LoadedFits(x) /\ \A i \in PlanStep : StepDone(x, i)
  <2>1. \A i \in PlanStep : i < x.at
    BY PlanSets DEF PlanStep
  <2>2. QED BY <2>1 DEF ExecutionFits
<1>4. \A i \in PlanStep : done.steps[i].status \in {"completed", "failed"}
  BY <1>2, <1>3 DEF StepDone
<1>5. /\ StepsThat(done, "pending") = {}
      /\ StepsThat(done, "completed") = {} => StepsThat(done, "failed") = PlanStep
      /\ StepsThat(done, "failed") = {} => StepsThat(done, "completed") = PlanStep
  BY <1>4 DEF StepsThat
<1>6. /\ done.status \in {"completed", "failed"}
      /\ done.status = "completed" => (StepsThat(done, "completed") # {} \/ PlanStep = {})
      /\ done.status = "failed" => (StepsThat(done, "failed") = PlanStep /\ PlanStep # {})
  <2>1. \A status : StepsThat(done, status) = StepsThat(x.plan, status)
    BY <1>2 DEF StepsThat
  <2>2. QED BY <1>2, <1>5, <2>1 DEF StatusAfterSteps
<1>7. \A i \in PlanStep : StepFits(done, i)
  <2>1. SUFFICES ASSUME NEW i \in PlanStep PROVE StepFits(done, i)
    OBVIOUS
  <2>2. StepDone(x, i)
    BY <1>3
  <2>3. QED BY <1>1, <1>2, <2>2 DEF StepDone, StepFits
<1>8. RowFits(done)
  BY <1>5, <1>6, <1>7 DEF RowFits
<1>9. OlderThan(done, x.number + 1)
  <2>1. SUFFICES ASSUME NEW i \in PlanStep
                 PROVE  /\ x.plan.steps[i].result < x.number + 1
                        /\ x.plan.steps[i].argument < x.number + 1
    BY <1>2 DEF OlderThan
  <2>2. StepDone(x, i) /\ x.loaded.steps[i].result < x.number /\ x.loaded.steps[i].argument < x.number
    BY <1>3 DEF LoadedFits, OlderThan
  <2>3. x.loaded.steps[i].result \in Nat /\ x.loaded.steps[i].argument \in Nat
    BY ExecutionFields
  <2>4. x.plan.steps[i].result \in {x.number, x.loaded.steps[i].result}
        /\ x.plan.steps[i].argument \in {0, x.number, x.loaded.steps[i].argument}
    BY <2>2 DEF StepDone
  <2>5. QED BY <1>1, <2>2, <2>3, <2>4
<1>10. QED
  BY <1>2, <1>3, <1>8, <1>9

\* The runner has ended, and has or has not kept its copy as the row.
LEMMA RunnerEnds ==
    ASSUME PlanInductive, NEW r \in PlanRunners, execution' = [execution EXCEPT ![r] = NoPlan],
           UNCHANGED planExecutions, PlanTypeOK',
           \A q \in PlanIds : storedPlan'[q] # NoPlan =>
               (RowFits(storedPlan'[q]) /\ OlderThan(storedPlan'[q], planExecutions + 1)),
           lastOutcome' # NoPlan => (OutcomeFits(lastOutcome') /\ lastOutcome'.number <= planExecutions)
    PROVE  PlanInductive'
<1>1. ASSUME NEW s \in PlanRunners, execution'[s] # NoPlan
      PROVE  ExecutionFits(execution'[s]) /\ execution'[s].number <= planExecutions
  <2>1. s # r /\ execution'[s] = execution[s]
    BY <1>1 DEF PlanInductive, PlanTypeOK
  <2>2. QED BY <1>1, <2>1, CopyOf
<1>2. QED BY <1>1 DEF PlanInductive

LEMMA PlanRunnerKilled ==
    ASSUME PlanInductive, NEW r \in PlanRunners, RunnerKilled(r) PROVE PlanInductive'
<1>1. PlanTypeOK'
  BY DEF RunnerKilled, PlanInductive, PlanTypeOK
<1>2. QED
  BY <1>1, RunnerEnds DEF RunnerKilled, PlanInductive

LEMMA SaveFaultsAreCounted ==
    ASSUME PlanInductive,
           saveFaults' = saveFaults \/ (saveFaults < MaxSaveFaults /\ saveFaults' = saveFaults + 1)
    PROVE  saveFaults' \in 0..MaxSaveFaults
  BY PlanSizeAssumption DEF PlanInductive, PlanTypeOK

LEMMA PlanEnds ==
    ASSUME PlanInductive, NEW r \in PlanRunners, NEW saved \in BOOLEAN, EndExecution(r, saved)
    PROVE  PlanInductive'
<1>1. execution[r] \in Execution /\ ExecutionFits(execution[r]) /\ planExecutions \in Nat
      /\ execution[r].number <= planExecutions
  BY CopyOf DEF EndExecution
<1>2. PICK x \in Execution : x = execution[r]
  BY <1>1
<1>3. PICK done : done = [x.plan EXCEPT !.status = StatusAfterSteps(x.plan)]
  OBVIOUS
<1>4. PICK answer \in {"not saved", "success", "errors"} :
          answer = CASE ~saved -> "not saved"
                     [] StepsThat(done, "failed") = {} -> "success"
                     [] OTHER -> "errors"
  OBVIOUS
<1>5. PICK told : told = [plan |-> done, number |-> x.number, loaded |-> x.loaded, answer |-> answer]
  OBVIOUS
<1>6. /\ lastOutcome' = told
      /\ execution' = [execution EXCEPT ![r] = NoPlan] /\ planExecutions' = planExecutions
      /\ x.at = PlanSize + 1
  BY <1>2, <1>3, <1>4, <1>5 DEF EndExecution
<1>7. IF saved THEN storedPlan' = [storedPlan EXCEPT ![x.id] = done] /\ UNCHANGED saveFaults
               ELSE saveFaults < MaxSaveFaults /\ saveFaults' = saveFaults + 1 /\ UNCHANGED storedPlan
  BY <1>2, <1>3 DEF EndExecution
<1>8. /\ done \in Plan /\ RowFits(done) /\ OlderThan(done, x.number + 1)
      /\ done.steps = x.plan.steps /\ done.needs = x.plan.needs
      /\ LoadedFits(x) /\ \A i \in PlanStep : StepDone(x, i)
  BY <1>1, <1>2, <1>3, <1>6, DoneFits
<1>9. told \in Outcome
  <2>1. x.number \in 1..MaxExecutions /\ x.loaded \in Plan
    BY DEF Execution
  <2>2. QED BY <1>5, <1>8, <2>1 DEF Outcome
<1>10. OutcomeFits(told)
  <2>0. /\ told.plan = done /\ told.number = x.number /\ told.loaded = x.loaded
        /\ told.answer = answer
    BY <1>5
  <2>1. LoadedFits(told)
    BY <1>8, <2>0 DEF LoadedFits
  <2>2. \A i \in PlanStep : StepDone(told, i)
    <3>1. SUFFICES ASSUME NEW i \in PlanStep PROVE StepDone(told, i)
      OBVIOUS
    <3>2. StepDone(x, i)
      BY <1>8
    <3>3. told.plan.steps = x.plan.steps /\ told.plan.needs = x.plan.needs
      BY <1>8, <2>0
    <3>4. QED BY <2>0, <3>2, <3>3 DEF StepDone
  <2>3. told.answer = "success" => StepsThat(told.plan, "failed") = {}
    BY <1>4, <2>0
  <2>4. QED BY <2>1, <2>2, <2>3 DEF OutcomeFits
<1>11. OlderThan(done, planExecutions + 1)
  <2>1. x.number \in Nat
    BY ExecutionFields
  <2>2. QED BY <1>1, <1>2, <1>8, <2>1, OlderThanLater
<1>12. x.id \in PlanIds
  BY DEF Execution
<1>13. saveFaults' \in 0..MaxSaveFaults
  <2>1. saveFaults' = saveFaults \/ (saveFaults < MaxSaveFaults /\ saveFaults' = saveFaults + 1)
    BY <1>7
  <2>2. QED BY <2>1, SaveFaultsAreCounted
<1>14. storedPlan' \in [PlanIds -> Plan \cup {NoPlan}]
  <2>1. storedPlan \in [PlanIds -> Plan \cup {NoPlan}]
    BY DEF PlanInductive, PlanTypeOK
  <2>2. QED BY <1>7, <1>8, <2>1
<1>15. PlanTypeOK'
  BY <1>6, <1>9, <1>13, <1>14 DEF PlanInductive, PlanTypeOK
<1>16. ASSUME NEW q \in PlanIds, storedPlan'[q] # NoPlan
       PROVE  RowFits(storedPlan'[q]) /\ OlderThan(storedPlan'[q], planExecutions + 1)
  <2>1. CASE saved /\ q = x.id
    BY <1>7, <1>8, <1>11, <2>1 DEF PlanInductive, PlanTypeOK
  <2>2. CASE ~(saved /\ q = x.id)
    <3>1. storedPlan'[q] = storedPlan[q]
      BY <1>7, <2>2 DEF PlanInductive, PlanTypeOK
    <3>2. QED BY <1>16, <3>1 DEF PlanInductive
  <2>3. QED BY <2>1, <2>2
<1>17. OutcomeFits(lastOutcome') /\ lastOutcome'.number <= planExecutions
  BY <1>1, <1>2, <1>5, <1>6, <1>10
<1>18. QED
  BY <1>6, <1>15, <1>16, <1>17, RunnerEnds

LEMMA PlanStepInductive ==
    PlanInductive /\ [PlanExecutionNext]_planVars => PlanInductive'
<1> SUFFICES ASSUME PlanInductive, [PlanExecutionNext]_planVars PROVE PlanInductive'
  OBVIOUS
<1>1. ASSUME NEW q \in PlanIds, MakePlan(q) PROVE PlanInductive'
  BY <1>1, PlanMakes
<1>2. ASSUME NEW q \in PlanIds, NEW p \in PlanIds, RevisePlan(p, q) PROVE PlanInductive'
  BY <1>2, PlanRevises
<1>3. ASSUME NEW r \in PlanRunners, NEW q \in PlanIds, BeginExecution(r, q) PROVE PlanInductive'
  BY <1>3, PlanBegins
<1>4. ASSUME NEW r \in PlanRunners, BlockedStep(r) PROVE PlanInductive'
  BY <1>4, PlanBlocks
<1>5. ASSUME NEW r \in PlanRunners, RunnerKilled(r) PROVE PlanInductive'
  BY <1>5, PlanRunnerKilled
<1>6. ASSUME NEW r \in PlanRunners, NEW ok \in BOOLEAN, ExecutePlanStep(r, ok) PROVE PlanInductive'
  BY <1>6, PlanExecutes
<1>7. ASSUME NEW r \in PlanRunners, NEW ok \in BOOLEAN, EndExecution(r, ok) PROVE PlanInductive'
  BY <1>7, PlanEnds
<1>8. CASE UNCHANGED planVars
  BY <1>8 DEF planVars, PlanInductive, PlanTypeOK
<1>9. QED
  BY <1>1, <1>2, <1>3, <1>4, <1>5, <1>6, <1>7, <1>8 DEF PlanExecutionNext

\* What the properties say of an execution and of an outcome alike.
LEMMA StepsAreSound ==
    ASSUME NEW x, NEW i \in PlanStep, LoadedFits(x), StepDone(x, i) \/ StepKept(x, i),
           x.number \in Nat, x.number > 0, x.loaded \in Plan, x.plan \in Plan,
           i > 1 => (StepDone(x, i - 1) \/ StepKept(x, i - 1))
    PROVE  LET argument == x.plan.steps[i].argument IN
           /\ x.loaded.steps[i].argument # 0 => argument = x.loaded.steps[i].argument
           /\ x.loaded.steps[i].argument = 0 => argument \in {0, x.number}
           /\ argument # 0 => x.plan.steps[i - 1].result >= argument
           /\ x.plan.steps[i].result = x.number =>
                  \A d \in x.plan.needs[i] :
                      /\ d < i => x.plan.steps[d].result = x.number
                      /\ d >= i => x.loaded.steps[d].result # 0
<1>1. i \in Nat /\ x.plan.needs[i] \subseteq PlanStep /\ PlanStep \subseteq Nat
      /\ x.loaded.steps[i] \in StepRow /\ (i > 1 => i - 1 \in PlanStep)
  BY PlanSets DEF PlanStep
<1>2. x.loaded.steps[i].result \in Nat /\ x.loaded.steps[i].argument \in Nat
  BY <1>1, PlanSets DEF StepRow
<1>3. x.loaded.steps[i].result < x.number /\ x.loaded.steps[i].argument < x.number
  BY DEF LoadedFits, OlderThan
<1>4. CASE StepDone(x, i)
  <2>1. \A d \in x.plan.needs[i] : d >= i => ~(d < i)
    BY <1>1
  <2>2. QED BY <1>4, <2>1 DEF StepDone
<1>5. CASE StepKept(x, i)
  <2>1. x.plan.steps[i].result # x.number
    BY <1>2, <1>3, <1>5 DEF StepKept
  <2>2. x.loaded.steps[i].argument # 0 =>
            (i > 1 /\ x.loaded.steps[i - 1].result >= x.loaded.steps[i].argument)
    BY DEF LoadedFits, RowFits, StepFits
  <2>3. i > 1 => (x.plan.steps[i - 1].result = x.number
                  \/ x.plan.steps[i - 1].result = x.loaded.steps[i - 1].result)
    BY DEF StepDone, StepKept
  <2>4. x.loaded.steps[i].argument # 0 => x.plan.steps[i - 1].result >= x.loaded.steps[i].argument
    BY <1>2, <1>3, <2>2, <2>3
  <2>5. QED BY <1>5, <2>1, <2>4 DEF StepKept
<1>6. QED BY <1>4, <1>5

LEMMA OutcomeFields ==
    ASSUME NEW x \in Outcome
    PROVE  x.plan \in Plan /\ x.loaded \in Plan /\ x.number \in Nat /\ x.number > 0
<1>1. x.plan \in Plan /\ x.loaded \in Plan /\ x.number \in 1..MaxExecutions
  BY DEF Outcome
<1>2. QED BY <1>1, PlanSizeAssumption

LEMMA PlanInductiveIsEnough == PlanInductive => PlanExecutionInv
<1> SUFFICES ASSUME PlanInductive PROVE PlanExecutionInv
  OBVIOUS
<1>1. PlanTypeOK
  BY DEF PlanInductive
<1>2. ASSUME NEW x \in InExecution
      PROVE  /\ x \in Execution /\ LoadedFits(x)
             /\ \A i \in PlanStep : StepDone(x, i) \/ StepKept(x, i)
  <2>1. PICK r \in PlanRunners : x = execution[r] /\ execution[r] # NoPlan
    BY DEF InExecution
  <2>2. x \in Execution /\ ExecutionFits(x)
    BY <2>1, CopyOf
  <2>3. QED BY <2>2 DEF ExecutionFits
<1>3. ASSUME NEW x \in Told
      PROVE  /\ x \in Outcome /\ LoadedFits(x) /\ OutcomeFits(x)
             /\ \A i \in PlanStep : StepDone(x, i)
  <2>1. x = lastOutcome /\ lastOutcome # NoPlan
    BY DEF Told
  <2>2. QED BY <1>1, <2>1 DEF PlanInductive, PlanTypeOK, OutcomeFits
<1>4. ASSUME NEW x \in InExecution \cup Told, NEW i \in PlanStep
      PROVE  LET argument == x.plan.steps[i].argument IN
             /\ x.loaded.steps[i].argument # 0 => argument = x.loaded.steps[i].argument
             /\ x.loaded.steps[i].argument = 0 => argument \in {0, x.number}
             /\ argument # 0 => x.plan.steps[i - 1].result >= argument
             /\ x.plan.steps[i].result = x.number =>
                    \A d \in x.plan.needs[i] :
                        /\ d < i => x.plan.steps[d].result = x.number
                        /\ d >= i => x.loaded.steps[d].result # 0
  <2>1. /\ LoadedFits(x)
        /\ x.number \in Nat /\ x.number > 0 /\ x.loaded \in Plan /\ x.plan \in Plan
        /\ \A j \in PlanStep : StepDone(x, j) \/ StepKept(x, j)
    <3>1. CASE x \in InExecution
      BY <1>2, <3>1, ExecutionFields
    <3>2. CASE x \in Told
      BY <1>3, <3>2, OutcomeFields
    <3>3. QED BY <3>1, <3>2
  <2>2. i > 1 => i - 1 \in PlanStep
    BY PlanSizeAssumption DEF PlanStep
  <2>3. QED BY <2>1, <2>2, StepsAreSound
<1>5. SuccessIsWhole
  <2>1. SUFFICES ASSUME NEW x \in Told, x.answer = "success", NEW i \in PlanStep
                 PROVE  x.plan.steps[i].status = "completed" /\ x.plan.steps[i].result = x.number
    BY DEF SuccessIsWhole
  <2>2. StepDone(x, i) /\ StepsThat(x.plan, "failed") = {}
    BY <1>3, <2>1 DEF OutcomeFits
  <2>3. x.plan.steps[i].status # "failed"
    BY <2>2 DEF StepsThat
  <2>4. QED BY <2>2, <2>3 DEF StepDone
<1>6. OutputsAreCurrent
  BY <1>4 DEF OutputsAreCurrent
<1>7. DependenciesCameFirst
  <2>1. SUFFICES ASSUME NEW x \in InExecution \cup Told, NEW i \in PlanStep,
                        x.plan.steps[i].result = x.number, NEW d \in x.plan.needs[i]
                 PROVE  /\ x.plan.steps[d].result # 0
                        /\ d < i => x.plan.steps[d].result = x.number
                        /\ d >= i => x.loaded.steps[d].result # 0
    BY DEF DependenciesCameFirst
  <2>2. (d < i => x.plan.steps[d].result = x.number) /\ (d >= i => x.loaded.steps[d].result # 0)
    BY <1>4, <2>1
  <2>3. x.plan.steps[d].result # 0
    <3>1. /\ x.number \in Nat /\ x.number > 0 /\ x.plan \in Plan /\ x.loaded \in Plan
          /\ \A j \in PlanStep : StepDone(x, j) \/ StepKept(x, j)
          /\ LoadedFits(x)
      <4>1. CASE x \in InExecution
        BY <1>2, <4>1, ExecutionFields
      <4>2. CASE x \in Told
        BY <1>3, <4>2, OutcomeFields
      <4>3. QED BY <4>1, <4>2
    <3>2. d \in PlanStep /\ d \in Nat /\ i \in Nat
      BY <3>1, PlanSets
    <3>3. d < i \/ d >= i
      BY <3>2
    <3>4. x.plan.steps[d].result \in {x.number, x.loaded.steps[d].result}
      BY <3>1, <3>2 DEF StepDone, StepKept
    <3>5. QED BY <2>2, <3>1, <3>3, <3>4
  <2>4. QED BY <2>2, <2>3
<1>8. RowsAreWhole
  BY DEF RowsAreWhole, PlanInductive, RowFits
<1>9. QED
  BY <1>1, <1>5, <1>6, <1>7, <1>8 DEF PlanExecutionInv

\* Plans tell whole executions and their own results (PlanExecutionInv), for
\* every number of plans, runners, steps and executions: whatever concurrent
\* and killed runners, and saves that fail, leave behind
\* (executor.go:77-120, service.go:338-354).
THEOREM PlansAreSound == PlanExecutionSpec => []PlanExecutionInv
<1>1. PlanExecutionInit => PlanInductive
  BY PlanInit
<1>2. PlanInductive /\ [PlanExecutionNext]_planVars => PlanInductive'
  BY PlanStepInductive
<1>3. PlanInductive => PlanExecutionInv
  BY PlanInductiveIsEnough
<1>4. QED
  BY <1>1, <1>2, <1>3, PTL DEF PlanExecutionSpec

-----------------------------------------------------------------------------
(* The tool calls of a prompt, as the client is told of them *)

ElementsOf(q) == {q[j] : j \in 1..Len(q)}
AllDistinct(q) == \A i, j \in 1..Len(q) : q[i] = q[j] => i = j

Taken(c)    == callAt[c] # "idle"
TakenOff(c) == callAt[c] \in {"tell", "done"}
QueueOf(c)  == idQueue[keyOf[c]]

\* The ids are 1 to nextSeq, each of one call.
IdsGiven ==
    /\ \A c \in AcpCalls : myId[c] <= nextSeq /\ (Taken(c) <=> myId[c] # 0)
    /\ \A c, d \in AcpCalls : Taken(c) /\ myId[c] = myId[d] => c = d
    /\ \A i \in 1..nextSeq : \E c \in AcpCalls : myId[c] = i

\* An id stands for a call with this key.
IdOfKey(i, k) == \E d \in AcpCalls : Taken(d) /\ keyOf[d] = k /\ myId[d] = i

\* Each id is in the queue of its key or was taken off for one call.
QueueIdsFit == \A k \in Keys : AllDistinct(idQueue[k]) /\ \A i \in ElementsOf(idQueue[k]) : IdOfKey(i, k)
TakenOffFit ==
    \A c \in AcpCalls : TakenOff(c) =>
        (IdOfKey(askedFor[c], keyOf[c]) /\ askedFor[c] \notin ElementsOf(QueueOf(c)))
TakenOffOnce ==
    \A c, d \in AcpCalls : TakenOff(c) /\ TakenOff(d) /\ askedFor[c] = askedFor[d] => c = d
NoIdLost ==
    \A c \in AcpCalls : Taken(c) =>
        (myId[c] \in ElementsOf(QueueOf(c))
         \/ \E d \in AcpCalls : TakenOff(d) /\ keyOf[d] = keyOf[c] /\ askedFor[d] = myId[c])
QueuesFit == QueueIdsFit /\ TakenOffFit /\ TakenOffOnce /\ NoIdLost

AskedFits ==
    \A c \in AcpCalls : callAt[c] = "wait" =>
        (askedFor[c] = 0 \/ IdOfKey(askedFor[c], keyOf[c]))

FinalsFit ==
    /\ \A i \in Ids : i > nextSeq => finals[i] = 0
    /\ connected => \A c \in AcpCalls :
           Taken(c) /\ (\A d \in AcpCalls : keyOf[d] = keyOf[c] => callAt[d] # "denied") =>
               finals[myId[c]] = IF \E d \in AcpCalls : callAt[d] = "done" /\ askedFor[d] = myId[c]
                                 THEN 1 ELSE 0

\* A key whose calls came one after the other: the queue holds the id of the one
\* that is under way.
OneByOne(k) ==
    /\ \A c \in AcpCalls : keyOf[c] = k =>
           /\ callAt[c] # "denied"
           /\ callAt[c] = "wait" => askedFor[c] = myId[c]
           /\ TakenOff(c) => askedFor[c] = myId[c]
           /\ (Taken(c) /\ ~TakenOff(c)) => idQueue[k] = <<myId[c]>>
           /\ callAt[c] = "tell" => idQueue[k] = <<>>
           /\ (callAt[c] = "done" /\ connected) => shown[myId[c]] = Status(c)
    /\ \A c, d \in UnderWay : keyOf[c] = k /\ keyOf[d] = k => c = d
    /\ (\A c \in UnderWay : keyOf[c] # k) => idQueue[k] = <<>>

Unmixed == \A k \in Keys : k \notin mixed => OneByOne(k)

Alone(c) == \A d \in AcpCalls \ {c} : keyOf[d] # keyOf[c]

AloneFits ==
    \A c \in AcpCalls : Alone(c) =>
        /\ callAt[c] = "wait" => askedFor[c] = myId[c]
        /\ (callAt[c] = "denied" /\ ~okay[c] /\ connected) => shown[myId[c]] = "failed"

\* A call fails where it is refused or executed.
NotYetFailed ==
    \A c \in AcpCalls : callAt[c] \notin {"after", "tell", "done", "denied"} => okay[c]

AcpCallsInductive ==
    /\ AcpCallsTypeOK /\ IdsGiven /\ QueuesFit /\ AskedFits /\ FinalsFit /\ Unmixed /\ AloneFits

-----------------------------------------------------------------------------
(* Facts about finite sets and sequences *)

LEMMA PartOnto ==
    ASSUME NEW S, IsFiniteSet(S), NEW T \in SUBSET S, NEW f \in [T -> S],
           \A e \in S : \E d \in T : f[d] = e
    PROVE  T = S
<1>1. f \in Surjection(T, S)
  BY DEF Surjection
<1>2. IsFiniteSet(T) /\ Cardinality(T) <= Cardinality(S) /\ (Cardinality(S) = Cardinality(T) => S = T)
  BY FS_Subset
<1>3. Cardinality(S) <= Cardinality(T)
  BY <1>1, <1>2, FS_Surjection
<1>4. Cardinality(S) \in Nat /\ Cardinality(T) \in Nat
  BY <1>2, FS_CardinalityType
<1>5. QED BY <1>2, <1>3, <1>4

LEMMA IntoOnto ==
    ASSUME NEW S, IsFiniteSet(S), NEW f \in [S -> S], \A d, e \in S : f[d] = f[e] => d = e,
           NEW e \in S
    PROVE  \E d \in S : f[d] = e
<1>1. f \in Injection(S, S)
  BY DEF Injection, IsInjective
<1>2. f \in Surjection(S, S)
  BY <1>1, FS_Injection
<1>3. QED BY <1>2 DEF Surjection

LEMMA AppendedElements ==
    ASSUME NEW S, NEW q \in Seq(S), NEW x \in S
    PROVE  /\ Append(q, x) \in Seq(S)
           /\ ElementsOf(Append(q, x)) = ElementsOf(q) \cup {x}
           /\ AllDistinct(q) /\ x \notin ElementsOf(q) => AllDistinct(Append(q, x))
<1> DEFINE p == Append(q, x)
<1>1. p \in Seq(S) /\ Len(p) = Len(q) + 1 /\ Len(q) \in Nat
      /\ p[Len(q) + 1] = x /\ \A j \in 1..Len(q) : p[j] = q[j]
  OBVIOUS
<1>2. 1..Len(p) = 1..Len(q) \cup {Len(q) + 1}
  BY <1>1
<1> HIDE DEF p
<1>3. ElementsOf(p) = ElementsOf(q) \cup {x}
  BY <1>1, <1>2 DEF ElementsOf
<1>4. ASSUME AllDistinct(q), x \notin ElementsOf(q), NEW i \in 1..Len(p), NEW j \in 1..Len(p), p[i] = p[j]
      PROVE  i = j
  <2>1. CASE i \in 1..Len(q) /\ j \in 1..Len(q)
    BY <1>1, <1>4, <2>1 DEF AllDistinct
  <2>2. CASE i \in 1..Len(q) /\ j = Len(q) + 1
    BY <1>1, <1>4, <2>2 DEF ElementsOf
  <2>3. CASE i = Len(q) + 1 /\ j \in 1..Len(q)
    BY <1>1, <1>4, <2>3 DEF ElementsOf
  <2>4. QED BY <1>2, <2>1, <2>2, <2>3
<1>5. AllDistinct(q) /\ x \notin ElementsOf(q) => AllDistinct(p)
  BY <1>4 DEF AllDistinct
<1>6. QED BY <1>1, <1>3, <1>5 DEF p

LEMMA TailElements ==
    ASSUME NEW S, NEW q \in Seq(S), q # <<>>, AllDistinct(q)
    PROVE  /\ Tail(q) \in Seq(S) /\ Head(q) \in S /\ Head(q) \in ElementsOf(q)
           /\ ElementsOf(Tail(q)) = ElementsOf(q) \ {Head(q)}
           /\ AllDistinct(Tail(q))
<1> DEFINE p == Tail(q)
<1>1. /\ p \in Seq(S) /\ Len(q) \in Nat /\ Len(q) > 0 /\ Len(p) = Len(q) - 1
      /\ \A j \in 1..Len(p) : p[j] = q[j + 1]
      /\ Head(q) = q[1] /\ Head(q) \in S
  OBVIOUS
<1> HIDE DEF p
<1>2. 1 \in 1..Len(q) /\ \A j \in 1..Len(p) : j + 1 \in 1..Len(q)
  BY <1>1
<1>3. \A i \in 1..Len(q) : i = 1 \/ (i - 1 \in 1..Len(p) /\ (i - 1) + 1 = i)
  BY <1>1
<1>4. Head(q) \in ElementsOf(q)
  BY <1>1, <1>2 DEF ElementsOf
<1>5. ASSUME NEW x \in ElementsOf(p) PROVE x \in ElementsOf(q) /\ x # q[1]
  <2>1. PICK j \in 1..Len(p) : x = p[j]
    BY <1>5 DEF ElementsOf
  <2>2. x = q[j + 1] /\ j + 1 \in 1..Len(q) /\ j + 1 # 1
    BY <1>1, <1>2, <2>1
  <2>3. QED BY <1>2, <2>2 DEF AllDistinct, ElementsOf
<1>6. ASSUME NEW x \in ElementsOf(q), x # q[1] PROVE x \in ElementsOf(p)
  <2>1. PICK i \in 1..Len(q) : x = q[i]
    BY <1>6 DEF ElementsOf
  <2>2. i - 1 \in 1..Len(p) /\ (i - 1) + 1 = i
    BY <1>3, <1>6, <2>1
  <2>3. p[i - 1] = x
    BY <1>1, <2>1, <2>2
  <2>4. QED BY <2>2, <2>3 DEF ElementsOf
<1>7. ElementsOf(p) = ElementsOf(q) \ {Head(q)}
  BY <1>1, <1>5, <1>6
<1>8. ASSUME NEW i \in 1..Len(p), NEW j \in 1..Len(p), p[i] = p[j] PROVE i = j
  <2>1. q[i + 1] = q[j + 1] /\ i + 1 \in 1..Len(q) /\ j + 1 \in 1..Len(q)
    BY <1>1, <1>2, <1>8
  <2>2. i + 1 = j + 1
    BY <2>1 DEF AllDistinct
  <2>3. QED BY <2>2
<1>9. AllDistinct(p)
  BY <1>8 DEF AllDistinct
<1>10. QED BY <1>1, <1>4, <1>7, <1>9 DEF p

LEMMA NoElements ==
    ASSUME NEW S, NEW q \in Seq(S)
    PROVE  ElementsOf(q) = {} <=> q = <<>>
<1>1. q = <<>> => ElementsOf(q) = {}
  BY DEF ElementsOf
<1>2. q # <<>> => q[1] \in ElementsOf(q)
  <2>1. SUFFICES ASSUME q # <<>> PROVE q[1] \in ElementsOf(q)
    OBVIOUS
  <2>2. 1 \in 1..Len(q)
    BY <2>1
  <2>3. QED BY <2>2 DEF ElementsOf
<1>3. QED BY <1>1, <1>2

-----------------------------------------------------------------------------
(* What the invariant says of the ids *)

LEMMA CallTypes ==
    ASSUME AcpCallsTypeOK
    PROVE  /\ Cardinality(AcpCalls) \in Nat /\ nextSeq \in Nat
           /\ \A c \in AcpCalls : /\ keyOf[c] \in Keys /\ myId[c] \in Nat /\ askedFor[c] \in Nat
                                  /\ myId[c] # 0 => myId[c] \in Ids
                                  /\ askedFor[c] # 0 => askedFor[c] \in Ids
                                  /\ QueueOf(c) \in Seq(Ids)
           /\ Ids \subseteq Nat /\ 0 \notin Ids
<1>1. Cardinality(AcpCalls) \in Nat
  BY AcpCallsAssumption, FS_CardinalityType
<1>2. Ids \subseteq Nat /\ 0 \notin Ids
  BY DEF Ids
<1>3. ASSUME NEW c \in AcpCalls PROVE keyOf[c] \in Keys
  BY DEF AcpCallsTypeOK, Keys
<1>4. ASSUME NEW c \in AcpCalls
      PROVE  /\ myId[c] \in Nat /\ askedFor[c] \in Nat
             /\ myId[c] # 0 => myId[c] \in Ids
             /\ askedFor[c] # 0 => askedFor[c] \in Ids
  <2>1. myId[c] \in 0..Cardinality(AcpCalls) /\ askedFor[c] \in 0..Cardinality(AcpCalls)
    BY DEF AcpCallsTypeOK
  <2>2. QED BY <1>1, <2>1 DEF Ids
<1>5. \A c \in AcpCalls : QueueOf(c) \in Seq(Ids)
  BY <1>3 DEF AcpCallsTypeOK, QueueOf
<1>6. nextSeq \in Nat
  BY <1>1 DEF AcpCallsTypeOK
<1>7. QED BY <1>1, <1>2, <1>3, <1>4, <1>5, <1>6

LEMMA IdOfKeyFacts ==
    ASSUME AcpCallsTypeOK, IdsGiven, NEW i, NEW k, IdOfKey(i, k)
    PROVE  /\ i \in Ids /\ i # 0 /\ i <= nextSeq
           /\ \A c \in AcpCalls : myId[c] = i => (keyOf[c] = k /\ Taken(c))
<1>1. PICK d \in AcpCalls : Taken(d) /\ keyOf[d] = k /\ myId[d] = i
  BY DEF IdOfKey
<1>2. myId[d] # 0 /\ myId[d] <= nextSeq
  BY <1>1 DEF IdsGiven
<1>3. \A c \in AcpCalls : myId[c] = i => c = d
  BY <1>1 DEF IdsGiven
<1>4. QED BY <1>1, <1>2, <1>3, CallTypes

\* There is an id left for a call that has none.
LEMMA IdLeft ==
    ASSUME AcpCallsTypeOK, IdsGiven, NEW c \in AcpCalls, callAt[c] = "idle"
    PROVE  nextSeq + 1 \in Ids /\ nextSeq + 1 \in 1..Cardinality(AcpCalls)
<1> DEFINE T == {d \in AcpCalls : Taken(d)}  f == [d \in T |-> myId[d]]
<1>1. IsFiniteSet(T) /\ Cardinality(T) <= Cardinality(AcpCalls)
      /\ (Cardinality(AcpCalls) = Cardinality(T) => AcpCalls = T)
  BY AcpCallsAssumption, FS_Subset
<1>2. AcpCalls # T
  BY DEF Taken
<1>3. f \in Surjection(T, 1..nextSeq)
  <2>1. \A d \in T : myId[d] \in 1..nextSeq
    BY CallTypes DEF IdsGiven
  <2>2. \A i \in 1..nextSeq : \E d \in T : myId[d] = i
    <3>1. SUFFICES ASSUME NEW i \in 1..nextSeq PROVE \E d \in T : myId[d] = i
      OBVIOUS
    <3>2. PICK d \in AcpCalls : myId[d] = i
      BY DEF IdsGiven
    <3>3. d \in T
      BY <3>2 DEF IdsGiven
    <3>4. QED BY <3>2, <3>3
  <2>3. QED BY <2>1, <2>2 DEF Surjection
<1>4. Cardinality(1..nextSeq) <= Cardinality(T)
  BY <1>1, <1>3, FS_Surjection
<1>5. Cardinality(1..nextSeq) = nextSeq
  <2>1. nextSeq \in Int /\ 1 \in Int /\ nextSeq \in Nat
    BY CallTypes
  <2>2. Cardinality(1..nextSeq) = IF 1 > nextSeq THEN 0 ELSE nextSeq - 1 + 1
    BY <2>1, FS_Interval
  <2>3. QED BY <2>1, <2>2
<1>6. Cardinality(T) \in Nat
  BY <1>1, FS_CardinalityType
<1> HIDE DEF T, f
<1>7. nextSeq + 1 \in 1..Cardinality(AcpCalls)
  BY <1>1, <1>2, <1>4, <1>5, <1>6, CallTypes
<1>8. QED BY <1>7 DEF Ids

\* The queue of a key is not empty where an id is taken off: fewer ids were
\* taken off than were given.
LEMMA QueueHasId ==
    ASSUME AcpCallsTypeOK, IdsGiven, QueuesFit, NEW c \in AcpCalls, Taken(c), ~TakenOff(c)
    PROVE  QueueOf(c) # <<>>
<1> DEFINE k == keyOf[c]
           S == {d \in AcpCalls : Taken(d) /\ keyOf[d] = k}
           T == {d \in S : TakenOff(d)}
           f == [d \in T |-> CHOOSE e \in S : myId[e] = askedFor[d]]
<1> SUFFICES ASSUME QueueOf(c) = <<>> PROVE FALSE
  OBVIOUS
<1>1. IsFiniteSet(S)
  BY AcpCallsAssumption, FS_Subset
<1>2. ElementsOf(QueueOf(c)) = {}
  BY CallTypes, NoElements
<1>3. \A d \in T : f[d] \in S /\ myId[f[d]] = askedFor[d]
  BY DEF QueuesFit, TakenOffFit, IdOfKey
<1>4. ASSUME NEW e \in S PROVE \E d \in T : f[d] = e
  <2>1. QueueOf(e) = QueueOf(c)
    BY <1>4 DEF QueueOf
  <2>2. PICK d \in AcpCalls : TakenOff(d) /\ keyOf[d] = keyOf[e] /\ askedFor[d] = myId[e]
    BY <1>2, <1>4, <2>1 DEF QueuesFit, NoIdLost
  <2>3. d \in T
    BY <1>4, <2>2 DEF Taken, TakenOff
  <2>4. myId[f[d]] = myId[e] /\ f[d] \in S
    BY <1>3, <2>2, <2>3
  <2>5. f[d] = e
    BY <1>4, <2>4 DEF IdsGiven
  <2>6. QED BY <2>3, <2>5
<1>5. T \in SUBSET S /\ f \in [T -> S]
  BY <1>3
<1>6. c \in S /\ c \notin T
  OBVIOUS
<1> HIDE DEF S, T, f
<1>7. T = S
  BY <1>1, <1>4, <1>5, PartOnto
<1>8. QED BY <1>6, <1>7

\* If ids were taken off for all calls with a key, each of theirs was.
LEMMA AllTakenOff ==
    ASSUME AcpCallsTypeOK, IdsGiven, QueuesFit, NEW c \in AcpCalls, Taken(c),
           \A d \in AcpCalls : Taken(d) /\ keyOf[d] = keyOf[c] => TakenOff(d)
    PROVE  \E d \in AcpCalls : Taken(d) /\ keyOf[d] = keyOf[c] /\ askedFor[d] = myId[c]
<1> DEFINE k == keyOf[c]
           S == {d \in AcpCalls : Taken(d) /\ keyOf[d] = k}
           f == [d \in S |-> CHOOSE e \in S : myId[e] = askedFor[d]]
<1>1. IsFiniteSet(S)
  BY AcpCallsAssumption, FS_Subset
<1>2. \A d \in S : f[d] \in S /\ myId[f[d]] = askedFor[d]
  BY DEF QueuesFit, TakenOffFit, IdOfKey
<1>3. \A d, e \in S : f[d] = f[e] => d = e
  BY <1>2 DEF QueuesFit, TakenOffOnce
<1>4. c \in S /\ f \in [S -> S]
  BY <1>2
<1> HIDE DEF f
<1>5. PICK d \in S : f[d] = c
  BY <1>1, <1>3, <1>4, IntoOnto
<1>6. askedFor[d] = myId[c]
  BY <1>2, <1>5
<1>7. QED BY <1>6

-----------------------------------------------------------------------------
(* The steps of a call that leave its id in the queue *)

KeepsItsId(c) ==
    /\ Taken(c) /\ ~TakenOff(c) /\ callAt[c] # "denied"
    /\ callAt'[c] \notin {"idle", "tell", "done"}
    /\ UNCHANGED <<keyOf, askedIn, myId, idQueue, nextSeq>>
    /\ \A d \in AcpCalls \ {c} :
           callAt'[d] = callAt[d] /\ askedFor'[d] = askedFor[d] /\ okay'[d] = okay[d]

\* All that is shown is shown for a call with this key, and for this one if its
\* key is not mixed.
TellsOfKey(c) ==
    \A i \in Ids : shown'[i] # shown[i] =>
        (IdOfKey(i, keyOf[c]) /\ (keyOf[c] \notin mixed' => i = myId[c]))

LEMMA IdsStay ==
    ASSUME AcpCallsInductive, NEW c \in AcpCalls, KeepsItsId(c)
    PROVE  /\ \A d \in AcpCalls : (Taken(d)' <=> Taken(d)) /\ (TakenOff(d)' <=> TakenOff(d))
           /\ \A d \in AcpCalls : TakenOff(d) => (d # c /\ askedFor'[d] = askedFor[d])
           /\ \A i, k : IdOfKey(i, k)' <=> IdOfKey(i, k)
           /\ IdsGiven' /\ QueuesFit'
<1>1. \A d \in AcpCalls : (Taken(d)' <=> Taken(d)) /\ (TakenOff(d)' <=> TakenOff(d))
  BY DEF KeepsItsId, Taken, TakenOff
<1>2. \A d \in AcpCalls : TakenOff(d) => (d # c /\ askedFor'[d] = askedFor[d])
  BY DEF KeepsItsId
<1>3. /\ keyOf' = keyOf /\ myId' = myId /\ idQueue' = idQueue /\ nextSeq' = nextSeq
      /\ \A d \in AcpCalls : QueueOf(d)' = QueueOf(d)
  BY DEF KeepsItsId, QueueOf
<1>4. \A i, k : IdOfKey(i, k)' <=> IdOfKey(i, k)
  BY <1>1, <1>3 DEF IdOfKey
<1>5. IdsGiven'
  BY <1>1, <1>3 DEF IdsGiven, AcpCallsInductive
<1>6. QueuesFit
  BY DEF AcpCallsInductive
<1>7. QueuesFit'
  <2>1. QueueIdsFit'
    BY <1>3, <1>4, <1>6 DEF QueuesFit, QueueIdsFit
  <2>2. TakenOffFit'
    <3>1. SUFFICES ASSUME NEW d \in AcpCalls, TakenOff(d)'
                   PROVE  IdOfKey(askedFor[d], keyOf[d])' /\ askedFor'[d] \notin ElementsOf(QueueOf(d)')
      BY DEF TakenOffFit
    <3>2. TakenOff(d) /\ askedFor'[d] = askedFor[d] /\ keyOf'[d] = keyOf[d] /\ QueueOf(d)' = QueueOf(d)
      BY <1>1, <1>2, <1>3, <3>1
    <3>3. IdOfKey(askedFor[d], keyOf[d]) /\ askedFor[d] \notin ElementsOf(QueueOf(d))
      BY <1>6, <3>2 DEF QueuesFit, TakenOffFit
    <3>4. IdOfKey(askedFor[d], keyOf[d])'
      BY <1>1, <1>3, <3>2, <3>3 DEF IdOfKey
    <3>5. QED BY <3>2, <3>3, <3>4
  <2>3. TakenOffOnce'
    BY <1>1, <1>2, <1>6 DEF QueuesFit, TakenOffOnce
  <2>4. NoIdLost'
    BY <1>1, <1>2, <1>3, <1>6 DEF QueuesFit, NoIdLost
  <2>5. QED BY <2>1, <2>2, <2>3, <2>4 DEF QueuesFit
<1>8. QED BY <1>1, <1>2, <1>4, <1>5, <1>7

\* What a step of one call that keeps its id must see to.
StepsSoundly(c) ==
    /\ KeepsItsId(c) /\ TellsOfKey(c) /\ AcpCallsTypeOK'
    /\ mixed \subseteq mixed' /\ (connected' => connected)
    /\ callAt'[c] = "denied" => keyOf[c] \in mixed'
    /\ callAt'[c] = "wait" =>
           /\ askedFor'[c] = 0 \/ IdOfKey(askedFor'[c], keyOf[c])
           /\ keyOf[c] \in mixed' \/ askedFor'[c] = myId[c]
           /\ Alone(c) => askedFor'[c] = myId[c]
    /\ (callAt'[c] = "denied" /\ ~okay'[c] /\ connected' /\ Alone(c)) => shown'[myId[c]] = "failed"

LEMMA UnmixedStays ==
    ASSUME AcpCallsInductive, NEW c \in AcpCalls, StepsSoundly(c) PROVE Unmixed'
<1>1. AcpCallsTypeOK /\ IdsGiven /\ Unmixed
  BY DEF AcpCallsInductive
<1>2. KeepsItsId(c)
  BY DEF StepsSoundly
<1>3. /\ \A d \in AcpCalls : (Taken(d)' <=> Taken(d)) /\ (TakenOff(d)' <=> TakenOff(d))
      /\ \A d \in AcpCalls : TakenOff(d) => (d # c /\ askedFor'[d] = askedFor[d])
  BY <1>2, IdsStay
<1>4. /\ keyOf' = keyOf /\ myId' = myId /\ idQueue' = idQueue /\ Keys' = Keys
  BY <1>2 DEF KeepsItsId, Keys
<1> SUFFICES ASSUME NEW k \in Keys, k \notin mixed' PROVE OneByOne(k)'
  BY <1>4 DEF Unmixed
<1>5. OneByOne(k)
  <2>1. mixed \subseteq mixed'
    BY DEF StepsSoundly
  <2>2. QED BY <1>1, <2>1 DEF Unmixed
<1>6. UnderWay' \subseteq UnderWay
  BY <1>2 DEF KeepsItsId, UnderWay, Taken, TakenOff
<1>7. \A d \in UnderWay : keyOf[d] = k => d \in UnderWay'
  BY <1>2 DEF KeepsItsId, UnderWay, StepsSoundly
<1>8. ASSUME NEW d \in AcpCalls, keyOf[d] = k, callAt'[d] = "done", connected'
      PROVE  shown'[myId[d]] = Status(d)'
  <2>1. d # c /\ callAt[d] = "done" /\ connected /\ okay'[d] = okay[d] /\ Taken(d)
    BY <1>2, <1>8 DEF KeepsItsId, StepsSoundly, Taken
  <2>2. shown[myId[d]] = Status(d)
    BY <1>5, <1>8, <2>1 DEF OneByOne
  <2>3. myId[d] \in Ids
    BY <1>1, <2>1, CallTypes DEF IdsGiven
  <2>4. shown'[myId[d]] = shown[myId[d]]
    <3>1. SUFFICES ASSUME shown'[myId[d]] # shown[myId[d]] PROVE FALSE
      OBVIOUS
    <3>2. IdOfKey(myId[d], keyOf[c]) /\ (keyOf[c] \notin mixed' => myId[d] = myId[c])
      BY <2>3, <3>1 DEF TellsOfKey, StepsSoundly
    <3>3. keyOf[d] = keyOf[c]
      BY <1>1, <3>2, IdOfKeyFacts
    <3>4. myId[d] = myId[c]
      BY <1>8, <3>2, <3>3
    <3>5. QED BY <1>1, <2>1, <3>4 DEF IdsGiven
  <2>5. QED BY <2>1, <2>2, <2>4 DEF Status
<1>9. ASSUME NEW d \in AcpCalls, keyOf[d] = k
      PROVE  /\ callAt'[d] # "denied"
             /\ callAt'[d] = "wait" => askedFor'[d] = myId[d]
             /\ TakenOff(d)' => askedFor'[d] = myId[d]
             /\ (Taken(d)' /\ ~TakenOff(d)') => idQueue[k] = <<myId[d]>>
             /\ callAt'[d] = "tell" => idQueue[k] = <<>>
  <2>1. CASE d = c
    BY <1>2, <1>3, <1>5, <1>9, <2>1 DEF OneByOne, StepsSoundly, KeepsItsId
  <2>2. CASE d # c
    <3>1. callAt'[d] = callAt[d] /\ askedFor'[d] = askedFor[d]
      BY <1>2, <2>2 DEF KeepsItsId
    <3>2. QED BY <1>3, <1>5, <1>9, <3>1 DEF OneByOne
  <2>3. QED BY <2>1, <2>2
<1>10. \A d, e \in UnderWay' : keyOf[d] = k /\ keyOf[e] = k => d = e
  BY <1>5, <1>6 DEF OneByOne
<1>11. (\A d \in UnderWay' : keyOf[d] # k) => idQueue[k] = <<>>
  BY <1>5, <1>7 DEF OneByOne
<1>12. QED
  BY <1>4, <1>8, <1>9, <1>10, <1>11 DEF OneByOne

LEMMA AloneStays ==
    ASSUME AcpCallsInductive, NEW c \in AcpCalls, StepsSoundly(c) PROVE AskedFits' /\ AloneFits'
<1>1. AcpCallsTypeOK /\ IdsGiven /\ AloneFits /\ AskedFits
  BY DEF AcpCallsInductive
<1>2. KeepsItsId(c)
  BY DEF StepsSoundly
<1>3. /\ \A d \in AcpCalls : (Taken(d)' <=> Taken(d))
      /\ \A i, k : IdOfKey(i, k)' <=> IdOfKey(i, k)
  BY <1>2, IdsStay
<1>4. /\ keyOf' = keyOf /\ myId' = myId
      /\ \A d \in AcpCalls : Alone(d)' <=> Alone(d)
  BY <1>2 DEF KeepsItsId, Alone
<1>5. ASSUME NEW d \in AcpCalls, callAt'[d] = "wait"
      PROVE  askedFor'[d] = 0 \/ IdOfKey(askedFor'[d], keyOf[d])
  <2>1. CASE d = c
    BY <1>5, <2>1 DEF StepsSoundly
  <2>2. CASE d # c
    BY <1>1, <1>2, <1>5, <2>2 DEF KeepsItsId, AskedFits
  <2>3. QED BY <2>1, <2>2
<1>6. ASSUME NEW d \in AcpCalls, Alone(d)
      PROVE  /\ callAt'[d] = "wait" => askedFor'[d] = myId[d]
             /\ (callAt'[d] = "denied" /\ ~okay'[d] /\ connected') => shown'[myId[d]] = "failed"
  <2>1. CASE d = c
    BY <1>6, <2>1 DEF StepsSoundly
  <2>2. CASE d # c
    <3>1. /\ callAt'[d] = callAt[d] /\ askedFor'[d] = askedFor[d] /\ (connected' => connected)
          /\ (okay'[d] <=> okay[d])
      BY <1>2, <2>2 DEF KeepsItsId, StepsSoundly
    <3>2. keyOf[d] # keyOf[c]
      BY <1>6, <2>2 DEF Alone
    <3>3. ASSUME callAt[d] = "denied" PROVE shown'[myId[d]] = shown[myId[d]]
      <4>1. myId[d] \in Ids
        BY <1>1, <3>3, CallTypes DEF IdsGiven, Taken
      <4>2. ~IdOfKey(myId[d], keyOf[c])
        BY <1>1, <3>2, IdOfKeyFacts
      <4>3. QED BY <4>1, <4>2 DEF StepsSoundly, TellsOfKey
    <3>4. QED BY <1>1, <1>6, <3>1, <3>3 DEF AloneFits
  <2>3. QED BY <2>1, <2>2
<1>7. AskedFits'
  BY <1>3, <1>4, <1>5 DEF AskedFits
<1>8. AloneFits'
  BY <1>4, <1>6 DEF AloneFits
<1>9. QED BY <1>7, <1>8

LEMMA FinalsStay ==
    ASSUME AcpCallsInductive, NEW c \in AcpCalls, StepsSoundly(c), finals' = finals PROVE FinalsFit'
<1>1. KeepsItsId(c) /\ FinalsFit /\ (connected' => connected)
  BY DEF StepsSoundly, AcpCallsInductive
<1>2. /\ \A d \in AcpCalls : (Taken(d)' <=> Taken(d))
  BY <1>1, IdsStay
<1>3. /\ keyOf' = keyOf /\ myId' = myId /\ nextSeq' = nextSeq /\ Ids' = Ids
  BY <1>1 DEF KeepsItsId, Ids
<1>4. \A d \in AcpCalls : callAt'[d] = "done" <=> callAt[d] = "done"
  BY <1>1 DEF KeepsItsId, TakenOff
<1>5. \A d \in AcpCalls : callAt[d] = "done" => askedFor'[d] = askedFor[d]
  BY <1>1 DEF KeepsItsId, TakenOff
<1>6. \A i : (\E d \in AcpCalls : callAt'[d] = "done" /\ askedFor'[d] = i)
           <=> (\E d \in AcpCalls : callAt[d] = "done" /\ askedFor[d] = i)
  BY <1>4, <1>5
<1>7. ASSUME connected', NEW d \in AcpCalls, Taken(d),
             \A e \in AcpCalls : keyOf[e] = keyOf[d] => callAt'[e] # "denied"
      PROVE  finals[myId[d]] = IF \E e \in AcpCalls : callAt'[e] = "done" /\ askedFor'[e] = myId[d]
                               THEN 1 ELSE 0
  <2>1. CASE \A e \in AcpCalls : keyOf[e] = keyOf[d] => callAt[e] # "denied"
    BY <1>1, <1>6, <1>7, <2>1 DEF FinalsFit
  <2>2. CASE \E e \in AcpCalls : keyOf[e] = keyOf[d] /\ callAt[e] = "denied"
    <3>1. PICK e \in AcpCalls : keyOf[e] = keyOf[d] /\ callAt[e] = "denied"
      BY <2>2
    <3>2. e = c
      BY <1>1, <1>7, <3>1 DEF KeepsItsId
    <3>3. QED BY <1>1, <3>1, <3>2 DEF KeepsItsId
  <2>3. QED BY <2>1, <2>2
<1>8. QED
  BY <1>1, <1>2, <1>3, <1>7 DEF FinalsFit

LEMMA CallStepsSoundly ==
    ASSUME AcpCallsInductive, NEW c \in AcpCalls, StepsSoundly(c), FinalsFit'
    PROVE  AcpCallsInductive'
<1>1. KeepsItsId(c) /\ AcpCallsTypeOK'
  BY DEF StepsSoundly
<1>2. QED
  BY <1>1, IdsStay, UnmixedStays, AloneStays DEF AcpCallsInductive

-----------------------------------------------------------------------------
(* Each action *)

LEMMA OwnIdOfKey ==
    ASSUME NEW c \in AcpCalls, Taken(c) PROVE IdOfKey(myId[c], keyOf[c])
  BY DEF IdOfKey

LEMMA TellsSoundly ==
    ASSUME AcpCallsInductive, NEW c \in AcpCalls, Taken(c), ~TakenOff(c), callAt[c] # "denied",
           NEW id, IdOfKey(id, keyOf[c]), keyOf[c] \notin mixed => id = myId[c],
           NEW to \in {"ask", "progress", "lookup", "run"}, NEW status \in Shown,
           Tells(c, id, status, to),
           UNCHANGED <<keyOf, askedIn, myId, askedFor, okay, idQueue, nextSeq, connected, refusals, finals>>
    PROVE  AcpCallsInductive'
<1>1. AcpCallsTypeOK /\ IdsGiven
  BY DEF AcpCallsInductive
<1>2. /\ shown' = IF connected THEN [shown EXCEPT ![id] = status] ELSE shown
      /\ callAt' = [callAt EXCEPT ![c] = IF connected THEN to ELSE "denied"]
      /\ mixed' = IF connected THEN mixed ELSE mixed \cup {keyOf[c]}
  BY DEF Tells, Moves
<1>3. id \in Ids /\ keyOf[c] \in Keys
  BY <1>1, IdOfKeyFacts, CallTypes
<1>4. AcpCallsTypeOK'
  <2>1. shown' \in [Ids -> Shown]
    BY <1>1, <1>2 DEF AcpCallsTypeOK
  <2>2. mixed' \subseteq Keys
    BY <1>1, <1>2, <1>3 DEF AcpCallsTypeOK
  <2>3. callAt' \in [AcpCalls -> {"idle", "announce", "ask", "progress", "lookup", "wait", "run",
                                  "after", "tell", "done", "denied"}]
    BY <1>1, <1>2 DEF AcpCallsTypeOK
  <2>4. QED BY <1>1, <2>1, <2>2, <2>3 DEF AcpCallsTypeOK
<1>5. callAt'[c] = (IF connected THEN to ELSE "denied")
      /\ \A d \in AcpCalls \ {c} : callAt'[d] = callAt[d]
  BY <1>1, <1>2 DEF AcpCallsTypeOK
<1>6. KeepsItsId(c)
  BY <1>5 DEF KeepsItsId
<1>7. TellsOfKey(c)
  BY <1>1, <1>2, <1>3 DEF TellsOfKey, AcpCallsTypeOK
<1>8. StepsSoundly(c)
  BY <1>2, <1>4, <1>5, <1>6, <1>7 DEF StepsSoundly
<1>9. QED
  BY <1>8, FinalsStay, CallStepsSoundly

LEMMA AnnounceSound ==
    ASSUME AcpCallsInductive, NEW c \in AcpCalls, Announce(c) PROVE AcpCallsInductive'
<1>1. PICK to \in {"ask", "progress", "lookup", "run"} :
          to = IF askedIn[keyOf[c]] = "hook" THEN "ask" ELSE "progress"
  OBVIOUS
<1>2. Taken(c) /\ ~TakenOff(c) /\ callAt[c] # "denied"
  BY DEF Announce, At, Taken, TakenOff
<1>3. PICK id : id = myId[c]
  OBVIOUS
<1>4. PICK status \in Shown : status = "pending"
  BY DEF Shown
<1>5. Tells(c, id, status, to)
  BY <1>1, <1>3, <1>4 DEF Announce
<1>6. QED
  BY <1>2, <1>3, <1>5, OwnIdOfKey, TellsSoundly DEF Announce

LEMMA HookEndsSound ==
    ASSUME AcpCallsInductive, NEW c \in AcpCalls, HookEnds(c) PROVE AcpCallsInductive'
<1>1. PICK to \in {"ask", "progress", "lookup", "run"} :
          to = IF askedIn[keyOf[c]] = "handler" THEN "lookup" ELSE "run"
  OBVIOUS
<1>2. Taken(c) /\ ~TakenOff(c) /\ callAt[c] # "denied"
  BY DEF HookEnds, At, Taken, TakenOff
<1>3. PICK id : id = myId[c]
  OBVIOUS
<1>4. PICK status \in Shown : status = "inProgress"
  BY DEF Shown
<1>5. Tells(c, id, status, to)
  BY <1>1, <1>3, <1>4 DEF HookEnds
<1>6. QED
  BY <1>2, <1>3, <1>5, OwnIdOfKey, TellsSoundly DEF HookEnds

\* A step that tells the client nothing.
LEMMA QuietlySound ==
    ASSUME AcpCallsInductive, NEW c \in AcpCalls, Taken(c), ~TakenOff(c), callAt[c] # "denied",
           NEW to \in {"ask", "progress", "lookup", "wait", "run", "after"}, Moves(c, to),
           NEW asked \in 0..Cardinality(AcpCalls), askedFor' = [askedFor EXCEPT ![c] = asked],
           to = "wait" => /\ asked = 0 \/ IdOfKey(asked, keyOf[c])
                          /\ keyOf[c] \in mixed \/ asked = myId[c]
                          /\ Alone(c) => asked = myId[c],
           NEW ok, ok \in BOOLEAN, okay' = [okay EXCEPT ![c] = ok],
           UNCHANGED <<keyOf, askedIn, myId, idQueue, nextSeq, shownVars, refusals, acpHistory>>
    PROVE  AcpCallsInductive'
<1>1. AcpCallsTypeOK /\ IdsGiven
  BY DEF AcpCallsInductive
<1>2. UNCHANGED <<shown, connected, finals, mixed>>
  BY DEF shownVars, acpHistory
<1>3. AcpCallsTypeOK'
  <2>1. callAt' \in [AcpCalls -> {"idle", "announce", "ask", "progress", "lookup", "wait", "run",
                                  "after", "tell", "done", "denied"}]
    BY <1>1 DEF AcpCallsTypeOK, Moves
  <2>2. askedFor' \in [AcpCalls -> 0..Cardinality(AcpCalls)]
    BY <1>1 DEF AcpCallsTypeOK
  <2>3. okay' \in [AcpCalls -> BOOLEAN]
    BY <1>1, Zenon DEF AcpCallsTypeOK
  <2>4. QED BY <1>1, <1>2, <2>1, <2>2, <2>3 DEF AcpCallsTypeOK
<1>4. /\ callAt'[c] = to /\ askedFor'[c] = asked
      /\ \A d \in AcpCalls \ {c} : callAt'[d] = callAt[d] /\ askedFor'[d] = askedFor[d] /\ okay'[d] = okay[d]
  BY <1>1 DEF AcpCallsTypeOK, Moves
<1>5. KeepsItsId(c)
  BY <1>4 DEF KeepsItsId
<1>6. TellsOfKey(c)
  BY <1>2 DEF TellsOfKey
<1>7. StepsSoundly(c)
  BY <1>2, <1>3, <1>4, <1>5, <1>6 DEF StepsSoundly
<1>8. QED
  BY <1>2, <1>7, FinalsStay, CallStepsSoundly

\* What the handler finds at the head of the queue.
LEMMA CurrentIdFits ==
    ASSUME AcpCallsInductive, NEW c \in AcpCalls, Taken(c), ~TakenOff(c)
    PROVE  /\ QueueOf(c) # <<>> /\ CurrentId(c) = Head(QueueOf(c))
           /\ CurrentId(c) \in ElementsOf(QueueOf(c))
           /\ IdOfKey(CurrentId(c), keyOf[c]) /\ CurrentId(c) \in 0..Cardinality(AcpCalls)
           /\ keyOf[c] \notin mixed => (CurrentId(c) = myId[c] /\ QueueOf(c) = <<myId[c]>>)
           /\ Alone(c) => CurrentId(c) = myId[c]
<1>1. AcpCallsTypeOK /\ IdsGiven /\ QueuesFit /\ Unmixed
  BY DEF AcpCallsInductive
<1>2. QueueOf(c) # <<>> /\ CurrentId(c) = Head(QueueOf(c))
  BY <1>1, QueueHasId DEF CurrentId, QueueOf
<1>3. keyOf[c] \in Keys /\ QueueOf(c) \in Seq(Ids)
  BY <1>1, CallTypes
<1>4. CurrentId(c) \in ElementsOf(QueueOf(c))
  BY <1>1, <1>2, <1>3, TailElements DEF QueuesFit, QueueIdsFit, QueueOf
<1>5. IdOfKey(CurrentId(c), keyOf[c])
  BY <1>1, <1>3, <1>4 DEF QueuesFit, QueueIdsFit, QueueOf
<1>6. CurrentId(c) \in 0..Cardinality(AcpCalls)
  BY <1>1, <1>5, IdOfKeyFacts DEF Ids
<1>7. ASSUME keyOf[c] \notin mixed PROVE CurrentId(c) = myId[c] /\ QueueOf(c) = <<myId[c]>>
  <2>1. QueueOf(c) = <<myId[c]>>
    BY <1>1, <1>3, <1>7 DEF Unmixed, OneByOne, QueueOf
  <2>2. QED BY <1>2, <2>1
<1>8. ASSUME Alone(c) PROVE CurrentId(c) = myId[c]
  BY <1>5, <1>8 DEF IdOfKey, Alone
<1>9. QED BY <1>2, <1>4, <1>5, <1>6, <1>7, <1>8

LEMMA AskInHookSound ==
    ASSUME AcpCallsInductive, NEW c \in AcpCalls, AskInHook(c) PROVE AcpCallsInductive'
<1>1. Taken(c) /\ ~TakenOff(c) /\ callAt[c] # "denied" /\ Moves(c, "wait")
  BY DEF AskInHook, At, Taken, TakenOff
<1>2. PICK asked \in 0..Cardinality(AcpCalls) : asked = myId[c]
  BY DEF AcpCallsInductive, AcpCallsTypeOK
<1>3. PICK ok : ok \in BOOLEAN /\ ok = okay[c]
  BY Zenon DEF AcpCallsInductive, AcpCallsTypeOK
<1>4. okay' = [okay EXCEPT ![c] = ok]
  BY <1>3 DEF AskInHook, AcpCallsInductive, AcpCallsTypeOK
<1>5. askedFor' = [askedFor EXCEPT ![c] = asked]
      /\ UNCHANGED <<keyOf, askedIn, myId, idQueue, nextSeq, shownVars, refusals, acpHistory>>
  BY <1>2 DEF AskInHook
<1>6. QED
  BY <1>1, <1>2, <1>3, <1>4, <1>5, OwnIdOfKey, QuietlySound

LEMMA AskInHandlerSound ==
    ASSUME AcpCallsInductive, NEW c \in AcpCalls, AskInHandler(c) PROVE AcpCallsInductive'
<1>1. Taken(c) /\ ~TakenOff(c) /\ callAt[c] # "denied" /\ Moves(c, "wait")
  BY DEF AskInHandler, At, Taken, TakenOff
<1>2. PICK asked \in 0..Cardinality(AcpCalls) : asked = CurrentId(c)
  BY <1>1, CurrentIdFits
<1>3. PICK ok : ok \in BOOLEAN /\ ok = okay[c]
  BY Zenon DEF AcpCallsInductive, AcpCallsTypeOK
<1>4. okay' = [okay EXCEPT ![c] = ok]
  BY <1>3 DEF AskInHandler, AcpCallsInductive, AcpCallsTypeOK
<1>5. askedFor' = [askedFor EXCEPT ![c] = asked]
      /\ UNCHANGED <<keyOf, askedIn, myId, idQueue, nextSeq, shownVars, refusals, acpHistory>>
  BY <1>2 DEF AskInHandler
<1>6. IdOfKey(asked, keyOf[c]) /\ (keyOf[c] \in mixed \/ asked = myId[c]) /\ (Alone(c) => asked = myId[c])
  BY <1>1, <1>2, CurrentIdFits
<1>7. QED
  BY <1>1, <1>3, <1>4, <1>5, <1>6, QuietlySound

LEMMA ExecutedSound ==
    ASSUME AcpCallsInductive, NEW c \in AcpCalls, NEW ok, ok \in BOOLEAN, Executed(c, ok)
    PROVE  AcpCallsInductive'
<1>1. Taken(c) /\ ~TakenOff(c) /\ callAt[c] # "denied" /\ Moves(c, "after")
  BY DEF Executed, At, Taken, TakenOff
<1>2. PICK asked \in 0..Cardinality(AcpCalls) : asked = askedFor[c]
  BY DEF AcpCallsInductive, AcpCallsTypeOK
<1>3. askedFor' = [askedFor EXCEPT ![c] = asked] /\ okay' = [okay EXCEPT ![c] = ok]
      /\ UNCHANGED <<keyOf, askedIn, myId, idQueue, nextSeq, shownVars, refusals, acpHistory>>
  BY <1>2 DEF Executed, AcpCallsInductive, AcpCallsTypeOK
<1>4. PICK to \in {"ask", "progress", "lookup", "wait", "run", "after"} : to = "after"
  OBVIOUS
<1>5. QED
  BY <1>1, <1>3, <1>4, QuietlySound

LEMMA AllowedSound ==
    ASSUME AcpCallsInductive, NEW c \in AcpCalls, Allowed(c) PROVE AcpCallsInductive'
<1>1. Taken(c) /\ ~TakenOff(c) /\ callAt[c] # "denied" /\ callAt[c] = "wait"
  BY DEF Allowed, At, Taken, TakenOff
<1>2. CASE askedFor[c] = 0
  <2>1. PICK asked \in 0..Cardinality(AcpCalls) : asked = askedFor[c]
    BY DEF AcpCallsInductive, AcpCallsTypeOK
  <2>2. PICK ok : ok \in BOOLEAN /\ ok = okay[c]
    BY Zenon DEF AcpCallsInductive, AcpCallsTypeOK
  <2>3. okay' = [okay EXCEPT ![c] = ok] /\ askedFor' = [askedFor EXCEPT ![c] = asked]
    BY <2>1, <2>2 DEF Allowed, AcpCallsInductive, AcpCallsTypeOK
  <2>4. Moves(c, "run")
        /\ UNCHANGED <<keyOf, askedIn, myId, idQueue, nextSeq, shownVars, refusals, acpHistory>>
    BY <1>2 DEF Allowed, shownVars, acpHistory
  <2>5. PICK to \in {"ask", "progress", "lookup", "wait", "run", "after"} : to = "run"
    OBVIOUS
  <2>6. QED BY <1>1, <2>2, <2>3, <2>4, <2>5, QuietlySound
<1>3. CASE askedFor[c] # 0
  <2>1. PICK id : id = askedFor[c]
    OBVIOUS
  <2>2. IdOfKey(id, keyOf[c])
    BY <1>1, <1>3, <2>1 DEF AcpCallsInductive, AskedFits
  <2>3. keyOf[c] \notin mixed => id = myId[c]
    BY <1>1, <2>1, CallTypes DEF AcpCallsInductive, Unmixed, OneByOne
  <2>4. PICK status \in Shown : status = "inProgress"
    BY DEF Shown
  <2>5. PICK to \in {"ask", "progress", "lookup", "run"} : to = "run"
    OBVIOUS
  <2>6. Tells(c, id, status, to)
    BY <1>3, <2>1, <2>4, <2>5 DEF Allowed
  <2>7. QED BY <1>1, <2>2, <2>3, <2>6, TellsSoundly DEF Allowed
<1>4. QED BY <1>2, <1>3

LEMMA RefusedSound ==
    ASSUME AcpCallsInductive, NEW c \in AcpCalls, Refused(c) PROVE AcpCallsInductive'
<1>1. Taken(c) /\ ~TakenOff(c) /\ callAt[c] # "denied" /\ callAt[c] = "wait"
  BY DEF Refused, At, Taken, TakenOff
<1>2. AcpCallsTypeOK /\ IdsGiven /\ AskedFits /\ AloneFits /\ FinalsFit
  BY DEF AcpCallsInductive
<1>3. PICK id : id = askedFor[c]
  OBVIOUS
<1>4. id # 0 => (id \in Ids /\ IdOfKey(id, keyOf[c]))
  BY <1>1, <1>2, <1>3, CallTypes DEF AskedFits
<1>5. IF connected /\ id # 0
      THEN shown' = [shown EXCEPT ![id] = "failed"] /\ finals' = [finals EXCEPT ![id] = @ + 1]
      ELSE shown' = shown /\ finals' = finals
  BY <1>3 DEF Refused, TellsFinal, IdOfRefusal
<1>6. /\ callAt' = [callAt EXCEPT ![c] = "denied"] /\ mixed' = mixed \cup {keyOf[c]}
      /\ okay' = [okay EXCEPT ![c] = FALSE] /\ refusals < MaxRefusals /\ refusals' = refusals + 1
      /\ UNCHANGED <<keyOf, askedIn, myId, askedFor, idQueue, nextSeq, connected>>
  BY DEF Refused, Moves
<1>7. keyOf[c] \in Keys
  BY <1>2, CallTypes
<1>8. AcpCallsTypeOK'
  <2>1. shown' \in [Ids -> Shown]
    BY <1>2, <1>5 DEF AcpCallsTypeOK, Shown
  <2>2. finals' \in [Ids -> Nat]
    <3>1. finals \in [Ids -> Nat]
      BY <1>2 DEF AcpCallsTypeOK
    <3>2. QED BY <1>4, <1>5, <3>1
  <2>3. callAt' \in [AcpCalls -> {"idle", "announce", "ask", "progress", "lookup", "wait", "run",
                                  "after", "tell", "done", "denied"}]
    BY <1>2, <1>6 DEF AcpCallsTypeOK
  <2>4. refusals' \in 0..MaxRefusals
    BY <1>2, <1>6, AcpCallsAssumption DEF AcpCallsTypeOK
  <2>5. okay' \in [AcpCalls -> BOOLEAN]
    BY <1>2, <1>6, Zenon DEF AcpCallsTypeOK
  <2>6. mixed' \subseteq Keys
    BY <1>2, <1>6, <1>7 DEF AcpCallsTypeOK
  <2>7. QED BY <1>2, <1>6, <2>1, <2>2, <2>3, <2>4, <2>5, <2>6 DEF AcpCallsTypeOK
<1>9. callAt'[c] = "denied"
      /\ \A d \in AcpCalls \ {c} : callAt'[d] = callAt[d] /\ okay'[d] = okay[d]
  BY <1>2, <1>6 DEF AcpCallsTypeOK
<1>10. KeepsItsId(c)
  BY <1>1, <1>6, <1>9 DEF KeepsItsId
<1>11. TellsOfKey(c)
  BY <1>2, <1>4, <1>5, <1>6 DEF TellsOfKey, AcpCallsTypeOK
<1>12. (connected' /\ Alone(c)) => shown'[myId[c]] = "failed"
  <2>1. SUFFICES ASSUME connected', Alone(c) PROVE shown'[myId[c]] = "failed"
    OBVIOUS
  <2>2. id = myId[c] /\ id # 0
    BY <1>1, <1>2, <1>3, <2>1 DEF AloneFits, IdsGiven
  <2>3. shown' = [shown EXCEPT ![id] = "failed"]
    BY <1>5, <1>6, <2>1, <2>2
  <2>4. QED BY <1>2, <1>4, <2>2, <2>3 DEF AcpCallsTypeOK
<1>13. StepsSoundly(c)
  BY <1>6, <1>8, <1>9, <1>10, <1>11, <1>12 DEF StepsSoundly
<1>14. FinalsFit'
  <2>1. /\ Ids' = Ids /\ \A d \in AcpCalls : Taken(d)' <=> Taken(d)
    BY <1>10, IdsStay DEF Ids
  <2>2. ASSUME NEW i \in Ids, i > nextSeq PROVE finals'[i] = 0
    <3>1. finals[i] = 0
      BY <1>2, <2>2 DEF FinalsFit
    <3>2. id # 0 => i # id
      BY <1>2, <1>4, <2>2, IdOfKeyFacts, CallTypes
    <3>3. QED BY <1>2, <1>5, <3>1, <3>2 DEF AcpCallsTypeOK
  <2>3. ASSUME connected, NEW d \in AcpCalls, Taken(d),
               \A e \in AcpCalls : keyOf[e] = keyOf[d] => callAt'[e] # "denied"
        PROVE  finals'[myId[d]] = IF \E e \in AcpCalls : callAt'[e] = "done" /\ askedFor[e] = myId[d]
                                  THEN 1 ELSE 0
    <3>1. keyOf[d] # keyOf[c]
      BY <1>9, <2>3
    <3>2. \A e \in AcpCalls : keyOf[e] = keyOf[d] => callAt[e] # "denied"
      BY <1>9, <2>3, <3>1
    <3>3. \A e \in AcpCalls : callAt'[e] = "done" <=> callAt[e] = "done"
      BY <1>1, <1>9
    <3>4. finals[myId[d]] = IF \E e \in AcpCalls : callAt[e] = "done" /\ askedFor[e] = myId[d]
                            THEN 1 ELSE 0
      BY <1>2, <2>3, <3>2 DEF FinalsFit
    <3>5. myId[d] # id
      BY <1>2, <1>4, <2>3, <3>1, IdOfKeyFacts DEF IdsGiven
    <3>6. finals'[myId[d]] = finals[myId[d]]
      <4>1. myId[d] \in Ids /\ finals \in [Ids -> Nat]
        BY <1>2, <2>3, CallTypes DEF IdsGiven, AcpCallsTypeOK
      <4>2. QED BY <1>5, <3>5, <4>1
    <3>7. QED BY <3>3, <3>4, <3>6
  <2>4. QED
    BY <1>6, <2>1, <2>2, <2>3 DEF FinalsFit
<1>15. QED BY <1>13, <1>14, CallStepsSoundly

LEMMA PermissionFailsSound ==
    ASSUME AcpCallsInductive, NotYetFailed, NEW c \in AcpCalls, PermissionFails(c)
    PROVE  AcpCallsInductive'
<1>1. Taken(c) /\ ~TakenOff(c) /\ callAt[c] # "denied" /\ okay[c]
  BY DEF PermissionFails, At, Taken, TakenOff, NotYetFailed
<1>2. AcpCallsTypeOK
  BY DEF AcpCallsInductive
<1>3. /\ callAt' = [callAt EXCEPT ![c] = "denied"] /\ mixed' = mixed \cup {keyOf[c]}
      /\ refusals' = refusals \/ (refusals < MaxRefusals /\ refusals' = refusals + 1)
      /\ UNCHANGED <<keyOf, askedIn, myId, askedFor, okay, idQueue, nextSeq, shown, connected, finals>>
  BY DEF PermissionFails, Moves, shownVars
<1>4. callAt'[c] = "denied" /\ \A d \in AcpCalls \ {c} : callAt'[d] = callAt[d]
  BY <1>2, <1>3 DEF AcpCallsTypeOK
<1>5. AcpCallsTypeOK'
  <2>1. callAt' \in [AcpCalls -> {"idle", "announce", "ask", "progress", "lookup", "wait", "run",
                                  "after", "tell", "done", "denied"}]
    BY <1>2, <1>3 DEF AcpCallsTypeOK
  <2>2. refusals' \in 0..MaxRefusals
    BY <1>2, <1>3, AcpCallsAssumption DEF AcpCallsTypeOK
  <2>3. mixed' \subseteq Keys
    BY <1>2, <1>3, CallTypes DEF AcpCallsTypeOK
  <2>4. QED BY <1>2, <1>3, <2>1, <2>2, <2>3 DEF AcpCallsTypeOK
<1>6. KeepsItsId(c)
  BY <1>1, <1>3, <1>4 DEF KeepsItsId
<1>7. TellsOfKey(c)
  BY <1>3 DEF TellsOfKey
<1>8. StepsSoundly(c)
  BY <1>1, <1>3, <1>4, <1>5, <1>6, <1>7 DEF StepsSoundly
<1>9. QED
  BY <1>3, <1>8, FinalsStay, CallStepsSoundly

LEMMA ConnectionLostSound == AcpCallsInductive /\ ConnectionLost => AcpCallsInductive'
<1> SUFFICES ASSUME AcpCallsInductive, ConnectionLost PROVE AcpCallsInductive'
  OBVIOUS
<1>1. connected' = FALSE
      /\ UNCHANGED <<keyOf, askedIn, callAt, myId, askedFor, okay, idQueue, nextSeq, shown, refusals,
                     finals, mixed>>
  BY DEF ConnectionLost, callVars, acpHistory
<1>2. \A c \in AcpCalls : (Taken(c)' <=> Taken(c)) /\ (TakenOff(c)' <=> TakenOff(c))
                          /\ QueueOf(c)' = QueueOf(c) /\ (Alone(c)' <=> Alone(c))
  BY <1>1 DEF Taken, TakenOff, QueueOf, Alone
<1>3. \A i, k : IdOfKey(i, k)' <=> IdOfKey(i, k)
  BY <1>1, <1>2 DEF IdOfKey
<1>4. AcpCallsTypeOK'
  BY <1>1 DEF AcpCallsInductive, AcpCallsTypeOK
<1>5. IdsGiven'
  BY <1>1, <1>2 DEF AcpCallsInductive, IdsGiven
<1>6. QueuesFit'
  BY <1>1 DEF AcpCallsInductive, QueuesFit, QueueIdsFit, TakenOffFit, TakenOffOnce, NoIdLost, TakenOff,
              Taken, QueueOf, IdOfKey
<1>7. AskedFits'
  BY <1>1 DEF AcpCallsInductive, AskedFits, IdOfKey, Taken
<1>8. FinalsFit' /\ AloneFits'
  BY <1>1 DEF AcpCallsInductive, FinalsFit, AloneFits, Alone
<1>9. Unmixed'
  BY <1>1 DEF AcpCallsInductive, Unmixed, OneByOne, Taken, TakenOff, UnderWay
<1>10. QED
  BY <1>4, <1>5, <1>6, <1>7, <1>8, <1>9 DEF AcpCallsInductive

LEMMA TakeIdSound ==
    ASSUME AcpCallsInductive, NEW c \in AcpCalls, TakeId(c) PROVE AcpCallsInductive'
<1>1. AcpCallsTypeOK /\ IdsGiven /\ QueuesFit /\ AskedFits /\ FinalsFit /\ Unmixed /\ AloneFits
  BY DEF AcpCallsInductive
<1>2. PICK n : n = nextSeq + 1
  OBVIOUS
<1>3. n \in Ids /\ n \in 1..Cardinality(AcpCalls) /\ nextSeq \in Nat /\ n \in Nat
  BY <1>1, <1>2, IdLeft, CallTypes DEF TakeId, At
<1>4. /\ callAt[c] = "idle" /\ nextSeq' = n
      /\ myId' = [myId EXCEPT ![c] = n]
      /\ idQueue' = [idQueue EXCEPT ![keyOf[c]] = Append(@, n)]
      /\ callAt' = [callAt EXCEPT ![c] = "announce"]
      /\ mixed' = IF \E other \in UnderWay : keyOf[other] = keyOf[c]
                  THEN mixed \cup {keyOf[c]} ELSE mixed
      /\ UNCHANGED <<keyOf, askedIn, askedFor, okay, shown, connected, refusals, finals>>
  BY <1>2 DEF TakeId, At, Moves, shownVars
<1>5. keyOf[c] \in Keys /\ QueueOf(c) \in Seq(Ids) /\ idQueue[keyOf[c]] = QueueOf(c)
  BY <1>1, CallTypes DEF QueueOf
<1>6. /\ idQueue'[keyOf[c]] = Append(QueueOf(c), n)
      /\ \A k \in Keys : k # keyOf[c] => idQueue'[k] = idQueue[k]
      /\ callAt'[c] = "announce" /\ myId'[c] = n
      /\ \A d \in AcpCalls \ {c} : callAt'[d] = callAt[d] /\ myId'[d] = myId[d]
  BY <1>1, <1>4, <1>5 DEF AcpCallsTypeOK
<1>7. /\ Append(QueueOf(c), n) \in Seq(Ids)
      /\ ElementsOf(Append(QueueOf(c), n)) = ElementsOf(QueueOf(c)) \cup {n}
      /\ AllDistinct(QueueOf(c)) /\ n \notin ElementsOf(QueueOf(c)) => AllDistinct(Append(QueueOf(c), n))
  BY <1>3, <1>5, AppendedElements
<1>8. AcpCallsTypeOK'
  <2>1. idQueue' \in [Keys -> Seq(Ids)]
    BY <1>1, <1>4, <1>5, <1>7 DEF AcpCallsTypeOK
  <2>2. callAt' \in [AcpCalls -> {"idle", "announce", "ask", "progress", "lookup", "wait", "run",
                                  "after", "tell", "done", "denied"}]
    BY <1>1, <1>4 DEF AcpCallsTypeOK
  <2>3. nextSeq' \in 0..Cardinality(AcpCalls) /\ n \in 0..Cardinality(AcpCalls)
    BY <1>3, <1>4
  <2>4. myId' \in [AcpCalls -> 0..Cardinality(AcpCalls)]
    BY <1>1, <1>4, <2>3 DEF AcpCallsTypeOK
  <2>5. mixed' \subseteq Keys
    BY <1>1, <1>4, <1>5 DEF AcpCallsTypeOK
  <2>6. QED BY <1>1, <1>4, <2>1, <2>2, <2>3, <2>4, <2>5 DEF AcpCallsTypeOK
<1>9. /\ Taken(c)' /\ ~Taken(c) /\ ~TakenOff(c)' /\ ~TakenOff(c)
      /\ \A d \in AcpCalls \ {c} : (Taken(d)' <=> Taken(d)) /\ (TakenOff(d)' <=> TakenOff(d))
      /\ \A d \in AcpCalls : TakenOff(d)' => (d # c /\ TakenOff(d))
  BY <1>4, <1>6 DEF Taken, TakenOff
<1>10. \A d \in AcpCalls \ {c} : myId[d] # n /\ myId[d] <= nextSeq
  BY <1>1, <1>2, <1>3, CallTypes DEF IdsGiven
<1>11. IdsGiven'
  <2>1. \A d \in AcpCalls : myId'[d] <= n /\ (Taken(d)' <=> myId'[d] # 0)
    <3>1. SUFFICES ASSUME NEW d \in AcpCalls PROVE myId'[d] <= n /\ (Taken(d)' <=> myId'[d] # 0)
      OBVIOUS
    <3>2. CASE d = c
      BY <1>3, <1>6, <1>9, <3>2
    <3>3. CASE d # c
      <4>1. myId[d] \in Nat /\ myId[d] <= nextSeq /\ (Taken(d) <=> myId[d] # 0)
        BY <1>1, CallTypes DEF IdsGiven
      <4>2. myId'[d] = myId[d] /\ (Taken(d)' <=> Taken(d))
        BY <1>6, <1>9, <3>3
      <4>3. myId[d] <= n
        BY <1>2, <1>3, <4>1
      <4>4. QED BY <4>1, <4>2, <4>3
    <3>4. QED BY <3>2, <3>3
  <2>2. \A d, e \in AcpCalls : Taken(d)' /\ myId'[d] = myId'[e] => d = e
    <3>1. SUFFICES ASSUME NEW d \in AcpCalls, NEW e \in AcpCalls, Taken(d)', myId'[d] = myId'[e], d # e
                   PROVE  FALSE
      OBVIOUS
    <3>2. d # c /\ e # c
      BY <1>6, <1>10, <3>1
    <3>3. QED BY <1>1, <1>6, <1>9, <3>1, <3>2 DEF IdsGiven
  <2>3. \A i \in 1..n : \E d \in AcpCalls : myId'[d] = i
    <3>1. SUFFICES ASSUME NEW i \in 1..n PROVE \E d \in AcpCalls : myId'[d] = i
      OBVIOUS
    <3>2. CASE i = n
      BY <1>6, <3>2
    <3>3. CASE i # n
      <4>1. i \in 1..nextSeq
        BY <1>2, <1>3, <3>3
      <4>2. PICK d \in AcpCalls : myId[d] = i
        BY <1>1, <4>1 DEF IdsGiven
      <4>3. d # c
        BY <1>1, <1>9, <4>1, <4>2 DEF IdsGiven
      <4>4. QED BY <1>6, <4>2, <4>3
    <3>4. QED BY <3>2, <3>3
  <2>4. QED BY <1>4, <2>1, <2>2, <2>3 DEF IdsGiven
<1>12. /\ \A i, k : IdOfKey(i, k) => IdOfKey(i, k)'
       /\ IdOfKey(n, keyOf[c])'
       /\ \A k : ~IdOfKey(n, k)
  <2>1. \A i, k : IdOfKey(i, k) => IdOfKey(i, k)'
    BY <1>4, <1>6, <1>9 DEF IdOfKey
  <2>2. IdOfKey(n, keyOf[c])'
    BY <1>4, <1>6, <1>9 DEF IdOfKey
  <2>3. \A k : ~IdOfKey(n, k)
    BY <1>9, <1>10 DEF IdOfKey
  <2>4. QED BY <2>1, <2>2, <2>3
<1>13. \A d \in AcpCalls : /\ QueueOf(d)' = idQueue'[keyOf[d]]
                           /\ ElementsOf(QueueOf(d)') = IF keyOf[d] = keyOf[c]
                                  THEN ElementsOf(QueueOf(d)) \cup {n} ELSE ElementsOf(QueueOf(d))
  <2>1. SUFFICES ASSUME NEW d \in AcpCalls
                 PROVE  /\ QueueOf(d)' = idQueue'[keyOf[d]]
                        /\ ElementsOf(QueueOf(d)') = IF keyOf[d] = keyOf[c]
                               THEN ElementsOf(QueueOf(d)) \cup {n} ELSE ElementsOf(QueueOf(d))
    OBVIOUS
  <2>2. QueueOf(d)' = idQueue'[keyOf[d]] /\ QueueOf(d) = idQueue[keyOf[d]] /\ keyOf[d] \in Keys
    BY <1>1, <1>4, CallTypes DEF QueueOf
  <2>3. CASE keyOf[d] = keyOf[c]
    BY <1>5, <1>6, <1>7, <2>2, <2>3
  <2>4. CASE keyOf[d] # keyOf[c]
    BY <1>6, <2>2, <2>4
  <2>5. QED BY <2>2, <2>3, <2>4
<1>14. QueuesFit'
  <2>1. QueueIdsFit'
    <3>1. SUFFICES ASSUME NEW k \in Keys
                   PROVE  AllDistinct(idQueue'[k]) /\ \A i \in ElementsOf(idQueue'[k]) : IdOfKey(i, k)'
      BY DEF QueueIdsFit
    <3>2. AllDistinct(idQueue[k]) /\ \A i \in ElementsOf(idQueue[k]) : IdOfKey(i, k)
      BY <1>1 DEF QueuesFit, QueueIdsFit
    <3>3. CASE k = keyOf[c]
      <4>1. n \notin ElementsOf(QueueOf(c))
        BY <1>5, <1>12, <3>2, <3>3
      <4>2. idQueue'[k] = Append(QueueOf(c), n) /\ idQueue[k] = QueueOf(c)
        BY <1>5, <1>6, <3>3
      <4>3. AllDistinct(idQueue'[k])
        BY <1>7, <3>2, <4>1, <4>2
      <4>4. ASSUME NEW i \in ElementsOf(idQueue'[k]) PROVE IdOfKey(i, k)'
        <5>1. i = n \/ i \in ElementsOf(idQueue[k])
          BY <1>7, <4>2, <4>4
        <5>2. CASE i = n
          <6>1. IdOfKey(n, k)'
            BY <1>4, <1>6, <1>9, <3>3 DEF IdOfKey
          <6>2. QED BY <5>2, <6>1
        <5>3. CASE i \in ElementsOf(idQueue[k])
          BY <1>12, <3>2, <5>3
        <5>4. QED BY <5>1, <5>2, <5>3
      <4>5. QED BY <4>3, <4>4
    <3>4. CASE k # keyOf[c]
      BY <1>6, <1>12, <3>2, <3>4
    <3>5. QED BY <3>3, <3>4
  <2>2. TakenOffFit'
    <3>1. SUFFICES ASSUME NEW d \in AcpCalls, TakenOff(d)'
                   PROVE  IdOfKey(askedFor[d], keyOf[d])' /\ askedFor'[d] \notin ElementsOf(QueueOf(d)')
      BY DEF TakenOffFit
    <3>2. IdOfKey(askedFor[d], keyOf[d]) /\ askedFor[d] \notin ElementsOf(QueueOf(d))
      BY <1>1, <1>9, <3>1 DEF QueuesFit, TakenOffFit
    <3>3. IdOfKey(askedFor[d], keyOf[d])'
      <4>1. PICK e \in AcpCalls : Taken(e) /\ keyOf[e] = keyOf[d] /\ myId[e] = askedFor[d]
        BY <3>2 DEF IdOfKey
      <4>2. e # c
        BY <1>9, <4>1
      <4>3. Taken(e)' /\ keyOf'[e] = keyOf'[d] /\ myId'[e] = askedFor'[d]
        BY <1>4, <1>6, <1>9, <4>1, <4>2
      <4>4. QED BY <4>3 DEF IdOfKey
    <3>4. askedFor[d] # n /\ askedFor' = askedFor
      BY <1>4, <1>12, <3>2
    <3>5. QED BY <1>13, <3>2, <3>3, <3>4
  <2>3. TakenOffOnce'
    BY <1>1, <1>4, <1>9 DEF QueuesFit, TakenOffOnce
  <2>4. NoIdLost'
    <3>1. SUFFICES ASSUME NEW d \in AcpCalls, Taken(d)'
                   PROVE  \/ myId'[d] \in ElementsOf(QueueOf(d)')
                          \/ \E e \in AcpCalls : TakenOff(e)' /\ keyOf'[e] = keyOf'[d] /\ askedFor'[e] = myId'[d]
      BY DEF NoIdLost
    <3>2. CASE d = c
      BY <1>6, <1>13, <3>2
    <3>3. CASE d # c
      <4>1. Taken(d) /\ myId'[d] = myId[d]
        BY <1>6, <1>9, <3>1, <3>3
      <4>2. CASE myId[d] \in ElementsOf(QueueOf(d))
        BY <1>13, <4>1, <4>2
      <4>3. CASE \E e \in AcpCalls : TakenOff(e) /\ keyOf[e] = keyOf[d] /\ askedFor[e] = myId[d]
        BY <1>4, <1>9, <4>1, <4>3
      <4>4. QED BY <1>1, <4>1, <4>2, <4>3 DEF QueuesFit, NoIdLost
    <3>4. QED BY <3>2, <3>3
  <2>5. QED BY <2>1, <2>2, <2>3, <2>4 DEF QueuesFit
<1>15. AskedFits'
  <2>1. SUFFICES ASSUME NEW d \in AcpCalls, callAt'[d] = "wait"
                 PROVE  askedFor'[d] = 0 \/ IdOfKey(askedFor[d], keyOf[d])'
    BY DEF AskedFits
  <2>2. d # c /\ callAt[d] = "wait" /\ askedFor'[d] = askedFor[d] /\ keyOf' = keyOf
    BY <1>4, <1>6, <2>1
  <2>3. CASE askedFor[d] = 0
    BY <2>2, <2>3
  <2>4. CASE IdOfKey(askedFor[d], keyOf[d])
    <3>1. PICK e \in AcpCalls : Taken(e) /\ keyOf[e] = keyOf[d] /\ myId[e] = askedFor[d]
      BY <2>4 DEF IdOfKey
    <3>2. Taken(e)' /\ keyOf'[e] = keyOf'[d] /\ myId'[e] = askedFor'[d]
      BY <1>6, <1>9, <2>2, <3>1
    <3>3. QED BY <3>2 DEF IdOfKey
  <2>5. askedFor[d] = 0 \/ IdOfKey(askedFor[d], keyOf[d])
    BY <1>1, <2>2 DEF AskedFits
  <2>6. QED BY <2>3, <2>4, <2>5
<1>16. FinalsFit'
  <2>1. ASSUME NEW i \in Ids, i > n PROVE finals[i] = 0
    BY <1>1, <1>2, <1>3, <2>1, CallTypes DEF FinalsFit
  <2>2. ASSUME connected, NEW d \in AcpCalls, Taken(d)',
               \A e \in AcpCalls : keyOf[e] = keyOf[d] => callAt'[e] # "denied"
        PROVE  finals[myId'[d]] = IF \E e \in AcpCalls : callAt'[e] = "done" /\ askedFor[e] = myId'[d]
                                  THEN 1 ELSE 0
    <3>1. \A e \in AcpCalls : callAt'[e] = "done" <=> callAt[e] = "done"
      BY <1>4, <1>6
    <3>2. CASE d = c
      <4>1. finals[n] = 0
        BY <1>1, <1>2, <1>3 DEF FinalsFit
      <4>2. \A e \in AcpCalls : callAt[e] = "done" => askedFor[e] # n
        BY <1>1, <1>12 DEF QueuesFit, TakenOffFit, TakenOff
      <4>3. QED BY <1>6, <3>1, <3>2, <4>1, <4>2
    <3>3. CASE d # c
      <4>1. Taken(d) /\ myId'[d] = myId[d]
        BY <1>6, <1>9, <2>2, <3>3
      <4>2. \A e \in AcpCalls : keyOf[e] = keyOf[d] => callAt[e] # "denied"
        BY <1>4, <1>6, <2>2
      <4>3. finals[myId[d]] = IF \E e \in AcpCalls : callAt[e] = "done" /\ askedFor[e] = myId[d]
                              THEN 1 ELSE 0
        BY <1>1, <2>2, <4>1, <4>2 DEF FinalsFit
      <4>4. QED BY <3>1, <4>1, <4>3
    <3>4. QED BY <3>2, <3>3
  <2>3. Ids' = Ids
    BY DEF Ids
  <2>4. QED BY <1>4, <2>1, <2>2, <2>3 DEF FinalsFit
<1>17. Unmixed'
  <2>1. SUFFICES ASSUME NEW k \in Keys, k \notin mixed' PROVE OneByOne(k)'
    BY DEF Unmixed
  <2>2. OneByOne(k)
    <3>1. k \notin mixed
      BY <1>4, <2>1
    <3>2. QED BY <1>1, <3>1 DEF Unmixed
  <2>3. UnderWay' = UnderWay \cup {c}
    BY <1>6 DEF UnderWay
  <2>4. \A d \in AcpCalls \ {c} : Status(d)' = Status(d)
    BY <1>4 DEF Status
  <2>5. ASSUME NEW d \in AcpCalls, keyOf[d] = k, d # c
        PROVE  /\ callAt'[d] = callAt[d] /\ myId'[d] = myId[d] /\ askedFor'[d] = askedFor[d]
               /\ (Taken(d)' <=> Taken(d)) /\ (TakenOff(d)' <=> TakenOff(d))
               /\ callAt[d] # "denied"
               /\ callAt[d] = "wait" => askedFor[d] = myId[d]
               /\ TakenOff(d) => askedFor[d] = myId[d]
               /\ (Taken(d) /\ ~TakenOff(d)) => idQueue[k] = <<myId[d]>>
               /\ callAt[d] = "tell" => idQueue[k] = <<>>
               /\ (callAt[d] = "done" /\ connected) => shown[myId[d]] = Status(d)
    BY <1>4, <1>6, <1>9, <2>2, <2>5 DEF OneByOne
  <2>6. CASE k # keyOf[c]
    <3>1. idQueue'[k] = idQueue[k]
      BY <1>6, <2>6
    <3>2. \A d \in AcpCalls : keyOf[d] = k => d # c
      BY <2>6
    <3>3. ASSUME NEW d \in AcpCalls, keyOf[d] = k
          PROVE  /\ callAt'[d] # "denied"
                 /\ callAt'[d] = "wait" => askedFor'[d] = myId'[d]
                 /\ TakenOff(d)' => askedFor'[d] = myId'[d]
                 /\ (Taken(d)' /\ ~TakenOff(d)') => idQueue'[k] = <<myId'[d]>>
                 /\ callAt'[d] = "tell" => idQueue'[k] = <<>>
                 /\ (callAt'[d] = "done" /\ connected') => shown'[myId'[d]] = Status(d)'
      BY <1>4, <2>4, <2>5, <3>1, <3>2, <3>3
    <3>4. \A d, e \in UnderWay' : keyOf'[d] = k /\ keyOf'[e] = k => d = e
      BY <1>4, <2>2, <2>3, <2>6 DEF OneByOne
    <3>5. (\A d \in UnderWay' : keyOf'[d] # k) => idQueue'[k] = <<>>
      BY <1>4, <2>2, <2>3, <3>1 DEF OneByOne
    <3>6. QED BY <1>4, <3>3, <3>4, <3>5 DEF OneByOne
  <2>7. CASE k = keyOf[c]
    <3>1. \A d \in UnderWay : keyOf[d] # k
      BY <1>4, <2>1, <2>7
    <3>2. QueueOf(c) = <<>>
      BY <1>5, <2>2, <2>7, <3>1 DEF OneByOne
    <3>3. idQueue'[k] = <<myId'[c]>>
      BY <1>6, <2>7, <3>2
    <3>4. ASSUME NEW d \in AcpCalls, keyOf[d] = k
          PROVE  /\ callAt'[d] # "denied"
                 /\ callAt'[d] = "wait" => askedFor'[d] = myId'[d]
                 /\ TakenOff(d)' => askedFor'[d] = myId'[d]
                 /\ (Taken(d)' /\ ~TakenOff(d)') => idQueue'[k] = <<myId'[d]>>
                 /\ callAt'[d] = "tell" => idQueue'[k] = <<>>
                 /\ (callAt'[d] = "done" /\ connected') => shown'[myId'[d]] = Status(d)'
      <4>1. CASE d = c
        BY <1>6, <1>9, <3>3, <4>1
      <4>2. CASE d # c
        <5>1. callAt[d] \in {"idle", "done"}
          BY <2>5, <3>1, <3>4, <4>2 DEF UnderWay
        <5>2. QED BY <1>4, <2>4, <2>5, <3>4, <4>2, <5>1 DEF Taken, TakenOff
      <4>3. QED BY <4>1, <4>2
    <3>5. \A d, e \in UnderWay' : keyOf'[d] = k /\ keyOf'[e] = k => d = e
      BY <1>4, <2>3, <3>1
    <3>6. ~(\A d \in UnderWay' : keyOf'[d] # k)
      BY <1>4, <2>3, <2>7
    <3>7. QED BY <1>4, <3>4, <3>5, <3>6 DEF OneByOne
  <2>8. QED BY <2>6, <2>7
<1>18. AloneFits'
  <2>1. \A d \in AcpCalls : (Alone(d)' <=> Alone(d))
    BY <1>4 DEF Alone
  <2>2. \A d \in AcpCalls : (callAt'[d] \in {"wait", "denied"}) =>
            (d # c /\ callAt'[d] = callAt[d] /\ myId'[d] = myId[d])
    BY <1>6
  <2>3. QED BY <1>1, <1>4, <2>1, <2>2 DEF AloneFits
<1>19. QED
  BY <1>8, <1>11, <1>14, <1>15, <1>16, <1>17, <1>18 DEF AcpCallsInductive

LEMMA TakeOffSound ==
    ASSUME AcpCallsInductive, NEW c \in AcpCalls, TakeOff(c) PROVE AcpCallsInductive'
<1>1. AcpCallsTypeOK /\ IdsGiven /\ QueuesFit /\ AskedFits /\ FinalsFit /\ Unmixed /\ AloneFits
  BY DEF AcpCallsInductive
<1>2. callAt[c] = "after" /\ Taken(c) /\ ~TakenOff(c)
  BY DEF TakeOff, At, Taken, TakenOff
<1>3. PICK id : id = CurrentId(c)
  OBVIOUS
<1>4. /\ QueueOf(c) # <<>> /\ id = Head(QueueOf(c)) /\ id \in ElementsOf(QueueOf(c))
      /\ IdOfKey(id, keyOf[c]) /\ id \in 0..Cardinality(AcpCalls)
      /\ keyOf[c] \notin mixed => (id = myId[c] /\ QueueOf(c) = <<myId[c]>>)
  BY <1>2, <1>3, CurrentIdFits
<1>5. keyOf[c] \in Keys /\ QueueOf(c) \in Seq(Ids) /\ idQueue[keyOf[c]] = QueueOf(c)
  BY <1>1, CallTypes DEF QueueOf
<1>6. /\ askedFor' = [askedFor EXCEPT ![c] = id]
      /\ idQueue' = [idQueue EXCEPT ![keyOf[c]] = Tail(QueueOf(c))]
      /\ callAt' = [callAt EXCEPT ![c] = "tell"]
      /\ UNCHANGED <<keyOf, askedIn, myId, okay, nextSeq, shown, connected, refusals, finals, mixed>>
  BY <1>3, <1>4, <1>5 DEF TakeOff, Moves, QueueAfter, shownVars, acpHistory
<1>7. AllDistinct(QueueOf(c))
  BY <1>1, <1>5 DEF QueuesFit, QueueIdsFit
<1>8. /\ Tail(QueueOf(c)) \in Seq(Ids) /\ AllDistinct(Tail(QueueOf(c)))
      /\ ElementsOf(Tail(QueueOf(c))) = ElementsOf(QueueOf(c)) \ {id}
  BY <1>4, <1>5, <1>7, TailElements
<1>9. AcpCallsTypeOK'
  <2>1. idQueue' \in [Keys -> Seq(Ids)]
    BY <1>1, <1>5, <1>6, <1>8 DEF AcpCallsTypeOK
  <2>2. callAt' \in [AcpCalls -> {"idle", "announce", "ask", "progress", "lookup", "wait", "run",
                                  "after", "tell", "done", "denied"}]
    BY <1>1, <1>6 DEF AcpCallsTypeOK
  <2>3. askedFor' \in [AcpCalls -> 0..Cardinality(AcpCalls)]
    BY <1>1, <1>4, <1>6 DEF AcpCallsTypeOK
  <2>4. QED BY <1>1, <1>6, <2>1, <2>2, <2>3 DEF AcpCallsTypeOK
<1>10. /\ idQueue'[keyOf[c]] = Tail(QueueOf(c))
       /\ \A k \in Keys : k # keyOf[c] => idQueue'[k] = idQueue[k]
       /\ callAt'[c] = "tell" /\ askedFor'[c] = id
       /\ \A d \in AcpCalls \ {c} : callAt'[d] = callAt[d] /\ askedFor'[d] = askedFor[d]
  BY <1>1, <1>5, <1>6 DEF AcpCallsTypeOK
<1>11. /\ \A d \in AcpCalls : Taken(d)' <=> Taken(d)
       /\ \A d \in AcpCalls : TakenOff(d)' <=> (TakenOff(d) \/ d = c)
       /\ \A d \in AcpCalls : TakenOff(d) => (d # c /\ askedFor'[d] = askedFor[d])
  BY <1>2, <1>10 DEF Taken, TakenOff
<1>12. \A i, k : IdOfKey(i, k)' <=> IdOfKey(i, k)
  BY <1>6, <1>11 DEF IdOfKey
<1>13. IdsGiven'
  BY <1>1, <1>6, <1>11 DEF IdsGiven
<1>14. \A d \in AcpCalls : ElementsOf(QueueOf(d)') = IF keyOf[d] = keyOf[c]
                  THEN ElementsOf(QueueOf(d)) \ {id} ELSE ElementsOf(QueueOf(d))
  <2>1. SUFFICES ASSUME NEW d \in AcpCalls
                 PROVE  ElementsOf(QueueOf(d)') = IF keyOf[d] = keyOf[c]
                               THEN ElementsOf(QueueOf(d)) \ {id} ELSE ElementsOf(QueueOf(d))
    OBVIOUS
  <2>2. QueueOf(d)' = idQueue'[keyOf[d]] /\ QueueOf(d) = idQueue[keyOf[d]] /\ keyOf[d] \in Keys
    BY <1>1, <1>6, CallTypes DEF QueueOf
  <2>3. CASE keyOf[d] = keyOf[c]
    BY <1>5, <1>8, <1>10, <2>2, <2>3
  <2>4. CASE keyOf[d] # keyOf[c]
    BY <1>10, <2>2, <2>4
  <2>5. QED BY <2>3, <2>4
<1>15. QueuesFit'
  <2>1. QueueIdsFit'
    <3>1. SUFFICES ASSUME NEW k \in Keys
                   PROVE  AllDistinct(idQueue'[k]) /\ \A i \in ElementsOf(idQueue'[k]) : IdOfKey(i, k)'
      BY DEF QueueIdsFit
    <3>2. AllDistinct(idQueue[k]) /\ \A i \in ElementsOf(idQueue[k]) : IdOfKey(i, k)
      BY <1>1 DEF QueuesFit, QueueIdsFit
    <3>3. CASE k = keyOf[c]
      <4>1. idQueue'[k] = Tail(QueueOf(c)) /\ idQueue[k] = QueueOf(c)
        BY <1>5, <1>10, <3>3
      <4>2. ASSUME NEW i \in ElementsOf(idQueue'[k]) PROVE IdOfKey(i, k)'
        BY <1>8, <1>12, <3>2, <4>1, <4>2
      <4>3. QED BY <1>8, <4>1, <4>2
    <3>4. CASE k # keyOf[c]
      BY <1>10, <1>12, <3>2, <3>4
    <3>5. QED BY <3>3, <3>4
  <2>2. TakenOffFit'
    <3>1. SUFFICES ASSUME NEW d \in AcpCalls, TakenOff(d)'
                   PROVE  IdOfKey(askedFor[d], keyOf[d])' /\ askedFor'[d] \notin ElementsOf(QueueOf(d)')
      BY DEF TakenOffFit
    <3>2. IdOfKey(askedFor'[d], keyOf[d]) /\ askedFor'[d] \notin ElementsOf(QueueOf(d)')
      <4>1. CASE d = c
        BY <1>4, <1>10, <1>14, <4>1
      <4>2. CASE d # c
        BY <1>1, <1>11, <1>14, <3>1, <4>2 DEF QueuesFit, TakenOffFit
      <4>3. QED BY <4>1, <4>2
    <3>3. IdOfKey(askedFor[d], keyOf[d])'
      BY <1>6, <1>11, <3>2 DEF IdOfKey
    <3>4. QED BY <3>2, <3>3
  <2>3. TakenOffOnce'
    <3>1. ASSUME NEW e \in AcpCalls, TakenOff(e), askedFor[e] = id PROVE FALSE
      <4>1. IdOfKey(id, keyOf[e]) /\ id \notin ElementsOf(QueueOf(e))
        BY <1>1, <3>1 DEF QueuesFit, TakenOffFit
      <4>2. keyOf[e] = keyOf[c]
        <5>1. PICK d \in AcpCalls : Taken(d) /\ keyOf[d] = keyOf[e] /\ myId[d] = id
          BY <4>1 DEF IdOfKey
        <5>2. QED BY <1>1, <1>4, <5>1, IdOfKeyFacts
      <4>3. QED BY <1>4, <4>1, <4>2 DEF QueueOf
    <3>2. QED BY <1>1, <1>10, <1>11, <3>1 DEF QueuesFit, TakenOffOnce
  <2>4. NoIdLost'
    <3>1. SUFFICES ASSUME NEW d \in AcpCalls, Taken(d)'
                   PROVE  \/ myId'[d] \in ElementsOf(QueueOf(d)')
                          \/ \E e \in AcpCalls : TakenOff(e)' /\ keyOf'[e] = keyOf'[d] /\ askedFor'[e] = myId'[d]
      BY DEF NoIdLost
    <3>2. CASE myId[d] \in ElementsOf(QueueOf(d))
      <4>1. CASE keyOf[d] = keyOf[c] /\ myId[d] = id
        BY <1>6, <1>10, <1>11, <4>1
      <4>2. CASE ~(keyOf[d] = keyOf[c] /\ myId[d] = id)
        BY <1>6, <1>14, <3>2, <4>2
      <4>3. QED BY <4>1, <4>2
    <3>3. CASE \E e \in AcpCalls : TakenOff(e) /\ keyOf[e] = keyOf[d] /\ askedFor[e] = myId[d]
      BY <1>6, <1>11, <3>3
    <3>4. QED BY <1>1, <1>11, <3>1, <3>2, <3>3 DEF QueuesFit, NoIdLost
  <2>5. QED BY <2>1, <2>2, <2>3, <2>4 DEF QueuesFit
<1>16. AskedFits'
  <2>1. SUFFICES ASSUME NEW d \in AcpCalls, callAt'[d] = "wait"
                 PROVE  askedFor'[d] = 0 \/ IdOfKey(askedFor[d], keyOf[d])'
    BY DEF AskedFits
  <2>2. callAt[d] = "wait" /\ askedFor'[d] = askedFor[d]
    BY <1>10, <2>1
  <2>3. askedFor[d] = 0 \/ IdOfKey(askedFor[d], keyOf[d])
    BY <1>1, <2>2 DEF AskedFits
  <2>4. IdOfKey(askedFor[d], keyOf[d]) => IdOfKey(askedFor[d], keyOf[d])'
    BY <1>6, <1>11, <2>2 DEF IdOfKey
  <2>5. QED BY <2>2, <2>3, <2>4
<1>17. FinalsFit'
  <2>1. \A e \in AcpCalls : callAt'[e] = "done" <=> callAt[e] = "done"
    BY <1>2, <1>10
  <2>2. \A e \in AcpCalls : callAt[e] = "done" => askedFor'[e] = askedFor[e]
    BY <1>2, <1>10
  <2>3. \A e \in AcpCalls : callAt'[e] = "denied" <=> callAt[e] = "denied"
    BY <1>2, <1>10
  <2>4. Ids' = Ids
    BY DEF Ids
  <2>5. \A i : (\E e \in AcpCalls : callAt'[e] = "done" /\ askedFor'[e] = i)
              <=> (\E e \in AcpCalls : callAt[e] = "done" /\ askedFor[e] = i)
    BY <2>1, <2>2
  <2>6. ASSUME connected, NEW d \in AcpCalls, Taken(d),
               \A e \in AcpCalls : keyOf[e] = keyOf[d] => callAt'[e] # "denied"
        PROVE  finals[myId[d]] = IF \E e \in AcpCalls : callAt'[e] = "done" /\ askedFor'[e] = myId[d]
                                 THEN 1 ELSE 0
    BY <1>1, <2>3, <2>5, <2>6 DEF FinalsFit
  <2>7. \A i \in Ids : i > nextSeq => finals[i] = 0
    BY <1>1 DEF FinalsFit
  <2>8. QED BY <1>6, <1>11, <2>4, <2>6, <2>7 DEF FinalsFit
<1>18. Unmixed'
  <2>1. SUFFICES ASSUME NEW k \in Keys, k \notin mixed PROVE OneByOne(k)'
    BY <1>6 DEF Unmixed
  <2>2. OneByOne(k)
    BY <1>1, <2>1 DEF Unmixed
  <2>3. UnderWay' = UnderWay /\ c \in UnderWay
    BY <1>2, <1>10 DEF UnderWay
  <2>4. \A d \in AcpCalls : Status(d)' = Status(d)
    BY <1>6 DEF Status
  <2>5. CASE k # keyOf[c]
    <3>1. idQueue'[k] = idQueue[k]
      BY <1>10, <2>5
    <3>2. \A d \in AcpCalls : keyOf[d] = k =>
              (callAt'[d] = callAt[d] /\ askedFor'[d] = askedFor[d]
               /\ (Taken(d)' <=> Taken(d)) /\ (TakenOff(d)' <=> TakenOff(d)))
      BY <1>10, <1>11, <2>5
    <3>3. ASSUME NEW d \in AcpCalls, keyOf[d] = k
          PROVE  /\ callAt'[d] # "denied"
                 /\ callAt'[d] = "wait" => askedFor'[d] = myId[d]
                 /\ TakenOff(d)' => askedFor'[d] = myId[d]
                 /\ (Taken(d)' /\ ~TakenOff(d)') => idQueue'[k] = <<myId[d]>>
                 /\ callAt'[d] = "tell" => idQueue'[k] = <<>>
                 /\ (callAt'[d] = "done" /\ connected) => shown[myId[d]] = Status(d)
      BY <2>2, <3>1, <3>2, <3>3 DEF OneByOne
    <3>4. \A d, e \in UnderWay' : keyOf'[d] = k /\ keyOf'[e] = k => d = e
      BY <1>6, <2>2, <2>3 DEF OneByOne
    <3>5. (\A d \in UnderWay' : keyOf'[d] # k) => idQueue'[k] = <<>>
      BY <1>6, <2>2, <2>3, <3>1 DEF OneByOne
    <3>6. QED BY <1>6, <2>4, <3>3, <3>4, <3>5 DEF OneByOne
  <2>6. CASE k = keyOf[c]
    <3>1. id = myId[c] /\ QueueOf(c) = <<myId[c]>>
      BY <1>4, <2>1, <2>6
    <3>2. idQueue'[k] = <<>>
      BY <1>10, <2>6, <3>1
    <3>3. ASSUME NEW d \in AcpCalls, keyOf[d] = k
          PROVE  /\ callAt'[d] # "denied"
                 /\ callAt'[d] = "wait" => askedFor'[d] = myId[d]
                 /\ TakenOff(d)' => askedFor'[d] = myId[d]
                 /\ (Taken(d)' /\ ~TakenOff(d)') => idQueue'[k] = <<myId[d]>>
                 /\ callAt'[d] = "tell" => idQueue'[k] = <<>>
                 /\ (callAt'[d] = "done" /\ connected) => shown[myId[d]] = Status(d)
      <4>1. CASE d = c
        BY <1>10, <1>11, <3>1, <3>2, <4>1
      <4>2. CASE d # c
        <5>1. d \notin UnderWay
          BY <2>2, <2>3, <2>6, <3>3, <4>2 DEF OneByOne
        <5>2. callAt[d] \in {"idle", "done"}
          BY <2>2, <3>3, <5>1 DEF OneByOne, UnderWay
        <5>3. callAt'[d] = callAt[d] /\ askedFor'[d] = askedFor[d]
              /\ (Taken(d)' <=> Taken(d)) /\ (TakenOff(d)' <=> TakenOff(d))
          BY <1>10, <1>11, <4>2
        <5>4. QED BY <2>2, <3>3, <5>2, <5>3 DEF OneByOne, Taken, TakenOff
      <4>3. QED BY <4>1, <4>2
    <3>4. \A d, e \in UnderWay' : keyOf'[d] = k /\ keyOf'[e] = k => d = e
      BY <1>6, <2>2, <2>3 DEF OneByOne
    <3>5. QED BY <1>6, <2>4, <3>2, <3>3, <3>4 DEF OneByOne
  <2>7. QED BY <2>5, <2>6
<1>19. AloneFits'
  <2>1. \A d \in AcpCalls : (Alone(d)' <=> Alone(d))
    BY <1>6 DEF Alone
  <2>2. \A d \in AcpCalls : (callAt'[d] \in {"wait", "denied"}) =>
            (callAt'[d] = callAt[d] /\ askedFor'[d] = askedFor[d])
    BY <1>10
  <2>3. QED BY <1>1, <1>6, <2>1, <2>2 DEF AloneFits
<1>20. QED
  BY <1>9, <1>13, <1>15, <1>16, <1>17, <1>18, <1>19 DEF AcpCallsInductive

LEMMA TellOutcomeSound ==
    ASSUME AcpCallsInductive, NEW c \in AcpCalls, TellOutcome(c) PROVE AcpCallsInductive'
<1>1. AcpCallsTypeOK /\ IdsGiven /\ QueuesFit /\ AskedFits /\ FinalsFit /\ Unmixed /\ AloneFits
  BY DEF AcpCallsInductive
<1>2. callAt[c] = "tell" /\ Taken(c) /\ TakenOff(c)
  BY DEF TellOutcome, At, Taken, TakenOff
<1>3. PICK id : id = askedFor[c]
  OBVIOUS
<1>4. IdOfKey(id, keyOf[c])
  BY <1>1, <1>2, <1>3 DEF QueuesFit, TakenOffFit
<1>5. id \in Ids /\ id # 0 /\ id <= nextSeq /\ id \in Nat
  BY <1>1, <1>4, IdOfKeyFacts, CallTypes
<1>6. /\ IF connected THEN shown' = [shown EXCEPT ![id] = Status(c)]
                           /\ finals' = [finals EXCEPT ![id] = @ + 1]
                      ELSE shown' = shown /\ finals' = finals
      /\ callAt' = [callAt EXCEPT ![c] = "done"]
      /\ UNCHANGED <<keyOf, askedIn, myId, askedFor, okay, idQueue, nextSeq, connected, refusals, mixed>>
  BY <1>3, <1>5 DEF TellOutcome, TellsFinal, Moves, FinalStatus, Status
<1>7. AcpCallsTypeOK'
  <2>1. shown' \in [Ids -> Shown]
    BY <1>1, <1>6 DEF AcpCallsTypeOK, Status, Shown
  <2>2. finals' \in [Ids -> Nat]
    <3>1. finals \in [Ids -> Nat]
      BY <1>1 DEF AcpCallsTypeOK
    <3>2. QED BY <1>5, <1>6, <3>1
  <2>3. callAt' \in [AcpCalls -> {"idle", "announce", "ask", "progress", "lookup", "wait", "run",
                                  "after", "tell", "done", "denied"}]
    BY <1>1, <1>6 DEF AcpCallsTypeOK
  <2>4. QED BY <1>1, <1>6, <2>1, <2>2, <2>3 DEF AcpCallsTypeOK
<1>8. callAt'[c] = "done" /\ \A d \in AcpCalls \ {c} : callAt'[d] = callAt[d]
  BY <1>1, <1>6 DEF AcpCallsTypeOK
<1>9. \A d \in AcpCalls : /\ (Taken(d)' <=> Taken(d)) /\ (TakenOff(d)' <=> TakenOff(d))
                          /\ QueueOf(d)' = QueueOf(d) /\ Status(d)' = Status(d)
  BY <1>2, <1>6, <1>8 DEF Taken, TakenOff, QueueOf, Status
<1>10. \A i, k : IdOfKey(i, k)' <=> IdOfKey(i, k)
  BY <1>6, <1>9 DEF IdOfKey
<1>11. IdsGiven'
  BY <1>1, <1>6, <1>9 DEF IdsGiven
<1>12. QueuesFit'
  <2>1. QueueIdsFit'
    BY <1>1, <1>6, <1>10 DEF QueuesFit, QueueIdsFit
  <2>2. TakenOffFit'
    <3>1. SUFFICES ASSUME NEW d \in AcpCalls, TakenOff(d)'
                   PROVE  IdOfKey(askedFor[d], keyOf[d])' /\ askedFor'[d] \notin ElementsOf(QueueOf(d)')
      BY DEF TakenOffFit
    <3>2. IdOfKey(askedFor[d], keyOf[d]) /\ askedFor[d] \notin ElementsOf(QueueOf(d))
      BY <1>1, <1>9, <3>1 DEF QueuesFit, TakenOffFit
    <3>3. IdOfKey(askedFor[d], keyOf[d])'
      BY <1>6, <1>9, <3>2 DEF IdOfKey
    <3>4. QED BY <1>6, <1>9, <3>2, <3>3
  <2>3. TakenOffOnce'
    BY <1>1, <1>6, <1>9 DEF QueuesFit, TakenOffOnce
  <2>4. NoIdLost'
    BY <1>1, <1>6, <1>9 DEF QueuesFit, NoIdLost
  <2>5. QED BY <2>1, <2>2, <2>3, <2>4 DEF QueuesFit
<1>13. AskedFits'
  <2>1. SUFFICES ASSUME NEW d \in AcpCalls, callAt'[d] = "wait"
                 PROVE  askedFor'[d] = 0 \/ IdOfKey(askedFor[d], keyOf[d])'
    BY DEF AskedFits
  <2>2. askedFor[d] = 0 \/ IdOfKey(askedFor[d], keyOf[d])
    BY <1>1, <1>8, <2>1 DEF AskedFits
  <2>3. IdOfKey(askedFor[d], keyOf[d]) => IdOfKey(askedFor[d], keyOf[d])'
    BY <1>6, <1>9 DEF IdOfKey
  <2>4. QED BY <1>6, <2>2, <2>3
<1>14. FinalsFit'
  <2>1. ASSUME NEW i \in Ids, i > nextSeq PROVE finals'[i] = 0
    <3>1. finals[i] = 0 /\ i # id
      BY <1>1, <1>5, <2>1, CallTypes DEF FinalsFit
    <3>2. finals \in [Ids -> Nat]
      BY <1>1 DEF AcpCallsTypeOK
    <3>3. QED BY <1>6, <3>1, <3>2
  <2>2. ASSUME connected, NEW d \in AcpCalls, Taken(d),
               \A e \in AcpCalls : keyOf[e] = keyOf[d] => callAt'[e] # "denied"
        PROVE  finals'[myId[d]] = IF \E e \in AcpCalls : callAt'[e] = "done" /\ askedFor[e] = myId[d]
                                  THEN 1 ELSE 0
    <3>1. \A e \in AcpCalls : keyOf[e] = keyOf[d] => callAt[e] # "denied"
      BY <1>2, <1>8, <2>2
    <3>2. finals[myId[d]] = IF \E e \in AcpCalls : callAt[e] = "done" /\ askedFor[e] = myId[d]
                            THEN 1 ELSE 0
      BY <1>1, <2>2, <3>1 DEF FinalsFit
    <3>3. myId[d] \in Ids /\ finals \in [Ids -> Nat] /\ finals' = [finals EXCEPT ![id] = @ + 1]
      BY <1>1, <1>6, <2>2, CallTypes DEF AcpCallsTypeOK, IdsGiven
    <3>4. CASE myId[d] = id
      <4>1. \A e \in AcpCalls : callAt[e] = "done" => askedFor[e] # id
        BY <1>1, <1>2, <1>3 DEF QueuesFit, TakenOffOnce, TakenOff
      <4>2. finals[id] = 0
        BY <3>2, <3>4, <4>1
      <4>3. finals'[id] = 1
        BY <3>3, <3>4, <4>2
      <4>4. QED BY <1>3, <1>8, <3>4, <4>3
    <3>5. CASE myId[d] # id
      <4>1. finals'[myId[d]] = finals[myId[d]]
        BY <3>3, <3>5
      <4>2. \A e \in AcpCalls : (callAt'[e] = "done" /\ askedFor[e] = myId[d])
                              <=> (callAt[e] = "done" /\ askedFor[e] = myId[d])
        BY <1>2, <1>3, <1>8, <3>5
      <4>3. QED BY <3>2, <4>1, <4>2
    <3>6. QED BY <3>4, <3>5
  <2>3. Ids' = Ids
    BY DEF Ids
  <2>4. QED BY <1>6, <1>9, <2>1, <2>2, <2>3 DEF FinalsFit
<1>15. \A d \in AcpCalls : (Taken(d) /\ myId[d] # id) => shown'[myId[d]] = shown[myId[d]]
  <2>1. \A d \in AcpCalls : Taken(d) => myId[d] \in Ids
    BY <1>1, CallTypes DEF IdsGiven
  <2>2. shown \in [Ids -> Shown]
    BY <1>1 DEF AcpCallsTypeOK
  <2>3. QED BY <1>6, <2>1, <2>2
<1>16. Unmixed'
  <2>1. SUFFICES ASSUME NEW k \in Keys, k \notin mixed PROVE OneByOne(k)'
    BY <1>6 DEF Unmixed
  <2>2. OneByOne(k)
    BY <1>1, <2>1 DEF Unmixed
  <2>3. UnderWay' = UnderWay \ {c} /\ c \in UnderWay
    BY <1>2, <1>8 DEF UnderWay
  <2>4. ASSUME NEW d \in AcpCalls, keyOf[d] = k, callAt'[d] = "done", connected
        PROVE  shown'[myId[d]] = Status(d)
    <3>1. CASE d = c
      <4>1. id = myId[c]
        BY <1>2, <1>3, <2>2, <2>4, <3>1 DEF OneByOne
      <4>2. shown \in [Ids -> Shown] /\ shown' = [shown EXCEPT ![id] = Status(c)]
        BY <1>1, <1>6, <2>4 DEF AcpCallsTypeOK
      <4>3. QED BY <1>5, <3>1, <4>1, <4>2
    <3>2. CASE d # c
      <4>1. callAt[d] = "done" /\ Taken(d)
        BY <1>8, <2>4, <3>2 DEF Taken
      <4>2. shown[myId[d]] = Status(d)
        BY <2>2, <2>4, <4>1 DEF OneByOne
      <4>3. myId[d] # id
        <5>1. SUFFICES ASSUME myId[d] = id PROVE FALSE
          OBVIOUS
        <5>2. keyOf[c] = k
          BY <1>1, <1>4, <2>4, <5>1, IdOfKeyFacts
        <5>3. id = myId[c]
          BY <1>2, <1>3, <2>2, <5>2 DEF OneByOne
        <5>4. QED BY <1>1, <1>2, <3>2, <5>1, <5>3 DEF IdsGiven
      <4>4. QED BY <1>15, <4>1, <4>2, <4>3
    <3>3. QED BY <3>1, <3>2
  <2>5. ASSUME NEW d \in AcpCalls, keyOf[d] = k
        PROVE  /\ callAt'[d] # "denied"
               /\ callAt'[d] = "wait" => askedFor[d] = myId[d]
               /\ TakenOff(d) => askedFor[d] = myId[d]
               /\ (Taken(d) /\ ~TakenOff(d)) => idQueue[k] = <<myId[d]>>
               /\ callAt'[d] = "tell" => idQueue[k] = <<>>
    <3>1. callAt'[d] = callAt[d] \/ callAt'[d] = "done"
      BY <1>8
    <3>2. QED BY <2>2, <2>5, <3>1 DEF OneByOne
  <2>6. (\A d \in UnderWay' : keyOf[d] # k) => idQueue[k] = <<>>
    <3>1. CASE keyOf[c] = k
      BY <1>2, <2>2, <3>1 DEF OneByOne
    <3>2. CASE keyOf[c] # k
      BY <2>2, <2>3, <3>2 DEF OneByOne
    <3>3. QED BY <3>1, <3>2
  <2>7. \A d, e \in UnderWay' : keyOf[d] = k /\ keyOf[e] = k => d = e
    BY <2>2, <2>3 DEF OneByOne
  <2>8. QED BY <1>6, <1>9, <2>4, <2>5, <2>6, <2>7 DEF OneByOne
<1>17. AloneFits'
  <2>1. \A d \in AcpCalls : (Alone(d)' <=> Alone(d))
    BY <1>6 DEF Alone
  <2>2. ASSUME NEW d \in AcpCalls, Alone(d), callAt'[d] \in {"wait", "denied"}
        PROVE  callAt'[d] = callAt[d] /\ shown'[myId[d]] = shown[myId[d]]
    <3>1. d # c /\ callAt'[d] = callAt[d] /\ Taken(d)
      BY <1>8, <2>2 DEF Taken
    <3>2. keyOf[d] # keyOf[c]
      BY <2>2, <3>1 DEF Alone
    <3>3. myId[d] # id
      BY <1>1, <1>4, <3>2, IdOfKeyFacts
    <3>4. QED BY <1>15, <3>1, <3>3
  <2>3. QED BY <1>1, <1>6, <2>1, <2>2 DEF AloneFits
<1>18. QED
  BY <1>7, <1>11, <1>12, <1>13, <1>14, <1>16, <1>17 DEF AcpCallsInductive

-----------------------------------------------------------------------------

LEMMA AcpCallsInitFits == AcpCallsInit => AcpCallsInductive
<1> SUFFICES ASSUME AcpCallsInit PROVE AcpCallsInductive
  OBVIOUS
<1>1. /\ \A c \in AcpCalls : ~Taken(c) /\ ~TakenOff(c) /\ callAt[c] = "idle" /\ myId[c] = 0
      /\ nextSeq = 0 /\ UnderWay = {}
      /\ \A k \in Keys : idQueue[k] = <<>>
      /\ \A i \in Ids : finals[i] = 0
  BY DEF AcpCallsInit, Taken, TakenOff, UnderWay
<1>2. AcpCallsTypeOK
  <2>1. Cardinality(AcpCalls) \in Nat
    BY AcpCallsAssumption, FS_CardinalityType
  <2>2. <<>> \in Seq(Ids)
    OBVIOUS
  <2>3. /\ keyOf \in KeySets /\ askedIn \in Asking /\ idQueue \in [Keys -> Seq(Ids)]
        /\ nextSeq \in 0..Cardinality(AcpCalls)
        /\ myId \in [AcpCalls -> 0..Cardinality(AcpCalls)]
        /\ askedFor \in [AcpCalls -> 0..Cardinality(AcpCalls)]
    BY <2>1, <2>2 DEF AcpCallsInit
  <2>4. /\ callAt \in [AcpCalls -> {"idle", "announce", "ask", "progress", "lookup", "wait", "run",
                                     "after", "tell", "done", "denied"}]
        /\ shown \in [Ids -> Shown] /\ finals \in [Ids -> Nat] /\ mixed \subseteq Keys
        /\ refusals \in 0..MaxRefusals
    BY AcpCallsAssumption DEF AcpCallsInit, Shown
  <2>5. okay \in [AcpCalls -> BOOLEAN] /\ connected \in BOOLEAN
    BY DEF AcpCallsInit
  <2>6. QED BY <2>3, <2>4, <2>5 DEF AcpCallsTypeOK
<1>3. IdsGiven
  BY <1>1 DEF IdsGiven
<1>4. QueuesFit
  <2>1. QueueIdsFit
    BY <1>1 DEF QueueIdsFit, ElementsOf, AllDistinct
  <2>2. TakenOffFit /\ TakenOffOnce /\ NoIdLost
    BY <1>1 DEF TakenOffFit, TakenOffOnce, NoIdLost
  <2>3. QED BY <2>1, <2>2 DEF QueuesFit
<1>5. AskedFits /\ AloneFits
  BY <1>1 DEF AskedFits, AloneFits
<1>6. FinalsFit
  BY <1>1 DEF FinalsFit
<1>7. Unmixed
  BY <1>1 DEF Unmixed, OneByOne
<1>8. QED
  BY <1>2, <1>3, <1>4, <1>5, <1>6, <1>7 DEF AcpCallsInductive

LEMMA FailsLate ==
    AcpCallsTypeOK /\ NotYetFailed /\ [AcpCallsNext]_acpCallVars => NotYetFailed'
<1> SUFFICES ASSUME AcpCallsTypeOK, NotYetFailed, [AcpCallsNext]_acpCallVars,
                    NEW d \in AcpCalls, callAt'[d] \notin {"after", "tell", "done", "denied"}
             PROVE  okay'[d]
  BY DEF NotYetFailed
<1> USE DEF At, Moves
<1>1. CASE ConnectionLost \/ UNCHANGED acpCallVars
  BY <1>1 DEF ConnectionLost, NotYetFailed, acpCallVars, callVars
<1>2. ASSUME NEW c \in AcpCalls,
             TakeId(c) \/ Announce(c) \/ AskInHook(c) \/ HookEnds(c) \/ AskInHandler(c)
             \/ Allowed(c) \/ PermissionFails(c) \/ TakeOff(c) \/ TellOutcome(c)
      PROVE  okay'[d]
  <2>1. okay' = okay
    BY <1>2 DEF TakeId, Announce, AskInHook, HookEnds, AskInHandler, Allowed, PermissionFails, TakeOff,
                TellOutcome
  <2>2. \E to : callAt' = [callAt EXCEPT ![c] = to]
    BY <1>2 DEF TakeId, Announce, AskInHook, HookEnds, AskInHandler, Allowed, PermissionFails, TakeOff,
                TellOutcome, Tells
  <2>3. callAt'[c] \in {"tell", "done", "denied"} \/ callAt[c] \notin {"after", "tell", "done", "denied"}
    BY <1>2 DEF TakeId, Announce, AskInHook, HookEnds, AskInHandler, Allowed, PermissionFails, TakeOff,
                TellOutcome, AcpCallsTypeOK
  <2>4. d = c \/ callAt'[d] = callAt[d]
    BY <2>2 DEF AcpCallsTypeOK
  <2>5. QED BY <2>1, <2>3, <2>4 DEF NotYetFailed
<1>3. ASSUME NEW c \in AcpCalls, Refused(c) \/ \E ok \in BOOLEAN : Executed(c, ok)
      PROVE  okay'[d]
  <2>1. /\ callAt'[c] \in {"after", "denied"}
        /\ d # c => (callAt'[d] = callAt[d] /\ (okay'[d] <=> okay[d]))
    BY <1>3 DEF Refused, Executed, AcpCallsTypeOK
  <2>2. QED BY <2>1 DEF NotYetFailed
<1>4. QED
  BY <1>1, <1>2, <1>3 DEF AcpCallsNext

LEMMA AcpCallsStepInductive ==
    AcpCallsInductive /\ NotYetFailed /\ [AcpCallsNext]_acpCallVars => AcpCallsInductive'
<1> SUFFICES ASSUME AcpCallsInductive, NotYetFailed, [AcpCallsNext]_acpCallVars
             PROVE  AcpCallsInductive'
  OBVIOUS
<1>1. CASE ConnectionLost
  BY <1>1, ConnectionLostSound
<1>2. ASSUME NEW c \in AcpCalls, TakeId(c) PROVE AcpCallsInductive'
  BY <1>2, TakeIdSound
<1>3. ASSUME NEW c \in AcpCalls, Announce(c) PROVE AcpCallsInductive'
  BY <1>3, AnnounceSound
<1>4. ASSUME NEW c \in AcpCalls, AskInHook(c) PROVE AcpCallsInductive'
  BY <1>4, AskInHookSound
<1>5. ASSUME NEW c \in AcpCalls, HookEnds(c) PROVE AcpCallsInductive'
  BY <1>5, HookEndsSound
<1>6. ASSUME NEW c \in AcpCalls, AskInHandler(c) PROVE AcpCallsInductive'
  BY <1>6, AskInHandlerSound
<1>7. ASSUME NEW c \in AcpCalls, Allowed(c) PROVE AcpCallsInductive'
  BY <1>7, AllowedSound
<1>8. ASSUME NEW c \in AcpCalls, Refused(c) PROVE AcpCallsInductive'
  BY <1>8, RefusedSound
<1>9. ASSUME NEW c \in AcpCalls, TakeOff(c) PROVE AcpCallsInductive'
  BY <1>9, TakeOffSound
<1>10. ASSUME NEW c \in AcpCalls, TellOutcome(c) PROVE AcpCallsInductive'
  BY <1>10, TellOutcomeSound
<1>11. ASSUME NEW c \in AcpCalls, NEW ok \in BOOLEAN, Executed(c, ok) PROVE AcpCallsInductive'
  BY <1>11, ExecutedSound
<1>12. ASSUME NEW c \in AcpCalls, PermissionFails(c) PROVE AcpCallsInductive'
  BY <1>12, PermissionFailsSound
<1>13. CASE UNCHANGED acpCallVars
  <2>1. UNCHANGED <<keyOf, askedIn, callAt, myId, askedFor, okay, idQueue, nextSeq, shown, connected,
                    refusals, finals, mixed>>
    BY <1>13 DEF acpCallVars, callVars, shownVars, acpHistory
  <2>2. AcpCallsTypeOK'
    BY <2>1 DEF AcpCallsInductive, AcpCallsTypeOK
  <2>3. IdsGiven' /\ AskedFits' /\ FinalsFit' /\ AloneFits'
    BY <2>1 DEF AcpCallsInductive, IdsGiven, AskedFits, FinalsFit, AloneFits, Alone, Taken, IdOfKey
  <2>4. QueuesFit'
    BY <2>1 DEF AcpCallsInductive, QueuesFit, QueueIdsFit, TakenOffFit, TakenOffOnce, NoIdLost, TakenOff,
                Taken, QueueOf, IdOfKey
  <2>5. Unmixed'
    BY <2>1 DEF AcpCallsInductive, Unmixed, OneByOne, Taken, TakenOff, UnderWay, Status
  <2>6. QED BY <2>2, <2>3, <2>4, <2>5 DEF AcpCallsInductive
<1>14. QED
  BY <1>1, <1>2, <1>3, <1>4, <1>5, <1>6, <1>7, <1>8, <1>9, <1>10, <1>11, <1>12, <1>13 DEF AcpCallsNext

LEMMA AcpCallsInductiveIsEnough == AcpCallsInductive => AcpToolCallsInv
<1> SUFFICES ASSUME AcpCallsInductive PROVE AcpToolCallsInv
  OBVIOUS
<1>1. AcpCallsTypeOK /\ IdsGiven /\ QueuesFit /\ FinalsFit /\ Unmixed /\ AloneFits
  BY DEF AcpCallsInductive
<1>2. OwnStory
  BY <1>1, CallTypes DEF OwnStory, Unmixed, OneByOne
<1>3. EachEndsOnce
  <2>1. SUFFICES ASSUME NEW k \in Keys, connected,
                        \A d \in AcpCalls : keyOf[d] = k /\ callAt[d] # "idle" => callAt[d] = "done",
                        NEW c \in AcpCalls, keyOf[c] = k, callAt[c] # "idle"
                 PROVE  finals[myId[c]] = 1
    BY DEF EachEndsOnce
  <2>2. PICK d \in AcpCalls : Taken(d) /\ keyOf[d] = keyOf[c] /\ askedFor[d] = myId[c]
    BY <1>1, <2>1, AllTakenOff DEF Taken, TakenOff
  <2>3. callAt[d] = "done"
    BY <2>1, <2>2 DEF Taken
  <2>4. \A e \in AcpCalls : keyOf[e] = keyOf[c] => callAt[e] # "denied"
    BY <2>1
  <2>5. QED BY <1>1, <2>1, <2>2, <2>3, <2>4 DEF FinalsFit, Taken
<1>4. RefusedIsShown
  BY <1>1 DEF RefusedIsShown, AloneFits, Alone
<1>5. QED
  BY <1>1, <1>2, <1>3, <1>4 DEF AcpToolCallsInv

\* The client of an ACP prompt reads of each tool call what became of it
\* (AcpToolCallsInv), for every number of calls, every sharing of keys and every
\* interleaving of their hooks (server.go:217, server.go:549-584).
THEOREM AcpToolCallsAreTold == AcpCallsSpec => []AcpToolCallsInv
<1>1. AcpCallsInit => AcpCallsInductive /\ NotYetFailed
  BY AcpCallsInitFits DEF AcpCallsInit, NotYetFailed
<1>2. AcpCallsInductive /\ NotYetFailed /\ [AcpCallsNext]_acpCallVars => (AcpCallsInductive /\ NotYetFailed)'
  BY AcpCallsStepInductive, FailsLate DEF AcpCallsInductive
<1>3. AcpCallsInductive => AcpToolCallsInv
  BY AcpCallsInductiveIsEnough
<1>4. QED
  BY <1>1, <1>2, <1>3, PTL DEF AcpCallsSpec

-----------------------------------------------------------------------------
(* The calls of a streamed reply *)

\* Among some naturals there is a smallest one.
LEMMA LeastOf ==
    ASSUME NEW S \in SUBSET Nat, S # {}
    PROVE  \E m \in S : \A n \in S : m <= n
<1>1. \E m \in S : \A n \in S : ~(<<n, m>> \in OpToRel(<, Nat))
  BY WFMin, NatLessThanWellFounded, Zenon
<1>2. \A m, n \in Nat : <<n, m>> \in OpToRel(<, Nat) <=> n < m
  BY Zenon DEF OpToRel
<1>3. \A m, n \in Nat : ~(n < m) => m <= n
  BY SMT
<1>4. QED
  BY <1>1, <1>2, <1>3, Zenon

\* What holds of 0, and of n + 1 whenever of n, holds of all up to N.
LEMMA UpTo ==
    ASSUME NEW N \in Nat, NEW G, 0 \in G, \A n \in 0..N : n # N /\ n \in G => n + 1 \in G
    PROVE  \A n \in 0..N : n \in G
<1> DEFINE S == {n \in 0..N : n \notin G}
<1>1. SUFFICES ASSUME S # {} PROVE FALSE
  OBVIOUS
<1>2. S \in SUBSET Nat
  BY SMT
<1> HIDE DEF S
<1>3. PICK m \in S : \A n \in S : m <= n
  BY <1>1, <1>2, LeastOf, Zenon
<1>4. m \in 0..N /\ m \notin G
  BY <1>3 DEF S
<1>5. m # 0
  BY <1>4
<1>6. m - 1 \in 0..N /\ m - 1 # N /\ (m - 1) + 1 = m /\ ~(m <= m - 1)
  BY <1>4, <1>5, SMT
<1>7. m - 1 \in G
  BY <1>3, <1>6, Zenon DEF S
<1>8. QED
  BY <1>4, <1>6, <1>7, Zenon

\* g is the calls after each of the first N of the delta.
IsMerging(g, calls, delta, N) ==
    g = [n \in 0..N |-> IF n = 0 THEN calls ELSE MergeCall(g[n - 1], delta[n])]

\* The calls of a delta can be merged one by one.
LEMMA MergingExists ==
    ASSUME NEW N \in Nat, NEW calls, NEW delta
    PROVE  \E g : IsMerging(g, calls, delta, N)
<1> DEFINE G == {n \in 0..N : \E g : IsMerging(g, calls, delta, n)}
<1>1. 0 \in G
  <2> DEFINE g == [n \in 0..0 |-> calls]
  <2>1. IsMerging(g, calls, delta, 0)
    BY DEF IsMerging
  <2>2. QED
    BY <2>1
<1>2. ASSUME NEW n \in 0..N, n # N, n \in G PROVE n + 1 \in G
  <2>1. PICK g : IsMerging(g, calls, delta, n)
    BY <1>2
  <2> DEFINE h == [m \in 0..(n + 1) |-> IF m = n + 1 THEN MergeCall(g[n], delta[n + 1]) ELSE g[m]]
  <2>2. n \in Nat /\ n + 1 \in 0..N /\ n + 1 # 0 /\ (n + 1) - 1 = n /\ n \in 0..(n + 1) /\ n # n + 1
    BY <1>2, SMT
  <2>3. ASSUME NEW m \in 0..(n + 1)
        PROVE  h[m] = IF m = 0 THEN calls ELSE MergeCall(h[m - 1], delta[m])
    <3>1. CASE m = n + 1
      BY <2>2, <3>1
    <3>2. CASE m # n + 1
      <4>1. m \in 0..n /\ (m # 0 => m - 1 \in 0..(n + 1) /\ m - 1 # n + 1)
        BY <2>2, <2>3, <3>2, SMT
      <4>2. g[m] = IF m = 0 THEN calls ELSE MergeCall(g[m - 1], delta[m])
        BY <2>1, <4>1 DEF IsMerging
      <4>3. h[m] = g[m] /\ (m # 0 => h[m - 1] = g[m - 1])
        BY <3>2, <4>1
      <4>4. QED
        BY <4>2, <4>3
    <3>3. QED
      BY <3>1, <3>2
  <2>4. IsMerging(h, calls, delta, n + 1)
    BY <2>3, Zenon DEF IsMerging
  <2>5. QED
    BY <2>2, <2>4
<1> HIDE DEF G
<1>3. \A n \in 0..N : n \in G
  BY <1>1, <1>2, UpTo, Zenon
<1>4. N \in 0..N
  BY SMT
<1>5. QED
  BY <1>3, <1>4 DEF G

\* MergeCalls takes the calls of the delta in, one after another.
LEMMA MergeCallsIs ==
    ASSUME NEW calls, NEW delta, Len(delta) \in Nat
    PROVE  \E g : IsMerging(g, calls, delta, Len(delta)) /\ MergeCalls(calls, delta) = g[Len(delta)]
<1> DEFINE h == CHOOSE g : g = [n \in 0..Len(delta) |-> IF n = 0 THEN calls ELSE MergeCall(g[n - 1], delta[n])]
<1>1. \E g : g = [n \in 0..Len(delta) |-> IF n = 0 THEN calls ELSE MergeCall(g[n - 1], delta[n])]
  <2>1. \E g : IsMerging(g, calls, delta, Len(delta))
    BY MergingExists, Zenon
  <2>2. QED
    BY <2>1, Zenon DEF IsMerging
<1>2. h = [n \in 0..Len(delta) |-> IF n = 0 THEN calls ELSE MergeCall(h[n - 1], delta[n])]
  BY <1>1, Zenon
<1>3. MergeCalls(calls, delta) = h[Len(delta)]
  BY DEF MergeCalls
<1>4. QED
  BY <1>2, <1>3, Zenon DEF IsMerging

LEMMA FunctionIsSequence ==
    ASSUME NEW S, NEW n \in Nat, NEW f \in [1..n -> S]
    PROVE  f \in Seq(S)
  OBVIOUS

\* What is kept at each call of the delta is kept by them all: G tells, for each
\* n, what holds after the first n.
LEMMA MergeThrough ==
    ASSUME NEW calls, NEW delta, NEW N \in Nat, N = Len(delta), NEW G, calls \in G[0],
           \A n \in 0..N : n # N => \A s \in G[n] : MergeCall(s, delta[n + 1]) \in G[n + 1]
    PROVE  MergeCalls(calls, delta) \in G[N]
<1>1. PICK g : IsMerging(g, calls, delta, N) /\ MergeCalls(calls, delta) = g[N]
  BY MergeCallsIs
<1>2. \A n \in 0..N : g[n] = IF n = 0 THEN calls ELSE MergeCall(g[n - 1], delta[n])
  BY <1>1, Zenon DEF IsMerging
<1> DEFINE H == {n \in 0..N : g[n] \in G[n]}
<1>3. 0 \in H
  BY <1>2, SMT
<1>4. ASSUME NEW n \in 0..N, n # N, n \in H PROVE n + 1 \in H
  <2>1. n + 1 \in 0..N /\ n + 1 # 0 /\ (n + 1) - 1 = n
    BY <1>4, SMT
  <2>2. g[n + 1] = MergeCall(g[n], delta[n + 1])
    BY <1>2, <2>1
  <2>3. QED
    BY <1>4, <2>1, <2>2
<1> HIDE DEF H
<1>5. \A n \in 0..N : n \in H
  BY <1>3, <1>4, UpTo, Zenon
<1>6. N \in 0..N
  BY SMT
<1>7. N \in H
  BY <1>5, <1>6
<1>8. QED
  BY <1>1, <1>7 DEF H

-----------------------------------------------------------------------------
(* What merging keeps *)

KeyOf(e)      == <<e.attempt, e.call>>
KeysIn(s)     == {KeyOf(s[i]) : i \in DOMAIN s}
Named(s)      == {KeyOf(s[i]) : i \in {n \in DOMAIN s : s[n].name # "nameless"}}
NamedApart(s) ==
    \A i, j \in DOMAIN s : s[i].name # "nameless" /\ s[j].name # "nameless" /\ KeyOf(s[i]) = KeyOf(s[j]) => i = j

CallsIn(s)  == {s[i].call : i \in DOMAIN s}
OnceEach(s) == \A i, j \in DOMAIN s : s[i].call = s[j].call => i = j

LEMMA CallsAreTyped ==
    ASSUME NEW S, NEW s \in Seq(S)
    PROVE  Len(s) \in Nat /\ DOMAIN s = 1..Len(s) /\ \A i \in DOMAIN s : s[i] \in S
  OBVIOUS

\* m is s after a call that is like c took its arguments.
TookArguments(s, c, m) ==
    \E i \in DOMAIN s : SameCall(s[i], c) /\ m = [s EXCEPT ![i].args = @ \cup c.args]

\* A call that is alike takes the arguments, or the new one comes last.
LEMMA MergeIs ==
    ASSUME NEW s \in Seq(CollectedCall), NEW c \in CollectedCall
    PROVE  \/ /\ \A i \in DOMAIN s : ~SameCall(s[i], c)
              /\ MergeCall(s, c) = Append(s, c)
           \/ TookArguments(s, c, MergeCall(s, c))
<1>1. CASE Alike(s, c) = {}
  BY <1>1, Zenon DEF MergeCall, Alike
<1>2. CASE Alike(s, c) # {}
  <2>1. DOMAIN s \subseteq Nat
    BY SMT
  <2>2. Alike(s, c) \in SUBSET Nat
    BY <2>1 DEF Alike
  <2>3. \E i \in Alike(s, c) : \A m \in Alike(s, c) : i <= m
    BY <1>2, <2>2, LeastOf, Zenon
  <2> DEFINE i == CHOOSE n \in Alike(s, c) : \A m \in Alike(s, c) : n <= m
  <2>4. i \in Alike(s, c)
    BY <2>3, Zenon
  <2>5. MergeCall(s, c) = [s EXCEPT ![i].args = @ \cup c.args]
    BY <1>2, Zenon DEF MergeCall
  <2>6. i \in DOMAIN s /\ SameCall(s[i], c)
    BY <2>4, Zenon DEF Alike
  <2> HIDE DEF i
  <2>7. QED
    BY <2>5, <2>6, Zenon DEF TookArguments
<1>3. QED
  BY <1>1, <1>2

LEMMA TakesArguments ==
    ASSUME NEW s \in Seq(CollectedCall), NEW c \in CollectedCall,
           NEW m, TookArguments(s, c, m)
    PROVE  /\ m \in Seq(CollectedCall) /\ DOMAIN m = DOMAIN s
           /\ \A j \in DOMAIN s : KeyOf(m[j]) = KeyOf(s[j]) /\ m[j].name = s[j].name
<1>0. PICK i \in DOMAIN s : m = [s EXCEPT ![i].args = @ \cup c.args]
  BY DEF TookArguments
<1>1. Len(s) \in Nat /\ DOMAIN s = 1..Len(s) /\ \A j \in DOMAIN s : s[j] \in CollectedCall
  BY CallsAreTyped
<1> DEFINE w == [s[i] EXCEPT !.args = @ \cup c.args]
<1>2. /\ w \in CollectedCall
      /\ w.attempt = s[i].attempt /\ w.call = s[i].call /\ w.name = s[i].name
  BY <1>1 DEF CollectedCall
<1>3. m = [j \in DOMAIN s |-> IF j = i THEN w ELSE s[j]]
  BY <1>0, <1>1
<1> HIDE DEF w
<1>4. DOMAIN m = DOMAIN s /\ \A j \in DOMAIN s : m[j] = IF j = i THEN w ELSE s[j]
  BY <1>3
<1>5. m \in Seq(CollectedCall)
  <2>1. m \in [1..Len(s) -> CollectedCall]
    BY <1>1, <1>2, <1>3
  <2>2. QED
    BY <1>1, <2>1, FunctionIsSequence, Zenon
<1>6. QED
  BY <1>2, <1>4, <1>5 DEF KeyOf

\* No name comes twice if none of the new ones was there.
LEMMA MergeNames ==
    ASSUME NEW s \in Seq(CollectedCall), NamedApart(s), NEW c \in CollectedCall,
           c.name # "nameless" => KeyOf(c) \notin Named(s)
    PROVE  /\ MergeCall(s, c) \in Seq(CollectedCall) /\ NamedApart(MergeCall(s, c))
           /\ Named(MergeCall(s, c)) \subseteq Named(s) \cup (IF c.name # "nameless" THEN {KeyOf(c)} ELSE {})
           /\ KeysIn(MergeCall(s, c)) \subseteq KeysIn(s) \cup {KeyOf(c)}
<1>1. PICK m : m = MergeCall(s, c)
  OBVIOUS
<1>2. CASE m = Append(s, c)
  <2>1. /\ m \in Seq(CollectedCall) /\ DOMAIN m = DOMAIN s \cup {Len(s) + 1}
        /\ Len(s) + 1 \notin DOMAIN s /\ m[Len(s) + 1] = c /\ \A i \in DOMAIN s : m[i] = s[i]
    BY <1>2
  <2>2. NamedApart(m)
    <3>1. \A i \in DOMAIN s : s[i].name # "nameless" => KeyOf(s[i]) \in Named(s)
      BY Zenon DEF Named
    <3>2. QED
      BY <2>1, <3>1 DEF NamedApart
  <2>3. Named(m) \subseteq Named(s) \cup (IF c.name # "nameless" THEN {KeyOf(c)} ELSE {})
    BY <2>1 DEF Named
  <2>4. KeysIn(m) \subseteq KeysIn(s) \cup {KeyOf(c)}
    BY <2>1 DEF KeysIn
  <2>5. QED
    BY <1>1, <2>1, <2>2, <2>3, <2>4
<1>3. CASE TookArguments(s, c, m)
  <2>1. /\ m \in Seq(CollectedCall) /\ DOMAIN m = DOMAIN s
        /\ \A j \in DOMAIN s : KeyOf(m[j]) = KeyOf(s[j]) /\ m[j].name = s[j].name
    BY <1>3, TakesArguments
  <2>2. NamedApart(m)
    BY <2>1 DEF NamedApart
  <2>3. Named(m) = Named(s) /\ KeysIn(m) = KeysIn(s)
    BY <2>1 DEF Named, KeysIn
  <2>4. QED
    BY <1>1, <2>1, <2>2, <2>3
<1>4. QED
  BY <1>1, <1>2, <1>3, MergeIs

\* A delta merged into what was collected.
LEMMA MergeCallsNames ==
    ASSUME NEW s \in Seq(CollectedCall), NamedApart(s),
           NEW delta \in Seq(CollectedCall), NamedApart(delta), Named(s) \cap Named(delta) = {}
    PROVE  /\ MergeCalls(s, delta) \in Seq(CollectedCall) /\ NamedApart(MergeCalls(s, delta))
           /\ Named(MergeCalls(s, delta)) \subseteq Named(s) \cup Named(delta)
           /\ KeysIn(MergeCalls(s, delta)) \subseteq KeysIn(s) \cup KeysIn(delta)
<1>1. PICK N \in Nat : N = Len(delta) /\ DOMAIN delta = 1..N
  OBVIOUS
<1> DEFINE First(n) == {KeyOf(delta[i]) : i \in {m \in 1..n : delta[m].name # "nameless"}}
           Fits(n, t) == /\ t \in Seq(CollectedCall) /\ NamedApart(t)
                         /\ Named(t) \subseteq Named(s) \cup First(n)
                         /\ KeysIn(t) \subseteq KeysIn(s) \cup KeysIn(delta)
           G == [n \in 0..N |-> {t \in Seq(CollectedCall) : Fits(n, t)}]
<1>2. s \in G[0]
  <2>1. 0 \in 0..N
    BY SMT
  <2>2. Fits(0, s)
    OBVIOUS
  <2>3. QED
    BY <2>1, <2>2
<1>3. ASSUME NEW n \in 0..N, n # N, NEW t \in G[n] PROVE MergeCall(t, delta[n + 1]) \in G[n + 1]
  <2>1. n + 1 \in 0..N /\ n + 1 \in 1..N /\ 1..(n + 1) = 1..n \cup {n + 1} /\ 1..n \subseteq 1..N
        /\ n + 1 \notin 1..n
    BY <1>3, SMT
  <2>2. Fits(n, t)
    BY <1>3
  <2>3. PICK c \in CollectedCall : c = delta[n + 1]
    BY <1>1, <2>1
  <2>4. KeyOf(c) \in KeysIn(delta) /\ (c.name # "nameless" => KeyOf(c) \in Named(delta))
    BY <1>1, <2>1, <2>3 DEF KeysIn, Named
  <2>5. c.name # "nameless" => KeyOf(c) \notin First(n)
    BY <1>1, <2>1, <2>3 DEF NamedApart
  <2>6. First(n + 1) = First(n) \cup (IF c.name # "nameless" THEN {KeyOf(c)} ELSE {})
    BY <2>1, <2>3
  <2> HIDE DEF First
  <2>7. c.name # "nameless" => KeyOf(c) \notin Named(t)
    BY <2>2, <2>4, <2>5
  <2>8. /\ MergeCall(t, c) \in Seq(CollectedCall) /\ NamedApart(MergeCall(t, c))
        /\ Named(MergeCall(t, c)) \subseteq Named(t) \cup (IF c.name # "nameless" THEN {KeyOf(c)} ELSE {})
        /\ KeysIn(MergeCall(t, c)) \subseteq KeysIn(t) \cup {KeyOf(c)}
    BY <2>2, <2>7, MergeNames
  <2>9. Fits(n + 1, MergeCall(t, c))
    BY <2>2, <2>4, <2>6, <2>8
  <2>10. QED
    BY <2>1, <2>3, <2>8, <2>9
<1>4. MergeCalls(s, delta) \in G[N]
  <2> HIDE DEF G
  <2>1. QED
    BY <1>1, <1>2, <1>3, MergeThrough
<1>5. Fits(N, MergeCalls(s, delta))
  BY <1>4
<1>6. First(N) = Named(delta)
  BY <1>1 DEF Named
<1>7. QED
  BY <1>5, <1>6

-----------------------------------------------------------------------------
(* Replies and what the providers make of them *)

\* A reply has a piece of each call and of no other, and each begins once.
LEMMA ReplyFacts ==
    ASSUME NEW r \in ReplyKinds
    PROVE  /\ r.asked \in Seq(AskedCall) /\ r.chunks \in Seq(Seq(Piece))
           /\ Len(r.chunks) \in Nat /\ DOMAIN r.chunks = 1..Len(r.chunks)
           /\ Len(r.asked) \in Nat /\ CallsOf(r) = 1..Len(r.asked)
           /\ \A k \in CallsOf(r) : r.asked[k] \in AskedCall /\ k \in Nat \ {0}
           /\ \A j \in DOMAIN r.chunks : r.chunks[j] \in Seq(Piece)
           /\ \A j \in DOMAIN r.chunks : \A a \in DOMAIN r.chunks[j] :
                 /\ r.chunks[j][a] \in Piece /\ r.chunks[j][a] \in PiecesOf(r)
                 /\ r.chunks[j][a].call \in CallsOf(r)
           /\ \A k \in CallsOf(r) : \E j \in DOMAIN r.chunks : \E a \in DOMAIN r.chunks[j] :
                 r.chunks[j][a].call = k
           /\ \A i, j \in DOMAIN r.chunks : \A a \in DOMAIN r.chunks[i], b \in DOMAIN r.chunks[j] :
                 /\ r.chunks[i][a].first /\ r.chunks[j][b].first
                 /\ r.chunks[i][a].call = r.chunks[j][b].call
                 => i = j /\ a = b
<1>1. /\ r \in [asked : Seq(AskedCall), chunks : Seq(Seq(Piece))]
      /\ CallsOf(r) = {p.call : p \in PiecesOf(r)}
      /\ \A i, j \in DOMAIN r.chunks : \A a \in DOMAIN r.chunks[i], b \in DOMAIN r.chunks[j] :
            /\ r.chunks[i][a].first /\ r.chunks[j][b].first
            /\ r.chunks[i][a].call = r.chunks[j][b].call
            => i = j /\ a = b
  BY ReplyAssumption, Zenon DEF ReplyAssumption
<1>2. r.asked \in Seq(AskedCall) /\ r.chunks \in Seq(Seq(Piece))
  BY <1>1
<1>3. /\ Len(r.chunks) \in Nat /\ DOMAIN r.chunks = 1..Len(r.chunks)
      /\ \A j \in DOMAIN r.chunks : r.chunks[j] \in Seq(Piece)
      /\ Len(r.asked) \in Nat /\ DOMAIN r.asked = 1..Len(r.asked)
      /\ \A k \in DOMAIN r.asked : r.asked[k] \in AskedCall
  BY <1>2
<1>4. CallsOf(r) = 1..Len(r.asked) /\ \A k \in CallsOf(r) : r.asked[k] \in AskedCall /\ k \in Nat \ {0}
  BY <1>3 DEF CallsOf
<1>5. ASSUME NEW j \in DOMAIN r.chunks, NEW a \in DOMAIN r.chunks[j]
      PROVE  /\ r.chunks[j][a] \in Piece /\ r.chunks[j][a] \in PiecesOf(r)
             /\ r.chunks[j][a].call \in CallsOf(r)
  <2>1. r.chunks[j][a] \in Piece
    BY <1>3
  <2>2. r.chunks[j][a] \in PiecesOf(r)
    <3>1. r.chunks[j] \in Range(r.chunks) /\ r.chunks[j][a] \in Range(r.chunks[j])
      BY Zenon DEF Range
    <3>2. QED
      BY <3>1, Zenon DEF PiecesOf
  <2>3. r.chunks[j][a].call \in CallsOf(r)
    BY <1>1, <2>2, Zenon
  <2>4. QED
    BY <2>1, <2>2, <2>3
<1>6. ASSUME NEW k \in CallsOf(r)
      PROVE  \E j \in DOMAIN r.chunks : \E a \in DOMAIN r.chunks[j] : r.chunks[j][a].call = k
  <2>1. PICK p \in PiecesOf(r) : p.call = k
    BY <1>1, Zenon
  <2>2. \E j \in DOMAIN r.chunks : \E a \in DOMAIN r.chunks[j] : p = r.chunks[j][a]
    BY Zenon DEF PiecesOf, Range
  <2>3. QED
    BY <2>1, <2>2
<1>7. QED
  BY <1>1, <1>2, <1>3, <1>4, <1>5, <1>6, Zenon

WholeOnes == {WholeCall(k) : k \in CallsOfReply}

\* What is collected is whole: it is made of calls of the reply, each once.
Whole(s) == s \in Seq(WholeOnes) /\ OnceEach(s)

\* Arguments that were parsed come from the call.
LEMMA ParsedTyped ==
    ASSUME streamAttempt \in {1, 2}, NEW k \in Nat \ {0}, NEW text
    PROVE  Parsed(k, text) \in SUBSET Source
  BY DEF Parsed, Source

LEMMA WholeCallTyped ==
    ASSUME reply \in ReplyKinds, streamAttempt \in {1, 2}, NEW k \in CallsOfReply
    PROVE  /\ WholeCall(k) \in CollectedCall /\ WholeCall(k).call = k
           /\ WholeCall(k).attempt = streamAttempt
<1>1. reply.asked[k] \in AskedCall /\ k \in Nat \ {0}
  BY ReplyFacts DEF CallsOfReply
<1>2. Parsed(k, "whole") \in SUBSET Source
  BY <1>1, ParsedTyped
<1>3. /\ reply.asked[k].name \in ToolNames \cup {"nameless"}
      /\ (reply.asked[k].args # "odd" /\ reply.asked[k].id) \in BOOLEAN
  BY <1>1 DEF AskedCall
<1>4. QED
  BY <1>1, <1>2, <1>3 DEF WholeCall, CollectedCall

LEMMA WholeOnesTyped ==
    ASSUME reply \in ReplyKinds, streamAttempt \in {1, 2}
    PROVE  /\ WholeOnes \subseteq CollectedCall
           /\ \A e \in WholeOnes : /\ e.call \in CallsOfReply /\ e.attempt = streamAttempt
                                   /\ e = WholeCall(e.call)
<1>1. SUFFICES ASSUME NEW k \in CallsOfReply
               PROVE  /\ WholeCall(k) \in CollectedCall /\ WholeCall(k).call = k
                      /\ WholeCall(k).attempt = streamAttempt
  BY Zenon DEF WholeOnes
<1>2. QED
  BY WholeCallTyped

\* Where no two calls are alike, a whole call is merged with itself only.
LEMMA MergeWhole ==
    ASSUME reply \in ReplyKinds, streamAttempt \in {1, 2}, ~Namesakes,
           NEW s, Whole(s), NEW c \in WholeOnes
    PROVE  /\ Whole(MergeCall(s, c))
           /\ CallsIn(MergeCall(s, c)) = CallsIn(s) \cup {c.call}
<1>1. /\ s \in Seq(WholeOnes) /\ s \in Seq(CollectedCall) /\ c \in CollectedCall
      /\ Len(s) \in Nat /\ DOMAIN s = 1..Len(s) /\ \A i \in DOMAIN s : s[i] \in WholeOnes
  BY WholeOnesTyped DEF Whole
<1>2. ASSUME NEW e \in WholeOnes, SameCall(e, c) PROVE e = c
  <2>1. e = WholeCall(e.call) /\ c = WholeCall(c.call) /\ e.call \in CallsOfReply /\ c.call \in CallsOfReply
    BY WholeOnesTyped
  <2>2. e.call = c.call
    BY <1>2, <2>1 DEF SameCall, Namesakes
  <2>3. QED
    BY <2>1, <2>2
<1>3. SameCall(c, c)
  <2>1. c.id \/ ~c.id
    OBVIOUS
  <2>2. QED
    BY <2>1 DEF SameCall
<1>4. PICK m : m = MergeCall(s, c)
  OBVIOUS
<1>5. CASE (\A i \in DOMAIN s : ~SameCall(s[i], c)) /\ m = Append(s, c)
  <2>1. \A i \in DOMAIN s : s[i].call # c.call
    <3>1. SUFFICES ASSUME NEW i \in DOMAIN s, s[i].call = c.call PROVE FALSE
      OBVIOUS
    <3>2. s[i] = c
      BY <1>1, <3>1, WholeOnesTyped
    <3>3. QED
      BY <1>3, <1>5, <3>2
  <2>2. /\ m \in Seq(WholeOnes) /\ DOMAIN m = DOMAIN s \cup {Len(s) + 1}
        /\ m[Len(s) + 1] = c /\ \A i \in DOMAIN s : m[i] = s[i]
    BY <1>1, <1>5
  <2>3. OnceEach(m)
    BY <2>1, <2>2 DEF Whole, OnceEach
  <2>4. CallsIn(m) = CallsIn(s) \cup {c.call}
    BY <2>2 DEF CallsIn
  <2>5. QED
    BY <1>4, <2>2, <2>3, <2>4 DEF Whole
<1>6. CASE TookArguments(s, c, m)
  <2>1. PICK i \in DOMAIN s : SameCall(s[i], c) /\ m = [s EXCEPT ![i].args = @ \cup c.args]
    BY <1>6 DEF TookArguments
  <2>2. s[i] = c
    BY <1>1, <1>2, <2>1
  <2>3. [s[i] EXCEPT !.args = @ \cup c.args] = s[i]
    BY <1>1, <2>2 DEF CollectedCall
  <2>4. m = s
    BY <1>1, <2>1, <2>3
  <2>5. c.call \in CallsIn(s)
    BY <2>2 DEF CallsIn
  <2>6. QED
    BY <1>4, <2>4, <2>5
<1>7. QED
  BY <1>1, <1>4, <1>5, <1>6, MergeIs

LEMMA MergeCallsWhole ==
    ASSUME reply \in ReplyKinds, streamAttempt \in {1, 2}, ~Namesakes,
           NEW s, Whole(s), NEW delta \in Seq(WholeOnes)
    PROVE  /\ Whole(MergeCalls(s, delta))
           /\ CallsIn(MergeCalls(s, delta)) = CallsIn(s) \cup CallsIn(delta)
<1>1. PICK N \in Nat : N = Len(delta) /\ DOMAIN delta = 1..N
  OBVIOUS
<1> DEFINE First(n) == {delta[i].call : i \in 1..n}
           G == [n \in 0..N |-> {t \in Seq(WholeOnes) : Whole(t) /\ CallsIn(t) = CallsIn(s) \cup First(n)}]
<1>2. s \in G[0]
  <2>1. 0 \in 0..N /\ First(0) = {}
    BY SMT
  <2>2. s \in Seq(WholeOnes)
    BY DEF Whole
  <2>3. QED
    BY <2>1, <2>2
<1>3. ASSUME NEW n \in 0..N, n # N, NEW t \in G[n] PROVE MergeCall(t, delta[n + 1]) \in G[n + 1]
  <2>1. n + 1 \in 0..N /\ n + 1 \in 1..N /\ 1..(n + 1) = 1..n \cup {n + 1}
    BY <1>3, SMT
  <2>2. Whole(t) /\ CallsIn(t) = CallsIn(s) \cup First(n)
    BY <1>3
  <2>3. PICK c \in WholeOnes : c = delta[n + 1]
    BY <1>1, <2>1
  <2>4. First(n + 1) = First(n) \cup {c.call}
    BY <2>1, <2>3
  <2>5. Whole(MergeCall(t, c)) /\ CallsIn(MergeCall(t, c)) = CallsIn(t) \cup {c.call}
    BY <2>2, MergeWhole
  <2>6. MergeCall(t, c) \in Seq(WholeOnes)
    BY <2>5 DEF Whole
  <2> HIDE DEF First
  <2>7. QED
    BY <2>1, <2>2, <2>3, <2>4, <2>5, <2>6
<1>4. MergeCalls(s, delta) \in G[N]
  <2> HIDE DEF G
  <2>1. QED
    BY <1>1, <1>2, <1>3, MergeThrough
<1>5. Whole(MergeCalls(s, delta)) /\ CallsIn(MergeCalls(s, delta)) = CallsIn(s) \cup First(N)
  BY <1>4
<1>6. First(N) = CallsIn(delta)
  BY <1>1 DEF CallsIn
<1>7. QED
  BY <1>5, <1>6

\* The calls of the pool's clients are whole, and all of the reply.
LEMMA WholeCallsAreWhole ==
    ASSUME reply \in ReplyKinds, streamAttempt \in {1, 2}
    PROVE  Whole(WholeCalls) /\ CallsIn(WholeCalls) = CallsOfReply
<1>1. CallsOfReply = 1..Len(reply.asked) /\ Len(reply.asked) \in Nat
  BY ReplyFacts DEF CallsOfReply
<1>2. /\ DOMAIN WholeCalls = CallsOfReply
      /\ \A k \in CallsOfReply : WholeCalls[k] = WholeCall(k) /\ WholeCalls[k].call = k
  BY WholeCallTyped DEF WholeCalls
<1>3. WholeCalls \in Seq(WholeOnes)
  <2>1. WholeCalls \in [1..Len(reply.asked) -> WholeOnes]
    BY <1>1 DEF WholeCalls, WholeOnes
  <2>2. QED
    BY <1>1, <2>1, FunctionIsSequence, Zenon
<1>4. QED
  BY <1>2, <1>3 DEF Whole, OnceEach, CallsIn

\* The calls that begin in a chunk.
BegunIn(j) == {reply.chunks[j][a].call : a \in {b \in DOMAIN reply.chunks[j] : reply.chunks[j][b].first}}

LEMMA DecodedChunk ==
    ASSUME reply \in RepliesTo("openai"), streamAttempt \in {1, 2}, NEW j \in DOMAIN reply.chunks,
           NEW d, d = Decoded(reply.chunks[j])
    PROVE  /\ d \in Seq(CollectedCall) /\ DOMAIN d = DOMAIN reply.chunks[j]
           /\ reply.chunks[j] # <<>> => d # <<>>
           /\ \A a \in DOMAIN d : /\ d[a].attempt = streamAttempt
                                  /\ d[a].call = reply.chunks[j][a].call /\ d[a].call \in CallsOfReply
                                  /\ d[a].name # "nameless" => d[a].call \in BegunIn(j)
           /\ NamedApart(d)
           /\ ~Fragmented => d \in Seq(WholeOnes) /\ OnceEach(d)
<1> DEFINE c == reply.chunks[j]
<1>1. reply \in ReplyKinds /\ \A k \in CallsOfReply : reply.asked[k].args # "odd"
  BY DEF RepliesTo, CallsOfReply
<1>2. /\ c \in Seq(Piece)
      /\ \A a \in DOMAIN c : c[a] \in Piece /\ c[a] \in PiecesOf(reply) /\ c[a].call \in CallsOfReply
      /\ \A a, b \in DOMAIN c : c[a].first /\ c[b].first /\ c[a].call = c[b].call => a = b
      /\ \A k \in CallsOfReply : reply.asked[k] \in AskedCall /\ k \in Nat \ {0}
  <2>1. PICK r \in ReplyKinds : r = reply
    BY <1>1
  <2>2. /\ \A i \in DOMAIN r.chunks : r.chunks[i] \in Seq(Piece)
        /\ \A i \in DOMAIN r.chunks : \A a \in DOMAIN r.chunks[i] :
              /\ r.chunks[i][a] \in Piece /\ r.chunks[i][a] \in PiecesOf(r)
              /\ r.chunks[i][a].call \in CallsOf(r)
        /\ \A h, i \in DOMAIN r.chunks : \A a \in DOMAIN r.chunks[h], b \in DOMAIN r.chunks[i] :
              /\ r.chunks[h][a].first /\ r.chunks[i][b].first
              /\ r.chunks[h][a].call = r.chunks[i][b].call
              => h = i /\ a = b
        /\ \A k \in CallsOf(r) : r.asked[k] \in AskedCall /\ k \in Nat \ {0}
    BY ReplyFacts, Zenon
  <2>3. QED
    BY <2>1, <2>2 DEF CallsOfReply
<1>3. /\ Len(c) \in Nat /\ DOMAIN c = 1..Len(c)
      /\ d = [a \in DOMAIN c |-> DecodedPiece(c[a])]
      /\ ~Fragmented => \A a \in DOMAIN c : c[a].first /\ c[a].text = "whole"
  <2>1. ~Fragmented => \A a \in DOMAIN c : c[a].first /\ c[a].text = "whole"
    BY <1>2, Zenon DEF Fragmented
  <2>2. d = [a \in DOMAIN c |-> DecodedPiece(c[a])]
    BY Zenon DEF Decoded
  <2>3. QED
    BY <1>2, <2>1, <2>2
<1>4. BegunIn(j) = {c[a].call : a \in {b \in DOMAIN c : c[b].first}}
  BY Zenon DEF BegunIn
<1> HIDE DEF c
<1>5. ASSUME NEW a \in DOMAIN c
      PROVE  /\ d[a] \in CollectedCall /\ d[a].attempt = streamAttempt /\ d[a].call = c[a].call
             /\ d[a].name # "nameless" => c[a].first
             /\ ~Fragmented => d[a] = WholeCall(c[a].call)
  <2>1. PICK p \in Piece : p = c[a] /\ p.call \in CallsOfReply
    BY <1>2
  <2>2. reply.asked[p.call] \in AskedCall /\ p.call \in Nat \ {0} /\ reply.asked[p.call].args # "odd"
    BY <1>1, <1>2, <2>1
  <2>3. Parsed(p.call, p.text) \in SUBSET Source
    BY <2>2, ParsedTyped
  <2>4. /\ reply.asked[p.call].name \in ToolNames
        /\ (p.first /\ reply.asked[p.call].id) \in BOOLEAN
    BY <2>2 DEF AskedCall
  <2>5. d[a] = [attempt |-> streamAttempt, call |-> p.call,
                name |-> IF p.first THEN reply.asked[p.call].name ELSE "nameless",
                id   |-> p.first /\ reply.asked[p.call].id,
                args |-> Parsed(p.call, p.text)]
    BY <1>3, <2>1 DEF DecodedPiece
  <2>6. (IF p.first THEN reply.asked[p.call].name ELSE "nameless") \in ToolNames \cup {"nameless"}
    BY <2>4
  <2>7. d[a] \in CollectedCall
    BY <2>2, <2>3, <2>4, <2>5, <2>6 DEF CollectedCall
  <2>8. /\ d[a].attempt = streamAttempt /\ d[a].call = c[a].call
        /\ d[a].name # "nameless" => c[a].first
    BY <2>1, <2>5
  <2>9. ASSUME ~Fragmented PROVE d[a] = WholeCall(c[a].call)
    <3>1. p.first /\ p.text = "whole"
      BY <1>3, <2>1, <2>9
    <3>2. WholeCall(p.call) = [attempt |-> streamAttempt, call |-> p.call,
                               name |-> reply.asked[p.call].name,
                               id   |-> reply.asked[p.call].args # "odd" /\ reply.asked[p.call].id,
                               args |-> Parsed(p.call, "whole")]
      BY <2>2 DEF WholeCall
    <3>3. (p.first /\ reply.asked[p.call].id) = (reply.asked[p.call].args # "odd" /\ reply.asked[p.call].id)
      BY <2>2, <3>1, Zenon
    <3>4. QED
      BY <2>1, <2>5, <3>1, <3>2, <3>3
  <2>10. QED
    BY <2>7, <2>8, <2>9
<1>6. DOMAIN d = DOMAIN c
  BY <1>3
<1>7. d \in Seq(CollectedCall)
  <2>1. d \in [1..Len(c) -> CollectedCall]
    BY <1>3, <1>5
  <2>2. QED
    BY <1>3, <2>1, FunctionIsSequence, Zenon
<1>8. c # <<>> => d # <<>>
  <2>1. c # <<>> => Len(c) # 0
    BY <1>2
  <2>2. Len(c) # 0 => 1 \in DOMAIN d
    BY <1>3, <1>6, SMT
  <2>3. QED
    BY <2>1, <2>2
<1>9. NamedApart(d)
  <2>1. SUFFICES ASSUME NEW a \in DOMAIN c, NEW b \in DOMAIN c, d[a].name # "nameless", d[b].name # "nameless",
                        KeyOf(d[a]) = KeyOf(d[b])
                 PROVE  a = b
    BY <1>6 DEF NamedApart
  <2>2. c[a].first /\ c[b].first /\ c[a].call = c[b].call
    BY <1>5, <2>1 DEF KeyOf
  <2>3. QED
    BY <1>2, <2>2
<1>10. ASSUME ~Fragmented PROVE d \in Seq(WholeOnes) /\ OnceEach(d)
  <2>1. d \in [1..Len(c) -> WholeOnes]
    BY <1>2, <1>3, <1>5, <1>10 DEF WholeOnes
  <2>2. d \in Seq(WholeOnes)
    BY <1>3, <2>1, FunctionIsSequence, Zenon
  <2>3. OnceEach(d)
    BY <1>2, <1>3, <1>5, <1>6, <1>10 DEF OnceEach
  <2>4. QED
    BY <2>2, <2>3
<1>11. ASSUME NEW a \in DOMAIN d
       PROVE  /\ d[a].attempt = streamAttempt /\ d[a].call = c[a].call /\ d[a].call \in CallsOfReply
              /\ d[a].name # "nameless" => d[a].call \in BegunIn(j)
  BY <1>2, <1>4, <1>5, <1>6, <1>11
<1>12. QED
  BY <1>6, <1>7, <1>8, <1>9, <1>10, <1>11 DEF c

-----------------------------------------------------------------------------
(* The inductive invariant *)

ToolStreamTyped == ToolStreamTypeOK /\ reply \in RepliesTo(provider)

\* Nothing is collected before a chunk is handed over.
FirstChunkFirst ==
    /\ received = 0 /\ wasted = 0 => collected = <<>>
    /\ provider = "pool" \/ streamAttempt = 1 => wasted = 0
    /\ streamState = "failed" /\ provider = "pool" => collected = <<>>
    /\ streamState = "on" /\ received # 0 => provider = "openai" \/ received = Len(reply.chunks)
    /\ streamState = "on" => completion = "none"

Begun == {k \in CallsOfReply : \E j \in 1..received : k \in BegunIn(j)}

\* Where the calls come from, and that a name is collected once.
NamesFit ==
    /\ NamedApart(collected)
    /\ \A key \in KeysIn(collected) :
          /\ streamAttempt = 1 => key[1] = 1
          /\ key[1] = streamAttempt => key[2] \in CallsOfReply
          /\ key[1] # streamAttempt => wasted > 0
    /\ provider = "openai" => \A key \in Named(collected) : key[1] = streamAttempt => key[2] \in Begun

\* The clients of the pool hand over the whole reply or nothing of it.
PoolGivesAll ==
    provider = "pool" /\ received # 0 =>
        /\ received = Len(reply.chunks)
        /\ consumer # "ptc" \/ ~Namesakes => Whole(collected) /\ CallsIn(collected) = CallsOfReply

\* Programmatic tool calling has every call of the chunks it was given.
ChunksMerged ==
    provider = "openai" /\ consumer = "ptc" /\ ~Fragmented /\ ~Namesakes /\ wasted = 0 =>
        /\ Whole(collected)
        /\ \A j \in 1..received : \A a \in DOMAIN reply.chunks[j] :
              reply.chunks[j][a].call \in CallsIn(collected)

\* The others have one of the chunks, if one had a call.
LastChunkKept ==
    provider = "openai" /\ consumer # "ptc" /\ wasted = 0 =>
        /\ collected = <<>> \/ \E j \in DOMAIN reply.chunks : collected = Decoded(reply.chunks[j])
        /\ \A j \in 1..received : reply.chunks[j] # <<>> => collected # <<>>

EndedHasAll == streamState = "ended" /\ completion = "none" => received = Len(reply.chunks)

ToolStreamInductive ==
    /\ ToolStreamTyped /\ FirstChunkFirst /\ NamesFit /\ PoolGivesAll /\ ChunksMerged
    /\ LastChunkKept /\ EndedHasAll /\ ResultIsCaptured

LEMMA NothingCollected ==
    /\ NamedApart(<<>>) /\ Named(<<>>) = {} /\ KeysIn(<<>>) = {} /\ CallsIn(<<>>) = {}
    /\ Whole(<<>>) /\ <<>> \in Seq(CollectedCall)
  BY DEF NamedApart, Named, KeysIn, CallsIn, Whole, OnceEach

\* As long as nothing was handed over, nothing is known of the reply.
LEMMA FreshFits ==
    ASSUME received = 0, collected = <<>>, completion = "none", streamState = "on"
    PROVE  NamesFit /\ PoolGivesAll /\ ChunksMerged /\ LastChunkKept /\ EndedHasAll /\ ResultIsCaptured
<1>1. \A j : j \notin 1..received
  BY SMT
<1>2. QED
  BY <1>1, NothingCollected
     DEF NamesFit, PoolGivesAll, ChunksMerged, LastChunkKept, EndedHasAll, ResultIsCaptured

LEMMA ToolStreamStarts == ToolStreamInit => ToolStreamInductive
<1> SUFFICES ASSUME ToolStreamInit PROVE ToolStreamInductive
  OBVIOUS
<1>1. reply \in ReplyKinds /\ Len(reply.chunks) \in Nat
  BY ReplyFacts DEF ToolStreamInit, RepliesTo
<1>2. ToolStreamTyped
  BY <1>1, NothingCollected DEF ToolStreamInit, ToolStreamTyped, ToolStreamTypeOK
<1>3. FirstChunkFirst
  BY DEF ToolStreamInit, FirstChunkFirst
<1>4. QED
  BY <1>2, <1>3, FreshFits DEF ToolStreamInit, ToolStreamInductive

-----------------------------------------------------------------------------
(* The steps *)

\* What depends on the reply and the attempt stays with them.
LEMMA ReplyStays ==
    ASSUME UNCHANGED <<reply, streamAttempt>>
    PROVE  /\ CallsOfReply' = CallsOfReply /\ (Fragmented' <=> Fragmented) /\ (OneDelta' <=> OneDelta)
           /\ \A k : WholeCall(k)' = WholeCall(k) /\ (Parses(k)' <=> Parses(k)) /\ BegunIn(k)' = BegunIn(k)
           /\ WholeOnes' = WholeOnes /\ (Namesakes' <=> Namesakes)
           /\ \A s : Whole(s)' <=> Whole(s)
           /\ \A chunk : Decoded(chunk)' = Decoded(chunk)
<1>1. /\ CallsOfReply' = CallsOfReply /\ (Fragmented' <=> Fragmented) /\ (OneDelta' <=> OneDelta)
      /\ \A k : WholeCall(k)' = WholeCall(k) /\ (Parses(k)' <=> Parses(k)) /\ BegunIn(k)' = BegunIn(k)
  BY DEF CallsOfReply, Fragmented, OneDelta, WholeCall, Parsed, Parses, BegunIn
<1>2. WholeOnes' = WholeOnes /\ (Namesakes' <=> Namesakes)
  BY <1>1 DEF WholeOnes, Namesakes
<1>3. \A s : Whole(s)' <=> Whole(s)
  BY <1>2 DEF Whole
<1>4. \A chunk : Decoded(chunk)' = Decoded(chunk)
  BY DEF Decoded, DecodedPiece, Parsed
<1>5. QED
  BY <1>1, <1>2, <1>3, <1>4

\* The calls that a delta gives to the callback.
LEMMA NextDeltaFits ==
    ASSUME ToolStreamTyped, FirstChunkFirst, streamState = "on", received < Len(reply.chunks)
    PROVE  /\ NextDelta \in Seq(CollectedCall) /\ NamedApart(NextDelta)
           /\ \A key \in KeysIn(NextDelta) : key[1] = streamAttempt /\ key[2] \in CallsOfReply
           /\ provider = "openai" =>
                 /\ received + 1 \in DOMAIN reply.chunks
                 /\ NextDelta = Decoded(reply.chunks[received + 1])
                 /\ \A key \in Named(NextDelta) : key[2] \in BegunIn(received + 1)
                 /\ ~Fragmented => NextDelta \in Seq(WholeOnes) /\ OnceEach(NextDelta)
                 /\ \A a \in DOMAIN reply.chunks[received + 1] :
                       reply.chunks[received + 1][a].call \in CallsIn(NextDelta)
                 /\ reply.chunks[received + 1] # <<>> => NextDelta # <<>>
           /\ provider = "pool" => /\ NextDelta = WholeCalls /\ Whole(NextDelta) /\ received = 0
                                   /\ CallsIn(NextDelta) = CallsOfReply
           /\ received + 1 \in 0..Len(reply.chunks) /\ received + 1 # 0
           /\ Len(reply.chunks) \in 0..Len(reply.chunks)
           /\ Len(reply.chunks) # 0 /\ received \in Nat /\ 1..(received + 1) = 1..received \cup {received + 1}
<1>1. /\ reply \in ReplyKinds /\ received \in 0..Len(reply.chunks) /\ provider \in {"openai", "pool"}
      /\ streamAttempt \in {1, 2} /\ reply \in RepliesTo(provider)
  BY DEF ToolStreamTyped, ToolStreamTypeOK
<1>2. Len(reply.chunks) \in Nat /\ DOMAIN reply.chunks = 1..Len(reply.chunks)
  BY <1>1, ReplyFacts
<1>3. /\ received + 1 \in 1..Len(reply.chunks) /\ received + 1 \in 0..Len(reply.chunks) /\ received + 1 # 0
      /\ Len(reply.chunks) # 0 /\ received \in Nat /\ 1..(received + 1) = 1..received \cup {received + 1}
      /\ Len(reply.chunks) \in 0..Len(reply.chunks) /\ received # Len(reply.chunks)
  BY <1>1, <1>2, SMT
<1>4. CASE provider = "pool"
  <2>1. NextDelta = WholeCalls /\ Whole(NextDelta) /\ CallsIn(NextDelta) = CallsOfReply
    BY <1>1, <1>4, WholeCallsAreWhole DEF NextDelta
  <2>2. received = 0
    BY <1>3, <1>4 DEF FirstChunkFirst
  <2>3. /\ NextDelta \in Seq(CollectedCall)
        /\ \A i \in DOMAIN NextDelta : /\ NextDelta[i] \in WholeOnes
                                       /\ NextDelta[i].call \in CallsOfReply
                                       /\ NextDelta[i].attempt = streamAttempt
    <3>1. PICK d : d = NextDelta
      OBVIOUS
    <3>2. d \in Seq(WholeOnes)
      BY <2>1, <3>1 DEF Whole
    <3>3. d \in Seq(CollectedCall)
      BY <1>1, <3>2, WholeOnesTyped
    <3>4. \A i \in DOMAIN d : d[i] \in WholeOnes
      BY <3>2
    <3>5. \A i \in DOMAIN d : d[i].call \in CallsOfReply /\ d[i].attempt = streamAttempt
      BY <1>1, <3>4, WholeOnesTyped
    <3>6. QED
      BY <3>1, <3>3, <3>4, <3>5
  <2>4. NamedApart(NextDelta)
    BY <2>1 DEF NamedApart, Whole, OnceEach, KeyOf
  <2>5. \A key \in KeysIn(NextDelta) : key[1] = streamAttempt /\ key[2] \in CallsOfReply
    BY <2>3 DEF KeysIn, KeyOf
  <2>6. QED
    BY <1>3, <1>4, <2>1, <2>2, <2>3, <2>4, <2>5
<1>5. CASE provider = "openai"
  <2>1. PICK j \in DOMAIN reply.chunks : j = received + 1
    BY <1>2, <1>3
  <2>2. PICK d : d = Decoded(reply.chunks[j])
    OBVIOUS
  <2>3. NextDelta = d
    BY <1>5, <2>1, <2>2 DEF NextDelta
  <2>4. /\ d \in Seq(CollectedCall) /\ DOMAIN d = DOMAIN reply.chunks[j]
        /\ reply.chunks[j] # <<>> => d # <<>>
        /\ \A a \in DOMAIN d : /\ d[a].attempt = streamAttempt
                               /\ d[a].call = reply.chunks[j][a].call /\ d[a].call \in CallsOfReply
                               /\ d[a].name # "nameless" => d[a].call \in BegunIn(j)
        /\ NamedApart(d)
        /\ ~Fragmented => d \in Seq(WholeOnes) /\ OnceEach(d)
    BY <1>1, <1>5, <2>2, DecodedChunk
  <2>5. \A key \in KeysIn(d) : key[1] = streamAttempt /\ key[2] \in CallsOfReply
    BY <2>4 DEF KeysIn, KeyOf
  <2>6. \A key \in Named(d) : key[2] \in BegunIn(j)
    BY <2>4 DEF Named, KeyOf
  <2>7. \A a \in DOMAIN reply.chunks[j] : reply.chunks[j][a].call \in CallsIn(d)
    BY <2>4 DEF CallsIn
  <2>8. QED
    BY <1>3, <1>5, <2>1, <2>2, <2>3, <2>4, <2>5, <2>6, <2>7
<1>6. QED
  BY <1>1, <1>4, <1>5

\* What begins in a chunk has not begun before it.
LEMMA BeginsOnce ==
    ASSUME ToolStreamTyped, received + 1 \in DOMAIN reply.chunks, received \in Nat,
           NEW k \in BegunIn(received + 1)
    PROVE  k \notin Begun
<1>1. PICK r \in ReplyKinds : r = reply
  BY DEF ToolStreamTyped, ToolStreamTypeOK
<1>2. /\ DOMAIN r.chunks = 1..Len(r.chunks) /\ Len(r.chunks) \in Nat
      /\ \A h, i \in DOMAIN r.chunks : \A a \in DOMAIN r.chunks[h], b \in DOMAIN r.chunks[i] :
            /\ r.chunks[h][a].first /\ r.chunks[i][b].first
            /\ r.chunks[h][a].call = r.chunks[i][b].call
            => h = i /\ a = b
  BY ReplyFacts, Zenon
<1>3. SUFFICES ASSUME NEW j \in 1..received, k \in BegunIn(j) PROVE FALSE
  BY DEF Begun
<1>4. j \in DOMAIN r.chunks /\ j # received + 1
  BY <1>1, <1>2, SMT
<1>5. j = received + 1
  <2>1. PICK h \in DOMAIN r.chunks : h = received + 1
    BY <1>1
  <2>2. PICK a \in DOMAIN r.chunks[h] : r.chunks[h][a].first /\ r.chunks[h][a].call = k
    BY <1>1, <2>1 DEF BegunIn
  <2>3. PICK b \in DOMAIN r.chunks[j] : r.chunks[j][b].first /\ r.chunks[j][b].call = k
    BY <1>1, <1>3 DEF BegunIn
  <2>4. QED
    BY <1>2, <1>4, <2>1, <2>2, <2>3
<1>6. QED
  BY <1>4, <1>5

\* What the callback has after a delta.
LEMMA CollectsFit ==
    ASSUME ToolStreamTyped, FirstChunkFirst, NamesFit, streamState = "on", received < Len(reply.chunks),
           NEW m, m = NextDelta \/ m = Collect(collected, NextDelta)
    PROVE  /\ m \in Seq(CollectedCall) /\ NamedApart(m)
           /\ KeysIn(m) \subseteq KeysIn(collected) \cup KeysIn(NextDelta)
           /\ Named(m) \subseteq Named(collected) \cup Named(NextDelta)
<1>1. /\ NextDelta \in Seq(CollectedCall) /\ NamedApart(NextDelta)
      /\ \A key \in KeysIn(NextDelta) : key[1] = streamAttempt /\ key[2] \in CallsOfReply
  BY NextDeltaFits
<1>2. collected \in Seq(CollectedCall) /\ NamedApart(collected)
  BY DEF ToolStreamTyped, ToolStreamTypeOK, NamesFit
<1>3. CASE consumer = "ptc" /\ m = Collect(collected, NextDelta)
  <2>1. m = MergeCalls(collected, NextDelta)
    BY <1>3 DEF Collect
  <2>2. Named(collected) \cap Named(NextDelta) = {}
    <3>1. SUFFICES ASSUME NEW key \in Named(NextDelta), key \in Named(collected) PROVE FALSE
      OBVIOUS
    <3>2. key \in KeysIn(NextDelta) /\ key[1] = streamAttempt
      <4>1. Named(NextDelta) \subseteq KeysIn(NextDelta)
        BY Zenon DEF Named, KeysIn
      <4>2. QED
        BY <1>1, <3>1, <4>1
    <3>3. CASE provider = "openai"
      <4>1. key[2] \in BegunIn(received + 1) /\ received + 1 \in DOMAIN reply.chunks /\ received \in Nat
        BY <3>1, <3>3, NextDeltaFits
      <4>2. key[2] \in Begun
        BY <3>1, <3>2, <3>3 DEF NamesFit
      <4>3. QED
        BY <4>1, <4>2, BeginsOnce
    <3>4. CASE provider = "pool"
      <4>1. collected = <<>>
        BY <3>4, NextDeltaFits DEF FirstChunkFirst
      <4>2. QED
        BY <3>1, <4>1, NothingCollected
    <3>5. QED
      BY <3>3, <3>4 DEF ToolStreamTyped, ToolStreamTypeOK
  <2>3. PICK s \in Seq(CollectedCall) : s = collected
    BY <1>2
  <2>4. PICK d \in Seq(CollectedCall) : d = NextDelta
    BY <1>1
  <2>5. NamedApart(s) /\ NamedApart(d) /\ Named(s) \cap Named(d) = {}
    BY <1>1, <1>2, <2>2, <2>3, <2>4
  <2>6. /\ MergeCalls(s, d) \in Seq(CollectedCall) /\ NamedApart(MergeCalls(s, d))
        /\ Named(MergeCalls(s, d)) \subseteq Named(s) \cup Named(d)
        /\ KeysIn(MergeCalls(s, d)) \subseteq KeysIn(s) \cup KeysIn(d)
    BY <2>5, MergeCallsNames
  <2>7. QED
    BY <2>1, <2>3, <2>4, <2>6
<1>4. CASE m = NextDelta \/ m = collected
  BY <1>1, <1>2, <1>4
<1>5. QED
  BY <1>3, <1>4 DEF Collect, LastDelta

\* A whole delta merged with what is whole is whole.
LEMMA CollectsWhole ==
    ASSUME ToolStreamTyped, ~Namesakes, Whole(collected), NextDelta \in Seq(WholeOnes), consumer = "ptc",
           NEW m, m = Collect(collected, NextDelta)
    PROVE  Whole(m) /\ CallsIn(m) = CallsIn(collected) \cup CallsIn(NextDelta)
<1>1. reply \in ReplyKinds /\ streamAttempt \in {1, 2}
  BY DEF ToolStreamTyped, ToolStreamTypeOK
<1>2. PICK s : s = collected
  OBVIOUS
<1>3. PICK d \in Seq(WholeOnes) : d = NextDelta
  OBVIOUS
<1>4. m = MergeCalls(s, d)
  BY <1>2, <1>3 DEF Collect
<1>5. Whole(MergeCalls(s, d)) /\ CallsIn(MergeCalls(s, d)) = CallsIn(s) \cup CallsIn(d)
  BY <1>1, <1>2, MergeCallsWhole
<1>6. QED
  BY <1>2, <1>3, <1>4, <1>5

\* task_complete's result is lost only where its arguments come in pieces or do
\* not parse.
LEMMA LossIsExplained ==
    ASSUME ToolStreamTyped, FirstChunkFirst, streamState = "on", received < Len(reply.chunks),
           CompletesIn(NextDelta), ~GivesResult(NextDelta)
    PROVE  \/ provider = "openai" /\ Fragmented
           \/ \E k \in CallsOfReply : reply.asked[k].name = "task_complete" /\ ~Parses(k)
<1>1. NextDelta \in Seq(CollectedCall) /\ reply \in ReplyKinds /\ streamAttempt \in {1, 2}
  BY NextDeltaFits DEF ToolStreamTyped, ToolStreamTypeOK
<1>2. PICK d \in Seq(CollectedCall) : d = NextDelta
  BY <1>1
<1>3. Completes(d) # {} /\ Completes(d) \in SUBSET Nat
  <2>1. DOMAIN d \subseteq Nat
    BY SMT
  <2>2. QED
    BY <1>2, <2>1 DEF CompletesIn, Completes
<1>4. PICK i \in Completes(d) : ~\E source \in d[i].args : source.whole
  <2>1. \E i \in Completes(d) : \A m \in Completes(d) : i <= m
    BY <1>3, LeastOf, Zenon
  <2> DEFINE i == CHOOSE n \in Completes(d) : \A m \in Completes(d) : n <= m
  <2>2. i \in Completes(d)
    BY <2>1, Zenon
  <2>3. GivesResult(d) <=> \E source \in d[i].args : source.whole
    BY Zenon DEF GivesResult
  <2> HIDE DEF i
  <2>4. QED
    BY <1>2, <2>2, <2>3
<1>5. i \in DOMAIN d /\ d[i].name = "task_complete"
  BY <1>4 DEF Completes
<1>6. SUFFICES ASSUME ~(provider = "openai" /\ Fragmented)
               PROVE  \E k \in CallsOfReply : reply.asked[k].name = "task_complete" /\ ~Parses(k)
  OBVIOUS
<1>7. d \in Seq(WholeOnes)
  BY <1>2, <1>6, NextDeltaFits DEF Whole, ToolStreamTyped, ToolStreamTypeOK
<1>8. PICK k \in CallsOfReply : d[i] = WholeCall(k)
  <2>1. d[i] \in WholeOnes
    BY <1>5, <1>7
  <2>2. QED
    BY <2>1, Zenon DEF WholeOnes
<1>9. reply.asked[k].name = "task_complete"
  <2>1. reply.asked[k].args # "odd" \/ d[i].name = "nameless"
    BY <1>8 DEF WholeCall
  <2>2. QED
    BY <1>5, <1>8, <2>1 DEF WholeCall
<1>10. ~Parses(k)
  <2>1. SUFFICES ASSUME Parses(k) PROVE FALSE
    OBVIOUS
  <2>2. Parsed(k, "whole") = {[attempt |-> streamAttempt, call |-> k, whole |-> TRUE]}
    BY <2>1 DEF Parsed, Parses
  <2>3. d[i].args = {[attempt |-> streamAttempt, call |-> k, whole |-> TRUE]}
    BY <1>8, <2>2 DEF WholeCall
  <2>4. QED
    BY <1>4, <2>3
<1>11. QED
  BY <1>9, <1>10

LEMMA HandOverKeeps ==
    ASSUME ToolStreamInductive, HandOver
    PROVE  ToolStreamInductive'
<1>1. /\ ToolStreamTyped /\ FirstChunkFirst /\ NamesFit /\ PoolGivesAll /\ ChunksMerged /\ LastChunkKept
      /\ EndedHasAll /\ ResultIsCaptured
  BY DEF ToolStreamInductive
<1>2. /\ received < Len(reply.chunks) /\ streamState = "on"
      /\ received' = IF provider = "pool" THEN Len(reply.chunks) ELSE received + 1
      /\ UNCHANGED <<provider, consumer, reply, streamAttempt, wasted>>
  BY DEF HandOver
<1>3. /\ CallsOfReply' = CallsOfReply /\ (Fragmented' <=> Fragmented)
      /\ \A k : (Parses(k)' <=> Parses(k)) /\ BegunIn(k)' = BegunIn(k)
      /\ (Namesakes' <=> Namesakes) /\ \A s : Whole(s)' <=> Whole(s)
      /\ \A chunk : Decoded(chunk)' = Decoded(chunk)
  BY <1>2, ReplyStays
<1>4. PICK m : m = collected'
  OBVIOUS
<1>5. \/ /\ CompletesIn(NextDelta) /\ m = NextDelta /\ streamState' = "ended"
         /\ completion' \in {"given", "lost"}
         /\ completion' = "lost" => ~GivesResult(NextDelta)
      \/ m = Collect(collected, NextDelta) /\ UNCHANGED <<completion, streamState>>
  <2>1. CASE CompletesIn(NextDelta)
    BY <1>4, <2>1 DEF HandOver
  <2>2. CASE ~CompletesIn(NextDelta)
    BY <1>4, <2>2 DEF HandOver
  <2>3. QED
    BY <2>1, <2>2
<1>6. CompletesIn(NextDelta) => consumer = "runtime"
  BY DEF CompletesIn
<1>7. /\ received + 1 \in 0..Len(reply.chunks) /\ Len(reply.chunks) \in 0..Len(reply.chunks)
      /\ Len(reply.chunks) # 0 /\ received + 1 # 0 /\ received \in Nat
      /\ 1..(received + 1) = 1..received \cup {received + 1}
      /\ \A key \in KeysIn(NextDelta) : key[1] = streamAttempt /\ key[2] \in CallsOfReply
      /\ provider = "pool" =>
            /\ NextDelta = WholeCalls /\ Whole(NextDelta) /\ received = 0
            /\ CallsIn(NextDelta) = CallsOfReply
      /\ provider = "openai" =>
            /\ received + 1 \in DOMAIN reply.chunks
            /\ NextDelta = Decoded(reply.chunks[received + 1])
            /\ \A key \in Named(NextDelta) : key[2] \in BegunIn(received + 1)
            /\ ~Fragmented => NextDelta \in Seq(WholeOnes) /\ OnceEach(NextDelta)
            /\ \A a \in DOMAIN reply.chunks[received + 1] :
                  reply.chunks[received + 1][a].call \in CallsIn(NextDelta)
            /\ reply.chunks[received + 1] # <<>> => NextDelta # <<>>
  BY <1>1, <1>2, NextDeltaFits
<1>8. /\ m \in Seq(CollectedCall) /\ NamedApart(m)
      /\ KeysIn(m) \subseteq KeysIn(collected) \cup KeysIn(NextDelta)
      /\ Named(m) \subseteq Named(collected) \cup Named(NextDelta)
  <2>1. m = NextDelta \/ m = Collect(collected, NextDelta)
    BY <1>5
  <2>2. QED
    BY <1>1, <1>2, <2>1, CollectsFit
<1>9. received' \in 0..Len(reply.chunks) /\ received' # 0 /\ provider \in {"openai", "pool"}
      /\ (provider = "openai" => received' = received + 1)
      /\ (provider = "pool" => received' = Len(reply.chunks))
  BY <1>1, <1>2, <1>7 DEF ToolStreamTyped, ToolStreamTypeOK
<1>10. ToolStreamTyped'
  <2>1. completion' \in {"none", "given", "lost"} /\ streamState' \in {"on", "failed", "ended"}
    BY <1>1, <1>5 DEF ToolStreamTyped, ToolStreamTypeOK
  <2>2. RepliesTo(provider)' = RepliesTo(provider)
    BY <1>2 DEF RepliesTo
  <2>3. QED
    BY <1>1, <1>2, <1>4, <1>8, <1>9, <2>1, <2>2 DEF ToolStreamTyped, ToolStreamTypeOK
<1>11. FirstChunkFirst'
  BY <1>1, <1>2, <1>5, <1>9 DEF FirstChunkFirst
<1>12. NamesFit'
  <2>1. \A key \in KeysIn(m) : /\ streamAttempt = 1 => key[1] = 1
                               /\ key[1] = streamAttempt => key[2] \in CallsOfReply
                               /\ key[1] # streamAttempt => wasted > 0
    BY <1>1, <1>7, <1>8 DEF NamesFit
  <2>2. ASSUME provider = "openai", NEW key \in Named(m), key[1] = streamAttempt PROVE key[2] \in Begun'
    <3>1. key[2] \in CallsOfReply
      <4>1. Named(m) \subseteq KeysIn(m)
        BY Zenon DEF Named, KeysIn
      <4>2. QED
        BY <2>1, <2>2, <4>1
    <3>2. \E j \in 1..(received + 1) : key[2] \in BegunIn(j)
      <4>1. CASE key \in Named(collected)
        BY <1>1, <1>7, <2>2, <4>1 DEF NamesFit, Begun
      <4>2. CASE key \in Named(NextDelta)
        BY <1>7, <2>2, <4>2
      <4>3. QED
        BY <1>8, <2>2, <4>1, <4>2
    <3>3. QED
      BY <1>3, <1>9, <2>2, <3>1, <3>2 DEF Begun
  <2>3. QED
    BY <1>2, <1>3, <1>4, <1>8, <2>1, <2>2 DEF NamesFit
<1>13. PoolGivesAll'
  <2>1. ASSUME provider = "pool", consumer # "ptc" \/ ~Namesakes
        PROVE  Whole(m) /\ CallsIn(m) = CallsOfReply
    <3>1. collected = <<>> /\ NextDelta \in Seq(WholeOnes)
      BY <1>1, <1>7, <2>1 DEF FirstChunkFirst, Whole
    <3>2. CASE m = NextDelta
      BY <1>7, <2>1, <3>2
    <3>3. CASE m = Collect(collected, NextDelta) /\ consumer = "ptc"
      BY <1>1, <1>7, <2>1, <3>1, <3>3, CollectsWhole, NothingCollected
    <3>4. CASE m = Collect(collected, NextDelta) /\ consumer # "ptc"
      <4>1. m = IF NextDelta = <<>> THEN collected ELSE NextDelta
        BY <3>4 DEF Collect, LastDelta
      <4>2. QED
        BY <1>7, <2>1, <3>1, <4>1
    <3>5. QED
      BY <1>5, <3>2, <3>3, <3>4
  <2>2. QED
    BY <1>2, <1>3, <1>4, <1>9, <2>1 DEF PoolGivesAll
<1>14. ChunksMerged'
  <2>1. ASSUME provider = "openai", consumer = "ptc", ~Fragmented, ~Namesakes, wasted = 0
        PROVE  /\ Whole(m)
               /\ \A j \in 1..(received + 1) : \A a \in DOMAIN reply.chunks[j] :
                     reply.chunks[j][a].call \in CallsIn(m)
    <3>1. m = Collect(collected, NextDelta)
      BY <1>5, <1>6, <2>1
    <3>2. /\ Whole(collected)
          /\ \A j \in 1..received : \A a \in DOMAIN reply.chunks[j] :
                reply.chunks[j][a].call \in CallsIn(collected)
      BY <1>1, <2>1 DEF ChunksMerged
    <3>3. Whole(m) /\ CallsIn(m) = CallsIn(collected) \cup CallsIn(NextDelta)
      BY <1>1, <1>7, <2>1, <3>1, <3>2, CollectsWhole
    <3>4. QED
      BY <1>7, <2>1, <3>2, <3>3
  <2>2. QED
    BY <1>2, <1>3, <1>4, <1>9, <2>1 DEF ChunksMerged
<1>15. LastChunkKept'
  <2>1. ASSUME provider = "openai", consumer # "ptc", wasted = 0
        PROVE  /\ m = <<>> \/ \E j \in DOMAIN reply.chunks : m = Decoded(reply.chunks[j])
               /\ \A j \in 1..(received + 1) : reply.chunks[j] # <<>> => m # <<>>
    <3>1. /\ collected = <<>> \/ \E j \in DOMAIN reply.chunks : collected = Decoded(reply.chunks[j])
          /\ \A j \in 1..received : reply.chunks[j] # <<>> => collected # <<>>
      BY <1>1, <2>1 DEF LastChunkKept
    <3>2. CASE CompletesIn(NextDelta) /\ m = NextDelta
      <4>1. m # <<>>
        BY <3>2 DEF CompletesIn, Completes
      <4>2. QED
        BY <1>7, <2>1, <3>2, <4>1
    <3>3. CASE m = Collect(collected, NextDelta)
      <4>1. m = IF NextDelta = <<>> THEN collected ELSE NextDelta
        BY <2>1, <3>3 DEF Collect, LastDelta
      <4>2. QED
        BY <1>7, <2>1, <3>1, <4>1
    <3>4. QED
      BY <1>5, <3>2, <3>3
  <2>2. QED
    BY <1>2, <1>3, <1>4, <1>9, <2>1 DEF LastChunkKept
<1>16. EndedHasAll'
  BY <1>2, <1>5 DEF EndedHasAll
<1>17. ResultIsCaptured'
  <2>1. CompletesIn(NextDelta) /\ ~GivesResult(NextDelta) =>
           \/ provider = "openai" /\ Fragmented
           \/ \E k \in CallsOfReply : reply.asked[k].name = "task_complete" /\ ~Parses(k)
    BY <1>1, <1>2, LossIsExplained
  <2>2. QED
    BY <1>1, <1>2, <1>3, <1>5, <2>1 DEF ResultIsCaptured
<1>18. QED
  BY <1>10, <1>11, <1>12, <1>13, <1>14, <1>15, <1>16, <1>17 DEF ToolStreamInductive

\* The stream stops without a delta.
LEMMA StopKeeps ==
    ASSUME ToolStreamInductive, EndStream \/ StreamFails \/ UNCHANGED toolStreamVars
    PROVE  ToolStreamInductive'
<1>1. /\ UNCHANGED <<provider, consumer, reply, received, streamAttempt, wasted, collected, completion>>
      /\ streamState' \in {"on", "failed", "ended"}
      /\ streamState' = "on" => streamState = "on"
      /\ streamState' = "failed" =>
            streamState = "failed" \/ (streamState = "on" /\ (provider = "pool" => received = 0))
      /\ streamState' = "ended" => streamState = "ended" \/ received = Len(reply.chunks)
  BY DEF EndStream, StreamFails, toolStreamVars, ToolStreamInductive, ToolStreamTyped, ToolStreamTypeOK
<1>2. /\ CallsOfReply' = CallsOfReply /\ (Fragmented' <=> Fragmented)
      /\ \A k : (Parses(k)' <=> Parses(k)) /\ BegunIn(k)' = BegunIn(k)
      /\ (Namesakes' <=> Namesakes) /\ \A s : Whole(s)' <=> Whole(s)
      /\ \A chunk : Decoded(chunk)' = Decoded(chunk)
  BY <1>1, ReplyStays
<1>3. ToolStreamTyped'
  BY <1>1 DEF ToolStreamInductive, ToolStreamTyped, ToolStreamTypeOK, RepliesTo
<1>4. FirstChunkFirst'
  BY <1>1 DEF ToolStreamInductive, FirstChunkFirst
<1>5. Begun' = Begun
  BY <1>1, <1>2 DEF Begun
<1>6. NamesFit' /\ PoolGivesAll'
  BY <1>1, <1>2, <1>5 DEF ToolStreamInductive, NamesFit, PoolGivesAll
<1>7. ChunksMerged' /\ LastChunkKept'
  BY <1>1, <1>2 DEF ToolStreamInductive, ChunksMerged, LastChunkKept
<1>8. EndedHasAll' /\ ResultIsCaptured'
  BY <1>1, <1>2 DEF ToolStreamInductive, EndedHasAll, ResultIsCaptured
<1>9. QED
  BY <1>3, <1>4, <1>6, <1>7, <1>8 DEF ToolStreamInductive

\* The second reply is another, and what was collected is all of the first.
LEMMA RetryKeeps ==
    ASSUME ToolStreamInductive, RetryWithoutSearch
    PROVE  ToolStreamInductive'
<1>1. /\ streamState = "on" /\ streamAttempt = 1 /\ (provider = "pool" => received = 0)
      /\ streamAttempt' = 2 /\ wasted' = received /\ received' = 0 /\ reply' \in RepliesTo(provider)
      /\ UNCHANGED <<provider, consumer, collected, completion, streamState>>
  BY DEF RetryWithoutSearch
<1>2. /\ wasted = 0 /\ received \in Nat /\ reply' \in ReplyKinds
      /\ collected \in Seq(CollectedCall) /\ (received = 0 => collected = <<>>)
      /\ completion = "none"
  BY <1>1, ReplyFacts
     DEF ToolStreamInductive, ToolStreamTyped, ToolStreamTypeOK, FirstChunkFirst, RepliesTo
<1>3. Len(reply'.chunks) \in Nat /\ 0 \in 0..Len(reply'.chunks)
  <2>1. PICK r \in ReplyKinds : r = reply'
    BY <1>2
  <2>2. Len(r.chunks) \in Nat
    BY ReplyFacts
  <2>3. QED
    BY <2>1, <2>2
<1>4. ToolStreamTyped'
  <2>1. RepliesTo(provider)' = RepliesTo(provider)
    BY <1>1 DEF RepliesTo
  <2>2. QED
    BY <1>1, <1>2, <1>3, <2>1 DEF ToolStreamInductive, ToolStreamTyped, ToolStreamTypeOK
<1>5. FirstChunkFirst'
  BY <1>1, <1>2 DEF FirstChunkFirst
<1>6. CASE received = 0
  <2>1. (received = 0 /\ collected = <<>> /\ completion = "none" /\ streamState = "on")'
    BY <1>1, <1>2, <1>6
  <2>2. (NamesFit /\ PoolGivesAll /\ ChunksMerged /\ LastChunkKept /\ EndedHasAll /\ ResultIsCaptured)'
    BY <2>1, FreshFits, PTL
  <2>3. QED
    BY <1>4, <1>5, <2>2 DEF ToolStreamInductive
<1>7. CASE received # 0
  <2>1. provider = "openai" /\ wasted' > 0 /\ wasted' # 0 /\ provider' = "openai"
    BY <1>1, <1>2, <1>7 DEF ToolStreamInductive, ToolStreamTyped, ToolStreamTypeOK
  <2>2. \A key \in KeysIn(collected) : key[1] = 1
    BY <1>1 DEF ToolStreamInductive, NamesFit
  <2>3. Named(collected) \subseteq KeysIn(collected)
    BY Zenon DEF Named, KeysIn
  <2>4. NamesFit'
    BY <1>1, <2>1, <2>2, <2>3 DEF ToolStreamInductive, NamesFit
  <2>5. PoolGivesAll' /\ ChunksMerged' /\ LastChunkKept'
    BY <2>1 DEF PoolGivesAll, ChunksMerged, LastChunkKept
  <2>6. EndedHasAll' /\ ResultIsCaptured'
    BY <1>1, <1>2 DEF EndedHasAll, ResultIsCaptured
  <2>7. QED
    BY <1>4, <1>5, <2>4, <2>5, <2>6 DEF ToolStreamInductive
<1>8. QED
  BY <1>6, <1>7

LEMMA ToolStreamSteps ==
    ToolStreamInductive /\ [ToolStreamNext]_toolStreamVars => ToolStreamInductive'
  BY HandOverKeeps, RetryKeeps, StopKeeps DEF ToolStreamNext

-----------------------------------------------------------------------------
(* What the invariant says *)

\* Each call of the reply has a piece in some chunk.
LEMMA CallsHaveChunks ==
    ASSUME ToolStreamTyped
    PROVE  /\ DOMAIN reply.chunks = 1..Len(reply.chunks) /\ Len(reply.chunks) \in Nat
           /\ \A k \in CallsOfReply : \E j \in DOMAIN reply.chunks : \E a \in DOMAIN reply.chunks[j] :
                 reply.chunks[j][a].call = k
           /\ \A j \in DOMAIN reply.chunks : (\E a : a \in DOMAIN reply.chunks[j]) => reply.chunks[j] # <<>>
<1>1. PICK r \in ReplyKinds : r = reply
  BY DEF ToolStreamTyped, ToolStreamTypeOK
<1>2. /\ DOMAIN r.chunks = 1..Len(r.chunks) /\ Len(r.chunks) \in Nat
      /\ \A k \in CallsOf(r) : \E j \in DOMAIN r.chunks : \E a \in DOMAIN r.chunks[j] :
            r.chunks[j][a].call = k
  BY ReplyFacts, Zenon
<1>3. \A j \in DOMAIN reply.chunks : (\E a : a \in DOMAIN reply.chunks[j]) => reply.chunks[j] # <<>>
  OBVIOUS
<1>4. QED
  BY <1>1, <1>2, <1>3 DEF CallsOfReply

\* What is whole and has every call is what the property asks for.
LEMMA WholeIsRight ==
    ASSUME ToolStreamTyped, NEW s, Whole(s), CallsOfReply \subseteq CallsIn(s)
    PROVE  /\ \A k \in CallsOfReply : \E i \in DOMAIN s : s[i].call = k
           /\ \A i, j \in DOMAIN s : s[i].call = s[j].call => i = j
           /\ \A i \in DOMAIN s :
                 /\ s[i].call \in CallsOfReply
                 /\ IF Parses(s[i].call)
                    THEN /\ s[i].name = reply.asked[s[i].call].name
                         /\ s[i].args = {[attempt |-> streamAttempt, call |-> s[i].call, whole |-> TRUE]}
                    ELSE s[i].args = {}
<1>1. reply \in ReplyKinds /\ streamAttempt \in {1, 2}
  BY DEF ToolStreamTyped, ToolStreamTypeOK
<1>2. \A k \in CallsOfReply : \E i \in DOMAIN s : s[i].call = k
  BY DEF CallsIn
<1>3. \A i, j \in DOMAIN s : s[i].call = s[j].call => i = j
  BY DEF Whole, OnceEach
<1>4. ASSUME NEW i \in DOMAIN s
      PROVE  /\ s[i].call \in CallsOfReply
             /\ IF Parses(s[i].call)
                THEN /\ s[i].name = reply.asked[s[i].call].name
                     /\ s[i].args = {[attempt |-> streamAttempt, call |-> s[i].call, whole |-> TRUE]}
                ELSE s[i].args = {}
  <2>1. s[i] \in WholeOnes
    <3>1. s \in Seq(WholeOnes)
      BY DEF Whole
    <3>2. QED
      BY <1>4, <3>1, CallsAreTyped
  <2>2. PICK k \in CallsOfReply : s[i] = WholeCall(k) /\ s[i].call = k
    BY <1>1, <2>1, WholeOnesTyped
  <2>3. CASE Parses(k)
    <3>1. reply.asked[k].args # "odd"
      BY <2>3 DEF Parses
    <3>2. Parsed(k, "whole") = {[attempt |-> streamAttempt, call |-> k, whole |-> TRUE]}
      BY <2>3 DEF Parsed, Parses
    <3>3. WholeCall(k).name = reply.asked[k].name /\ WholeCall(k).args = Parsed(k, "whole")
      BY <3>1 DEF WholeCall
    <3>4. QED
      BY <2>2, <2>3, <3>2, <3>3
  <2>4. CASE ~Parses(k)
    <3>1. Parsed(k, "whole") = {}
      BY <2>4 DEF Parsed, Parses
    <3>2. WholeCall(k).args = Parsed(k, "whole")
      BY DEF WholeCall
    <3>3. QED
      BY <2>2, <2>4, <3>1, <3>2
  <2>5. QED
    BY <2>3, <2>4
<1>5. QED
  BY <1>2, <1>3, <1>4

\* A reply that comes in one chunk, in whole pieces, is whole at its end.
LEMMA OneChunkIsWhole ==
    ASSUME ToolStreamTyped, LastChunkKept, provider = "openai", consumer # "ptc", wasted = 0,
           received = Len(reply.chunks), ~Fragmented, OneDelta
    PROVE  Whole(collected) /\ CallsOfReply \subseteq CallsIn(collected)
<1>1. /\ reply \in RepliesTo("openai") /\ streamAttempt \in {1, 2}
      /\ collected = <<>> \/ \E j \in DOMAIN reply.chunks : collected = Decoded(reply.chunks[j])
      /\ \A j \in 1..Len(reply.chunks) : reply.chunks[j] # <<>> => collected # <<>>
  BY DEF ToolStreamTyped, ToolStreamTypeOK, LastChunkKept
<1>2. CASE collected = <<>>
  BY <1>1, <1>2, CallsHaveChunks, NothingCollected
<1>3. CASE collected # <<>>
  <2>1. PICK j \in DOMAIN reply.chunks : collected = Decoded(reply.chunks[j])
    BY <1>1, <1>3
  <2>2. PICK d : d = Decoded(reply.chunks[j])
    OBVIOUS
  <2>3. /\ DOMAIN d = DOMAIN reply.chunks[j]
        /\ \A a \in DOMAIN d : d[a].call = reply.chunks[j][a].call
        /\ d \in Seq(WholeOnes) /\ OnceEach(d)
    BY <1>1, <2>2, DecodedChunk
  <2>4. reply.chunks[j] # <<>>
    <3>1. d # <<>>
      BY <1>3, <2>1, <2>2
    <3>2. reply.chunks[j] = <<>> => d = <<>>
      BY <2>3
    <3>3. QED
      BY <3>1, <3>2
  <2>5. \A i \in DOMAIN reply.chunks : reply.chunks[i] # <<>> => i = j
    BY <2>4 DEF OneDelta
  <2>6. ASSUME NEW k \in CallsOfReply PROVE k \in CallsIn(d)
    <3>1. PICK i \in DOMAIN reply.chunks : \E a \in DOMAIN reply.chunks[i] : reply.chunks[i][a].call = k
      BY CallsHaveChunks
    <3>2. reply.chunks[i] # <<>>
      BY <3>1, CallsHaveChunks
    <3>3. i = j
      BY <2>5, <3>2
    <3>4. QED
      BY <2>3, <3>1, <3>3 DEF CallsIn
  <2>7. QED
    BY <2>1, <2>2, <2>3, <2>6 DEF Whole
<1>4. QED
  BY <1>2, <1>3

LEMMA InductiveIsWhole == ToolStreamInductive => WholeUnlessFragmented
<1> SUFFICES ASSUME ToolStreamInductive, streamState = "ended", completion = "none", wasted = 0,
                    ~(provider = "openai" /\ (Fragmented \/ (~OneDelta /\ consumer # "ptc"))),
                    ~(consumer = "ptc" /\ Namesakes)
             PROVE  /\ \A k \in CallsOfReply : \E i \in DOMAIN collected : collected[i].call = k
                    /\ \A i, j \in DOMAIN collected : collected[i].call = collected[j].call => i = j
                    /\ \A i \in DOMAIN collected :
                          /\ collected[i].call \in CallsOfReply
                          /\ IF Parses(collected[i].call)
                             THEN /\ collected[i].name = reply.asked[collected[i].call].name
                                  /\ collected[i].args =
                                        {[attempt |-> streamAttempt, call |-> collected[i].call, whole |-> TRUE]}
                             ELSE collected[i].args = {}
  BY DEF WholeUnlessFragmented
<1>1. /\ ToolStreamTyped /\ FirstChunkFirst /\ PoolGivesAll /\ ChunksMerged /\ LastChunkKept
      /\ received = Len(reply.chunks)
  BY DEF ToolStreamInductive, EndedHasAll
<1>2. Whole(collected) /\ CallsOfReply \subseteq CallsIn(collected)
  <2>1. CASE provider = "pool"
    <3>1. CASE received = 0
      <4>1. collected = <<>>
        BY <3>1, <1>1 DEF FirstChunkFirst
      <4>2. CallsOfReply = {}
        <5>1. DOMAIN reply.chunks = {}
          BY <1>1, <3>1, CallsHaveChunks
        <5>2. QED
          BY <1>1, <5>1, CallsHaveChunks
      <4>3. QED
        BY <4>1, <4>2, NothingCollected
    <3>2. CASE received # 0
      BY <1>1, <2>1, <3>2 DEF PoolGivesAll
    <3>3. QED
      BY <3>1, <3>2
  <2>2. CASE provider = "openai" /\ consumer = "ptc"
    <3>1. /\ Whole(collected)
          /\ \A j \in 1..received : \A a \in DOMAIN reply.chunks[j] :
                reply.chunks[j][a].call \in CallsIn(collected)
      BY <1>1, <2>2 DEF ChunksMerged
    <3>2. QED
      BY <1>1, <3>1, CallsHaveChunks
  <2>3. CASE provider = "openai" /\ consumer # "ptc"
    BY <1>1, <2>3, OneChunkIsWhole
  <2>4. QED
    BY <1>1, <2>1, <2>2, <2>3 DEF ToolStreamTyped, ToolStreamTypeOK
<1>3. QED
  BY <1>1, <1>2, WholeIsRight

LEMMA InductiveIsNamedOnce == ToolStreamInductive => NamedOnce /\ TwiceNeedsLateRefusal
<1> SUFFICES ASSUME ToolStreamInductive PROVE NamedOnce /\ TwiceNeedsLateRefusal
  OBVIOUS
<1>1. ToolStreamTyped /\ FirstChunkFirst /\ NamesFit
  BY DEF ToolStreamInductive
<1>2. /\ \A i \in DOMAIN collected : /\ KeyOf(collected[i]) \in KeysIn(collected)
                                     /\ collected[i] \in CollectedCall
      /\ streamAttempt \in {1, 2} /\ provider \in {"openai", "pool"}
  BY <1>1, CallsAreTyped DEF KeysIn, ToolStreamTyped, ToolStreamTypeOK
<1>3. \A i \in DOMAIN collected : /\ streamAttempt = 1 => collected[i].attempt = 1
                                  /\ collected[i].attempt = streamAttempt => collected[i].call \in CallsOfReply
                                  /\ collected[i].attempt # streamAttempt => wasted > 0
  BY <1>1, <1>2 DEF NamesFit, KeyOf
<1>4. NamedOnce
  BY <1>1, <1>3 DEF NamedOnce, NamesFit, NamedApart, KeyOf
<1>5. TwiceNeedsLateRefusal
  BY <1>1, <1>2, <1>3 DEF TwiceNeedsLateRefusal, FirstChunkFirst
<1>6. QED
  BY <1>4, <1>5

\* What is executed of a streamed reply is what the reply asks for, once each
\* and with the arguments that parse, unless the server sent it in pieces or
\* nothing tells its calls apart (openai.go, pool/client.go, runtime.go,
\* subagent.go, service_ptc.go).
THEOREM StreamedCallsAreWhole == ToolStreamSpec => []ToolStreamInv
<1>1. ToolStreamInductive => ToolStreamInv
  BY InductiveIsWhole, InductiveIsNamedOnce DEF ToolStreamInductive, ToolStreamTyped, ToolStreamInv
<1>2. QED
  BY ToolStreamStarts, ToolStreamSteps, <1>1, PTL DEF ToolStreamSpec

-----------------------------------------------------------------------------
(* The calls of agents *)

\* Whatever an agent is to call, by a plan, by a streamed reply or over ACP, is
\* executed and reported as it was asked for (executor.go, openai.go,
\* runtime.go, subagent.go, service_ptc.go, acp/server.go).
THEOREM AgentCallsAreSound == AgentCallsSpec => []AgentCallsInv
<1>1. PlanExecutionInv /\ ToolStreamInv /\ AcpToolCallsInv => AgentCallsInv
  BY DEF AgentCallsInv
<1>2. QED
  BY PlansAreSound, StreamedCallsAreWhole, AcpToolCallsAreTold, <1>1, PTL DEF AgentCallsSpec
=============================================================================
