--------------------------- MODULE SquadMembership ---------------------------
(* Squads, their agents and leads, and the services built for the agents      *)
(* (pkg/agent/squad_agents.go, squad_manager.go, store_memberships.go).  The   *)
(* store serializes single calls; an operation makes several, without a lock   *)
(* of its own, and the consecutive reads of one check are one step here.       *)
EXTENDS Naturals, FiniteSets

CONSTANTS
    Squads,         \* ids of squads
    Agents,         \* agents; one that was deleted is not created again
    LeadOf,         \* the agent CreateSquad gives a squad as its lead
    SquadCallers,   \* goroutines that call the manager
    NoService,      \* what services holds for an agent that has none
    MaxSquadCalls,  \* bound: calls in a behaviour
    MaxRowFaults    \* bound: statements of the database that fail

ASSUME SquadMembershipAssumption ==
    /\ LeadOf \in [Squads -> Agents] /\ NoService \notin Agents \cup Squads
    /\ MaxSquadCalls \in Nat /\ MaxRowFaults \in Nat

VARIABLES
    squads,      \* table teams
    agents,      \* table agents
    role,        \* table squad_memberships: role[a][s]
    service,     \* SquadManager.services: what the service was built from
    building,    \* the build that holds m.mu: agent and what it has read
    call,        \* what each caller is doing
    born,        \* history: agents and squads there have been
    outdated,    \* history: services that a deletion left behind
    squadCalls,  \* bound: calls so far
    rowFaults    \* bound: failed statements so far

rowVars == <<squads, agents, role>>
squadVars == <<squads, agents, role, service, building, call, born, outdated,
               squadCalls, rowFaults>>

Member == {"captain", "specialist"}

Leads(s) == {a \in Agents : role[a][s] = "captain"}
MembersOf(s) == {a \in Agents : role[a][s] \in Member}
SquadsOf(a) == {s \in Squads : role[a][s] \in Member}

\* ListSquadAgentsForSquad fails when a membership names an unknown agent.
Listable(s) == MembersOf(s) \subseteq agents

\* What the prompt of an agent says: its roles and, for a captain, the rosters.
View(a) ==
    [s \in Squads |->
        {<<b, role[b][s]>> : b \in IF role[a][s] = "captain" /\ Listable(s)
                                   THEN MembersOf(s)
                                   ELSE MembersOf(s) \cap {a}}]

Idle == [do |-> "none", at |-> "idle", agent |-> NoService, squad |-> NoService,
         role |-> "none", seen |-> [s \in Squads |-> {}], clear |-> {}]

SquadMembershipInit ==
    /\ squads \in {{}, Squads} /\ agents = {LeadOf[s] : s \in squads}
    /\ born = squads \cup agents
    /\ role = [a \in Agents |-> [s \in Squads |->
                    IF s \in squads /\ a = LeadOf[s] THEN "captain" ELSE "none"]]
    /\ service = [a \in Agents |-> NoService] /\ building = NoService
    /\ call = [c \in SquadCallers |-> Idle]
    /\ outdated = {} /\ squadCalls = 0 /\ rowFaults = 0

-----------------------------------------------------------------------------
\* Begin: a call reads the tables and passes its checks; one that does not
\* pass them returns an error and changes nothing.

Begin(c, do, at, a, s, r, seen) ==
    /\ call[c].at \in {"idle", "lead"}
    /\ call' = [call EXCEPT ![c] =
                    [do |-> do, at |-> at, agent |-> a, squad |-> s, role |-> r,
                     seen |-> seen, clear |-> {}]]

LeadsNow == [s \in Squads |-> Leads(s)]

\* ensureSingleLeadPerSquad
SingleLead(a, s, r) == r = "captain" => Leads(s) \subseteq {a}

\* ensureLeadRemovalAllowed
RemovalAllowed(a, s) == role[a][s] = "captain" => Cardinality(Leads(s)) > 1

Count == squadCalls < MaxSquadCalls /\ squadCalls' = squadCalls + 1

Quiet == UNCHANGED <<service, building, outdated, rowFaults>>

Wrong_JoinCheck(c, a, s, r) ==
    /\ a \in agents /\ s \in squads
    /\ Begin(c, "join", "write", a, s, r, LeadsNow)

JoinCheck(c, a, s, r) ==
    /\ a \in agents /\ s \in squads /\ SingleLead(a, s, r)
    /\ Begin(c, "join", "write", a, s, r, LeadsNow)

\* CreateAgent into a squad; the id is new, so any lead of the squad is another's.
CreateCheck(c, a, s, r) ==
    /\ s \in squads /\ SingleLead(NoService, s, r)
    /\ Begin(c, "create", "save", a, s, r, LeadsNow)

JoinSquad(c, a, s, r) ==
    /\ call[c].at = "idle" /\ Count /\ JoinCheck(c, a, s, r)
    /\ UNCHANGED <<rowVars, born>> /\ Quiet

CreateAgent(c, a, s, r) ==
    /\ call[c].at = "idle" /\ Count /\ a \notin born /\ CreateCheck(c, a, s, r)
    /\ UNCHANGED <<rowVars, born>> /\ Quiet

CreateStandalone(c, a) ==
    /\ call[c].at = "idle" /\ Count /\ a \notin born
    /\ agents' = agents \cup {a} /\ born' = born \cup {a}
    /\ UNCHANGED <<squads, role, call>> /\ Quiet

LeaveSquad(c, a, s) ==
    /\ call[c].at = "idle" /\ Count
    /\ a \in agents /\ s \in SquadsOf(a) /\ RemovalAllowed(a, s)
    /\ Begin(c, "leave", "remove", a, s, "none", LeadsNow)
    /\ UNCHANGED <<rowVars, born>> /\ Quiet

DeleteAgent(c, a) ==
    /\ call[c].at = "idle" /\ Count
    /\ a \in agents /\ \A s \in SquadsOf(a) : RemovalAllowed(a, s)
    /\ Begin(c, "delete", "own", a, NoService, "none", LeadsNow)
    /\ UNCHANGED <<rowVars, born>> /\ Quiet

UpdateAgent(c, a) ==
    /\ call[c].at = "idle" /\ Count /\ a \in agents
    /\ Begin(c, "update", "put", a, NoService, "none", LeadsNow)
    /\ UNCHANGED <<rowVars, born>> /\ Quiet

\* DeleteSquad reads the members once, before its loop.
DeleteSquad(c, s) ==
    /\ call[c].at = "idle" /\ Count /\ s \in squads
    /\ Begin(c, "deleteSquad", "next", NoService, s, "none",
             [t \in Squads |-> IF t = s THEN MembersOf(s) ELSE {}])
    /\ UNCHANGED <<rowVars, born>> /\ Quiet

\* CreateSquad saves the squad first; its lead is the rest of the call.
CreateSquad(c, s) ==
    /\ call[c].at = "idle" /\ Count /\ s \notin born
    /\ squads' = squads \cup {s} /\ born' = born \cup {s}
    /\ Begin(c, "createSquad", "lead", LeadOf[s], s, "captain", LeadsNow)
    /\ UNCHANGED <<agents, role>> /\ Quiet

GiveLead(c) ==
    /\ call[c].at = "lead"
    /\ LET a == call[c].agent  s == call[c].squad
       IN \/ JoinCheck(c, a, s, "captain")
          \/ a \notin born /\ CreateCheck(c, a, s, "captain")
          \/ \* The squad is gone or has another lead: an error.
             /\ s \notin squads \/ ~SingleLead(a, s, "captain")
             /\ call' = [call EXCEPT ![c] = Idle]
    /\ UNCHANGED <<rowVars, born, squadCalls>> /\ Quiet

-----------------------------------------------------------------------------
\* The statements that change the tables.

Goto(c, at) == call' = [call EXCEPT ![c].at = at]
Return(c) == call' = [call EXCEPT ![c] = Idle]

Left == UNCHANGED <<service, building, born, squadCalls>>

\* The services, built or being built, whose view a deletion changes.
Outdate ==
    outdated' = outdated \cup
        {a \in Agents : /\ View(a)' # View(a)
                        /\ \/ service[a] # NoService
                           \/ building # NoService /\ building.agent = a}

\* SaveAgentModel of a new agent; the name may have been taken meanwhile.
SaveAgent(c) ==
    /\ call[c].at = "save"
    /\ \/ /\ call[c].agent \notin born
          /\ agents' = agents \cup {call[c].agent}
          /\ born' = born \cup {call[c].agent}
          /\ Goto(c, "write")
       \/ /\ call[c].agent \in agents
          /\ Return(c) /\ UNCHANGED <<agents, born>>
    /\ UNCHANGED <<squads, role, service, building, outdated, squadCalls, rowFaults>>

\* SaveSquadMembership inserts or replaces the row; no key ties it to its
\* agent or its squad.
SaveMembership(c) ==
    /\ call[c].at = "write"
    /\ role' = [role EXCEPT ![call[c].agent][call[c].squad] = call[c].role]
    /\ Goto(c, "own")
    /\ Left /\ UNCHANGED <<squads, agents, outdated, rowFaults>>

\* The row is not saved: CreateAgent takes its agent back, the others return.
SaveMembershipFails(c) ==
    /\ call[c].at = "write" /\ rowFaults < MaxRowFaults
    /\ IF call[c].do = "create" THEN Goto(c, "undo") ELSE Return(c)
    /\ rowFaults' = rowFaults + 1
    /\ Left /\ UNCHANGED <<rowVars, outdated>>

RemoveMembership(c) ==
    /\ call[c].at = "remove"
    /\ role' = [role EXCEPT ![call[c].agent][call[c].squad] = "none"]
    /\ Goto(c, "own")
    /\ Left /\ UNCHANGED <<squads, agents, outdated, rowFaults>>

\* DeleteAgentModel: the memberships and the agent, under the store's lock.
ForgetAgent(a) ==
    /\ agents' = agents \ {a}
    /\ role' = [role EXCEPT ![a] = [s \in Squads |-> "none"]]

DropAgent(c) ==
    /\ call[c].at \in {"drop", "undo", "dropLead"}
    /\ ForgetAgent(call[c].agent)
    /\ IF call[c].at = "dropLead" THEN Goto(c, "next") ELSE Return(c)
    /\ Outdate /\ Left /\ UNCHANGED <<squads, rowFaults>>

\* UpdateAgent writes the row it has read, whether or not it is still there.
PutAgent(c) ==
    /\ call[c].at = "put"
    /\ agents' = agents \cup {call[c].agent}
    /\ Goto(c, "own")
    /\ Left /\ UNCHANGED <<squads, role, rowFaults>> /\ Outdate

-----------------------------------------------------------------------------
\* DeleteSquad: member by member, then the squad.

NextMember(c) ==
    /\ call[c].at = "next"
    /\ LET s == call[c].squad
           left == call[c].seen[s]
       IN \/ /\ left = {}
             /\ Goto(c, "team")
          \/ \E a \in left :
                IF a \in agents
                THEN call' = [call EXCEPT ![c].agent = a, ![c].at = "own",
                                          ![c].seen[s] = @ \ {a}]
                ELSE Return(c)
    /\ Left /\ UNCHANGED <<rowVars, outdated, rowFaults>>

\* DeleteSquadMembership, then the agent's other memberships are listed.
Unlink(c) ==
    /\ call[c].at = "unlink"
    /\ LET a == call[c].agent  s == call[c].squad
       IN /\ role' = [role EXCEPT ![a][s] = "none"]
          /\ Goto(c, IF SquadsOf(a) \subseteq {s} /\ a = LeadOf[s]
                     THEN "dropLead" ELSE "next")
    /\ Left /\ UNCHANGED <<squads, agents, rowFaults>> /\ Outdate

DropSquad(c) ==
    /\ call[c].at = "team"
    /\ squads' = squads \ {call[c].squad}
    /\ Return(c)
    /\ Left /\ UNCHANGED <<agents, role, outdated, rowFaults>>

-----------------------------------------------------------------------------
\* Cached services.

MuFree == building = NoService

\* clearCachedAgent, under m.mu
DropService(a) ==
    /\ MuFree
    /\ service' = [service EXCEPT ![a] = NoService]
    /\ outdated' = outdated \ {a}

ClearOwn(c) ==
    /\ call[c].at = "own" /\ DropService(call[c].agent)
    /\ CASE call[c].do = "delete" -> Goto(c, "drop")
         [] call[c].do = "update" -> Return(c)
         [] OTHER -> Goto(c, "list")
    /\ UNCHANGED <<rowVars, building, born, squadCalls, rowFaults>>

AfterCaptains(c) == IF call[c].do = "deleteSquad" THEN Goto(c, "unlink") ELSE Return(c)

\* clearSquadCaptainCache lists the captains; an error ends it without a word.
ListCaptains(c) ==
    /\ call[c].at = "list"
    /\ LET s == call[c].squad
       IN IF Listable(s) /\ Leads(s) # {}
          THEN /\ call' = [call EXCEPT ![c].at = "captains", ![c].clear = Leads(s)]
               /\ UNCHANGED outdated
          ELSE /\ AfterCaptains(c)
               /\ outdated' = outdated \cup Leads(s)
    /\ Left /\ UNCHANGED <<rowVars, rowFaults>>

ClearCaptain(c) ==
    /\ call[c].at = "captains"
    /\ \E a \in call[c].clear :
          /\ DropService(a)
          /\ IF call[c].clear # {a}
             THEN call' = [call EXCEPT ![c].clear = @ \ {a}]
             ELSE IF call[c].do = "deleteSquad"
             THEN call' = [call EXCEPT ![c].clear = {}, ![c].at = "unlink"]
             ELSE Return(c)
    /\ UNCHANGED <<rowVars, building, born, squadCalls, rowFaults>>

\* getOrBuildService holds m.mu while it reads the store and builds.
BuildRead(a) ==
    /\ MuFree /\ service[a] = NoService /\ a \in agents
    /\ building' = [agent |-> a, view |-> View(a)]
    /\ UNCHANGED <<rowVars, service, call, born, outdated, squadCalls, rowFaults>>

BuildDone ==
    /\ building # NoService
    /\ service' = [service EXCEPT ![building.agent] = building.view]
    /\ building' = NoService
    /\ UNCHANGED <<rowVars, call, born, outdated, squadCalls, rowFaults>>

-----------------------------------------------------------------------------
SquadMembershipNext ==
    \/ \E c \in SquadCallers :
          \/ \E a \in Agents, s \in Squads :
                \/ \E r \in Member : JoinSquad(c, a, s, r) \/ CreateAgent(c, a, s, r)
                \/ LeaveSquad(c, a, s)
          \/ \E a \in Agents : CreateStandalone(c, a) \/ DeleteAgent(c, a) \/ UpdateAgent(c, a)
          \/ \E s \in Squads : DeleteSquad(c, s) \/ CreateSquad(c, s)
          \/ GiveLead(c) \/ SaveAgent(c) \/ SaveMembership(c) \/ SaveMembershipFails(c)
          \/ RemoveMembership(c) \/ DropAgent(c) \/ PutAgent(c)
          \/ NextMember(c) \/ Unlink(c) \/ DropSquad(c)
          \/ ClearOwn(c) \/ ListCaptains(c) \/ ClearCaptain(c)
    \/ \E a \in Agents : BuildRead(a)
    \/ BuildDone

SquadMembershipSpec == SquadMembershipInit /\ [][SquadMembershipNext]_squadVars

-----------------------------------------------------------------------------
\* The caller that made the step.
Acts(c) == call'[c] # call[c]

\* A squad has two leads only when the call that added one had looked before
\* the other came: the check of ensureSingleLeadPerSquad was out of date.
SecondLeadNeedsOverlap ==
    \A s \in Squads :
        Cardinality(Leads(s)') > 1 /\ ~(Leads(s)' \subseteq Leads(s)) =>
            \E c \in SquadCallers :
                Acts(c) /\ call[c].at = "write" /\ call[c].seen[s] # Leads(s)

\* The last lead of a squad goes only with the squad, by JoinSquad giving the
\* lead another role (which ensureLeadRemovalAllowed is not asked about), by
\* DeleteSquad of another squad whose generated lead joined this one meanwhile,
\* or when the leads have changed since they were counted.
LastLeadStays ==
    \A s \in squads :
        Leads(s) # {} /\ Leads(s)' = {} =>
            \E c \in SquadCallers : Acts(c) /\
                \/ call[c].do = "deleteSquad" /\ (call[c].squad = s \/ call[c].at = "dropLead")
                \/ call[c].at = "write" /\ call[c].role = "specialist"
                \/ call[c].seen[s] # Leads(s)

\* A membership of an agent or a squad that does not exist appears only when a
\* JoinSquad writes what it checked earlier, or a DeleteSquad ends that had
\* listed the members before this one came: deleting an agent leaves none.
Orphan(a, s) == role[a][s] \in Member /\ (a \notin agents \/ s \notin squads)

OrphansNeedOverlap ==
    \A a \in Agents, s \in Squads :
        Orphan(a, s)' /\ ~Orphan(a, s) =>
            \E c \in SquadCallers : Acts(c) /\
                \/ call[c].at = "write" /\ call[c].agent = a /\ call[c].squad = s
                \/ call[c].at = "team" /\ call[c].squad = s

\* A call that has changed the view of agent a, or may have, and has yet to
\* clear the service of a.
ClearPending(a) ==
    \E c \in SquadCallers :
        \/ call[c].at = "own" /\ call[c].agent = a
        \/ call[c].at \in {"own", "list"} /\ call[c].do \in {"join", "create", "leave"}
           /\ role[a][call[c].squad] = "captain"
        \/ a \in call[c].clear

\* A cached service shows its agent's roles and rosters as they are, unless
\* the call that changed them is still about to clear it, or a deletion (which
\* clears before it deletes) or an unlistable squad left it behind.
ServicesAreCurrent ==
    \A a \in Agents :
        service[a] # NoService /\ service[a] # View(a) =>
            ClearPending(a) \/ a \in outdated

SquadMembershipCorrect ==
    /\ []ServicesAreCurrent
    /\ [][role' # role => SecondLeadNeedsOverlap /\ LastLeadStays]_squadVars
    /\ [][<<role, agents, squads>>' # <<role, agents, squads>> => OrphansNeedOverlap]_squadVars
=============================================================================
