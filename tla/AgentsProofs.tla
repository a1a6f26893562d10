----------------------------- MODULE AgentsProofs -----------------------------
(* Proofs about agents at work: the squads they form and the services built for   *)
(* them, the runs of one service, the scripts of programmatic tool calling, the   *)
(* turns of a run and its event loop, subagents, and the operator's terminals.    *)
(* Each part has an inductive invariant, a lemma for the first state, lemmas for  *)
(* the steps, and the theorem.                                                    *)
EXTENDS SquadMembership, ServiceRuns, CodeSandbox, TurnLoop, RuntimeLoop, SubAgent,
        OperatorSessions, FiniteSetTheorems, WellFoundedInduction, TLAPS

-----------------------------------------------------------------------------
(* Squads, their agents and the services built for them *)

Roles == {"none", "captain", "specialist"}
Views == [Squads -> SUBSET (Agents \X Roles)]

SquadCall ==
    [do : {"none", "join", "create", "leave", "delete", "update", "deleteSquad", "createSquad"},
     at : {"idle", "lead", "save", "write", "undo", "remove", "put", "own", "drop", "next",
           "list", "captains", "unlink", "dropLead", "team"},
     agent : Agents \cup {NoService}, squad : Squads \cup {NoService}, role : Roles,
     seen : [Squads -> SUBSET Agents], clear : SUBSET Agents]

SquadTyped ==
    /\ squads \subseteq Squads /\ agents \subseteq Agents
    /\ role \in [Agents -> [Squads -> Roles]]
    /\ service \in [Agents -> Views \cup {NoService}]
    /\ building \in [agent : Agents, view : Views] \cup {NoService}
    /\ call \in [SquadCallers -> SquadCall]
    /\ outdated \subseteq Agents

\* Where each kind of call can be, and whom it is about.
PlaceFits(x) ==
    /\ x.do = "none" => x.at = "idle"
    /\ x.do = "join" => x.at \in {"write", "own", "list", "captains"}
    /\ x.do = "create" => x.at \in {"save", "write", "undo", "own", "list", "captains"}
    /\ x.do = "leave" => x.at \in {"remove", "own", "list", "captains"}
    /\ x.do = "delete" => x.at \in {"own", "drop"}
    /\ x.do = "update" => x.at \in {"put", "own"}
    /\ x.do = "deleteSquad" =>
           x.at \in {"next", "own", "list", "captains", "unlink", "dropLead", "team"}
    /\ x.do = "createSquad" => x.at = "lead"
    /\ x.at \notin {"idle", "next", "team"} => x.agent \in Agents
    /\ x.do \notin {"none", "delete", "update"} => x.squad \in Squads
    /\ x.at # "captains" => x.clear = {}
    /\ x.at \in {"save", "write"} => x.role \in {"captain", "specialist"}

\* What its checks have found, when it still acts on that.
ChecksHeld(x) ==
    /\ x.at \in {"save", "write"} /\ x.role = "captain" => x.seen[x.squad] \subseteq {x.agent}
    /\ x.do = "create" /\ x.at \in {"save", "write", "undo"} =>
           \A t \in Squads : x.agent \notin x.seen[t]
    /\ x.at = "remove" /\ x.agent \in x.seen[x.squad] => Cardinality(x.seen[x.squad]) > 1
    /\ x.do = "delete" =>
           \A t \in Squads : x.agent \in x.seen[t] => Cardinality(x.seen[t]) > 1

CallKnown(x) == x.at \in {"write", "put"} => x.agent \in born

\* An agent that was never there has no rows.
RowsKnown ==
    /\ agents \subseteq born
    /\ \A a \in Agents, s \in Squads : role[a][s] \in {"captain", "specialist"} => a \in born

\* A service that is being built shows what those in the cache show.
BuildIsCurrent ==
    building # NoService /\ building.view # View(building.agent) =>
        ClearPending(building.agent) \/ building.agent \in outdated

SquadInductive ==
    /\ SquadTyped
    /\ \A c \in SquadCallers : PlaceFits(call[c]) /\ ChecksHeld(call[c]) /\ CallKnown(call[c])
    /\ RowsKnown /\ ServicesAreCurrent /\ BuildIsCurrent

LEMMA ViewsAreViews == ASSUME SquadTyped, NEW a \in Agents PROVE View(a) \in Views
<1>1. \A s \in Squads :
        {<<b, role[b][s]>> : b \in IF role[a][s] = "captain" /\ Listable(s)
                                   THEN MembersOf(s)
                                   ELSE MembersOf(s) \cap {a}} \subseteq Agents \X Roles
  BY DEF SquadTyped, MembersOf
<1>2. QED
  BY <1>1 DEF View, Views

LEMMA SquadStart == SquadMembershipInit => SquadInductive
<1> SUFFICES ASSUME SquadMembershipInit PROVE SquadInductive
  OBVIOUS
<1>1. squads \subseteq Squads /\ agents \subseteq Agents /\ agents \subseteq born
  BY SquadMembershipAssumption DEF SquadMembershipInit
<1>2. role \in [Agents -> [Squads -> Roles]]
  BY DEF SquadMembershipInit, Roles
<1>3. Idle \in SquadCall /\ PlaceFits(Idle) /\ ChecksHeld(Idle) /\ CallKnown(Idle)
  BY DEF Idle, SquadCall, Roles, PlaceFits, ChecksHeld, CallKnown
<1>4. call = [c \in SquadCallers |-> Idle]
  BY DEF SquadMembershipInit
<1>5. SquadTyped
  BY <1>1, <1>2, <1>3, <1>4 DEF SquadMembershipInit, SquadTyped
<1>6. RowsKnown
  BY <1>1 DEF SquadMembershipInit, RowsKnown
<1>7. ServicesAreCurrent /\ BuildIsCurrent
  BY DEF SquadMembershipInit, ServicesAreCurrent, BuildIsCurrent
<1>8. QED
  BY <1>3, <1>4, <1>5, <1>6, <1>7 DEF SquadInductive

-----------------------------------------------------------------------------
\* What a view depends on.

LEMMA SameRowsSameView ==
    ASSUME NEW a \in Agents, role' = role,
           \A s \in Squads : Listable(s)' <=> Listable(s)
    PROVE  View(a)' = View(a)
<1>1. \A s \in Squads : MembersOf(s)' = MembersOf(s)
  BY DEF MembersOf
<1>2. \A s \in Squads :
        (IF role'[a][s] = "captain" /\ Listable(s)' THEN MembersOf(s)' ELSE MembersOf(s)' \cap {a})
         = (IF role[a][s] = "captain" /\ Listable(s) THEN MembersOf(s) ELSE MembersOf(s) \cap {a})
  BY <1>1
<1>3. QED
  BY <1>2, ZenonT(60) DEF View

LEMMA SameTablesSameView ==
    ASSUME NEW a \in Agents, role' = role, agents' = agents PROVE View(a)' = View(a)
  BY SameRowsSameView DEF Listable, MembersOf

LEMMA NewAgentSameView ==
    ASSUME RowsKnown, NEW a \in Agents, NEW b, b \notin born, role' = role, agents' = agents \cup {b}
    PROVE  View(a)' = View(a)
  BY SameRowsSameView DEF Listable, MembersOf, RowsKnown, Member

\* The row of agent a in squad s is seen by a, and by who leads s.
LEMMA RowSeenBy ==
    ASSUME NEW a \in Agents, NEW s \in Squads, agents' = agents,
           \A x \in Agents, t \in Squads : x # a \/ t # s => role'[x][t] = role[x][t],
           NEW b \in Agents, b # a, role[b][s] # "captain"
    PROVE  View(b)' = View(b)
<1> DEFINE Who(t) == IF role[b][t] = "captain" /\ Listable(t)
                     THEN MembersOf(t) ELSE MembersOf(t) \cap {b}
<1>1. /\ \A x \in Agents, t \in Squads : t # s => role'[x][t] = role[x][t]
      /\ \A t \in Squads : role'[b][t] = role[b][t]
  OBVIOUS
<1>2. \A t \in Squads : t # s => MembersOf(t)' = MembersOf(t)
  BY <1>1 DEF MembersOf
<1>3. \A t \in Squads : Who(t)' = Who(t)
  <2> SUFFICES ASSUME NEW t \in Squads PROVE Who(t)' = Who(t)
    OBVIOUS
  <2>1. CASE t # s
    BY <1>1, <1>2, <2>1 DEF Listable
  <2>2. CASE t = s
    BY <1>1, <2>2 DEF MembersOf
  <2>3. QED
    BY <2>1, <2>2
<1>4. \A t \in Squads : \A x \in Who(t) : role'[x][t] = role[x][t]
  <2> SUFFICES ASSUME NEW t \in Squads, NEW x \in Who(t) PROVE role'[x][t] = role[x][t]
    OBVIOUS
  <2>1. x \in Agents /\ (t = s => x = b)
    BY DEF MembersOf
  <2>2. QED
    BY <1>1, <2>1
<1>5. \A t \in Squads : {<<x, role'[x][t]>> : x \in Who(t)'} = {<<x, role[x][t]>> : x \in Who(t)}
  <2> SUFFICES ASSUME NEW t \in Squads
               PROVE  {<<x, role'[x][t]>> : x \in Who(t)'} = {<<x, role[x][t]>> : x \in Who(t)}
    OBVIOUS
  <2>1. Who(t)' = Who(t) /\ \A x \in Who(t) : role'[x][t] = role[x][t]
    BY <1>3, <1>4
  <2> HIDE DEF Who
  <2>2. QED
    BY <2>1
<1>6. View(b)' = [t \in Squads |-> {<<x, role'[x][t]>> : x \in Who(t)'}]
  BY DEF View
<1>7. View(b) = [t \in Squads |-> {<<x, role[x][t]>> : x \in Who(t)}]
  BY DEF View
<1>8. QED
  BY <1>1, <1>5, <1>6, <1>7

\* Who leads a squad sees that.
LEMMA LeadSeesItself ==
    ASSUME SquadTyped, SquadTyped', NEW a \in Agents, NEW s \in Squads,
           role[a][s] = "captain", role'[a][s] = "none"
    PROVE  View(a)' # View(a)
<1>1. <<a, "captain">> \in View(a)[s]
  BY DEF View, MembersOf, Member
<1>2. View(a)'[s] = {<<b, role'[b][s]>> : b \in MembersOf(s)' \cap {a}}
  BY DEF View
<1>3. <<a, "captain">> \notin View(a)'[s]
  BY <1>2
<1>4. QED
  BY <1>1, <1>3

-----------------------------------------------------------------------------
\* What a step of one caller leaves alone.

Places == {"idle", "lead", "save", "write", "undo", "remove", "put", "own", "drop", "next",
           "list", "captains", "unlink", "dropLead", "team"}

LEMMA OneCall ==
    ASSUME SquadTyped, NEW c \in SquadCallers, NEW x \in SquadCall, call' = [call EXCEPT ![c] = x]
    PROVE  /\ call' \in [SquadCallers -> SquadCall] /\ call'[c] = x
           /\ \A d \in SquadCallers \ {c} : call'[d] = call[d]
  BY DEF SquadTyped

LEMMA Returns ==
    ASSUME SquadTyped, NEW c \in SquadCallers, Return(c)
    PROVE  /\ call' \in [SquadCallers -> SquadCall] /\ call'[c] = Idle
           /\ \A d \in SquadCallers \ {c} : call'[d] = call[d]
           /\ PlaceFits(call[c])' /\ ChecksHeld(call[c])' /\ CallKnown(call[c])'
<1>1. Idle \in SquadCall
  BY DEF Idle, SquadCall, Roles
<1>2. /\ call' \in [SquadCallers -> SquadCall] /\ call'[c] = Idle
      /\ \A d \in SquadCallers \ {c} : call'[d] = call[d]
  BY <1>1, OneCall DEF Return
<1>3. QED
  BY <1>2 DEF Idle, PlaceFits, ChecksHeld, CallKnown

LEMMA GoesTo ==
    ASSUME SquadTyped, NEW c \in SquadCallers, NEW p \in Places, Goto(c, p)
    PROVE  /\ call' \in [SquadCallers -> SquadCall]
           /\ call'[c].do = call[c].do /\ call'[c].at = p /\ call'[c].agent = call[c].agent
           /\ call'[c].squad = call[c].squad /\ call'[c].role = call[c].role
           /\ call'[c].seen = call[c].seen /\ call'[c].clear = call[c].clear
           /\ \A d \in SquadCallers \ {c} : call'[d] = call[d]
<1>1. call[c] \in SquadCall
  BY DEF SquadTyped
<1>2. [call[c] EXCEPT !.at = p] \in SquadCall
  BY <1>1 DEF SquadCall, Places
<1>3. call' = [call EXCEPT ![c] = [call[c] EXCEPT !.at = p]]
  BY DEF Goto, SquadTyped
<1>4. QED
  BY <1>1, <1>2, <1>3, OneCall DEF SquadCall

LEMMA CallsStay ==
    ASSUME SquadInductive, NEW c \in SquadCallers, born \subseteq born',
           \A d \in SquadCallers \ {c} : call'[d] = call[d],
           PlaceFits(call[c])', ChecksHeld(call[c])', CallKnown(call[c])'
    PROVE  \A d \in SquadCallers : PlaceFits(call[d])' /\ ChecksHeld(call[d])' /\ CallKnown(call[d])'
<1> SUFFICES ASSUME NEW d \in SquadCallers
             PROVE  PlaceFits(call[d])' /\ ChecksHeld(call[d])' /\ CallKnown(call[d])'
  OBVIOUS
<1>1. CASE d = c
  BY <1>1
<1>2. CASE d # c
  BY <1>2 DEF SquadInductive, PlaceFits, ChecksHeld, CallKnown
<1>3. QED
  BY <1>1, <1>2

\* A view that changes has a call that will clear it, or is noted as left behind.
LEMMA CurrentStays ==
    ASSUME ServicesAreCurrent, BuildIsCurrent, SquadTyped,
           service' = service, building' = building, outdated \subseteq outdated',
           \A b \in Agents :
               \/ b \in outdated' \/ ClearPending(b)'
               \/ View(b)' = View(b) /\ ~ClearPending(b)
               \/ service[b] = NoService /\ (building # NoService => building.agent # b)
    PROVE  ServicesAreCurrent' /\ BuildIsCurrent'
<1>1. ServicesAreCurrent'
  BY DEF ServicesAreCurrent
<1>2. BuildIsCurrent'
  BY DEF BuildIsCurrent, SquadTyped
<1>3. QED
  BY <1>1, <1>2

\* Call c is to clear the service of a.
PendingBy(c, a) ==
    \/ call[c].at = "own" /\ call[c].agent = a
    \/ call[c].at \in {"own", "list"} /\ call[c].do \in {"join", "create", "leave"}
       /\ role[a][call[c].squad] = "captain"
    \/ a \in call[c].clear

LEMMA SquadCallMoves ==
    ASSUME SquadInductive, NEW c \in SquadCallers,
           UNCHANGED <<agents, role, service, building>>,
           squads' \subseteq Squads, born \subseteq born',
           outdated \subseteq outdated', outdated' \subseteq Agents,
           call' \in [SquadCallers -> SquadCall],
           \A d \in SquadCallers \ {c} : call'[d] = call[d],
           PlaceFits(call[c])', ChecksHeld(call[c])', CallKnown(call[c])',
           \A b \in Agents : PendingBy(c, b) => PendingBy(c, b)' \/ b \in outdated'
    PROVE  SquadInductive'
<1> USE DEF SquadInductive
<1>1. SquadTyped'
  BY DEF SquadTyped
<1>2. \A d \in SquadCallers : PlaceFits(call[d])' /\ ChecksHeld(call[d])' /\ CallKnown(call[d])'
  BY CallsStay
<1>3. RowsKnown'
  BY DEF RowsKnown
<1>4. \A b \in Agents : View(b)' = View(b)
  BY SameTablesSameView
<1>5. \A b \in Agents : ClearPending(b) => ClearPending(b)' \/ b \in outdated'
  <2> SUFFICES ASSUME NEW b \in Agents, ClearPending(b), b \notin outdated' PROVE ClearPending(b)'
    OBVIOUS
  <2>1. PICK d \in SquadCallers : PendingBy(d, b)
    BY DEF ClearPending, PendingBy
  <2>2. PendingBy(d, b)'
    BY <2>1 DEF PendingBy
  <2>3. QED
    BY <2>2 DEF ClearPending, PendingBy
<1>6. ServicesAreCurrent' /\ BuildIsCurrent'
  BY <1>4, <1>5, CurrentStays
<1>7. QED
  BY <1>1, <1>2, <1>3, <1>6

-----------------------------------------------------------------------------
\* The steps, one kind after the other.

LEMMA BeginsSound ==
    ASSUME SquadInductive, NEW c \in SquadCallers,
           NEW do \in {"join", "create", "leave", "delete", "update", "deleteSquad", "createSquad"},
           NEW at \in Places, NEW a \in Agents \cup {NoService}, NEW s \in Squads \cup {NoService},
           NEW r \in Roles, NEW views \in [Squads -> SUBSET Agents],
           Begin(c, do, at, a, s, r, views),
           UNCHANGED <<agents, role>>, Quiet, squads' \subseteq Squads, born \subseteq born',
           LET x == [do |-> do, at |-> at, agent |-> a, squad |-> s, role |-> r, seen |-> views,
                     clear |-> {}]
           IN  PlaceFits(x) /\ ChecksHeld(x) /\ CallKnown(x)
    PROVE  SquadInductive'
<1> DEFINE x == [do |-> do, at |-> at, agent |-> a, squad |-> s, role |-> r, seen |-> views,
                 clear |-> {}]
<1>1. x \in SquadCall
  BY DEF SquadCall, Places
<1>2. /\ call' \in [SquadCallers -> SquadCall] /\ call'[c] = x
      /\ \A d \in SquadCallers \ {c} : call'[d] = call[d]
  BY <1>1, OneCall DEF Begin, SquadInductive
<1>3. PlaceFits(call[c])' /\ ChecksHeld(call[c])' /\ CallKnown(call[c])'
  <2>1. PlaceFits(x)
    OBVIOUS
  <2>2. ChecksHeld(x)
    OBVIOUS
  <2>3. x.at \in {"write", "put"} => x.agent \in born'
    BY DEF CallKnown
  <2> HIDE DEF x
  <2>4. QED
    BY <1>2, <2>1, <2>2, <2>3 DEF PlaceFits, ChecksHeld, CallKnown
<1>4. \A b \in Agents : ~PendingBy(c, b)
  BY DEF Begin, PendingBy, SquadInductive, PlaceFits
<1>5. outdated' = outdated /\ outdated \subseteq Agents
  BY DEF Quiet, SquadInductive, SquadTyped
<1>6. QED
  BY <1>2, <1>3, <1>4, <1>5, SquadCallMoves DEF Quiet

LEMMA LeadsNowTyped == LeadsNow \in [Squads -> SUBSET Agents]
  BY DEF LeadsNow, Leads

LEMMA JoinCheckSound ==
    ASSUME SquadInductive, NEW c \in SquadCallers, NEW a \in Agents, NEW s \in Squads,
           NEW r \in Member, JoinCheck(c, a, s, r), UNCHANGED <<rowVars, born>>, Quiet
    PROVE  SquadInductive'
<1> DEFINE x == [do |-> "join", at |-> "write", agent |-> a, squad |-> s, role |-> r,
                 seen |-> LeadsNow, clear |-> {}]
<1>1. PlaceFits(x)
  BY DEF PlaceFits, Member
<1>2. ChecksHeld(x)
  BY DEF JoinCheck, SingleLead, LeadsNow, ChecksHeld
<1>3. CallKnown(x)
  BY DEF JoinCheck, SquadInductive, RowsKnown, CallKnown
<1>4. /\ Begin(c, "join", "write", a, s, r, LeadsNow) /\ r \in Roles
      /\ UNCHANGED <<agents, role>> /\ squads' \subseteq Squads /\ born \subseteq born'
  BY DEF JoinCheck, Member, Roles, rowVars, SquadInductive, SquadTyped
<1>5. QED
  BY <1>1, <1>2, <1>3, <1>4, BeginsSound, LeadsNowTyped DEF Places

LEMMA CreateCheckSound ==
    ASSUME SquadInductive, NEW c \in SquadCallers, NEW a \in Agents, NEW s \in Squads,
           NEW r \in Member, a \notin born, CreateCheck(c, a, s, r),
           UNCHANGED <<rowVars, born>>, Quiet
    PROVE  SquadInductive'
<1> DEFINE x == [do |-> "create", at |-> "save", agent |-> a, squad |-> s, role |-> r,
                 seen |-> LeadsNow, clear |-> {}]
<1>1. PlaceFits(x)
  BY DEF PlaceFits, Member
<1>2. ChecksHeld(x)
  <2>1. \A t \in Squads : a \notin LeadsNow[t]
    BY DEF LeadsNow, Leads, SquadInductive, RowsKnown
  <2>2. r = "captain" => LeadsNow[s] \subseteq {a}
    BY SquadMembershipAssumption DEF CreateCheck, SingleLead, LeadsNow, Leads
  <2>3. QED
    BY <2>1, <2>2 DEF ChecksHeld
<1>3. CallKnown(x)
  BY DEF CallKnown
<1>4. /\ Begin(c, "create", "save", a, s, r, LeadsNow) /\ r \in Roles
      /\ UNCHANGED <<agents, role>> /\ squads' \subseteq Squads /\ born \subseteq born'
  BY DEF CreateCheck, Member, Roles, rowVars, SquadInductive, SquadTyped
<1>5. QED
  BY <1>1, <1>2, <1>3, <1>4, BeginsSound, LeadsNowTyped DEF Places

LEMMA LeaveSound ==
    ASSUME SquadInductive, NEW c \in SquadCallers, NEW a \in Agents, NEW s \in Squads,
           LeaveSquad(c, a, s)
    PROVE  SquadInductive'
<1> DEFINE x == [do |-> "leave", at |-> "remove", agent |-> a, squad |-> s, role |-> "none",
                 seen |-> LeadsNow, clear |-> {}]
<1>1. PlaceFits(x) /\ CallKnown(x)
  BY DEF PlaceFits, CallKnown
<1>2. ChecksHeld(x)
  BY DEF LeaveSquad, RemovalAllowed, LeadsNow, Leads, ChecksHeld
<1>3. /\ Begin(c, "leave", "remove", a, s, "none", LeadsNow)
      /\ UNCHANGED <<agents, role>> /\ Quiet /\ squads' \subseteq Squads /\ born \subseteq born'
  BY DEF LeaveSquad, rowVars, SquadInductive, SquadTyped
<1>4. QED
  BY <1>1, <1>2, <1>3, BeginsSound, LeadsNowTyped DEF Places, Roles

LEMMA DeleteAgentSound ==
    ASSUME SquadInductive, NEW c \in SquadCallers, NEW a \in Agents, DeleteAgent(c, a)
    PROVE  SquadInductive'
<1> DEFINE x == [do |-> "delete", at |-> "own", agent |-> a, squad |-> NoService, role |-> "none",
                 seen |-> LeadsNow, clear |-> {}]
<1>1. PlaceFits(x) /\ CallKnown(x)
  BY DEF PlaceFits, CallKnown
<1>2. ChecksHeld(x)
  BY DEF DeleteAgent, RemovalAllowed, LeadsNow, Leads, SquadsOf, Member, ChecksHeld
<1>3. /\ Begin(c, "delete", "own", a, NoService, "none", LeadsNow)
      /\ UNCHANGED <<agents, role>> /\ Quiet /\ squads' \subseteq Squads /\ born \subseteq born'
  BY DEF DeleteAgent, rowVars, SquadInductive, SquadTyped
<1>4. QED
  BY <1>1, <1>2, <1>3, BeginsSound, LeadsNowTyped DEF Places, Roles

LEMMA UpdateAgentSound ==
    ASSUME SquadInductive, NEW c \in SquadCallers, NEW a \in Agents, UpdateAgent(c, a)
    PROVE  SquadInductive'
<1> DEFINE x == [do |-> "update", at |-> "put", agent |-> a, squad |-> NoService, role |-> "none",
                 seen |-> LeadsNow, clear |-> {}]
<1>1. PlaceFits(x) /\ ChecksHeld(x)
  BY DEF PlaceFits, ChecksHeld
<1>2. CallKnown(x)
  BY DEF UpdateAgent, SquadInductive, RowsKnown, CallKnown
<1>3. /\ Begin(c, "update", "put", a, NoService, "none", LeadsNow)
      /\ UNCHANGED <<agents, role>> /\ Quiet /\ squads' \subseteq Squads /\ born \subseteq born'
  BY DEF UpdateAgent, rowVars, SquadInductive, SquadTyped
<1>4. QED
  BY <1>1, <1>2, <1>3, BeginsSound, LeadsNowTyped DEF Places, Roles

LEMMA DeleteSquadSound ==
    ASSUME SquadInductive, NEW c \in SquadCallers, NEW s \in Squads, DeleteSquad(c, s)
    PROVE  SquadInductive'
<1> DEFINE views == [t \in Squads |-> IF t = s THEN MembersOf(s) ELSE {}]
           x == [do |-> "deleteSquad", at |-> "next", agent |-> NoService, squad |-> s,
                 role |-> "none", seen |-> views, clear |-> {}]
<1>1. PlaceFits(x) /\ CallKnown(x) /\ ChecksHeld(x)
  BY DEF PlaceFits, CallKnown, ChecksHeld
<1>2. /\ Begin(c, "deleteSquad", "next", NoService, s, "none", views)
      /\ UNCHANGED <<agents, role>> /\ Quiet /\ squads' \subseteq Squads /\ born \subseteq born'
  BY DEF DeleteSquad, rowVars, SquadInductive, SquadTyped
<1>3. views \in [Squads -> SUBSET Agents]
  BY DEF MembersOf
<1> HIDE DEF views
<1>4. QED
  BY <1>1, <1>2, <1>3, BeginsSound DEF Places, Roles

LEMMA CreateSquadSound ==
    ASSUME SquadInductive, NEW c \in SquadCallers, NEW s \in Squads, CreateSquad(c, s)
    PROVE  SquadInductive'
<1> DEFINE x == [do |-> "createSquad", at |-> "lead", agent |-> LeadOf[s], squad |-> s,
                 role |-> "captain", seen |-> LeadsNow, clear |-> {}]
<1>1. LeadOf[s] \in Agents
  BY SquadMembershipAssumption
<1>2. PlaceFits(x) /\ CallKnown(x) /\ ChecksHeld(x)
  BY <1>1 DEF PlaceFits, CallKnown, ChecksHeld
<1>3. /\ Begin(c, "createSquad", "lead", LeadOf[s], s, "captain", LeadsNow)
      /\ UNCHANGED <<agents, role>> /\ Quiet /\ squads' \subseteq Squads /\ born \subseteq born'
  BY DEF CreateSquad, SquadInductive, SquadTyped
<1>4. QED
  BY <1>1, <1>2, <1>3, BeginsSound, LeadsNowTyped DEF Places, Roles

LEMMA GiveLeadSound ==
    ASSUME SquadInductive, NEW c \in SquadCallers, GiveLead(c) PROVE SquadInductive'
<1>1. call[c].at = "lead" /\ UNCHANGED <<rowVars, born>> /\ Quiet
  BY DEF GiveLead
<1>2. call[c] \in SquadCall /\ PlaceFits(call[c])
  BY DEF SquadInductive, SquadTyped
<1>3. call[c].agent \in Agents /\ call[c].do = "createSquad"
  BY <1>1, <1>2 DEF PlaceFits, SquadCall
<1>4. call[c].squad \in Squads /\ "captain" \in Member
  BY <1>2, <1>3 DEF PlaceFits, Member
<1>5. CASE JoinCheck(c, call[c].agent, call[c].squad, "captain")
  BY <1>1, <1>3, <1>4, <1>5, JoinCheckSound
<1>6. CASE call[c].agent \notin born /\ CreateCheck(c, call[c].agent, call[c].squad, "captain")
  BY <1>1, <1>3, <1>4, <1>6, CreateCheckSound
<1>7. CASE Return(c)
  <2>1. \A b \in Agents : ~PendingBy(c, b)
    BY <1>1, <1>2 DEF PendingBy, PlaceFits
  <2>2. QED
    BY <1>1, <1>7, <2>1, Returns, SquadCallMoves DEF Quiet, rowVars, SquadInductive, SquadTyped
<1>8. QED
  BY <1>5, <1>6, <1>7 DEF GiveLead, Return

\* The tables get a new agent, which no view shows.
LEMMA NewAgentStays ==
    ASSUME SquadInductive, NEW a \in Agents, a \notin born,
           agents' = agents \cup {a}, born' = born \cup {a},
           UNCHANGED <<squads, role, service, building, outdated>>,
           call' \in [SquadCallers -> SquadCall],
           \A d \in SquadCallers : PlaceFits(call[d])' /\ ChecksHeld(call[d])' /\ CallKnown(call[d])',
           \A d \in SquadCallers, b \in Agents : PendingBy(d, b) <=> PendingBy(d, b)'
    PROVE  SquadInductive'
<1> USE DEF SquadInductive
<1>1. SquadTyped'
  BY DEF SquadTyped
<1>2. RowsKnown'
  BY DEF RowsKnown
<1>3. \A b \in Agents : View(b)' = View(b)
  BY NewAgentSameView
<1>4. \A b \in Agents : ClearPending(b) => ClearPending(b)'
  BY DEF ClearPending, PendingBy
<1>5. ServicesAreCurrent' /\ BuildIsCurrent'
  BY <1>3, <1>4, CurrentStays
<1>6. QED
  BY <1>1, <1>2, <1>5

LEMMA StandaloneSound ==
    ASSUME SquadInductive, NEW c \in SquadCallers, NEW a \in Agents, CreateStandalone(c, a)
    PROVE  SquadInductive'
<1>1. /\ call' = call /\ role' = role /\ a \notin born
      /\ agents' = agents \cup {a} /\ born' = born \cup {a}
      /\ UNCHANGED <<squads, service, building, outdated>>
  BY DEF CreateStandalone, Quiet
<1>2. \A d \in SquadCallers : PlaceFits(call[d])' /\ ChecksHeld(call[d])' /\ CallKnown(call[d])'
  BY <1>1 DEF SquadInductive, PlaceFits, ChecksHeld, CallKnown
<1>3. \A d \in SquadCallers, b \in Agents : PendingBy(d, b) <=> PendingBy(d, b)'
  BY <1>1 DEF PendingBy
<1>4. call' \in [SquadCallers -> SquadCall]
  BY <1>1 DEF SquadInductive, SquadTyped
<1>5. QED
  BY <1>1, <1>2, <1>3, <1>4, NewAgentStays

LEMMA SaveAgentSound ==
    ASSUME SquadInductive, NEW c \in SquadCallers, SaveAgent(c) PROVE SquadInductive'
<1>1. /\ call[c].at = "save" /\ call[c] \in SquadCall
      /\ PlaceFits(call[c]) /\ ChecksHeld(call[c])
  BY DEF SaveAgent, SquadInductive, SquadTyped
<1>2. call[c].do = "create" /\ call[c].agent \in Agents
  BY <1>1 DEF PlaceFits, SquadCall
<1>3. \A b \in Agents : ~PendingBy(c, b)
  BY <1>1 DEF PendingBy, PlaceFits
<1>4. CASE /\ call[c].agent \notin born /\ agents' = agents \cup {call[c].agent}
           /\ born' = born \cup {call[c].agent} /\ Goto(c, "write")
  <2>1. /\ call' \in [SquadCallers -> SquadCall]
        /\ call'[c].do = call[c].do /\ call'[c].at = "write" /\ call'[c].agent = call[c].agent
        /\ call'[c].squad = call[c].squad /\ call'[c].role = call[c].role
        /\ call'[c].seen = call[c].seen /\ call'[c].clear = call[c].clear
        /\ \A d \in SquadCallers \ {c} : call'[d] = call[d]
    BY <1>4, GoesTo DEF Places, SquadInductive
  <2>2. PlaceFits(call[c])' /\ ChecksHeld(call[c])' /\ CallKnown(call[c])'
    BY <1>1, <1>2, <1>4, <2>1 DEF PlaceFits, ChecksHeld, CallKnown
  <2>3. \A d \in SquadCallers : PlaceFits(call[d])' /\ ChecksHeld(call[d])' /\ CallKnown(call[d])'
    BY <1>4, <2>1, <2>2, CallsStay
  <2>4. \A d \in SquadCallers, b \in Agents : PendingBy(d, b) <=> PendingBy(d, b)'
    <3>1. \A b \in Agents : ~PendingBy(c, b)'
      BY <1>1, <2>1 DEF PendingBy, PlaceFits
    <3>2. role' = role
      BY DEF SaveAgent
    <3>3. \A d \in SquadCallers \ {c}, b \in Agents : PendingBy(d, b) <=> PendingBy(d, b)'
      BY <2>1, <3>2 DEF PendingBy
    <3>4. QED
      BY <1>3, <3>1, <3>3
  <2>5. QED
    BY <1>2, <1>4, <2>1, <2>3, <2>4, NewAgentStays DEF SaveAgent
<1>5. CASE call[c].agent \in agents /\ Return(c) /\ UNCHANGED <<agents, born>>
  BY <1>3, <1>5, Returns, SquadCallMoves DEF SaveAgent, SquadInductive, SquadTyped
<1>6. QED
  BY <1>4, <1>5 DEF SaveAgent

LEMMA CallOnlySteps ==
    ASSUME SquadInductive, NEW c \in SquadCallers, SaveMembershipFails(c) \/ DropSquad(c)
    PROVE  SquadInductive'
<1>1. /\ call[c].at \in {"write", "team"} /\ call[c] \in SquadCall
      /\ PlaceFits(call[c]) /\ ChecksHeld(call[c])
  BY DEF SaveMembershipFails, DropSquad, SquadInductive, SquadTyped
<1>2. \A b \in Agents : ~PendingBy(c, b)
  BY <1>1 DEF PendingBy, PlaceFits
<1>3. /\ UNCHANGED <<agents, role, service, building, born, outdated>>
      /\ squads' \subseteq Squads /\ outdated \subseteq Agents
  BY DEF SaveMembershipFails, DropSquad, Left, rowVars, SquadInductive, SquadTyped
<1>4. CASE Return(c)
  BY <1>2, <1>3, <1>4, Returns, SquadCallMoves DEF SquadInductive
<1>5. CASE call[c].at = "write" /\ call[c].do = "create" /\ Goto(c, "undo")
  <2>1. /\ call' \in [SquadCallers -> SquadCall]
        /\ call'[c].do = call[c].do /\ call'[c].at = "undo" /\ call'[c].agent = call[c].agent
        /\ call'[c].squad = call[c].squad /\ call'[c].role = call[c].role
        /\ call'[c].seen = call[c].seen /\ call'[c].clear = call[c].clear
        /\ \A d \in SquadCallers \ {c} : call'[d] = call[d]
    BY <1>5, GoesTo DEF Places, SquadInductive
  <2>2. PlaceFits(call[c])' /\ ChecksHeld(call[c])' /\ CallKnown(call[c])'
    BY <1>1, <1>5, <2>1 DEF PlaceFits, ChecksHeld, CallKnown
  <2>3. QED
    BY <1>2, <1>3, <2>1, <2>2, SquadCallMoves
<1>6. QED
  BY <1>4, <1>5 DEF SaveMembershipFails, DropSquad

LEMMA NextMemberSound ==
    ASSUME SquadInductive, NEW c \in SquadCallers, NextMember(c) PROVE SquadInductive'
<1>1. /\ call[c].at = "next" /\ call[c] \in SquadCall
      /\ PlaceFits(call[c]) /\ ChecksHeld(call[c])
  BY DEF NextMember, SquadInductive, SquadTyped
<1>2. \A b \in Agents : ~PendingBy(c, b)
  BY <1>1 DEF PendingBy, PlaceFits
<1>3. /\ UNCHANGED <<squads, agents, role, service, building, born, outdated>>
      /\ squads \subseteq Squads /\ outdated \subseteq Agents
  BY DEF NextMember, Left, rowVars, SquadInductive, SquadTyped
<1>4. call[c].do = "deleteSquad" /\ call[c].squad \in Squads /\ call[c].seen \in [Squads -> SUBSET Agents]
  BY <1>1 DEF PlaceFits, SquadCall
<1>5. CASE Return(c)
  BY <1>2, <1>3, <1>5, Returns, SquadCallMoves DEF SquadInductive
<1>6. CASE Goto(c, "team")
  <2>1. /\ call' \in [SquadCallers -> SquadCall]
        /\ call'[c].do = call[c].do /\ call'[c].at = "team" /\ call'[c].agent = call[c].agent
        /\ call'[c].squad = call[c].squad /\ call'[c].role = call[c].role
        /\ call'[c].seen = call[c].seen /\ call'[c].clear = call[c].clear
        /\ \A d \in SquadCallers \ {c} : call'[d] = call[d]
    BY <1>6, GoesTo DEF Places, SquadInductive
  <2>2. PlaceFits(call[c])' /\ ChecksHeld(call[c])' /\ CallKnown(call[c])'
    BY <1>1, <1>4, <2>1 DEF PlaceFits, ChecksHeld, CallKnown
  <2>3. QED
    BY <1>2, <1>3, <2>1, <2>2, SquadCallMoves
<1>7. CASE \E a \in call[c].seen[call[c].squad] :
               call' = [call EXCEPT ![c].agent = a, ![c].at = "own",
                                    ![c].seen[call[c].squad] = @ \ {a}]
  <2>1. PICK a \in call[c].seen[call[c].squad] :
               call' = [call EXCEPT ![c].agent = a, ![c].at = "own",
                                    ![c].seen[call[c].squad] = @ \ {a}]
    BY <1>7
  <2>2. PICK left \in [Squads -> SUBSET Agents] :
            left = [call[c].seen EXCEPT ![call[c].squad] = call[c].seen[call[c].squad] \ {a}]
    BY <1>4
  <2>3. a \in Agents
    BY <1>4
  <2> DEFINE x == [[[call[c] EXCEPT !.agent = a] EXCEPT !.at = "own"] EXCEPT !.seen = left]
  <2>4. x \in SquadCall
    BY <1>1, <2>3 DEF SquadCall
  <2>5. call' = [call EXCEPT ![c] = x]
    BY <1>1, <2>1, <2>2 DEF SquadInductive, SquadTyped, SquadCall
  <2>6. x.do = "deleteSquad" /\ x.at = "own" /\ x.agent = a /\ x.squad = call[c].squad
        /\ x.clear = call[c].clear
    BY <1>1, <1>4 DEF SquadCall
  <2> HIDE DEF x
  <2>7. /\ call' \in [SquadCallers -> SquadCall] /\ call'[c] = x
        /\ \A d \in SquadCallers \ {c} : call'[d] = call[d]
    BY <2>4, <2>5, OneCall DEF SquadInductive
  <2>8. PlaceFits(call[c])' /\ ChecksHeld(call[c])' /\ CallKnown(call[c])'
    BY <1>1, <1>4, <2>3, <2>6, <2>7 DEF PlaceFits, ChecksHeld, CallKnown
  <2>9. QED
    BY <1>2, <1>3, <2>7, <2>8, SquadCallMoves
<1>8. QED
  BY <1>5, <1>6, <1>7 DEF NextMember

\* The two ways on from the list of captains.
LEMMA AfterCaptainsGoes ==
    ASSUME SquadInductive, NEW c \in SquadCallers, AfterCaptains(c),
           call[c].at \in {"list", "captains"}, call[c].clear = {}
    PROVE  /\ call' \in [SquadCallers -> SquadCall]
           /\ PlaceFits(call[c])' /\ ChecksHeld(call[c])' /\ CallKnown(call[c])'
           /\ \A d \in SquadCallers \ {c} : call'[d] = call[d]
<1>1. PlaceFits(call[c]) /\ call[c] \in SquadCall
  BY DEF SquadInductive, SquadTyped
<1>2. CASE Return(c)
  BY <1>2, Returns DEF SquadInductive
<1>3. CASE call[c].do = "deleteSquad" /\ Goto(c, "unlink")
  <2>1. /\ call' \in [SquadCallers -> SquadCall]
        /\ call'[c].do = call[c].do /\ call'[c].at = "unlink" /\ call'[c].agent = call[c].agent
        /\ call'[c].squad = call[c].squad /\ call'[c].role = call[c].role
        /\ call'[c].seen = call[c].seen /\ call'[c].clear = call[c].clear
        /\ \A d \in SquadCallers \ {c} : call'[d] = call[d]
    BY <1>3, GoesTo DEF Places, SquadInductive
  <2>2. QED
    BY <1>1, <1>3, <2>1 DEF PlaceFits, ChecksHeld, CallKnown
<1>4. QED
  BY <1>2, <1>3 DEF AfterCaptains

LEMMA ListCaptainsSound ==
    ASSUME SquadInductive, NEW c \in SquadCallers, ListCaptains(c) PROVE SquadInductive'
<1>1. /\ call[c].at = "list" /\ call[c] \in SquadCall
      /\ PlaceFits(call[c]) /\ ChecksHeld(call[c])
  BY DEF ListCaptains, SquadInductive, SquadTyped
<1>2. /\ UNCHANGED <<squads, agents, role, service, building, born>>
      /\ squads \subseteq Squads /\ outdated \subseteq Agents
  BY DEF ListCaptains, Left, rowVars, SquadInductive, SquadTyped
<1>3. call[c].do \in {"join", "create", "leave", "deleteSquad"} /\ call[c].squad \in Squads
      /\ call[c].clear = {}
  BY <1>1 DEF PlaceFits, SquadCall
<1>4. \A b \in Agents : PendingBy(c, b) => b \in Leads(call[c].squad)
  BY <1>1, <1>3 DEF PendingBy, Leads
<1>5. CASE /\ call' = [call EXCEPT ![c].at = "captains", ![c].clear = Leads(call[c].squad)]
           /\ UNCHANGED outdated
  <2>1. PICK L \in SUBSET Agents : L = Leads(call[c].squad)
    BY DEF Leads
  <2> DEFINE x == [[call[c] EXCEPT !.at = "captains"] EXCEPT !.clear = L]
  <2>2. x \in SquadCall
    BY <1>1 DEF SquadCall
  <2>3. call' = [call EXCEPT ![c] = x]
    BY <1>1, <1>5, <2>1 DEF SquadInductive, SquadTyped, SquadCall
  <2>4. /\ x.do = call[c].do /\ x.at = "captains" /\ x.agent = call[c].agent
        /\ x.squad = call[c].squad /\ x.clear = L
    BY <1>1 DEF SquadCall
  <2> HIDE DEF x
  <2>5. /\ call' \in [SquadCallers -> SquadCall] /\ call'[c] = x
        /\ \A d \in SquadCallers \ {c} : call'[d] = call[d]
    BY <2>2, <2>3, OneCall DEF SquadInductive
  <2>6. PlaceFits(call[c])' /\ ChecksHeld(call[c])' /\ CallKnown(call[c])'
    BY <1>1, <1>3, <2>4, <2>5 DEF PlaceFits, ChecksHeld, CallKnown
  <2>7. \A b \in Agents : PendingBy(c, b) => PendingBy(c, b)'
    BY <1>4, <2>1, <2>4, <2>5 DEF PendingBy
  <2>8. QED
    BY <1>2, <1>5, <2>5, <2>6, <2>7, SquadCallMoves
<1>6. CASE AfterCaptains(c) /\ outdated' = outdated \cup Leads(call[c].squad)
  <2>1. outdated' \subseteq Agents /\ outdated \subseteq outdated'
        /\ \A b \in Agents : PendingBy(c, b) => b \in outdated'
    BY <1>2, <1>4, <1>6 DEF Leads
  <2>2. QED
    BY <1>1, <1>2, <1>3, <1>6, <2>1, AfterCaptainsGoes, SquadCallMoves
<1>7. QED
  BY <1>5, <1>6 DEF ListCaptains

\* A row of the memberships is written or removed by the call that clears then.
LEMMA RowChanges ==
    ASSUME SquadInductive, NEW c \in SquadCallers, NEW r \in Roles,
           call[c].at \in {"write", "remove"},
           r \in Member => call[c].agent \in born,
           role' = [role EXCEPT ![call[c].agent][call[c].squad] = r],
           Goto(c, "own"), Left, UNCHANGED <<squads, agents, outdated>>
    PROVE  SquadInductive'
<1> DEFINE a == call[c].agent
           s == call[c].squad
<1>1. call[c] \in SquadCall /\ PlaceFits(call[c]) /\ ChecksHeld(call[c])
  BY DEF SquadInductive, SquadTyped
<1>2. a \in Agents /\ s \in Squads /\ call[c].do \in {"join", "create", "leave"}
  BY <1>1 DEF PlaceFits, SquadCall
<1>3. /\ call' \in [SquadCallers -> SquadCall]
      /\ call'[c].do = call[c].do /\ call'[c].at = "own" /\ call'[c].agent = call[c].agent
      /\ call'[c].squad = call[c].squad /\ call'[c].role = call[c].role
      /\ call'[c].seen = call[c].seen /\ call'[c].clear = call[c].clear
      /\ \A d \in SquadCallers \ {c} : call'[d] = call[d]
  BY GoesTo DEF Places, SquadInductive
<1>4. PlaceFits(call[c])' /\ ChecksHeld(call[c])' /\ CallKnown(call[c])'
  BY <1>1, <1>2, <1>3 DEF PlaceFits, ChecksHeld, CallKnown
<1>5. \A d \in SquadCallers : PlaceFits(call[d])' /\ ChecksHeld(call[d])' /\ CallKnown(call[d])'
  BY <1>3, <1>4, CallsStay DEF Left
<1> HIDE DEF a, s
<1>6. role' = [role EXCEPT ![a][s] = r]
  BY DEF a, s
<1>7. SquadTyped'
  <2>1. [role[a] EXCEPT ![s] = r] \in [Squads -> Roles]
    BY <1>2 DEF SquadInductive, SquadTyped
  <2>2. role' = [role EXCEPT ![a] = [role[a] EXCEPT ![s] = r]]
    BY <1>2, <1>6 DEF SquadInductive, SquadTyped
  <2>3. role' \in [Agents -> [Squads -> Roles]]
    BY <1>2, <2>1, <2>2 DEF SquadInductive, SquadTyped
  <2>4. QED
    BY <1>3, <2>3 DEF SquadInductive, SquadTyped, Left
<1>8. RowsKnown'
  <2>1. \A b \in Agents, t \in Squads : role'[b][t] = role[b][t] \/ (b = a /\ role'[b][t] = r)
    BY <1>2, <1>6 DEF SquadInductive, SquadTyped
  <2>2. QED
    BY <2>1 DEF SquadInductive, RowsKnown, Left, Member, a
<1>9. \A b \in Agents : b = a => ClearPending(b)'
  BY <1>2, <1>3 DEF ClearPending, a
<1>10. \A b \in Agents : b # a /\ role[b][s] = "captain" => ClearPending(b)'
  <2>1. \A b \in Agents : b # a => role'[b] = role[b]
    BY <1>2, <1>6 DEF SquadInductive, SquadTyped
  <2>2. QED
    BY <1>2, <1>3, <2>1 DEF ClearPending, s
<1>11. \A b \in Agents : b # a /\ role[b][s] # "captain" =>
           View(b)' = View(b) /\ (ClearPending(b) => ClearPending(b)')
  <2> SUFFICES ASSUME NEW b \in Agents, b # a, role[b][s] # "captain"
               PROVE  View(b)' = View(b) /\ (ClearPending(b) => ClearPending(b)')
    OBVIOUS
  <2>1. View(b)' = View(b) /\ role'[b] = role[b]
    <3>1. /\ \A x \in Agents, t \in Squads : x # a \/ t # s => role'[x][t] = role[x][t]
          /\ role'[b] = role[b]
      BY <1>2, <1>6 DEF SquadInductive, SquadTyped
    <3>2. agents' = agents
      OBVIOUS
    <3>3. View(b)' = View(b)
      BY <1>2, <3>1, <3>2, RowSeenBy
    <3>4. QED
      BY <3>1, <3>3
  <2>2. ~PendingBy(c, b)
    BY <1>1 DEF PendingBy, PlaceFits
  <2>3. ClearPending(b) => ClearPending(b)'
    <3> SUFFICES ASSUME ClearPending(b) PROVE ClearPending(b)'
      OBVIOUS
    <3>1. PICK d \in SquadCallers : PendingBy(d, b)
      BY DEF ClearPending, PendingBy
    <3>2. PendingBy(d, b)'
      BY <1>3, <2>1, <2>2, <3>1 DEF PendingBy
    <3>3. QED
      BY <3>2 DEF ClearPending, PendingBy
  <2>4. QED
    BY <2>1, <2>3
<1>12. ServicesAreCurrent' /\ BuildIsCurrent'
  <2>1. \A b \in Agents : ClearPending(b)' \/ (View(b)' = View(b) /\ ~ClearPending(b))
    BY <1>9, <1>10, <1>11
  <2>2. QED
    BY <2>1, CurrentStays DEF SquadInductive, Left
<1>13. QED
  BY <1>5, <1>7, <1>8, <1>12 DEF SquadInductive

LEMMA RowSteps ==
    ASSUME SquadInductive, NEW c \in SquadCallers, SaveMembership(c) \/ RemoveMembership(c)
    PROVE  SquadInductive'
<1>1. CASE SaveMembership(c)
  <2>1. call[c].role \in Roles /\ call[c].agent \in born
    BY <1>1 DEF SaveMembership, SquadInductive, SquadTyped, SquadCall, CallKnown
  <2>2. QED
    BY <1>1, <2>1, RowChanges DEF SaveMembership
<1>2. CASE RemoveMembership(c)
  BY <1>2, RowChanges DEF RemoveMembership, Roles, Member
<1>3. QED
  BY <1>1, <1>2

\* An agent or a row is gone: the views that change are noted.
LEMMA OutdatedIsNoted ==
    ASSUME SquadInductive, SquadTyped', NEW c \in SquadCallers, Outdate, Left,
           \A d \in SquadCallers \ {c} : call'[d] = call[d],
           \A b \in Agents : ~PendingBy(c, b),
           \A b \in Agents, t \in Squads : role'[b][t] \in {role[b][t], "none"}
    PROVE  ServicesAreCurrent' /\ BuildIsCurrent'
<1> USE DEF SquadInductive
<1>1. \A b \in Agents : View(b)' = View(b) /\ ClearPending(b) => ClearPending(b)'
  <2> SUFFICES ASSUME NEW b \in Agents, View(b)' = View(b), ClearPending(b)
               PROVE  ClearPending(b)'
    OBVIOUS
  <2>1. PICK d \in SquadCallers : PendingBy(d, b)
    BY DEF ClearPending, PendingBy
  <2>2. d # c /\ call'[d] = call[d]
    BY <2>1
  <2>3. PendingBy(d, b)'
    <3>1. CASE call[d].at \in {"own", "list"} /\ call[d].do \in {"join", "create", "leave"}
               /\ role[b][call[d].squad] = "captain"
      <4>1. call[d].squad \in Squads
        BY <3>1 DEF PlaceFits
      <4>2. role'[b][call[d].squad] # "none"
        BY <3>1, <4>1, LeadSeesItself
      <4>3. QED
        BY <2>2, <3>1, <4>1, <4>2 DEF PendingBy
    <3>2. QED
      BY <2>1, <2>2, <3>1 DEF PendingBy
  <2>4. QED
    BY <2>3 DEF ClearPending, PendingBy
<1>2. \A b \in Agents :
          \/ b \in outdated' \/ View(b)' = View(b)
          \/ service[b] = NoService /\ (building # NoService => building.agent # b)
  BY DEF Outdate
<1>3. service' = service /\ building' = building /\ outdated \subseteq outdated'
  BY DEF Outdate, Left
<1>4. QED
  BY <1>1, <1>2, <1>3, CurrentStays

LEMMA OutdatedTyped == ASSUME Outdate, SquadTyped PROVE outdated' \subseteq Agents
  BY DEF Outdate, SquadTyped

LEMMA DropAgentSound ==
    ASSUME SquadInductive, NEW c \in SquadCallers, DropAgent(c) PROVE SquadInductive'
<1> USE DEF SquadInductive
<1>1. /\ call[c].at \in {"drop", "undo", "dropLead"} /\ call[c] \in SquadCall
      /\ PlaceFits(call[c]) /\ ChecksHeld(call[c])
  BY DEF DropAgent, SquadTyped
<1>2. \A b \in Agents : ~PendingBy(c, b)
  BY <1>1 DEF PendingBy, PlaceFits
<1>3. PICK a \in Agents : ForgetAgent(a)
  BY <1>1 DEF DropAgent, PlaceFits
<1>4. /\ agents' \subseteq agents /\ role' \in [Agents -> [Squads -> Roles]]
      /\ \A b \in Agents, t \in Squads : role'[b][t] \in {role[b][t], "none"}
  BY <1>3 DEF ForgetAgent, SquadTyped, Roles
<1>5. /\ call' \in [SquadCallers -> SquadCall]
      /\ PlaceFits(call[c])' /\ ChecksHeld(call[c])' /\ CallKnown(call[c])'
      /\ \A d \in SquadCallers \ {c} : call'[d] = call[d]
  <2>1. CASE Return(c)
    BY <2>1, Returns
  <2>2. CASE call[c].at = "dropLead" /\ Goto(c, "next")
    <3>1. /\ call' \in [SquadCallers -> SquadCall]
          /\ call'[c].do = call[c].do /\ call'[c].at = "next" /\ call'[c].agent = call[c].agent
          /\ call'[c].squad = call[c].squad /\ call'[c].role = call[c].role
          /\ call'[c].seen = call[c].seen /\ call'[c].clear = call[c].clear
          /\ \A d \in SquadCallers \ {c} : call'[d] = call[d]
      BY <2>2, GoesTo DEF Places
    <3>2. QED
      BY <1>1, <2>2, <3>1 DEF PlaceFits, ChecksHeld, CallKnown
  <2>3. QED
    BY <2>1, <2>2 DEF DropAgent
<1>6. Outdate /\ Left /\ squads' = squads
  BY DEF DropAgent
<1>7. \A d \in SquadCallers : PlaceFits(call[d])' /\ ChecksHeld(call[d])' /\ CallKnown(call[d])'
  BY <1>5, <1>6, CallsStay DEF Left
<1>8. SquadTyped'
  BY <1>4, <1>5, <1>6, OutdatedTyped DEF SquadTyped, Left
<1>9. RowsKnown'
  BY <1>4, <1>6 DEF RowsKnown, Left
<1>10. QED
  BY <1>2, <1>4, <1>5, <1>6, <1>7, <1>8, <1>9, OutdatedIsNoted

LEMMA UnlinkSound ==
    ASSUME SquadInductive, NEW c \in SquadCallers, Unlink(c) PROVE SquadInductive'
<1> USE DEF SquadInductive
<1>1. /\ call[c].at = "unlink" /\ call[c] \in SquadCall
      /\ PlaceFits(call[c]) /\ ChecksHeld(call[c])
  BY DEF Unlink, SquadTyped
<1>2. \A b \in Agents : ~PendingBy(c, b)
  BY <1>1 DEF PendingBy, PlaceFits
<1>3. call[c].do = "deleteSquad" /\ call[c].agent \in Agents /\ call[c].squad \in Squads
  BY <1>1 DEF PlaceFits, SquadCall
<1>4. PICK a \in Agents, s \in Squads : role' = [role EXCEPT ![a][s] = "none"]
  BY <1>3 DEF Unlink
<1>5. /\ role' \in [Agents -> [Squads -> Roles]]
      /\ \A b \in Agents, t \in Squads : role'[b][t] \in {role[b][t], "none"}
  <2>1. [role[a] EXCEPT ![s] = "none"] \in [Squads -> Roles]
    BY DEF SquadTyped, Roles
  <2>2. role' = [role EXCEPT ![a] = [role[a] EXCEPT ![s] = "none"]]
    BY <1>4 DEF SquadTyped
  <2>3. role' \in [Agents -> [Squads -> Roles]]
    BY <2>1, <2>2 DEF SquadTyped
  <2>4. \A b \in Agents, t \in Squads : role'[b][t] \in {role[b][t], "none"}
    BY <2>2 DEF SquadTyped
  <2>5. QED
    BY <2>3, <2>4
<1>6. Outdate /\ Left /\ squads' = squads /\ agents' = agents
  BY DEF Unlink
<1>7. PICK p \in {"dropLead", "next"} : Goto(c, p)
  BY DEF Unlink
<1>8. /\ call' \in [SquadCallers -> SquadCall]
      /\ call'[c].do = call[c].do /\ call'[c].at = p /\ call'[c].agent = call[c].agent
      /\ call'[c].squad = call[c].squad /\ call'[c].role = call[c].role
      /\ call'[c].seen = call[c].seen /\ call'[c].clear = call[c].clear
      /\ \A d \in SquadCallers \ {c} : call'[d] = call[d]
  BY <1>7, GoesTo DEF Places
<1>9. PlaceFits(call[c])' /\ ChecksHeld(call[c])' /\ CallKnown(call[c])'
  BY <1>1, <1>3, <1>8 DEF PlaceFits, ChecksHeld, CallKnown
<1>10. \A d \in SquadCallers : PlaceFits(call[d])' /\ ChecksHeld(call[d])' /\ CallKnown(call[d])'
  BY <1>6, <1>8, <1>9, CallsStay DEF Left
<1>11. SquadTyped'
  BY <1>5, <1>6, <1>8, OutdatedTyped DEF SquadTyped, Left
<1>12. RowsKnown'
  BY <1>5, <1>6 DEF RowsKnown, Left
<1>13. QED
  BY <1>2, <1>5, <1>6, <1>8, <1>10, <1>11, <1>12, OutdatedIsNoted

LEMMA PutAgentSound ==
    ASSUME SquadInductive, NEW c \in SquadCallers, PutAgent(c) PROVE SquadInductive'
<1> USE DEF SquadInductive
<1>1. /\ call[c].at = "put" /\ call[c] \in SquadCall
      /\ PlaceFits(call[c]) /\ ChecksHeld(call[c]) /\ CallKnown(call[c])
  BY DEF PutAgent, SquadTyped
<1>2. \A b \in Agents : ~PendingBy(c, b)
  BY <1>1 DEF PendingBy, PlaceFits
<1>3. call[c].do = "update" /\ call[c].agent \in Agents /\ call[c].agent \in born
  BY <1>1 DEF PlaceFits, SquadCall, CallKnown
<1>4. /\ Outdate /\ Left /\ squads' = squads /\ role' = role
      /\ agents' = agents \cup {call[c].agent}
  BY DEF PutAgent
<1>5. /\ call' \in [SquadCallers -> SquadCall]
      /\ call'[c].do = call[c].do /\ call'[c].at = "own" /\ call'[c].agent = call[c].agent
      /\ call'[c].squad = call[c].squad /\ call'[c].role = call[c].role
      /\ call'[c].seen = call[c].seen /\ call'[c].clear = call[c].clear
      /\ \A d \in SquadCallers \ {c} : call'[d] = call[d]
  BY GoesTo DEF PutAgent, Places
<1>6. PlaceFits(call[c])' /\ ChecksHeld(call[c])' /\ CallKnown(call[c])'
  BY <1>1, <1>3, <1>5 DEF PlaceFits, ChecksHeld, CallKnown
<1>7. \A d \in SquadCallers : PlaceFits(call[d])' /\ ChecksHeld(call[d])' /\ CallKnown(call[d])'
  BY <1>4, <1>5, <1>6, CallsStay DEF Left
<1>8. SquadTyped'
  BY <1>3, <1>4, <1>5, OutdatedTyped DEF SquadTyped, Left
<1>9. RowsKnown'
  BY <1>3, <1>4 DEF RowsKnown, Left
<1>10. QED
  BY <1>2, <1>4, <1>5, <1>7, <1>8, <1>9, OutdatedIsNoted

-----------------------------------------------------------------------------
\* A service is dropped, or built.

LEMMA DropServiceSound ==
    ASSUME SquadInductive, NEW c \in SquadCallers, NEW a \in Agents, DropService(a),
           UNCHANGED <<squads, agents, role, building, born>>,
           call' \in [SquadCallers -> SquadCall],
           \A d \in SquadCallers \ {c} : call'[d] = call[d],
           PlaceFits(call[c])', ChecksHeld(call[c])', CallKnown(call[c])',
           \A b \in Agents \ {a} : PendingBy(c, b) => PendingBy(c, b)'
    PROVE  SquadInductive'
<1> USE DEF SquadInductive
<1>1. SquadTyped'
  BY DEF SquadTyped, DropService
<1>2. \A d \in SquadCallers : PlaceFits(call[d])' /\ ChecksHeld(call[d])' /\ CallKnown(call[d])'
  BY CallsStay
<1>3. RowsKnown'
  BY DEF RowsKnown
<1>4. \A b \in Agents : View(b)' = View(b)
  BY SameTablesSameView
<1>5. \A b \in Agents \ {a} : ClearPending(b) => ClearPending(b)'
  <2> SUFFICES ASSUME NEW b \in Agents \ {a}, ClearPending(b) PROVE ClearPending(b)'
    OBVIOUS
  <2>1. PICK d \in SquadCallers : PendingBy(d, b)
    BY DEF ClearPending, PendingBy
  <2>2. PendingBy(d, b)'
    BY <2>1 DEF PendingBy
  <2>3. QED
    BY <2>2 DEF ClearPending, PendingBy
<1>6. ServicesAreCurrent'
  <2> SUFFICES ASSUME NEW b \in Agents, service'[b] # NoService, service'[b] # View(b)'
               PROVE  ClearPending(b)' \/ b \in outdated'
    BY DEF ServicesAreCurrent
  <2>1. b # a /\ service'[b] = service[b]
    BY DEF DropService, SquadTyped
  <2>2. ClearPending(b) \/ b \in outdated
    BY <1>4, <2>1 DEF ServicesAreCurrent
  <2>3. QED
    BY <1>5, <2>1, <2>2 DEF DropService
<1>7. BuildIsCurrent'
  BY DEF BuildIsCurrent, DropService, MuFree
<1>8. QED
  BY <1>1, <1>2, <1>3, <1>6, <1>7

LEMMA ClearOwnSound ==
    ASSUME SquadInductive, NEW c \in SquadCallers, ClearOwn(c) PROVE SquadInductive'
<1> USE DEF SquadInductive
<1>1. /\ call[c].at = "own" /\ call[c] \in SquadCall
      /\ PlaceFits(call[c]) /\ ChecksHeld(call[c])
  BY DEF ClearOwn, SquadTyped
<1>2. /\ call[c].agent \in Agents /\ DropService(call[c].agent)
      /\ UNCHANGED <<squads, agents, role, building, born>>
  BY <1>1 DEF ClearOwn, PlaceFits, rowVars
<1>3. CASE call[c].do = "update" /\ Return(c)
  <2>1. \A b \in Agents \ {call[c].agent} : ~PendingBy(c, b)
    BY <1>1, <1>3 DEF PendingBy, PlaceFits
  <2>2. QED
    BY <1>2, <1>3, <2>1, Returns, DropServiceSound
<1>4. CASE \E p \in {"drop", "list"} : Goto(c, p) /\ call[c].do # "update"
                                        /\ (p = "drop" <=> call[c].do = "delete")
  <2>1. PICK p \in {"drop", "list"} : Goto(c, p) /\ call[c].do # "update"
                                        /\ (p = "drop" <=> call[c].do = "delete")
    BY <1>4
  <2>2. /\ call' \in [SquadCallers -> SquadCall]
        /\ call'[c].do = call[c].do /\ call'[c].at = p /\ call'[c].agent = call[c].agent
        /\ call'[c].squad = call[c].squad /\ call'[c].role = call[c].role
        /\ call'[c].seen = call[c].seen /\ call'[c].clear = call[c].clear
        /\ \A d \in SquadCallers \ {c} : call'[d] = call[d]
    BY <2>1, GoesTo DEF Places
  <2>3. PlaceFits(call[c])' /\ ChecksHeld(call[c])' /\ CallKnown(call[c])'
    BY <1>1, <2>1, <2>2 DEF PlaceFits, ChecksHeld, CallKnown
  <2>4. \A b \in Agents \ {call[c].agent} : PendingBy(c, b) => PendingBy(c, b)'
    BY <1>1, <1>2, <2>1, <2>2 DEF PendingBy, PlaceFits
  <2>5. QED
    BY <1>2, <2>2, <2>3, <2>4, DropServiceSound
<1>5. QED
  BY <1>3, <1>4 DEF ClearOwn

LEMMA ClearCaptainSound ==
    ASSUME SquadInductive, NEW c \in SquadCallers, ClearCaptain(c) PROVE SquadInductive'
<1> USE DEF SquadInductive
<1>1. /\ call[c].at = "captains" /\ call[c] \in SquadCall
      /\ PlaceFits(call[c]) /\ ChecksHeld(call[c])
      /\ UNCHANGED <<squads, agents, role, building, born>>
  BY DEF ClearCaptain, SquadTyped, rowVars
<1>2. PICK a \in call[c].clear :
          /\ DropService(a)
          /\ IF call[c].clear # {a}
             THEN call' = [call EXCEPT ![c].clear = @ \ {a}]
             ELSE IF call[c].do = "deleteSquad"
             THEN call' = [call EXCEPT ![c].clear = {}, ![c].at = "unlink"]
             ELSE Return(c)
  BY DEF ClearCaptain
<1>3. a \in Agents
  BY <1>1 DEF SquadCall
<1>4. \A b \in Agents : PendingBy(c, b) => b \in call[c].clear
  BY <1>1 DEF PendingBy
<1>5. CASE call' = [call EXCEPT ![c].clear = @ \ {a}]
  <2>1. PICK left \in SUBSET Agents : left = call[c].clear \ {a}
    BY <1>1 DEF SquadCall
  <2> DEFINE x == [call[c] EXCEPT !.clear = left]
  <2>2. x \in SquadCall
    BY <1>1 DEF SquadCall
  <2>3. call' = [call EXCEPT ![c] = x]
    BY <1>1, <1>5, <2>1 DEF SquadTyped, SquadCall
  <2>4. /\ x.do = call[c].do /\ x.at = "captains" /\ x.agent = call[c].agent
        /\ x.squad = call[c].squad /\ x.clear = left
    BY <1>1 DEF SquadCall
  <2> HIDE DEF x
  <2>5. /\ call' \in [SquadCallers -> SquadCall] /\ call'[c] = x
        /\ \A d \in SquadCallers \ {c} : call'[d] = call[d]
    BY <2>2, <2>3, OneCall
  <2>6. PlaceFits(call[c])' /\ ChecksHeld(call[c])' /\ CallKnown(call[c])'
    <3>1. x.seen = call[c].seen /\ x.role = call[c].role
      BY <1>1 DEF x, SquadCall
    <3>2. QED
      BY <1>1, <2>4, <2>5, <3>1 DEF PlaceFits, ChecksHeld, CallKnown
  <2>7. \A b \in Agents \ {a} : PendingBy(c, b) => PendingBy(c, b)'
    BY <1>4, <2>1, <2>4, <2>5 DEF PendingBy
  <2>8. QED
    BY <1>1, <1>2, <1>3, <2>5, <2>6, <2>7, DropServiceSound
<1>6. CASE /\ call[c].clear = {a} /\ call[c].do = "deleteSquad"
           /\ call' = [call EXCEPT ![c].clear = {}, ![c].at = "unlink"]
  <2> DEFINE x == [[call[c] EXCEPT !.clear = {}] EXCEPT !.at = "unlink"]
  <2>1. x \in SquadCall
    BY <1>1 DEF SquadCall
  <2>2. call' = [call EXCEPT ![c] = x]
    BY <1>1, <1>6 DEF SquadTyped, SquadCall
  <2>3. /\ x.do = "deleteSquad" /\ x.at = "unlink" /\ x.agent = call[c].agent
        /\ x.squad = call[c].squad /\ x.clear = {}
    BY <1>1, <1>6 DEF SquadCall
  <2> HIDE DEF x
  <2>4. /\ call' \in [SquadCallers -> SquadCall] /\ call'[c] = x
        /\ \A d \in SquadCallers \ {c} : call'[d] = call[d]
    BY <2>1, <2>2, OneCall
  <2>5. PlaceFits(call[c])' /\ ChecksHeld(call[c])' /\ CallKnown(call[c])'
    BY <1>1, <1>6, <2>3, <2>4 DEF PlaceFits, ChecksHeld, CallKnown
  <2>6. \A b \in Agents \ {a} : ~PendingBy(c, b)
    BY <1>4, <1>6
  <2>7. QED
    BY <1>1, <1>2, <1>3, <2>4, <2>5, <2>6, DropServiceSound
<1>7. CASE call[c].clear = {a} /\ Return(c)
  <2>1. \A b \in Agents \ {a} : ~PendingBy(c, b)
    BY <1>4, <1>7
  <2>2. QED
    BY <1>1, <1>2, <1>3, <1>7, <2>1, Returns, DropServiceSound
<1>8. QED
  BY <1>2, <1>5, <1>6, <1>7

\* Steps in which no call goes on.
LEMMA NoCallMoves ==
    ASSUME SquadInductive, UNCHANGED <<rowVars, call, born, outdated>>
    PROVE  /\ \A d \in SquadCallers :
                  PlaceFits(call[d])' /\ ChecksHeld(call[d])' /\ CallKnown(call[d])'
           /\ RowsKnown'
           /\ \A b \in Agents : View(b)' = View(b) /\ (ClearPending(b) => ClearPending(b)')
<1> USE DEF SquadInductive, rowVars
<1>1. \A d \in SquadCallers : PlaceFits(call[d])' /\ ChecksHeld(call[d])' /\ CallKnown(call[d])'
  BY DEF PlaceFits, ChecksHeld, CallKnown
<1>2. RowsKnown'
  BY DEF RowsKnown
<1>3. \A b \in Agents : View(b)' = View(b)
  BY SameTablesSameView
<1>4. \A b \in Agents : ClearPending(b) => ClearPending(b)'
  BY DEF ClearPending
<1>5. QED
  BY <1>1, <1>2, <1>3, <1>4

LEMMA BuildSteps ==
    ASSUME SquadInductive, BuildDone \/ \E a \in Agents : BuildRead(a)
    PROVE  SquadInductive'
<1> USE DEF SquadInductive
<1>1. UNCHANGED <<rowVars, call, born, outdated>>
  BY DEF BuildDone, BuildRead
<1>2. CASE \E a \in Agents : BuildRead(a)
  <2>1. PICK a \in Agents : BuildRead(a)
    BY <1>2
  <2>2. PICK v \in Views : v = View(a)
    BY ViewsAreViews
  <2>3. building' = [agent |-> a, view |-> v] /\ service' = service
    BY <2>1, <2>2 DEF BuildRead
  <2>4. SquadTyped'
    BY <1>1, <2>3 DEF SquadTyped, rowVars
  <2>5. \A b \in Agents : View(b)' = View(b)
    BY <1>1, NoCallMoves
  <2>6. ServicesAreCurrent'
    BY <1>1, <2>3, <2>5, NoCallMoves DEF ServicesAreCurrent
  <2>7. BuildIsCurrent'
    <3>1. \A b \in Agents : b = a => View(b)' = v
      BY <2>2, <2>5
    <3>2. QED
      BY <2>3, <3>1 DEF BuildIsCurrent
  <2>8. QED
    BY <1>1, <2>4, <2>6, <2>7, NoCallMoves
<1>3. CASE BuildDone
  <2>1. /\ building \in [agent : Agents, view : Views] /\ building # NoService
        /\ service' = [service EXCEPT ![building.agent] = building.view] /\ building' = NoService
    BY <1>3 DEF BuildDone, SquadTyped
  <2>2. SquadTyped'
    BY <1>1, <2>1 DEF SquadTyped, rowVars
  <2>3. BuildIsCurrent'
    BY <2>1 DEF BuildIsCurrent
  <2>4. ServicesAreCurrent'
    <3> SUFFICES ASSUME NEW b \in Agents, service'[b] # NoService, service'[b] # View(b)'
                 PROVE  ClearPending(b)' \/ b \in outdated'
      BY DEF ServicesAreCurrent
    <3>1. View(b)' = View(b) /\ (ClearPending(b) => ClearPending(b)')
      BY <1>1, NoCallMoves
    <3>2. ClearPending(b) \/ b \in outdated
      <4>1. CASE b = building.agent
        <5>1. service'[b] = building.view
          BY <2>1, <4>1 DEF SquadTyped
        <5>2. QED
          BY <2>1, <3>1, <4>1, <5>1 DEF BuildIsCurrent
      <4>2. CASE b # building.agent
        BY <2>1, <3>1, <4>2 DEF ServicesAreCurrent, SquadTyped
      <4>3. QED
        BY <4>1, <4>2
    <3>3. QED
      BY <1>1, <3>1, <3>2
  <2>5. QED
    BY <1>1, <2>2, <2>3, <2>4, NoCallMoves
<1>4. QED
  BY <1>2, <1>3

LEMMA SquadStays == ASSUME SquadInductive, UNCHANGED squadVars PROVE SquadInductive'
<1> USE DEF SquadInductive, squadVars
<1>1. UNCHANGED <<rowVars, call, born, outdated>> /\ service' = service /\ building' = building
  BY DEF rowVars
<1>2. SquadTyped'
  BY DEF SquadTyped
<1>3. ServicesAreCurrent'
  BY <1>1, NoCallMoves DEF ServicesAreCurrent
<1>4. BuildIsCurrent'
  BY <1>1, NoCallMoves, CurrentStays
<1>5. QED
  BY <1>1, <1>2, <1>3, <1>4, NoCallMoves

-----------------------------------------------------------------------------
\* What the steps that change the tables do to leads and memberships.

LEMMA OthersOnlyAdd ==
    ASSUME SquadMembershipNext
    PROVE  \/ \E c \in SquadCallers :
                  \/ SaveMembership(c) \/ RemoveMembership(c) \/ DropAgent(c) \/ Unlink(c)
                  \/ DropSquad(c)
           \/ role' = role /\ agents \subseteq agents' /\ squads \subseteq squads'
<1> DEFINE Adds == role' = role /\ agents \subseteq agents' /\ squads \subseteq squads'
<1>1. ASSUME BuildDone \/ \E a \in Agents : BuildRead(a) PROVE Adds
  BY <1>1 DEF BuildDone, BuildRead, rowVars
<1>2. ASSUME NEW c \in SquadCallers, NEW a \in Agents, NEW s \in Squads, NEW r \in Member,
             JoinSquad(c, a, s, r) \/ CreateAgent(c, a, s, r)
      PROVE  Adds
  BY <1>2 DEF JoinSquad, CreateAgent, rowVars
<1>3. ASSUME NEW c \in SquadCallers, NEW a \in Agents,
             \/ \E s \in Squads : LeaveSquad(c, a, s)
             \/ CreateStandalone(c, a) \/ DeleteAgent(c, a) \/ UpdateAgent(c, a)
      PROVE  Adds
  BY <1>3 DEF LeaveSquad, CreateStandalone, DeleteAgent, UpdateAgent, rowVars
<1>4. ASSUME NEW c \in SquadCallers,
             \/ \E s \in Squads : DeleteSquad(c, s) \/ CreateSquad(c, s)
             \/ GiveLead(c) \/ SaveAgent(c) \/ SaveMembershipFails(c) \/ PutAgent(c)
      PROVE  Adds
  BY <1>4 DEF DeleteSquad, CreateSquad, GiveLead, SaveAgent, SaveMembershipFails, PutAgent, rowVars
<1>5. ASSUME NEW c \in SquadCallers,
             NextMember(c) \/ ClearOwn(c) \/ ListCaptains(c) \/ ClearCaptain(c)
      PROVE  Adds
  BY <1>5 DEF NextMember, ClearOwn, ListCaptains, ClearCaptain, rowVars
<1>6. QED
  BY <1>1, <1>2, <1>3, <1>4, <1>5 DEF SquadMembershipNext

LEMMA RowChangers ==
    ASSUME SquadMembershipNext, role' # role
    PROVE  \E c \in SquadCallers :
               SaveMembership(c) \/ RemoveMembership(c) \/ DropAgent(c) \/ Unlink(c)
  BY OthersOnlyAdd DEF DropSquad

LEMMA RowWritten ==
    ASSUME SquadInductive, NEW c \in SquadCallers, SaveMembership(c)
    PROVE  /\ call[c].at = "write" /\ call[c].do \in {"join", "create"}
           /\ call[c].agent \in Agents /\ call[c].squad \in Squads
           /\ call[c].role \in Member /\ Acts(c)
           /\ \A b \in Agents, t \in Squads :
                  role'[b][t] = IF b = call[c].agent /\ t = call[c].squad
                                THEN call[c].role ELSE role[b][t]
<1> USE DEF SquadInductive
<1>1. call[c].at = "write" /\ call[c] \in SquadCall /\ PlaceFits(call[c])
  BY DEF SaveMembership, SquadTyped
<1>2. call[c].do \in {"join", "create"} /\ call[c].role \in Member
      /\ call[c].agent \in Agents /\ call[c].squad \in Squads
  BY <1>1 DEF PlaceFits, SquadCall, Member
<1>3. call'[c].at = "own"
  BY GoesTo DEF SaveMembership, Places
<1>4. role' = [role EXCEPT ![call[c].agent] = [role[call[c].agent] EXCEPT ![call[c].squad] = call[c].role]]
  BY <1>2 DEF SaveMembership, SquadTyped
<1>5. QED
  BY <1>1, <1>2, <1>3, <1>4 DEF Acts, SquadTyped

\* The other steps take roles away, and say whose.
LEMMA RowTaken ==
    ASSUME SquadInductive, NEW c \in SquadCallers,
           RemoveMembership(c) \/ DropAgent(c) \/ Unlink(c)
    PROVE  /\ Acts(c) /\ call[c].agent \in Agents
           /\ \A b \in Agents, t \in Squads :
                  \/ role'[b][t] = role[b][t]
                  \/ /\ role'[b][t] = "none" /\ b = call[c].agent
                     /\ \/ call[c].at \in {"remove", "unlink"} /\ call[c].squad = t
                        \/ call[c].at \in {"drop", "undo", "dropLead"}
<1> USE DEF SquadInductive
<1>1. call[c].at \in {"remove", "unlink", "drop", "undo", "dropLead"} /\ call[c] \in SquadCall
      /\ PlaceFits(call[c])
  BY DEF RemoveMembership, DropAgent, Unlink, SquadTyped
<1>2. call[c].agent \in Agents /\ (call[c].at \in {"remove", "unlink"} => call[c].squad \in Squads)
  BY <1>1 DEF PlaceFits, SquadCall
<1>3. Acts(c)
  <2>1. CASE Return(c)
    BY <1>1, <2>1, Returns DEF Acts, Idle
  <2>2. CASE \E p \in {"own", "next", "dropLead"} : Goto(c, p) /\ call[c].at # p
    <3>1. PICK p \in {"own", "next", "dropLead"} : Goto(c, p) /\ call[c].at # p
      BY <2>2
    <3>2. call'[c].at = p
      BY <3>1, GoesTo DEF Places
    <3>3. QED
      BY <3>1, <3>2 DEF Acts
  <2>3. QED
    BY <1>1, <2>1, <2>2 DEF RemoveMembership, DropAgent, Unlink
<1>4. CASE RemoveMembership(c) \/ Unlink(c)
  <2>1. call[c].at \in {"remove", "unlink"}
    BY <1>4 DEF RemoveMembership, Unlink
  <2>2. role' = [role EXCEPT ![call[c].agent] = [role[call[c].agent] EXCEPT ![call[c].squad] = "none"]]
    BY <1>2, <1>4, <2>1 DEF RemoveMembership, Unlink, SquadTyped
  <2>3. QED
    BY <1>2, <1>3, <2>1, <2>2 DEF SquadTyped
<1>5. CASE DropAgent(c)
  BY <1>2, <1>3, <1>5 DEF DropAgent, ForgetAgent, SquadTyped
<1>6. QED
  BY <1>4, <1>5

LEMMA SecondLeadStep ==
    ASSUME SquadInductive, SquadMembershipNext, role' # role PROVE SecondLeadNeedsOverlap
<1> SUFFICES ASSUME NEW s \in Squads, Cardinality(Leads(s)') > 1, ~(Leads(s)' \subseteq Leads(s))
             PROVE  \E c \in SquadCallers :
                        Acts(c) /\ call[c].at = "write" /\ call[c].seen[s] # Leads(s)
  BY DEF SecondLeadNeedsOverlap
<1>1. PICK c \in SquadCallers :
          SaveMembership(c) \/ RemoveMembership(c) \/ DropAgent(c) \/ Unlink(c)
  BY RowChangers
<1>2. SaveMembership(c)
  <2>1. CASE RemoveMembership(c) \/ DropAgent(c) \/ Unlink(c)
    BY <2>1, RowTaken DEF Leads
  <2>2. QED
    BY <1>1, <2>1
<1>3. call[c].squad = s /\ call[c].role = "captain"
      /\ Leads(s)' \subseteq Leads(s) \cup {call[c].agent} /\ call[c].agent \in Leads(s)'
  BY <1>2, RowWritten DEF Leads
<1>4. ChecksHeld(call[c])
  BY DEF SquadInductive
<1>5. call[c].seen[s] \subseteq {call[c].agent}
  BY <1>2, <1>3, <1>4, RowWritten DEF ChecksHeld
<1>6. call[c].seen[s] # Leads(s)
  <2> SUFFICES ASSUME call[c].seen[s] = Leads(s) PROVE FALSE
    OBVIOUS
  <2>1. Leads(s)' = {call[c].agent}
    BY <1>3, <1>5
  <2>2. Cardinality({call[c].agent}) = 1
    BY FS_Singleton
  <2>3. QED
    BY <2>1, <2>2
<1>7. QED
  BY <1>2, <1>6, RowWritten

LEMMA LastLeadStep ==
    ASSUME SquadInductive, SquadMembershipNext, role' # role PROVE LastLeadStays
<1> SUFFICES ASSUME NEW s \in squads, Leads(s) # {}, Leads(s)' = {}
             PROVE  \E c \in SquadCallers : Acts(c) /\
                        \/ call[c].do = "deleteSquad" /\ (call[c].squad = s \/ call[c].at = "dropLead")
                        \/ call[c].at = "write" /\ call[c].role = "specialist"
                        \/ call[c].seen[s] # Leads(s)
  BY DEF LastLeadStays
<1>1. s \in Squads
  BY DEF SquadInductive, SquadTyped
<1>2. PICK c \in SquadCallers :
          SaveMembership(c) \/ RemoveMembership(c) \/ DropAgent(c) \/ Unlink(c)
  BY RowChangers
<1>3. PICK b \in Agents : role[b][s] = "captain" /\ role'[b][s] # "captain"
  BY DEF Leads
<1>4. CASE SaveMembership(c)
  BY <1>1, <1>3, <1>4, RowWritten DEF Member
<1>5. CASE RemoveMembership(c) \/ DropAgent(c) \/ Unlink(c)
  <2>1. call[c] \in SquadCall /\ PlaceFits(call[c]) /\ ChecksHeld(call[c])
    BY DEF SquadInductive, SquadTyped
  <2>2. /\ b = call[c].agent /\ Acts(c)
        /\ \/ call[c].at \in {"remove", "unlink"} /\ call[c].squad = s
           \/ call[c].at \in {"drop", "undo", "dropLead"}
    BY <1>1, <1>3, <1>5, RowTaken
  <2>3. Leads(s) = {b}
    BY <1>1, <1>3, <1>5, <2>2, RowTaken DEF Leads
  <2>4. Cardinality({b}) = 1
    BY FS_Singleton
  <2>5. CASE call[c].at \in {"unlink", "dropLead"}
    BY <2>1, <2>2, <2>5 DEF PlaceFits, SquadCall
  <2>6. CASE call[c].at = "remove"
    <3>1. call[c].seen[s] # {b}
      BY <2>1, <2>2, <2>4, <2>6 DEF ChecksHeld
    <3>2. QED
      BY <2>2, <2>3, <3>1
  <2>7. CASE call[c].at \in {"drop", "undo"}
    <3>1. call[c].do \in {"delete", "create"} /\ (call[c].do = "create" => call[c].at = "undo")
      BY <2>1, <2>7 DEF PlaceFits, SquadCall
    <3>2. b \in call[c].seen[s] => Cardinality(call[c].seen[s]) > 1
      BY <1>1, <2>1, <2>2, <3>1 DEF ChecksHeld
    <3>3. call[c].seen[s] # {b}
      <4> SUFFICES ASSUME call[c].seen[s] = {b} PROVE FALSE
        OBVIOUS
      <4>1. Cardinality({b}) > 1
        BY <3>2
      <4>2. QED
        BY <2>4, <4>1
    <3>4. QED
      BY <2>2, <2>3, <3>3
  <2>8. QED
    BY <2>2, <2>5, <2>6, <2>7
<1>6. QED
  BY <1>2, <1>4, <1>5

LEMMA OrphanStep ==
    ASSUME SquadInductive, SquadMembershipNext PROVE OrphansNeedOverlap
<1> SUFFICES ASSUME NEW a \in Agents, NEW s \in Squads, Orphan(a, s)', ~Orphan(a, s)
             PROVE  \E c \in SquadCallers : Acts(c) /\
                        \/ call[c].at = "write" /\ call[c].agent = a /\ call[c].squad = s
                        \/ call[c].at = "team" /\ call[c].squad = s
  BY DEF OrphansNeedOverlap
<1>1. CASE role[a][s] \notin Member
  <2>1. role'[a][s] \in Member /\ role' # role
    BY <1>1 DEF Orphan
  <2>2. PICK c \in SquadCallers :
            SaveMembership(c) \/ RemoveMembership(c) \/ DropAgent(c) \/ Unlink(c)
    BY <2>1, RowChangers
  <2>3. SaveMembership(c)
    BY <1>1, <2>1, <2>2, RowTaken DEF Member
  <2>4. QED
    BY <1>1, <2>1, <2>3, RowWritten
<1>2. CASE role[a][s] \in Member
  <2>1. a \in agents /\ s \in squads /\ role'[a][s] \in Member /\ (a \notin agents' \/ s \notin squads')
    BY <1>2 DEF Orphan
  <2>2. (\E c \in SquadCallers : DropAgent(c)) \/ (\E c \in SquadCallers : DropSquad(c))
    <3>1. ~(agents \subseteq agents' /\ squads \subseteq squads')
      BY <2>1
    <3>2. \A c \in SquadCallers :
              SaveMembership(c) \/ RemoveMembership(c) \/ Unlink(c) => agents' = agents /\ squads' = squads
      BY DEF SaveMembership, RemoveMembership, Unlink
    <3>3. QED
      BY <3>1, <3>2, OthersOnlyAdd
  <2>3. ASSUME NEW c \in SquadCallers, DropAgent(c) PROVE FALSE
    <3>1. role'[call[c].agent] = [t \in Squads |-> "none"] \/ call[c].agent \notin Agents
      BY <2>3 DEF DropAgent, ForgetAgent, SquadInductive, SquadTyped
    <3>2. a = call[c].agent
      BY <2>1, <2>3 DEF DropAgent, ForgetAgent
    <3>3. QED
      BY <2>1, <3>1, <3>2 DEF Member
  <2>4. ASSUME NEW c \in SquadCallers, DropSquad(c)
        PROVE  Acts(c) /\ call[c].at = "team" /\ call[c].squad = s
    <3>1. call[c].at = "team" /\ Return(c) /\ call[c].squad = s
      BY <2>1, <2>4 DEF DropSquad
    <3>2. call'[c] = Idle
      BY <3>1, Returns DEF SquadInductive
    <3>3. QED
      BY <3>1, <3>2 DEF Acts, Idle
  <2>5. QED
    BY <2>2, <2>3, <2>4
<1>3. QED
  BY <1>1, <1>2

\* Squads, leads, members and services fit each other as SquadMembershipCorrect
\* says, for any agents, squads, callers and failures: only checks that are out of
\* date give a squad a second lead, take its last or leave a membership of nobody,
\* and a cached service is outdated only where a call or a deletion makes it so.
THEOREM SquadsAreCorrect == SquadMembershipSpec => SquadMembershipCorrect
<1>1. SquadInductive /\ SquadMembershipNext => SquadInductive'
  <2> SUFFICES ASSUME SquadInductive, SquadMembershipNext PROVE SquadInductive'
    OBVIOUS
  <2>1. CASE BuildDone \/ \E a \in Agents : BuildRead(a)
    BY <2>1, BuildSteps
  <2>2. ASSUME NEW c \in SquadCallers, NEW a \in Agents, NEW s \in Squads, NEW r \in Member,
               JoinSquad(c, a, s, r) \/ CreateAgent(c, a, s, r)
        PROVE  SquadInductive'
    BY <2>2, JoinCheckSound, CreateCheckSound DEF JoinSquad, CreateAgent
  <2>3. ASSUME NEW c \in SquadCallers, NEW a \in Agents,
               \/ \E s \in Squads : LeaveSquad(c, a, s)
               \/ CreateStandalone(c, a) \/ DeleteAgent(c, a) \/ UpdateAgent(c, a)
        PROVE  SquadInductive'
    BY <2>3, LeaveSound, StandaloneSound, DeleteAgentSound, UpdateAgentSound
  <2>4. ASSUME NEW c \in SquadCallers,
               \/ \E s \in Squads : DeleteSquad(c, s) \/ CreateSquad(c, s)
               \/ GiveLead(c) \/ SaveAgent(c) \/ SaveMembership(c) \/ SaveMembershipFails(c)
               \/ RemoveMembership(c) \/ DropAgent(c) \/ PutAgent(c)
               \/ NextMember(c) \/ Unlink(c) \/ DropSquad(c)
               \/ ClearOwn(c) \/ ListCaptains(c) \/ ClearCaptain(c)
        PROVE  SquadInductive'
    BY <2>4, DeleteSquadSound, CreateSquadSound, GiveLeadSound, SaveAgentSound, RowSteps,
       CallOnlySteps, DropAgentSound, PutAgentSound, NextMemberSound, UnlinkSound,
       ClearOwnSound, ListCaptainsSound, ClearCaptainSound
  <2>5. QED
    BY <2>1, <2>2, <2>3, <2>4 DEF SquadMembershipNext
<1>2. SquadInductive /\ [SquadMembershipNext]_squadVars => SquadInductive'
  BY <1>1, SquadStays
<1>3. SquadInductive => ServicesAreCurrent
  BY DEF SquadInductive
<1>4. SquadInductive /\ [SquadMembershipNext]_squadVars
        => [role' # role => SecondLeadNeedsOverlap /\ LastLeadStays]_squadVars
  BY SecondLeadStep, LastLeadStep DEF squadVars
<1>5. SquadInductive /\ [SquadMembershipNext]_squadVars
        => [<<role, agents, squads>>' # <<role, agents, squads>> => OrphansNeedOverlap]_squadVars
  BY OrphanStep DEF squadVars
<1>6. QED
  BY SquadStart, <1>2, <1>3, <1>4, <1>5, PTL DEF SquadMembershipSpec, SquadMembershipCorrect

-----------------------------------------------------------------------------
(* The runs of one service *)

\* Two calls that are at work have met.
AloneUntilMet == \A w \in AtWork \ met : AtWork = {w}

\* Every copy that can still be saved has the messages of each run that was
\* saved, and what a run has added to its own; or it is fresh and will replace
\* them, as an earlier one may have done.
AnswersAreCarried ==
    \A r \in Runs \ met :
        kindOf[r] = "run" =>
            /\ workPc[r] = "save" => r \in copy[r].messages
            /\ workPc[r] \in {"read", "clear", "ok"} =>
                   /\ r \in stored.messages \cup replaced
                   /\ \A w \in Workers :
                          workPc[w] \in {"collect", "execute", "save"} =>
                              r \in copy[w].messages \cup replaced \/ ~copy[w].exists

SummaryIsCarried ==
    /\ stored.summary /\ met = {} =>
           \A w \in Workers :
               workPc[w] \in {"collect", "execute", "save"} => copy[w].summary \/ ~copy[w].exists
    /\ \A w \in Compactions : workPc[w] = "save" => copy[w].summary

\* The list holds nothing of a run that is over, if none has failed with it.
SourcesHaveRuns ==
    leftSources = {} =>
        \A r \in ragSources : workPc[r] \in {"execute", "save", "read", "clear"}

RunsInductive ==
    /\ RunsTypeOK /\ AloneUntilMet /\ AnswersAreCarried /\ SummaryIsCarried
    /\ CancelFindsTheRun /\ SourcesHaveRuns /\ SourcesAreOwn

LEMMA SessionsAreRows ==
    /\ Main \in SessionAgents /\ FreshSession \in Row
    /\ stored \in Row => \A readable \in BOOLEAN : SessionFrom(readable) \in Row
  BY RunsAssumption DEF Main, FreshSession, Row, SessionFrom

LEMMA RunsStart == RunsInit => RunsInductive
<1> SUFFICES ASSUME RunsInit PROVE RunsInductive
  OBVIOUS
<1>1. RunsTypeOK
  BY SessionsAreRows DEF RunsInit, RunsTypeOK
<1>2. \A w \in Workers : workPc[w] = "idle"
  BY DEF RunsInit
<1>3. AtWork = {}
  BY <1>2 DEF AtWork, Over
<1>4. AnswersAreCarried /\ SummaryIsCarried /\ SourcesAreOwn
  BY <1>2 DEF AnswersAreCarried, SummaryIsCarried, SourcesAreOwn, Workers
<1>5. CancelFindsTheRun /\ SourcesHaveRuns
  BY <1>2 DEF RunsInit, CancelFindsTheRun, SourcesHaveRuns, Workers, Over
<1>6. QED
  BY <1>1, <1>3, <1>4, <1>5 DEF RunsInductive, AloneUntilMet

\* A call that was at work goes on, or ends: nobody meets anybody.
LEMMA AloneStays ==
    ASSUME RunsTypeOK, AloneUntilMet, met' = met, NEW w \in Workers, NEW to,
           workPc[w] \notin Over, Goes(w, to)
    PROVE  AloneUntilMet'
  BY DEF AloneUntilMet, AtWork, Goes, RunsTypeOK

LEMMA BeginSteps ==
    ASSUME RunsInductive, NEW w \in Workers,
           BeginOther(w) \/ (w \in Runs /\ BeginRun(w))
    PROVE  RunsInductive'
<1> USE DEF RunsInductive
<1>1. /\ workPc[w] = "idle" /\ workPc' = [workPc EXCEPT ![w] = "load"] /\ Meets(w)
      /\ UNCHANGED <<kindOf, stored, copy, sourceVars, leftSources, replaced, cancelledRuns>>
  BY DEF BeginOther, BeginRun, Goes, flagVars
<1>2. /\ workPc'[w] = "load" /\ met \subseteq met'
      /\ \A v \in Workers \ {w} : workPc'[v] = workPc[v]
  BY <1>1 DEF RunsTypeOK, Meets
<1>3. AtWork' = AtWork \cup {w} /\ w \notin AtWork
  BY <1>1, <1>2 DEF AtWork, Over
<1>4. isRunning' \in BOOLEAN /\ cancelFunc' \in Runs \cup {NoRun}
  BY DEF BeginOther, BeginRun, flagVars, RunsTypeOK
<1>5. RunsTypeOK'
  <2>1. workPc' \in [Workers -> {"idle", "load", "collect", "execute", "save", "read", "clear",
                                 "ok", "failed"}]
    BY <1>1 DEF RunsTypeOK
  <2>2. met' \subseteq Workers
    BY <1>1 DEF RunsTypeOK, Meets, AtWork
  <2>3. QED
    BY <1>1, <1>4, <2>1, <2>2 DEF RunsTypeOK, sourceVars
<1>6. AloneUntilMet'
  BY <1>1, <1>3 DEF AloneUntilMet, Meets
<1>7. AnswersAreCarried' /\ SummaryIsCarried'
  BY <1>1, <1>2 DEF AnswersAreCarried, SummaryIsCarried, Workers
<1>8. SourcesHaveRuns' /\ SourcesAreOwn'
  BY <1>1, <1>2 DEF SourcesHaveRuns, SourcesAreOwn, sourceVars, Workers, RunsTypeOK
<1>9. CancelFindsTheRun'
  <2>1. CASE BeginOther(w)
    BY <1>1, <1>2, <2>1 DEF BeginOther, flagVars, CancelFindsTheRun, Over, Workers
  <2>2. CASE w \in Runs /\ BeginRun(w)
    <3>1. \A r \in Runs \ {w} : workPc'[r] \notin Over => r \in met'
      BY <1>1, <1>2 DEF Meets, AtWork, Over, Workers
    <3>2. QED
      BY <1>1, <1>2, <2>2, <3>1 DEF BeginRun, CancelFindsTheRun, Over, Workers
  <2>3. QED
    BY <2>1, <2>2
<1>10. QED
  BY <1>5, <1>6, <1>7, <1>8, <1>9

LEMMA SessionStep ==
    ASSUME RunsInductive, NEW w \in Workers, NEW readable \in BOOLEAN, GetOrMakeSession(w, readable)
    PROVE  RunsInductive'
<1> USE DEF RunsInductive
<1>1. PICK to \in {"ok", "failed", "execute", "collect"} :
          /\ workPc[w] = "load" /\ Goes(w, to)
          /\ \/ to \in {"ok", "failed"} /\ w \notin Runs /\ copy' = copy
             \/ to \in {"execute", "collect"} /\ copy' = [copy EXCEPT ![w] = SessionFrom(readable)]
          /\ UNCHANGED <<kindOf, stored, flagVars, sourceVars, met, leftSources, replaced>>
  BY RunsAssumption DEF GetOrMakeSession
<1>2. /\ workPc'[w] = to /\ \A v \in Workers \ {w} : workPc'[v] = workPc[v] /\ copy'[v] = copy[v]
      /\ to \in {"execute", "collect"} => copy'[w] = SessionFrom(readable)
  BY <1>1 DEF RunsTypeOK, Goes
<1>3. RunsTypeOK'
  <2>1. workPc' \in [Workers -> {"idle", "load", "collect", "execute", "save", "read", "clear",
                                 "ok", "failed"}]
    BY <1>1 DEF RunsTypeOK, Goes
  <2>2. copy' \in [Workers -> Row]
    BY <1>1, SessionsAreRows DEF RunsTypeOK
  <2>3. QED
    BY <1>1, <2>1, <2>2 DEF RunsTypeOK, sourceVars, flagVars
<1>4. AloneUntilMet'
  BY <1>1, AloneStays DEF Over
<1>5. AnswersAreCarried'
  BY <1>1, <1>2 DEF AnswersAreCarried, Workers, SessionFrom, RunsTypeOK, FreshSession
<1>6. SummaryIsCarried'
  BY <1>1, <1>2 DEF SummaryIsCarried, Workers, SessionFrom, RunsTypeOK, FreshSession
<1>7. SourcesHaveRuns' /\ SourcesAreOwn'
  BY <1>1, <1>2 DEF SourcesHaveRuns, SourcesAreOwn, sourceVars, Workers, RunsTypeOK
<1>8. CancelFindsTheRun'
  BY <1>1, <1>2 DEF flagVars, CancelFindsTheRun, Over, Workers
<1>9. QED
  BY <1>3, <1>4, <1>5, <1>6, <1>7, <1>8

\* A call goes on without the session in the table, the flag or the list of sources.
LEMMA WorkSteps ==
    ASSUME RunsInductive, NEW w \in Workers,
           \/ w \in Runs /\ (CollectContext(w) \/ RunSucceeds(w))
           \/ \E ok \in BOOLEAN : SummaryReady(w, ok)
    PROVE  RunsInductive'
<1> USE DEF RunsInductive
<1>1. PICK to \in {"execute", "save", "read", "failed"} :
          /\ workPc[w] \in {"collect", "execute"} /\ Goes(w, to)
          /\ to = "execute" => workPc[w] = "collect"
          /\ to = "failed" => w \in Compactions
          /\ to = "read" => w \in Runs /\ kindOf[w] = "stream"
          /\ UNCHANGED <<kindOf, stored, flagVars, sources, met, leftSources, replaced>>
          /\ to # "execute" => ragSources' = ragSources
          /\ ragSources' \subseteq ragSources \cup ({w} \cap Runs)
  <2>1. CASE w \in Runs /\ CollectContext(w)
    BY <2>1 DEF CollectContext
  <2>2. CASE w \in Runs /\ RunSucceeds(w)
    <3>1. CASE kindOf[w] = "run"
      BY <2>2, <3>1 DEF RunSucceeds, sourceVars
    <3>2. CASE kindOf[w] # "run"
      <4>1. kindOf[w] = "stream"
        BY <2>2, <3>2 DEF RunsTypeOK
      <4>2. QED
        BY <2>2, <3>2, <4>1 DEF RunSucceeds, sourceVars
    <3>3. QED
      BY <3>1, <3>2
  <2>3. CASE \E ok \in BOOLEAN : SummaryReady(w, ok)
    BY <2>3 DEF SummaryReady, sourceVars
  <2>4. QED
    BY <2>1, <2>2, <2>3
<1>2. /\ workPc'[w] = to /\ \A v \in Workers \ {w} : workPc'[v] = workPc[v]
  BY <1>1 DEF RunsTypeOK, Goes
<1>3. /\ copy' \in [Workers -> Row] /\ \A v \in Workers \ {w} : copy'[v] = copy[v]
      /\ copy[w].messages \subseteq copy'[w].messages /\ copy'[w].exists = copy[w].exists
      /\ to = "save" /\ w \in Runs => w \in copy'[w].messages
      /\ to # "failed" /\ copy[w].summary => copy'[w].summary
      /\ to = "save" /\ w \in Compactions => copy'[w].summary
  <2>1. CASE UNCHANGED copy /\ to # "save"
    BY <2>1 DEF RunsTypeOK
  <2>2. CASE \E a \in SessionAgents :
                 w \in Runs /\ copy' = [copy EXCEPT ![w].messages = @ \cup {w}, ![w].agent = a]
    <3>1. PICK a \in SessionAgents :
              w \in Runs /\ copy' = [copy EXCEPT ![w].messages = @ \cup {w}, ![w].agent = a]
      BY <2>2
    <3>2. copy[w] \in Row
      BY DEF RunsTypeOK
    <3>3. [[copy[w] EXCEPT !.messages = copy[w].messages \cup {w}] EXCEPT !.agent = a] \in Row
      BY <3>1, <3>2 DEF Row
    <3>4. copy'[w] = [[copy[w] EXCEPT !.messages = copy[w].messages \cup {w}] EXCEPT !.agent = a]
      BY <3>1 DEF RunsTypeOK
    <3>5. /\ copy'[w].messages = copy[w].messages \cup {w} /\ copy'[w].summary = copy[w].summary
          /\ copy'[w].exists = copy[w].exists
      BY <3>2, <3>4 DEF Row
    <3>6. copy' \in [Workers -> Row] /\ \A v \in Workers \ {w} : copy'[v] = copy[v]
      BY <3>1, <3>3, <3>4 DEF RunsTypeOK
    <3>7. w \notin Compactions
      BY <3>1, RunsAssumption
    <3>8. QED
      BY <3>5, <3>6, <3>7
  <2>3. CASE \E ok \in BOOLEAN : /\ w \in Compactions /\ copy' = [copy EXCEPT ![w].summary = ok]
                                 /\ to # "failed" => ok
    <3>1. PICK ok \in BOOLEAN : /\ w \in Compactions /\ copy' = [copy EXCEPT ![w].summary = ok]
                                /\ to # "failed" => ok
      BY <2>3
    <3>2. copy[w] \in Row
      BY DEF RunsTypeOK
    <3>3. [copy[w] EXCEPT !.summary = ok] \in Row
      BY <3>2 DEF Row
    <3>4. copy'[w] = [copy[w] EXCEPT !.summary = ok]
      BY <3>1 DEF RunsTypeOK
    <3>5. /\ copy'[w].messages = copy[w].messages /\ copy'[w].summary = ok
          /\ copy'[w].exists = copy[w].exists
      BY <3>2, <3>4 DEF Row
    <3>6. copy' \in [Workers -> Row] /\ \A v \in Workers \ {w} : copy'[v] = copy[v]
      BY <3>1, <3>3, <3>4 DEF RunsTypeOK
    <3>7. w \notin Runs
      BY <3>1, RunsAssumption
    <3>8. QED
      BY <3>1, <3>5, <3>6, <3>7
  <2>4. QED
    <3>1. CASE w \in Runs /\ CollectContext(w)
      BY <1>1, <1>2, <2>1, <3>1 DEF CollectContext, Goes, RunsTypeOK
    <3>2. CASE w \in Runs /\ RunSucceeds(w)
      BY <1>1, <1>2, <2>1, <2>2, <3>2 DEF RunSucceeds, Goes, RunsTypeOK
    <3>3. CASE \E ok \in BOOLEAN : SummaryReady(w, ok)
      <4>1. PICK ok \in BOOLEAN : SummaryReady(w, ok)
        BY <3>3
      <4>2. to # "failed" => ok
        BY <1>2, <4>1 DEF SummaryReady, Goes, RunsTypeOK
      <4>3. QED
        BY <2>3, <4>1, <4>2 DEF SummaryReady
    <3>4. QED
      BY <3>1, <3>2, <3>3
<1>4. RunsTypeOK'
  <2>1. workPc' \in [Workers -> {"idle", "load", "collect", "execute", "save", "read", "clear",
                                 "ok", "failed"}]
    BY <1>1 DEF RunsTypeOK, Goes
  <2>2. QED
    BY <1>1, <1>3, <2>1 DEF RunsTypeOK, sourceVars, flagVars
<1>5. AloneUntilMet'
  BY <1>1, AloneStays DEF Over
<1>6. AnswersAreCarried'
  BY <1>1, <1>2, <1>3 DEF AnswersAreCarried, Workers
<1>7. SummaryIsCarried'
  BY <1>1, <1>2, <1>3 DEF SummaryIsCarried, Workers
<1>8. SourcesHaveRuns'
  <2>1. w \in Compactions => w \notin Runs
    BY RunsAssumption
  <2>2. QED
    BY <1>1, <1>2, <2>1 DEF SourcesHaveRuns, Workers, RunsTypeOK
<1>9. SourcesAreOwn'
  BY <1>1, <1>2 DEF SourcesAreOwn, Workers
<1>10. CancelFindsTheRun'
  BY <1>1, <1>2, RunsAssumption DEF flagVars, CancelFindsTheRun, Over, Workers
<1>11. QED
  BY <1>4, <1>5, <1>6, <1>7, <1>8, <1>9, <1>10

LEMMA SaveSessionStep ==
    ASSUME RunsInductive, NEW w \in Workers, SaveSession(w) PROVE RunsInductive'
<1> USE DEF RunsInductive
<1>1. PICK to \in {"ok", "read"} :
          /\ workPc[w] = "save" /\ Goes(w, to) /\ stored' = Saved(copy[w])
          /\ w \in Runs <=> to = "read"
          /\ replaced' = IF copy[w].exists THEN replaced ELSE replaced \cup stored.messages
          /\ UNCHANGED <<kindOf, copy, flagVars, sourceVars, met, leftSources>>
  BY DEF SaveSession
<1>2. /\ workPc'[w] = to /\ \A v \in Workers \ {w} : workPc'[v] = workPc[v]
  BY <1>1 DEF RunsTypeOK, Goes
<1>3. /\ stored' \in Row /\ stored'.exists
      /\ stored'.messages = copy[w].messages /\ stored'.summary = copy[w].summary
  <2>1. copy[w] \in Row /\ stored \in Row
    BY DEF RunsTypeOK
  <2>2. PICK a \in SessionAgents : a = IF stored.exists THEN stored.agent ELSE copy[w].agent
    BY <2>1 DEF Row
  <2>3. stored' = [[copy[w] EXCEPT !.exists = TRUE] EXCEPT !.agent = a]
    BY <1>1, <2>1, <2>2 DEF Saved, Row
  <2>4. QED
    BY <2>1, <2>3 DEF Row
<1>4. RunsTypeOK'
  <2>1. workPc' \in [Workers -> {"idle", "load", "collect", "execute", "save", "read", "clear",
                                 "ok", "failed"}]
    BY <1>1 DEF RunsTypeOK, Goes
  <2>2. replaced' \subseteq Runs
    BY <1>1 DEF RunsTypeOK, Row
  <2>3. QED
    BY <1>1, <1>3, <2>1, <2>2 DEF RunsTypeOK, sourceVars, flagVars
<1>5. AloneUntilMet'
  BY <1>1, AloneStays DEF Over
<1>6. w \notin met => \A v \in Workers : workPc'[v] \notin {"collect", "execute", "save"}
  BY <1>1, <1>2 DEF AloneUntilMet, AtWork, Over
<1>7. AnswersAreCarried'
  <2>1. \A r \in (Runs \cap {w}) \ met : kindOf[r] = "run" => r \in stored'.messages
    BY <1>1, <1>3 DEF AnswersAreCarried
  <2>2. QED
    BY <1>1, <1>2, <1>3, <1>6, <2>1 DEF AnswersAreCarried, Workers
<1>8. SummaryIsCarried'
  BY <1>1, <1>2, <1>6 DEF SummaryIsCarried, Workers
<1>9. SourcesHaveRuns' /\ SourcesAreOwn'
  BY <1>1, <1>2 DEF SourcesHaveRuns, SourcesAreOwn, sourceVars, Workers, RunsTypeOK
<1>10. CancelFindsTheRun'
  BY <1>1, <1>2 DEF flagVars, CancelFindsTheRun, Over, Workers
<1>11. QED
  BY <1>4, <1>5, <1>7, <1>8, <1>9, <1>10

LEMMA SourcesReadStep ==
    ASSUME RunsInductive, NEW r \in Runs, ReadSources(r) PROVE RunsInductive'
<1> USE DEF RunsInductive
<1>1. /\ workPc[r] = "read" /\ Goes(r, "clear") /\ r \in Workers
      /\ sources' = [sources EXCEPT ![r] = ragSources]
      /\ UNCHANGED <<kindOf, stored, copy, flagVars, ragSources, met, leftSources, replaced>>
  BY DEF ReadSources, Workers
<1>2. /\ workPc'[r] = "clear" /\ \A v \in Workers \ {r} : workPc'[v] = workPc[v]
      /\ sources'[r] = ragSources /\ \A v \in Runs \ {r} : sources'[v] = sources[v]
  BY <1>1 DEF RunsTypeOK, Goes
<1>3. RunsTypeOK'
  <2>1. workPc' \in [Workers -> {"idle", "load", "collect", "execute", "save", "read", "clear",
                                 "ok", "failed"}]
    BY <1>1 DEF RunsTypeOK, Goes
  <2>2. QED
    BY <1>1, <2>1 DEF RunsTypeOK, flagVars
<1>4. AloneUntilMet'
  BY <1>1, AloneStays DEF Over
<1>5. AnswersAreCarried' /\ SummaryIsCarried'
  BY <1>1, <1>2 DEF AnswersAreCarried, SummaryIsCarried, Workers
<1>6. SourcesHaveRuns'
  BY <1>1, <1>2 DEF SourcesHaveRuns, Workers, RunsTypeOK
<1>7. SourcesAreOwn'
  <2>1. r \notin met /\ leftSources = {} => ragSources \subseteq {r}
    BY <1>1 DEF SourcesHaveRuns, AloneUntilMet, AtWork, Over, Workers, RunsTypeOK
  <2>2. QED
    BY <1>1, <1>2, <2>1 DEF SourcesAreOwn, Workers
<1>8. CancelFindsTheRun'
  BY <1>1, <1>2 DEF flagVars, CancelFindsTheRun, Over, Workers
<1>9. QED
  BY <1>3, <1>4, <1>5, <1>6, <1>7, <1>8

\* A call ends, and with it the flag and the function that cancels.
LEMMA EndSteps ==
    ASSUME RunsInductive, NEW w \in Workers,
           SaveFails(w) \/ (w \in Runs /\ (RunFails(w) \/ ClearSources(w)))
    PROVE  RunsInductive'
<1> USE DEF RunsInductive
<1>1. PICK to \in {"ok", "failed"} :
          /\ workPc[w] \notin Over /\ Goes(w, to)
          /\ to = "ok" => workPc[w] = "clear"
          /\ IF w \in Runs THEN RunIsOver(w) ELSE UNCHANGED flagVars
          /\ UNCHANGED <<kindOf, stored, copy, sources, met, replaced>>
          /\ leftSources \subseteq leftSources' /\ leftSources' \subseteq leftSources \cup ({w} \cap Runs)
          /\ \/ ragSources' = {}
             \/ ragSources' = ragSources /\ w \notin Runs
             \/ ragSources' = ragSources /\ w \in leftSources'
  BY DEF SaveFails, RunFails, ClearSources, SourcesForNextRun, Over, sourceVars
<1>2. /\ workPc'[w] = to /\ \A v \in Workers \ {w} : workPc'[v] = workPc[v]
  BY <1>1 DEF RunsTypeOK, Goes
<1>3. RunsTypeOK'
  <2>1. workPc' \in [Workers -> {"idle", "load", "collect", "execute", "save", "read", "clear",
                                 "ok", "failed"}]
    BY <1>1 DEF RunsTypeOK, Goes
  <2>2. isRunning' \in BOOLEAN /\ cancelFunc' \in Runs \cup {NoRun} /\ cancelledRuns' = cancelledRuns
    BY <1>1 DEF RunsTypeOK, RunIsOver, CancelFuncAfter, flagVars
  <2>3. QED
    BY <1>1, <2>1, <2>2 DEF RunsTypeOK
<1>4. AloneUntilMet'
  BY <1>1, AloneStays
<1>5. AnswersAreCarried' /\ SummaryIsCarried'
  BY <1>1, <1>2 DEF AnswersAreCarried, SummaryIsCarried, Workers
<1>6. SourcesHaveRuns'
  BY <1>1, <1>2 DEF SourcesHaveRuns, Workers, RunsTypeOK
<1>7. SourcesAreOwn'
  BY <1>1, <1>2 DEF SourcesAreOwn, Workers
<1>8. CancelFindsTheRun'
  <2>1. CASE w \in Runs /\ kindOf[w] = "run"
    <3>1. isRunning' = FALSE /\ cancelFunc' = NoRun
      BY <1>1, <2>1 DEF RunIsOver, CancelFuncAfter
    <3>2. \A r \in Runs \ {w} : workPc'[r] \notin Over => r \in met'
      BY <1>1, <1>2 DEF AloneUntilMet, AtWork, Workers
    <3>3. QED
      BY <1>2, <3>1, <3>2 DEF CancelFindsTheRun, Over
  <2>2. CASE ~(w \in Runs /\ kindOf[w] = "run")
    BY <1>1, <1>2, <2>2 DEF RunIsOver, flagVars, CancelFindsTheRun, Workers
  <2>3. QED
    BY <2>1, <2>2
<1>9. QED
  BY <1>3, <1>4, <1>5, <1>6, <1>7, <1>8

LEMMA CancelAndStutter ==
    ASSUME RunsInductive, CancelService \/ UNCHANGED runsVars PROVE RunsInductive'
<1>1. /\ UNCHANGED <<kindOf, stored, workPc, copy, isRunning, cancelFunc, sourceVars, met, leftSources, replaced>>
      /\ cancelledRuns' \subseteq Runs
  BY DEF RunsInductive, RunsTypeOK, CancelService, runsVars, flagVars
<1>2. QED
  BY <1>1 DEF RunsInductive, RunsTypeOK, sourceVars, AloneUntilMet, AtWork, AnswersAreCarried,
     SummaryIsCarried, CancelFindsTheRun, SourcesHaveRuns, SourcesAreOwn

LEMMA SummaryStays ==
    ASSUME RunsInductive, [RunsNext]_runsVars, stored.summary, ~stored'.summary 
    PROVE  \/ met # {}
           \/ \E r \in Runs : workPc[r] = "save" /\ workPc'[r] = "read" /\ ~copy[r].exists
<1>1. stored' # stored
  OBVIOUS
<1>2. PICK w \in Workers : SaveSession(w)
  BY <1>1 DEF RunsNext, runsVars, CancelService, BeginOther, BeginRun, GetOrMakeSession, SaveFails,
     SummaryReady, CollectContext, RunFails, RunSucceeds, ReadSources, ClearSources
<1>3. copy[w] \in Row /\ stored \in Row
  BY DEF RunsInductive, RunsTypeOK
<1>4. workPc[w] = "save" /\ stored'.summary = copy[w].summary
  BY <1>2, <1>3 DEF SaveSession, Saved, Row
<1>5. w \in Runs => workPc'[w] = "read"
  BY <1>2 DEF SaveSession, Goes, RunsInductive, RunsTypeOK
<1>6. w \in Runs /\ (met # {} \/ ~copy[w].exists)
  BY <1>4 DEF RunsInductive, SummaryIsCarried, Workers
<1>7. QED
  BY <1>4, <1>5, <1>6

\* Runs that share a service and a session keep out of each other's way
\* (ServiceRunsCorrect), however many they are: without an overlap the answer and
\* the summary stay until a run that could not read the session replaces it, Cancel
\* finds the run, and sources are its own.
THEOREM ServiceRunsAreCorrect == RunsSpec => ServiceRunsCorrect
<1>1. RunsInductive /\ [RunsNext]_runsVars => RunsInductive'
  BY BeginSteps, SessionStep, WorkSteps, SaveSessionStep, SourcesReadStep, EndSteps, CancelAndStutter
  DEF RunsNext, Workers
<1>2. RunsInductive => RunsTypeOK /\ AnsweredIsRemembered /\ CancelFindsTheRun /\ SourcesAreOwn
  BY DEF RunsInductive, AnswersAreCarried, AnsweredIsRemembered
<1>3. RunsInductive /\ [RunsNext]_runsVars
        => [(stored.summary /\ ~stored'.summary) =>
               \/ met # {}
               \/ \E r \in Runs : workPc[r] = "save" /\ workPc'[r] = "read" /\ ~copy[r].exists]_runsVars
  BY SummaryStays
<1>4. QED
  BY RunsStart, <1>1, <1>2, <1>3, PTL DEF RunsSpec, ServiceRunsCorrect, SummaryIsKept

-----------------------------------------------------------------------------
(* The code sandbox *)

CallRecord ==
    [at : {"idle", "register", "start", "wait", "note", "save", "over"},
     todo : SUBSET Scriptable, out : {"none", "closed", "error", "timeout", "ok"}, stamp : Nat]

ScriptRecord ==
    [at : {"none", "runs", "looks", "calls", "ended"}, tools : BOOLEAN, calls : Nat,
     told : Seq({"ok", "failed"}), threw : BOOLEAN]

SandboxTyped ==
    /\ sandboxClosed \in BOOLEAN
    /\ registered \subseteq Scriptable /\ registering \in CodeRuns \cup {NoCodeRun}
    /\ codeRun \in [CodeRuns -> CallRecord] /\ script \in [CodeRuns -> ScriptRecord]
    /\ did \in [CodeRuns -> Seq({"ok", "failed"})]
    /\ history \subseteq CodeRuns /\ clock \in Nat /\ late \subseteq CodeRuns

\* The script of an execution starts when its tools are registered, has ended
\* when the execution goes on, and is left behind by a timeout only.
ScriptFits(x) ==
    /\ codeRun[x].at = "over" <=> codeRun[x].out # "none"
    /\ codeRun[x].at \in {"idle", "register", "start"} => script[x].at = "none"
    /\ codeRun[x].at \in {"note", "save"} \/ codeRun[x].out = "ok" => script[x].at = "ended"
    /\ codeRun[x].at = "over" /\ script[x].at \notin {"none", "ended"} =>
           codeRun[x].out = "timeout"
    /\ x \in late => codeRun[x].out = "timeout"
    /\ script[x].told = did[x]

\* A call is counted before it is made, and made within the limit only.
CallsCounted(x) ==
    /\ Len(did[x]) <= MaxToolCalls /\ Len(did[x]) <= script[x].calls
    /\ script[x].at \in {"looks", "calls"} => Len(did[x]) < script[x].calls
    /\ script[x].at = "calls" => script[x].calls <= MaxToolCalls

\* Whoever writes to the map is registering, two that are alive have
\* overlapped, and nothing was under way when the service was closed unless
\* that was noted.
OverlapsNoted ==
    /\ registering # NoCodeRun => codeRun[registering].at = "register"
    /\ \A x, y \in CodeRuns : x # y /\ Alive(x) /\ Alive(y) => overlap
    /\ sandboxClosed => \A x \in CodeRuns : RunUnderWay(x) => closedAmid

\* Stamps are of the past, and no two entries share one.
StampsApart ==
    /\ \A x \in CodeRuns :
           /\ codeRun[x].stamp <= clock
           /\ codeRun[x].at = "save" \/ codeRun[x].out = "ok" => codeRun[x].stamp > 0
    /\ \A x, y \in CodeRuns : x # y /\ codeRun[x].stamp = codeRun[y].stamp => codeRun[x].stamp = 0

SandboxInductive ==
    /\ SandboxTyped
    /\ \A x \in CodeRuns : ScriptFits(x) /\ CallsCounted(x)
    /\ OverlapsNoted /\ DeathNeedsOverlap
    /\ StampsApart /\ HistoryIsNewest

LEMMA SandboxStart == CodeSandboxInit => SandboxInductive
<1> SUFFICES ASSUME CodeSandboxInit PROVE SandboxInductive
  OBVIOUS
<1>1. SandboxTyped
  <2>1. <<>> \in Seq({"ok", "failed"})
    OBVIOUS
  <2>2. NoScript \in ScriptRecord
    BY <2>1 DEF NoScript, ScriptRecord
  <2>3. /\ script = [x \in CodeRuns |-> NoScript]
        /\ did = [x \in CodeRuns |-> <<>>]
    BY DEF CodeSandboxInit
  <2>4. QED
    BY <2>1, <2>2, <2>3 DEF CodeSandboxInit, SandboxTyped, CallRecord
<1>2. \A x \in CodeRuns : ScriptFits(x) /\ CallsCounted(x)
  BY CodeSandboxAssumption DEF CodeSandboxInit, NoScript, ScriptFits, CallsCounted
<1>3. OverlapsNoted /\ DeathNeedsOverlap
  BY DEF CodeSandboxInit, NoScript, OverlapsNoted, DeathNeedsOverlap, Alive, RunUnderWay
<1>4. StampsApart
  BY DEF CodeSandboxInit, StampsApart
<1>5. HistoryIsNewest
  BY CodeSandboxAssumption, FS_EmptySet DEF CodeSandboxInit, HistoryIsNewest
<1>6. QED
  BY <1>1, <1>2, <1>3, <1>4, <1>5 DEF SandboxInductive

\* The history stays right as long as the entries in it stay.
LEMMA HistoryStays ==
    ASSUME SandboxTyped, HistoryIsNewest, history' = history, crossed' = crossed,
           \A x \in CodeRuns :
               /\ codeRun'[x].out = "ok" <=> codeRun[x].out = "ok"
               /\ codeRun[x].out = "ok" => codeRun'[x].stamp = codeRun[x].stamp
    PROVE  HistoryIsNewest'
  BY DEF HistoryIsNewest, SandboxTyped

\* No new stamp is set, and none is needed.
LEMMA StampsStay ==
    ASSUME StampsApart, clock' = clock,
           \A x \in CodeRuns :
               /\ codeRun'[x].stamp = codeRun[x].stamp
               /\ codeRun'[x].at = "save" \/ codeRun'[x].out = "ok" =>
                      codeRun[x].at = "save" \/ codeRun[x].out = "ok"
    PROVE  StampsApart'
  BY DEF StampsApart

\* Nobody comes to life, and the excuses stay.
LEMMA OverlapsStay ==
    ASSUME SandboxTyped, OverlapsNoted, DeathNeedsOverlap,
           sandboxClosed' = sandboxClosed, closedAmid' = closedAmid,
           overlap => overlap', fatal' = fatal,
           registering' # NoCodeRun => codeRun'[registering'].at = "register",
           \A x \in CodeRuns : Alive(x)' => Alive(x),
           \A x \in CodeRuns : RunUnderWay(x)' => RunUnderWay(x)
    PROVE  OverlapsNoted' /\ DeathNeedsOverlap'
  BY DEF OverlapsNoted, DeathNeedsOverlap

\* A script goes on by itself.
LEMMA ScriptMoves ==
    ASSUME SandboxInductive, NEW x \in CodeRuns, script[x].at \in {"runs", "looks", "calls"},
           UNCHANGED <<sandboxClosed, mapVars, codeRunVars, fatal, overlap, closedAmid>>,
           script' \in [CodeRuns -> ScriptRecord], did' \in [CodeRuns -> Seq({"ok", "failed"})],
           late' \subseteq late \cup {x},
           \A y \in CodeRuns \ {x} : script'[y] = script[y] /\ did'[y] = did[y],
           ScriptFits(x)' /\ CallsCounted(x)'
    PROVE  SandboxInductive'
<1> USE DEF SandboxInductive, mapVars, codeRunVars
<1>t. SandboxTyped'
  BY DEF SandboxTyped
<1>1. \A y \in CodeRuns : ScriptFits(y)' /\ CallsCounted(y)'
  BY DEF ScriptFits, CallsCounted
<1>2. \A y \in CodeRuns : (Alive(y)' => Alive(y)) /\ (RunUnderWay(y)' => RunUnderWay(y))
  BY DEF Alive, RunUnderWay
<1>3. OverlapsNoted' /\ DeathNeedsOverlap'
  BY <1>2, OverlapsStay DEF OverlapsNoted
<1>4. StampsApart'
  BY StampsStay
<1>5. HistoryIsNewest'
  BY HistoryStays
<1>6. QED
  BY <1>t, <1>1, <1>3, <1>4, <1>5

\* A call goes on without touching the map or the history.
LEMMA CallMoves ==
    ASSUME SandboxInductive, NEW x \in CodeRuns, RunUnderWay(x), registering # x,
           UNCHANGED <<sandboxClosed, mapVars, history, clock, crossed, did, late, fatal,
                       overlap, closedAmid>>,
           codeRun' \in [CodeRuns -> CallRecord], script' \in [CodeRuns -> ScriptRecord],
           \A y \in CodeRuns \ {x} : script'[y] = script[y] /\ codeRun'[y] = codeRun[y],
           codeRun[x].out = "none", codeRun'[x].out # "ok", codeRun'[x].at # "save",
           codeRun'[x].stamp = codeRun[x].stamp,
           ScriptFits(x)' /\ CallsCounted(x)'
    PROVE  SandboxInductive'
<1> USE DEF SandboxInductive, mapVars
<1>t. SandboxTyped'
  BY DEF SandboxTyped
<1>1. \A y \in CodeRuns : ScriptFits(y)' /\ CallsCounted(y)'
  BY DEF ScriptFits, CallsCounted
<1>2. \A y \in CodeRuns : (Alive(y)' => Alive(y)) /\ (RunUnderWay(y)' => RunUnderWay(y))
  BY DEF Alive, RunUnderWay
<1>3. registering # NoCodeRun => codeRun'[registering].at = "register"
  BY DEF OverlapsNoted, SandboxTyped
<1>4. OverlapsNoted' /\ DeathNeedsOverlap'
  BY <1>2, <1>3, OverlapsStay
<1>5. StampsApart'
  BY StampsStay
<1>6. HistoryIsNewest'
  BY HistoryStays
<1>7. QED
  BY <1>t, <1>1, <1>4, <1>5, <1>6

\* What is typed stays so when one element is replaced by another one.
LEMMA OneReplaced ==
    ASSUME NEW I, NEW R, NEW f \in [I -> R], NEW x \in I, NEW g,
           g = [y \in I |-> g[y]], g[x] \in R, \A y \in I \ {x} : g[y] = f[y]
    PROVE  g \in [I -> R]
  OBVIOUS

LEMMA ScriptSteps ==
    ASSUME SandboxInductive, NEW x \in CodeRuns, ScriptStep(x)
    PROVE  SandboxInductive'
<1> USE DEF SandboxInductive, ScriptIs, mapVars, codeRunVars
<1>t. /\ script \in [CodeRuns -> ScriptRecord] /\ script[x] \in ScriptRecord
      /\ did \in [CodeRuns -> Seq({"ok", "failed"})] /\ did[x] \in Seq({"ok", "failed"})
  BY DEF SandboxTyped
<1>1. CASE ScriptCallsTool(x)
  <2>1. /\ script'[x] = [[script[x] EXCEPT !.at = "looks"] EXCEPT !.calls = script[x].calls + 1]
        /\ script' = [y \in CodeRuns |-> script'[y]]
        /\ \A y \in CodeRuns \ {x} : script'[y] = script[y]
    BY <1>1, <1>t DEF ScriptCallsTool
  <2>a. script[x].calls + 1 \in Nat
    BY <1>t DEF ScriptRecord
  <2>2. script'[x] \in ScriptRecord
    BY <2>1, <2>a, <1>t DEF ScriptRecord
  <2>3. script' \in [CodeRuns -> ScriptRecord]
    BY <2>1, <2>2, <1>t, OneReplaced
  <2>4. did' \in [CodeRuns -> Seq({"ok", "failed"})] /\ \A y \in CodeRuns \ {x} : did'[y] = did[y]
    BY <1>1, <1>t DEF ScriptCallsTool
  <2>5. ScriptFits(x)' /\ CallsCounted(x)'
    <3>1. /\ script'[x].at = "looks" /\ script'[x].calls = script[x].calls + 1
          /\ script'[x].told = script[x].told
      BY <2>1, <1>t DEF ScriptRecord
    <3>2. codeRun' = codeRun /\ did' = did /\ late' = late /\ script[x].at = "runs"
      BY <1>1 DEF ScriptCallsTool
    <3>3. Len(did[x]) \in Nat /\ script[x].calls \in Nat
      BY <1>t DEF ScriptRecord
    <3>4. QED
      BY <3>1, <3>2, <3>3 DEF ScriptFits, CallsCounted
  <2>6. QED
    BY <1>1, <2>1, <2>3, <2>4, <2>5, ScriptMoves DEF ScriptCallsTool
<1>2. CASE CallRefused(x)
  <2>1. PICK threw \in BOOLEAN :
         /\ script'[x] = [[script[x] EXCEPT !.at = IF threw THEN "ended" ELSE "runs"] EXCEPT !.threw = threw]
        /\ script' = [y \in CodeRuns |-> script'[y]]
        /\ \A y \in CodeRuns \ {x} : script'[y] = script[y]
    BY <1>2, <1>t DEF CallRefused, Throws
  <2>2. script'[x] \in ScriptRecord
    BY <2>1, <1>t DEF ScriptRecord
  <2>3. script' \in [CodeRuns -> ScriptRecord]
    BY <2>1, <2>2, <1>t, OneReplaced
  <2>4. did' \in [CodeRuns -> Seq({"ok", "failed"})] /\ \A y \in CodeRuns \ {x} : did'[y] = did[y]
    BY <1>2, <1>t DEF CallRefused
  <2>5. ScriptFits(x)' /\ CallsCounted(x)'
    BY <1>2, <1>t, <2>1, CodeSandboxAssumption DEF CallRefused, Throws, SandboxTyped, ScriptFits, CallsCounted, ScriptRecord
  <2>6. QED
    BY <1>2, <2>1, <2>3, <2>4, <2>5, ScriptMoves DEF CallRefused
<1>3. CASE StartTool(x)
  <2>1. /\ script'[x] = [script[x] EXCEPT !.at = "calls"]
        /\ script' = [y \in CodeRuns |-> script'[y]]
        /\ \A y \in CodeRuns \ {x} : script'[y] = script[y]
    BY <1>3, <1>t DEF StartTool, ScriptReads
  <2>2. script'[x] \in ScriptRecord
    BY <2>1, <1>t DEF ScriptRecord
  <2>3. script' \in [CodeRuns -> ScriptRecord]
    BY <2>1, <2>2, <1>t, OneReplaced
  <2>4. did' \in [CodeRuns -> Seq({"ok", "failed"})] /\ \A y \in CodeRuns \ {x} : did'[y] = did[y]
    BY <1>3, <1>t DEF StartTool
  <2>5. ScriptFits(x)' /\ CallsCounted(x)'
    BY <1>3, <1>t, <2>1, CodeSandboxAssumption DEF StartTool, ScriptReads, SandboxTyped, ScriptFits, CallsCounted, ScriptRecord
  <2>6. QED
    BY <1>3, <2>1, <2>3, <2>4, <2>5, ScriptMoves DEF StartTool
<1>4. CASE ScriptToolReturns(x)
  <2>1. /\ script'[x] = [[script[x] EXCEPT !.at = "runs"] EXCEPT !.told = Append(script[x].told, "ok")]
        /\ script' = [y \in CodeRuns |-> script'[y]]
        /\ \A y \in CodeRuns \ {x} : script'[y] = script[y]
    BY <1>4, <1>t DEF ScriptToolReturns, Recorded
  <2>a. script[x].told \in Seq({"ok", "failed"}) /\ Append(script[x].told, "ok") \in Seq({"ok", "failed"})
    BY <1>t DEF ScriptRecord
  <2>2. script'[x] \in ScriptRecord
    BY <2>1, <2>a, <1>t DEF ScriptRecord
  <2>3. script' \in [CodeRuns -> ScriptRecord]
    BY <2>1, <2>2, <1>t, OneReplaced
  <2>4. did' \in [CodeRuns -> Seq({"ok", "failed"})] /\ \A y \in CodeRuns \ {x} : did'[y] = did[y]
    BY <1>4, <1>t DEF ScriptToolReturns
  <2>5. ScriptFits(x)' /\ CallsCounted(x)'
    <3>1. /\ script'[x].at = "runs" /\ script'[x].calls = script[x].calls
          /\ script'[x].told = Append(script[x].told, "ok")
      BY <2>1, <1>t DEF ScriptRecord
    <3>2. /\ codeRun' = codeRun /\ did'[x] = Append(did[x], "ok") /\ late' = late
          /\ script[x].at = "calls"
      BY <1>4, <1>t DEF ScriptToolReturns
    <3>3. /\ Len(did[x]) \in Nat /\ Len(did'[x]) = Len(did[x]) + 1 /\ script[x].calls \in Nat
          /\ MaxToolCalls \in Nat
      BY <3>2, <1>t, CodeSandboxAssumption DEF ScriptRecord
    <3>4. QED
      BY <3>1, <3>2, <3>3, SMTT(30) DEF ScriptFits, CallsCounted
  <2>6. QED
    BY <1>4, <2>1, <2>3, <2>4, <2>5, ScriptMoves DEF ScriptToolReturns
<1>5. CASE ScriptToolFails(x)
  <2>1. PICK threw \in BOOLEAN :
         /\ script'[x] = [[[script[x] EXCEPT !.at = IF threw THEN "ended" ELSE "runs"]
               EXCEPT !.threw = threw] EXCEPT !.told = Append(script[x].told, "failed")]
        /\ script' = [y \in CodeRuns |-> script'[y]]
        /\ \A y \in CodeRuns \ {x} : script'[y] = script[y]
    BY <1>5, <1>t DEF ScriptToolFails, Recorded
  <2>a. script[x].told \in Seq({"ok", "failed"}) /\ Append(script[x].told, "failed") \in Seq({"ok", "failed"})
    BY <1>t DEF ScriptRecord
  <2>2. script'[x] \in ScriptRecord
    BY <2>1, <2>a, <1>t DEF ScriptRecord
  <2>3. script' \in [CodeRuns -> ScriptRecord]
    BY <2>1, <2>2, <1>t, OneReplaced
  <2>4. did' \in [CodeRuns -> Seq({"ok", "failed"})] /\ \A y \in CodeRuns \ {x} : did'[y] = did[y]
    BY <1>5, <1>t DEF ScriptToolFails
  <2>5. ScriptFits(x)' /\ CallsCounted(x)'
    BY <1>5, <1>t, <2>1, CodeSandboxAssumption DEF ScriptToolFails, Recorded, SandboxTyped, ScriptFits, CallsCounted, ScriptRecord
  <2>6. QED
    BY <1>5, <2>1, <2>3, <2>4, <2>5, ScriptMoves DEF ScriptToolFails
<1>6. CASE ScriptEnds(x)
  <2>1. PICK threw \in BOOLEAN :
         /\ script'[x] = [[script[x] EXCEPT !.at = "ended"] EXCEPT !.threw = threw]
        /\ script' = [y \in CodeRuns |-> script'[y]]
        /\ \A y \in CodeRuns \ {x} : script'[y] = script[y]
    BY <1>6, <1>t DEF ScriptEnds
  <2>2. script'[x] \in ScriptRecord
    BY <2>1, <1>t DEF ScriptRecord
  <2>3. script' \in [CodeRuns -> ScriptRecord]
    BY <2>1, <2>2, <1>t, OneReplaced
  <2>4. did' \in [CodeRuns -> Seq({"ok", "failed"})] /\ \A y \in CodeRuns \ {x} : did'[y] = did[y]
    BY <1>6, <1>t DEF ScriptEnds
  <2>5. ScriptFits(x)' /\ CallsCounted(x)'
    BY <1>6, <1>t, <2>1, CodeSandboxAssumption DEF ScriptEnds, SandboxTyped, ScriptFits, CallsCounted, ScriptRecord
  <2>6. QED
    BY <1>6, <2>1, <2>3, <2>4, <2>5, ScriptMoves DEF ScriptEnds
<1>7. CASE MapFault(x)
  <2>1. registering \in CodeRuns \ {x} /\ Alive(registering) /\ Alive(x)
    BY <1>7 DEF MapFault, ScriptReads, SandboxTyped, ScriptFits,
       OverlapsNoted, Alive, RunUnderWay
  <2>2. overlap
    BY <2>1 DEF OverlapsNoted
  <2>3. QED
    BY <1>7, <2>2 DEF MapFault, scriptVars, SandboxTyped, ScriptFits, CallsCounted,
       OverlapsNoted, DeathNeedsOverlap, Alive, RunUnderWay, StampsApart, HistoryIsNewest
<1>8. QED
  BY <1>1, <1>2, <1>3, <1>4, <1>5, <1>6, <1>7 DEF ScriptStep

LEMMA CallSteps ==
    ASSUME SandboxInductive, NEW x \in CodeRuns,
           LookIfClosed(x) \/ StartScript(x) \/ ScriptIsDone(x) \/ TimeIsUp(x)
    PROVE  SandboxInductive'
<1> USE DEF SandboxInductive, CallIs, CallGoto, Answer, mapVars, scriptVars
<1>t. /\ codeRun \in [CodeRuns -> CallRecord] /\ codeRun[x] \in CallRecord
      /\ script \in [CodeRuns -> ScriptRecord] /\ script[x] \in ScriptRecord
  BY DEF SandboxTyped
<1>1. CASE LookIfClosed(x)
  <2>1. /\ codeRun'[x] = IF sandboxClosed THEN [[codeRun[x] EXCEPT !.at = "over"] EXCEPT !.out = "closed"]
                      ELSE [codeRun[x] EXCEPT !.at = "start"]
        /\ codeRun' = [y \in CodeRuns |-> codeRun'[y]]
        /\ \A y \in CodeRuns \ {x} : codeRun'[y] = codeRun[y]
    BY <1>1, <1>t DEF LookIfClosed
  <2>2. codeRun'[x] \in CallRecord
    BY <2>1, <1>t DEF CallRecord
  <2>3. codeRun' \in [CodeRuns -> CallRecord]
    BY <2>1, <2>2, <1>t, OneReplaced
  <2>4. script' = script
    BY <1>1 DEF LookIfClosed
  <2>5. RunUnderWay(x) /\ registering # x /\ codeRun[x].out = "none"
    BY <1>1, CodeSandboxAssumption DEF LookIfClosed, RunUnderWay, ScriptFits, OverlapsNoted
  <2>6. /\ codeRun'[x].out # "ok" /\ codeRun'[x].at # "save"
        /\ codeRun'[x].stamp = codeRun[x].stamp
    BY <2>1, <2>5, <1>t DEF CallRecord
  <2>7. ScriptFits(x)' /\ CallsCounted(x)'
    BY <1>1, <1>t, <2>1, <2>5 DEF LookIfClosed, ScriptFits, CallsCounted, CallRecord, ScriptRecord
  <2>8. QED
    BY <1>1, <1>t, <2>1, <2>3, <2>4, <2>5, <2>6, <2>7, CallMoves DEF LookIfClosed
<1>2. CASE StartScript(x)
  <2>1. /\ codeRun'[x] = [codeRun[x] EXCEPT !.at = "wait"]
        /\ codeRun' = [y \in CodeRuns |-> codeRun'[y]]
        /\ \A y \in CodeRuns \ {x} : codeRun'[y] = codeRun[y]
    BY <1>2, <1>t DEF StartScript
  <2>2. codeRun'[x] \in CallRecord
    BY <2>1, <1>t DEF CallRecord
  <2>3. codeRun' \in [CodeRuns -> CallRecord]
    BY <2>1, <2>2, <1>t, OneReplaced
  <2>4. /\ script' \in [CodeRuns -> ScriptRecord]
        /\ \A y \in CodeRuns \ {x} : script'[y] = script[y]
    <3>1. PICK open \in BOOLEAN : open = ~sandboxClosed
      BY DEF SandboxTyped
    <3>2. /\ script'[x] = [[script[x] EXCEPT !.at = "runs"] EXCEPT !.tools = open]
          /\ script' = [y \in CodeRuns |-> script'[y]]
          /\ \A y \in CodeRuns \ {x} : script'[y] = script[y]
      BY <1>2, <1>t, <3>1 DEF StartScript
    <3>3. script'[x] \in ScriptRecord
      BY <3>2, <1>t DEF ScriptRecord
    <3>4. QED
      BY <3>2, <3>3, <1>t, OneReplaced
  <2>5. RunUnderWay(x) /\ registering # x /\ codeRun[x].out = "none"
    BY <1>2, CodeSandboxAssumption DEF StartScript, RunUnderWay, ScriptFits, OverlapsNoted
  <2>6. /\ codeRun'[x].out # "ok" /\ codeRun'[x].at # "save"
        /\ codeRun'[x].stamp = codeRun[x].stamp
    BY <2>1, <2>5, <1>t DEF CallRecord
  <2>7. ScriptFits(x)' /\ CallsCounted(x)'
    BY <1>2, <1>t, <2>1, <2>5 DEF StartScript, ScriptFits, CallsCounted, CallRecord, ScriptRecord
  <2>8. QED
    BY <1>2, <1>t, <2>1, <2>3, <2>4, <2>5, <2>6, <2>7, CallMoves DEF StartScript
<1>3. CASE ScriptIsDone(x)
  <2>1. /\ codeRun'[x] = IF script[x].threw THEN [[codeRun[x] EXCEPT !.at = "over"] EXCEPT !.out = "error"]
                      ELSE [codeRun[x] EXCEPT !.at = "note"]
        /\ codeRun' = [y \in CodeRuns |-> codeRun'[y]]
        /\ \A y \in CodeRuns \ {x} : codeRun'[y] = codeRun[y]
    BY <1>3, <1>t DEF ScriptIsDone
  <2>2. codeRun'[x] \in CallRecord
    <3>1. CASE script[x].threw
      BY <2>1, <3>1, <1>t DEF CallRecord
    <3>2. CASE ~script[x].threw
      BY <2>1, <3>2, <1>t DEF CallRecord
    <3>3. QED
      BY <3>1, <3>2
  <2>3. codeRun' \in [CodeRuns -> CallRecord]
    BY <2>1, <2>2, <1>t, OneReplaced
  <2>4. script' = script
    BY <1>3 DEF ScriptIsDone
  <2>5. RunUnderWay(x) /\ registering # x /\ codeRun[x].out = "none"
    BY <1>3, CodeSandboxAssumption DEF ScriptIsDone, RunUnderWay, ScriptFits, OverlapsNoted
  <2>6. /\ codeRun'[x].out # "ok" /\ codeRun'[x].at # "save"
        /\ codeRun'[x].stamp = codeRun[x].stamp
    BY <2>1, <2>5, <1>t DEF CallRecord
  <2>7. ScriptFits(x)' /\ CallsCounted(x)'
    BY <1>3, <1>t, <2>1, <2>5 DEF ScriptIsDone, ScriptFits, CallsCounted, CallRecord, ScriptRecord
  <2>8. QED
    BY <1>3, <1>t, <2>1, <2>3, <2>4, <2>5, <2>6, <2>7, CallMoves DEF ScriptIsDone
<1>4. CASE TimeIsUp(x)
  <2>1. /\ codeRun'[x] = [[codeRun[x] EXCEPT !.at = "over"] EXCEPT !.out = "timeout"]
        /\ codeRun' = [y \in CodeRuns |-> codeRun'[y]]
        /\ \A y \in CodeRuns \ {x} : codeRun'[y] = codeRun[y]
    BY <1>4, <1>t DEF TimeIsUp
  <2>2. codeRun'[x] \in CallRecord
    BY <2>1, <1>t DEF CallRecord
  <2>3. codeRun' \in [CodeRuns -> CallRecord]
    BY <2>1, <2>2, <1>t, OneReplaced
  <2>4. script' = script
    BY <1>4 DEF TimeIsUp
  <2>5. RunUnderWay(x) /\ registering # x /\ codeRun[x].out = "none"
    BY <1>4, CodeSandboxAssumption DEF TimeIsUp, RunUnderWay, ScriptFits, OverlapsNoted
  <2>6. /\ codeRun'[x].out # "ok" /\ codeRun'[x].at # "save"
        /\ codeRun'[x].stamp = codeRun[x].stamp
    BY <2>1, <2>5, <1>t DEF CallRecord
  <2>7. ScriptFits(x)' /\ CallsCounted(x)'
    BY <1>4, <1>t, <2>1, <2>5 DEF TimeIsUp, ScriptFits, CallsCounted, CallRecord, ScriptRecord
  <2>8. QED
    BY <1>4, <1>t, <2>1, <2>3, <2>4, <2>5, <2>6, <2>7, CallMoves DEF TimeIsUp
<1>5. QED
  BY <1>1, <1>2, <1>3, <1>4

\* Close, and a new call: they alone change what overlaps what.
LEMMA CloseStep ==
    ASSUME SandboxInductive, CloseSandbox PROVE SandboxInductive'
<1> USE DEF SandboxInductive, CloseSandbox, mapVars, codeRunVars, scriptVars
<1>1. SandboxTyped'
  BY DEF SandboxTyped
<1>2. \A y \in CodeRuns : ScriptFits(y)' /\ CallsCounted(y)'
  BY DEF ScriptFits, CallsCounted
<1>3. OverlapsNoted'
  <2>1. \A y \in CodeRuns : RunUnderWay(y) => closedAmid'
    OBVIOUS
  <2>2. QED
    BY <2>1 DEF OverlapsNoted, RunUnderWay, Alive
<1>4. DeathNeedsOverlap'
  BY DEF DeathNeedsOverlap
<1>5. StampsApart'
  BY StampsStay
<1>6. HistoryIsNewest'
  BY HistoryStays
<1>7. QED
  BY <1>1, <1>2, <1>3, <1>4, <1>5, <1>6

LEMMA AdmitStep ==
    ASSUME SandboxInductive, NEW x \in CodeRuns, Admit(x) PROVE SandboxInductive'
<1> USE DEF SandboxInductive, mapVars, scriptVars
<1>t. codeRun \in [CodeRuns -> CallRecord] /\ codeRun[x] \in CallRecord
  BY DEF SandboxTyped
<1>1. /\ codeRun'[x] = IF sandboxClosed
                       THEN [[codeRun[x] EXCEPT !.at = "over"] EXCEPT !.out = "closed"]
                       ELSE [[codeRun[x] EXCEPT !.at = "register"] EXCEPT !.todo = Scriptable]
      /\ codeRun' = [y \in CodeRuns |-> codeRun'[y]]
      /\ \A y \in CodeRuns \ {x} : codeRun'[y] = codeRun[y]
  BY <1>t DEF Admit, Answer
<1>2. codeRun'[x] \in CallRecord
  <2>1. CASE sandboxClosed
    BY <1>t, <1>1, <2>1 DEF CallRecord
  <2>2. CASE ~sandboxClosed
    BY <1>t, <1>1, <2>2 DEF CallRecord
  <2>3. QED
    BY <2>1, <2>2
<1>3. codeRun' \in [CodeRuns -> CallRecord]
  BY <1>1, <1>2, <1>t, OneReplaced
<1>4. SandboxTyped'
  BY <1>3 DEF Admit, SandboxTyped
<1>5. /\ codeRun[x].at = "idle" /\ codeRun[x].out = "none" /\ codeRun'[x].stamp = codeRun[x].stamp
      /\ ~sandboxClosed => codeRun'[x].at = "register" /\ codeRun'[x].out = "none"
      /\ sandboxClosed => codeRun'[x].at = "over" /\ codeRun'[x].out = "closed"
  BY <1>t, <1>1 DEF Admit, CallIs, CallRecord, ScriptFits
<1>6. \A y \in CodeRuns : ScriptFits(y)' /\ CallsCounted(y)'
  <2>1. script' = script /\ did' = did /\ late' = late
    BY DEF Admit
  <2>2. ScriptFits(x)' /\ CallsCounted(x)'
    BY <1>5, <2>1 DEF ScriptFits, CallsCounted
  <2>3. \A y \in CodeRuns \ {x} : ScriptFits(y)' /\ CallsCounted(y)'
    BY <1>1, <2>1 DEF ScriptFits, CallsCounted
  <2>4. QED
    BY <2>2, <2>3
<1>7. OverlapsNoted' /\ DeathNeedsOverlap'
  <2>1. registering # x
    BY <1>5, CodeSandboxAssumption DEF OverlapsNoted
  <2>2. registering # NoCodeRun => codeRun'[registering].at = "register"
    BY <1>1, <2>1 DEF OverlapsNoted, SandboxTyped
  <2>3. \A y \in CodeRuns \ {x} : (Alive(y)' <=> Alive(y)) /\ (RunUnderWay(y)' <=> RunUnderWay(y))
    BY <1>1 DEF Admit, Alive, RunUnderWay
  <2>4. overlap => overlap'
    BY DEF Admit
  <2>5. \A y \in CodeRuns \ {x} : Alive(y) => overlap'
    BY DEF Admit
  <2>6. \A y, z \in CodeRuns : y # z /\ Alive(y)' /\ Alive(z)' => overlap'
    BY <2>3, <2>4, <2>5 DEF OverlapsNoted
  <2>7. sandboxClosed => ~RunUnderWay(x)'
    BY <1>5 DEF RunUnderWay
  <2>8. UNCHANGED <<sandboxClosed, registering, fatal, closedAmid>>
    BY DEF Admit
  <2>9. QED
    BY <2>2, <2>3, <2>4, <2>6, <2>7, <2>8 DEF OverlapsNoted, DeathNeedsOverlap
<1>8. StampsApart'
  BY <1>1, <1>5, StampsStay DEF Admit
<1>9. HistoryIsNewest'
  BY <1>1, <1>5, HistoryStays DEF Admit
<1>10. QED
  BY <1>4, <1>6, <1>7, <1>8, <1>9

\* The tools of an execution go into the map one by one.
LEMMA RegisterSteps ==
    ASSUME SandboxInductive, NEW x \in CodeRuns, BeginRegister(x) \/ EndRegister(x)
    PROVE  SandboxInductive'
<1> USE DEF SandboxInductive, mapVars, codeRunVars, scriptVars
<1>t. codeRun \in [CodeRuns -> CallRecord] /\ codeRun[x] \in CallRecord
  BY DEF SandboxTyped
<1>1. CASE BeginRegister(x)
  <2>1. SandboxTyped'
    BY <1>1 DEF BeginRegister, SandboxTyped
  <2>2. \A y \in CodeRuns : ScriptFits(y)' /\ CallsCounted(y)'
    BY <1>1 DEF BeginRegister, ScriptFits, CallsCounted
  <2>3. codeRun[x].at = "register" /\ RunUnderWay(x)
    BY <1>1 DEF BeginRegister, CallIs, RunUnderWay
  <2>4. OverlapsNoted'
    BY <1>1, <2>3 DEF BeginRegister, OverlapsNoted, RunUnderWay, Alive
  <2>5. DeathNeedsOverlap'
    BY <1>1, <2>3 DEF BeginRegister, CallIs, OverlapsNoted, DeathNeedsOverlap
  <2>6. StampsApart' /\ HistoryIsNewest'
    BY <1>1, StampsStay, HistoryStays DEF BeginRegister
  <2>7. QED
    BY <2>1, <2>2, <2>4, <2>5, <2>6
<1>2. CASE EndRegister(x)
  <2>1. PICK tool \in codeRun[x].todo :
           /\ registered' = registered \cup {tool}
           /\ codeRun' = [codeRun EXCEPT ![x].todo = @ \ {tool}]
    BY <1>2 DEF EndRegister
  <2>2. /\ codeRun'[x] = [codeRun[x] EXCEPT !.todo = codeRun[x].todo \ {tool}]
        /\ codeRun' = [y \in CodeRuns |-> codeRun'[y]]
        /\ \A y \in CodeRuns \ {x} : codeRun'[y] = codeRun[y]
    BY <2>1, <1>t
  <2>3. codeRun[x].todo \in SUBSET Scriptable /\ tool \in Scriptable
    BY <1>t DEF CallRecord
  <2>4. codeRun'[x] \in CallRecord
    BY <2>2, <2>3, <1>t DEF CallRecord
  <2>5. codeRun' \in [CodeRuns -> CallRecord]
    BY <2>2, <2>4, <1>t, OneReplaced
  <2>6. SandboxTyped'
    BY <1>2, <2>1, <2>3, <2>5 DEF EndRegister, SandboxTyped
  <2>7. \A y \in CodeRuns : /\ codeRun'[y].at = codeRun[y].at /\ codeRun'[y].out = codeRun[y].out
                            /\ codeRun'[y].stamp = codeRun[y].stamp
    BY <2>2, <1>t DEF CallRecord
  <2>8. \A y \in CodeRuns : ScriptFits(y)' /\ CallsCounted(y)'
    BY <1>2, <2>7 DEF EndRegister, ScriptFits, CallsCounted
  <2>9. \A y \in CodeRuns : (Alive(y)' => Alive(y)) /\ (RunUnderWay(y)' => RunUnderWay(y))
    BY <1>2, <2>7 DEF EndRegister, Alive, RunUnderWay
  <2>10. OverlapsNoted' /\ DeathNeedsOverlap'
    BY <1>2, <2>9, OverlapsStay DEF EndRegister
  <2>11. StampsApart' /\ HistoryIsNewest'
    BY <1>2, <2>7, StampsStay, HistoryStays DEF EndRegister
  <2>12. QED
    BY <2>6, <2>8, <2>10, <2>11
<1>3. QED
  BY <1>1, <1>2

LEMMA StampStep ==
    ASSUME SandboxInductive, NEW x \in CodeRuns, StampEntry(x) PROVE SandboxInductive'
<1> USE DEF SandboxInductive, mapVars, scriptVars
<1>t. codeRun \in [CodeRuns -> CallRecord] /\ codeRun[x] \in CallRecord /\ clock \in Nat
  BY DEF SandboxTyped
<1>1. /\ codeRun'[x] = [[codeRun[x] EXCEPT !.at = "save"] EXCEPT !.stamp = clock + 1]
      /\ codeRun' = [y \in CodeRuns |-> codeRun'[y]] /\ clock' = clock + 1
      /\ \A y \in CodeRuns \ {x} : codeRun'[y] = codeRun[y]
  BY <1>t DEF StampEntry
<1>2. codeRun'[x] \in CallRecord
  <2>1. clock + 1 \in Nat
    BY <1>t
  <2>2. QED
    BY <1>t, <1>1, <2>1 DEF CallRecord
<1>3. codeRun' \in [CodeRuns -> CallRecord]
  BY <1>1, <1>2, <1>t, OneReplaced
<1>4. SandboxTyped'
  BY <1>1, <1>3, <1>t DEF StampEntry, SandboxTyped
<1>5. /\ codeRun[x].at = "note" /\ codeRun[x].out = "none" /\ codeRun'[x].at = "save"
      /\ codeRun'[x].out = "none" /\ codeRun'[x].stamp = clock + 1
  BY <1>t, <1>1 DEF StampEntry, CallIs, CallRecord, ScriptFits
<1>6. script' = script /\ did' = did /\ late' = late
  BY DEF StampEntry
<1>7. ScriptFits(x)' /\ CallsCounted(x)'
  BY <1>5, <1>6 DEF ScriptFits, CallsCounted
<1>8. \A y \in CodeRuns \ {x} : ScriptFits(y)' /\ CallsCounted(y)'
  BY <1>1, <1>6 DEF ScriptFits, CallsCounted
<1>9. OverlapsNoted' /\ DeathNeedsOverlap'
  <2>1. \A y \in CodeRuns : (Alive(y)' => Alive(y)) /\ (RunUnderWay(y)' => RunUnderWay(y))
    BY <1>1, <1>5, <1>6 DEF Alive, RunUnderWay
  <2>2. registering # NoCodeRun => codeRun'[registering].at = "register"
    BY <1>1, <1>5 DEF OverlapsNoted, SandboxTyped
  <2>3. QED
    BY <2>1, <2>2, OverlapsStay DEF StampEntry
<1>10. StampsApart'
  <2>1. \A y \in CodeRuns : codeRun[y].stamp \in Nat /\ codeRun[y].stamp <= clock
    BY <1>t DEF CallRecord, StampsApart
  <2>2. codeRun'[x].stamp > 0 /\ codeRun'[x].stamp <= clock'
    BY <1>1, <1>5, <1>t
  <2>3. \A y \in CodeRuns \ {x} :
           /\ codeRun'[y].stamp <= clock' /\ codeRun'[y].stamp # codeRun'[x].stamp
           /\ codeRun'[y].at = "save" \/ codeRun'[y].out = "ok" => codeRun'[y].stamp > 0
    BY <1>1, <1>5, <2>1, <1>t DEF StampsApart
  <2>4. \A y, z \in CodeRuns \ {x} :
           y # z /\ codeRun'[y].stamp = codeRun'[z].stamp => codeRun'[y].stamp = 0
    BY <1>1 DEF StampsApart
  <2>5. QED
    BY <2>2, <2>3, <2>4 DEF StampsApart
<1>11. HistoryIsNewest'
  BY <1>1, <1>5, HistoryStays DEF StampEntry
<1>12. QED
  BY <1>4, <1>7, <1>8, <1>9, <1>10, <1>11

\* Among some naturals there is a smallest one.
LEMMA LeastOf ==
    ASSUME NEW S \in SUBSET Nat, S # {}
    PROVE  \E m \in S : \A n \in S : m <= n
<1>1. \E m \in S : \A n \in S : ~(<<n, m>> \in OpToRel(<, Nat))
  BY WFMin, NatLessThanWellFounded, Zenon
<1>2. \A m, n \in Nat : <<n, m>> \in OpToRel(<, Nat) <=> n < m
  BY Zenon DEF OpToRel
<1>3. \A m, n \in Nat : ~(n < m) => m <= n
  BY SMT
<1>4. QED
  BY <1>1, <1>2, <1>3, Zenon

\* What Save keeps leaves room for one entry, and what it drops is older.
LEMMA KeptHasRoom ==
    ASSUME SandboxTyped, HistoryIsNewest, StampsApart
    PROVE  /\ Kept \subseteq history /\ IsFiniteSet(Kept)
           /\ Cardinality(Kept) <= HistorySize - 1
           /\ \A h \in Kept, y \in history \ Kept : codeRun[y].stamp < codeRun[h].stamp
<1>t. /\ history \subseteq CodeRuns /\ IsFiniteSet(history) /\ Cardinality(history) \in Nat
      /\ HistorySize \in Nat \ {0} /\ Cardinality(history) <= HistorySize
      /\ \A x \in CodeRuns : codeRun[x].stamp \in Nat
  BY CodeSandboxAssumption, FS_Subset, FS_CardinalityType
  DEF SandboxTyped, CallRecord, HistoryIsNewest
<1>1. CASE Cardinality(history) < HistorySize
  <2>1. Kept = history
    BY <1>1 DEF Kept
  <2>2. QED
    BY <1>t, <1>1, <2>1
<1>2. CASE ~(Cardinality(history) < HistorySize)
  <2> DEFINE Oldest == {x \in history : \A y \in history : codeRun[x].stamp <= codeRun[y].stamp}
  <2>1. Kept = history \ Oldest
    BY <1>2 DEF Kept
  <2>2. history # {}
    BY <1>t, <1>2, FS_EmptySet
  <2>3. {codeRun[x].stamp : x \in history} \in SUBSET Nat /\ {codeRun[x].stamp : x \in history} # {}
    BY <1>t, <2>2
  <2>4. \E m \in {codeRun[x].stamp : x \in history} :
           \A n \in {codeRun[x].stamp : x \in history} : m <= n
    BY <2>3, LeastOf
  <2>5. PICK old \in history : \A y \in history : codeRun[old].stamp <= codeRun[y].stamp
    BY <2>4
  <2>6. old \in Oldest
    BY <2>5
  <2>7. Kept \subseteq history \ {old} /\ Kept \subseteq history
    BY <2>1, <2>6
  <2>8. IsFiniteSet(history \ {old}) /\ Cardinality(history \ {old}) = Cardinality(history) - 1
    BY <1>t, FS_RemoveElement
  <2>9. IsFiniteSet(Kept) /\ Cardinality(Kept) <= Cardinality(history \ {old})
        /\ Cardinality(Kept) \in Nat
    BY <2>7, <2>8, FS_Subset, FS_CardinalityType
  <2>10. Cardinality(Kept) <= HistorySize - 1
    BY <1>t, <2>8, <2>9
  <2>11. ASSUME NEW h \in Kept, NEW y \in history \ Kept
         PROVE  codeRun[y].stamp < codeRun[h].stamp
    <3>1. y \in Oldest /\ h \in history /\ h # y
      BY <2>1, <2>11
    <3>2. codeRun[y].stamp <= codeRun[h].stamp
      BY <3>1
    <3>3. codeRun[y].out = "ok" /\ codeRun[y].stamp > 0
      BY <1>t, <3>1 DEF HistoryIsNewest, StampsApart
    <3>4. codeRun[y].stamp # codeRun[h].stamp
      BY <1>t, <3>1, <3>3 DEF StampsApart
    <3>5. QED
      BY <1>t, <3>1, <3>2, <3>4
  <2>12. QED
    BY <2>7, <2>9, <2>10, <2>11
<1>3. QED
  BY <1>1, <1>2

LEMMA SaveStep ==
    ASSUME SandboxInductive, NEW x \in CodeRuns, SaveEntry(x) PROVE SandboxInductive'
<1> USE DEF SandboxInductive, mapVars, scriptVars
<1>t. codeRun \in [CodeRuns -> CallRecord] /\ codeRun[x] \in CallRecord /\ history \subseteq CodeRuns
  BY DEF SandboxTyped
<1>1. /\ codeRun'[x] = [[codeRun[x] EXCEPT !.at = "over"] EXCEPT !.out = "ok"]
      /\ codeRun' = [y \in CodeRuns |-> codeRun'[y]]
      /\ \A y \in CodeRuns \ {x} : codeRun'[y] = codeRun[y]
  BY <1>t DEF SaveEntry, Answer
<1>2. codeRun'[x] \in CallRecord
  BY <1>t, <1>1 DEF CallRecord
<1>3. codeRun' \in [CodeRuns -> CallRecord]
  BY <1>1, <1>2, <1>t, OneReplaced
<1>4. /\ Kept \subseteq history /\ IsFiniteSet(Kept) /\ Cardinality(Kept) <= HistorySize - 1
      /\ \A h \in Kept, y \in history \ Kept : codeRun[y].stamp < codeRun[h].stamp
  BY KeptHasRoom
<1>5. history' = Kept \cup {x}
  BY DEF SaveEntry
<1>6. SandboxTyped'
  BY <1>3, <1>4, <1>5, <1>t DEF SaveEntry, SandboxTyped
<1>7. /\ codeRun[x].at = "save" /\ codeRun[x].out = "none" /\ codeRun'[x].at = "over"
      /\ codeRun'[x].out = "ok" /\ codeRun'[x].stamp = codeRun[x].stamp
  BY <1>t, <1>1 DEF SaveEntry, CallIs, CallRecord, ScriptFits
<1>8. script' = script /\ did' = did /\ late' = late
  BY DEF SaveEntry
<1>9. \A y \in CodeRuns : ScriptFits(y)' /\ CallsCounted(y)'
  <2>1. ScriptFits(x)' /\ CallsCounted(x)'
    BY <1>7, <1>8 DEF ScriptFits, CallsCounted
  <2>2. \A y \in CodeRuns \ {x} : ScriptFits(y)' /\ CallsCounted(y)'
    BY <1>1, <1>8 DEF ScriptFits, CallsCounted
  <2>3. QED
    BY <2>1, <2>2
<1>10. OverlapsNoted' /\ DeathNeedsOverlap'
  <2>1. \A y \in CodeRuns : (Alive(y)' => Alive(y)) /\ (RunUnderWay(y)' => RunUnderWay(y))
    BY <1>1, <1>7, <1>8 DEF Alive, RunUnderWay
  <2>2. registering # NoCodeRun => codeRun'[registering].at = "register"
    BY <1>1, <1>7 DEF OverlapsNoted, SandboxTyped
  <2>3. QED
    BY <2>1, <2>2, OverlapsStay DEF SaveEntry
<1>11. StampsApart'
  BY <1>1, <1>7, StampsStay DEF SaveEntry
<1>12. HistoryIsNewest'
  <2>1. \A h \in history' : codeRun'[h].out = "ok"
    <3>1. \A h \in history : h \in CodeRuns \ {x} /\ codeRun[h].out = "ok"
      BY <1>7, <1>t DEF HistoryIsNewest
    <3>2. \A h \in Kept : codeRun'[h].out = "ok"
      BY <1>1, <1>4, <3>1
    <3>3. QED
      BY <1>5, <1>7, <3>2
  <2>2. Cardinality(history') <= HistorySize
    <3>1. Cardinality(Kept) \in Nat /\ HistorySize \in Nat
      BY <1>4, FS_CardinalityType, CodeSandboxAssumption
    <3>2. CASE x \in Kept
      <4>1. history' = Kept
        BY <1>5, <3>2
      <4>2. QED
        BY <1>4, <3>1, <4>1
    <3>3. CASE x \notin Kept
      <4>1. Cardinality(history') = Cardinality(Kept) + 1
        BY <1>4, <1>5, <3>3, FS_AddElement
      <4>2. QED
        BY <1>4, <3>1, <4>1
    <3>4. QED
      BY <3>2, <3>3
  <2>3. ASSUME ~crossed', NEW h \in history', NEW y \in CodeRuns \ history', codeRun'[y].out = "ok"
        PROVE  codeRun'[y].stamp < codeRun'[h].stamp
    <3>1. /\ y # x /\ codeRun[y].out = "ok" /\ codeRun[y].at = "over" /\ h \in CodeRuns /\ h # y
          /\ codeRun'[y].stamp = codeRun[y].stamp /\ codeRun'[h].stamp = codeRun[h].stamp
      BY <2>3, <1>1, <1>4, <1>5, <1>7, <1>t DEF ScriptFits
    <3>2. ~crossed /\ ~(codeRun[y].stamp > codeRun[x].stamp)
      BY <2>3, <3>1 DEF SaveEntry
    <3>3. codeRun[y].stamp \in Nat /\ codeRun[x].stamp \in Nat
      BY <1>t DEF CallRecord
    <3>4. CASE h = x
      <4>1. codeRun[y].stamp # codeRun[x].stamp
        BY <1>7, <3>1, <3>3 DEF StampsApart
      <4>2. QED
        BY <3>1, <3>2, <3>3, <3>4, <4>1
    <3>5. CASE h \in Kept /\ y \in history
      BY <1>4, <1>5, <2>3, <3>1, <3>5
    <3>6. CASE h \in Kept /\ y \notin history
      BY <1>4, <3>1, <3>2, <3>6 DEF HistoryIsNewest
    <3>7. QED
      BY <1>5, <2>3, <3>4, <3>5, <3>6
  <2>4. QED
    BY <2>1, <2>2, <2>3 DEF HistoryIsNewest
<1>13. QED
  BY <1>6, <1>9, <1>10, <1>11, <1>12

LEMMA SandboxStays ==
    ASSUME SandboxInductive, UNCHANGED sandboxVars PROVE SandboxInductive'
  BY DEF SandboxInductive, sandboxVars, mapVars, codeRunVars, scriptVars, SandboxTyped,
     ScriptFits, CallsCounted, OverlapsNoted, DeathNeedsOverlap, StampsApart, HistoryIsNewest,
     Alive, RunUnderWay

\* Programmatic tool calling keeps what it promises (CodeSandboxInv), for any
\* number of executions, tools and calls: an answer without an error is whole,
\* a script acts after its execution was answered only if that one timed out,
\* the process dies of executions that overlap or of a Close among them only,
\* and the history holds the newest (ptc/service.go, ptc_integration.go).
THEOREM CodeSandboxIsSound == CodeSandboxSpec => []CodeSandboxInv
<1>1. SandboxInductive /\ [CodeSandboxNext]_sandboxVars => SandboxInductive'
  BY SandboxStays, ScriptSteps, CallSteps, CloseStep, AdmitStep, RegisterSteps, StampStep, SaveStep
  DEF CodeSandboxNext, ExecuteStep
<1>2. SandboxInductive => CodeSandboxInv
  <2> SUFFICES ASSUME SandboxInductive PROVE CodeSandboxInv
    OBVIOUS
  <2>1. CodeSandboxTypeOK
    BY DEF SandboxInductive, SandboxTyped, CallRecord, ScriptRecord, CodeSandboxTypeOK
  <2>2. AnswerIsWhole /\ LateNeedsTimeout
    BY DEF SandboxInductive, ScriptFits, CallsCounted, AnswerIsWhole, LateNeedsTimeout
  <2>3. QED
    BY <2>1, <2>2 DEF SandboxInductive, CodeSandboxInv
<1>3. QED
  BY SandboxStart, <1>1, <1>2, PTL DEF CodeSandboxSpec

-----------------------------------------------------------------------------
(* The turns of a run *)

\* Counting the places of a sequence.
LEMMA CountPlaces ==
    ASSUME NEW n \in Nat, NEW S, S \subseteq 1..n
    PROVE  /\ Cardinality(S) \in Nat
           /\ Cardinality(S) > 0 <=> S # {}
           /\ (\A x, y \in S : x = y) => Cardinality(S) <= 1
<1>1. IsFiniteSet(S)
  <2>1. IsFiniteSet(1..n)
    BY FS_Interval, SMT
  <2>2. QED
    BY <2>1, FS_Subset, Zenon
<1>2. Cardinality(S) \in Nat /\ (Cardinality(S) = 0 <=> S = {})
  BY <1>1, FS_CardinalityType, FS_EmptySet
<1>3. ASSUME \A x, y \in S : x = y PROVE Cardinality(S) <= 1
  <2>1. CASE S = {}
    BY <1>2, <2>1
  <2>2. CASE S # {}
    <3>1. PICK x \in S : TRUE
      BY <2>2
    <3>2. S = {x}
      BY <1>3, <3>1
    <3>3. QED
      BY <3>2, FS_Singleton
  <2>3. QED
    BY <2>1, <2>2
<1>4. Cardinality(S) > 0 <=> S # {}
  <2>1. CASE S = {}
    BY <1>2, <2>1
  <2>2. CASE S # {}
    <3>1. PICK c \in Nat : c = Cardinality(S)
      BY <1>2, Zenon
    <3>2. c # 0
      BY <1>2, <2>2, <3>1, Zenon
    <3>3. c > 0
      BY <3>2, SMT
    <3>4. QED
      BY <2>2, <3>1, <3>3, Zenon
  <2>3. QED
    BY <2>1, <2>2
<1>5. QED
  BY <1>2, <1>3, <1>4

\* The reply of a model.
LEMMA ReplyPlaces ==
    ASSUME NEW q \in ModelReplies
    PROVE  /\ Len(q) \in Nat /\ DOMAIN q = 1..Len(q) /\ DOMAIN q \subseteq 1..4
           /\ \A i \in DOMAIN q : q[i] \in ToolKeys
           /\ \A k : /\ {i \in DOMAIN q : q[i] = k} \subseteq 1..Len(q)
                     /\ Cardinality({i \in DOMAIN q : q[i] = k}) \in Nat
           /\ \A i \in DOMAIN q : /\ i - 1 \in Nat
                                  /\ {j \in 1..i - 1 : q[j] = q[i]} \subseteq 1..i - 1
                                  /\ Cardinality({j \in 1..i - 1 : q[j] = q[i]}) \in Nat
<1>1. q \in Seq(ToolKeys) /\ Len(q) <= 4
  BY TurnAssumption
<1>2. Len(q) \in Nat /\ DOMAIN q = 1..Len(q) /\ DOMAIN q \subseteq 1..4
      /\ \A i \in DOMAIN q : q[i] \in ToolKeys
  BY <1>1
<1>3. ASSUME NEW k
      PROVE  /\ {i \in DOMAIN q : q[i] = k} \subseteq 1..Len(q)
             /\ Cardinality({i \in DOMAIN q : q[i] = k}) \in Nat
  <2>1. {i \in DOMAIN q : q[i] = k} \subseteq 1..Len(q)
    BY <1>2
  <2>2. QED
    BY <1>2, <2>1, CountPlaces
<1>4. ASSUME NEW i \in DOMAIN q
      PROVE  /\ i - 1 \in Nat
             /\ {j \in 1..i - 1 : q[j] = q[i]} \subseteq 1..i - 1
             /\ Cardinality({j \in 1..i - 1 : q[j] = q[i]}) \in Nat
  <2>1. i - 1 \in Nat
    BY <1>2
  <2>2. {j \in 1..i - 1 : q[j] = q[i]} \subseteq 1..i - 1
    OBVIOUS
  <2>3. QED
    BY <2>1, <2>2, CountPlaces
<1>5. QED
  BY <1>2, <1>3, <1>4

-----------------------------------------------------------------------------
(* The inductive invariant *)

\* A turn under way is within the limit, and has a reply.
TurnUnderWay == turnPc = "execute" => turn < MaxTurns /\ asked \in ModelReplies

\* The messages are those of the turns that are over, each call answered once
\* but for the siblings of a transfer.
AnswersAreOfThePast ==
    /\ \A t \in handovers : t < turn
    /\ \A c \in DOMAIN answers :
          /\ c[1] < turn
          /\ IF c[1] \in handovers THEN answers[c] <= 1 ELSE answers[c] = 1

\* What was executed has been seen, and was executed once.
ExecutedWasSeen == \A k \in ToolKeys : executed[k] <= 1 /\ (executed[k] > 0 => seen[k] > 0)

TurnInductive ==
    /\ TurnTypeOK /\ TurnUnderWay /\ AnswersAreOfThePast /\ ExecutedWasSeen
    /\ NothingOutlivesTheTurn

LEMMA TurnStarts == TurnInit => TurnInductive
<1> SUFFICES ASSUME TurnInit PROVE TurnInductive
  OBVIOUS
<1>1. DOMAIN answers = {}
  BY DEF TurnInit
<1>2. TurnTypeOK
  <2>1. turn \in 0..MaxTurns /\ 0 \in Nat
    BY TurnAssumption DEF TurnInit
  <2>2. seen \in [ToolKeys -> Nat] /\ executed \in [ToolKeys -> Nat]
    BY <2>1, Zenon DEF TurnInit
  <2>3. QED
    BY <1>1, <2>1, <2>2, Zenon DEF TurnInit, TurnTypeOK
<1>3. TurnUnderWay /\ AnswersAreOfThePast /\ ExecutedWasSeen /\ NothingOutlivesTheTurn
  BY <1>1 DEF TurnInit, TurnUnderWay, AnswersAreOfThePast, ExecutedWasSeen, NothingOutlivesTheTurn
<1>4. QED
  BY <1>2, <1>3 DEF TurnInductive

\* Adding the messages of a turn to those of the turns before it.
LEMMA TurnIsAdded ==
    ASSUME TurnInductive, turn < MaxTurns, NEW q \in ModelReplies, NEW given, given \subseteq DOMAIN q,
           AddTurn(q, given), turn' = turn + 1,
           \/ handovers' = handovers \cup {turn}
           \/ handovers' = handovers /\ given = DOMAIN q
    PROVE  /\ AnswersAreOfThePast'
           /\ DOMAIN answers' \subseteq Calls /\ \A c \in DOMAIN answers' : answers'[c] \in Nat
           /\ handovers' \subseteq Turns /\ turn' \in 0..MaxTurns
<1> DEFINE new == {<<turn, i>> : i \in DOMAIN q}
           got == {<<turn, i>> : i \in given}
<1>1. /\ turn \in Turns /\ turn \in Nat /\ turn + 1 \in 0..MaxTurns
      /\ \A t \in Turns : t \in Nat
  BY TurnAssumption DEF TurnInductive, TurnTypeOK, Turns
<1>2. new \subseteq Calls /\ (\A c \in new : c[1] = turn) /\ got \subseteq new
  BY <1>1, ReplyPlaces DEF Calls
<1>3. /\ DOMAIN answers \subseteq Calls /\ \A c \in DOMAIN answers : answers[c] \in Nat
      /\ \A c \in DOMAIN answers :
            /\ c[1] < turn
            /\ IF c[1] \in handovers THEN answers[c] <= 1 ELSE answers[c] = 1
      /\ \A t \in handovers : t \in Nat /\ t < turn
      /\ handovers \subseteq Turns
  BY <1>1 DEF TurnInductive, TurnTypeOK, AnswersAreOfThePast
<1>4. answers' = [c \in DOMAIN answers \cup new |->
                    (IF c \in DOMAIN answers THEN answers[c] ELSE 0) + (IF c \in got THEN 1 ELSE 0)]
  BY Zenon DEF AddTurn
<1> HIDE DEF new, got
<1>5. \A c \in new : c \notin DOMAIN answers
  BY <1>1, <1>2, <1>3
<1>6. /\ DOMAIN answers' = DOMAIN answers \cup new
      /\ \A c \in DOMAIN answers : answers'[c] = answers[c]
      /\ \A c \in new : answers'[c] = IF c \in got THEN 1 ELSE 0
  BY <1>2, <1>3, <1>4, <1>5
<1>7. DOMAIN answers' \subseteq Calls /\ \A c \in DOMAIN answers' : answers'[c] \in Nat
  BY <1>2, <1>3, <1>6
<1>8. handovers' \subseteq Turns /\ turn' \in 0..MaxTurns
  BY <1>1, <1>3
<1>9. ASSUME NEW t \in handovers' PROVE t < turn'
  <2>1. t \in handovers \/ t = turn
    OBVIOUS
  <2>2. t \in Nat /\ (t < turn \/ t = turn)
    BY <1>1, <1>3, <2>1
  <2>3. QED
    BY <1>1, <2>2
<1>10. ASSUME NEW c \in DOMAIN answers'
       PROVE  c[1] < turn' /\ IF c[1] \in handovers' THEN answers'[c] <= 1 ELSE answers'[c] = 1
  <2>1. CASE c \in DOMAIN answers
    <3>1. c[1] < turn /\ answers'[c] = answers[c] /\ c[1] \in Nat
      BY <1>1, <1>3, <1>6, <2>1 DEF Calls
    <3>2. c[1] \in handovers' <=> c[1] \in handovers
      BY <1>1, <3>1
    <3>3. QED
      BY <1>1, <1>3, <2>1, <3>1, <3>2
  <2>2. CASE c \in new
    <3>1. c[1] = turn /\ answers'[c] = IF c \in got THEN 1 ELSE 0
      BY <1>2, <1>6, <2>2
    <3>2. turn \notin handovers
      BY <1>1, <1>3
    <3>3. given = DOMAIN q => c \in got
      BY <2>2 DEF new, got
    <3>4. QED
      BY <1>1, <3>1, <3>2, <3>3
  <2>3. QED
    BY <1>6, <2>1, <2>2
<1>11. QED
  BY <1>7, <1>8, <1>9, <1>10 DEF AnswersAreOfThePast

\* Counting the calls of a reply keeps the count a number, and none is lost.
LEMMA SeenGrows ==
    ASSUME TurnInductive, NEW q \in ModelReplies, CountSeen(q)
    PROVE  /\ seen' \in [ToolKeys -> Nat]
           /\ \A k \in ToolKeys : /\ seen[k] > 0 => seen'[k] > 0
                                  /\ (\E i \in DOMAIN q : q[i] = k) => seen'[k] > 0
<1>1. seen \in [ToolKeys -> Nat]
  BY DEF TurnInductive, TurnTypeOK
<1>2. \A k \in ToolKeys : seen'[k] = seen[k] + Cardinality({i \in DOMAIN q : q[i] = k})
  BY DEF CountSeen
<1>3. \A k : /\ Cardinality({i \in DOMAIN q : q[i] = k}) \in Nat
             /\ (\E i \in DOMAIN q : q[i] = k) => Cardinality({i \in DOMAIN q : q[i] = k}) > 0
  <2> SUFFICES ASSUME NEW k
               PROVE  /\ Cardinality({i \in DOMAIN q : q[i] = k}) \in Nat
                      /\ (\E i \in DOMAIN q : q[i] = k) => Cardinality({i \in DOMAIN q : q[i] = k}) > 0
    OBVIOUS
  <2> DEFINE S == {i \in DOMAIN q : q[i] = k}
  <2>1. Len(q) \in Nat /\ S \subseteq 1..Len(q)
    BY ReplyPlaces
  <2>2. Cardinality(S) \in Nat /\ (Cardinality(S) > 0 <=> S # {})
    BY <2>1, CountPlaces, Zenon
  <2>3. QED
    BY <2>2
<1>4. seen' = [k \in ToolKeys |-> seen'[k]]
  BY DEF CountSeen
<1>5. ASSUME NEW k \in ToolKeys
      PROVE  /\ seen'[k] \in Nat /\ (seen[k] > 0 => seen'[k] > 0)
             /\ (\E i \in DOMAIN q : q[i] = k) => seen'[k] > 0
  <2>1. PICK n : n = Cardinality({i \in DOMAIN q : q[i] = k})
    OBVIOUS
  <2>2. seen[k] \in Nat /\ n \in Nat /\ seen'[k] = seen[k] + n /\ ((\E i \in DOMAIN q : q[i] = k) => n > 0)
    BY <1>1, <1>2, <1>3, <2>1
  <2>3. QED
    BY <2>2
<1>6. seen' \in [ToolKeys -> Nat]
  BY <1>4, <1>5, Zenon
<1>7. QED
  BY <1>5, <1>6

\* Of a reply only first calls are executed.
LEMMA FirstCallsRun ==
    ASSUME TurnInductive, NEW q \in ModelReplies, NEW k \in ToolKeys,
           NEW S, S = {i \in DOMAIN q \ Repeated(q) : q[i] = k}
    PROVE  /\ Cardinality(S) \in Nat /\ Cardinality(S) <= 1
           /\ Cardinality(S) > 0 => seen[k] = 0 /\ \E i \in DOMAIN q : q[i] = k
<1>1. Len(q) \in Nat /\ S \subseteq 1..Len(q) /\ S \subseteq DOMAIN q /\ DOMAIN q = 1..Len(q)
  BY ReplyPlaces
<1>2. ASSUME NEW i \in S
      PROVE  seen[k] = 0 /\ ~\E j \in 1..i - 1 : q[j] = k
  <2> DEFINE T == {j \in 1..i - 1 : q[j] = q[i]}
  <2>1. i \in DOMAIN q /\ q[i] = k /\ ~(seen[k] + Cardinality(T) > 0)
    BY DEF Repeated, IsRepeated, TimesBefore
  <2>2. i - 1 \in Nat /\ T \subseteq 1..i - 1
    BY <2>1, ReplyPlaces
  <2>3. Cardinality(T) \in Nat /\ (Cardinality(T) > 0 <=> T # {})
    BY <2>2, CountPlaces, Zenon
  <2>4. seen[k] \in Nat
    BY DEF TurnInductive, TurnTypeOK
  <2> HIDE DEF T
  <2>5. seen[k] = 0 /\ Cardinality(T) = 0
    BY <2>1, <2>3, <2>4
  <2>6. QED
    BY <2>1, <2>3, <2>5 DEF T
<1>3. \A i, j \in S : i = j
  <2>1. \A i \in S : i \in Nat /\ i > 0 /\ q[i] = k
    BY <1>1
  <2>2. \A i, j \in S : ~(j < i)
    <3> SUFFICES ASSUME NEW i \in S, NEW j \in S, j < i PROVE FALSE
      OBVIOUS
    <3>1. j \in 1..i - 1
      BY <2>1
    <3>2. QED
      BY <1>2, <2>1, <3>1
  <2>3. QED
    BY <2>1, <2>2
<1>4. Cardinality(S) \in Nat /\ Cardinality(S) <= 1 /\ (Cardinality(S) > 0 => S # {})
  BY <1>1, <1>3, CountPlaces
<1>5. QED
  BY <1>1, <1>2, <1>4

-----------------------------------------------------------------------------
(* The steps of a turn *)

LEMMA TransferKeeps ==
    ASSUME TurnInductive, NEW q \in ModelReplies, MayAsk, ReplyTransfers(q), UNCHANGED runCancelled
    PROVE  TurnInductive'
<1> DEFINE first == CHOOSE i \in DOMAIN q :
                        /\ KeyKind[q[i]] = "transfer"
                        /\ \A j \in 1..i - 1 : KeyKind[q[j]] # "transfer"
           Before(n) == \A i \in DOMAIN q : i <= n => KeyKind[q[i]] # "transfer"
<1>1. /\ turnPc = "ask" /\ turn < MaxTurns /\ turn' = turn + 1 /\ handovers' = handovers \cup {turn}
      /\ UNCHANGED <<turnPc, asked, seen, running, fails, outcome, brokenTurns, executed, runCancelled>>
  BY DEF MayAsk, ReplyTransfers
<1>2. AddTurn(q, {first})
  BY Zenon DEF ReplyTransfers
<1>3. first \in DOMAIN q
  <2>1. \E i \in DOMAIN q : /\ KeyKind[q[i]] = "transfer"
                           /\ \A j \in 1..i - 1 : KeyKind[q[j]] # "transfer"
    <3> DEFINE T == {i \in DOMAIN q : KeyKind[q[i]] = "transfer"}
    <3>1. DOMAIN q = 1..Len(q) /\ Len(q) \in Nat
      BY ReplyPlaces
    <3>2. T \in SUBSET Nat /\ T # {}
      BY <3>1 DEF ReplyTransfers, IsTransfer
    <3>3. PICK m \in T : \A n \in T : m <= n
      BY <3>2, LeastOf
    <3>4. \A j \in 1..m - 1 : j \in DOMAIN q /\ ~(m <= j)
      BY <3>1, <3>3
    <3>5. \A j \in 1..m - 1 : j \notin T
      BY <3>3, <3>4
    <3>6. QED
      BY <3>3, <3>4, <3>5
  <2>2. QED
    BY <2>1, Zenon
<1> HIDE DEF first
<1>4. /\ AnswersAreOfThePast'
      /\ DOMAIN answers' \subseteq Calls /\ \A c \in DOMAIN answers' : answers'[c] \in Nat
      /\ handovers' \subseteq Turns /\ turn' \in 0..MaxTurns
  <2>1. {first} \subseteq DOMAIN q
    BY <1>3
  <2>2. QED
    BY <1>1, <1>2, <2>1, TurnIsAdded, Zenon
<1>5. TurnTypeOK'
  BY <1>1, <1>4 DEF TurnInductive, TurnTypeOK
<1>6. TurnUnderWay' /\ ExecutedWasSeen' /\ NothingOutlivesTheTurn'
  BY <1>1 DEF TurnInductive, TurnUnderWay, ExecutedWasSeen, NothingOutlivesTheTurn
<1>7. QED
  BY <1>4, <1>5, <1>6 DEF TurnInductive

LEMMA RepeatsKeep ==
    ASSUME TurnInductive, NEW q \in ModelReplies, MayAsk, ReplyRepeats(q), UNCHANGED runCancelled
    PROVE  TurnInductive'
<1>1. /\ turnPc = "ask" /\ turnPc' = "ended" /\ outcome' = "bestEffort"
      /\ UNCHANGED <<turn, asked, seen, running, fails, answers, handovers, brokenTurns, executed, runCancelled>>
  BY DEF MayAsk, ReplyRepeats, End, turnHistory
<1>2. QED
  BY <1>1 DEF TurnInductive, TurnTypeOK, TurnUnderWay, AnswersAreOfThePast, ExecutedWasSeen, NothingOutlivesTheTurn

LEMMA SearchesKeep ==
    ASSUME TurnInductive, NEW q \in ModelReplies, MayAsk, ReplySearchesAgain(q), UNCHANGED runCancelled
    PROVE  TurnInductive'
<1>1. /\ turnPc = "ask" /\ turn < MaxTurns /\ turn' = turn + 1 /\ CountSeen(q) /\ AddTurn(q, DOMAIN q)
      /\ UNCHANGED <<turnPc, asked, running, fails, outcome, handovers, brokenTurns, executed, runCancelled>>
  BY DEF MayAsk, ReplySearchesAgain, turnHistory
<1>2. /\ AnswersAreOfThePast'
      /\ DOMAIN answers' \subseteq Calls /\ \A c \in DOMAIN answers' : answers'[c] \in Nat
      /\ handovers' \subseteq Turns /\ turn' \in 0..MaxTurns
  <2>1. DOMAIN q \subseteq DOMAIN q /\ handovers' = handovers
    BY <1>1
  <2>2. QED
    BY <1>1, <2>1, TurnIsAdded, Zenon
<1>3. seen' \in [ToolKeys -> Nat] /\ \A k \in ToolKeys : seen[k] > 0 => seen'[k] > 0
  BY <1>1, SeenGrows, Zenon
<1>4. TurnTypeOK'
  BY <1>1, <1>2, <1>3 DEF TurnInductive, TurnTypeOK
<1>5. TurnUnderWay' /\ ExecutedWasSeen' /\ NothingOutlivesTheTurn'
  BY <1>1, <1>3 DEF TurnInductive, TurnUnderWay, ExecutedWasSeen, NothingOutlivesTheTurn
<1>6. QED
  BY <1>2, <1>4, <1>5 DEF TurnInductive

LEMMA CallsKeep ==
    ASSUME TurnInductive, NEW q \in ModelReplies, MayAsk, ReplyCalls(q), UNCHANGED runCancelled
    PROVE  TurnInductive'
<1> DEFINE R == DOMAIN q \ Repeated(q)
<1>1. /\ turnPc = "ask" /\ turn < MaxTurns /\ turnPc' = "execute" /\ CountSeen(q)
      /\ asked' = q /\ fails' = {} /\ running' = R
      /\ executed' = [k \in ToolKeys |-> executed[k] + Cardinality({i \in R : q[i] = k})]
      /\ UNCHANGED <<turn, outcome, answers, handovers, brokenTurns, runCancelled>>
  BY DEF MayAsk, ReplyCalls
<1>2. /\ seen' \in [ToolKeys -> Nat]
      /\ \A k \in ToolKeys : /\ seen[k] > 0 => seen'[k] > 0
                             /\ (\E i \in DOMAIN q : q[i] = k) => seen'[k] > 0
  BY <1>1, SeenGrows, Zenon
<1>3. R \subseteq DOMAIN q
  OBVIOUS
<1>4. ASSUME NEW k \in ToolKeys
      PROVE  /\ executed'[k] \in Nat /\ executed'[k] <= 1
             /\ executed'[k] > 0 => seen'[k] > 0
  <2>1. PICK S : S = {i \in R : q[i] = k}
    OBVIOUS
  <2>2. PICK n : n = Cardinality(S)
    OBVIOUS
  <2>3. executed'[k] = executed[k] + n
    BY <1>1, <2>1, <2>2
  <2>4. n \in Nat /\ n <= 1 /\ (n > 0 => seen[k] = 0 /\ \E i \in DOMAIN q : q[i] = k)
    BY <2>1, <2>2, FirstCallsRun, Zenon
  <2>5. executed[k] \in Nat /\ executed[k] <= 1 /\ (executed[k] > 0 => seen[k] > 0) /\ seen[k] \in Nat
    BY DEF TurnInductive, TurnTypeOK, ExecutedWasSeen
  <2>6. n > 0 => seen'[k] > 0
    BY <1>2, <2>4
  <2>7. executed[k] > 0 => seen'[k] > 0
    BY <1>2, <2>5
  <2> HIDE DEF R
  <2>8. QED
    BY <2>3, <2>4, <2>5, <2>6, <2>7
<1>5. executed' \in [ToolKeys -> Nat]
  <2>1. executed' = [k \in ToolKeys |-> executed'[k]]
    BY <1>1
  <2>2. QED
    BY <1>4, <2>1, Zenon
<1> HIDE DEF R
<1>6. TurnTypeOK'
  BY <1>1, <1>2, <1>3, <1>5 DEF TurnInductive, TurnTypeOK
<1>7. ExecutedWasSeen'
  BY <1>4 DEF ExecutedWasSeen
<1>8. TurnUnderWay' /\ AnswersAreOfThePast' /\ NothingOutlivesTheTurn'
  BY <1>1 DEF TurnInductive, TurnUnderWay, AnswersAreOfThePast, NothingOutlivesTheTurn
<1>9. QED
  BY <1>6, <1>7, <1>8 DEF TurnInductive

LEMMA ToolEndsKeeps ==
    ASSUME TurnInductive, NEW i \in 1..4, NEW ok, ToolEnds(i, ok)
    PROVE  TurnInductive'
<1>1. /\ turnPc = "execute" /\ i \in running /\ running' = running \ {i}
      /\ fails' \subseteq fails \cup {i}
      /\ UNCHANGED <<turnPc, turn, asked, seen, outcome, runCancelled, answers, handovers, brokenTurns, executed>>
  BY DEF ToolEnds, turnHistory
<1>2. running' \subseteq DOMAIN asked /\ fails' \subseteq DOMAIN asked
  BY <1>1 DEF TurnInductive, TurnTypeOK
<1>3. TurnTypeOK'
  BY <1>1, <1>2 DEF TurnInductive, TurnTypeOK
<1>4. TurnUnderWay' /\ AnswersAreOfThePast' /\ ExecutedWasSeen' /\ NothingOutlivesTheTurn'
  BY <1>1 DEF TurnInductive, TurnUnderWay, AnswersAreOfThePast, ExecutedWasSeen, NothingOutlivesTheTurn
<1>5. QED
  BY <1>3, <1>4 DEF TurnInductive

LEMMA TurnEndsKeeps ==
    ASSUME TurnInductive, TurnEnds
    PROVE  TurnInductive'
<1>1. /\ turnPc = "execute" /\ running = {} /\ turnPc' = "ask" /\ turn' = turn + 1
      /\ asked' = <<>> /\ fails' = {}
      /\ UNCHANGED <<seen, running, outcome, runCancelled, handovers, executed>>
  BY DEF TurnEnds, AllEnded
<1>2. turn < MaxTurns /\ asked \in ModelReplies /\ turn \in Turns /\ turn \in Nat /\ turn + 1 \in 0..MaxTurns
  BY <1>1, TurnAssumption DEF TurnInductive, TurnUnderWay, TurnTypeOK, Turns
<1>3. brokenTurns' \subseteq Turns
  BY <1>2 DEF TurnEnds, TurnInductive, TurnTypeOK
<1>4. /\ AnswersAreOfThePast'
      /\ DOMAIN answers' \subseteq Calls /\ \A c \in DOMAIN answers' : answers'[c] \in Nat
      /\ handovers' \subseteq Turns /\ turn' \in 0..MaxTurns
  <2>1. CASE fails = {}
    <3>1. PICK q \in ModelReplies : q = asked
      BY <1>2
    <3>2. AddTurn(q, DOMAIN q)
      BY <2>1, <3>1 DEF TurnEnds, AnsweredCalls, AddTurn
    <3>3. DOMAIN q \subseteq DOMAIN q /\ handovers' = handovers
      BY <1>1
    <3>4. QED
      BY <1>1, <1>2, <3>2, <3>3, TurnIsAdded, Zenon
  <2>2. CASE fails # {}
    <3>1. UNCHANGED <<answers, handovers>>
      BY <1>1, <2>2 DEF TurnEnds
    <3>2. /\ DOMAIN answers \subseteq Calls /\ \A c \in DOMAIN answers : answers[c] \in Nat
          /\ handovers \subseteq Turns
      BY DEF TurnInductive, TurnTypeOK
    <3>3. AnswersAreOfThePast
      BY DEF TurnInductive
    <3>4. \A t \in Turns : t \in Nat
      BY TurnAssumption DEF Turns
    <3>5. \A t \in Turns : t < turn => t < turn'
      BY <1>1, <1>2, <3>4
    <3>6. \A c \in DOMAIN answers : c[1] \in Turns
      BY <3>2 DEF Calls
    <3>7. AnswersAreOfThePast'
      BY <3>1, <3>2, <3>3, <3>5, <3>6 DEF AnswersAreOfThePast
    <3>8. QED
      BY <1>1, <1>2, <3>1, <3>2, <3>7
  <2>3. QED
    BY <2>1, <2>2
<1>5. TurnTypeOK'
  BY <1>1, <1>3, <1>4 DEF TurnInductive, TurnTypeOK
<1>6. TurnUnderWay' /\ ExecutedWasSeen' /\ NothingOutlivesTheTurn'
  BY <1>1 DEF TurnInductive, TurnUnderWay, ExecutedWasSeen, NothingOutlivesTheTurn
<1>7. QED
  BY <1>4, <1>5, <1>6 DEF TurnInductive

LEMMA TurnSteps ==
    TurnInductive /\ [TurnNext]_turnVars => TurnInductive'
<1> SUFFICES ASSUME TurnInductive, [TurnNext]_turnVars PROVE TurnInductive'
  OBVIOUS
<1>1. CASE ExecuteWithLLM \/ CancelRun
  <2>1. /\ turnPc' # "execute" \/ turnPc' = turnPc
        /\ (turnPc = "idle" /\ turnPc' = "ask") \/ turnPc' = turnPc
        /\ runCancelled' \in BOOLEAN
        /\ UNCHANGED <<turn, asked, seen, running, fails, outcome, answers, handovers, brokenTurns, executed>>
    BY <1>1 DEF ExecuteWithLLM, CancelRun, turnHistory, TurnInductive, TurnTypeOK
  <2>2. TurnTypeOK'
    BY <2>1 DEF TurnInductive, TurnTypeOK
  <2>3. QED
    BY <2>1, <2>2 DEF TurnInductive, TurnUnderWay, AnswersAreOfThePast, ExecutedWasSeen, NothingOutlivesTheTurn
<1>2. CASE ModelAnswers \/ StopsBeforeAsking
  <2>1. /\ turnPc = "ask" /\ turnPc' = "ended"
        /\ outcome' \in {"answer", "failed", "maxTurns", "cancelled"}
        /\ UNCHANGED <<turn, asked, seen, running, fails, runCancelled, answers, handovers, brokenTurns, executed>>
    BY <1>2 DEF ModelAnswers, MayAsk, StopsBeforeAsking, End, turnHistory
  <2>2. TurnTypeOK'
    BY <2>1 DEF TurnInductive, TurnTypeOK
  <2>3. QED
    BY <2>1, <2>2 DEF TurnInductive, TurnUnderWay, AnswersAreOfThePast, ExecutedWasSeen, NothingOutlivesTheTurn
<1>3. ASSUME NEW q \in ModelReplies, ModelReply(q) PROVE TurnInductive'
  BY <1>3, TransferKeeps, RepeatsKeep, SearchesKeep, CallsKeep DEF ModelReply
<1>4. ASSUME NEW i \in 1..4, NEW ok \in BOOLEAN, ToolEnds(i, ok) PROVE TurnInductive'
  BY <1>4, ToolEndsKeeps
<1>5. CASE TurnEnds
  BY <1>5, TurnEndsKeeps
<1>6. CASE UNCHANGED turnVars
  BY <1>6 DEF turnVars, turnHistory, TurnInductive, TurnTypeOK, TurnUnderWay, AnswersAreOfThePast,
     ExecutedWasSeen, NothingOutlivesTheTurn
<1>7. QED
  BY <1>1, <1>2, <1>3, <1>4, <1>5, <1>6 DEF TurnNext, TurnStep

\* The turns of a run are sound for any tools, replies and limit: whenever the
\* model is asked its calls have been answered, no call is made twice, and none
\* is under way between turns (service_execution.go:100-250, 560-600).
THEOREM TurnsAreSound == TurnSpec => [](TurnTypeOK /\ TurnsAreWhole)
<1>1. TurnInductive => TurnTypeOK /\ TurnsAreWhole
  <2> SUFFICES ASSUME TurnInductive PROVE TurnTypeOK /\ TurnsAreWhole
    OBVIOUS
  <2>1. AnsweredBeforeAsking
    BY DEF TurnInductive, AnswersAreOfThePast, AnsweredBeforeAsking
  <2>2. NothingRunsTwice
    BY DEF TurnInductive, ExecutedWasSeen, NothingRunsTwice
  <2>3. QED
    BY <2>1, <2>2 DEF TurnInductive, TurnsAreWhole
<1>2. QED
  BY TurnStarts, TurnSteps, <1>1, PTL DEF TurnSpec

-----------------------------------------------------------------------------
(* The story of a streamed run *)

\* The next event fits what was told before it: of the open calls p it makes o.
Fits(e, p, o) ==
    /\ e.what = "call" => e.call \notin p /\ o = p \cup {e.call}
    /\ e.what = "result" => e.call \in p /\ o = p \ {e.call}
    /\ e.what = "complete" => p = {}
    /\ e.what \notin {"call", "result"} => o = p

\* Events that lead from the open calls p to the open calls u.
Telling(es, p, u) ==
    \E o \in [0..Len(es) -> SUBSET CallIds] :
        /\ o[0] = p /\ o[Len(es)] = u
        /\ \A j \in 1..Len(es) : Fits(es[j], o[j - 1], o[j])

\* An event is sent.
LEMMA TellingSent ==
    ASSUME NEW es \in Seq(Event), NEW e \in Event,
           NEW p \in SUBSET CallIds, NEW u \in SUBSET CallIds, NEW v \in SUBSET CallIds,
           Telling(es, p, u), Fits(e, u, v)
    PROVE  Telling(Append(es, e), p, v)
<1>1. PICK n \in Nat : n = Len(es)
  OBVIOUS
<1>2. PICK o \in [0..n -> SUBSET CallIds] :
           o[0] = p /\ o[n] = u /\ \A j \in 1..n : Fits(es[j], o[j - 1], o[j])
  BY <1>1, Zenon DEF Telling
<1>3. PICK r : r = [j \in 0..n + 1 |-> IF j = n + 1 THEN v ELSE o[j]]
  OBVIOUS
<1>4. r \in [0..n + 1 -> SUBSET CallIds]
  <2>1. ASSUME NEW j \in 0..n + 1 PROVE (IF j = n + 1 THEN v ELSE o[j]) \in SUBSET CallIds
    <3>1. CASE j = n + 1
      BY <3>1
    <3>2. CASE j # n + 1
      <4>1. j \in 0..n
        BY <3>2, <1>1, SMT
      <4>2. QED
        BY <3>2, <4>1, <1>2
    <3>3. QED
      BY <3>1, <3>2
  <2>2. QED
    BY <1>3, <2>1, Zenon
<1>5. r[0] = p /\ r[n + 1] = v
  BY <1>2, <1>3, <1>1
<1>6. Len(Append(es, e)) = n + 1
  BY <1>1
<1>7. ASSUME NEW j \in 1..n + 1 PROVE Fits(Append(es, e)[j], r[j - 1], r[j])
  <2>1. CASE j = n + 1
    <3>1. Append(es, e)[j] = e /\ r[j] = v /\ j - 1 = n
      BY <1>1, <1>3, <2>1
    <3>2. r[n] = u
      BY <1>1, <1>2, <1>3
    <3>3. QED
      BY <3>1, <3>2, Zenon
  <2>2. CASE j # n + 1
    <3>1. j \in 1..n /\ j - 1 \in 0..n /\ j - 1 # n + 1
      BY <2>2, <1>1, SMT
    <3>2. Append(es, e)[j] = es[j]
      BY <1>1, <3>1
    <3>3. r[j] = o[j] /\ r[j - 1] = o[j - 1]
      BY <1>3, <2>2, <3>1
    <3>4. QED
      BY <1>2, <3>1, <3>2, <3>3, Zenon
  <2>3. QED
    BY <2>1, <2>2
<1>8. QED
  BY <1>4, <1>5, <1>6, <1>7, Zenon DEF Telling

\* An event is read.
LEMMA TellingRead ==
    ASSUME NEW es \in Seq(Event), es # <<>>,
           NEW p, NEW u, Telling(es, p, u)
    PROVE  \E o \in SUBSET CallIds : Fits(Head(es), p, o) /\ Telling(Tail(es), o, u)
<1>1. PICK n \in Nat : n + 1 = Len(es)
  <2>1. Len(es) \in Nat /\ Len(es) # 0
    OBVIOUS
  <2>2. Len(es) - 1 \in Nat /\ (Len(es) - 1) + 1 = Len(es)
    BY <2>1, SMT
  <2>3. QED
    BY <2>2
<1>2. PICK o \in [0..n + 1 -> SUBSET CallIds] :
           o[0] = p /\ o[n + 1] = u /\ \A j \in 1..n + 1 : Fits(es[j], o[j - 1], o[j])
  BY <1>1, Zenon DEF Telling
<1>3. PICK r : r = [j \in 0..n |-> o[j + 1]]
  OBVIOUS
<1>4. \A j \in 0..n : j + 1 \in 0..n + 1
  BY <1>1, SMT
<1>5. r \in [0..n -> SUBSET CallIds]
  BY <1>2, <1>3, <1>4, Zenon
<1>6. r[0] = o[1] /\ r[n] = u
  BY <1>2, <1>3
<1>7. Len(Tail(es)) = n /\ Head(es) = es[1] /\ \A j \in 1..n : Tail(es)[j] = es[j + 1]
  BY <1>1
<1>8. ASSUME NEW j \in 1..n PROVE Fits(Tail(es)[j], r[j - 1], r[j])
  <2>1. j + 1 \in 1..n + 1 /\ (j + 1) - 1 = j /\ (j - 1) + 1 = j /\ j - 1 \in 0..n /\ j \in 0..n
    BY <1>1, SMT
  <2>2. r[j] = o[j + 1] /\ r[j - 1] = o[j]
    BY <1>3, <2>1
  <2>3. Fits(es[j + 1], o[j], o[j + 1])
    BY <1>2, <2>1, Zenon
  <2>4. QED
    BY <1>7, <2>2, <2>3, Zenon
<1>9. 1 \in 1..n + 1 /\ 1 \in 0..n + 1 /\ 1 - 1 = 0
  BY <1>1, SMT
<1>10. Fits(Head(es), p, o[1]) /\ o[1] \in SUBSET CallIds
  BY <1>2, <1>7, <1>9, Zenon
<1>11. Telling(Tail(es), o[1], u)
  BY <1>5, <1>6, <1>7, <1>8, Zenon DEF Telling
<1>12. QED
  BY <1>10, <1>11

\* Nothing is to be read.
LEMMA TellingNothing ==
    ASSUME NEW p, NEW u, Telling(<<>>, p, u)
    PROVE  u = p
BY DEF Telling

\* The calls of a reply.
LEMMA RoundCalls ==
    ASSUME NEW q \in Replies \cup {<<>>}
    PROVE  /\ Len(q) \in Nat /\ DOMAIN q = 1..Len(q) /\ DOMAIN q \subseteq CallIds
           /\ \A i \in DOMAIN q : q[i] \in {"tool", "transfer", "lost"}
           /\ q \in Replies => Len(q) > 0
BY RuntimeAssumption DEF CallIds

-----------------------------------------------------------------------------
(* The inductive invariant *)

\* The calls that are open once every event has been read.
Unfinished == {i \in DOMAIN calls : toolPc[i] \in {"run", "result"}}

StoryGoesOn == Telling(events, told.open, Unfinished)

Final(e) == e.what \in {"complete", "error"}
NoFinals(es) == \A j \in 1..Len(es) : ~Final(es[j])
EndsFinally(es) == es # <<>> /\ Final(es[Len(es)]) /\ \A j \in 1..Len(es) - 1 : ~Final(es[j])

\* The last word is the last event, and is told or still to be read.
OneLastWord ==
    IF loopPc \notin {"close", "closed"}
    THEN told.finals = 0 /\ NoFinals(events)
    ELSE \/ told.finals = 1 /\ events = <<>>
         \/ told.finals = 0 /\ EndsFinally(events)
         \/ told.finals = 0 /\ NoFinals(events) /\ round = MaxRounds

\* The tools run within their round, and one is started after the other.
ToolsOfTheRound ==
    /\ loopPc \notin {"tools", "wait"} => ToolsDone
    /\ loopPc = "tools" => \A i \in DOMAIN calls : i >= next <=> toolPc[i] = "none"
    /\ loopPc \in {"tools", "wait"} => \A i \in DOMAIN calls : answered[i] = 0
    /\ loopPc \in {"think", "model", "tools"} => round < MaxRounds
    /\ loopPc \in {"idle", "start"} => calls = <<>>

ReaderIsThrough == reader = "done" => loopPc = "closed" /\ events = <<>>

RuntimeInductive ==
    /\ RuntimeTypeOK /\ ToolsOfTheRound /\ EveryCallAnswered /\ ~told.broken
    /\ StoryGoesOn /\ OneLastWord /\ ReaderIsThrough

\* The events of the channel are sequences.
LEMMA EventSent ==
    ASSUME NEW es \in Seq(Event), NEW e \in Event
    PROVE  /\ Append(es, e) \in Seq(Event) /\ Len(Append(es, e)) = Len(es) + 1
           /\ Append(es, e) # <<>>
           /\ ~Final(e) /\ NoFinals(es) => NoFinals(Append(es, e))
           /\ Final(e) /\ NoFinals(es) => EndsFinally(Append(es, e))
<1>1. /\ Append(es, e) \in Seq(Event) /\ Len(Append(es, e)) = Len(es) + 1 /\ Append(es, e) # <<>>
      /\ Append(es, e)[Len(es) + 1] = e
      /\ \A j \in 1..Len(es) : Append(es, e)[j] = es[j]
  OBVIOUS
<1>2. \A j \in 1..Len(es) + 1 : j \in 1..Len(es) \/ j = Len(es) + 1
  OBVIOUS
<1>3. (Len(es) + 1) - 1 = Len(es)
  OBVIOUS
<1>4. QED
  BY <1>1, <1>2, <1>3, Zenon DEF NoFinals, EndsFinally

LEMMA EventRead ==
    ASSUME NEW es \in Seq(Event), es # <<>>
    PROVE  /\ Tail(es) \in Seq(Event) /\ Len(Tail(es)) = Len(es) - 1 /\ Head(es) \in Event
           /\ NoFinals(es) => NoFinals(Tail(es)) /\ ~Final(Head(es))
           /\ EndsFinally(es) => \/ Tail(es) = <<>> /\ Final(Head(es))
                                 \/ EndsFinally(Tail(es)) /\ ~Final(Head(es))
<1>1. /\ Tail(es) \in Seq(Event) /\ Len(Tail(es)) = Len(es) - 1
      /\ Head(es) = es[1] /\ Head(es) \in Event
      /\ \A j \in 1..Len(es) - 1 : Tail(es)[j] = es[j + 1]
      /\ Len(es) \in Nat /\ Len(es) >= 1
  OBVIOUS
<1>2. NoFinals(es) => NoFinals(Tail(es)) /\ ~Final(Head(es))
  BY <1>1 DEF NoFinals
<1>3. ASSUME EndsFinally(es)
      PROVE  \/ Tail(es) = <<>> /\ Final(Head(es))
             \/ EndsFinally(Tail(es)) /\ ~Final(Head(es))
  <2>1. CASE Len(es) = 1
    <3>0. Len(Tail(es)) = 0 /\ Tail(es) \in Seq(Event)
      BY <1>1, <2>1
    <3>1. PICK t \in Seq(Event) : t = Tail(es) /\ Len(t) = 0
      BY <3>0, Zenon
    <3>2. Tail(es) = <<>>
      BY <3>1
    <3>3. QED
      BY <1>1, <1>3, <2>1, <3>2 DEF EndsFinally
  <2>2. CASE Len(es) # 1
    <3>1. Tail(es) # <<>> /\ Tail(es)[Len(es) - 1] = es[Len(es)]
      BY <1>1, <2>2
    <3>2. ~Final(es[1])
      BY <1>1, <1>3, <2>2 DEF EndsFinally
    <3>3. \A j \in 1..(Len(es) - 1) - 1 : Tail(es)[j] = es[j + 1] /\ j + 1 \in 1..Len(es) - 1
      BY <1>1
    <3>4. QED
      BY <1>1, <1>3, <3>1, <3>2, <3>3, Zenon DEF EndsFinally
  <2>3. QED
    BY <2>1, <2>2
<1>4. QED
  BY <1>1, <1>2, <1>3

-----------------------------------------------------------------------------
(* The steps of the loop *)

LEMMA InitTells == RuntimeInit => RuntimeInductive
<1> SUFFICES ASSUME RuntimeInit PROVE RuntimeInductive
  OBVIOUS
<1> USE DEF RuntimeInit
<1>1. RuntimeTypeOK
  <2>1. calls \in Replies \cup {<<>>} /\ Len(calls) = 0 /\ DOMAIN calls = {}
        /\ toolPc \in [{} -> {"none", "call", "run", "result", "stuck", "done"}]
        /\ answered \in [{} -> Nat] /\ next \in 1..Len(calls) + 1
    OBVIOUS
  <2>2. events \in Seq(Event) /\ Len(events) <= Capacity /\ round \in 0..MaxRounds
    BY RuntimeAssumption
  <2>3. QED
    BY <2>1, <2>2 DEF RuntimeTypeOK
<1>2. ToolsOfTheRound /\ EveryCallAnswered /\ ~told.broken /\ ReaderIsThrough
  BY DEF ToolsOfTheRound, ToolsDone, EveryCallAnswered, ReaderIsThrough
<1>3. OneLastWord
  BY DEF OneLastWord, NoFinals
<1>4. StoryGoesOn
  <2>1. Unfinished = {}
    BY DEF Unfinished
  <2>2. PICK o : o = [j \in 0..0 |-> {}]
    OBVIOUS
  <2>3. o \in [0..Len(events) -> SUBSET CallIds]
    BY <2>2
  <2>4. o[0] = told.open /\ o[Len(events)] = Unfinished
    BY <2>1, <2>2
  <2>5. \A j \in 1..Len(events) : Fits(events[j], o[j - 1], o[j])
    OBVIOUS
  <2>6. QED
    BY <2>3, <2>4, <2>5 DEF StoryGoesOn, Telling
<1>5. QED
  BY <1>1, <1>2, <1>3, <1>4 DEF RuntimeInductive

\* The calls of the round, as the type invariant gives them.
LEMMA CallsTyped ==
    ASSUME RuntimeTypeOK
    PROVE  /\ Len(calls) \in Nat /\ DOMAIN calls = 1..Len(calls) /\ DOMAIN calls \subseteq CallIds
           /\ \A i \in DOMAIN calls : calls[i] \in {"tool", "transfer", "lost"}
           /\ Unfinished \in SUBSET CallIds
<1>1. PICK q \in Replies \cup {<<>>} : q = calls
  BY DEF RuntimeTypeOK
<1>2. QED
  BY <1>1, RoundCalls DEF Unfinished

\* An event of the loop.
LEMMA LoopSays ==
    ASSUME RuntimeInductive, NEW from, NEW what, NEW to,
           <<from, what, to>> \in {<<"start", "start", "check">>, <<"cancelled", "error", "close">>,
                                   <<"think", "thinking", "model">>, <<"fail", "error", "close">>,
                                   <<"done", "thinking", "complete">>,
                                   <<"complete", "complete", "close">>},
           Say(from, The(what), to)
    PROVE  RuntimeInductive'
<1> USE DEF RuntimeInductive, Say
<1>1. PICK es \in Seq(Event) : es = events
  BY DEF RuntimeTypeOK
<1>2. PICK e \in Event : e = The(what)
  BY DEF Event, The
<1>3. e.what = what /\ e.what \notin {"call", "result"}
  BY <1>2 DEF The
<1>4. events' = Append(es, e) /\ Len(events') = Len(events) + 1 /\ events' \in Seq(Event)
      /\ events' # <<>>
  BY <1>1, <1>2, EventSent DEF SendEvent
<1>5. UNCHANGED <<round, calls, next, toolPc, failed, answered, cancelled, reader, told>>
  BY DEF toolVars
<1>6. RuntimeTypeOK'
  <2>1. Len(events') <= Capacity
    BY <1>1, <1>4, RuntimeAssumption DEF SendEvent
  <2>2. loopPc' = to
    OBVIOUS
  <2>3. QED
    BY <1>4, <1>5, <2>1, <2>2 DEF RuntimeTypeOK
<1>7. ToolsOfTheRound'
  BY <1>5 DEF ToolsOfTheRound, ToolsDone
<1>8. EveryCallAnswered'
  BY <1>5 DEF EveryCallAnswered, ToolsOfTheRound
<1>9. StoryGoesOn'
  <2>1. PICK u \in SUBSET CallIds : u = Unfinished
    BY CallsTyped
  <2>2. PICK p \in SUBSET CallIds : p = told.open
    BY DEF RuntimeTypeOK
  <2>3. Unfinished' = u /\ told'.open = p
    BY <1>5, <2>1, <2>2 DEF Unfinished
  <2>4. e.what = "complete" => u = {}
    BY <1>3, <2>1 DEF ToolsOfTheRound, ToolsDone, Unfinished
  <2>5. Fits(e, u, u)
    BY <1>3, <2>4 DEF Fits
  <2>6. Telling(es, p, u)
    BY <1>1, <2>1, <2>2 DEF StoryGoesOn
  <2>7. Telling(Append(es, e), p, u)
    BY <2>5, <2>6, TellingSent
  <2>8. QED
    BY <1>4, <2>3, <2>7 DEF StoryGoesOn
<1>10. OneLastWord'
  <2>1. told.finals = 0 /\ NoFinals(es)
    BY <1>1 DEF OneLastWord
  <2>2. loopPc' = "close" <=> Final(e)
    BY <1>3 DEF Final
  <2>3. loopPc' # "closed"
    OBVIOUS
  <2>4. CASE Final(e)
    <3>1. EndsFinally(Append(es, e))
      BY <2>1, <2>4, EventSent
    <3>2. QED
      BY <1>4, <1>5, <2>1, <2>2, <2>4, <3>1 DEF OneLastWord
  <2>5. CASE ~Final(e)
    <3>1. NoFinals(Append(es, e))
      BY <2>1, <2>5, EventSent
    <3>2. QED
      BY <1>4, <1>5, <2>1, <2>2, <2>3, <2>5, <3>1 DEF OneLastWord
  <2>6. QED
    BY <2>4, <2>5
<1>11. ReaderIsThrough'
  BY <1>5 DEF ReaderIsThrough
<1>12. QED
  BY <1>5, <1>6, <1>7, <1>8, <1>9, <1>10, <1>11

\* Steps of the loop that send nothing and start no tool.
LEMMA LoopGoesOn ==
    ASSUME RuntimeInductive,
           RunStream \/ CheckRound \/ ModelEnds \/ CloseChannel \/ CollectResults
    PROVE  RuntimeInductive'
<1> USE DEF RuntimeInductive, RunStream, CheckRound, AfterCheck, ModelEnds, CloseChannel,
            CollectResults, NextRound
<1>1. UNCHANGED <<calls, next, toolPc, failed, cancelled, events, reader, told>>
  BY DEF toolVars, readerVars
<1>2. PICK r \in 0..MaxRounds : r = round
  BY DEF RuntimeTypeOK
<1>3. round' \in 0..MaxRounds /\ (loopPc # "tools" => round' = round)
  BY <1>2, RuntimeAssumption DEF ToolsOfTheRound
<1>4. loopPc # "tools" => answered' = answered
  BY DEF toolVars
<1>5. loopPc = "tools" => answered' = [i \in DOMAIN calls |-> 1] /\ loopPc' = "check"
  BY DEF AnswersOfRound, ToolsOfTheRound, RuntimeTypeOK
<1>6. loopPc' \in {"start", "close", "cancelled", "think", "fail", "done", "complete", "closed",
                   "check"}
  OBVIOUS
<1>7. answered' \in [DOMAIN calls -> Nat]
  <2>1. CASE loopPc = "tools"
    BY <1>5, <2>1
  <2>2. CASE loopPc # "tools"
    BY <1>4, <2>2 DEF RuntimeTypeOK
  <2>3. QED
    BY <2>1, <2>2
<1>8. RuntimeTypeOK'
  BY <1>1, <1>3, <1>6, <1>7 DEF RuntimeTypeOK
<1>9. ToolsDone
  BY DEF ToolsOfTheRound
<1>10. ToolsOfTheRound'
  <2>1. ToolsDone'
    BY <1>1, <1>9 DEF ToolsDone
  <2>2. loopPc' = "think" => round' < MaxRounds
    BY <1>2, <1>3, RuntimeAssumption
  <2>3. loopPc' = "start" => calls' = <<>>
    BY <1>1 DEF ToolsOfTheRound
  <2>4. QED
    BY <1>6, <2>1, <2>2, <2>3 DEF ToolsOfTheRound
<1>11. EveryCallAnswered'
  <2>1. CASE loopPc = "tools"
    BY <1>1, <1>5, <2>1 DEF EveryCallAnswered
  <2>2. CASE loopPc # "tools"
    BY <1>1, <1>4, <2>2 DEF EveryCallAnswered
  <2>3. QED
    BY <2>1, <2>2
<1>12. StoryGoesOn'
  <2>1. Unfinished' = Unfinished
    BY <1>1 DEF Unfinished
  <2>2. QED
    BY <1>1, <2>1 DEF StoryGoesOn
<1>13. OneLastWord'
  <2>1. CASE loopPc \in {"close", "closed"}
    BY <1>1, <1>3, <2>1 DEF OneLastWord
  <2>2. CASE loopPc \notin {"close", "closed"}
    <3>1. told.finals = 0 /\ NoFinals(events)
      BY <2>2 DEF OneLastWord
    <3>2. loopPc' # "closed" /\ (loopPc' = "close" => round' = MaxRounds)
      BY <1>3, <2>2
    <3>3. QED
      BY <1>1, <3>1, <3>2 DEF OneLastWord
  <2>3. QED
    BY <2>1, <2>2
<1>14. ReaderIsThrough'
  BY <1>1 DEF ReaderIsThrough
<1>15. QED
  BY <1>1, <1>8, <1>10, <1>11, <1>12, <1>13, <1>14

\* The model asks for tools.
LEMMA ModelAsks ==
    ASSUME RuntimeInductive, NEW q \in Replies, ModelCalls(q)
    PROVE  RuntimeInductive'
<1> USE DEF RuntimeInductive, ModelCalls
<1>1. UNCHANGED <<round, cancelled, events, reader, told>>
  BY DEF readerVars
<1>2. /\ Len(q) \in Nat /\ DOMAIN q = 1..Len(q)
  BY RoundCalls
<1>3. \A i \in DOMAIN q : toolPc'[i] = "none" /\ answered'[i] = 0
  OBVIOUS
<1>4. RuntimeTypeOK'
  <2>1. next' \in 1..Len(calls') + 1
    BY <1>2
  <2>2. toolPc' \in [DOMAIN calls' -> {"none", "call", "run", "result", "stuck", "done"}]
        /\ answered' \in [DOMAIN calls' -> Nat]
    OBVIOUS
  <2>3. QED
    BY <1>1, <2>1, <2>2 DEF RuntimeTypeOK
<1>5. ToolsOfTheRound'
  <2>1. \A i \in DOMAIN q : i >= 1
    BY <1>2
  <2>2. round' < MaxRounds
    BY <1>1 DEF ToolsOfTheRound
  <2>3. QED
    BY <1>3, <2>1, <2>2 DEF ToolsOfTheRound
<1>6. EveryCallAnswered'
  BY DEF EveryCallAnswered
<1>7. StoryGoesOn'
  <2>1. Unfinished = {}
    BY DEF Unfinished, ToolsOfTheRound, ToolsDone
  <2>2. Unfinished' = {}
    BY <1>3 DEF Unfinished
  <2>3. QED
    BY <1>1, <2>1, <2>2 DEF StoryGoesOn
<1>8. OneLastWord'
  BY <1>1 DEF OneLastWord
<1>9. ReaderIsThrough'
  BY <1>1 DEF ReaderIsThrough
<1>10. QED
  BY <1>1, <1>4, <1>5, <1>6, <1>7, <1>8, <1>9

\* A call is started, found lost, or transfers.
LEMMA CallStarted ==
    ASSUME RuntimeInductive, StartCall
    PROVE  RuntimeInductive'
<1> USE DEF RuntimeInductive, StartCall
<1>1. UNCHANGED <<round, calls, answered, cancelled, events, reader, told>>
  BY DEF readerVars
<1>2. PICK n \in Nat : n = Len(calls)
  BY CallsTyped
<1>3. DOMAIN calls = 1..n /\ next \in 1..n /\ calls[next] \in {"tool", "transfer", "lost"}
  BY <1>2, CallsTyped DEF RuntimeTypeOK
<1>4. PICK k \in 1..n : k = next
  BY <1>3
<1>5. PICK where \in {"call", "done", "stuck"} :
         toolPc' = [toolPc EXCEPT ![k] = where] /\ (where = "stuck" <=> calls[k] = "transfer")
  BY <1>3, <1>4
<1>6. toolPc[k] = "none"
  BY <1>3, <1>4 DEF ToolsOfTheRound
<1>7. \A i \in DOMAIN calls : toolPc'[i] = IF i = k THEN where ELSE toolPc[i]
  BY <1>5 DEF RuntimeTypeOK
<1>8. next' = (IF calls[k] = "transfer" THEN k ELSE k + 1) /\ failed' \subseteq DOMAIN calls
      /\ loopPc' = (IF calls[k] = "transfer" THEN "wait" ELSE "tools")
  BY <1>3, <1>4 DEF RuntimeTypeOK
<1>9. RuntimeTypeOK'
  <2>1. next' \in 1..Len(calls') + 1
    BY <1>1, <1>2, <1>4, <1>8
  <2>2. toolPc' \in [DOMAIN calls' -> {"none", "call", "run", "result", "stuck", "done"}]
    BY <1>1, <1>5 DEF RuntimeTypeOK
  <2>3. QED
    BY <1>1, <1>8, <2>1, <2>2 DEF RuntimeTypeOK
<1>10. ToolsOfTheRound'
  <2>1. ASSUME loopPc' = "tools", NEW i \in DOMAIN calls
        PROVE  i >= next' <=> toolPc'[i] = "none"
    <3>1. calls[k] # "transfer" /\ next' = k + 1
      BY <1>8, <2>1
    <3>2. CASE i = k
      <4>1. toolPc'[i] # "none"
        BY <1>5, <1>7, <3>2
      <4>2. ~(i >= k + 1)
        BY <3>2
      <4>3. QED
        BY <3>1, <4>1, <4>2
    <3>3. CASE i # k
      <4>1. toolPc'[i] = toolPc[i] /\ (i >= k <=> toolPc[i] = "none")
        BY <1>4, <1>7, <3>3 DEF ToolsOfTheRound
      <4>2. i >= k <=> i >= k + 1
        BY <1>3, <3>3
      <4>3. QED
        BY <3>1, <4>1, <4>2
    <3>4. QED
      BY <3>2, <3>3
  <2>2. round' < MaxRounds
    BY <1>1 DEF ToolsOfTheRound
  <2>3. \A i \in DOMAIN calls : answered[i] = 0
    BY DEF ToolsOfTheRound
  <2>4. QED
    BY <1>1, <1>8, <2>1, <2>2, <2>3 DEF ToolsOfTheRound
<1>11. EveryCallAnswered'
  BY <1>8 DEF EveryCallAnswered
<1>12. StoryGoesOn'
  <2>1. Unfinished' = Unfinished
    BY <1>1, <1>6, <1>7 DEF Unfinished
  <2>2. QED
    BY <1>1, <2>1 DEF StoryGoesOn
<1>13. OneLastWord'
  BY <1>1, <1>8 DEF OneLastWord
<1>14. ReaderIsThrough'
  BY <1>1 DEF ReaderIsThrough
<1>15. QED
  BY <1>1, <1>9, <1>10, <1>11, <1>12, <1>13, <1>14

-----------------------------------------------------------------------------
(* The steps of the tools, and of the reader *)

\* A tool call goes on.
LEMMA ToolGoesOn ==
    ASSUME RuntimeInductive, NEW c \in CallIds, CallStep(c)
    PROVE  RuntimeInductive'
<1> USE DEF RuntimeInductive, CallStep
<1>1. PICK from, to :
         /\ ToolStep(c, from, to)
         /\ <<from, to>> \in {<<"call", "run">>, <<"run", "result">>, <<"result", "done">>}
         /\ from = "run" => events' = events
         /\ from = "call" => SendEvent([what |-> "call", call |-> c])
         /\ from = "result" => SendEvent([what |-> "result", call |-> c])
         /\ failed' \subseteq failed \cup {c}
  <2>1. CASE EmitToolCall(c)
    BY <2>1, Zenon DEF EmitToolCall
  <2>2. CASE EmitToolResult(c)
    BY <2>2, Zenon DEF EmitToolResult
  <2>3. ASSUME NEW ok \in BOOLEAN, ToolReturns(c, ok)
        PROVE  /\ ToolStep(c, "run", "result") /\ events' = events
               /\ failed' \subseteq failed \cup {c}
    BY <2>3 DEF ToolReturns
  <2>4. QED
    BY <2>1, <2>2, <2>3, Zenon
<1>2. UNCHANGED <<loopPc, round, calls, next, answered, cancelled, reader, told>>
      /\ c \in DOMAIN calls /\ toolPc[c] = from /\ toolPc' = [toolPc EXCEPT ![c] = to]
  BY <1>1 DEF ToolStep
<1>3. loopPc \in {"tools", "wait"}
  BY <1>1, <1>2 DEF ToolsOfTheRound, ToolsDone
<1>4. \A i \in DOMAIN calls : toolPc'[i] = IF i = c THEN to ELSE toolPc[i]
  BY <1>2 DEF RuntimeTypeOK
<1>5. PICK es \in Seq(Event) : es = events
  BY DEF RuntimeTypeOK
<1>6. PICK e \in Event : e = [what |-> IF from = "call" THEN "call" ELSE "result", call |-> c]
  <2>1. PICK w \in {"call", "result"} : w = IF from = "call" THEN "call" ELSE "result"
    BY Zenon
  <2>2. [what |-> w, call |-> c] \in Event
    BY DEF Event
  <2>3. QED
    BY <2>1, <2>2, Zenon
<1>7. from # "run" => events' = Append(es, e) /\ Len(es) < Capacity
  BY <1>1, <1>5, <1>6 DEF SendEvent
<1>8. ~Final(e)
  BY <1>6 DEF Final
<1>9. events' \in Seq(Event) /\ Len(events') <= Capacity /\ NoFinals(events')
  <2>1. NoFinals(es)
    BY <1>3, <1>5 DEF OneLastWord
  <2>2. CASE from = "run"
    BY <1>1, <1>5, <2>1, <2>2 DEF RuntimeTypeOK
  <2>3. CASE from # "run"
    <3>1. Append(es, e) \in Seq(Event) /\ Len(Append(es, e)) = Len(es) + 1
          /\ NoFinals(Append(es, e))
      BY <1>8, <2>1, EventSent
    <3>2. Len(es) + 1 <= Capacity
      BY <1>7, <2>3, RuntimeAssumption
    <3>3. QED
      BY <1>7, <2>3, <3>1, <3>2
  <2>4. QED
    BY <2>2, <2>3
<1>10. RuntimeTypeOK'
  <2>1. toolPc' \in [DOMAIN calls' -> {"none", "call", "run", "result", "stuck", "done"}]
    BY <1>1, <1>2 DEF RuntimeTypeOK
  <2>2. failed' \subseteq DOMAIN calls'
    BY <1>1, <1>2 DEF RuntimeTypeOK
  <2>3. QED
    BY <1>2, <1>9, <2>1, <2>2 DEF RuntimeTypeOK
<1>11. ToolsOfTheRound'
  <2>1. \A i \in DOMAIN calls : toolPc'[i] = "none" <=> toolPc[i] = "none"
    BY <1>1, <1>2, <1>4
  <2>2. QED
    BY <1>2, <1>3, <2>1 DEF ToolsOfTheRound
<1>12. EveryCallAnswered'
  BY <1>2, <1>3 DEF EveryCallAnswered
<1>13. StoryGoesOn'
  <2>1. PICK u \in SUBSET CallIds : u = Unfinished
    BY CallsTyped
  <2>2. PICK p \in SUBSET CallIds : p = told.open
    BY DEF RuntimeTypeOK
  <2>3. Telling(es, p, u)
    BY <1>5, <2>1, <2>2 DEF StoryGoesOn
  <2>4. told'.open = p
    BY <1>2, <2>2
  <2>5. CASE from = "run"
    <3>1. Unfinished' = u
      BY <1>1, <1>2, <1>4, <2>1, <2>5 DEF Unfinished
    <3>2. QED
      BY <1>1, <1>5, <2>3, <2>4, <2>5, <3>1 DEF StoryGoesOn
  <2>6. CASE from = "call"
    <3>1. Unfinished' = u \cup {c} /\ c \notin u
      BY <1>1, <1>2, <1>4, <2>1, <2>6 DEF Unfinished
    <3>2. PICK v \in SUBSET CallIds : v = u \cup {c}
      OBVIOUS
    <3>3. Fits(e, u, v)
      BY <1>6, <2>6, <3>1, <3>2 DEF Fits
    <3>4. Telling(Append(es, e), p, v)
      BY <2>3, <3>3, TellingSent
    <3>5. QED
      BY <1>7, <2>4, <2>6, <3>1, <3>2, <3>4 DEF StoryGoesOn
  <2>7. CASE from = "result"
    <3>1. Unfinished' = u \ {c} /\ c \in u
      BY <1>1, <1>2, <1>4, <2>1, <2>7 DEF Unfinished
    <3>2. PICK v \in SUBSET CallIds : v = u \ {c}
      OBVIOUS
    <3>3. Fits(e, u, v)
      BY <1>6, <2>7, <3>1, <3>2 DEF Fits
    <3>4. Telling(Append(es, e), p, v)
      BY <2>3, <3>3, TellingSent
    <3>5. QED
      BY <1>7, <2>4, <2>7, <3>1, <3>2, <3>4 DEF StoryGoesOn
  <2>8. QED
    BY <1>1, <2>5, <2>6, <2>7
<1>14. OneLastWord'
  BY <1>2, <1>3, <1>9 DEF OneLastWord
<1>15. ReaderIsThrough'
  BY <1>2, <1>3 DEF ReaderIsThrough
<1>16. QED
  BY <1>2, <1>10, <1>11, <1>12, <1>13, <1>14, <1>15

\* The reader takes an event.
LEMMA EventIsRead ==
    ASSUME RuntimeInductive, ReadEvent
    PROVE  RuntimeInductive'
<1> USE DEF RuntimeInductive, ReadEvent
<1>1. UNCHANGED <<loopPc, round, calls, next, toolPc, failed, answered, cancelled, reader>>
  BY DEF toolVars
<1>2. PICK es \in Seq(Event) : es = events /\ es # <<>>
  BY DEF RuntimeTypeOK
<1>3. PICK u \in SUBSET CallIds : u = Unfinished
  BY CallsTyped
<1>4. PICK p \in SUBSET CallIds : p = told.open
  BY DEF RuntimeTypeOK
<1>5. PICK o \in SUBSET CallIds : Fits(Head(es), p, o) /\ Telling(Tail(es), o, u)
  <2>1. Telling(es, p, u)
    BY <1>2, <1>3, <1>4 DEF StoryGoesOn
  <2>2. QED
    BY <1>2, <2>1, TellingRead
<1>6. PICK e \in Event : e = Head(es)
  BY <1>2, EventRead
<1>7. told.finals = 0
  BY <1>2 DEF OneLastWord
<1>8. told'.open = o
  BY <1>2, <1>4, <1>5, <1>6 DEF ToldAfter, Fits
<1>9. told'.finals = (IF Final(e) THEN 1 ELSE 0)
  BY <1>2, <1>6, <1>7 DEF ToldAfter, Final
<1>10. ~told'.broken
  <2>1. /\ ~(e.what = "result" /\ e.call \notin told.open)
        /\ ~(e.what = "call" /\ e.call \in told.open)
        /\ ~(e.what = "complete" /\ told.open # {})
    BY <1>4, <1>5, <1>6 DEF Fits
  <2>2. ~(told.finals > 0)
    BY <1>7
  <2>3. ~told.broken
    OBVIOUS
  <2>4. told' = ToldAfter(e)
    BY <1>2, <1>6
  <2>5. told'.broken = (\/ told.broken
                        \/ e.what = "result" /\ e.call \notin told.open
                        \/ e.what = "call" /\ e.call \in told.open
                        \/ e.what = "complete" /\ told.open # {}
                        \/ told.finals > 0)
    BY <2>4 DEF ToldAfter
  <2>6. QED
    BY <2>1, <2>2, <2>3, <2>5, Zenon
<1>11. told' \in [open : SUBSET CallIds, finals : Nat, broken : BOOLEAN]
  <2> DEFINE opened == CASE e.what = "call"   -> told.open \cup {e.call}
                         [] e.what = "result" -> told.open \ {e.call}
                         [] OTHER             -> told.open
             words == told.finals + (IF e.what \in {"complete", "error"} THEN 1 ELSE 0)
             bad == \/ told.broken
                    \/ e.what = "result" /\ e.call \notin told.open
                    \/ e.what = "call" /\ e.call \in told.open
                    \/ e.what = "complete" /\ told.open # {}
                    \/ told.finals > 0
  <2>1. told' = [open |-> opened, finals |-> words, broken |-> bad]
    BY <1>2, <1>6 DEF ToldAfter
  <2>2. bad \in BOOLEAN
    BY Zenon
  <2> HIDE DEF opened, words, bad
  <2>3. told'.open = opened /\ told'.finals = words
    BY <2>1
  <2>4. opened \in SUBSET CallIds /\ words \in Nat
    BY <1>8, <1>9, <2>3
  <2>5. QED
    BY <2>1, <2>2, <2>4
<1>12. events' = Tail(es) /\ events' \in Seq(Event) /\ Len(events') <= Capacity
  BY <1>2, EventRead, RuntimeAssumption DEF RuntimeTypeOK
<1>13. RuntimeTypeOK'
  BY <1>1, <1>11, <1>12 DEF RuntimeTypeOK
<1>14. ToolsOfTheRound'
  BY <1>1 DEF ToolsOfTheRound, ToolsDone
<1>15. EveryCallAnswered'
  BY <1>1 DEF EveryCallAnswered
<1>16. StoryGoesOn'
  <2>1. Unfinished' = u
    BY <1>1, <1>3 DEF Unfinished
  <2>2. QED
    BY <1>5, <1>8, <1>12, <2>1 DEF StoryGoesOn
<1>17. OneLastWord'
  <2>1. CASE NoFinals(es)
    <3>1. NoFinals(Tail(es)) /\ ~Final(e)
      BY <1>2, <1>6, <2>1, EventRead
    <3>2. loopPc \in {"close", "closed"} => round = MaxRounds
      BY <1>2, <2>1 DEF OneLastWord, EndsFinally, NoFinals
    <3>3. QED
      BY <1>1, <1>9, <1>12, <3>1, <3>2 DEF OneLastWord
  <2>2. CASE ~NoFinals(es)
    <3>1. EndsFinally(es) /\ loopPc \in {"close", "closed"}
      BY <1>2, <1>7, <2>2 DEF OneLastWord
    <3>2. \/ Tail(es) = <<>> /\ Final(e)
          \/ EndsFinally(Tail(es)) /\ ~Final(e)
      BY <1>2, <1>6, <3>1, EventRead
    <3>3. QED
      BY <1>1, <1>9, <1>12, <3>1, <3>2 DEF OneLastWord
  <2>3. QED
    BY <2>1, <2>2
<1>18. ReaderIsThrough'
  BY <1>1 DEF ReaderIsThrough
<1>19. QED
  BY <1>10, <1>13, <1>14, <1>15, <1>16, <1>17, <1>18

\* The reader sees the channel closed or leaves, the context ends, or nothing happens.
LEMMA TheRestIsUnchanged ==
    ASSUME RuntimeInductive,
           ReaderSeesClosed \/ ReaderLeaves \/ ContextCancelled \/ UNCHANGED runtimeVars
    PROVE  RuntimeInductive'
<1> USE DEF RuntimeInductive
<1>1. UNCHANGED <<loopPc, round, calls, next, toolPc, failed, answered, events, told>>
      /\ cancelled' \in BOOLEAN /\ reader' \in {"reads", "left", "done"}
      /\ (reader' = "done" => reader = "done" \/ (loopPc = "closed" /\ events = <<>>))
  <2>1. CASE ReaderSeesClosed
    BY <2>1 DEF ReaderSeesClosed, toolVars, RuntimeTypeOK
  <2>2. CASE ReaderLeaves
    BY <2>2 DEF ReaderLeaves, toolVars, RuntimeTypeOK
  <2>3. CASE ContextCancelled
    BY <2>3 DEF ContextCancelled, toolVars, readerVars, RuntimeTypeOK
  <2>4. CASE UNCHANGED runtimeVars
    BY <2>4 DEF runtimeVars, toolVars, readerVars, RuntimeTypeOK
  <2>5. QED
    BY <2>1, <2>2, <2>3, <2>4
<1>2. RuntimeTypeOK'
  BY <1>1 DEF RuntimeTypeOK
<1>3. ToolsOfTheRound' /\ EveryCallAnswered' /\ OneLastWord' /\ ReaderIsThrough'
  BY <1>1 DEF ToolsOfTheRound, ToolsDone, EveryCallAnswered, OneLastWord, ReaderIsThrough
<1>4. StoryGoesOn'
  <2>1. Unfinished' = Unfinished
    BY <1>1 DEF Unfinished
  <2>2. QED
    BY <1>1, <2>1 DEF StoryGoesOn
<1>5. QED
  BY <1>1, <1>2, <1>3, <1>4

LEMMA RuntimeStepKeeps ==
    ASSUME RuntimeInductive, [RuntimeNext]_runtimeVars
    PROVE  RuntimeInductive'
<1>1. CASE EmitStart \/ EmitCancelled \/ EmitThinking \/ EmitModelError \/ EmitTaskComplete
           \/ EmitComplete
  BY <1>1, LoopSays DEF EmitStart, EmitCancelled, EmitThinking, EmitModelError,
                        EmitTaskComplete, EmitComplete
<1>2. CASE RunStream \/ CheckRound \/ ModelEnds \/ CloseChannel \/ CollectResults
  BY <1>2, LoopGoesOn
<1>3. CASE \E q \in Replies : ModelCalls(q)
  BY <1>3, ModelAsks
<1>4. CASE StartCall
  BY <1>4, CallStarted
<1>5. CASE \E i \in CallIds : CallStep(i)
  BY <1>5, ToolGoesOn
<1>6. CASE ReadEvent
  BY <1>6, EventIsRead
<1>7. CASE ReaderSeesClosed \/ ReaderLeaves \/ ContextCancelled \/ UNCHANGED runtimeVars
  BY <1>7, TheRestIsUnchanged
<1>8. QED
  BY <1>1, <1>2, <1>3, <1>4, <1>5, <1>6, <1>7, Zenon DEF RuntimeNext, LoopStep, ReaderStep

LEMMA InductiveIsWhole == RuntimeInductive => RuntimeTypeOK /\ RunIsTold
<1> SUFFICES ASSUME RuntimeInductive PROVE RuntimeTypeOK /\ RunIsTold
  OBVIOUS
<1> USE DEF RuntimeInductive
<1>1. ClosedAfterTools
  BY DEF ClosedAfterTools, ToolsOfTheRound, ToolsDone
<1>2. StoryIsWhole
  <2>1. ASSUME reader = "done" PROVE told.open = {}
    <3>1. events = <<>> /\ Unfinished = {}
      BY <2>1 DEF ReaderIsThrough, ToolsOfTheRound, ToolsDone, Unfinished
    <3>2. PICK p : p = told.open
      OBVIOUS
    <3>3. Telling(<<>>, p, {})
      BY <3>1, <3>2 DEF StoryGoesOn
    <3>4. QED
      BY <3>2, <3>3, TellingNothing
  <2>2. QED
    BY <2>1 DEF StoryIsWhole
<1>3. LastWordIsSaid
  BY DEF LastWordIsSaid, ReaderIsThrough, OneLastWord, EndsFinally
<1>4. QED
  BY <1>1, <1>2, <1>3 DEF RunIsTold

\* A streamed run tells its whole story (loop, executeToolCalls and the reader
\* of the channel): no tool sends once the channel is closed, the model sees one
\* message for each call, and who reads to the end was told of every call before
\* its result and of one last word, unless the rounds were used up.
THEOREM RunsTellTheirStory == RuntimeSpec => [](RuntimeTypeOK /\ RunIsTold)
<1>1. RuntimeInit => RuntimeInductive
  BY InitTells
<1>2. RuntimeInductive /\ [RuntimeNext]_runtimeVars => RuntimeInductive'
  BY RuntimeStepKeeps
<1>3. RuntimeInductive => RuntimeTypeOK /\ RunIsTold
  BY InductiveIsWhole
<1>4. QED
  BY <1>1, <1>2, <1>3, PTL DEF RuntimeSpec

-----------------------------------------------------------------------------
(* The life of a subagent *)

\* The call of Run has been made, or nothing has happened.
RunCame == \E e \in Executions : Origin[e] # "resume" /\ pc[e] # "idle"

NothingBeforeRun ==
    RunCame \/ (channelsOpen /\ state = "pending" /\ \A e \in Executions : pc[e] = "idle")

\* Executions that never overlap come one after the other, each with its own context.
OneAtATime ==
    /\ \A e, f \in Live : e = f
    /\ \A e \in Executions :
          /\ pc[e] \in {"try", "work", "finish", "close"} => ctx = e
          /\ pc[e] \in {"try", "work", "finish"} =>
                /\ state \in {"running", "cancelled", "paused"}
                /\ state # "running" => ended[ctx] # "no"
          /\ pc[e] = "finish" => IF err = "nil" THEN result # None ELSE result = None /\ err = "failed"

ChannelsServe == OneCallOfRun => ~panicked /\ (Live # {} => channelsOpen)

\* The outcome is empty until the first attempt has ended.
EmptyBeforeTheEnd ==
    result = None /\ err = "nil" =>
        /\ \A e \in Executions : pc[e] \notin {"finish", "close", "done"}
        /\ state \in Terminal => cancelAccepted

SubAgentInductive ==
    /\ SubAgentTypeOK /\ NothingBeforeRun /\ EmptyBeforeTheEnd /\ EmptyAnswerNeedsCancel
    /\ ~overlapped => OneAtATime /\ OutcomeMatchesState /\ ChannelsServe

LEMMA InitSound == SubAgentInit => SubAgentInductive
<1> SUFFICES ASSUME SubAgentInit PROVE SubAgentInductive
  OBVIOUS
<1> USE DEF SubAgentInit
<1>1. SubAgentTypeOK
  <2>1. PICK n \in Nat : n = RetryOnFailure
    BY ConfigAssumption, Zenon
  <2>2. n \in 0..n
    OBVIOUS
  <2>3. retries \in [Executions -> 0..RetryOnFailure]
    BY <2>1, <2>2, Zenon
  <2>4. QED
    BY <2>3 DEF SubAgentTypeOK, State, Errors
<1>2. NothingBeforeRun /\ EmptyBeforeTheEnd
  BY DEF NothingBeforeRun, EmptyBeforeTheEnd, Terminal
<1>3. EmptyAnswerNeedsCancel
  BY DEF EmptyAnswerNeedsCancel
<1>4. Live = {}
  BY DEF Live
<1>5. OneAtATime /\ OutcomeMatchesState /\ ChannelsServe
  BY <1>4 DEF OneAtATime, OutcomeMatchesState, ChannelsServe, Terminal
<1>6. QED
  BY <1>1, <1>2, <1>3, <1>5 DEF SubAgentInductive

\* What a call of Run, direct or by Resume, does to the executions.
LEMMA CalledPlaces ==
    ASSUME SubAgentInductive, NEW e \in Executions, Called(e)
    PROVE  /\ \A f \in Executions : pc'[f] = IF f = e THEN "called" ELSE pc[f]
           /\ Live' = Live \cup {e}
           /\ ~overlapped' => ~overlapped /\ Live = {}
           /\ pc' \in [Executions -> {"idle", "called", "try", "work", "finish", "close", "done"}]
           /\ overlapped' \in BOOLEAN
           /\ RunCame => RunCame'
           /\ Origin[e] # "resume" => RunCame'
<1> USE DEF SubAgentInductive, Called
<1>1. \A f \in Executions : pc'[f] = IF f = e THEN "called" ELSE pc[f]
  BY DEF SubAgentTypeOK
<1>2. Live' = Live \cup {e}
  BY <1>1 DEF Live
<1>3. RunCame => RunCame'
  BY <1>1 DEF RunCame
<1>4. Origin[e] # "resume" => RunCame'
  BY <1>1 DEF RunCame
<1>5. pc' \in [Executions -> {"idle", "called", "try", "work", "finish", "close", "done"}]
  BY DEF SubAgentTypeOK
<1>6. overlapped' \in BOOLEAN /\ (~overlapped' => ~overlapped /\ Live = {})
  BY Zenon
<1>7. QED
  BY <1>1, <1>2, <1>3, <1>4, <1>5, <1>6

LEMMA StartKeeps ==
    ASSUME SubAgentInductive, NEW e \in Executions, Start(e), ~panicked
    PROVE  SubAgentInductive'
<1> USE DEF SubAgentInductive, Start
<1>1. Called(e) /\ Origin[e] # "resume"
  OBVIOUS
<1>2. UNCHANGED <<state, ctx, ended, result, err, channelsOpen, attemptCtx, retries, answer,
                  cancelAccepted, panicked>>
  BY DEF outcomeVars
<1>3. \A f \in Executions : pc'[f] = IF f = e THEN "called" ELSE pc[f]
  BY <1>1, CalledPlaces
<1>4. SubAgentTypeOK'
  <2>1. added' \in BOOLEAN
    BY Zenon DEF SubAgentTypeOK
  <2>2. QED
    BY <1>1, <1>2, <2>1, CalledPlaces DEF SubAgentTypeOK
<1>5. NothingBeforeRun'
  BY <1>1, CalledPlaces DEF NothingBeforeRun
<1>6. EmptyBeforeTheEnd' /\ EmptyAnswerNeedsCancel'
  BY <1>2, <1>3 DEF EmptyBeforeTheEnd, EmptyAnswerNeedsCancel
<1>7. ASSUME ~overlapped' PROVE OneAtATime' /\ OutcomeMatchesState' /\ ChannelsServe'
  <2>1. ~overlapped /\ Live = {} /\ Live' = {e}
    BY <1>1, <1>7, CalledPlaces
  <2>2. OneAtATime'
    BY <1>2, <1>3, <2>1 DEF OneAtATime
  <2>3. OutcomeMatchesState'
    BY <1>2, <1>3, <2>1 DEF OutcomeMatchesState
  <2>4. ASSUME OneCallOfRun PROVE channelsOpen
    <3>1. pc[e] = "idle"
      BY <1>1 DEF Called
    <3>2. ~RunCame
      BY <1>1, <2>4, <3>1 DEF RunCame, OneCallOfRun
    <3>3. QED
      BY <3>2 DEF NothingBeforeRun
  <2>5. ChannelsServe'
    BY <1>2, <2>4 DEF ChannelsServe, OneCallOfRun
  <2>6. QED
    BY <2>2, <2>3, <2>5
<1>8. QED
  BY <1>4, <1>5, <1>6, <1>7

LEMMA ResumeKeeps ==
    ASSUME SubAgentInductive, NEW e \in Executions, Resume(e), ~panicked
    PROVE  SubAgentInductive'
<1> USE DEF SubAgentInductive, Resume, ChannelsAfterResume
<1>1. Called(e) /\ state = "paused" /\ state' = "running" /\ channelsOpen'
  OBVIOUS
<1>2. UNCHANGED <<ctx, ended, result, err, added, attemptCtx, retries, answer,
                  cancelAccepted, panicked>>
  BY DEF outcomeVars
<1>3. \A f \in Executions : pc'[f] = IF f = e THEN "called" ELSE pc[f]
  BY <1>1, CalledPlaces
<1>4. SubAgentTypeOK'
  BY <1>1, <1>2, CalledPlaces DEF SubAgentTypeOK, State
<1>5. NothingBeforeRun'
  BY <1>1, CalledPlaces DEF NothingBeforeRun
<1>6. EmptyBeforeTheEnd' /\ EmptyAnswerNeedsCancel'
  BY <1>1, <1>2, <1>3 DEF EmptyBeforeTheEnd, EmptyAnswerNeedsCancel, Terminal
<1>7. ASSUME ~overlapped' PROVE OneAtATime' /\ OutcomeMatchesState' /\ ChannelsServe'
  <2>1. ~overlapped /\ Live = {} /\ Live' = {e}
    BY <1>1, <1>7, CalledPlaces
  <2>2. OneAtATime'
    <3>1. \A f \in Executions : pc'[f] \notin {"try", "work", "finish", "close"}
      BY <1>3, <2>1 DEF Live
    <3>2. QED
      BY <2>1, <3>1 DEF OneAtATime
  <2>3. OutcomeMatchesState'
    BY <1>1 DEF OutcomeMatchesState, Terminal
  <2>4. ChannelsServe'
    BY <1>1, <1>2, <2>1 DEF ChannelsServe
  <2>5. QED
    BY <2>2, <2>3, <2>4
<1>8. QED
  BY <1>4, <1>5, <1>6, <1>7

\* Where an execution goes once it was called.
Onward == {"try", "work", "finish", "close", "done"}

\* An execution moves on, from a place within its life.
LEMMA MovesOn ==
    ASSUME SubAgentInductive, NEW e \in Executions, NEW to,
           e \in Live, to \in Onward, pc' = [pc EXCEPT ![e] = to]
    PROVE  /\ \A f \in Executions : pc'[f] = IF f = e THEN to ELSE pc[f]
           /\ (to # "done" => Live' = Live) /\ (to = "done" => Live' = Live \ {e})
           /\ pc' \in [Executions -> {"idle", "called", "try", "work", "finish", "close", "done"}]
           /\ RunCame /\ RunCame'
<1> USE DEF SubAgentInductive, Onward
<1>0. pc[e] \in {"called", "try", "work", "finish", "close"}
  BY DEF Live, SubAgentTypeOK
<1>1. \A f \in Executions : pc'[f] = IF f = e THEN to ELSE pc[f]
  BY DEF SubAgentTypeOK
<1>2. (to # "done" => Live' = Live) /\ (to = "done" => Live' = Live \ {e})
  BY <1>0, <1>1 DEF Live
<1>3. RunCame
  BY <1>0 DEF NothingBeforeRun
<1>4. RunCame'
  BY <1>0, <1>1, <1>3 DEF RunCame
<1>5. pc' \in [Executions -> {"idle", "called", "try", "work", "finish", "close", "done"}]
  BY DEF SubAgentTypeOK
<1>6. QED
  BY <1>1, <1>2, <1>3, <1>4, <1>5

LEMMA BeginKeeps ==
    ASSUME SubAgentInductive, NEW e \in Executions, EnterRun(e), ~panicked
    PROVE  SubAgentInductive'
<1> USE DEF SubAgentInductive, EnterRun
<1>1. /\ \A f \in Executions : pc'[f] = IF f = e THEN "try" ELSE pc[f]
      /\ e \in Live /\ Live' = Live
      /\ pc' \in [Executions -> {"idle", "called", "try", "work", "finish", "close", "done"}]
      /\ RunCame /\ RunCame'
  <2>1. e \in Live /\ "try" \in Onward /\ pc' = [pc EXCEPT ![e] = "try"]
    BY DEF Live, Onward
  <2>2. QED
    BY <2>1, MovesOn
<1>2. UNCHANGED <<ended, result, err, channelsOpen, added, attemptCtx, retries, answer,
                  overlapped, cancelAccepted, panicked>>
  BY DEF outcomeVars, subAgentHistory
<1>3. SubAgentTypeOK'
  BY <1>1, <1>2 DEF SubAgentTypeOK, State
<1>4. NothingBeforeRun'
  BY <1>1 DEF NothingBeforeRun
<1>5. EmptyBeforeTheEnd' /\ EmptyAnswerNeedsCancel'
  BY <1>1, <1>2 DEF EmptyBeforeTheEnd, EmptyAnswerNeedsCancel, Terminal
<1>6. ASSUME ~overlapped' PROVE OneAtATime' /\ OutcomeMatchesState' /\ ChannelsServe'
  <2>1. ~overlapped
    BY <1>2, <1>6
  <2>2. \A f \in Executions : f # e => pc[f] \in {"idle", "done"}
    BY <1>1, <2>1 DEF OneAtATime, Live
  <2>3. OneAtATime'
    <3>1. \A f, g \in Live' : f = g
      BY <1>1, <2>1 DEF OneAtATime
    <3>2. \A f \in Executions :
             pc'[f] \in {"try", "work", "finish", "close"} => f = e
      BY <1>1, <2>2
    <3>3. pc'[e] = "try" /\ ctx' = e /\ state' = "running"
      BY <1>1
    <3>4. QED
      BY <3>1, <3>2, <3>3 DEF OneAtATime
  <2>4. OutcomeMatchesState'
    BY DEF OutcomeMatchesState, Terminal
  <2>5. ChannelsServe'
    BY <1>1, <1>2, <2>1 DEF ChannelsServe
  <2>6. QED
    BY <2>3, <2>4, <2>5
<1>7. QED
  BY <1>3, <1>4, <1>5, <1>6

\* The steps of an attempt: it begins, succeeds, fails for good, or is made again.
LEMMA AttemptKeeps ==
    ASSUME SubAgentInductive, NEW e \in Executions, ~panicked,
           BeginAttempt(e) \/ AttemptEnds(e)
    PROVE  SubAgentInductive'
<1> USE DEF SubAgentInductive
<1>1. PICK to \in {"try", "work", "finish"} :
         /\ pc' = [pc EXCEPT ![e] = to]
         /\ pc[e] = IF to = "work" THEN "try" ELSE "work"
         /\ panicked' \in {FALSE, ~channelsOpen}
         /\ to # "finish" => result' = result /\ err' = err
         /\ to = "finish" => \/ result' = e /\ err' = "nil"
                             \/ result' = None /\ err' = "failed"
         /\ UNCHANGED <<state, ctx, ended, channelsOpen, added, answer, overlapped,
                        cancelAccepted>>
         /\ attemptCtx' = attemptCtx \/ attemptCtx' = [attemptCtx EXCEPT ![e] = ctx]
         /\ retries' = retries \/ (retries[e] > 0 /\ retries' = [retries EXCEPT ![e] = @ - 1])
  <2>1. CASE BeginAttempt(e)
    BY <2>1, Zenon DEF BeginAttempt, outcomeVars, subAgentHistory
  <2>2. CASE AttemptSucceeds(e)
    BY <2>2, Zenon DEF AttemptSucceeds, StoredResult, subAgentHistory
  <2>3. CASE AttemptFailsForGood(e)
    BY <2>3, Zenon DEF AttemptFailsForGood, subAgentHistory
  <2>4. CASE Retry(e)
    BY <2>4, Zenon DEF Retry, MayRetry, outcomeVars, subAgentHistory
  <2>5. QED
    BY <2>1, <2>2, <2>3, <2>4 DEF AttemptEnds
<1>2. /\ \A f \in Executions : pc'[f] = IF f = e THEN to ELSE pc[f]
      /\ e \in Live /\ Live' = Live
      /\ pc' \in [Executions -> {"idle", "called", "try", "work", "finish", "close", "done"}]
      /\ RunCame /\ RunCame'
  <2>1. e \in Live /\ to \in Onward
    BY <1>1 DEF Live, Onward
  <2>2. QED
    BY <1>1, <2>1, MovesOn
<1>3. SubAgentTypeOK'
  <2>1. attemptCtx' \in [Executions -> Executions \cup {None}]
    BY <1>1 DEF SubAgentTypeOK
  <2>2. retries' \in [Executions -> 0..RetryOnFailure]
    <3>1. CASE retries' = retries
      BY <3>1 DEF SubAgentTypeOK
    <3>2. CASE retries[e] > 0 /\ retries' = [retries EXCEPT ![e] = @ - 1]
      <4>1. PICK n \in Nat : n = RetryOnFailure
        BY ConfigAssumption, Zenon
      <4>2. PICK r \in 0..n : r = retries[e] /\ r > 0
        BY <3>2, <4>1 DEF SubAgentTypeOK
      <4>3. r - 1 \in 0..n
        BY <4>2, SMT
      <4>4. retries' = [retries EXCEPT ![e] = r - 1]
        BY <3>2, <4>2
      <4>5. QED
        BY <4>1, <4>3, <4>4 DEF SubAgentTypeOK
    <3>3. QED
      BY <1>1, <3>1, <3>2
  <2>3. result' \in Executions \cup {None} /\ err' \in Errors
    BY <1>1 DEF SubAgentTypeOK, Errors
  <2>4. panicked' \in BOOLEAN
    BY <1>1, Zenon DEF SubAgentTypeOK
  <2>5. QED
    BY <1>1, <1>2, <2>1, <2>2, <2>3, <2>4 DEF SubAgentTypeOK
<1>4. NothingBeforeRun'
  BY <1>2 DEF NothingBeforeRun
<1>5. EmptyAnswerNeedsCancel'
  BY <1>1 DEF EmptyAnswerNeedsCancel
<1>6. EmptyBeforeTheEnd'
  <2>1. ASSUME result' = None, err' = "nil"
        PROVE  to # "finish" /\ result = None /\ err = "nil"
    BY <1>1, <2>1, NoneAssumption
  <2>2. QED
    BY <1>1, <1>2, <2>1 DEF EmptyBeforeTheEnd
<1>7. ASSUME ~overlapped' PROVE OneAtATime' /\ OutcomeMatchesState' /\ ChannelsServe'
  <2>1. ~overlapped
    BY <1>1, <1>7
  <2>2. \A f \in Executions : f # e => pc[f] \in {"idle", "done"}
    BY <1>2, <2>1 DEF OneAtATime, Live
  <2>3. ctx = e /\ state \in {"running", "cancelled", "paused"}
        /\ (state # "running" => ended[ctx] # "no")
    BY <1>1, <2>1 DEF OneAtATime
  <2>4. OneAtATime'
    <3>1. \A f, g \in Live' : f = g
      BY <1>2, <2>1 DEF OneAtATime
    <3>2. \A f \in Executions :
             pc'[f] \in {"try", "work", "finish", "close"} => f = e
      BY <1>2, <2>2
    <3>3. to = "finish" => IF err' = "nil" THEN result' # None ELSE result' = None /\ err' = "failed"
      BY <1>1, NoneAssumption
    <3>4. QED
      BY <1>1, <1>2, <2>3, <3>1, <3>2, <3>3 DEF OneAtATime
  <2>5. OutcomeMatchesState'
    BY <1>1, <2>3 DEF OutcomeMatchesState, Terminal
  <2>6. ChannelsServe'
    <3>1. OneCallOfRun => channelsOpen
      BY <1>2, <2>1 DEF ChannelsServe
    <3>2. OneCallOfRun => ~panicked'
      BY <1>1, <3>1, Zenon
    <3>3. QED
      BY <1>1, <3>1, <3>2 DEF ChannelsServe
  <2>7. QED
    BY <2>4, <2>5, <2>6
<1>8. QED
  BY <1>3, <1>4, <1>5, <1>6, <1>7

\* The final state of an execution.
LEMMA FinalStateIs ==
    ASSUME SubAgentTypeOK
    PROVE  /\ FinalState \in Terminal \cup {"paused"}
           /\ ctx \in Executions /\ ended[ctx] = "deadline" => FinalState = "timeout"
           /\ ctx \in Executions /\ ended[ctx] = "cancelled" =>
                 FinalState = IF state = "paused" THEN "paused" ELSE "cancelled"
           /\ ctx \in Executions /\ ended[ctx] = "no" =>
                 FinalState = IF err = "nil" THEN "completed" ELSE "failed"
BY DEF FinalState, SubAgentTypeOK, Terminal

LEMMA FinishKeeps ==
    ASSUME SubAgentInductive, NEW e \in Executions, Finish(e), ~panicked
    PROVE  SubAgentInductive'
<1> USE DEF SubAgentInductive, Finish
<1>1. /\ \A f \in Executions : pc'[f] = IF f = e THEN "close" ELSE pc[f]
      /\ e \in Live /\ Live' = Live
      /\ pc' \in [Executions -> {"idle", "called", "try", "work", "finish", "close", "done"}]
      /\ RunCame /\ RunCame'
  <2>1. e \in Live /\ "close" \in Onward /\ pc' = [pc EXCEPT ![e] = "close"]
    BY DEF Live, Onward
  <2>2. QED
    BY <2>1, MovesOn
<1>2. UNCHANGED <<ctx, ended, result, channelsOpen, added, attemptCtx, retries, answer,
                  overlapped, cancelAccepted, panicked>>
  BY DEF outcomeVars, subAgentHistory
<1>3. PICK s \in Terminal \cup {"paused"} : s = FinalState
  BY FinalStateIs
<1>4. state' = s /\ err' = IF s \in {"timeout", "cancelled"} THEN s ELSE err
  BY <1>3
<1>5. SubAgentTypeOK'
  <2>1. state' \in State /\ err' \in Errors
    BY <1>4 DEF SubAgentTypeOK, State, Errors
  <2>2. QED
    BY <1>1, <1>2, <2>1 DEF SubAgentTypeOK
<1>6. NothingBeforeRun'
  BY <1>1 DEF NothingBeforeRun
<1>7. EmptyAnswerNeedsCancel'
  BY <1>2 DEF EmptyAnswerNeedsCancel
<1>8. EmptyBeforeTheEnd'
  <2>1. ~(result = None /\ err = "nil")
    BY DEF EmptyBeforeTheEnd
  <2>2. ~(result' = None /\ err' = "nil")
    BY <1>2, <1>4, <2>1
  <2>3. QED
    BY <2>2 DEF EmptyBeforeTheEnd
<1>9. ASSUME ~overlapped' PROVE OneAtATime' /\ OutcomeMatchesState' /\ ChannelsServe'
  <2>1. ~overlapped
    BY <1>2, <1>9
  <2>2. \A f \in Executions : f # e => pc[f] \in {"idle", "done"}
    BY <1>1, <2>1 DEF OneAtATime, Live
  <2>3. ctx = e /\ state \in {"running", "cancelled", "paused"}
        /\ (state # "running" => ended[ctx] # "no")
        /\ IF err = "nil" THEN result # None ELSE result = None /\ err = "failed"
    BY <2>1 DEF OneAtATime
  <2>4. OneAtATime'
    <3>1. \A f, g \in Live' : f = g
      BY <1>1, <2>1 DEF OneAtATime
    <3>2. \A f \in Executions :
             /\ pc'[f] \in {"try", "work", "finish", "close"} => f = e
             /\ pc'[f] \notin {"try", "work", "finish"}
      BY <1>1, <2>2
    <3>3. QED
      BY <1>2, <2>3, <3>1, <3>2 DEF OneAtATime
  <2>5. OutcomeMatchesState'
    <3>1. \A f \in Executions : pc'[f] # "work"
      BY <1>1, <2>2
    <3>2. /\ s = "completed" => ended[ctx] = "no" /\ err = "nil"
          /\ s = "failed" => ended[ctx] = "no" /\ err # "nil"
      BY <1>3, <2>3, FinalStateIs DEF SubAgentTypeOK
    <3>3. QED
      BY <1>2, <1>4, <2>3, <3>1, <3>2 DEF OutcomeMatchesState
  <2>6. ChannelsServe'
    BY <1>1, <1>2, <2>1 DEF ChannelsServe
  <2>7. QED
    BY <2>4, <2>5, <2>6
<1>10. QED
  BY <1>5, <1>6, <1>7, <1>8, <1>9

\* The contexts once that of sa.ctx has been cancelled.
LEMMA ContextsCancelled ==
    ASSUME SubAgentTypeOK
    PROVE  /\ ContextsAfterCancel \in [Executions -> {"no", "cancelled", "deadline"}]
           /\ ctx \in Executions => ContextsAfterCancel[ctx] # "no"
           /\ \A f \in Executions : ended[f] # "no" => ContextsAfterCancel[f] = ended[f]
BY DEF ContextsAfterCancel, SubAgentTypeOK

LEMMA CloseKeeps ==
    ASSUME SubAgentInductive, NEW e \in Executions, Close(e), ~panicked
    PROVE  SubAgentInductive'
<1>1. /\ \A f \in Executions : pc'[f] = IF f = e THEN "done" ELSE pc[f]
      /\ e \in Live /\ Live' = Live \ {e}
      /\ pc' \in [Executions -> {"idle", "called", "try", "work", "finish", "close", "done"}]
      /\ RunCame /\ RunCame'
  <2>1. e \in Live /\ "done" \in Onward /\ pc' = [pc EXCEPT ![e] = "done"]
    BY DEF Close, Live, Onward
  <2>2. QED
    BY <2>1, MovesOn
<1> USE DEF SubAgentInductive, Close
<1>2. UNCHANGED <<state, ctx, result, err, added, attemptCtx, retries, answer,
                  overlapped, cancelAccepted>>
  BY DEF outcomeVars, subAgentHistory
<1>3. SubAgentTypeOK'
  <2>1. ended' \in [Executions -> {"no", "cancelled", "deadline"}]
    BY ContextsCancelled, Zenon DEF SubAgentTypeOK
  <2>2. panicked' \in BOOLEAN /\ channelsOpen' \in BOOLEAN
    BY Zenon
  <2>3. QED
    BY <1>1, <1>2, <2>1, <2>2 DEF SubAgentTypeOK
<1>4. NothingBeforeRun'
  BY <1>1 DEF NothingBeforeRun
<1>5. EmptyBeforeTheEnd' /\ EmptyAnswerNeedsCancel'
  BY <1>1, <1>2 DEF EmptyBeforeTheEnd, EmptyAnswerNeedsCancel
<1>6. ASSUME ~overlapped' PROVE OneAtATime' /\ OutcomeMatchesState' /\ ChannelsServe'
  <2>1. ~overlapped
    BY <1>2, <1>6
  <2>2. Live' = {} /\ \A f \in Executions : pc'[f] \in {"idle", "done"}
    BY <1>1, <2>1 DEF OneAtATime, Live
  <2>3. OneAtATime'
    BY <2>2 DEF OneAtATime
  <2>4. OutcomeMatchesState'
    BY <1>2, <2>1, <2>2 DEF OutcomeMatchesState
  <2>5. ChannelsServe'
    <3>1. OneCallOfRun => channelsOpen
      BY <1>1, <2>1 DEF ChannelsServe
    <3>2. OneCallOfRun => ~panicked'
      BY <3>1, Zenon
    <3>3. QED
      BY <2>2, <3>2 DEF ChannelsServe
  <2>6. QED
    BY <2>3, <2>4, <2>5
<1>7. QED
  BY <1>3, <1>4, <1>5, <1>6

-----------------------------------------------------------------------------
(* The other goroutines *)

\* Cancel and Pause end the context of sa.ctx.
LEMMA CancelOrPauseKeeps ==
    ASSUME SubAgentInductive, Cancel \/ Pause, ~panicked
    PROVE  SubAgentInductive'
<1> USE DEF SubAgentInductive, Cancel, Pause
<1>1. UNCHANGED <<ctx, result, err, channelsOpen, added, pc, attemptCtx, retries, answer,
                  overlapped, panicked>>
      /\ ended' = ContextsAfterCancel /\ state = "running"
  BY DEF outcomeVars, runVars, subAgentHistory
<1>2. /\ state' \in {"cancelled", "paused"}
      /\ cancelAccepted' = cancelAccepted \/ cancelAccepted' = TRUE
      /\ state' = "cancelled" => cancelAccepted'
      /\ cancelAccepted => cancelAccepted'
  BY DEF subAgentHistory
<1>3. SubAgentTypeOK'
  <2>1. cancelAccepted' \in BOOLEAN
    BY <1>2, Zenon DEF SubAgentTypeOK
  <2>2. state' \in State
    BY <1>2 DEF State, Terminal
  <2>3. QED
    BY <1>1, <2>1, <2>2, ContextsCancelled DEF SubAgentTypeOK
<1>4. NothingBeforeRun'
  <2>1. RunCame
    BY <1>1 DEF NothingBeforeRun
  <2>2. RunCame'
    BY <1>1, <2>1 DEF RunCame
  <2>3. QED
    BY <2>2 DEF NothingBeforeRun
<1>5. EmptyBeforeTheEnd'
  BY <1>1, <1>2 DEF EmptyBeforeTheEnd, Terminal
<1>6. EmptyAnswerNeedsCancel'
  BY <1>1, <1>2 DEF EmptyAnswerNeedsCancel
<1>7. Live' = Live
  BY <1>1 DEF Live
<1>8. ASSUME ~overlapped' PROVE OneAtATime' /\ OutcomeMatchesState' /\ ChannelsServe'
  <2>1. OneAtATime'
    BY <1>1, <1>2, <1>7, <1>8, ContextsCancelled DEF OneAtATime
  <2>2. OutcomeMatchesState'
    BY <1>2 DEF OutcomeMatchesState, Terminal
  <2>3. ChannelsServe'
    BY <1>1, <1>7, <1>8 DEF ChannelsServe
  <2>4. QED
    BY <2>1, <2>2, <2>3
<1>9. QED
  BY <1>3, <1>4, <1>5, <1>6, <1>8

LEMMA ContextExpiresKeeps ==
    ASSUME SubAgentInductive, NEW e \in Executions, ContextExpires(e), ~panicked
    PROVE  SubAgentInductive'
<1> USE DEF SubAgentInductive, ContextExpires
<1>1. UNCHANGED <<state, ctx, result, err, channelsOpen, added, pc, attemptCtx, retries, answer,
                  overlapped, cancelAccepted, panicked>>
  BY DEF outcomeVars, runVars, subAgentHistory
<1>2. PICK how \in {"cancelled", "deadline"} : ended' = [ended EXCEPT ![e] = how]
  OBVIOUS
<1>3. SubAgentTypeOK'
  BY <1>1, <1>2 DEF SubAgentTypeOK
<1>4. NothingBeforeRun'
  BY <1>1 DEF NothingBeforeRun, RunCame
<1>5. EmptyBeforeTheEnd' /\ EmptyAnswerNeedsCancel'
  BY <1>1 DEF EmptyBeforeTheEnd, EmptyAnswerNeedsCancel
<1>6. Live' = Live
  BY <1>1 DEF Live
<1>7. ASSUME ~overlapped' PROVE OneAtATime' /\ OutcomeMatchesState' /\ ChannelsServe'
  <2>1. \A f \in Executions : ended[f] # "no" => ended'[f] # "no"
    BY <1>2 DEF SubAgentTypeOK
  <2>2. OneAtATime'
    BY <1>1, <1>6, <1>7, <2>1 DEF OneAtATime
  <2>3. OutcomeMatchesState' /\ ChannelsServe'
    BY <1>1, <1>6, <1>7 DEF OutcomeMatchesState, ChannelsServe
  <2>4. QED
    BY <2>2, <2>3
<1>8. QED
  BY <1>3, <1>4, <1>5, <1>7

\* A caller of Wait is answered, or nothing happens.
LEMMA WaitKeeps ==
    ASSUME SubAgentInductive, (\E w \in Waiters : WaitReturns(w)) \/ UNCHANGED subAgentVars
    PROVE  SubAgentInductive'
<1> USE DEF SubAgentInductive
<1>1. UNCHANGED <<state, ctx, ended, result, err, channelsOpen, added, pc, attemptCtx, retries,
                  overlapped, cancelAccepted, panicked>>
  BY DEF WaitReturns, subAgentVars, outcomeVars, runVars, subAgentHistory
<1>2. answer' \in [Waiters -> {"waiting", "result", "error", "nothing"}]
      /\ \A w \in Waiters : answer'[w] = "nothing" => cancelAccepted
  <2>1. CASE UNCHANGED subAgentVars
    BY <2>1 DEF subAgentVars, SubAgentTypeOK, EmptyAnswerNeedsCancel
  <2>2. ASSUME NEW w \in Waiters, WaitReturns(w)
        PROVE  /\ answer' \in [Waiters -> {"waiting", "result", "error", "nothing"}]
               /\ \A v \in Waiters : answer'[v] = "nothing" => cancelAccepted
    <3>1. PICK a \in {"result", "error", "nothing"} :
             /\ answer' = [answer EXCEPT ![w] = a]
             /\ a = "nothing" => err = "nil" /\ result = None
      BY <2>2 DEF WaitReturns
    <3>2. state \in Terminal
      BY <2>2 DEF WaitReturns
    <3>3. a = "nothing" => cancelAccepted
      BY <3>1, <3>2 DEF EmptyBeforeTheEnd
    <3>4. QED
      BY <3>1, <3>3 DEF SubAgentTypeOK, EmptyAnswerNeedsCancel
  <2>3. QED
    BY <2>1, <2>2
<1>3. SubAgentTypeOK' /\ EmptyAnswerNeedsCancel'
  BY <1>1, <1>2 DEF SubAgentTypeOK, EmptyAnswerNeedsCancel
<1>4. NothingBeforeRun' /\ EmptyBeforeTheEnd'
  BY <1>1 DEF NothingBeforeRun, RunCame, EmptyBeforeTheEnd
<1>5. Live' = Live
  BY <1>1 DEF Live
<1>6. ASSUME ~overlapped' PROVE OneAtATime' /\ OutcomeMatchesState' /\ ChannelsServe'
  BY <1>1, <1>5, <1>6 DEF OneAtATime, OutcomeMatchesState, ChannelsServe
<1>7. QED
  BY <1>3, <1>4, <1>6

LEMMA SubAgentStepKeeps ==
    ASSUME SubAgentInductive, [SubAgentNext]_subAgentVars
    PROVE  SubAgentInductive'
<1>1. CASE UNCHANGED subAgentVars
  BY <1>1, WaitKeeps
<1>2. CASE SubAgentNext
  <2>1. ~panicked
    BY <1>2 DEF SubAgentNext
  <2>2. ASSUME NEW e \in Executions, Start(e) \/ Resume(e) \/ Run(e) \/ ContextExpires(e)
        PROVE  SubAgentInductive'
    BY <2>1, <2>2, StartKeeps, ResumeKeeps, BeginKeeps, AttemptKeeps, FinishKeeps, CloseKeeps,
       ContextExpiresKeeps, Zenon DEF Run
  <2>3. CASE Cancel \/ Pause
    BY <2>1, <2>3, CancelOrPauseKeeps
  <2>4. CASE \E w \in Waiters : WaitReturns(w)
    BY <2>4, WaitKeeps
  <2>5. QED
    BY <1>2, <2>2, <2>3, <2>4, Zenon DEF SubAgentNext
<1>3. QED
  BY <1>1, <1>2

\* What a step does to a state that is settled.
LEMMA SettledStep ==
    ASSUME SubAgentInductive, [SubAgentNext]_subAgentVars,
           state \in Terminal \cup {"paused"}, state' # state, ~overlapped
    PROVE  \/ \E e \in Executions : Resume(e)
           \/ \E e \in Executions : pc[e] = "called" /\ EnterRun(e)
           \/ state' = "timeout" /\ ended[ctx] = "deadline"
<1> USE DEF SubAgentInductive
<1>1. SubAgentNext
  BY DEF subAgentVars
<1>2. ASSUME NEW e \in Executions, Start(e) \/ Resume(e) \/ Run(e) \/ ContextExpires(e)
      PROVE  \/ Resume(e) \/ (pc[e] = "called" /\ EnterRun(e))
             \/ state' = "timeout" /\ ended[ctx] = "deadline"
  <2>1. Resume(e) \/ EnterRun(e) \/ Finish(e)
    BY <1>2 DEF Start, Run, BeginAttempt, AttemptEnds, AttemptSucceeds, AttemptFailsForGood,
                Retry, Close, ContextExpires
  <2>2. CASE EnterRun(e)
    BY <2>2 DEF EnterRun
  <2>3. CASE Finish(e)
    <3>1. ctx = e /\ ended[ctx] # "no" /\ state \in {"cancelled", "paused"}
      BY <2>3 DEF Finish, OneAtATime, Terminal
    <3>2. state' = FinalState
      BY <2>3 DEF Finish
    <3>3. QED
      BY <3>1, <3>2, FinalStateIs DEF SubAgentTypeOK
  <2>4. QED
    BY <2>1, <2>2, <2>3
<1>3. ~Cancel /\ ~Pause /\ ~\E w \in Waiters : WaitReturns(w)
  BY DEF Cancel, Pause, WaitReturns, Terminal
<1>4. QED
  BY <1>1, <1>2, <1>3, Zenon DEF SubAgentNext

LEMMA InductiveIsSound ==
    SubAgentInductive =>
        SubAgentTypeOK /\ PanicNeedsOverlap /\ OutcomeMatchesState /\ EmptyAnswerNeedsCancel
<1> SUFFICES ASSUME SubAgentInductive
             PROVE  SubAgentTypeOK /\ PanicNeedsOverlap /\ OutcomeMatchesState
                    /\ EmptyAnswerNeedsCancel
  OBVIOUS
<1>1. PanicNeedsOverlap
  BY DEF SubAgentInductive, PanicNeedsOverlap, ChannelsServe
<1>2. OutcomeMatchesState
  BY Zenon DEF SubAgentInductive, OutcomeMatchesState
<1>3. QED
  BY <1>1, <1>2 DEF SubAgentInductive

\* The life of a subagent (Run, Cancel, Pause, Resume, Wait) is sound for any
\* number of executions and callers: with one call of Run, no channel is used
\* after it was closed unless two executions overlapped; the final state fits
\* the result and the error; an empty answer needs a Cancel; and a settled state
\* stays until Resume.
THEOREM SubAgentsAreSound == SubAgentSpec => SubAgentSafe
<1>1. SubAgentInit => SubAgentInductive
  BY InitSound
<1>2. SubAgentInductive /\ [SubAgentNext]_subAgentVars => SubAgentInductive'
  BY SubAgentStepKeeps
<1>3. SubAgentInductive =>
        SubAgentTypeOK /\ PanicNeedsOverlap /\ OutcomeMatchesState /\ EmptyAnswerNeedsCancel
  BY InductiveIsSound
<1>4. SubAgentInductive /\ [SubAgentNext]_subAgentVars =>
        [(state \in Terminal \cup {"paused"} /\ state' # state) =>
           \/ \E e \in Executions : Resume(e)
           \/ \E e \in Executions : pc[e] = "called" /\ EnterRun(e)
           \/ state' = "timeout" /\ ended[ctx] = "deadline"
           \/ overlapped]_subAgentVars
  BY SettledStep
<1>5. QED
  BY <1>1, <1>2, <1>3, <1>4, PTL DEF SubAgentSpec, SubAgentSafe, SettledStays

-----------------------------------------------------------------------------
(* The Operator's terminal sessions *)

OperatorTyped ==
    /\ child \in [PtySessions -> {"none", "running", "exited", "reaped"}]
    /\ exitCode \in [PtySessions -> {"zero", "other"}]
    /\ said \in [PtySessions -> Nat] /\ captured \in [PtySessions -> Nat]
    /\ terminal \in [PtySessions -> BOOLEAN] /\ ptyFile \in [PtySessions -> BOOLEAN]
    /\ capturer \in [PtySessions -> {"off", "next", "reading", "failing", "gone"}]
    /\ finished \in [PtySessions -> BOOLEAN]
    /\ errText \in [PtySessions -> {"none", "read", "exit"}]
    /\ endIsEof \in BOOLEAN

\* A session has its terminal from the start of its child to the end that
\* waitProcess marks, and the exit of its child is told by then.
SessionFits(s) ==
    /\ child[s] = "none" => capturer[s] = "off" /\ ~finished[s]
    /\ child[s] # "none" => (terminal[s] <=> ~finished[s])
    /\ finished[s] => child[s] = "reaped" /\ (exitCode[s] = "other" => errText[s] # "none")

\* The reader has left with all the output of a child that is gone, or has
\* reported that it could not read.
ReaderLeftFits(s) ==
    capturer[s] = "gone" =>
        \/ errText[s] = "read"
        \/ endIsEof /\ captured[s] = said[s] /\ child[s] \in {"exited", "reaped"}

OperatorInductive ==
    OperatorTyped /\ \A s \in PtySessions : SessionFits(s) /\ ReaderLeftFits(s)

LEMMA OperatorStarts == OperatorInit => OperatorInductive
  BY DEF OperatorInit, OperatorInductive, OperatorTyped, SessionFits, ReaderLeftFits

\* What changes of a session, and what of no other.
LEMMA TerminalStep ==
    ASSUME OperatorInductive, NEW s \in PtySessions,
           OperatorTyped', SessionFits(s)', ReaderLeftFits(s)',
           \A r \in PtySessions \ {s} :
               /\ child'[r] = child[r] /\ exitCode'[r] = exitCode[r] /\ said'[r] = said[r]
               /\ captured'[r] = captured[r] /\ terminal'[r] = terminal[r]
               /\ capturer'[r] = capturer[r] /\ finished'[r] = finished[r] /\ errText'[r] = errText[r],
           endIsEof' = endIsEof
    PROVE  OperatorInductive'
  BY DEF OperatorInductive, SessionFits, ReaderLeftFits

LEMMA OperatorSteps ==
    ASSUME OperatorInductive, [OperatorNext]_ptyVars
    PROVE  OperatorInductive'
<1>1. ASSUME NEW u \in ToolUsers, NEW s \in PtySessions, NEW prompt \in BOOLEAN, StartSession(u, s, prompt)
      PROVE  OperatorInductive'
  BY <1>1, TerminalStep DEF StartSession, OperatorInductive, OperatorTyped, SessionFits, ReaderLeftFits
<1>2. ASSUME NEW s \in PtySessions, ChildPrints(s) PROVE OperatorInductive'
  BY <1>2, TerminalStep DEF ChildPrints, OperatorInductive, OperatorTyped, SessionFits, ReaderLeftFits
<1>3. ASSUME NEW s \in PtySessions, ChildExits(s) PROVE OperatorInductive'
  BY <1>3, TerminalStep DEF ChildExits, Ends, OperatorInductive, OperatorTyped, SessionFits, ReaderLeftFits
<1>4. ASSUME NEW s \in PtySessions, LoadFile(s) PROVE OperatorInductive'
  BY <1>4, TerminalStep DEF LoadFile, ReaderStays, OperatorInductive, OperatorTyped, SessionFits, ReaderLeftFits
<1>5. ASSUME NEW s \in PtySessions, ReadOutput(s) PROVE OperatorInductive'
  BY <1>5, TerminalStep DEF ReadOutput, ReaderStays, OperatorInductive, OperatorTyped, SessionFits, ReaderLeftFits
<1>6. ASSUME NEW s \in PtySessions, CaptureEnds(s) PROVE OperatorInductive'
  BY <1>6, TerminalStep DEF CaptureEnds, AfterLastRead, ReaderStays, OperatorInductive, OperatorTyped, SessionFits, ReaderLeftFits
<1>7. ASSUME NEW s \in PtySessions, SetError(s) PROVE OperatorInductive'
  BY <1>7, TerminalStep DEF SetError, ReaderStays, OperatorInductive, OperatorTyped, SessionFits, ReaderLeftFits
<1>8. ASSUME NEW s \in PtySessions, Reap(s) PROVE OperatorInductive'
  BY <1>8, TerminalStep DEF Reap, OperatorInductive, OperatorTyped, SessionFits, ReaderLeftFits
<1>9. ASSUME NEW s \in PtySessions, FinishSession(s) PROVE OperatorInductive'
  <2>1. /\ child[s] = "reaped" /\ finished' = [finished EXCEPT ![s] = TRUE]
        /\ errText' = [errText EXCEPT ![s] = ErrorOfExit(s)]
        /\ terminal' = [terminal EXCEPT ![s] = FALSE] /\ ptyFile' = [ptyFile EXCEPT ![s] = FALSE]
        /\ UNCHANGED <<child, exitCode, said, captured, capturer, endIsEof>>
    BY <1>9 DEF FinishSession
  <2>2. /\ ErrorOfExit(s) \in {"none", "read", "exit"}
        /\ errText[s] = "read" => ErrorOfExit(s) = "read"
        /\ exitCode[s] = "other" => ErrorOfExit(s) # "none"
    BY DEF ErrorOfExit, OperatorInductive, OperatorTyped
  <2>3. OperatorTyped'
    BY <2>1, <2>2 DEF OperatorInductive, OperatorTyped
  <2>4. /\ finished'[s] = TRUE /\ terminal'[s] = FALSE /\ errText'[s] = ErrorOfExit(s)
        /\ child'[s] = "reaped" /\ exitCode'[s] = exitCode[s]
    BY <2>1 DEF OperatorInductive, OperatorTyped
  <2>5. SessionFits(s)'
    BY <2>1, <2>2, <2>3, <2>4 DEF SessionFits, OperatorTyped
  <2>6. ReaderLeftFits(s)'
    BY <2>1, <2>2, <2>4 DEF OperatorInductive, ReaderLeftFits
  <2>7. QED
    BY <2>1, <2>3, <2>5, <2>6, TerminalStep DEF OperatorInductive, OperatorTyped
<1>10. ASSUME NEW u \in ToolUsers, NEW s \in PtySessions, NEW do, UseTool(u, s, do) PROVE OperatorInductive'
  BY <1>10 DEF UseTool, ToolStays, OperatorInductive, OperatorTyped, SessionFits, ReaderLeftFits
<1>11. ASSUME NEW u \in ToolUsers, LookBeforeTyping(u) \/ LookBeforeSignal(u) PROVE OperatorInductive'
  BY <1>11 DEF LookBeforeTyping, LookBeforeSignal, ToolStays, OperatorInductive, OperatorTyped, SessionFits, ReaderLeftFits
<1>12. ASSUME NEW u \in ToolUsers, Type(u) PROVE OperatorInductive'
  <2>1. PICK s : s = userPc[u].session
    OBVIOUS
  <2>2. /\ (said' = [said EXCEPT ![s] = @ + 1] /\ child[s] = "running") \/ UNCHANGED said
        /\ UNCHANGED <<child, exitCode, captured, terminal, ptyFile, capturer, finished, errText, endIsEof>>
    BY <1>12, <2>1 DEF Type
  <2>3. QED
    BY <2>2 DEF OperatorInductive, OperatorTyped, SessionFits, ReaderLeftFits
<1>13. ASSUME NEW u \in ToolUsers, SendSignal(u) PROVE OperatorInductive'
  <2>1. PICK s : s = userPc[u].session
    OBVIOUS
  <2>2. /\ (child[s] = "running" /\ Ends(s, "other")) \/ UNCHANGED <<child, exitCode>>
        /\ UNCHANGED <<said, captured, terminal, ptyFile, capturer, finished, errText, endIsEof>>
    BY <1>13, <2>1 DEF SendSignal, ToolStays
  <2>3. QED
    BY <2>2 DEF Ends, OperatorInductive, OperatorTyped, SessionFits, ReaderLeftFits
<1>14. CASE UNCHANGED ptyVars
  BY <1>14 DEF ptyVars, OperatorInductive, OperatorTyped, SessionFits, ReaderLeftFits
<1>15. QED
  BY <1>1, <1>2, <1>3, <1>4, <1>5, <1>6, <1>7, <1>8, <1>9, <1>10, <1>11, <1>12, <1>13, <1>14
  DEF OperatorNext, GoroutineStep

\* No step takes the end or the error of a session back.
LEMMA EndsStay ==
    ASSUME OperatorInductive, [OperatorNext]_ptyVars, NEW s \in PtySessions
    PROVE  /\ finished[s] => finished'[s]
           /\ errText[s] # "none" => errText'[s] # "none"
<1>1. ASSUME NEW r \in PtySessions, FinishSession(r)
      PROVE  /\ finished[s] => finished'[s]
             /\ errText[s] # "none" => errText'[s] # "none"
  BY <1>1 DEF FinishSession, ErrorOfExit, OperatorInductive, OperatorTyped
<1>2. ASSUME NEW r \in PtySessions, SetError(r)
      PROVE  /\ finished[s] => finished'[s]
             /\ errText[s] # "none" => errText'[s] # "none"
  BY <1>2 DEF SetError, ReaderStays, OperatorInductive, OperatorTyped
<1>3. CASE UNCHANGED <<finished, errText>>
  BY <1>3
<1>4. \/ UNCHANGED <<finished, errText>>
      \/ \E r \in PtySessions : FinishSession(r) \/ SetError(r)
  BY DEF OperatorNext, GoroutineStep, StartSession, ChildPrints, ChildExits, LoadFile, ReadOutput,
         CaptureEnds, ReaderStays, Reap, UseTool, ToolStays, LookBeforeTyping, Type,
         LookBeforeSignal, SendSignal, ptyVars
<1>5. QED
  BY <1>1, <1>2, <1>3, <1>4

\* What a session of the Operator shows is true: all of the output if it says
\* completed, an error if output was lost, and never a way back
\* (operator_sessions.go:158-233).
THEOREM OperatorSessionsAreSound == OperatorSpec => OperatorSafe
<1>1. OperatorInductive => CompletedIsComplete /\ LossIsReported
  <2> SUFFICES ASSUME OperatorInductive, NEW s \in PtySessions, capturer[s] = "gone"
               PROVE  /\ Status(s) = "completed" => endIsEof /\ captured[s] = said[s] /\ exitCode[s] = "zero"
                      /\ captured[s] < said[s] => errText[s] = "read"
    BY DEF CompletedIsComplete, LossIsReported
  <2>1. /\ SessionFits(s) /\ ReaderLeftFits(s) /\ captured[s] \in Nat /\ said[s] \in Nat
        /\ exitCode[s] \in {"zero", "other"}
    BY DEF OperatorInductive, OperatorTyped
  <2>2. QED
    BY <2>1 DEF SessionFits, ReaderLeftFits, Status
<1>2. OperatorInductive /\ [OperatorNext]_ptyVars => StatusMovesOn
  <2> SUFFICES ASSUME OperatorInductive, [OperatorNext]_ptyVars, NEW s \in PtySessions
               PROVE  /\ Status(s) # "running" => Status(s)' # "running"
                      /\ Status(s) = "failed" => Status(s)' = "failed"
    BY DEF StatusMovesOn
  <2>1. QED
    BY EndsStay DEF Status
<1>3. QED
  BY OperatorStarts, OperatorSteps, <1>1, <1>2, PTL DEF OperatorSpec, OperatorSafe
=============================================================================
