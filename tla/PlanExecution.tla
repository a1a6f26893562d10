---------------------------- MODULE PlanExecution ----------------------------
(***************************************************************************)
(* Plans of pkg/agent: the planner makes and revises them, the executor    *)
(* runs their steps in order (executor.go), and the agent's database keeps *)
(* them as they were before an execution and as they are after it.         *)
(*                                                                         *)
(* Each runner is a process with a copy of its own (the commands of        *)
(* agentgo agent, Service.Execute).  A result is the number of the         *)
(* execution that produced it; an argument that refers to the output of    *)
(* the step before is a placeholder, 0, until a result is put in its place.*)
(***************************************************************************)
EXTENDS Integers

CONSTANTS
    PlanIds, PlanRunners,
    PlanSize,        \* steps of a plan
    Dependencies,    \* what steps may depend on: functions from steps to sets of steps
    RefersBack,      \* the steps with an argument {{PREVIOUS_OUTPUT}}
    MaxExecutions, MaxSaveFaults,
    NoPlan

ASSUME PlanSizeAssumption ==
    PlanSize \in Nat /\ MaxExecutions \in Nat /\ MaxSaveFaults \in Nat
ASSUME DependenciesAssumption == Dependencies \subseteq [1..PlanSize -> SUBSET (1..PlanSize)]
ASSUME RefersBackAssumption == RefersBack \subseteq 1..PlanSize

VARIABLES
    storedPlan,      \* rows of agent_plans
    execution,       \* what each runner executes: NoPlan or its copy
    planExecutions,  \* executions begun so far
    lastOutcome,     \* what the last execution answered, with its copy
    saveFaults

planVars == <<storedPlan, execution, planExecutions, lastOutcome, saveFaults>>

PlanStep == 1..PlanSize
NoNeeds  == [i \in PlanStep |-> {}]
StepRow  == [status : {"pending", "completed", "failed"}, tool : {"known", "unknown"},
             result : 0..MaxExecutions, argument : 0..MaxExecutions, error : BOOLEAN]
Plan     == [status : {"pending", "running", "completed", "failed"},
             revised : BOOLEAN, needs : Dependencies \cup {NoNeeds}, steps : [PlanStep -> StepRow]]

\* An execution: the runner's copy of the plan, and the row as it was loaded.
Execution == [id : PlanIds, plan : Plan, number : 1..MaxExecutions, at : 1..PlanSize + 1,
              loaded : Plan]
Outcome   == [plan : Plan, number : 1..MaxExecutions, loaded : Plan,
              answer : {"not saved", "success", "errors"}]

ASSUME NoPlanAssumption == NoPlan \notin Plan \cup Execution \cup Outcome

PlanTypeOK ==
    /\ storedPlan \in [PlanIds -> Plan \cup {NoPlan}]
    /\ execution \in [PlanRunners -> Execution \cup {NoPlan}]
    /\ lastOutcome \in Outcome \cup {NoPlan}
    /\ planExecutions \in 0..MaxExecutions /\ saveFaults \in 0..MaxSaveFaults

PlanExecutionInit ==
    /\ storedPlan = [q \in PlanIds |-> NoPlan]
    /\ execution = [r \in PlanRunners |-> NoPlan]
    /\ planExecutions = 0
    /\ lastOutcome = NoPlan
    /\ saveFaults = 0

-----------------------------------------------------------------------------
(* Plans are made and revised *)

NewStep(tool) ==
    [status |-> "pending", tool |-> tool, result |-> 0, argument |-> 0, error |-> FALSE]

\* Plan puts a tool that exists in the place of one the model invented;
\* PlanWithFallback makes a plan of its own when the model fails.  Neither
\* says what a step depends on; a caller's plan may.
MakePlan(q) ==
    /\ storedPlan[q] = NoPlan
    /\ \E needs \in Dependencies :
           storedPlan' = [storedPlan EXCEPT ![q] =
               [status |-> "pending", revised |-> FALSE, needs |-> needs,
                steps  |-> [i \in PlanStep |-> NewStep("known")]]]
    /\ UNCHANGED <<execution, planExecutions, lastOutcome, saveFaults>>

\* RevisePlan asks for all steps anew, and takes the tools as they are named.
\* The plan revised stays as it is.
RevisePlan(q, revised) ==
    /\ storedPlan[q] # NoPlan /\ storedPlan[revised] = NoPlan
    /\ \E tools \in [PlanStep -> {"known", "unknown"}] :
           storedPlan' = [storedPlan EXCEPT ![revised] =
               [status |-> "pending", revised |-> TRUE, needs |-> NoNeeds,
                steps  |-> [i \in PlanStep |-> NewStep(tools[i])]]]
    /\ UNCHANGED <<execution, planExecutions, lastOutcome, saveFaults>>

-----------------------------------------------------------------------------
(* A plan is executed *)

\* GetPlan and the head of ExecutePlan; the row does not say it is running.
BeginExecution(r, q) ==
    /\ execution[r] = NoPlan /\ storedPlan[q] # NoPlan
    /\ planExecutions < MaxExecutions
    /\ planExecutions' = planExecutions + 1
    /\ execution' = [execution EXCEPT ![r] =
           [id |-> q, plan |-> [storedPlan[q] EXCEPT !.status = "running"],
            number |-> planExecutions', at |-> 1, loaded |-> storedPlan[q]]]
    /\ UNCHANGED <<storedPlan, lastOutcome, saveFaults>>

\* The statuses are those of the copy: of this execution, or of an earlier one
\* for the steps it has not come to.
DependenciesSatisfied(x, i) ==
    \A d \in x.plan.needs[i] : x.plan.steps[d].status = "completed"

Wrong_OwnResult(x, i) ==
    IF i \in RefersBack /\ i > 1 /\ x.plan.steps[i].argument = 0
         /\ x.plan.steps[i - 1].status = "completed"
    THEN x.plan.steps[i].result
    ELSE x.plan.steps[i].argument

\* preprocessArguments writes into the step itself: what it put in once stays,
\* and there is no placeholder left at the next execution.
Preprocessed(x, i) ==
    IF i \in RefersBack /\ i > 1 /\ x.plan.steps[i].argument = 0
         /\ x.plan.steps[i - 1].status = "completed"
    THEN x.plan.steps[i - 1].result
    ELSE x.plan.steps[i].argument

StepIs(r, row) ==
    execution' = [execution EXCEPT ![r].plan.steps[execution[r].at] = row, ![r].at = @ + 1]

BlockedStep(r) ==
    LET x == execution[r] IN
    /\ x # NoPlan
    /\ x.at \in PlanStep /\ ~DependenciesSatisfied(x, x.at)
    /\ StepIs(r, [x.plan.steps[x.at] EXCEPT !.status = "failed", !.error = TRUE])
    /\ UNCHANGED <<storedPlan, planExecutions, lastOutcome, saveFaults>>

\* ExecuteStep: a result of an earlier execution outlives a failure, and an
\* error outlives a success.
ExecutePlanStep(r, ok) ==
    LET x == execution[r]  row == [x.plan.steps[x.at] EXCEPT !.argument = Preprocessed(x, x.at)] IN
    /\ x # NoPlan
    /\ x.at \in PlanStep /\ DependenciesSatisfied(x, x.at)
    /\ ok => row.tool = "known"
    /\ StepIs(r, IF ok THEN [row EXCEPT !.status = "completed", !.result = x.number]
                       ELSE [row EXCEPT !.status = "failed", !.error = TRUE])
    /\ UNCHANGED <<storedPlan, planExecutions, lastOutcome, saveFaults>>

StepsThat(plan, status) == {i \in PlanStep : plan.steps[i].status = status}

\* "Partial success" completes the plan.
StatusAfterSteps(plan) ==
    IF StepsThat(plan, "failed") = {} \/ StepsThat(plan, "completed") # {} THEN "completed" ELSE "failed"

\* The end of ExecutePlan, the save, and what the caller is told.
EndExecution(r, saved) ==
    LET x == execution[r]  done == [x.plan EXCEPT !.status = StatusAfterSteps(x.plan)] IN
    /\ x # NoPlan
    /\ x.at = PlanSize + 1
    /\ IF saved THEN storedPlan' = [storedPlan EXCEPT ![x.id] = done] /\ UNCHANGED saveFaults
                ELSE saveFaults < MaxSaveFaults /\ saveFaults' = saveFaults + 1 /\ UNCHANGED storedPlan
    /\ execution' = [execution EXCEPT ![r] = NoPlan]
    /\ lastOutcome' = [plan |-> done, number |-> x.number, loaded |-> x.loaded,
                       answer |-> CASE ~saved -> "not saved"
                                    [] StepsThat(done, "failed") = {} -> "success"
                                    [] OTHER -> "errors"]
    /\ UNCHANGED planExecutions

\* The process is killed: the row is as it was before the execution.
RunnerKilled(r) ==
    /\ execution[r] # NoPlan
    /\ execution' = [execution EXCEPT ![r] = NoPlan]
    /\ UNCHANGED <<storedPlan, planExecutions, lastOutcome, saveFaults>>

PlanExecutionNext ==
    \/ \E q \in PlanIds : MakePlan(q) \/ \E p \in PlanIds : RevisePlan(p, q)
    \/ \E r \in PlanRunners :
           \/ \E q \in PlanIds : BeginExecution(r, q)
           \/ BlockedStep(r) \/ RunnerKilled(r)
           \/ \E ok \in BOOLEAN : ExecutePlanStep(r, ok) \/ EndExecution(r, ok)

PlanExecutionSpec == PlanExecutionInit /\ [][PlanExecutionNext]_planVars

-----------------------------------------------------------------------------
(* Correctness *)

InExecution == {execution[r] : r \in PlanRunners} \ {NoPlan}
Told        == {lastOutcome} \ {NoPlan}

\* Who is told of success has the results of this execution for all steps,
\* whatever earlier or concurrent executions left in the plan
\* (executor.go:77-120, service.go:338-354).
SuccessIsWhole ==
    \A x \in Told : x.answer = "success" =>
        \A i \in PlanStep : x.plan.steps[i].status = "completed" /\ x.plan.steps[i].result = x.number

\* An output that an earlier execution put into an argument stays there; where
\* none is, a step is given what the step before it put out in this execution,
\* and never what that one has left from an earlier one (executor.go:186-216).
OutputsAreCurrent ==
    \A x \in InExecution \cup Told : \A i \in PlanStep :
        LET argument == x.plan.steps[i].argument IN
        /\ x.loaded.steps[i].argument # 0 => argument = x.loaded.steps[i].argument
        /\ x.loaded.steps[i].argument = 0 => argument \in {0, x.number}
        /\ argument # 0 => x.plan.steps[i - 1].result >= argument

\* A step that this execution completed had the results it depends on: of this
\* execution, or of an earlier one for a step that comes later
\* (executor.go:402-417).
DependenciesCameFirst ==
    \A x \in InExecution \cup Told : \A i \in PlanStep :
        x.plan.steps[i].result = x.number =>
            \A d \in x.plan.needs[i] :
                /\ x.plan.steps[d].result # 0
                /\ d < i => x.plan.steps[d].result = x.number
                /\ d >= i => x.loaded.steps[d].result # 0

\* The rows tell whole executions, although nothing is saved on the way: never
\* one that is running; completed with a step that is, failed without one; a plan
\* without steps is completed when it is executed
\* (executor.go:110-117, service.go:345).
RowsAreWhole ==
    \A q \in PlanIds : storedPlan[q] # NoPlan =>
        LET p == storedPlan[q] IN
        /\ p.status # "running"
        /\ StepsThat(p, "pending") = IF p.status = "pending" THEN PlanStep ELSE {}
        /\ p.status = "completed" => StepsThat(p, "completed") # {} \/ PlanStep = {}
        /\ p.status = "failed" => StepsThat(p, "failed") = PlanStep /\ PlanStep # {}

PlanExecutionInv ==
    PlanTypeOK /\ SuccessIsWhole /\ OutputsAreCurrent /\ DependenciesCameFirst /\ RowsAreWhole
=============================================================================
