------------------------------- MODULE SubAgent -------------------------------
(***************************************************************************)
(* The life of one SubAgent of pkg/agent/subagent.go: the executions of    *)
(* Run, started directly, by the coordinator or by Resume; Cancel and      *)
(* Pause from other goroutines; contexts that end; and the callers of      *)
(* Wait.                                                                   *)
(*                                                                         *)
(* An action is one critical section of SubAgent.mu, or one stretch of Run *)
(* between two of them.  The channels progressChan and events are made and *)
(* closed together and appear as one.  Each execution has a context of its *)
(* own, but the code reaches it through the field sa.ctx, which holds that *)
(* of the last execution that began.  A send on a closed channel, and a    *)
(* second close, panic: no action is enabled afterwards.                   *)
(***************************************************************************)
EXTENDS Integers, FiniteSets

CONSTANTS
    Executions,  \* calls of Run
    Origin,      \* how each of them comes about
    Waiters,     \* callers of Wait
    None,        \* no execution
    RetryOnFailure,  \* SubAgentConfig.RetryOnFailure
    HasTimeout   \* whether SubAgentConfig.Timeout is set

\* "run" is a direct call; "async" is RunAsync and "all" is RunAllAsync (which
\* WaitAll and WaitAny use) of the coordinator.
ASSUME OriginAssumption == Origin \in [Executions -> {"run", "async", "all", "resume"}]
ASSUME NoneAssumption == None \notin Executions
ASSUME ConfigAssumption == RetryOnFailure \in Nat /\ HasTimeout \in BOOLEAN

VARIABLES
    state,       \* SubAgent.state
    ctx,         \* SubAgent.ctx: whose context it is
    ended,       \* how each context has ended (ctx.Err)
    result,      \* SubAgent.result: the execution that produced it
    err,         \* SubAgent.err
    channelsOpen, \* the channels of the SubAgent are open
    added,       \* the coordinator has the SubAgent among its subagents
    pc,          \* where each execution is
    attemptCtx,  \* the context an execution's attempt was given
    retries,     \* retries it has left
    answer,      \* what Wait returned
    overlapped,  \* history: an execution was started while another was alive
    cancelAccepted,  \* history: Cancel was accepted
    panicked

outcomeVars == <<result, err>>
runVars     == <<pc, attemptCtx, retries>>
subAgentHistory == <<overlapped, cancelAccepted>>
subAgentVars == <<state, ctx, ended, outcomeVars, channelsOpen, added, runVars, answer,
          subAgentHistory, panicked>>

Terminal == {"completed", "failed", "cancelled", "timeout"}
State    == {"pending", "running", "paused"} \cup Terminal
Errors   == {"nil", "failed", "cancelled", "timeout"}

SubAgentTypeOK ==
    /\ state \in State
    /\ ctx \in Executions \cup {None}
    /\ ended \in [Executions -> {"no", "cancelled", "deadline"}]
    /\ result \in Executions \cup {None}
    /\ err \in Errors
    /\ channelsOpen \in BOOLEAN /\ added \in BOOLEAN
    /\ pc \in [Executions -> {"idle", "called", "try", "work", "finish", "close", "done"}]
    /\ attemptCtx \in [Executions -> Executions \cup {None}]
    /\ retries \in [Executions -> 0..RetryOnFailure]
    /\ answer \in [Waiters -> {"waiting", "result", "error", "nothing"}]
    /\ overlapped \in BOOLEAN /\ cancelAccepted \in BOOLEAN /\ panicked \in BOOLEAN

\* NewSubAgent
SubAgentInit ==
    /\ state = "pending"
    /\ ctx = None
    /\ ended = [e \in Executions |-> "no"]
    /\ result = None /\ err = "nil"
    /\ channelsOpen = TRUE /\ added = FALSE
    /\ pc = [e \in Executions |-> "idle"]
    /\ attemptCtx = [e \in Executions |-> None]
    /\ retries = [e \in Executions |-> RetryOnFailure]
    /\ answer = [w \in Waiters |-> "waiting"]
    /\ overlapped = FALSE /\ cancelAccepted = FALSE /\ panicked = FALSE

-----------------------------------------------------------------------------
(* The start of an execution *)

Live == {e \in Executions : pc[e] \notin {"idle", "done"}}

Called(e) ==
    /\ pc[e] = "idle"
    /\ pc' = [pc EXCEPT ![e] = "called"]
    /\ overlapped' = (overlapped \/ Live # {})

\* Run, RunAsync, and the coordinator's RunAsync, which adds the SubAgent;
\* RunAllAsync starts whatever was added, running or not.
Start(e) ==
    /\ Origin[e] # "resume"
    /\ Origin[e] = "all" => added
    /\ Called(e)
    /\ added' = (added \/ Origin[e] = "async")
    /\ UNCHANGED <<state, ctx, ended, outcomeVars, channelsOpen, attemptCtx, retries,
                   answer, cancelAccepted, panicked>>

Wrong_KeepsChannels == channelsOpen

\* Whether the channels are open once Resume has made new ones.
ChannelsAfterResume == TRUE

\* The critical section of Resume; the call of Run comes after it.
Resume(e) ==
    /\ Origin[e] = "resume"
    /\ state = "paused"
    /\ Called(e)
    /\ state' = "running"
    /\ channelsOpen' = ChannelsAfterResume
    /\ UNCHANGED <<ctx, ended, outcomeVars, added, attemptCtx, retries, answer,
                   cancelAccepted, panicked>>

\* The critical section at the head of Run, and the context with a timeout
\* that is put in the place of the first right after it.
EnterRun(e) ==
    /\ pc[e] = "called"
    /\ state' = "running"
    /\ ctx' = e
    /\ pc' = [pc EXCEPT ![e] = "try"]
    /\ UNCHANGED <<ended, outcomeVars, channelsOpen, added, attemptCtx, retries, answer,
                   subAgentHistory, panicked>>

-----------------------------------------------------------------------------
(* The attempts *)

\* An attempt starts with events (emitStart, emitProgress).
BeginAttempt(e) ==
    /\ pc[e] = "try"
    /\ attemptCtx' = [attemptCtx EXCEPT ![e] = ctx]
    /\ panicked' = ~channelsOpen
    /\ pc' = [pc EXCEPT ![e] = "work"]
    /\ UNCHANGED <<state, ctx, ended, outcomeVars, channelsOpen, added, retries, answer,
                   subAgentHistory>>

\* The result that an attempt leaves behind.
StoredResult(e) == e

\* It may emit on its way, and returns without an error.
AttemptSucceeds(e) ==
    /\ pc[e] = "work"
    /\ result' = StoredResult(e) /\ err' = "nil"
    /\ panicked' \in {FALSE, ~channelsOpen}
    /\ pc' = [pc EXCEPT ![e] = "finish"]
    /\ UNCHANGED <<state, ctx, ended, channelsOpen, added, attemptCtx, retries, answer,
                   subAgentHistory>>

\* "Don't retry on cancellation or timeout": sa.ctx is asked, which need not
\* be the context of the attempt.
MayRetry(e) == ended[ctx] = "no" /\ retries[e] > 0

AttemptFailsForGood(e) ==
    /\ pc[e] = "work"
    /\ ~MayRetry(e)
    /\ result' = None /\ err' = "failed"
    /\ panicked' \in {FALSE, ~channelsOpen}
    /\ pc' = [pc EXCEPT ![e] = "finish"]
    /\ UNCHANGED <<state, ctx, ended, channelsOpen, added, attemptCtx, retries, answer,
                   subAgentHistory>>

Retry(e) ==
    /\ pc[e] = "work"
    /\ MayRetry(e)
    /\ retries' = [retries EXCEPT ![e] = @ - 1]
    /\ panicked' = ~channelsOpen
    /\ pc' = [pc EXCEPT ![e] = "try"]
    /\ UNCHANGED <<state, ctx, ended, outcomeVars, channelsOpen, added, attemptCtx,
                   answer, subAgentHistory>>

-----------------------------------------------------------------------------
(* The deferred function of Run *)

\* The final state follows from how sa.ctx has ended, then from the error.
FinalState ==
    CASE ended[ctx] = "deadline"  -> "timeout"
      [] ended[ctx] = "cancelled" -> IF state = "paused" THEN "paused" ELSE "cancelled"
      [] OTHER                    -> IF err = "nil" THEN "completed" ELSE "failed"

Finish(e) ==
    /\ pc[e] = "finish"
    /\ state' = FinalState
    /\ err' = IF FinalState \in {"timeout", "cancelled"} THEN FinalState ELSE err
    /\ pc' = [pc EXCEPT ![e] = "close"]
    /\ UNCHANGED <<ctx, ended, result, channelsOpen, added, attemptCtx, retries, answer,
                   subAgentHistory, panicked>>

\* How the contexts have ended when that of sa.ctx is cancelled.
ContextsAfterCancel == [ended EXCEPT ![ctx] = IF @ = "no" THEN "cancelled" ELSE @]

\* The last event, the closes, and the cancellation of the timeout.
Close(e) ==
    /\ pc[e] = "close"
    /\ panicked' = ~channelsOpen
    /\ channelsOpen' = FALSE
    /\ ended' = IF HasTimeout THEN ContextsAfterCancel ELSE ended
    /\ pc' = [pc EXCEPT ![e] = "done"]
    /\ UNCHANGED <<state, ctx, outcomeVars, added, attemptCtx, retries, answer,
                   subAgentHistory>>

-----------------------------------------------------------------------------
(* What other goroutines do *)

\* Cancel (and Stop); the error of one that is not running changes nothing.
Cancel ==
    /\ state = "running"
    /\ state' = "cancelled"
    /\ ended' = ContextsAfterCancel
    /\ cancelAccepted' = TRUE
    /\ UNCHANGED <<ctx, outcomeVars, channelsOpen, added, runVars, answer, overlapped, panicked>>

Pause ==
    /\ state = "running"
    /\ state' = "paused"
    /\ ended' = ContextsAfterCancel
    /\ UNCHANGED <<ctx, outcomeVars, channelsOpen, added, runVars, answer, subAgentHistory, panicked>>

\* A context ends by itself: the parent's is cancelled (by the coordinator,
\* too) or has a deadline, or the timeout is over.
ContextExpires(e) ==
    /\ pc[e] \in {"try", "work", "finish"} /\ ended[e] = "no"
    /\ \E how \in {"cancelled", "deadline"} : ended' = [ended EXCEPT ![e] = how]
    /\ UNCHANGED <<state, ctx, outcomeVars, channelsOpen, added, runVars, answer,
                   subAgentHistory, panicked>>

\* A poll of Wait finds a terminal state: result and error as they are now.
WaitReturns(w) ==
    /\ answer[w] = "waiting" /\ state \in Terminal
    /\ answer' = [answer EXCEPT ![w] = IF err # "nil" THEN "error"
                                       ELSE IF result # None THEN "result"
                                       ELSE "nothing"]
    /\ UNCHANGED <<state, ctx, ended, outcomeVars, channelsOpen, added, runVars,
                   subAgentHistory, panicked>>

-----------------------------------------------------------------------------
AttemptEnds(e) == AttemptSucceeds(e) \/ AttemptFailsForGood(e) \/ Retry(e)

Run(e) == EnterRun(e) \/ BeginAttempt(e) \/ AttemptEnds(e) \/ Finish(e) \/ Close(e)

SubAgentNext ==
    /\ ~panicked
    /\ \/ \E e \in Executions : Start(e) \/ Resume(e) \/ Run(e) \/ ContextExpires(e)
       \/ Cancel \/ Pause
       \/ \E w \in Waiters : WaitReturns(w)

\* Goroutines are scheduled and Wait polls; a model or a tool may take for
\* ever, but returns when the context it was given has ended.
SubAgentFairness ==
    /\ \A e \in Executions :
           /\ WF_subAgentVars(~panicked /\ (EnterRun(e) \/ BeginAttempt(e) \/ Finish(e) \/ Close(e)))
           /\ WF_subAgentVars(/\ ~panicked
                      /\ pc[e] = "work" /\ ended[attemptCtx[e]] # "no"
                      /\ AttemptEnds(e))
    /\ \A w \in Waiters : WF_subAgentVars(~panicked /\ WaitReturns(w))

SubAgentSpec     == SubAgentInit /\ [][SubAgentNext]_subAgentVars
SubAgentFairSpec == SubAgentSpec /\ SubAgentFairness

-----------------------------------------------------------------------------
(* Correctness *)

OneCallOfRun ==
    \A e, f \in Executions : Origin[e] # "resume" /\ Origin[f] # "resume" => e = f

\* With one call of Run and any number of resumes, no channel is used after it
\* was closed, or closed twice, unless Resume came before the paused execution
\* had ended (lines 246-290 and 692-705).
PanicNeedsOverlap == OneCallOfRun /\ panicked => overlapped

\* One execution at a time: the final state fits what GetResult returns.
OutcomeMatchesState ==
    ~overlapped =>
        /\ state = "completed" => (result # None /\ err = "nil")
        /\ state = "failed"    => (result = None /\ err = "failed")
        /\ state = "timeout"   => err = "timeout"
        /\ (state \in Terminal \ {"cancelled"}) => \A e \in Executions : pc[e] # "work"

\* Wait returns neither a result nor an error only to those whose SubAgent was
\* cancelled: Cancel is terminal at once, and the error comes with the end of
\* Run (lines 347-373 and 387-402).
EmptyAnswerNeedsCancel ==
    \A w \in Waiters : answer[w] = "nothing" => cancelAccepted

\* A pause or a terminal state stays until Resume, except that a deadline that
\* has passed turns it into a timeout, and that a Run already called when
\* Cancel or Pause came does not notice them (Resume lets go of mu first).
SettledStays ==
    [][(state \in Terminal \cup {"paused"} /\ state' # state) =>
           \/ \E e \in Executions : Resume(e)
           \/ \E e \in Executions : pc[e] = "called" /\ EnterRun(e)
           \/ state' = "timeout" /\ ended[ctx] = "deadline"
           \/ overlapped]_subAgentVars

\* A cancelled SubAgent comes to an end, its retries notwithstanding, and
\* releases those who wait, unless a Run that had been called overrides it.
CancelEnds ==
    (state = "cancelled") ~>
        \/ Live = {} /\ \A w \in Waiters : answer[w] # "waiting"
        \/ state = "running" \/ overlapped \/ panicked

\* A SubAgent may be run with the coordinator's RunAsync and awaited with its
\* WaitAll (README.md:422).
NoPanic == ~panicked

\* The life of a subagent: its state, outcome and channels agree, and a state
\* that is final stays.
SubAgentSafe ==
    /\ [](SubAgentTypeOK /\ PanicNeedsOverlap /\ OutcomeMatchesState /\ EmptyAnswerNeedsCancel)
    /\ SettledStays

\* Its life is sound, and one that was cancelled comes to its end.
SubAgentCorrect == SubAgentSafe /\ CancelEnds
=============================================================================
