---------------------------- MODULE CircuitBreaker ----------------------------
(***************************************************************************)
(* The circuit breaker of one provider (pkg/providers/pool_enhanced.go).   *)
(* RecordSuccess and RecordFailure are one critical section each;          *)
(* CanRequest reads under one lock and writes under another.  Requests are *)
(* not held back by the breaker (GenerateWithMetrics chooses its provider  *)
(* without asking), so that their outcomes come at any time, and those of  *)
(* a request that began long ago as well.                                  *)
(***************************************************************************)
EXTENDS Integers

CONSTANTS
    FailureThreshold,
    Askers,            \* callers of CanRequest
    MaxBeyond          \* bound: failures counted beyond the threshold

ASSUME BreakerAssumption == FailureThreshold \in Nat \ {0} /\ MaxBeyond \in Nat

VARIABLES
    breaker,           \* CircuitBreaker.State
    consecutiveFails,  \* CircuitBreaker.ConsecutiveFails
    recovered,         \* RecoveryTimeout has passed since LastFailTime
    asking,            \* those who have read that they may half-open it
    overtook           \* history: of them, those a failure has come after

breakerVars == <<breaker, consecutiveFails, recovered, asking, overtook>>

BreakerTypeOK ==
    /\ breaker \in {"closed", "open", "halfOpen"}
    /\ consecutiveFails \in 0..FailureThreshold + MaxBeyond
    /\ recovered \in BOOLEAN
    /\ asking \subseteq Askers /\ overtook \subseteq asking

BreakerInit ==
    /\ breaker = "closed" /\ consecutiveFails = 0 /\ recovered = TRUE
    /\ asking = {} /\ overtook = {}

FailsAfterSuccess == 0

RecordSuccess ==
    /\ consecutiveFails' = FailsAfterSuccess
    /\ breaker' = IF breaker = "halfOpen" THEN "closed" ELSE breaker
    /\ UNCHANGED <<recovered, asking, overtook>>

RecordFailure ==
    /\ consecutiveFails < FailureThreshold + MaxBeyond
    /\ consecutiveFails' = consecutiveFails + 1
    /\ breaker' = IF consecutiveFails' >= FailureThreshold THEN "open" ELSE breaker
    /\ recovered' = FALSE
    /\ overtook' = asking
    /\ UNCHANGED asking

RecoveryTimePasses ==
    /\ ~recovered
    /\ recovered' = TRUE
    /\ UNCHANGED <<breaker, consecutiveFails, asking, overtook>>

Wrong_AnyTime == breaker = "open"

\* An open breaker may be tried again.
MayTryAgain == breaker = "open" /\ recovered

\* CanRequest in the other states: it changes nothing.
FindsOpen(a) ==
    /\ a \notin asking /\ MayTryAgain
    /\ asking' = asking \cup {a}
    /\ UNCHANGED <<breaker, consecutiveFails, recovered, overtook>>

HalfOpens(a) ==
    /\ a \in asking
    /\ breaker' = "halfOpen"
    /\ asking' = asking \ {a} /\ overtook' = overtook \ {a}
    /\ UNCHANGED <<consecutiveFails, recovered>>

BreakerNext ==
    \/ RecordSuccess \/ RecordFailure \/ RecoveryTimePasses
    \/ \E a \in Askers : FindsOpen(a) \/ HalfOpens(a)

BreakerSpec == BreakerInit /\ [][BreakerNext]_breakerVars

-----------------------------------------------------------------------------
(* Correctness *)

\* A closed breaker has counted fewer failures in a row than its threshold,
\* also after successes and failures that came late (lines 170-195).
ClosedIsBelowThreshold == breaker = "closed" => consecutiveFails < FailureThreshold

\* A breaker becomes half-open only when its recovery time is over, or through
\* a caller that had found so before the last failure (lines 206-211).
TriedAgainAfterRecovery ==
    [][(breaker # "halfOpen" /\ breaker' = "halfOpen") => recovered \/ overtook # {}]_breakerVars

\* The breaker is closed below its threshold only, and one that is open lets
\* no request through before the recovery time, whatever overlaps.
BreakerCorrect ==
    [](BreakerTypeOK /\ ClosedIsBelowThreshold) /\ TriedAgainAfterRecovery
=============================================================================
