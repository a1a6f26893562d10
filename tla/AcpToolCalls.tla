----------------------------- MODULE AcpToolCalls -----------------------------
(***************************************************************************)
(* How the ACP server tells its client of the tool calls of a prompt: the  *)
(* hooks and the permission handler it installs (acpserver/server.go), and *)
(* the order in which the runtime calls them (executeToolOrHandoff of      *)
(* agent/runtime.go).                                                      *)
(*                                                                         *)
(* The hooks know a call by its key, its name and arguments.  The ids of   *)
(* the calls with the same key are queued: the hook before the tool        *)
(* appends one, the permission handler looks at the first, the hook after  *)
(* the tool takes the first off.  A call that was denied, or whose         *)
(* permission could not be asked, never reaches the last hook.             *)
(***************************************************************************)
EXTENDS Integers, Sequences, FiniteSets

CONSTANTS
    AcpCalls,     \* tool calls of one prompt
    KeySets,      \* the functions AcpCalls -> keys that are tried
    MaxRefusals   \* bound: permissions the client refuses or answers with an error

ASSUME AcpCallsAssumption ==
    /\ IsFiniteSet(AcpCalls)
    /\ \A f \in KeySets : DOMAIN f = AcpCalls
    /\ MaxRefusals \in Nat

VARIABLES
    keyOf,        \* the key of each call
    askedIn,      \* by key, where permission is asked: "hook", "handler", or "never"
    callAt,       \* where each call is
    idQueue,      \* permissionState.queues, by key
    nextSeq,      \* permissionState.nextSeq
    myId,         \* the id it was given, 0 before
    askedFor,     \* the id permission was asked for
    okay,         \* what became of the call
    shown,        \* what the client was told last, by id
    refusals,
    connected,
    finals,       \* history: how often each id was given a final status
    mixed         \* history: keys of two calls under way at a time, and of
                  \* calls that were not executed

callVars == <<callAt, myId, askedFor, okay>>
shownVars == <<shown, connected>>
acpHistory == <<finals, mixed>>
acpCallVars == <<keyOf, askedIn, callVars, idQueue, nextSeq, shownVars, refusals, acpHistory>>

Keys == UNION {{f[c] : c \in AcpCalls} : f \in KeySets}
Ids == 1..Cardinality(AcpCalls)

\* A runtime has a permission handler or it has not; the policy spares some tools.
Asking == [Keys -> {"hook", "never"}] \cup [Keys -> {"handler", "never"}]

Shown == {"nothing", "pending", "inProgress", "completed", "failed"}

AcpCallsTypeOK ==
    /\ keyOf \in KeySets
    /\ askedIn \in Asking
    /\ callAt \in [AcpCalls -> {"idle", "announce", "ask", "progress", "lookup", "wait", "run",
                                "after", "tell", "done", "denied"}]
    /\ idQueue \in [Keys -> Seq(Ids)]
    /\ nextSeq \in 0..Cardinality(AcpCalls)
    /\ myId \in [AcpCalls -> 0..Cardinality(AcpCalls)]
    /\ askedFor \in [AcpCalls -> 0..Cardinality(AcpCalls)]
    /\ okay \in [AcpCalls -> BOOLEAN]
    /\ shown \in [Ids -> Shown]
    /\ refusals \in 0..MaxRefusals
    /\ connected \in BOOLEAN
    /\ finals \in [Ids -> Nat]
    /\ mixed \subseteq Keys

AcpCallsInit ==
    /\ keyOf \in KeySets
    /\ askedIn \in Asking
    /\ callAt = [c \in AcpCalls |-> "idle"]
    /\ idQueue = [k \in Keys |-> <<>>] /\ nextSeq = 0
    /\ myId = [c \in AcpCalls |-> 0] /\ askedFor = [c \in AcpCalls |-> 0]
    /\ okay = [c \in AcpCalls |-> TRUE]
    /\ shown = [i \in Ids |-> "nothing"]
    /\ refusals = 0 /\ connected = TRUE
    /\ finals = [i \in Ids |-> 0] /\ mixed = {}

At(c, from) == callAt[c] = from
Moves(c, to) == callAt' = [callAt EXCEPT ![c] = to]

UnderWay == {c \in AcpCalls : callAt[c] \notin {"idle", "done", "denied"}}

\* sendUpdate: without a connection it fails, and so does the call.
Tells(c, id, status, to) ==
    /\ shown' = IF connected THEN [shown EXCEPT ![id] = status] ELSE shown
    /\ Moves(c, IF connected THEN to ELSE "denied")
    /\ mixed' = IF connected THEN mixed ELSE mixed \cup {keyOf[c]}

\* The outcome is told for an id, if there is one.
TellsFinal(id, status) ==
    IF connected /\ id # 0
    THEN /\ shown' = [shown EXCEPT ![id] = status]
         /\ finals' = [finals EXCEPT ![id] = @ + 1]
    ELSE UNCHANGED <<shown, finals>>

-----------------------------------------------------------------------------
(* The hook before the tool *)

\* permissionState.start
TakeId(c) ==
    /\ At(c, "idle")
    /\ nextSeq' = nextSeq + 1
    /\ myId' = [myId EXCEPT ![c] = nextSeq + 1]
    /\ idQueue' = [idQueue EXCEPT ![keyOf[c]] = Append(@, nextSeq + 1)]
    /\ Moves(c, "announce")
    /\ mixed' = IF \E other \in UnderWay : keyOf[other] = keyOf[c]
                THEN mixed \cup {keyOf[c]} ELSE mixed
    /\ UNCHANGED <<keyOf, askedIn, askedFor, okay, shownVars, refusals, finals>>

Announce(c) ==
    /\ At(c, "announce")
    /\ Tells(c, myId[c], "pending", IF askedIn[keyOf[c]] = "hook" THEN "ask" ELSE "progress")
    /\ UNCHANGED <<keyOf, askedIn, myId, askedFor, okay, idQueue, nextSeq, connected, refusals, finals>>

\* The client is asked for the id of the call.
AskInHook(c) ==
    /\ At(c, "ask")
    /\ askedFor' = [askedFor EXCEPT ![c] = myId[c]]
    /\ Moves(c, "wait")
    /\ UNCHANGED <<keyOf, askedIn, myId, okay, idQueue, nextSeq, shownVars, refusals, acpHistory>>

HookEnds(c) ==
    /\ At(c, "progress")
    /\ Tells(c, myId[c], "inProgress", IF askedIn[keyOf[c]] = "handler" THEN "lookup" ELSE "run")
    /\ UNCHANGED <<keyOf, askedIn, myId, askedFor, okay, idQueue, nextSeq, connected, refusals, finals>>

-----------------------------------------------------------------------------
(* Permission *)

\* permissionState.current, or 0 for a key without ids.
CurrentId(c) == IF idQueue[keyOf[c]] = <<>> THEN 0 ELSE Head(idQueue[keyOf[c]])

\* The handler asks for the first id of the key.
AskInHandler(c) ==
    /\ At(c, "lookup")
    /\ askedFor' = [askedFor EXCEPT ![c] = CurrentId(c)]
    /\ Moves(c, "wait")
    /\ UNCHANGED <<keyOf, askedIn, myId, okay, idQueue, nextSeq, shownVars, refusals, acpHistory>>

Allowed(c) ==
    /\ At(c, "wait")
    /\ IF askedFor[c] = 0 THEN Moves(c, "run") /\ UNCHANGED <<shown, mixed>>
       ELSE Tells(c, askedFor[c], "inProgress", "run")
    /\ UNCHANGED <<keyOf, askedIn, myId, askedFor, okay, idQueue, nextSeq, connected, refusals, finals>>

IdOfRefusal(c) == askedFor[c]

\* The refused call is shown as failed; its id stays in the queue.
Refused(c) ==
    /\ At(c, "wait") /\ refusals < MaxRefusals
    /\ refusals' = refusals + 1
    /\ okay' = [okay EXCEPT ![c] = FALSE]
    /\ TellsFinal(IdOfRefusal(c), "failed")
    /\ Moves(c, "denied")
    /\ mixed' = mixed \cup {keyOf[c]}
    /\ UNCHANGED <<keyOf, askedIn, myId, askedFor, idQueue, nextSeq, connected>>

\* The client answers with an error, or is gone: the call is not executed, and
\* nothing is told, so that it stays shown as it was.
PermissionFails(c) ==
    /\ At(c, "wait")
    /\ \/ ~connected /\ refusals' = refusals
       \/ connected /\ refusals < MaxRefusals /\ refusals' = refusals + 1
    /\ Moves(c, "denied")
    /\ mixed' = mixed \cup {keyOf[c]}
    /\ UNCHANGED <<keyOf, askedIn, myId, askedFor, okay, idQueue, nextSeq, shownVars, finals>>

-----------------------------------------------------------------------------
(* The tool, and the hook after it *)

Executed(c, ok) ==
    /\ At(c, "run")
    /\ okay' = [okay EXCEPT ![c] = ok]
    /\ Moves(c, "after")
    /\ UNCHANGED <<keyOf, askedIn, myId, askedFor, idQueue, nextSeq, shownVars, refusals, acpHistory>>

QueueAfter(k) == IF idQueue[k] = <<>> THEN <<>> ELSE Tail(idQueue[k])

\* permissionState.finish; the id it returns is the one that is told about.
TakeOff(c) ==
    /\ At(c, "after")
    /\ askedFor' = [askedFor EXCEPT ![c] = CurrentId(c)]
    /\ idQueue' = [idQueue EXCEPT ![keyOf[c]] = QueueAfter(keyOf[c])]
    /\ Moves(c, "tell")
    /\ UNCHANGED <<keyOf, askedIn, myId, okay, nextSeq, shownVars, refusals, acpHistory>>

FinalStatus(c) == IF okay[c] THEN "completed" ELSE "failed"

\* An error of this hook is only logged.
TellOutcome(c) ==
    /\ At(c, "tell")
    /\ TellsFinal(askedFor[c], FinalStatus(c))
    /\ Moves(c, "done")
    /\ UNCHANGED <<keyOf, askedIn, myId, askedFor, okay, idQueue, nextSeq, connected, refusals, mixed>>

ConnectionLost ==
    /\ connected /\ connected' = FALSE
    /\ UNCHANGED <<keyOf, askedIn, callVars, idQueue, nextSeq, shown, refusals, acpHistory>>

-----------------------------------------------------------------------------
AcpCallsNext ==
    \/ ConnectionLost
    \/ \E c \in AcpCalls :
           \/ TakeId(c) \/ Announce(c) \/ AskInHook(c) \/ HookEnds(c) \/ AskInHandler(c)
           \/ Allowed(c) \/ Refused(c) \/ PermissionFails(c) \/ TakeOff(c) \/ TellOutcome(c)
           \/ \E ok \in BOOLEAN : Executed(c, ok)

AcpCallsSpec == AcpCallsInit /\ [][AcpCallsNext]_acpCallVars

-----------------------------------------------------------------------------
(* Correctness *)

Status(c) == IF okay[c] THEN "completed" ELSE "failed"

\* What the client reads under the id of a call is what became of this call,
\* unless another call with the same name and arguments ran beside it or was
\* refused before it (server.go:549-584).
OwnStory ==
    \A c \in AcpCalls :
        (callAt[c] = "done" /\ connected /\ keyOf[c] \notin mixed) => shown[myId[c]] = Status(c)

\* Once the calls with one key have all been executed, each of their ids was
\* given one final status, in whatever order they ran and ended.
EachEndsOnce ==
    \A k \in Keys :
        LET mine == {c \in AcpCalls : keyOf[c] = k /\ callAt[c] # "idle"} IN
        (connected /\ \A c \in mine : callAt[c] = "done") =>
            \A c \in mine : finals[myId[c]] = 1

\* A call that the client refused is shown as failed, by its own id or by that
\* of a call with the same key (server.go:217).  One whose permission could not
\* be asked is not (212-215).
RefusedIsShown ==
    \A c \in AcpCalls :
        (callAt[c] = "denied" /\ ~okay[c] /\ connected /\ \A d \in AcpCalls \ {c} : keyOf[d] # keyOf[c])
            => shown[myId[c]] = "failed"

\* The client is told the truth about each tool call, as far as calls with the
\* same name and arguments can be told apart.
AcpToolCallsInv == AcpCallsTypeOK /\ OwnStory /\ EachEndsOnce /\ RefusedIsShown
=============================================================================
