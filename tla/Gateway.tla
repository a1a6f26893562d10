------------------------------- MODULE Gateway -------------------------------
(***************************************************************************)
(* The WebSocket gateway in front of the long-running agent (gateway.go):  *)
(* one goroutine that keeps the set of clients and sends what is broadcast *)
(* to them, and one handler per connection.  They meet in two channels     *)
(* without a buffer and in one with 100 places (QueueSize).                *)
(*                                                                         *)
(* A write to a client whose peer does not read blocks, as no deadline is  *)
(* set.  The answers of the handler and the messages of the broadcaster go *)
(* to the same connection, and no lock keeps them apart: the library then  *)
(* fails the write of either or panics in it.  A panic in the handler ends *)
(* the handler, one in the broadcaster the process.  The REST handlers     *)
(* call the LongRunService and keep no state of their own.                 *)
(***************************************************************************)
EXTENDS Integers, FiniteSets

CONSTANTS
    Peers,            \* connections
    Broadcasters,     \* callers of Broadcast
    QueueSize

ASSUME GatewayAssumption ==
    IsFiniteSet(Peers) /\ IsFiniteSet(Broadcasters) /\ QueueSize \in Nat \ {0}

VARIABLES
    ctxDone,      \* the context of Start has ended
    muFree,       \* the lock of the LongRunService is free (Stop may keep it)
    handler,      \* where the handler of each connection is
    peer,         \* what the other side does: "reads", "stalls", "left"
    open,         \* connections that are not closed on this side
    gatewayClients,  \* Gateway.clients
    broadcaster,  \* where runBroadcaster is
    sendTo,       \* clients the current message has still to go to
    sendingTo,    \* the client whose connection the broadcaster is writing to
    meeting,      \* connections where two writes have met, until both are over
    queued,       \* messages in the channel broadcast
    caller        \* where each caller of Broadcast is

linkVars == <<handler, peer, open>>
loopVars == <<gatewayClients, broadcaster, sendTo, sendingTo>>
gatewayVars == <<ctxDone, muFree, linkVars, loopVars, meeting, queued, caller>>

GatewayTypeOK ==
    /\ ctxDone \in BOOLEAN /\ muFree \in BOOLEAN
    /\ handler \in [Peers -> {"none", "register", "status", "answer", "writing", "read",
                              "unregister", "done"}]
    /\ peer \in [Peers -> {"reads", "stalls", "left"}]
    /\ open \subseteq Peers /\ gatewayClients \subseteq Peers /\ sendTo \subseteq gatewayClients
    /\ sendingTo \subseteq sendTo /\ meeting \subseteq Peers
    /\ broadcaster \in {"select", "send", "ended", "panicked"}
    /\ queued \in 0..QueueSize
    /\ caller \in [Broadcasters -> {"idle", "sending", "returned"}]

GatewayInit ==
    /\ ctxDone = FALSE /\ muFree = TRUE
    /\ handler = [c \in Peers |-> "none"]
    /\ peer = [c \in Peers |-> "reads"]
    /\ open = {} /\ gatewayClients = {} /\ sendTo = {} /\ sendingTo = {} /\ meeting = {}
    /\ broadcaster = "select"
    /\ queued = 0
    /\ caller = [k \in Broadcasters |-> "idle"]

-----------------------------------------------------------------------------
(* The surroundings *)

\* No panic has ended the process.
StillUp == broadcaster # "panicked"

ContextEnds ==
    /\ ~ctxDone /\ StillUp /\ ctxDone' = TRUE
    /\ UNCHANGED <<muFree, linkVars, loopVars, meeting, queued, caller>>

LongRunLocks ==
    /\ StillUp /\ muFree' = ~muFree
    /\ UNCHANGED <<ctxDone, linkVars, loopVars, meeting, queued, caller>>

PeerChanges(c, how) ==
    /\ handler[c] # "none" /\ peer[c] # "left" /\ peer[c] # how
    /\ peer' = [peer EXCEPT ![c] = how]
    /\ UNCHANGED <<ctxDone, muFree, handler, open, loopVars, meeting, queued, caller>>

\* WriteJSON returns: nobody stalls it, or the connection is gone.
WriteReturns(c) == peer[c] # "stalls" \/ c \notin open

WriteFails(c) == peer[c] = "left" \/ c \notin open

\* The two writes of a connection have met once the later one starts, ...
Meeting(c, other) == IF other THEN meeting \cup {c} ELSE meeting

\* ... and no longer when the one of them that lasts longer is over.
Parting(c, other) == IF other THEN meeting ELSE meeting \ {c}

-----------------------------------------------------------------------------
(* handleWebSocket *)

Upgrade(c) ==
    /\ handler[c] = "none" /\ StillUp
    /\ handler' = [handler EXCEPT ![c] = "register"]
    /\ open' = open \cup {c}
    /\ UNCHANGED <<ctxDone, muFree, peer, loopVars, meeting, queued, caller>>

\* GetStatus takes the lock of the LongRunService.
GetStatus(c) ==
    /\ handler[c] = "status" /\ StillUp /\ muFree
    /\ handler' = [handler EXCEPT ![c] = "answer"]
    /\ UNCHANGED <<ctxDone, muFree, peer, open, loopVars, meeting, queued, caller>>

\* WriteJSON for the status or an answer starts, whoever else is writing.
WriteAnswer(c) ==
    /\ handler[c] = "answer" /\ StillUp
    /\ handler' = [handler EXCEPT ![c] = "writing"]
    /\ meeting' = Meeting(c, c \in sendingTo)
    /\ UNCHANGED <<ctxDone, muFree, peer, open, loopVars, queued, caller>>

\* It returns; an error of it is ignored.
AnswerWritten(c) ==
    /\ handler[c] = "writing" /\ StillUp /\ WriteReturns(c)
    /\ handler' = [handler EXCEPT ![c] = "read"]
    /\ meeting' = Parting(c, c \in sendingTo)
    /\ UNCHANGED <<ctxDone, muFree, peer, open, loopVars, queued, caller>>

\* It has met a write of the broadcaster and fails for it, or panics: the
\* server recovers, once the deferred hand-over of the connection is done.
AnswerCollides(c) ==
    /\ handler[c] = "writing" /\ StillUp /\ c \in meeting
    /\ \E next \in {"read", "unregister"} : handler' = [handler EXCEPT ![c] = next]
    /\ meeting' = Parting(c, c \in sendingTo)
    /\ UNCHANGED <<ctxDone, muFree, peer, open, loopVars, queued, caller>>

\* A message: get_status, one that is answered at once, or one that is not.
ReadMessage(c) ==
    /\ handler[c] = "read" /\ StillUp /\ c \in open /\ peer[c] # "left"
    /\ \E next \in {"status", "answer", "read"} : handler' = [handler EXCEPT ![c] = next]
    /\ UNCHANGED <<ctxDone, muFree, peer, open, loopVars, meeting, queued, caller>>

\* The peer has left, or the broadcaster has closed the connection.
ReadEnds(c) == peer[c] = "left" \/ c \notin open

ReadFails(c) ==
    /\ handler[c] = "read" /\ StillUp /\ ReadEnds(c)
    /\ handler' = [handler EXCEPT ![c] = "unregister"]
    /\ UNCHANGED <<ctxDone, muFree, peer, open, loopVars, meeting, queued, caller>>

-----------------------------------------------------------------------------
(* runBroadcaster *)

BroadcasterEnds ==
    /\ broadcaster = "select" /\ ctxDone
    /\ broadcaster' = "ended"
    /\ UNCHANGED <<ctxDone, muFree, linkVars, gatewayClients, sendTo, sendingTo, meeting, queued,
                   caller>>

Register(c) ==
    /\ broadcaster = "select" /\ handler[c] = "register"
    /\ gatewayClients' = gatewayClients \cup {c}
    /\ handler' = [handler EXCEPT ![c] = "status"]
    /\ UNCHANGED <<ctxDone, muFree, peer, open, broadcaster, sendTo, sendingTo, meeting, queued,
                   caller>>

Wrong_KeepsClient(c) == gatewayClients

ClientsWithout(c) == gatewayClients \ {c}

\* client.Close, once more if the broadcaster had closed the connection.
OpenAfter(c) == open \ {c}

Unregister(c) ==
    /\ broadcaster = "select" /\ handler[c] = "unregister"
    /\ gatewayClients' = ClientsWithout(c)
    /\ open' = OpenAfter(c)
    /\ handler' = [handler EXCEPT ![c] = "done"]
    /\ UNCHANGED <<ctxDone, muFree, peer, broadcaster, sendTo, sendingTo, meeting, queued, caller>>

TakeMessage ==
    /\ broadcaster = "select" /\ queued > 0
    /\ queued' = queued - 1
    /\ sendTo' = gatewayClients
    /\ broadcaster' = "send"
    /\ UNCHANGED <<ctxDone, muFree, linkVars, gatewayClients, sendingTo, meeting, caller>>

\* WriteJSON to the next client starts, whatever its handler is writing.
SendTo(c) ==
    /\ broadcaster = "send" /\ sendingTo = {} /\ c \in sendTo
    /\ sendingTo' = {c}
    /\ meeting' = Meeting(c, handler[c] = "writing")
    /\ UNCHANGED <<ctxDone, muFree, linkVars, gatewayClients, broadcaster, sendTo, queued,
                   caller>>

Wrong_EndsOnError(failed) == IF failed THEN "ended" ELSE "send"

\* The next client is written to, whatever came of this one.
AfterWrite(failed) == "send"

\* A client whose write fails is closed and forgotten; its handler will find
\* that it cannot read any more.
Dropped(c, failed) == IF failed THEN {c} ELSE {}

SendEnds(c, failed) ==
    /\ c \in sendingTo
    /\ sendingTo' = {} /\ sendTo' = sendTo \ {c}
    /\ open' = open \ Dropped(c, failed)
    /\ gatewayClients' = gatewayClients \ Dropped(c, failed)
    /\ broadcaster' = AfterWrite(failed)
    /\ meeting' = Parting(c, handler[c] = "writing")
    /\ UNCHANGED <<ctxDone, muFree, handler, peer, queued, caller>>

SendReturns(c) == broadcaster = "send" /\ WriteReturns(c) /\ SendEnds(c, WriteFails(c))

\* It has met a write of the handler and fails for it, or panics: nobody
\* recovers, and the process ends.
SendFails(c) == broadcaster = "send" /\ c \in meeting /\ SendEnds(c, TRUE)

SendPanics(c) ==
    /\ broadcaster = "send" /\ c \in sendingTo \cap meeting
    /\ broadcaster' = "panicked"
    /\ UNCHANGED <<ctxDone, muFree, linkVars, gatewayClients, sendTo, sendingTo, meeting, queued,
                   caller>>

MessageSent ==
    /\ broadcaster = "send" /\ sendTo = {}
    /\ broadcaster' = "select"
    /\ UNCHANGED <<ctxDone, muFree, linkVars, gatewayClients, sendTo, sendingTo, meeting, queued,
                   caller>>

-----------------------------------------------------------------------------
(* Broadcast *)

CallBroadcast(k) ==
    /\ caller[k] # "sending" /\ StillUp
    /\ caller' = [caller EXCEPT ![k] = "sending"]
    /\ UNCHANGED <<ctxDone, muFree, linkVars, loopVars, meeting, queued>>

HasPlace == queued < QueueSize

Enqueue(k) ==
    /\ caller[k] = "sending" /\ StillUp /\ HasPlace
    /\ queued' = queued + 1
    /\ caller' = [caller EXCEPT ![k] = "returned"]
    /\ UNCHANGED <<ctxDone, muFree, linkVars, loopVars, meeting>>

-----------------------------------------------------------------------------
HandlerStep(c) == GetStatus(c) \/ WriteAnswer(c) \/ AnswerWritten(c) \/ ReadFails(c)

BroadcasterStep ==
    \/ BroadcasterEnds \/ TakeMessage \/ MessageSent
    \/ \E c \in Peers : Register(c) \/ Unregister(c) \/ SendTo(c) \/ SendReturns(c)

WritesCollide(c) == AnswerCollides(c) \/ SendFails(c) \/ SendPanics(c)

GatewayNext ==
    \/ ContextEnds \/ LongRunLocks \/ BroadcasterStep
    \/ \E c \in Peers :
           \/ Upgrade(c) \/ ReadMessage(c) \/ HandlerStep(c) \/ WritesCollide(c)
           \/ \E how \in {"reads", "stalls", "left"} : PeerChanges(c, how)
    \/ \E k \in Broadcasters : CallBroadcast(k) \/ Enqueue(k)

\* The goroutines run, select does not pass over those who register or leave
\* for ever, and a place in the channel goes to whoever has waited for it.
\* Nothing makes two writes that have met fail or panic.
GatewayFairness ==
    /\ WF_gatewayVars(BroadcasterStep)
    /\ \A c \in Peers : WF_gatewayVars(HandlerStep(c))
    /\ SF_gatewayVars(\E c \in Peers : Register(c) \/ Unregister(c))
    /\ \A k \in Broadcasters : SF_gatewayVars(Enqueue(k))

GatewaySpec == GatewayInit /\ [][GatewayNext]_gatewayVars /\ GatewayFairness

-----------------------------------------------------------------------------
(* Correctness *)

\* Only connections whose handler still runs are in the set, and they are open:
\* no message goes to a connection that was closed here (lines 135-151).
ClientsAreServed ==
    \A c \in gatewayClients :
        c \in open /\ handler[c] \in {"status", "answer", "writing", "read", "unregister"}

\* A connection is closed when its handler has returned, also when the
\* broadcaster had closed it before (lines 138-142).
NothingLeftOpen == \A c \in Peers : handler[c] = "done" => c \notin open

\* Writes meet only on a connection that still has one under way, so that a
\* panic in the broadcaster takes an answer that overlapped its message: a
\* handler that has left, or has never written, ends no process (line 146).
MeetingsEnd ==
    /\ \A c \in meeting : c \in sendingTo \/ handler[c] = "writing"
    /\ ~StillUp => \E c \in sendingTo \cap meeting : handler[c] \notin {"none", "register", "done"}

\* A handler whose peer has left comes to its end, unless the broadcaster has
\* ended, panicked or hangs in a write, or the LongRunService keeps its lock
\* (line 167).
HandlerEnds ==
    \A c \in Peers :
        (handler[c] # "none" /\ peer[c] = "left") ~>
            \/ handler[c] = "done"
            \/ ctxDone \/ ~muFree \/ ~StillUp
            \/ \E d \in Peers : peer[d] = "stalls"

\* A call of Broadcast returns, unless the broadcaster has ended or panicked or
\* a client that does not read has stopped it (line 270).
BroadcastReturns ==
    \A k \in Broadcasters :
        (caller[k] = "sending") ~>
            \/ caller[k] = "returned"
            \/ ctxDone \/ ~StillUp
            \/ \E d \in Peers : peer[d] = "stalls"

\* The clients of the gateway are those with a handler, it leaves no connection
\* open that nobody serves, and it panics only where two writes have met.
GatewayInv == GatewayTypeOK /\ ClientsAreServed /\ NothingLeftOpen /\ MeetingsEnd

\* Whoever hands something to the broadcaster gets on: a handler that ends, and
\* a caller of Broadcast, as long as the broadcaster runs and peers read.
HandOversEnd == HandlerEnds /\ BroadcastReturns
=============================================================================
