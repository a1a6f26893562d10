------------------------------ MODULE ToolStream ------------------------------
(***************************************************************************)
(* How the tool calls of a model's reply come to those who execute them.   *)
(* The server sends the reply in chunks, with the arguments of a call in   *)
(* pieces; the OpenAI provider makes a delta of each chunk                 *)
(* (pkg/providers/openai.go), the clients of the pool make one of the      *)
(* whole reply (pkg/pool/client.go); and the callback of the runtime, of a *)
(* subagent or of programmatic tool calling collects the calls.            *)
(*                                                                         *)
(* Arguments are what they were parsed from: the text of a call or a part  *)
(* of it.  A call that was collected remembers which call of which attempt *)
(* it came from, which the program does not.                               *)
(***************************************************************************)
EXTENDS Integers, SequencesExt

CONSTANTS
    ReplyKinds,  \* replies: the calls the model asks for, and the chunks they come in
    ToolNames    \* names of tools

\* A call as the model writes it: some servers give no identifiers, and the
\* arguments of some do not parse.  An "odd" call is not of the form the clients
\* of the pool expect (arguments that are no string, say).
AskedCall == [name : ToolNames, id : BOOLEAN, args : {"parse", "garbled", "odd"}]

\* A piece of a call: the first bears its name and identifier; the text may be
\* the whole of the arguments, a part that parses by itself, or neither.
Piece == [call : Nat \ {0}, first : BOOLEAN, text : {"whole", "nested", "part"}]

PiecesOf(r) == UNION {Range(c) : c \in Range(r.chunks)}
CallsOf(r)  == DOMAIN r.asked

\* The pieces are those of the calls, and each call begins once.
ReplyAssumption ==
    /\ "nameless" \notin ToolNames
    /\ \A r \in ReplyKinds :
        /\ r \in [asked : Seq(AskedCall), chunks : Seq(Seq(Piece))]
        /\ CallsOf(r) = {p.call : p \in PiecesOf(r)}
        /\ \A i, j \in DOMAIN r.chunks : \A a \in DOMAIN r.chunks[i], b \in DOMAIN r.chunks[j] :
              LET p == r.chunks[i][a]  q == r.chunks[j][b]
              IN  p.first /\ q.first /\ p.call = q.call => i = j /\ a = b

ASSUME ReplyAssumption

VARIABLES
    provider,    \* "openai" or "pool"
    consumer,    \* "runtime", "subagent" or "ptc"
    reply,       \* the reply of this attempt
    received,    \* chunks the provider has handed over, of this attempt
    streamAttempt,     \* 1, or 2 for the retry without native web search
    wasted,      \* chunks handed over in an attempt that failed
    collected,   \* the calls the callback has so far
    completion,  \* the result of task_complete: "none", "given" or "lost"
    streamState  \* "on", "failed" or "ended"

toolStreamVars == <<provider, consumer, reply, received, streamAttempt, wasted, collected,
                    completion, streamState>>

\* Where arguments come from: the whole text of a call, or a part.
Source == [attempt : {1, 2}, call : Nat \ {0}, whole : BOOLEAN]

CollectedCall ==
    [attempt : {1, 2}, call : Nat \ {0}, name : ToolNames \cup {"nameless"}, id : BOOLEAN, args : SUBSET Source]

CallsOfReply == CallsOf(reply)
Fragmented   == \E p \in PiecesOf(reply) : ~(p.first /\ p.text = "whole")

\* What the OpenAI library makes of an odd call is its own affair.
RepliesTo(p) ==
    {r \in ReplyKinds : p = "openai" => \A k \in CallsOf(r) : r.asked[k].args # "odd"}

ToolStreamTypeOK ==
    /\ provider \in {"openai", "pool"} /\ consumer \in {"runtime", "subagent", "ptc"}
    /\ reply \in ReplyKinds
    /\ received \in 0..Len(reply.chunks) /\ streamAttempt \in {1, 2} /\ wasted \in Nat
    /\ collected \in Seq(CollectedCall)
    /\ completion \in {"none", "given", "lost"} /\ streamState \in {"on", "failed", "ended"}

ToolStreamInit ==
    /\ provider \in {"openai", "pool"} /\ consumer \in {"runtime", "subagent", "ptc"}
    /\ reply \in RepliesTo(provider)
    /\ received = 0 /\ streamAttempt = 1 /\ wasted = 0
    /\ collected = <<>>
    /\ completion = "none" /\ streamState = "on"

-----------------------------------------------------------------------------
(* What the providers make of the reply *)

\* A text that does not parse gives no arguments, and no error.
Parsed(k, text) ==
    IF text = "part" \/ (text = "whole" /\ reply.asked[k].args # "parse") THEN {}
    ELSE {[attempt |-> streamAttempt, call |-> k, whole |-> text = "whole"]}

DecodedPiece(p) ==
    [attempt |-> streamAttempt, call |-> p.call,
     name |-> IF p.first THEN reply.asked[p.call].name ELSE "nameless",
     id   |-> p.first /\ reply.asked[p.call].id,
     args |-> Parsed(p.call, p.text)]

Decoded(chunk) == [i \in DOMAIN chunk |-> DecodedPiece(chunk[i])]

\* An odd call leaves an empty one in its place.
WholeCall(k) ==
    [attempt |-> streamAttempt, call |-> k,
     name |-> IF reply.asked[k].args = "odd" THEN "nameless" ELSE reply.asked[k].name,
     id   |-> reply.asked[k].args # "odd" /\ reply.asked[k].id,
     args |-> Parsed(k, "whole")]

WholeCalls == [k \in CallsOfReply |-> WholeCall(k)]

\* The calls of the next delta.
NextDelta == IF provider = "pool" THEN WholeCalls ELSE Decoded(reply.chunks[received + 1])

-----------------------------------------------------------------------------
(* What the callbacks make of the deltas *)

\* The runtime and the subagents keep the calls of the last delta with any.
LastDelta(calls, delta) == IF delta = <<>> THEN calls ELSE delta

\* A call is one that was collected if that has its identifier, or has none and
\* the same name: then two calls of one tool are one, and so are all that came
\* without a name.
SameCall(a, b) ==
    \/ a.id /\ b.id /\ a.call = b.call /\ a.attempt = b.attempt
    \/ ~a.id /\ a.name = b.name

Alike(calls, c) == {i \in DOMAIN calls : SameCall(calls[i], c)}

\* The first that is alike takes the arguments over the ones it has.
MergeCall(calls, c) ==
    IF Alike(calls, c) = {} THEN Append(calls, c)
    ELSE LET i == CHOOSE n \in Alike(calls, c) : \A m \in Alike(calls, c) : n <= m
         IN  [calls EXCEPT ![i].args = @ \cup c.args]

\* The calls after the first n of the delta.
MergeCalls(calls, delta) ==
    LET merged[n \in 0..Len(delta)] ==
            IF n = 0 THEN calls ELSE MergeCall(merged[n - 1], delta[n])
    IN merged[Len(delta)]

Collect(calls, delta) ==
    IF consumer = "ptc" THEN MergeCalls(calls, delta) ELSE LastDelta(calls, delta)

Completes(delta)   == {i \in DOMAIN delta : delta[i].name = "task_complete"}
CompletesIn(delta) == consumer = "runtime" /\ Completes(delta) # {}

\* The first call of task_complete has its arguments, and with them the result.
GivesResult(delta) ==
    LET i == CHOOSE n \in Completes(delta) : \A m \in Completes(delta) : n <= m
    IN  \E source \in delta[i].args : source.whole

-----------------------------------------------------------------------------
\* The runtime stops the stream at the first sign of task_complete.
HandOver ==
    /\ streamState = "on" /\ received < Len(reply.chunks)
    /\ received' = IF provider = "pool" THEN Len(reply.chunks) ELSE received + 1
    /\ IF CompletesIn(NextDelta)
       THEN /\ collected' = NextDelta
            /\ completion' = IF GivesResult(NextDelta) THEN "given" ELSE "lost"
            /\ streamState' = "ended"
       ELSE /\ collected' = Collect(collected, NextDelta)
            /\ UNCHANGED <<completion, streamState>>
    /\ UNCHANGED <<provider, consumer, reply, streamAttempt, wasted>>

EndStream ==
    /\ streamState = "on" /\ received = Len(reply.chunks)
    /\ streamState' = "ended"
    /\ UNCHANGED <<provider, consumer, reply, received, streamAttempt, wasted, collected, completion>>

\* An error that speaks of web search is taken for a refusal of its option,
\* whatever was handed over before it; the callback keeps that, and the model
\* answers anew.
RetryWithoutSearch ==
    /\ streamState = "on" /\ streamAttempt = 1
    /\ provider = "pool" => received = 0
    /\ streamAttempt' = 2
    /\ wasted' = received
    /\ received' = 0
    /\ reply' \in RepliesTo(provider)
    /\ UNCHANGED <<provider, consumer, collected, completion, streamState>>

StreamFails ==
    /\ streamState = "on"
    /\ provider = "pool" => received = 0
    /\ streamState' = "failed"
    /\ UNCHANGED <<provider, consumer, reply, received, streamAttempt, wasted, collected, completion>>

ToolStreamNext == HandOver \/ EndStream \/ RetryWithoutSearch \/ StreamFails

ToolStreamSpec == ToolStreamInit /\ [][ToolStreamNext]_toolStreamVars

-----------------------------------------------------------------------------
(* Correctness *)

OneDelta == \E i \in DOMAIN reply.chunks : \A j \in DOMAIN reply.chunks : reply.chunks[j] # <<>> => j = i

\* Two calls that programmatic tool calling cannot tell apart.
Namesakes ==
    \E k, n \in CallsOfReply : k # n /\ ~WholeCall(k).id /\ WholeCall(k).name = WholeCall(n).name

\* The text of a call's arguments gave them.
Parses(k) == reply.asked[k].args = "parse"

\* The calls to be executed are those of the reply, each once, with all the
\* arguments of its own text if that parses and with none if it does not.  This
\* fails where the server sent them in more than one chunk: then the runtime has
\* the last piece only, which names no tool, and programmatic tool calling has
\* the names without the arguments; where programmatic tool calling makes one of
\* two calls without identifiers; and after an attempt that failed half-way
\* (openai.go:432-448, runtime.go:173-180, subagent.go:485-487,
\* service_ptc.go:109-129, pool/client.go:317-350).
WholeUnlessFragmented ==
    streamState = "ended" /\ completion = "none" /\ wasted = 0 =>
        \/ provider = "openai" /\ (Fragmented \/ (~OneDelta /\ consumer # "ptc"))
        \/ consumer = "ptc" /\ Namesakes
        \/ /\ \A k \in CallsOfReply : \E i \in DOMAIN collected : collected[i].call = k
           /\ \A i, j \in DOMAIN collected : collected[i].call = collected[j].call => i = j
           /\ \A i \in DOMAIN collected :
                 LET k == collected[i].call IN
                 /\ k \in CallsOfReply
                 /\ IF Parses(k)
                    THEN /\ collected[i].name = reply.asked[k].name
                         /\ collected[i].args = {[attempt |-> streamAttempt, call |-> k, whole |-> TRUE]}
                    ELSE collected[i].args = {}

\* A call that names a tool is one of its reply and appears once, however the
\* reply came in pieces, although an attempt that failed half-way leaves what it
\* handed over to the next one.
NamedOnce ==
    \A i, j \in DOMAIN collected :
        collected[i].name # "nameless" =>
            /\ collected[i].attempt = streamAttempt => collected[i].call \in CallsOfReply
            /\ (/\ collected[j].name # "nameless" /\ collected[j].call = collected[i].call
                /\ collected[j].attempt = collected[i].attempt) => i = j

\* The result that comes with task_complete is lost only if its arguments came
\* in pieces or do not parse (runtime.go:146-160).
ResultIsCaptured ==
    completion = "lost" =>
        \/ provider = "openai" /\ Fragmented
        \/ \E k \in CallsOfReply : reply.asked[k].name = "task_complete" /\ ~Parses(k)

\* Whoever is left with calls of two replies had an error half-way that spoke of
\* web search; the clients of the pool never hand over anything of a reply that
\* fails (openai.go:400-404, pool/client.go:369-377).
TwiceNeedsLateRefusal ==
    /\ (\E i \in DOMAIN collected : collected[i].attempt # streamAttempt) =>
           provider = "openai" /\ streamAttempt = 2 /\ wasted > 0
    /\ streamState = "failed" /\ provider = "pool" => collected = <<>>

ToolStreamInv ==
    /\ ToolStreamTypeOK /\ WholeUnlessFragmented /\ NamedOnce /\ ResultIsCaptured
    /\ TwiceNeedsLateRefusal
=============================================================================
