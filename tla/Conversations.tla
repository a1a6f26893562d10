---------------------------- MODULE Conversations ----------------------------
(***************************************************************************)
(* The conversations that the LLM service, the RAG service and the MCP     *)
(* service keep (the Chat API of pkg/llm, pkg/rag and pkg/mcp): a map from *)
(* identifiers to conversations, behind a lock, and the messages of each,  *)
(* which ChatWithID reads and writes without it.                           *)
(*                                                                         *)
(* A conversation is a number; those that ResetConversation took out of    *)
(* the map live on for the calls that found them before.                   *)
(***************************************************************************)
EXTENDS Integers, SequencesExt

CONSTANTS
    ConvIds,        \* identifiers that callers use
    ChatCalls,      \* calls of ChatWithID, directly or by Chat
    MaxConversations, MaxPrompts

ASSUME ConversationsAssumption == MaxConversations \in Nat \ {0} /\ MaxPrompts \in Nat

VARIABLES
    conversationOf,  \* the map: the conversation of an identifier, or 0
    conversations,   \* conversations made so far
    messages,        \* what each conversation says
    chat,            \* where each call is, with its conversation and what it read
    sentPrompt,      \* the messages that each call sent to the model
    prompts,         \* calls of SetSystemPrompt
    interleaved      \* history: conversations with a call while another was on

convVars == <<conversationOf, conversations, messages, chat, sentPrompt, prompts, interleaved>>

Conversation == 1..MaxConversations
QuestionOf(k)  == [role |-> "user", of |-> k]
AnswerTo(k)    == [role |-> "assistant", of |-> k]
System(n)    == [role |-> "system", of |-> n]
Message      == {QuestionOf(k) : k \in ChatCalls} \cup {AnswerTo(k) : k \in ChatCalls}
                    \cup {System(n) : n \in 1..MaxPrompts}
ChatAt       == {"idle", "found", "asking", "asked", "sent", "answering", "answered", "failed"}

ConversationsTypeOK ==
    /\ conversationOf \in [ConvIds -> 0..MaxConversations]
    /\ conversations \in 0..MaxConversations
    /\ \A c \in Conversation : Range(messages[c]) \subseteq Message
    /\ \A k \in ChatCalls : chat[k].at \in ChatAt /\ chat[k].conv \in 0..MaxConversations

ConversationsInit ==
    /\ conversationOf = [i \in ConvIds |-> 0]
    /\ conversations = 0
    /\ messages = [c \in Conversation |-> <<>>]
    /\ chat = [k \in ChatCalls |-> [at |-> "idle", conv |-> 0, read |-> <<>>]]
    /\ sentPrompt = [k \in ChatCalls |-> <<>>]
    /\ prompts = 0
    /\ interleaved = {}

-----------------------------------------------------------------------------
OnCalls(c) == {k \in ChatCalls : chat[k].conv = c /\ chat[k].at \notin {"answered", "failed"}}

\* The critical section at the head of ChatWithID; Chat first takes any
\* conversation there is, or makes one.
FindConversation(k, i) ==
    /\ chat[k].at = "idle"
    /\ LET c == IF conversationOf[i] # 0 THEN conversationOf[i] ELSE conversations + 1 IN
       /\ c \in Conversation
       /\ conversationOf' = [conversationOf EXCEPT ![i] = c]
       /\ conversations' = IF c > conversations THEN c ELSE conversations
       /\ chat' = [chat EXCEPT ![k].at = "found", ![k].conv = c]
       /\ interleaved' = IF OnCalls(c) # {} THEN interleaved \cup {c} ELSE interleaved
    /\ UNCHANGED <<messages, sentPrompt, prompts>>

\* conv.Messages = append(conv.Messages, m) is a read and a write.
ReadMessages(k) ==
    /\ chat[k].at \in {"found", "sent"}
    /\ chat' = [chat EXCEPT ![k].read = messages[chat[k].conv],
                            ![k].at = IF @ = "found" THEN "asking" ELSE "answering"]
    /\ UNCHANGED <<conversationOf, conversations, messages, sentPrompt, prompts, interleaved>>

AskQuestion(k) ==
    /\ chat[k].at = "asking"
    /\ messages' = [messages EXCEPT ![chat[k].conv] = Append(chat[k].read, QuestionOf(k))]
    /\ chat' = [chat EXCEPT ![k].at = "asked", ![k].read = <<>>]
    /\ UNCHANGED <<conversationOf, conversations, sentPrompt, prompts, interleaved>>

\* What is sent is read again; RAG fetches its context before that, which may
\* fail the call.
SendPrompt(k) ==
    /\ chat[k].at = "asked"
    /\ sentPrompt' = [sentPrompt EXCEPT ![k] = messages[chat[k].conv]]
    /\ chat' = [chat EXCEPT ![k].at = "sent"]
    /\ UNCHANGED <<conversationOf, conversations, messages, prompts, interleaved>>

\* A call that fails leaves its question in the conversation.
MessagesAfterFailure(k) == messages[chat[k].conv]

CallOfModelFails(k) ==
    /\ chat[k].at \in {"asked", "sent"}
    /\ chat' = [chat EXCEPT ![k].at = "failed"]
    /\ messages' = [messages EXCEPT ![chat[k].conv] = MessagesAfterFailure(k)]
    /\ UNCHANGED <<conversationOf, conversations, sentPrompt, prompts, interleaved>>

AddAnswer(k) ==
    /\ chat[k].at = "answering"
    /\ messages' = [messages EXCEPT ![chat[k].conv] = Append(chat[k].read, AnswerTo(k))]
    /\ chat' = [chat EXCEPT ![k].at = "answered", ![k].read = <<>>]
    /\ UNCHANGED <<conversationOf, conversations, sentPrompt, prompts, interleaved>>

\* SetSystemPrompt of the LLM service: under the lock, which the appends
\* above do not take.
SetSystemPrompt(i) ==
    LET c == conversationOf[i]
        said == messages[c]
        rest == IF said # <<>> /\ said[1].role = "system" THEN Tail(said) ELSE said IN
    /\ c # 0
    /\ prompts < MaxPrompts
    /\ prompts' = prompts + 1
    /\ messages' = [messages EXCEPT ![c] = <<System(prompts')>> \o rest]
    /\ interleaved' = IF OnCalls(c) # {} THEN interleaved \cup {c} ELSE interleaved
    /\ UNCHANGED <<conversationOf, conversations, chat, sentPrompt>>

\* The map is made anew, with one empty conversation.
ResetConversation(i) ==
    /\ conversations < MaxConversations
    /\ conversations' = conversations + 1
    /\ conversationOf' = [j \in ConvIds |-> IF j = i THEN conversations' ELSE 0]
    /\ UNCHANGED <<messages, chat, sentPrompt, prompts, interleaved>>

ConversationsNext ==
    \/ \E k \in ChatCalls :
           \/ \E i \in ConvIds : FindConversation(k, i)
           \/ ReadMessages(k) \/ AskQuestion(k) \/ SendPrompt(k)
           \/ CallOfModelFails(k) \/ AddAnswer(k)
    \/ \E i \in ConvIds : SetSystemPrompt(i) \/ ResetConversation(i)

ConversationsSpec == ConversationsInit /\ [][ConversationsNext]_convVars

-----------------------------------------------------------------------------
(* Correctness *)

Says(c, m) == m \in Range(messages[c])

\* A conversation loses a message, or has an answer without its question in
\* front of it, only if two calls, or a call and a new system prompt, were on
\* at a time (llm/service.go:201-225, 280-291).
LossNeedsCrossing ==
    \A k \in ChatCalls : LET c == chat[k].conv IN
        c # 0 /\ c \notin interleaved =>
            /\ chat[k].at \in {"asked", "sent", "answering", "answered", "failed"} =>
                   Says(c, QuestionOf(k))
            /\ chat[k].at = "answered" =>
                   \E n \in 1..(Len(messages[c]) - 1) :
                       messages[c][n] = QuestionOf(k) /\ messages[c][n + 1] = AnswerTo(k)

\* Nothing is said twice, whatever overlaps; and only those whose call came
\* back with an answer have one.
NothingSaidTwice ==
    \A c \in Conversation :
        /\ IsInjective(messages[c])
        /\ \A k \in ChatCalls : Says(c, AnswerTo(k)) => chat[k].at = "answered"

\* The model is asked with the story so far: the question comes last, unless
\* calls were interleaved, and whoever was answered before in this conversation is there.
AskedWithTheStory ==
    \A k \in ChatCalls : LET c == chat[k].conv IN
        sentPrompt[k] # <<>> /\ c \notin interleaved =>
            /\ Last(sentPrompt[k]) = QuestionOf(k)
            /\ \A m \in Range(messages[c]) :
                   m.role = "user" /\ m.of # k =>
                       \/ m \in Range(sentPrompt[k])
                       \/ QuestionOf(k) \in Range(sentPrompt[m.of])
                       \/ sentPrompt[m.of] = <<>>

\* What is left of a conversation that was reset comes into no other: a call
\* speaks in the conversation that it found (llm/service.go:253-265).
NoMixing ==
    \A c \in Conversation : \A k \in ChatCalls :
        Says(c, QuestionOf(k)) \/ Says(c, AnswerTo(k)) => chat[k].conv = c

ConversationsInv ==
    /\ ConversationsTypeOK /\ LossNeedsCrossing /\ NothingSaidTwice /\ AskedWithTheStory
    /\ NoMixing
=============================================================================
