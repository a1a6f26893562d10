------------------------------ MODULE Retrieval ------------------------------
(***************************************************************************)
(* What retrieval rests on: documents are cut (Chunker), stored and deleted *)
(* (KnowledgeBase), and chats keep their story (Conversations).  The three *)
(* have no state in common; what must hold of them is stated here as one.  *)
(***************************************************************************)
EXTENDS KnowledgeBase, Conversations, Chunker

\* Documents are cut without loss, stored and deleted as a whole, and chats
\* keep their story.
RagInv == ChunkerInv /\ KnowledgeInv /\ ConversationsInv

RagSpec == KnowledgeSpec /\ ConversationsSpec /\ ChunkerSpec
=============================================================================
