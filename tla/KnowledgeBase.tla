---------------------------- MODULE KnowledgeBase ----------------------------
(* The documents of the knowledge base: Ingest, IngestBatch, DeleteDocument   *)
(* and Reset of pkg/rag/processor/service.go over the SQLite stores of        *)
(* pkg/rag/store.  Every operation is a sequence of statements without a      *)
(* transaction; another operation, a failure or the end of the process may    *)
(* come between any two.                                                      *)
EXTENDS Naturals, FiniteSets

CONSTANTS
    Documents,     \* the ingests, one document each
    InBatch,       \* those of them that IngestBatch makes
    BatchLimit,    \* capacity of sem
    LastChunk,     \* the chunks of a document are 1..LastChunk
    Blanks,        \* the sets of chunks for which an embedder may return no vector
    MaxRowTroubles \* bound: failures of a statement and ends of the process

ASSUME KnowledgeAssumption ==
    /\ IsFiniteSet(Documents) /\ InBatch \subseteq Documents
    /\ BatchLimit \in Nat \ {0} /\ LastChunk \in Nat \ {0}
    /\ Blanks \subseteq SUBSET (1..LastChunk)
    /\ MaxRowTroubles \in Nat

VARIABLES
    documents,   \* the rows of documents
    vectors,     \* the rows of chunks, <<document, chunk>>
    ingest,      \* the calls of Ingest
    batch,       \* the call of IngestBatch
    responses,   \* what it has collected
    deletion,    \* the calls of DeleteDocument
    resetCall,   \* the call of Reset
    rowTroubles, \* so far
    removedFrom  \* history: documents whose rows a deletion or a reset removed

storedVars == <<documents, vectors, removedFrom>>
ingestVars == <<ingest, batch, responses>>
removalVars == <<deletion, resetCall>>
knowledgeVars == <<storedVars, ingestVars, removalVars, rowTroubles>>

Chunks == 1..LastChunk

KnowledgeInit ==
    /\ documents = {} /\ vectors = {}
    /\ ingest = [d \in Documents |-> [at |-> "idle", out |-> "none", next |-> 1, blank |-> {}]]
    /\ batch = "idle" /\ responses = {}
    /\ deletion = [d \in Documents |-> "idle"] /\ resetCall = "idle"
    /\ rowTroubles = 0 /\ removedFrom = {}

RowTrouble == rowTroubles < MaxRowTroubles /\ rowTroubles' = rowTroubles + 1
IngestIs(d, at) == ingest[d].at = at
IngestReturns(d, out) == ingest' = [ingest EXCEPT ![d].at = "over", ![d].out = out]

-----------------------------------------------------------------------------
(* IngestBatch *)

StartBatch ==
    /\ batch = "idle" /\ InBatch # {}
    /\ batch' = "runs"
    /\ UNCHANGED <<storedVars, ingest, responses, removalVars, rowTroubles>>

\* A goroutine of the batch adds the answer of its ingest, unless it is an
\* error (that of a document without content is none), and gives back its place.
TakesIn(d) == IF ingest[d].out = "error" THEN responses ELSE responses \cup {d}

CollectResponse(d) ==
    /\ batch = "runs" /\ d \in InBatch /\ IngestIs(d, "over")
    /\ responses' = TakesIn(d)
    /\ ingest' = [ingest EXCEPT ![d].at = "told"]
    /\ UNCHANGED <<storedVars, batch, removalVars, rowTroubles>>

BatchReturns ==
    /\ batch = "runs" /\ \A d \in InBatch : IngestIs(d, "told")
    /\ batch' = "over"
    /\ UNCHANGED <<storedVars, ingest, responses, removalVars, rowTroubles>>

-----------------------------------------------------------------------------
(* Ingest *)

HoldsPlace(d) == ingest[d].at \notin {"idle", "told", "lost"}

\* Validation, the content, its chunks and their vectors, of which an embedder
\* may return empty ones; all before the first statement.
Prepare(d) ==
    /\ IngestIs(d, "idle")
    /\ d \in InBatch => /\ batch = "runs"
                        /\ Cardinality({c \in InBatch : HoldsPlace(c)}) < BatchLimit
    /\ \/ \E out \in {"error", "empty"} : IngestReturns(d, out)
       \/ \E blank \in Blanks :
             ingest' = [ingest EXCEPT ![d].at = "document", ![d].blank = blank]
    /\ UNCHANGED <<storedVars, batch, responses, removalVars, rowTroubles>>

StoreDocument(d) ==
    /\ IngestIs(d, "document")
    /\ documents' = documents \cup {d}
    /\ ingest' = [ingest EXCEPT ![d].at = "chunks"]
    /\ UNCHANGED <<vectors, removedFrom, batch, responses, removalVars, rowTroubles>>

StoreDocumentFails(d) ==
    /\ IngestIs(d, "document") /\ RowTrouble
    /\ IngestReturns(d, "error")
    /\ UNCHANGED <<storedVars, batch, responses, removalVars>>

\* A chunk without a vector is skipped without a word; one with a vector needs
\* the row of its document, for the foreign key.
Skips(d) == ingest[d].next \in ingest[d].blank
MoreChunks(d) == IngestIs(d, "chunks") /\ ingest[d].next <= LastChunk
GoToNextChunk(d) == ingest' = [ingest EXCEPT ![d].next = @ + 1]

StoreChunk(d) ==
    /\ MoreChunks(d) /\ (Skips(d) \/ d \in documents)
    /\ vectors' = IF Skips(d) THEN vectors ELSE vectors \cup {<<d, ingest[d].next>>}
    /\ GoToNextChunk(d)
    /\ UNCHANGED <<documents, removedFrom, batch, responses, removalVars, rowTroubles>>

Wrong_AfterChunkFails(d) == GoToNextChunk(d)

AfterChunkFails(d) == IngestReturns(d, "error")

StoreChunkFails(d) ==
    /\ MoreChunks(d) /\ ~Skips(d)
    /\ (d \notin documents /\ UNCHANGED rowTroubles) \/ RowTrouble
    /\ AfterChunkFails(d)
    /\ UNCHANGED <<storedVars, batch, responses, removalVars>>

IngestSucceeds(d) ==
    /\ IngestIs(d, "chunks") /\ ingest[d].next > LastChunk
    /\ IngestReturns(d, "ok")
    /\ UNCHANGED <<storedVars, batch, responses, removalVars, rowTroubles>>

-----------------------------------------------------------------------------
(* DeleteDocument, of a document that is listed, and Reset *)

RowsOf(d) == {v \in vectors : v[1] = d}

DeleteVectors(d) ==
    /\ deletion[d] = "idle" /\ d \in documents
    /\ vectors' = vectors \ RowsOf(d)
    /\ removedFrom' = removedFrom \cup {d}
    /\ deletion' = [deletion EXCEPT ![d] = "row"]
    /\ UNCHANGED <<documents, ingestVars, resetCall, rowTroubles>>

\* With the chunks that were added meanwhile, which the foreign key either
\* cascades to or protects.
DeleteRow(d) ==
    /\ deletion[d] = "row" /\ d \in documents
    /\ documents' = documents \ {d} /\ vectors' = vectors \ RowsOf(d)
    /\ removedFrom' = removedFrom \cup {d}
    /\ deletion' = [deletion EXCEPT ![d] = "ok"]
    /\ UNCHANGED <<ingestVars, resetCall, rowTroubles>>

\* A reset has taken the row, the foreign key protects it, or the disk fails.
DeleteFails(d) ==
    /\ \/ deletion[d] = "row" /\ (d \notin documents \/ RowsOf(d) # {}) /\ UNCHANGED rowTroubles
       \/ deletion[d] # "ok" /\ d \in documents /\ RowTrouble
    /\ deletion' = [deletion EXCEPT ![d] = "idle"]
    /\ UNCHANGED <<storedVars, ingestVars, resetCall>>

\* Clear of the vector store, and again of the document store.
ClearStore(from, to) ==
    /\ resetCall = from
    /\ documents' = {} /\ vectors' = {}
    /\ removedFrom' = removedFrom \cup documents
    /\ resetCall' = to
    /\ UNCHANGED <<ingestVars, deletion, rowTroubles>>

ResetVectors == ClearStore("idle", "documents")
ResetDocuments == ClearStore("documents", "idle")

ResetFails ==
    /\ RowTrouble /\ resetCall' = "idle"
    /\ UNCHANGED <<storedVars, ingestVars, deletion>>

-----------------------------------------------------------------------------
\* The process ends: the rows stay, the calls under way are lost.
KnowledgeProcessEnds ==
    /\ RowTrouble
    /\ ingest' = [d \in Documents |->
                     IF IngestIs(d, "idle") THEN ingest[d] ELSE [ingest[d] EXCEPT !.at = "lost"]]
    /\ batch' = IF batch = "runs" THEN "lost" ELSE batch
    /\ deletion' = [d \in Documents |-> IF deletion[d] = "row" THEN "idle" ELSE deletion[d]]
    /\ resetCall' = "idle"
    /\ UNCHANGED <<storedVars, responses>>

IngestStep(d) ==
    \/ Prepare(d) \/ StoreDocument(d) \/ StoreDocumentFails(d)
    \/ StoreChunk(d) \/ StoreChunkFails(d) \/ IngestSucceeds(d) \/ CollectResponse(d)

KnowledgeNext ==
    \/ StartBatch \/ BatchReturns \/ ResetVectors \/ ResetDocuments \/ ResetFails
    \/ KnowledgeProcessEnds
    \/ \E d \in Documents :
          \/ IngestStep(d) \/ DeleteVectors(d) \/ DeleteRow(d) \/ DeleteFails(d)

KnowledgeSpec == KnowledgeInit /\ [][KnowledgeNext]_knowledgeVars

-----------------------------------------------------------------------------
KnowledgeTypeOK ==
    /\ documents \subseteq Documents /\ vectors \subseteq Documents \X Chunks
    /\ \A d \in Documents :
          /\ ingest[d].at \in {"idle", "document", "chunks", "over", "told", "lost"}
          /\ ingest[d].out \in {"none", "ok", "empty", "error"} /\ ingest[d].next \in 1..LastChunk + 1
    /\ responses \subseteq InBatch /\ rowTroubles <= MaxRowTroubles

\* A document whose ingest was answered with success is listed with every chunk
\* that has a vector, through crashes and failures of other calls, unless a
\* deletion or a reset has come to its rows (service.go:187).
IngestedIsWhole ==
    \A d \in Documents :
        ingest[d].out = "ok" /\ d \notin removedFrom =>
            d \in documents /\ \A c \in Chunks \ ingest[d].blank : <<d, c>> \in vectors

\* A deletion answered with success has removed the document with all its
\* chunks for good, even if its ingest was still storing them (service.go:582).
DeletedStaysGone ==
    \A d \in Documents : deletion[d] = "ok" => d \notin documents /\ RowsOf(d) = {}

\* The batch answers when all its ingests have, with those that did not end in
\* an error, whatever was deleted meanwhile (service.go:238).
BatchTellsSuccesses ==
    batch = "over" => responses = {d \in InBatch : ingest[d].out \in {"ok", "empty"}}

\* What the knowledge base promises of its documents, half-done calls included.
KnowledgeInv ==
    KnowledgeTypeOK /\ IngestedIsWhole /\ DeletedStaysGone /\ BatchTellsSuccesses
=============================================================================
