------------------------------- MODULE Chunker -------------------------------
(***************************************************************************)
(* How a document's text is cut into chunks (pkg/rag/chunker/service.go):  *)
(* sentence by sentence up to a size, with the end of a chunk repeated at  *)
(* the head of the next, or by a number of words.                          *)
(*                                                                         *)
(* A text is a sequence of pieces, [word, chars]: the last chars characters *)
(* of that word of the document.  Words are numbered as they come, and one *)
(* space is between two pieces.                                            *)
(***************************************************************************)
EXTENDS Integers, FiniteSets, SequencesExt

CONSTANTS
    Texts,           \* documents: the words' lengths, and the last word of each sentence
    ChunkSizes, Overlaps  \* options.Size and options.Overlap, in characters

ASSUME ChunkOptionsAssumption == ChunkSizes \subseteq Nat /\ Overlaps \subseteq Nat

\* Every sentence has a word, and every word is in a sentence.
ASSUME TextsAssumption ==
    \A t \in Texts :
        /\ t.words \in Seq(Nat \ {0}) /\ t.ends \in Seq(DOMAIN t.words)
        /\ \A s \in DOMAIN t.ends : s > 1 => t.ends[s - 1] < t.ends[s]
        /\ IF t.ends = <<>> THEN t.words = <<>> ELSE Last(t.ends) = Len(t.words)

VARIABLES
    text, size, chunkOverlap, method,
    taken,        \* sentences taken, or the next word to start with
    current,      \* the pieces of the current chunk
    chunks,       \* the chunks made
    starts,       \* history: pieces each chunk has from the one before
    cutDone

chunkVars == <<text, size, chunkOverlap, method, taken, current, chunks, starts, cutDone>>

Words       == [w \in DOMAIN text.words |-> [word |-> w, chars |-> text.words[w]]]
SentenceEnd(s) == IF s = 0 THEN 0 ELSE text.ends[s]
Sentence(s) == SubSeq(Words, SentenceEnd(s - 1) + 1, SentenceEnd(s))

\* The characters of the pieces, and of the text they make.
Chars(pieces) ==
    LET upTo[k \in 0..Len(pieces)] == IF k = 0 THEN 0 ELSE upTo[k - 1] + pieces[k].chars
    IN upTo[Len(pieces)]
Length(pieces) == Chars(pieces) + (IF pieces = <<>> THEN 0 ELSE Len(pieces) - 1)

ChunkerInit ==
    /\ text \in Texts /\ size \in ChunkSizes /\ chunkOverlap \in Overlaps
    /\ method \in {"sentence", "token"}
    /\ taken = (IF method = "sentence" THEN 0 ELSE 1)
    /\ current = <<>> /\ chunks = <<>> /\ starts = <<>>
    /\ cutDone = FALSE

-----------------------------------------------------------------------------
(* Sentences: combineChunks *)

Behind(pieces, k) == SubSeq(pieces, k + 1, Len(pieces))

\* The last n characters of a longer text: the piece that is cut, and those
\* behind it.  A space at the cut comes as an empty piece.
LastChars(pieces, n) ==
    LET k    == CHOOSE j \in DOMAIN pieces :
                    Length(Behind(pieces, j - 1)) >= n /\ (j < Len(pieces) => Length(Behind(pieces, j)) < n)
        left == IF k = Len(pieces) THEN n ELSE n - 1 - Length(Behind(pieces, k))
    IN <<[pieces[k] EXCEPT !.chars = left]>> \o Behind(pieces, k)

\* strings.TrimSpace; strings.Fields, as no piece behind the first is empty.
Trimmed(pieces) == IF pieces # <<>> /\ pieces[1].chars = 0 THEN Tail(pieces) ELSE pieces

\* getOverlapText: the whole text if it is short enough, else the end of it,
\* without its first word if there is another.
OverlapText(pieces) ==
    IF chunkOverlap <= 0 THEN <<>>
    ELSE IF Length(pieces) <= chunkOverlap THEN pieces
    ELSE LET end == LastChars(pieces, chunkOverlap)
         IN IF Len(Trimmed(end)) > 1 THEN Tail(Trimmed(end)) ELSE end

TooLong(s) == current # <<>> /\ Length(current) + 1 + Length(Sentence(s)) > size

TakeSentence ==
    LET s == taken + 1 IN
    /\ method = "sentence" /\ ~cutDone
    /\ s \in DOMAIN text.ends
    /\ taken' = s
    /\ IF TooLong(s)
       THEN /\ chunks' = Append(chunks, Trimmed(current))
            /\ starts' = Append(starts, Len(Trimmed(OverlapText(current))))
            /\ current' = OverlapText(current) \o Sentence(s)
       ELSE /\ current' = current \o Sentence(s)
            /\ UNCHANGED <<chunks, starts>>
    /\ UNCHANGED <<text, size, chunkOverlap, method, cutDone>>

EndOfSentences ==
    /\ method = "sentence" /\ ~cutDone
    /\ taken = Len(text.ends)
    /\ cutDone' = TRUE
    /\ chunks' = IF current = <<>> THEN chunks ELSE Append(chunks, Trimmed(current))
    /\ UNCHANGED <<text, size, chunkOverlap, method, taken, current, starts>>

-----------------------------------------------------------------------------
(* Words: combineWordChunks takes five characters for a word *)

WordsPerChunk == IF size \div 5 < 1 THEN 1 ELSE size \div 5
OverlapWords  == chunkOverlap \div 5

\* It goes on behind the end of the text until the overlap is used up.
NextStart(i, end) == IF end - OverlapWords <= i THEN i + 1 ELSE end - OverlapWords

TakeWords ==
    LET end == IF taken + WordsPerChunk > Len(Words) + 1 THEN Len(Words) + 1 ELSE taken + WordsPerChunk IN
    /\ method = "token" /\ ~cutDone
    /\ taken <= Len(Words)
    /\ chunks' = Append(chunks, SubSeq(Words, taken, end - 1))
    /\ taken' = NextStart(taken, end)
    /\ UNCHANGED <<text, size, chunkOverlap, method, current, starts, cutDone>>

WordsDone ==
    /\ method = "token" /\ ~cutDone
    /\ taken > Len(Words)
    /\ cutDone' = TRUE
    /\ UNCHANGED <<text, size, chunkOverlap, method, taken, current, chunks, starts>>

ChunkerNext == TakeSentence \/ EndOfSentences \/ TakeWords \/ WordsDone

ChunkerSpec == ChunkerInit /\ [][ChunkerNext]_chunkVars

-----------------------------------------------------------------------------
(* Correctness *)

\* What a chunk adds to those before it.
Fresh(i) ==
    IF i = 1 \/ method = "token" THEN chunks[i]
    ELSE SubSeq(chunks[i], starts[i - 1] + 1, Len(chunks[i]))

EndOf(i) == IF i = 0 THEN 0 ELSE Last(chunks[i]).word

\* Without what is repeated, the chunks are the text: no sentence is lost, cut
\* or out of its place, whatever the overlap (chunker/service.go:141-194).
NothingLost ==
    cutDone /\ method = "sentence" =>
        /\ \A i \in DOMAIN chunks :
              Fresh(i) # <<>> /\ Fresh(i) = SubSeq(Words, EndOf(i - 1) + 1, EndOf(i))
        /\ EndOf(Len(chunks)) = Len(Words)

\* What is repeated is the end of the chunk before, not longer than the
\* overlap, and begins with a whole word unless it is a piece of one word.
RepeatsTheEnd ==
    method = "sentence" => \A i \in DOMAIN starts : i + 1 \in DOMAIN chunks =>
        LET repeated == SubSeq(chunks[i + 1], 1, starts[i]) IN
        /\ Length(repeated) <= chunkOverlap
        /\ \/ IsSuffix(repeated, chunks[i])
           \/ Len(repeated) = 1 /\ repeated[1].word = Last(chunks[i]).word

\* A chunk is longer than the size only because of the sentence behind what it
\* repeats, and never has a second one then.
SizeUnlessOneSentence ==
    method = "sentence" => \A i \in DOMAIN chunks :
        Length(chunks[i]) > size =>
            \E s \in DOMAIN text.ends : Fresh(i) = Sentence(s)

\* By words, every chunk starts behind the one before it and no word is left
\* out; chunks that only repeat the end are not more than the overlap
\* (chunker/service.go:213-228).
WordsCovered ==
    method = "token" =>
        /\ cutDone => \A w \in Range(Words) : \E i \in DOMAIN chunks : w \in Range(chunks[i])
        /\ \A i \in DOMAIN chunks :
               /\ Len(chunks[i]) \in 1..WordsPerChunk
               /\ i > 1 => /\ chunks[i][1].word > chunks[i - 1][1].word
                           /\ chunks[i][1].word <= Last(chunks[i - 1]).word + 1
        /\ Cardinality({i \in DOMAIN chunks : i > 1 /\ IsSuffix(chunks[i], chunks[i - 1])})
               <= OverlapWords

ChunkerInv == NothingLost /\ RepeatsTheEnd /\ SizeUnlessOneSentence /\ WordsCovered
=============================================================================
