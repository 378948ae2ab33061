----------------------------- MODULE TextPipeline -----------------------------
(* One document through the stages of a run that compute: its file is parsed, *)
(* the text cleaned, split and packed into chunks, and the chunks embedded in *)
(* batches by a provider that answers in any order, short, or not at all.     *)
EXTENDS TextChunking, TextIntake

CONSTANT BatchSize   \* embedding_batch_size

ASSUME PipelineAssumption == BatchSize \in Nat \ {0}

VARIABLES
  clean,     \* CleanedDocument: text and source_map
  pieces,    \* the pieces not packed yet
  current,   \* the pieces of the chunk being packed
  chunks,    \* the chunks emitted
  sent,      \* how many chunks were sent to the provider
  vectors    \* the chunk each vector was computed from, in the order kept

runVars == <<clean, pieces, current, chunks, sent, vectors>>
vars == <<intakeVars, runVars>>

Source == extracted.text

\* Formats without pages carry none.
Pages == PageSpans(extracted.parts)

-----------------------------------------------------------------------------
(* Clean and chunk *)

Clean ==
  /\ Doing("clean")
  /\ clean' = CleanText(Source)
  /\ stage' = "chunk"
  /\ UNCHANGED <<file, read, type, extracted, failed, pieces, current, chunks, sent, vectors>>

SplitText ==
  /\ Doing("chunk")
  /\ pieces' = Split(clean.text)
  /\ stage' = "pack"
  /\ UNCHANGED <<file, read, type, extracted, failed, clean, current, chunks, sent, vectors>>

\* One round of the packing loop: the chunk is emitted when the piece does not
\* fit in it, and the next one starts with what it carries over.
PackPiece ==
  /\ Doing("pack") /\ pieces # <<>>
  /\ LET piece == Head(pieces)
         full == /\ current # <<>>
                 /\ TotalCost(clean.text, current) + Cost(clean.text, piece) > ChunkSize
     IN
     /\ chunks' = IF full THEN Append(chunks, Emit(clean, Pages, current)) ELSE chunks
     /\ current' = Append(IF full THEN Carried(clean.text, current, piece) ELSE current,
                          piece)
  /\ pieces' = Tail(pieces)
  /\ UNCHANGED <<intakeVars, clean, sent, vectors>>

\* The end of the loop: what is left is the last chunk.
PackRest ==
  /\ Doing("pack") /\ pieces = <<>>
  /\ chunks' = IF current = <<>> THEN chunks
               ELSE Append(chunks, Emit(clean, Pages, current))
  /\ current' = <<>>
  /\ stage' = "persist"
  /\ UNCHANGED <<file, read, type, extracted, failed, clean, pieces, sent, vectors>>

ChunkText(chunk) == Slice(clean.text, chunk.start, chunk.end)

\* document_chunks_text_not_empty: btrim takes off spaces and nothing else.
OnlySpaces(text) == ToSet(text) \subseteq {" "}

\* The chunk table takes no text without anything but spaces, and Postgres none
\* with a NUL.
Storable(text) == "nul" \notin ToSet(text) /\ ~OnlySpaces(text)

\* One insert for all chunks.
Persist ==
  LET storable == \A c \in ToSet(chunks) : Storable(ChunkText(c)) IN
  /\ Doing("persist")
  /\ \/ storable /\ stage' = "embed" /\ UNCHANGED failed
     \/ ~storable /\ failed' = TRUE /\ UNCHANGED stage
  /\ UNCHANGED <<file, read, type, extracted, runVars>>

-----------------------------------------------------------------------------
(* Embed *)

\* validate_input: a blank text is refused before anything is sent. The table
\* has let those of other whitespace than spaces pass.
Refused == \E i \in 1..Len(chunks) : IsBlank(ChunkText(chunks[i]))

\* The next batch, as positions in the document.
Batch == {i \in 1..Len(chunks) : sent < i /\ i <= sent + BatchSize}

\* Mutant: by position in the response.
AsReceived(answer) == answer

\* _parse: the items of an answer in the order of the index each reports. An
\* answer is taken to name no index twice: the code does not check it, so a
\* provider that repeated one beside a missing one would pass unnoticed.
InOrder(answer) ==
  CHOOSE s \in SetToSeqs(ToSet(answer)) : \A i, j \in 1..Len(s) : i < j => s[i] < s[j]

\* One request: the provider answers for some of the batch, in any order, or
\* the call fails and the run with it.
EmbedBatch ==
  /\ Doing("embed") /\ Batch # {}
  /\ \/ /\ ~Refused
        /\ \E items \in SUBSET Batch :
             \E answer \in SetToSeqs(items) : vectors' = vectors \o InOrder(answer)
        /\ sent' = sent + Cardinality(Batch)
        /\ UNCHANGED failed
     \/ failed' = TRUE /\ UNCHANGED <<sent, vectors>>
  /\ UNCHANGED <<file, read, type, extracted, stage, clean, pieces, current, chunks>>

\* Fewer vectors than texts are an error of the whole call.
EmbedEnd ==
  /\ Doing("embed") /\ Batch = {}
  /\ IF Len(vectors) = Len(chunks)
     THEN stage' = "index" /\ UNCHANGED failed
     ELSE failed' = TRUE /\ UNCHANGED stage
  /\ UNCHANGED <<file, read, type, extracted, runVars>>

-----------------------------------------------------------------------------
Init ==
  /\ IntakeInit
  /\ clean = [text |-> <<>>, runs |-> {}]
  /\ pieces = <<>> /\ current = <<>> /\ chunks = <<>>
  /\ sent = 0 /\ vectors = <<>>

Next ==
  \/ IntakeNext /\ UNCHANGED runVars
  \/ Clean \/ SplitText \/ PackPiece \/ PackRest \/ Persist \/ EmbedBatch \/ EmbedEnd

Spec == Init /\ [][Next]_vars

-----------------------------------------------------------------------------
(* Properties *)

Stages == {"read", "check", "extract", "clean", "chunk", "pack", "persist", "embed", "index"}

Spanned(s, limit) == 0 <= s.start /\ s.start < s.end /\ s.end <= limit

\* The types of the pipeline's state: every piece and chunk is a span of the
\* cleaned text, every page span lies in the source.
TypeOK ==
  /\ stage \in Stages /\ failed \in BOOLEAN
  /\ type \in {"none", "pdf", "text", "markdown"}
  /\ ToSet(Source) \subseteq Char
  /\ ToSet(clean.text) \subseteq Char
  /\ \A p \in ToSet(pieces) \cup ToSet(current) :
       Spanned(p, Len(clean.text)) /\ p.end <= p.next
  /\ \A c \in ToSet(chunks) :
       /\ Spanned(c, Len(clean.text))
       /\ c.sourceStart < c.sourceEnd /\ c.sourceEnd <= Len(Source)
       /\ c.pages \subseteq 1..Len(Pages)
  /\ ToSet(vectors) \subseteq 1..Len(chunks)

Offsets == 0..Len(clean.text) - 1
SourceOf(i) == ToSource(clean.runs, i)
Visible == Char \ (Space \cup Invisible)

\* A cleaned character is the source character or its substitute.
Corresponds(s, c) == c = s \/ <<s, c>> \in {<<"\r", "\n">>, <<"\t", " ">>}

\* Every offset of the cleaned text leads back to the character it was made
\* from, in the order of the source: a citation highlights what it quotes
\* (OffsetMap is "exact rather than approximate").
ProvenanceExact ==
  stage = "chunk" =>
    /\ \A i \in Offsets : Corresponds(At(Source, SourceOf(i)), At(clean.text, i))
    /\ \A i \in Offsets : i > 0 => SourceOf(i - 1) < SourceOf(i)

\* The break of a word hyphenated at the end of a line.
BreakHyphen(s) ==
  /\ At(Source, s) = "-" /\ At(Source, s + 1) = "\n"
  /\ At(Source, s - 1) \in Letter /\ At(Source, s + 2) \in Letter

\* Cleaning removes no visible character but the hyphen of a broken word, and
\* never joins two words the source keeps apart ("cleaning is lossless with
\* respect to meaning").
CleaningLossless ==
  stage = "chunk" =>
    /\ \A s \in 0..Len(Source) - 1 :
         At(Source, s) \in Visible =>
           BreakHyphen(s) \/ \E i \in Offsets : SourceOf(i) = s
    /\ \A i \in Offsets :
         {At(clean.text, i), At(clean.text, i + 1)} \subseteq Visible =>
           \A s \in SourceOf(i) + 1..SourceOf(i + 1) - 1 :
             At(Source, s) \in Space => BreakHyphen(s - 1)

Chunked == stage = "embed"

\* The source span of a chunk holds the source of every character of the chunk
\* and of no other, whatever was deleted at its ends.
SpansExact ==
  Chunked =>
    \A c \in ToSet(chunks) : \A i \in Offsets :
      i \in c.start..c.end - 1 <=> SourceOf(i) \in c.sourceStart..c.sourceEnd - 1

\* A bracket or quote that closes a sentence: it belongs to the boundary.
Closing(i) ==
  \E k \in 0..i - 1 : /\ At(clean.text, k) \in Terminal
                      /\ \A j \in k + 1..i : At(clean.text, j) \in Closer

\* Every visible character reaches a chunk, those that close a sentence apart.
TextCovered ==
  Chunked =>
    \A i \in Offsets :
      \/ At(clean.text, i) \notin Visible \/ Closing(i)
      \/ \E c \in ToSet(chunks) : i \in c.start..c.end - 1

\* No whitespace between two visible characters.
Unbroken(text) ==
  \A i, j, k \in 1..Len(text) :
    (i < j /\ j < k /\ text[j] \in Space) => (text[i] \in Space \/ text[k] \in Space)

\* A stretch without a boundary inside that is too long for a chunk, with
\* whitespace at one end: a long word and its indent.
IndentedLongWord ==
  \E i, j \in 0..Len(clean.text) :
    LET w == Slice(clean.text, i, j)
    IN  /\ Unbroken(w) /\ Count(w) > ChunkSize
        /\ {At(w, 0), At(w, Len(w) - 1)} \cap Space # {}

\* What a look at the sample cannot see: a PDF header in what is none, a byte
\* that does not decode at the end of the sample or behind it, a NUL behind it
\* or in a PDF, no text at all, or a long word whose indent makes a chunk of
\* its own. An accepted file fails for one of these alone.
FailureExplained ==
  failed /\ stage \in {"extract", "persist"} =>
    LET bytes == file.bytes
        bad == Decode(bytes).bad
    IN  \/ type = "pdf" /\ IsBlank(Joined(file.pages))
        \/ type # "pdf" /\ bad < Len(bytes) /\ bad >= Min({Sniff, Len(bytes)}) - Margin
        \/ stage = "persist" /\ \E i \in Sniff + 1..Len(bytes) : bytes[i] = "nul"
        \/ stage = "persist" /\ \E i \in 1..Len(file.pages) : "nul" \in ToSet(file.pages[i])
        \/ type # "pdf" /\ Decodes(bytes) /\ IsBlank(Parsed.text)
        \/ stage = "persist" /\ IndentedLongWord

\* More than one blank line: what cleaning leaves where artefacts stood between
\* the newlines.
BlankLines(text) ==
  \E i \in 1..Len(text) :
    Cardinality({j \in i..RunEnd(text, i - 1, Space) : text[j] = "\n"}) >= 3

\* Each chunk starts and ends after the one before it, whatever it repeats of
\* that one: packing neither stands still nor takes text back.
ChunksAdvance ==
  Chunked =>
    \A k \in 1..Len(chunks) - 1 : /\ chunks[k].start < chunks[k + 1].start
                                  /\ chunks[k].end < chunks[k + 1].end

\* Blank lines in a row may take either budget over its limit: no piece pays for
\* more than the first of them.
OverlapKept(former, chunk) ==
  LET repeated == Slice(clean.text, chunk.start, former.end)
  IN  Count(repeated) <= Overlap \/ BlankLines(repeated)

\* So may, for the size, a stretch without a boundary that is cut by counting
\* characters.
SizeKept(chunk) ==
  \/ chunk.tokens <= ChunkSize
  \/ Unbroken(ChunkText(chunk)) \/ BlankLines(ChunkText(chunk))

\* A chunk repeats no more of the one before it than the overlap allows and
\* keeps to the configured size, the separators between its pieces included.
BudgetsKept ==
  Chunked =>
    /\ \A k \in 1..Len(chunks) - 1 : OverlapKept(chunks[k], chunks[k + 1])
    /\ \A k \in 1..Len(chunks) : SizeKept(chunks[k])

\* The pages a chunk's characters lie on.
PagesTouched(c) == {PageAt(Pages, SourceOf(i)) : i \in c.start..c.end - 1} \ {0}

\* A chunk that starts and ends on a page is attributed to both and to all
\* between. None is attributed to pages it only starts before or ends behind.
PagesAttributed ==
  Chunked =>
    \A c \in ToSet(chunks) :
      /\ 0 \notin {PageAt(Pages, SourceOf(c.start)), PageAt(Pages, SourceOf(c.end - 1))} =>
           PagesTouched(c) \subseteq c.pages
      /\ c.pages # {} => {Min(c.pages), Max(c.pages)} \subseteq PagesTouched(c)

\* A run that goes on to the graph has one vector for every chunk, and it is
\* the chunk's own, however the provider ordered or shortened its answers.
VectorsBelong ==
  stage = "index" => vectors = [i \in 1..Len(chunks) |-> i]

=============================================================================
