----------------------------- MODULE TextChunking -----------------------------
(* TextChunker: the pieces of a cleaned text, found at paragraphs, then at   *)
(* sentences, then at words and at last by counting characters, and the      *)
(* chunks packed from them. Token counts are those of HeuristicTokenizer.    *)
EXTENDS TextCleaning

CONSTANTS
  ChunkSize,      \* chunk_size_tokens
  Overlap,        \* chunk_overlap_tokens
  CharsPerToken   \* HeuristicTokenizer._CHARS_PER_TOKEN (4)

ASSUME ChunkingAssumption ==
  /\ ChunkSize \in Nat \ {0}
  /\ Overlap \in 0..ChunkSize - 1
  /\ CharsPerToken \in Nat \ {0}

-----------------------------------------------------------------------------
(* Tokens *)

CeilDiv(n, d) == (n + d - 1) \div d

\* The characters of a text that begin a token: of a word every letter that
\* comes CharsPerToken after the last, from the first on, and each other visible
\* character and each newline.
TokenStarts(text) ==
  LET Word(i) == {k \in 0..i : \A j \in k..i : At(text, j) \in Letter}
  IN  {i \in 0..Len(text) - 1 :
         CASE At(text, i) \in Letter -> (i - Min(Word(i))) % CharsPerToken = 0
           [] At(text, i) \in Space  -> At(text, i) = "\n"
           [] OTHER                  -> TRUE}

\* A text that is not empty has one token at least.
Count(text) ==
  IF text = <<>> THEN 0 ELSE Max({Cardinality(TokenStarts(text)), 1})

-----------------------------------------------------------------------------
(* Splitting *)

\* Where a boundary that begins at p ends, p if none does.
ParagraphBreak(text, p) ==
  LET q == RunEnd(text, p + 1, Blank)
  IN  IF At(text, p) = "\n" /\ At(text, q) = "\n" THEN q + 1 ELSE p

SentenceBreak(text, p) ==
  LET q == RunEnd(text, p, Closer)
  IN  IF At(text, p - 1) \in Terminal /\ At(text, q) \in Space
      THEN RunEnd(text, q, Space) ELSE p

WordBreak(text, p) == RunEnd(text, p, Space)

BreakEnd(level, text, p) ==
  CASE level = 0 -> ParagraphBreak(text, p)
    [] level = 1 -> SentenceBreak(text, p)
    [] level = 2 -> WordBreak(text, p)

\* The boundaries of text[start:end], from left to right.
Breaks(level, text, start, end) ==
  LET window == Slice(text, 0, end)
      from[p \in start..end] ==
        IF p = end THEN <<>>
        ELSE LET q == BreakEnd(level, window, p)
             IN  IF q = p THEN from[p + 1]
                 ELSE <<[start |-> p, end |-> q]>> \o from[q]
  IN from[start]

\* What lies between the boundaries, each part with the start of the next. The
\* code leaves out the empty parts; here they stay and hold no piece.
Segments(level, text, start, end) ==
  LET breaks == Breaks(level, text, start, end)
      last == Len(breaks)
  IN [i \in 1..last + 1 |->
        [start |-> IF i = 1 THEN start ELSE breaks[i - 1].end,
         end   |-> IF i > last THEN end ELSE breaks[i].start,
         next  |-> IF i > last THEN end ELSE breaks[i].end]]

\* A boundary divides a span when something is left on both sides of it.
Divides(segments) ==
  \E i, j \in 1..Len(segments) :
    i < j /\ \A k \in {i, j} : segments[k].start < segments[k].end

Piece(start, end, next) == [start |-> start, end |-> end, next |-> next]

\* The characters a chunk's worth of this span's tokens takes on average.
Window(span) == Max({(ChunkSize * Len(span)) \div Max({Count(span), 1}), ChunkSize})

\* Mutant: the last window is not clipped to the span.
ByCharactersUnclipped(text, start, end) ==
  LET window == Window(Slice(text, start, end))
      Stop(i) == start + i * window
  IN  [i \in 1..CeilDiv(end - start, window) |->
         Piece(Stop(i - 1), Stop(i), Stop(i))]

\* Mutant: a rest shorter than a window is lost.
ByCharactersWhole(text, start, end) ==
  LET window == Window(Slice(text, start, end))
      Stop(i) == Min({start + i * window, end})
  IN  [i \in 1..(end - start) \div window |->
         Piece(Stop(i - 1), Stop(i), Stop(i))]

\* Windows of that many characters.
ByCharacters(text, start, end) ==
  LET window == Window(Slice(text, start, end))
      Stop(i) == Min({start + i * window, end})
  IN  [i \in 1..CeilDiv(end - start, window) |->
         Piece(Stop(i - 1), Stop(i), Stop(i))]

\* The last inner piece takes over the successor of the segment it ends.
Inherit(inner, next) ==
  IF inner = <<>> THEN <<>>
  ELSE [inner EXCEPT ![Len(inner)].next = next]

\* _split_by, from level 0: the pieces of text, none of them blank.
Split(text) ==
  LET by[call \in (0..3) \X (0..Len(text)) \X (0..Len(text))] ==
        LET level == call[1]
            start == call[2]
            end == call[3]
            span == Slice(text, start, end)
            segments == Segments(level, text, start, end)
        IN CASE IsBlank(span) -> <<>>
             [] ~IsBlank(span) /\ Count(span) <= ChunkSize ->
                  <<Piece(start, end, end)>>
             [] ~IsBlank(span) /\ Count(span) > ChunkSize /\ level > 2 ->
                  ByCharacters(text, start, end)
             [] OTHER ->
                  IF ~Divides(segments) THEN by[<<level + 1, start, end>>]
                  ELSE FlattenSeq([i \in 1..Len(segments) |->
                         Inherit(by[<<level + 1, segments[i].start, segments[i].end>>],
                                 segments[i].next)])
  IN by[<<0, 0, Len(text)>>]

-----------------------------------------------------------------------------
(* Packing *)

\* A piece costs the tokens of its span and of the separator after it.
Cost(text, piece) == Count(Slice(text, piece.start, piece.next))

TotalCost(text, pieces) ==
  LET sum[k \in 0..Len(pieces)] ==
        IF k = 0 THEN 0 ELSE sum[k - 1] + Cost(text, pieces[k])
  IN sum[Len(pieces)]

\* Mutant: the budget is compared after the piece is taken.
LongestSuffixLate(text, pieces, budget) ==
  LET fitting == {k \in 1..Len(pieces) + 1 :
                    TotalCost(text, SubSeq(pieces, k, Len(pieces))) <= budget}
  IN  SubSeq(pieces, Max({Min(fitting) - 1, 1}), Len(pieces))

\* The longest end of pieces that costs at most budget.
LongestSuffix(text, pieces, budget) ==
  LET fitting == {k \in 1..Len(pieces) + 1 :
                    TotalCost(text, SubSeq(pieces, k, Len(pieces))) <= budget}
  IN  SubSeq(pieces, Min(fitting), Len(pieces))

\* _overlap_tail: never the first piece, so that the next chunk starts later.
OverlapTail(text, emitted) ==
  LongestSuffix(text, Tail(emitted), Overlap)

\* Mutant: the chunk is not begun anew.
CarriedAll(text, emitted, piece) == emitted

\* The overlap that is left once the next piece has to fit as well; none where
\* the piece does not fit on its own.
Carried(text, emitted, piece) ==
  LET tail == OverlapTail(text, emitted)
      room == ChunkSize - Cost(text, piece)
  IN  IF room < 0 THEN <<>> ELSE LongestSuffix(text, tail, room)

\* Mutant: the end of the span is resolved instead of its last character.
PagesCoveredToEnd(pages, runs, start, end) ==
  LET first == PageAt(pages, ToSource(runs, start))
      last  == PageAt(pages, ToSource(runs, end))
  IN IF last <= first THEN {first} \ {0}
     ELSE IF first = 0 THEN {last} ELSE first..last

\* _pages_covered: the pages from that of the first character to that of the
\* last, 0 standing for none.
PagesCovered(pages, runs, start, end) ==
  LET first == PageAt(pages, ToSource(runs, start))
      last  == PageAt(pages, ToSource(runs, Max({end - 1, start})))
  IN CASE first = 0 /\ last = 0 -> {}
       [] first = 0 /\ last # 0 -> {last}
       [] first # 0 /\ last <= first -> {first}
       [] OTHER -> first..last

\* Mutant: the offset of the last character, as if the span were closed.
SourceEndClosed(runs, end) == ToSource(runs, end - 1)

\* The end of a half-open source span.
SourceEnd(runs, end) == ToSource(runs, end)

\* _emit: the chunk that spans these pieces.
Emit(clean, pages, packed) ==
  LET start == Head(packed).start
      end == Last(packed).end
  IN  [start       |-> start,
       end         |-> end,
       sourceStart |-> ToSource(clean.runs, start),
       sourceEnd   |-> SourceEnd(clean.runs, end),
       pages       |-> PagesCovered(pages, clean.runs, start, end),
       tokens      |-> Count(Slice(clean.text, start, end))]

=============================================================================
