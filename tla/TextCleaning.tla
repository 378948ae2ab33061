----------------------------- MODULE TextCleaning -----------------------------
(* The text of a document before it is split: the pages a parser joins, the  *)
(* artefacts TextCleaner removes, and the map from an offset of the cleaned  *)
(* text back to the source. A text is a sequence of characters, a character  *)
(* stands for its class, and offsets count from 0 as in the code.            *)
EXTENDS Integers, FiniteSets, Sequences, SequencesExt

Letter    == {"a", "A"}           \* [a-z], [A-Z]
Terminal  == {"."}                \* . ! ?
Closer    == {")"}                \* " ' ) ]
Blank     == {" ", "\t"}          \* [ \t]
Space     == Blank \cup {"\n", "\r"}
Invisible == {"zw", "bom"}        \* zero-width characters, soft hyphens, BOM
Char      == Letter \cup Terminal \cup Closer \cup Space \cup Invisible
               \cup {"-", "%", "nul"}

\* text[i] of the code, "" outside the text.
At(text, i) == IF i \in 0..Len(text) - 1 THEN text[i + 1] ELSE ""

\* text[start:end] of the code.
Slice(text, start, end) == SubSeq(text, start + 1, end)

\* Where the run of characters of S that begins at p ends: p if there is none.
RunEnd(text, p, S) ==
  CHOOSE q \in p..Len(text) : /\ \A i \in p..q - 1 : At(text, i) \in S
                              /\ At(text, q) \notin S

\* not text.strip()
IsBlank(text) == \A i \in 1..Len(text) : text[i] \in Space

-----------------------------------------------------------------------------
(* Pages *)

PageSeparator == <<"\n", "\n">>

\* The text of an extracted document: its pages joined by the separator, or
\* the one part of a format that has no pages.
Joined(parts) ==
  FlattenSeq([i \in 1..Len(parts) |->
                IF i = 1 THEN parts[i] ELSE PageSeparator \o parts[i]])

\* The spans of the pages; the separators belong to none.
PageSpans(parts) ==
  [i \in 1..Len(parts) |->
     LET end == Len(Joined(SubSeq(parts, 1, i)))
     IN  [start |-> end - Len(parts[i]), end |-> end]]

\* The page a source offset lies on, 0 for none: the last page that starts at
\* or before it, if it does not end before it.
PageAt(pages, offset) ==
  LET starting == {i \in 1..Len(pages) : pages[i].start <= offset}
  IN  IF starting = {} \/ offset >= pages[Max(starting)].end
      THEN 0 ELSE Max(starting)

-----------------------------------------------------------------------------
(* Artefacts: the alternatives of one regular expression, in their order.    *)

Artefact == <<"lead", "trail", "cr_lf", "cr", "invisible", "hyphen", "blanks",
              "eol_space", "runs">>

\* Where the match of each alternative at p ends, p where it does not match.
MatchEnds(source, p) ==
  LET c == At(source, p)
      newlines == RunEnd(source, p, {"\n"})
      blank == RunEnd(source, p, Blank)
      white == RunEnd(source, p, Space)
      If(condition, end) == IF condition THEN end ELSE p
  IN [lead      |-> If(p = 0, white),
      trail     |-> If(white = Len(source), white),
      cr_lf     |-> If(c = "\r" /\ At(source, p + 1) = "\n", p + 1),
      cr        |-> If(c = "\r", p + 1),
      invisible |-> RunEnd(source, p, Invisible),
      hyphen    |-> If(/\ At(source, p - 1) \in Letter
                       /\ c = "-"
                       /\ At(source, p + 1) = "\n"
                       /\ At(source, p + 2) = "a", p + 2),
      blanks    |-> If(newlines >= p + 3, newlines),
      eol_space |-> If(At(source, blank) = "\n", blank),
      runs      |-> If(/\ p > 0
                       /\ At(source, p - 1) \notin Space
                       /\ blank >= p + 2, blank)]

\* Mutant: every carriage return is dropped as in a CRLF.
EmittedNoReturn(kind, source, p) ==
  CASE kind = "blanks" -> <<[char |-> "\n", source |-> p],
                            [char |-> "\n", source |-> p + 1]>>
    [] kind = "runs"   -> <<[char |-> " ", source |-> p]>>
    [] OTHER           -> <<>>

\* The characters a match leaves, each with the source offset it stands for.
\* The other alternatives are pure deletions.
Emitted(kind, source, p) ==
  CASE kind = "cr"     -> <<[char |-> "\n", source |-> p]>>
    [] kind = "blanks" -> <<[char |-> "\n", source |-> p],
                            [char |-> "\n", source |-> p + 1]>>
    [] kind = "runs"   -> <<[char |-> " ", source |-> p]>>
    [] OTHER           -> <<>>

\* finditer and the builder, from left to right: at each position the first
\* alternative that matches is taken, otherwise the character is kept.
Edited(source) ==
  LET from[p \in 0..Len(source)] ==
        IF p = Len(source) THEN <<>>
        ELSE LET ends == MatchEnds(source, p)
                 first == SelectInSeq(Artefact, LAMBDA k : ends[k] > p)
             IN  IF first = 0
                 THEN <<[char |-> At(source, p), source |-> p]>> \o from[p + 1]
                 ELSE Emitted(Artefact[first], source, p)
                        \o from[ends[Artefact[first]]]
  IN from[0]

\* Mutant: only the clean offsets are compared.
ContiguousClean(edited, i) == TRUE

\* A character extends the run of the one before it when their source offsets
\* are adjacent; their clean offsets always are.
Contiguous(edited, i) == edited[i].source = edited[i - 1].source + 1

\* The runs of the offset map.
OffsetRuns(edited) ==
  LET first == {i \in 1..Len(edited) : i = 1 \/ ~Contiguous(edited, i)}
      Next(i) == Min({j \in first : j > i} \cup {Len(edited) + 1})
  IN {[clean |-> i - 1, source |-> edited[i].source, length |-> Next(i) - i] :
        i \in first}

CleanText(source) ==
  LET edited == Edited(source)
  IN  [text |-> [i \in 1..Len(edited) |-> edited[i].char],
       runs |-> OffsetRuns(edited)]

\* OffsetMap.to_source: into the last run that starts at or before the offset,
\* or just past it.
ToSource(runs, offset) ==
  IF runs = {} THEN 0
  ELSE LET run == CHOOSE r \in runs :
                    /\ r.clean <= offset
                    /\ \A s \in runs : s.clean <= offset => s.clean <= r.clean
       IN  run.source + Min({offset - run.clean, run.length})

=============================================================================
