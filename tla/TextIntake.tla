------------------------------ MODULE TextIntake ------------------------------
(* From the bytes of a request to the text of a document: the upload is read  *)
(* up to a limit, its type decided by a look at its first bytes, and a run    *)
(* later decodes the whole. A byte stands for its class: the characters of    *)
(* one byte for themselves, "l2" and "l3" for the first byte of two or three, *)
(* "cont" for a byte that continues one, "%PDF-" for the header of a PDF.     *)
EXTENDS TextCleaning

CONSTANTS
  Limit,      \* max_document_bytes
  ReadBytes,  \* _CHUNK_BYTES
  HeaderWindow,     \* _PDF_MAGIC_WINDOW
  Sniff,      \* _TEXT_SNIFF_BYTES
  Margin,     \* bytes at the end of the sample that may be a character cut off
  Files       \* what may be uploaded

Byte == (Char \ (Invisible \cup {"%"})) \cup {"l2", "l3", "cont", "%PDF-"}

\* A file: its bytes, whether its name ends as Markdown does, and the texts of
\* the pages PyMuPDF finds in it, none in what is not a PDF. The margin holds what
\* a cut leaves of a character, all but one of its bytes at most.
ASSUME IntakeAssumption ==
  /\ {Limit, ReadBytes, HeaderWindow, Sniff} \subseteq Nat \ {0}
  /\ Margin \in Nat /\ Margin >= 2
  /\ \A f \in Files : /\ f.bytes \in Seq(Byte)
                      /\ f.markdown \in BOOLEAN
                      /\ f.pages \in Seq(Seq(Char))

VARIABLES
  file,       \* the file on its way
  read,       \* how many of its bytes are read and kept
  type,       \* documents.mime_type, "none" before it is decided
  extracted,  \* ExtractedDocument: text and the parts that are pages
  stage,      \* where the upload, and then the run, is
  failed      \* whether it ended there

intakeVars == <<file, read, type, extracted, stage, failed>>

Doing(s) == stage = s /\ ~failed

-----------------------------------------------------------------------------
(* Bytes *)

Prefix(bytes, n) == SubSeq(bytes, 1, Min({n, Len(bytes)}))

Width(b) == CASE b = "l2" -> 2 [] b = "l3" -> 3 [] OTHER -> 1

\* The soft hyphen takes two bytes, the byte-order mark three.
Character(b) == CASE b = "l2" -> "zw" [] b = "l3" -> "bom" [] b = "%PDF-" -> "%" [] OTHER -> b

\* bytes.decode("utf-8"): the text up to the first character that does not
\* decode, and the offset of that, the length if all do.
Decode(bytes) ==
  LET n == Len(bytes)
      Whole(i) == /\ bytes[i] # "cont"
                  /\ i + Width(bytes[i]) - 1 <= n
                  /\ \A j \in i + 1..i + Width(bytes[i]) - 1 : bytes[j] = "cont"
      from[i \in 1..n + 1] ==
        IF i = n + 1 \/ ~Whole(i) THEN [text |-> <<>>, bad |-> i - 1]
        ELSE LET rest == from[i + Width(bytes[i])]
             IN  [rest EXCEPT !.text = <<Character(bytes[i])>> \o @]
  IN from[1]

Decodes(bytes) == Decode(bytes).bad = Len(bytes)

-----------------------------------------------------------------------------
(* Upload *)

LooksLikePdf(bytes) == "%PDF-" \in ToSet(Prefix(bytes, HeaderWindow))

\* Mutant: the sample has to decode as if it were a file.
LooksLikeWholeText(bytes) ==
  "nul" \notin ToSet(Prefix(bytes, Sniff)) /\ Decodes(Prefix(bytes, Sniff))

\* Mutant: no byte gives a binary file away.
LooksLikeUtf8(bytes) ==
  LET sample == Prefix(bytes, Sniff) IN Decode(sample).bad >= Len(sample) - Margin

LooksLikeText(bytes) ==
  LET sample == Prefix(bytes, Sniff)
  IN  /\ "nul" \notin ToSet(sample)
      /\ Decodes(sample) \/ Decode(sample).bad >= Len(sample) - Margin

DetectDocumentType(f) ==
  CASE f.bytes = <<>> -> "none"
    [] LooksLikePdf(f.bytes) -> "pdf"
    [] LooksLikeText(f.bytes) -> IF f.markdown THEN "markdown" ELSE "text"
    [] OTHER -> "none"

\* Mutant: what is held is compared before the chunk is added to it.
KeepsLate(chunk) == read <= Limit

\* _read_capped
Keeps(chunk) == read + chunk <= Limit

ReadUpload ==
  LET chunk == Min({ReadBytes, Len(file.bytes) - read}) IN
  /\ Doing("read")
  /\ \/ chunk = 0 /\ stage' = "check" /\ UNCHANGED <<read, failed>>
     \/ chunk > 0 /\ Keeps(chunk) /\ read' = read + chunk /\ UNCHANGED <<stage, failed>>
     \/ chunk > 0 /\ ~Keeps(chunk) /\ failed' = TRUE /\ UNCHANGED <<stage, read>>
  /\ UNCHANGED <<file, type, extracted>>

\* DocumentService.upload up to the type. An empty upload and an unsupported
\* one are refused.
CheckUpload ==
  /\ Doing("check")
  /\ type' = DetectDocumentType(file)
  /\ IF type' = "none"
     THEN failed' = TRUE /\ UNCHANGED stage
     ELSE stage' = "extract" /\ UNCHANGED failed
  /\ UNCHANGED <<file, read, extracted>>

-----------------------------------------------------------------------------
(* Extract *)

\* Where a line of three dashes at p ends, its newline included: p if there is
\* none. Only the closing one may end the text.
FenceEnd(text, p, closing) ==
  LET q == RunEnd(text, p + 3, Blank)
      r == IF At(text, q) = "\r" /\ At(text, q + 1) = "\n" THEN q + 1 ELSE q
  IN  IF \E i \in p..p + 2 : At(text, i) # "-" THEN p
      ELSE IF At(text, r) = "\n" THEN r + 1
      ELSE IF closing /\ q = Len(text) THEN q
      ELSE p

\* The fences that may close a block which opens the text.
ClosingFences(text) ==
  LET body == FenceEnd(text, 0, FALSE)
  IN  {p \in body + 1..Len(text) - 3 :
         body > 0 /\ At(text, p - 1) = "\n" /\ FenceEnd(text, p, TRUE) > p}

\* Mutant: the block goes on to the last fence.
FrontMatterEndGreedy(text) ==
  IF ClosingFences(text) = {} THEN 0 ELSE FenceEnd(text, Max(ClosingFences(text)), TRUE)

\* _FRONT_MATTER
FrontMatterEnd(text) ==
  IF ClosingFences(text) = {} THEN 0 ELSE FenceEnd(text, Min(ClosingFences(text)), TRUE)

\* decode_text
WithoutMark(text) == IF At(text, 0) = "bom" THEN Tail(text) ELSE text

DecodeText(bytes) == WithoutMark(Decode(bytes).text)

\* The parser of each type.
Parsed ==
  CASE type = "pdf" -> [text |-> Joined(file.pages), parts |-> file.pages]
    [] type = "text" -> [text |-> DecodeText(file.bytes), parts |-> <<>>]
    [] type = "markdown" ->
         LET raw == DecodeText(file.bytes)
         IN  [text |-> Slice(raw, FrontMatterEnd(raw), Len(raw)), parts |-> <<>>]

\* Bytes that do not decode, and a file without text, fail the run.
Extract ==
  /\ Doing("extract")
  /\ \/ /\ type # "pdf" => Decodes(file.bytes)
        /\ ~IsBlank(Parsed.text)
        /\ extracted' = Parsed
        /\ stage' = "clean" /\ UNCHANGED failed
     \/ /\ (type # "pdf" /\ ~Decodes(file.bytes)) \/ IsBlank(Parsed.text)
        /\ failed' = TRUE /\ UNCHANGED <<stage, extracted>>
  /\ UNCHANGED <<file, read, type>>

IntakeInit ==
  /\ file \in Files
  /\ read = 0
  /\ type = "none"
  /\ extracted = [text |-> <<>>, parts |-> <<>>]
  /\ stage = "read"
  /\ failed = FALSE

IntakeNext == ReadUpload \/ CheckUpload \/ Extract

-----------------------------------------------------------------------------
(* Properties *)

\* The limit is exact on both sides: a file within it is read whole, however
\* its chunks fall, and one byte more is refused before it is kept.
CapExact ==
  /\ read <= Limit
  /\ stage = "read" /\ failed => Len(file.bytes) > Limit
  /\ stage # "read" => read = Len(file.bytes)

\* UTF-8 text is never turned away as another type, wherever the end of the
\* sample cuts a character ("not a decoding failure of the file, only of the
\* slice").
TextAccepted ==
  stage = "check" /\ failed =>
    ~Decodes(file.bytes) \/ file.bytes = <<>> \/ "nul" \in ToSet(Prefix(file.bytes, Sniff))

\* The lines of a text that are fences.
FenceLines(text) ==
  {p \in 0..Len(text) - 1 : /\ p = 0 \/ At(text, p - 1) = "\n"
                            /\ FenceEnd(text, p, TRUE) > p}

\* A rule further down a Markdown file never makes what precedes it metadata:
\* the parser leaves out one block with a fence at either end, and keeps what
\* follows it. A file whose first two lines are both fences is the exception:
\* the second is taken for the block's content.
ProseKept ==
  stage = "clean" /\ type = "markdown" =>
    LET raw == DecodeText(file.bytes)
        block == Slice(raw, 0, Len(raw) - Len(extracted.text))
    IN  \/ block = <<>>
        \/ Cardinality(FenceLines(block)) = 2
        \/ FenceEnd(raw, 0, FALSE) \in FenceLines(raw)

=============================================================================
