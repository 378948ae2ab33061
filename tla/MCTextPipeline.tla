---------------------------- MODULE MCTextPipeline ----------------------------
(* Texts written from a few atoms, small enough to try them all.             *)
EXTENDS TextPipeline

MCLimit == 40

\* Every text of at most n atoms.
Written(atoms, n) == {FlattenSeq(s) : s \in BoundedSeq(atoms, n)}

\* What the cleaner treats apart: line endings of every kind, artefacts next
\* to each other, words broken across a line.
Artefacts == {<<"a">>, <<" ">>, <<"\n">>, <<"\r">>, <<"l2", "cont">>, <<"-">>, <<"A">>}

\* What the chunker treats apart: words that fit and words that do not, the
\* ends of sentences, with a closing bracket and without, paragraphs, indents.
Prose == {<<"a">>, <<"a", "a", "a", "a", "a", "a", "a">>, <<" ">>, <<".", " ">>, <<".", ")", " ">>,
          <<"\n", "\n">>, <<"\n", " ", " ">>}

\* Words and indents longer than any chunk, and blanks that only an invisible
\* character keeps from the end of a line.
LongRun(c) == [i \in 1..16 |-> c]
Indents == {<<"a">>, LongRun("a"), LongRun(" "), LongRun("\t"), <<" ", "l2", "cont">>, <<"\n", "\n">>}

\* Pages that end and begin in the ways PDF extraction makes them.
PageText == {<<>>, <<"a", "\n">>, <<"a", " ", "\n">>, <<"a", "\n", " ", "\n">>, <<"a">>,
             <<"a", "a", "a">>, <<"nul">>, <<"zw">>}

\* Characters of one to three bytes, whole and cut off, and what binary files
\* and PDF files hold, at the end of the sample and around it.
Bytes == BoundedSeq({"a", "l2", "l3", "cont"}, 6) \cup BoundedSeq({"a", "nul", "%PDF-", "l3"}, 5)

\* Fences, and lines that are none.
Fenced == Written({<<"-", "-", "-">>, <<"\n">>, <<"a">>, <<" ">>}, 6)
            \cup Written({<<"-", "-", "-", "\n">>, <<"a", "\r", "\n">>, <<"-", "-", "-", "\r", "\n">>,
                         <<"\n">>}, 5)

\* At the limit, one chunk short of it and one byte past it.
Long == {[i \in 1..n |-> "a"] : n \in {16, 32, MCLimit, MCLimit + 1, 48, 49}}

Texts(bytes, markdown) == [bytes : bytes, markdown : {markdown}, pages : {<<>>}]

\* PDF files of at most three pages.
MCPaged == [bytes : {<<"%PDF-">>}, markdown : {FALSE}, pages : BoundedSeq(PageText, 3)]

MCArtefacts == Texts(Written(Artefacts, 5), FALSE)
MCProse     == Texts(Written(Prose, 5), FALSE)
MCIndented  == Texts(Written(Indents, 4), FALSE)
MCFenced    == Texts(Fenced, TRUE)

MCFiles ==
  MCArtefacts \cup MCProse \cup MCIndented \cup MCFenced \cup MCPaged
    \cup Texts(Bytes, FALSE) \cup Texts(Long, FALSE) \cup Texts(Long, TRUE)

=============================================================================
