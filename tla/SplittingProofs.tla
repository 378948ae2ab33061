-------------------------- MODULE SplittingProofs --------------------------
(***************************************************************************)
(* How a cleaned text is split, for every text and every size of a chunk:  *)
(* what the pieces cover, what lies between them, and how large one can    *)
(* be.  The lemmas go from the boundaries of a level to the segments they  *)
(* leave, and from the pieces of a segment to those of the text.           *)
(***************************************************************************)
EXTENDS IntakeProofs

-----------------------------------------------------------------------------
(* Tokens, and the arithmetic of spans.                                    *)

LEMMA CountIs ==
  ASSUME NEW text \in Seq(Char)
  PROVE  /\ IsFiniteSet(TokenStarts(text)) /\ Cardinality(TokenStarts(text)) \in Nat
         /\ TokenStarts(text) \subseteq 0..Len(text) - 1
         /\ Count(text) \in Nat
         /\ text = <<>> => Count(text) = 0
         /\ text # <<>> => Count(text) = IF Cardinality(TokenStarts(text)) >= 1
                                         THEN Cardinality(TokenStarts(text)) ELSE 1
<1>1. TokenStarts(text) \subseteq 0..Len(text) - 1
  BY DEF TokenStarts
<1>2. IsFiniteSet(0..Len(text) - 1)
  <2>1. 0 \in Int /\ Len(text) - 1 \in Int
    OBVIOUS
  <2>. QED
    BY <2>1, FS_Interval
<1>3. IsFiniteSet(TokenStarts(text))
  BY <1>1, <1>2, FS_Subset
<1>4. Cardinality(TokenStarts(text)) \in Nat
  BY <1>3, FS_CardinalityType
<1>. DEFINE c == Cardinality(TokenStarts(text))
<1>5. Max({c, 1}) = IF c >= 1 THEN c ELSE 1
  BY <1>4, MaxOfTwo
<1>6. Count(text) = IF text = <<>> THEN 0 ELSE Max({c, 1})
  BY DEF Count
<1>. QED
  BY <1>1, <1>3, <1>4, <1>5, <1>6

LEMMA Division ==
  ASSUME NEW a \in Nat, NEW d \in Nat, d > 0
  PROVE  /\ a \div d \in Nat
         /\ (a \div d) * d <= a /\ a < (a \div d) * d + d
OBVIOUS

LEMMA ProductMonotone ==
  ASSUME NEW a \in Nat, NEW b \in Nat, NEW d \in Nat, a <= b
  PROVE  a * d <= b * d /\ a * d \in Nat /\ b * d \in Nat
OBVIOUS

LEMMA Successor ==
  ASSUME NEW a \in Int, NEW d \in Int
  PROVE  (a - 1) * d = a * d - d /\ a * d \in Int
OBVIOUS

-----------------------------------------------------------------------------
(* Boundaries: the segments of a window hold it all but blanks and closers. *)

\* A character that a boundary may take: whitespace, or the end of a sentence.
Loose(text, i) ==
  \/ At(text, i) \in Space
  \/ \E k \in 0..i - 1 : /\ At(text, k) \in Terminal
                         /\ \A j \in k + 1..i : At(text, j) \in Closer

LEMMA Classes == /\ Blank \in SUBSET Char /\ Space \in SUBSET Char /\ Closer \in SUBSET Char
                 /\ Terminal \in SUBSET Char /\ Blank \subseteq Space /\ "\n" \in Space
BY DEF Char, Space, Blank, Closer, Terminal

LEMMA BreakEndIs ==
  ASSUME NEW text \in Seq(Char), NEW end \in 0..Len(text), NEW p \in 0..end - 1,
         NEW level \in 0..2
  PROVE  /\ BreakEnd(level, Slice(text, 0, end), p) \in p..end
         /\ \A i \in p..BreakEnd(level, Slice(text, 0, end), p) - 1 : Loose(text, i)
<1>. DEFINE w == Slice(text, 0, end)
<1>1. /\ w \in Seq(Char) /\ Len(w) = end
      /\ \A i \in 0..end - 1 : At(w, i) = At(text, i)
      /\ \A i \in Int : At(w, i) \in Char => i \in 0..end - 1 /\ At(text, i) = At(w, i)
  BY WindowIs
<1>. HIDE DEF w
<1>2. p \in 0..Len(w) /\ p + 1 \in 0..Len(w) /\ p \in Int /\ end \in Int /\ p \in p..end
  BY <1>1
<1>3. CASE level = 0
  <2>. DEFINE q == RunEnd(w, p + 1, Blank)
  <2>1. q \in p + 1..Len(w) /\ \A i \in p + 1..q - 1 : At(w, i) \in Blank
    BY <1>1, <1>2, Classes, RunEndIs
  <2>. HIDE DEF q
  <2>2. q \in Int
    BY <2>1
  <2>3. CASE At(w, p) = "\n" /\ At(w, q) = "\n"
    <3>1. BreakEnd(level, w, p) = q + 1
      BY <1>3, <2>3 DEF BreakEnd, ParagraphBreak, q
    <3>2. q \in 0..end - 1
      BY <1>1, <2>2, <2>3, Classes
    <3>3. q + 1 \in p..end
      BY <1>1, <1>2, <2>1, <3>2
    <3>4. ASSUME NEW i \in p..(q + 1) - 1 PROVE Loose(text, i)
      <4>1. i = p \/ i = q \/ i \in p + 1..q - 1
        BY <1>2, <2>2
      <4>2. i \in 0..end - 1
        BY <1>1, <1>2, <2>1, <3>2
      <4>3. At(w, i) \in Space
        BY <2>1, <2>3, <4>1, Classes
      <4>. QED
        BY <1>1, <4>2, <4>3 DEF Loose
    <3>. QED
      BY <3>1, <3>3, <3>4 DEF w
  <2>4. CASE ~(At(w, p) = "\n" /\ At(w, q) = "\n")
    <3>1. BreakEnd(level, w, p) = p
      BY <1>3, <2>4 DEF BreakEnd, ParagraphBreak, q
    <3>. QED
      BY <1>2, <3>1 DEF w
  <2>. QED
    BY <2>3, <2>4
<1>4. CASE level = 1
  <2>. DEFINE q == RunEnd(w, p, Closer)
  <2>1. q \in p..Len(w) /\ \A i \in p..q - 1 : At(w, i) \in Closer
    BY <1>1, <1>2, Classes, RunEndIs
  <2>. HIDE DEF q
  <2>2. q \in Int /\ p - 1 \in Int
    BY <1>2, <2>1
  <2>3. CASE At(w, p - 1) \in Terminal /\ At(w, q) \in Space
    <3>. DEFINE r == RunEnd(w, q, Space)
    <3>1. BreakEnd(level, w, p) = r
      BY <1>4, <2>3 DEF BreakEnd, SentenceBreak, q
    <3>2. q \in 0..Len(w)
      BY <1>1, <1>2, <2>1
    <3>3. r \in q..Len(w) /\ \A i \in q..r - 1 : At(w, i) \in Space
      BY <1>1, <3>2, Classes, RunEndIs
    <3>. HIDE DEF r
    <3>4. r \in Int /\ r \in p..end
      BY <1>1, <1>2, <2>1, <3>3
    <3>5. At(w, p - 1) \in Char
      BY <2>3, Classes
    <3>6. p - 1 \in 0..end - 1 /\ At(text, p - 1) \in Terminal
      BY <1>1, <2>2, <2>3, <3>5
    <3>7. ASSUME NEW i \in p..r - 1 PROVE Loose(text, i)
      <4>1. i \in 0..end - 1 /\ i \in Int
        BY <1>1, <1>2, <3>3, <3>4
      <4>2. CASE i >= q
        <5>1. i \in q..r - 1
          BY <2>2, <3>4, <4>1, <4>2
        <5>. QED
          BY <1>1, <3>3, <4>1, <5>1 DEF Loose
      <4>3. CASE i < q
        <5>1. p - 1 \in 0..i - 1
          BY <1>2, <3>6, <4>1
        <5>2. ASSUME NEW j \in (p - 1) + 1..i PROVE At(text, j) \in Closer
          <6>1. j \in p..q - 1 /\ j \in 0..end - 1
            BY <1>2, <2>2, <4>1, <4>3
          <6>. QED
            BY <1>1, <2>1, <6>1
        <5>. QED
          BY <3>6, <5>1, <5>2 DEF Loose
      <4>. QED
        BY <2>2, <4>1, <4>2, <4>3
    <3>. QED
      BY <3>1, <3>4, <3>7 DEF w
  <2>4. CASE ~(At(w, p - 1) \in Terminal /\ At(w, q) \in Space)
    <3>1. BreakEnd(level, w, p) = p
      BY <1>4, <2>4 DEF BreakEnd, SentenceBreak, q
    <3>. QED
      BY <1>2, <3>1 DEF w
  <2>. QED
    BY <2>3, <2>4
<1>5. CASE level = 2
  <2>. DEFINE q == RunEnd(w, p, Space)
  <2>1. q \in p..Len(w) /\ \A i \in p..q - 1 : At(w, i) \in Space
    BY <1>1, <1>2, Classes, RunEndIs
  <2>2. BreakEnd(level, w, p) = q
    BY <1>5 DEF BreakEnd, WordBreak
  <2>. HIDE DEF q
  <2>3. \A i \in p..q - 1 : i \in 0..end - 1
    BY <1>1, <1>2, <2>1
  <2>. QED
    BY <1>1, <2>1, <2>2, <2>3 DEF Loose, w
<1>. QED
  BY <1>3, <1>4, <1>5

\* Whitespace.
AllSpace(text, a, b) == \A i \in a..b - 1 : At(text, i) \in Space

\* No whitespace.
Clear(text, a, b) == \A i \in a..b - 1 : At(text, i) \notin Space

\* Before b, from some n at or after a on, whitespace that begins and ends with a
\* newline.
Parted(text, a, b) ==
  \E n \in a..b - 2 : /\ At(text, n) = "\n" /\ At(text, b - 1) = "\n"
                      /\ AllSpace(text, n, b)

\* What a boundary of each level is, from p to q of a window that ends at end.
Boundary(level, text, end, p, q) ==
  /\ level = 0 => At(text, p) = "\n" /\ At(text, q - 1) = "\n" /\ p <= q - 2
  /\ level = 1 => At(text, p - 1) \in Terminal /\ At(text, q - 1) \in Space
  /\ level # 0 => q = end \/ At(text, q) \notin Space
  /\ level # 1 => AllSpace(text, p, q)

\* Where a boundary begins, it is one, and a word goes on where none does.
LEMMA BreakBounds ==
  ASSUME NEW text \in Seq(Char), NEW end \in 0..Len(text), NEW p \in 0..end - 1,
         NEW level \in 0..2, NEW q, q = BreakEnd(level, Slice(text, 0, end), p)
  PROVE  /\ q # p => Boundary(level, text, end, p, q)
         /\ q = p /\ level = 2 => At(text, p) \notin Space
<1>. DEFINE w == Slice(text, 0, end)
<1>1. /\ w \in Seq(Char) /\ Len(w) = end
      /\ \A i \in 0..end - 1 : At(w, i) = At(text, i)
      /\ \A i \in Int : At(w, i) \in Char => i \in 0..end - 1 /\ At(text, i) = At(w, i)
  BY WindowIs
<1>. HIDE DEF w
<1>2. p \in 0..Len(w) /\ p + 1 \in 0..Len(w) /\ p \in Int /\ end \in Int /\ p \in 0..end - 1
  BY <1>1
<1>3. CASE level = 0
  <2>. DEFINE r == RunEnd(w, p + 1, Blank)
  <2>1. r \in p + 1..Len(w) /\ \A i \in p + 1..r - 1 : At(w, i) \in Blank
    BY <1>1, <1>2, Classes, RunEndIs
  <2>. HIDE DEF r
  <2>2. r \in Int
    BY <2>1
  <2>3. q = IF At(w, p) = "\n" /\ At(w, r) = "\n" THEN r + 1 ELSE p
    BY <1>3 DEF BreakEnd, ParagraphBreak, r, w
  <2>4. ASSUME q # p PROVE Boundary(level, text, end, p, q)
    <3>1. At(w, p) = "\n" /\ At(w, r) = "\n" /\ q = r + 1
      BY <2>3, <2>4
    <3>2. r \in 0..end - 1 /\ q - 1 = r /\ p <= q - 2
      BY <1>1, <1>2, <2>1, <2>2, <3>1, Classes
    <3>3. ASSUME NEW i \in p..q - 1 PROVE At(text, i) \in Space
      <4>1. i = p \/ i = r \/ i \in p + 1..r - 1
        BY <1>2, <2>2, <3>1
      <4>2. i \in 0..end - 1
        BY <1>2, <2>2, <3>1, <3>2
      <4>3. At(w, i) \in Space
        BY <2>1, <3>1, <4>1, Classes
      <4>. QED
        BY <1>1, <4>2, <4>3
    <3>4. At(text, p) = "\n" /\ At(text, r) = "\n"
      BY <1>1, <1>2, <3>1, <3>2
    <3>. QED
      BY <1>3, <3>2, <3>3, <3>4 DEF Boundary, AllSpace
  <2>. QED
    BY <1>3, <2>4
<1>4. CASE level = 1
  <2>. DEFINE c == RunEnd(w, p, Closer)
              r == RunEnd(w, c, Space)
  <2>1. c \in p..Len(w)
    BY <1>1, <1>2, Classes, RunEndIs
  <2>. HIDE DEF c
  <2>2. c \in 0..Len(w) /\ c \in Int /\ p - 1 \in Int
    BY <1>1, <1>2, <2>1
  <2>3. r \in c..Len(w) /\ (\A i \in c..r - 1 : At(w, i) \in Space) /\ At(w, r) \notin Space
    BY <1>1, <2>2, Classes, RunEndIs
  <2>4. q = IF At(w, p - 1) \in Terminal /\ At(w, c) \in Space THEN r ELSE p
    BY <1>4 DEF BreakEnd, SentenceBreak, c, r, w
  <2>. HIDE DEF r
  <2>5. ASSUME q # p PROVE Boundary(level, text, end, p, q)
    <3>1. At(w, p - 1) \in Terminal /\ At(w, c) \in Space /\ q = r
      BY <2>4, <2>5
    <3>2. At(text, p - 1) \in Terminal
      BY <1>1, <2>2, <3>1, Classes
    <3>3. r \in Int /\ r <= end /\ c # r /\ r - 1 \in c..r - 1 /\ r - 1 \in 0..end - 1
      BY <1>1, <2>2, <2>3, <3>1
    <3>4. At(text, r - 1) \in Space
      BY <1>1, <2>3, <3>3
    <3>5. r = end \/ At(text, r) \notin Space
      <4>1. r = end \/ r \in 0..end - 1
        BY <1>2, <3>3
      <4>. QED
        BY <1>1, <2>3, <4>1
    <3>. QED
      BY <1>4, <3>1, <3>2, <3>4, <3>5 DEF Boundary
  <2>. QED
    BY <1>4, <2>5
<1>5. CASE level = 2
  <2>1. q = RunEnd(w, p, Space)
    BY <1>5 DEF BreakEnd, WordBreak, w
  <2>2. q \in p..Len(w) /\ (\A i \in p..q - 1 : At(w, i) \in Space) /\ At(w, q) \notin Space
    BY <1>1, <1>2, <2>1, Classes, RunEndIs
  <2>3. q \in Int /\ (q = end \/ q \in 0..end - 1) /\ \A i \in p..q - 1 : i \in 0..end - 1
    BY <1>1, <1>2, <2>2
  <2>4. q = end \/ At(text, q) \notin Space
    BY <1>1, <2>2, <2>3
  <2>5. \A i \in p..q - 1 : At(text, i) \in Space
    BY <1>1, <2>2, <2>3
  <2>6. Boundary(level, text, end, p, q)
    BY <1>5, <2>4, <2>5 DEF Boundary, AllSpace
  <2>7. q = p => At(text, p) \notin Space
    BY <1>2, <2>4
  <2>. QED
    BY <2>6, <2>7
<1>. QED
  BY <1>3, <1>4, <1>5

LEMMA PrependIs ==
  ASSUME NEW S, NEW r \in Seq(S), NEW e \in S
  PROVE  /\ <<e>> \o r \in Seq(S) /\ Len(<<e>> \o r) = Len(r) + 1
         /\ (<<e>> \o r)[1] = e
         /\ \A k \in 2..Len(r) + 1 : k - 1 \in 1..Len(r) /\ (<<e>> \o r)[k] = r[k - 1]
<1>1. <<e>> \in Seq(S) /\ Len(<<e>>) = 1 /\ <<e>>[1] = e
  OBVIOUS
<1>. QED
  BY <1>1, ConcatProperties

Cut == [start : Int, end : Int]

\* Boundaries between p and end, one after the other.
Cutting(text, s, p, end) ==
  /\ \A j \in 1..Len(s) : /\ p <= s[j].start /\ s[j].start < s[j].end /\ s[j].end <= end
                          /\ \A i \in s[j].start..s[j].end - 1 : Loose(text, i)
  /\ \A j \in 2..Len(s) : s[j - 1].end <= s[j].start

LEMMA CuttingPrepend ==
  ASSUME NEW text, NEW p \in Int, NEW q \in Int, NEW end \in Int, p < q, q <= end,
         NEW r \in Seq(Cut), Cutting(text, r, q, end), \A i \in p..q - 1 : Loose(text, i)
  PROVE  /\ <<[start |-> p, end |-> q]>> \o r \in Seq(Cut)
         /\ Cutting(text, <<[start |-> p, end |-> q]>> \o r, p, end)
<1>. DEFINE e == [start |-> p, end |-> q]
            s == <<e>> \o r
<1>0. e \in Cut /\ e.start = p /\ e.end = q
  BY DEF Cut
<1>1. /\ s \in Seq(Cut) /\ Len(s) = Len(r) + 1 /\ s[1] = e
      /\ \A k \in 2..Len(r) + 1 : k - 1 \in 1..Len(r) /\ s[k] = r[k - 1]
  <2>. HIDE DEF e
  <2>. QED
    BY <1>0, PrependIs
<1>. HIDE DEF s, e
<1>2. Len(r) \in Nat
  OBVIOUS
<1>3. \A j \in 1..Len(r) : r[j].start \in Int /\ r[j].end \in Int
  <2>1. \A j \in 1..Len(r) : r[j] \in Cut
    OBVIOUS
  <2>. QED
    BY <2>1 DEF Cut
<1>4. ASSUME NEW j \in 1..Len(s)
      PROVE  /\ p <= s[j].start /\ s[j].start < s[j].end /\ s[j].end <= end
             /\ \A i \in s[j].start..s[j].end - 1 : Loose(text, i)
  <2>1. CASE j = 1
    BY <1>0, <1>1, <2>1
  <2>2. CASE j # 1
    <3>1. j \in 2..Len(r) + 1
      BY <1>1, <1>2, <2>2
    <3>2. j - 1 \in 1..Len(r) /\ s[j] = r[j - 1]
      BY <1>1, <3>1
    <3>3. /\ q <= s[j].start /\ s[j].start < s[j].end /\ s[j].end <= end
          /\ \A i \in s[j].start..s[j].end - 1 : Loose(text, i)
          /\ s[j].start \in Int
      BY <1>3, <3>2 DEF Cutting
    <3>. QED
      BY <3>3
  <2>. QED
    BY <2>1, <2>2
<1>5. ASSUME NEW j \in 2..Len(s) PROVE s[j - 1].end <= s[j].start
  <2>0. j \in 2..Len(r) + 1 /\ j - 1 \in 1..Len(r) /\ s[j] = r[j - 1]
    BY <1>1
  <2>1. CASE j = 2
    <3>1. s[j - 1] = e
      BY <1>1, <2>1
    <3>. QED
      BY <1>0, <2>0, <3>1 DEF Cutting
  <2>2. CASE j # 2
    <3>1. j - 1 \in 2..Len(r) + 1 /\ j - 1 \in 2..Len(r)
      BY <1>2, <2>0, <2>2
    <3>2. s[j - 1] = r[(j - 1) - 1]
      BY <1>1, <3>1
    <3>. QED
      BY <2>0, <3>1, <3>2 DEF Cutting
  <2>. QED
    BY <2>1, <2>2
<1>. QED
  BY <1>1, <1>4, <1>5 DEF Cutting, s, e

\* Boundaries of a level, and between them none: for words, no whitespace.
Bounding(level, text, s, p, end) ==
  /\ \A j \in 1..Len(s) : Boundary(level, text, end, s[j].start, s[j].end)
  /\ level = 2 => \A k \in 1..Len(s) + 1 :
       Clear(text, IF k = 1 THEN p ELSE s[k - 1].end, IF k > Len(s) THEN end ELSE s[k].start)

LEMMA BoundingPrepend ==
  ASSUME NEW text, NEW level, NEW p \in Int, NEW q \in Int, NEW end \in Int,
         NEW r \in Seq(Cut), Bounding(level, text, r, q, end), Boundary(level, text, end, p, q)
  PROVE  Bounding(level, text, <<[start |-> p, end |-> q]>> \o r, p, end)
<1>. DEFINE e == [start |-> p, end |-> q]
            s == <<e>> \o r
<1>0. e \in Cut /\ e.start = p /\ e.end = q
  BY DEF Cut
<1>1. /\ s \in Seq(Cut) /\ Len(s) = Len(r) + 1 /\ s[1] = e
      /\ \A k \in 2..Len(r) + 1 : k - 1 \in 1..Len(r) /\ s[k] = r[k - 1]
  <2>. HIDE DEF e
  <2>. QED
    BY <1>0, PrependIs
<1>. HIDE DEF s, e
<1>2. Len(r) \in Nat
  OBVIOUS
<1>3. ASSUME NEW j \in 1..Len(s) PROVE Boundary(level, text, end, s[j].start, s[j].end)
  <2>1. CASE j = 1
    BY <1>0, <1>1, <2>1
  <2>2. CASE j # 1
    <3>1. j \in 2..Len(r) + 1
      BY <1>1, <1>2, <2>2
    <3>2. j - 1 \in 1..Len(r) /\ s[j] = r[j - 1]
      BY <1>1, <3>1
    <3>. QED
      BY <3>2 DEF Bounding
  <2>. QED
    BY <2>1, <2>2
<1>4. ASSUME level = 2, NEW k \in 1..Len(s) + 1
      PROVE  Clear(text, IF k = 1 THEN p ELSE s[k - 1].end,
                   IF k > Len(s) THEN end ELSE s[k].start)
  <2>1. CASE k = 1
    <3>1. ~(k > Len(s)) /\ s[k].start = p
      BY <1>0, <1>1, <1>2, <2>1
    <3>2. p..p - 1 = {}
      OBVIOUS
    <3>. QED
      BY <2>1, <3>1, <3>2 DEF Clear
  <2>2. CASE k # 1
    <3>. DEFINE i == k - 1
    <3>1. i \in 1..Len(r) + 1 /\ k \in 2..Len(r) + 2 /\ k \in Int /\ (k > Len(s) <=> i > Len(r))
          /\ (i = 1 <=> k = 2)
      BY <1>1, <1>2, <2>2
    <3>2. Clear(text, IF i = 1 THEN q ELSE r[i - 1].end, IF i > Len(r) THEN end ELSE r[i].start)
      BY <1>4, <3>1 DEF Bounding
    <3>3. s[k - 1].end = IF i = 1 THEN q ELSE r[i - 1].end
      <4>1. CASE k = 2
        BY <1>0, <1>1, <4>1
      <4>2. CASE k # 2
        <5>1. k - 1 \in 2..Len(r) + 1
          BY <1>2, <3>1, <4>2
        <5>2. s[k - 1] = r[(k - 1) - 1]
          BY <1>1, <5>1
        <5>. QED
          BY <3>1, <4>2, <5>2
      <4>. QED
        BY <4>1, <4>2
    <3>4. ~(k > Len(s)) => s[k] = r[i]
      <4>1. ~(k > Len(s)) => k \in 2..Len(r) + 1
        BY <1>1, <1>2, <3>1
      <4>. QED
        BY <1>1, <4>1
    <3>. HIDE DEF i
    <3>. QED
      BY <2>2, <3>1, <3>2, <3>3, <3>4
  <2>. QED
    BY <2>1, <2>2
<1>. QED
  BY <1>3, <1>4 DEF Bounding, s, e

LEMMA BoundingSkip ==
  ASSUME NEW text, NEW level, NEW p \in Int, NEW end \in Int, p < end,
         NEW r \in Seq(Cut), Bounding(level, text, r, p + 1, end),
         \A j \in 1..Len(r) : p + 1 <= r[j].start,
         level = 2 => At(text, p) \notin Space
  PROVE  Bounding(level, text, r, p, end)
<1>0. Len(r) \in Nat /\ \A j \in 1..Len(r) : r[j].start \in Int
  <2>1. \A j \in 1..Len(r) : r[j] \in Cut
    OBVIOUS
  <2>. QED
    BY <2>1 DEF Cut
<1>1. ASSUME level = 2, NEW k \in 1..Len(r) + 1
      PROVE  Clear(text, IF k = 1 THEN p ELSE r[k - 1].end,
                   IF k > Len(r) THEN end ELSE r[k].start)
  <2>. DEFINE z == IF k > Len(r) THEN end ELSE r[k].start
  <2>1. Clear(text, IF k = 1 THEN p + 1 ELSE r[k - 1].end, z)
    BY <1>1 DEF Bounding
  <2>2. CASE k = 1
    <3>1. Clear(text, p + 1, z)
      BY <2>1, <2>2
    <3>2. z \in Int
      BY <1>0
    <3>. HIDE DEF z
    <3>3. ASSUME NEW i \in p..z - 1 PROVE At(text, i) \notin Space
      <4>1. i = p \/ i \in p + 1..z - 1
        BY <3>2
      <4>. QED
        BY <1>1, <3>1, <4>1 DEF Clear
    <3>4. Clear(text, p, z)
      BY <3>3 DEF Clear
    <3>. QED
      BY <2>2, <3>4 DEF z
  <2>3. CASE k # 1
    BY <2>1, <2>3
  <2>. QED
    BY <2>2, <2>3
<1>2. \A j \in 1..Len(r) : Boundary(level, text, end, r[j].start, r[j].end)
  BY DEF Bounding
<1>. QED
  BY <1>1, <1>2 DEF Bounding

CutFrom(level, window, from, p, end) ==
  IF p = end THEN <<>>
  ELSE LET q == BreakEnd(level, window, p)
       IN  IF q = p THEN from[p + 1] ELSE <<[start |-> p, end |-> q]>> \o from[q]

LEMMA BreaksAre ==
  ASSUME NEW text \in Seq(Char), NEW end \in 0..Len(text), NEW start \in 0..end,
         NEW level \in 0..2
  PROVE  /\ Breaks(level, text, start, end) \in Seq(Cut)
         /\ Cutting(text, Breaks(level, text, start, end), start, end)
         /\ Bounding(level, text, Breaks(level, text, start, end), start, end)
<1>. DEFINE w == Slice(text, 0, end)
            D == start..end
            T == Seq(Cut)
            N == end - start
            rank == [p \in D |-> end - p]
            Rec == [p \in D |-> [g \in [D -> T] |-> CutFrom(level, w, g, p, end)]]
            chosen == CHOOSE f : f = [p \in D |-> CutFrom(level, w, f, p, end)]
            Goes(p) == BreakEnd(level, w, p)
<1>0. N \in Nat /\ start \in Int /\ end \in Int /\ Len(text) \in Nat /\ start >= 0
      /\ \A p \in D : p \in Int /\ (p = end \/ p \in start..end - 1)
  OBVIOUS
<1>1. Breaks(level, text, start, end) = chosen[start]
  BY DEF Breaks, CutFrom
<1>2. rank \in [D -> 0..N] /\ \A p \in D : rank[p] = end - p
  BY <1>0
<1>3. ASSUME NEW p \in start..end - 1
      PROVE  /\ p \in D /\ p # end /\ p \in Int /\ Goes(p) \in p..end /\ Goes(p) \in Int
             /\ \A i \in p..Goes(p) - 1 : Loose(text, i)
             /\ Goes(p) # p => Goes(p) \in p + 1..end /\ Goes(p) \in D
             /\ p + 1 \in p + 1..end /\ p + 1 \in D
             /\ Goes(p) # p => Boundary(level, text, end, p, Goes(p))
             /\ Goes(p) = p /\ level = 2 => At(text, p) \notin Space
  <2>1. p \in 0..end - 1
    BY <1>0
  <2>3. /\ Goes(p) # p => Boundary(level, text, end, p, Goes(p))
        /\ Goes(p) = p /\ level = 2 => At(text, p) \notin Space
    BY <2>1, BreakBounds
  <2>2. Goes(p) \in p..end /\ \A i \in p..Goes(p) - 1 : Loose(text, i)
    BY <2>1, BreakEndIs
  <2>. HIDE DEF Goes
  <2>. QED
    BY <1>0, <2>1, <2>2, <2>3
<1>. HIDE DEF w, Goes
<1>4. \A g : /\ CutFrom(level, w, g, end, end) = <<>>
             /\ \A p \in start..end - 1 :
                  CutFrom(level, w, g, p, end) =
                    IF Goes(p) = p THEN g[p + 1]
                    ELSE <<[start |-> p, end |-> Goes(p)]>> \o g[Goes(p)]
  BY <1>3 DEF CutFrom, Goes
<1>5. \A p, q \in Int : [start |-> p, end |-> q] \in Cut
  BY DEF Cut
<1>6. \A e \in Cut, r \in T : <<e>> \o r \in T
  BY PrependIs
<1>7. <<>> \in T
  OBVIOUS
<1>8. \A p \in D, g \in [D -> T] : CutFrom(level, w, g, p, end) \in T
  <2>. HIDE DEF T
  <2>. TAKE p \in D, g \in [D -> T]
  <2>1. CASE p = end
    BY <1>4, <1>7, <2>1
  <2>2. CASE p \in start..end - 1
    <3>1. Goes(p) = p => g[p + 1] \in T
      BY <1>3, <2>2
    <3>2. Goes(p) # p => g[Goes(p)] \in T /\ [start |-> p, end |-> Goes(p)] \in Cut
      BY <1>3, <1>5, <2>2
    <3>. QED
      BY <1>4, <1>6, <2>2, <3>1, <3>2
  <2>. QED
    BY <1>0, <2>1, <2>2
<1>9. Rec \in [D -> [[D -> T] -> T]]
      /\ \A p \in D, g \in [D -> T] : Rec[p][g] = CutFrom(level, w, g, p, end)
  BY <1>8
<1>10. \A p \in D : \A g, h \in [D -> T] :
         (\A q \in D : rank[q] < rank[p] => g[q] = h[q]) => Rec[p][g] = Rec[p][h]
  <2>. SUFFICES ASSUME NEW p \in D, NEW g \in [D -> T], NEW h \in [D -> T],
                       \A q \in D : rank[q] < rank[p] => g[q] = h[q]
                PROVE  CutFrom(level, w, g, p, end) = CutFrom(level, w, h, p, end)
    BY <1>9
  <2>1. CASE p = end
    BY <1>4, <2>1
  <2>2. CASE p \in start..end - 1
    <3>1. rank[p + 1] < rank[p] /\ (Goes(p) # p => rank[Goes(p)] < rank[p])
      <4>. DEFINE q == Goes(p)
      <4>1. /\ p \in D /\ p \in Int /\ p + 1 \in D
            /\ q # p => q \in D /\ q \in p + 1..end
        BY <1>3, <2>2
      <4>2. end \in Int
        BY <1>0
      <4>. HIDE DEF q, D
      <4>3. /\ rank[p] = end - p /\ rank[p + 1] = end - (p + 1)
            /\ q # p => rank[q] = end - q
        BY <1>2, <4>1
      <4>. HIDE DEF rank
      <4>. QED
        BY <4>1, <4>2, <4>3 DEF q
    <3>2. g[p + 1] = h[p + 1] /\ (Goes(p) # p => g[Goes(p)] = h[Goes(p)])
      BY <1>3, <2>2, <3>1
    <3>. HIDE DEF rank
    <3>. QED
      BY <1>4, <2>2, <3>2
  <2>. QED
    BY <1>0, <2>1, <2>2
<1>11. PICK f \in [D -> T] : \A p \in D : f[p] = Rec[p][f]
  <2>. HIDE DEF D, T, rank, Rec, N
  <2>1. Recursive(D, N, rank, T, Rec)
    BY <1>0, <1>2, <1>7, <1>9, <1>10 DEF Recursive
  <2>. QED
    BY <2>1, RecursionExists
<1>12. f = [p \in D |-> CutFrom(level, w, f, p, end)]
  BY <1>9, <1>11
<1>13. chosen = [p \in D |-> CutFrom(level, w, chosen, p, end)]
  BY <1>12
<1>. HIDE DEF chosen
<1>14. \A p \in D : chosen[p] = CutFrom(level, w, chosen, p, end)
  BY <1>13
<1>. DEFINE G == {p \in D : /\ chosen[p] \in T /\ Cutting(text, chosen[p], p, end)
                         /\ Bounding(level, text, chosen[p], p, end)}
<1>15. ASSUME NEW p \in start..end, \A q \in p + 1..end : q \in G PROVE p \in G
  <2>1. CASE p = end
    <3>1. chosen[p] = <<>>
      BY <1>4, <1>14, <2>1
    <3>2. Cutting(text, <<>>, p, end)
      BY DEF Cutting
    <3>3. Bounding(level, text, <<>>, p, end)
      <4>1. \A k \in 1..1 : k = 1
        OBVIOUS
      <4>2. end..end - 1 = {}
        BY <1>0
      <4>. QED
        BY <2>1, <4>1, <4>2 DEF Bounding, Clear
    <3>. QED
      BY <1>7, <3>1, <3>2, <3>3
  <2>2. CASE p \in start..end - 1 /\ Goes(p) = p
    <3>1. chosen[p] = chosen[p + 1]
      BY <1>3, <1>4, <1>14, <2>2
    <3>2. p + 1 \in G /\ p + 1 \in Int
      BY <1>3, <1>15, <2>2
    <3>3. /\ chosen[p + 1] \in T /\ Cutting(text, chosen[p + 1], p + 1, end)
          /\ Bounding(level, text, chosen[p + 1], p + 1, end)
      BY <3>2
    <3>4. \A j \in 1..Len(chosen[p + 1]) : chosen[p + 1][j].start \in Int
      <4>1. \A j \in 1..Len(chosen[p + 1]) : chosen[p + 1][j] \in Cut
        BY <3>3
      <4>. QED
        BY <4>1 DEF Cut
    <3>5. Cutting(text, chosen[p + 1], p, end)
      <4>. DEFINE r == chosen[p + 1]
      <4>1. Cutting(text, r, p + 1, end) /\ (\A j \in 1..Len(r) : r[j].start \in Int) /\ p \in Int
        BY <1>0, <3>3, <3>4
      <4>. HIDE DEF r
      <4>2. Cutting(text, r, p, end)
        BY <4>1 DEF Cutting
      <4>. QED
        BY <4>2 DEF r
    <3>8. Bounding(level, text, chosen[p + 1], p, end)
      <4>1. /\ p \in Int /\ p < end /\ (level = 2 => At(text, p) \notin Space)
            /\ \A j \in 1..Len(chosen[p + 1]) : p + 1 <= chosen[p + 1][j].start
        BY <1>0, <1>3, <2>2, <3>3 DEF Cutting
      <4>. QED
        BY <1>0, <3>3, <4>1, BoundingSkip
    <3>6. /\ chosen[p] \in T /\ Cutting(text, chosen[p], p, end)
          /\ Bounding(level, text, chosen[p], p, end)
      <4>. HIDE DEF T
      <4>. QED
        BY <3>1, <3>3, <3>5, <3>8, Zenon
    <3>7. p \in D
      OBVIOUS
    <3>. HIDE DEF D, T
    <3>. QED
      BY <3>6, <3>7, Zenon
  <2>3. CASE p \in start..end - 1 /\ Goes(p) # p
    <3>0. /\ Goes(p) \in p + 1..end /\ Goes(p) \in Int /\ p \in Int /\ p < Goes(p) /\ Goes(p) <= end
          /\ \A i \in p..Goes(p) - 1 : Loose(text, i)
          /\ Boundary(level, text, end, p, Goes(p))
      BY <1>0, <1>3, <2>3
    <3>1. chosen[p] = <<[start |-> p, end |-> Goes(p)]>> \o chosen[Goes(p)]
      BY <1>3, <1>4, <1>14, <2>3
    <3>2. Goes(p) \in G
      BY <1>15, <3>0
    <3>3. /\ chosen[Goes(p)] \in T /\ Cutting(text, chosen[Goes(p)], Goes(p), end)
          /\ Bounding(level, text, chosen[Goes(p)], Goes(p), end)
      BY <3>2
    <3>. DEFINE more == <<[start |-> p, end |-> Goes(p)]>> \o chosen[Goes(p)]
    <3>4. /\ more \in T /\ Cutting(text, more, p, end)
          /\ Bounding(level, text, more, p, end)
      <4>. DEFINE q == Goes(p)
                  r == chosen[Goes(p)]
      <4>1. /\ p \in Int /\ q \in Int /\ end \in Int /\ p < q /\ q <= end /\ r \in Seq(Cut)
            /\ Cutting(text, r, q, end) /\ (\A i \in p..q - 1 : Loose(text, i))
            /\ Bounding(level, text, r, q, end) /\ Boundary(level, text, end, p, q)
        BY <1>0, <3>0, <3>3
      <4>. HIDE DEF q, r
      <4>2. /\ <<[start |-> p, end |-> q]>> \o r \in Seq(Cut)
            /\ Cutting(text, <<[start |-> p, end |-> q]>> \o r, p, end)
            /\ Bounding(level, text, <<[start |-> p, end |-> q]>> \o r, p, end)
        BY <4>1, CuttingPrepend, BoundingPrepend
      <4>. QED
        BY <4>2 DEF q, r
    <3>5. chosen[p] = more /\ p \in D
      BY <3>1
    <3>. HIDE DEF D, T, more
    <3>. QED
      BY <3>4, <3>5, Zenon
  <2>. QED
    BY <1>0, <2>1, <2>2, <2>3
<1>16. start \in G
  <2>1. \A p \in start..end : (\A q \in p + 1..end : q \in G) => p \in G
    BY <1>15
  <2>. HIDE DEF G
  <2>2. \A p \in start..end : p \in G
    BY <1>0, <2>1, Descend
  <2>. QED
    BY <1>0, <2>2
<1>. QED
  BY <1>1, <1>16

\* The parts a span is divided into, from left to right, with what lies between
\* them.
Partition(text, s, start, end) ==
  /\ s \in Seq([start : Int, end : Int, next : Int]) /\ Len(s) \in Nat /\ Len(s) > 0
  /\ s[1].start = start /\ s[Len(s)].next = end
  /\ \A i \in 1..Len(s) : /\ start <= s[i].start /\ s[i].start <= s[i].end
                          /\ s[i].end <= s[i].next /\ s[i].next <= end
                          /\ {s[i].start, s[i].end, s[i].next} \subseteq Int
                          /\ \A k \in s[i].end..s[i].next - 1 : Loose(text, k)
  /\ \A i \in 2..Len(s) : s[i].start = s[i - 1].next

LEMMA SegmentsAre ==
  ASSUME NEW text \in Seq(Char), NEW end \in 0..Len(text), NEW start \in 0..end,
         NEW level \in 0..2
  PROVE  Partition(text, Segments(level, text, start, end), start, end)
<1>. DEFINE s == Segments(level, text, start, end)
<1>. HIDE DEF s
<1>. DEFINE b == Breaks(level, text, start, end)
            n == Len(b)
<1>1. b \in Seq(Cut) /\ Cutting(text, b, start, end)
  BY BreaksAre
<1>2. s = [i \in 1..n + 1 |->
             [start |-> IF i = 1 THEN start ELSE b[i - 1].end,
              end   |-> IF i > n THEN end ELSE b[i].start,
              next  |-> IF i > n THEN end ELSE b[i].end]]
  BY DEF Segments, s
<1>. HIDE DEF b
<1>3. n \in Nat /\ start \in Int /\ end \in Int /\ start <= end
  BY <1>1
<1>4. \A j \in 1..n : /\ b[j].start \in Int /\ b[j].end \in Int
                      /\ start <= b[j].start /\ b[j].start < b[j].end /\ b[j].end <= end
                      /\ \A k \in b[j].start..b[j].end - 1 : Loose(text, k)
  <2>1. \A j \in 1..n : b[j] \in Cut
    BY <1>1
  <2>. QED
    BY <1>1, <2>1 DEF Cut, Cutting
<1>5. \A j \in 2..n : b[j - 1].end <= b[j].start
  BY <1>1 DEF Cutting
<1>. HIDE DEF n
<1>6. \A i \in 1..n + 1 : i - 1 \in 1..n \/ i = 1
  BY <1>3
<1>7. \A i \in 1..n + 1 : i \in 1..n \/ i = n + 1
  BY <1>3
<1>8. ASSUME NEW i \in 1..n + 1
      PROVE  /\ s[i] \in [start : Int, end : Int, next : Int]
             /\ s[i].start = IF i = 1 THEN start ELSE b[i - 1].end
             /\ s[i].end = IF i > n THEN end ELSE b[i].start
             /\ s[i].next = IF i > n THEN end ELSE b[i].end
  <2>1. s[i] = [start |-> IF i = 1 THEN start ELSE b[i - 1].end,
                end   |-> IF i > n THEN end ELSE b[i].start,
                next  |-> IF i > n THEN end ELSE b[i].end]
    BY <1>2
  <2>2. (IF i = 1 THEN start ELSE b[i - 1].end) \in Int
    BY <1>3, <1>4, <1>6
  <2>3. ~(i > n) => i \in 1..n
    BY <1>3, <1>7
  <2>4. (IF i > n THEN end ELSE b[i].start) \in Int /\ (IF i > n THEN end ELSE b[i].end) \in Int
    BY <1>3, <1>4, <2>3
  <2>. QED
    BY <2>1, <2>2, <2>4
<1>9. s \in Seq([start : Int, end : Int, next : Int]) /\ Len(s) = n + 1
  <2>1. s = [i \in 1..n + 1 |-> s[i]]
    BY <1>2
  <2>2. \A i \in 1..n + 1 : s[i] \in [start : Int, end : Int, next : Int]
    BY <1>8
  <2>3. n + 1 \in Nat
    BY <1>3
  <2>. DEFINE R == [start : Int, end : Int, next : Int]
              m == n + 1
  <2>4. s = [i \in 1..m |-> s[i]] /\ \A i \in 1..m : s[i] \in R
    BY <2>1, <2>2
  <2>5. m \in Nat
    BY <2>3
  <2>. HIDE DEF R, m
  <2>6. s \in Seq(R) /\ Len(s) = m
    <3>1. s \in [1..m -> R]
      BY <2>4
    <3>. QED
      BY <2>5, <3>1
  <2>. QED
    BY <2>6 DEF R, m
<1>10. ASSUME NEW i \in 1..n + 1
       PROVE  /\ start <= s[i].start /\ s[i].start <= s[i].end
              /\ s[i].end <= s[i].next /\ s[i].next <= end
              /\ {s[i].start, s[i].end, s[i].next} \subseteq Int
              /\ \A k \in s[i].end..s[i].next - 1 : Loose(text, k)
  <2>1. {s[i].start, s[i].end, s[i].next} \subseteq Int
    BY <1>8
  <2>2. start <= s[i].start /\ s[i].start <= end
    <3>1. CASE i = 1
      BY <1>3, <1>8, <3>1
    <3>2. CASE i # 1
      <4>1. i - 1 \in 1..n /\ s[i].start = b[i - 1].end
        BY <1>6, <1>8, <3>2
      <4>2. /\ b[i - 1].start \in Int /\ b[i - 1].end \in Int
            /\ start <= b[i - 1].start /\ b[i - 1].start < b[i - 1].end /\ b[i - 1].end <= end
        BY <1>4, <4>1
      <4>. QED
        BY <1>3, <4>1, <4>2
    <3>. QED
      BY <3>1, <3>2
  <2>3. CASE i = n + 1
    <3>1. i > n /\ i \notin 1..n
      BY <1>3, <2>3
    <3>2. s[i].end = end /\ s[i].next = end
      BY <1>8, <3>1
    <3>3. end..end - 1 = {}
      BY <1>3
    <3>. QED
      BY <1>3, <2>1, <2>2, <3>2, <3>3
  <2>4. CASE i \in 1..n
    <3>1. ~(i > n)
      BY <1>3, <2>4
    <3>2. s[i].end = b[i].start /\ s[i].next = b[i].end
      BY <1>8, <3>1
    <3>3. s[i].start <= s[i].end
      <4>1. CASE i = 1
        BY <1>4, <1>8, <2>4, <3>2, <4>1
      <4>2. CASE i # 1
        <5>1. i \in 2..n
          BY <1>3, <2>4, <4>2
        <5>. QED
          BY <1>5, <1>8, <3>2, <4>2, <5>1
      <4>. QED
        BY <4>1, <4>2
    <3>4. b[i].start <= b[i].end
      BY <1>4, <2>4
    <3>. QED
      BY <1>4, <2>1, <2>2, <2>4, <3>2, <3>3, <3>4
  <2>. QED
    BY <1>7, <2>3, <2>4
<1>11. ASSUME NEW i \in 2..n + 1 PROVE s[i].start = s[i - 1].next
  <2>1. i \in 1..n + 1 /\ i # 1 /\ i - 1 \in 1..n + 1 /\ ~(i - 1 > n)
    BY <1>3
  <2>. QED
    BY <1>8, <2>1
<1>12. 1 \in 1..n + 1 /\ n + 1 \in 1..n + 1 /\ n + 1 > n /\ n + 1 \in Nat /\ n + 1 > 0
  BY <1>3
<1>. QED
  BY <1>8, <1>9, <1>10, <1>11, <1>12 DEF Partition, s

\* What the segments of a level and what lies between them are.
Dividing(level, text, s, start, end) ==
  /\ level # 1 => \A k \in 1..Len(s) : AllSpace(text, s[k].end, s[k].next)
  /\ level = 0 => \A k \in 2..Len(s) : Parted(text, s[k - 1].end, s[k - 1].next)
  /\ level # 0 => \A k \in 2..Len(s) : /\ At(text, s[k].start - 1) \in Space
                                       /\ \/ s[k].start = end
                                          \/ At(text, s[k].start) \notin Space
                                             /\ s[k].start < s[k].end
  /\ level = 1 /\ 1 < Len(s) => At(text, s[1].end - 1) \in Terminal
  /\ level = 2 => \A k \in 1..Len(s) : Clear(text, s[k].start, s[k].end)

LEMMA SegmentsDivide ==
  ASSUME NEW text \in Seq(Char), NEW end \in 0..Len(text), NEW start \in 0..end,
         NEW level \in 0..2
  PROVE  Dividing(level, text, Segments(level, text, start, end), start, end)
<1>. DEFINE s == Segments(level, text, start, end)
            b == Breaks(level, text, start, end)
            n == Len(b)
<1>. HIDE DEF s
<1>1. b \in Seq(Cut) /\ Cutting(text, b, start, end) /\ Bounding(level, text, b, start, end)
  BY BreaksAre
<1>2. s = [i \in 1..n + 1 |->
             [start |-> IF i = 1 THEN start ELSE b[i - 1].end,
              end   |-> IF i > n THEN end ELSE b[i].start,
              next  |-> IF i > n THEN end ELSE b[i].end]]
  BY DEF Segments, s
<1>. HIDE DEF b
<1>3. n \in Nat /\ start \in Int /\ end \in Int /\ start <= end
  BY <1>1
<1>4. Len(s) = n + 1
  BY <1>2, <1>3
<1>5. \A k \in 1..n + 1 : /\ s[k].start = IF k = 1 THEN start ELSE b[k - 1].end
                          /\ s[k].end = IF k > n THEN end ELSE b[k].start
                          /\ s[k].next = IF k > n THEN end ELSE b[k].end
  BY <1>2
<1>6. \A j \in 1..n : /\ Boundary(level, text, end, b[j].start, b[j].end)
                      /\ b[j].start \in Int /\ b[j].end \in Int
                      /\ b[j].start < b[j].end /\ b[j].end <= end
  <2>1. \A j \in 1..n : b[j] \in Cut
    BY <1>1
  <2>. QED
    BY <1>1, <2>1 DEF Bounding, Cutting, Cut
<1>7. \A j \in 2..n : b[j - 1].end <= b[j].start
  BY <1>1 DEF Cutting
<1>8. level = 2 => \A k \in 1..n + 1 : Clear(text, s[k].start, s[k].end)
  <2>1. level = 2 => \A k \in 1..n + 1 :
       Clear(text, IF k = 1 THEN start ELSE b[k - 1].end, IF k > n THEN end ELSE b[k].start)
    BY <1>1 DEF Bounding
  <2>. QED
    BY <1>5, <2>1
<1>. HIDE DEF n
<1>9. \A k \in 1..n + 1 : k > n \/ k \in 1..n
  BY <1>3
<1>10. ASSUME level # 1, NEW k \in 1..n + 1 PROVE AllSpace(text, s[k].end, s[k].next)
  <2>1. CASE k > n
    <3>1. end..end - 1 = {}
      BY <1>3
    <3>. QED
      BY <1>5, <2>1, <3>1 DEF AllSpace
  <2>2. CASE ~(k > n)
    <3>1. k \in 1..n /\ s[k].end = b[k].start /\ s[k].next = b[k].end
      BY <1>5, <1>9, <2>2
    <3>2. AllSpace(text, b[k].start, b[k].end)
      BY <1>6, <1>10, <3>1 DEF Boundary
    <3>. QED
      BY <3>1, <3>2
  <2>. QED
    BY <2>1, <2>2
<1>11. \A k \in 2..n + 1 : k - 1 \in 1..n /\ k - 1 \in 1..n + 1 /\ ~(k - 1 > n) /\ k # 1
                           /\ k \in 1..n + 1 /\ (k > n \/ k \in 2..n)
  BY <1>3
<1>12. ASSUME level = 0, NEW k \in 2..n + 1 PROVE Parted(text, s[k - 1].end, s[k - 1].next)
  <2>. DEFINE p == b[k - 1].start
              q == b[k - 1].end
  <2>1. s[k - 1].end = p /\ s[k - 1].next = q
    BY <1>5, <1>11
  <2>2. /\ At(text, p) = "\n" /\ At(text, q - 1) = "\n" /\ p <= q - 2 /\ AllSpace(text, p, q)
        /\ p \in Int /\ q \in Int
    BY <1>6, <1>11, <1>12 DEF Boundary
  <2>. HIDE DEF p, q
  <2>3. p \in p..q - 2
    BY <2>2
  <2>4. Parted(text, p, q)
    BY <2>2, <2>3 DEF Parted
  <2>. QED
    BY <2>1, <2>4
<1>13. ASSUME level # 0, NEW k \in 2..n + 1
       PROVE  /\ At(text, s[k].start - 1) \in Space
              /\ \/ s[k].start = end
                 \/ At(text, s[k].start) \notin Space /\ s[k].start < s[k].end
  <2>. DEFINE p == b[k - 1].start
              q == b[k - 1].end
  <2>1. s[k].start = q
    BY <1>5, <1>11
  <2>2. /\ p \in Int /\ q \in Int /\ p < q /\ q <= end /\ Boundary(level, text, end, p, q)
    BY <1>6, <1>11
  <2>3. q = end \/ At(text, q) \notin Space
    BY <1>13, <2>2 DEF Boundary
  <2>4. At(text, q - 1) \in Space
    <3>1. CASE level = 1
      BY <2>2, <3>1 DEF Boundary
    <3>2. CASE level # 1
      <4>1. AllSpace(text, p, q) /\ q - 1 \in p..q - 1
        BY <2>2, <3>2 DEF Boundary
      <4>. QED
        BY <4>1 DEF AllSpace
    <3>. QED
      BY <3>1, <3>2
  <2>5. ASSUME q # end PROVE q < s[k].end
    <3>1. CASE k > n
      <4>1. s[k].end = end
        BY <1>5, <1>11, <3>1
      <4>. QED
        BY <1>3, <2>2, <2>5, <4>1
    <3>2. CASE k \in 2..n
      <4>. DEFINE u == b[k].start
                  v == b[k].end
      <4>1. k \in 1..n /\ ~(k > n)
        BY <1>3, <3>2
      <4>2. /\ s[k].end = u /\ q <= u /\ u \in Int /\ v \in Int /\ u < v
            /\ Boundary(level, text, end, u, v)
        BY <1>5, <1>6, <1>7, <1>11, <3>2, <4>1
      <4>3. q # u
        <5>. SUFFICES ASSUME q = u PROVE FALSE
          OBVIOUS
        <5>1. CASE level = 1
          <6>1. At(text, q - 1) \in Terminal
            BY <4>2, <5>1 DEF Boundary
          <6>. QED
            BY <2>4, <6>1 DEF Terminal, Space, Blank
        <5>2. CASE level # 1
          <6>1. AllSpace(text, u, v) /\ u \in u..v - 1
            BY <4>2, <5>2 DEF Boundary
          <6>2. At(text, q) \in Space
            BY <6>1 DEF AllSpace
          <6>. QED
            BY <2>3, <2>5, <6>2
        <5>. QED
          BY <5>1, <5>2
      <4>. HIDE DEF q, u
      <4>. QED
        BY <2>2, <4>2, <4>3
    <3>. QED
      BY <1>11, <3>1, <3>2
  <2>. HIDE DEF p, q
  <2>. QED
    BY <2>1, <2>3, <2>4, <2>5
<1>14. ASSUME level = 1, 1 < n + 1 PROVE At(text, s[1].end - 1) \in Terminal
  <2>1. 1 \in 1..n /\ 1 \in 1..n + 1 /\ ~(1 > n)
    BY <1>3, <1>14
  <2>2. s[1].end = b[1].start /\ Boundary(level, text, end, b[1].start, b[1].end)
    BY <1>5, <1>6, <2>1
  <2>. QED
    BY <1>14, <2>2 DEF Boundary
<1>15. Dividing(level, text, s, start, end)
  BY <1>4, <1>8, <1>10, <1>12, <1>13, <1>14 DEF Dividing
<1>. QED
  BY <1>15 DEF s

-----------------------------------------------------------------------------
(* Pieces.  Divided is what every way of dividing a span has in common,    *)
(* and it is kept when divisions are laid end to end.                      *)

Part == [start : Int, end : Int, next : Int]

\* Pieces between two offsets, one after the other, none of them empty.
Laid(r, lo, hi) ==
  /\ \A j \in 1..Len(r) : /\ lo <= r[j].start /\ r[j].start < r[j].end
                          /\ r[j].end <= r[j].next /\ r[j].next <= hi
  /\ \A j \in 2..Len(r) : r[j - 1].next <= r[j].start

Within(r, i) == \E j \in 1..Len(r) : r[j].start <= i /\ i < r[j].end

\* Nothing is left out but what boundaries take.
Covers(text, r, lo, hi) == \A i \in lo..hi - 1 : Loose(text, i) \/ Within(r, i)

\* A division of a span into pieces.
Divided(text, r, lo, hi) == r \in Seq(Part) /\ Laid(r, lo, hi) /\ Covers(text, r, lo, hi)

LEMMA PartIs ==
  ASSUME NEW r \in Seq(Part)
  PROVE  /\ Len(r) \in Nat
         /\ \A j \in 1..Len(r) : /\ r[j] \in Part
                                 /\ r[j].start \in Int /\ r[j].end \in Int /\ r[j].next \in Int
<1>1. \A j \in 1..Len(r) : r[j] \in Part
  OBVIOUS
<1>. QED
  BY <1>1 DEF Part

LEMMA WithinConcat ==
  ASSUME NEW r \in Seq(Part), NEW s \in Seq(Part), NEW i, Within(r, i) \/ Within(s, i)
  PROVE  Within(r \o s, i)
<1>0. /\ Len(r) \in Nat /\ Len(s) \in Nat /\ Len(r \o s) = Len(r) + Len(s)
      /\ \A k \in 1..Len(r) + Len(s) : (r \o s)[k] = IF k <= Len(r) THEN r[k] ELSE s[k - Len(r)]
  BY ConcatProperties
<1>1. CASE Within(r, i)
  <2>1. PICK j \in 1..Len(r) : r[j].start <= i /\ i < r[j].end
    BY <1>1 DEF Within
  <2>2. j \in 1..Len(r) + Len(s) /\ j <= Len(r)
    BY <1>0
  <2>3. (r \o s)[j] = r[j]
    BY <1>0, <2>2
  <2>. QED
    BY <1>0, <2>1, <2>2, <2>3 DEF Within
<1>2. CASE Within(s, i)
  <2>1. PICK j \in 1..Len(s) : s[j].start <= i /\ i < s[j].end
    BY <1>2 DEF Within
  <2>2. Len(r) + j \in 1..Len(r) + Len(s) /\ ~(Len(r) + j <= Len(r)) /\ (Len(r) + j) - Len(r) = j
    BY <1>0
  <2>3. (r \o s)[Len(r) + j] = s[j]
    BY <1>0, <2>2
  <2>. QED
    BY <1>0, <2>1, <2>2, <2>3 DEF Within
<1>. QED
  BY <1>1, <1>2

LEMMA LaidConcat ==
  ASSUME NEW r \in Seq(Part), NEW s \in Seq(Part), NEW lo \in Int, NEW mid \in Int, NEW hi \in Int,
         lo <= mid, mid <= hi, Laid(r, lo, mid), Laid(s, mid, hi)
  PROVE  r \o s \in Seq(Part) /\ Laid(r \o s, lo, hi)
<1>. DEFINE t == r \o s
            m == Len(r)
<1>0. /\ t \in Seq(Part) /\ m \in Nat /\ Len(s) \in Nat /\ Len(t) = m + Len(s)
      /\ \A k \in 1..m + Len(s) : t[k] = IF k <= m THEN r[k] ELSE s[k - m]
  BY ConcatProperties
<1>1. \A k \in 1..Len(t) : \/ k \in 1..m /\ t[k] = r[k]
                           \/ k - m \in 1..Len(s) /\ k > m /\ t[k] = s[k - m]
  <2>. HIDE DEF t, m
  <2>. QED
    BY <1>0
<1>. HIDE DEF t
<1>2. \A j \in 1..m : /\ lo <= r[j].start /\ r[j].start < r[j].end
                      /\ r[j].end <= r[j].next /\ r[j].next <= mid /\ r[j].next <= hi
  <2>1. \A j \in 1..m : /\ lo <= r[j].start /\ r[j].start < r[j].end
                        /\ r[j].end <= r[j].next /\ r[j].next <= mid
    BY DEF Laid
  <2>2. \A j \in 1..m : r[j].next \in Int
    BY PartIs
  <2>. QED
    BY <2>1, <2>2
<1>3. \A j \in 1..Len(s) : /\ mid <= s[j].start /\ lo <= s[j].start /\ s[j].start < s[j].end
                           /\ s[j].end <= s[j].next /\ s[j].next <= hi
  <2>1. \A j \in 1..Len(s) : /\ mid <= s[j].start /\ s[j].start < s[j].end
                             /\ s[j].end <= s[j].next /\ s[j].next <= hi
    BY DEF Laid
  <2>2. \A j \in 1..Len(s) : s[j].start \in Int
    BY PartIs
  <2>. QED
    BY <2>1, <2>2
<1>4. \A k \in 1..Len(t) : /\ lo <= t[k].start /\ t[k].start < t[k].end
                           /\ t[k].end <= t[k].next /\ t[k].next <= hi
  <2>. HIDE DEF m
  <2>. QED
    BY <1>1, <1>2, <1>3
<1>5. ASSUME NEW k \in 2..Len(t) PROVE t[k - 1].next <= t[k].start
  <2>0. k \in 1..Len(t) /\ k - 1 \in 1..Len(t) /\ k \in Int
    BY <1>0
  <2>1. CASE k <= m
    <3>1. /\ k \in 2..m /\ k - 1 <= m
          /\ k \in 1..m + Len(s) /\ k - 1 \in 1..m + Len(s)
      BY <1>0, <2>0, <2>1
    <3>2. t[k] = r[k] /\ t[k - 1] = r[k - 1]
      BY <1>0, <2>1, <3>1
    <3>3. r[k - 1].next <= r[k].start
      BY <3>1 DEF Laid
    <3>. QED
      BY <3>2, <3>3
  <2>2. CASE k = m + 1
    <3>1. ~(k <= m) /\ k - m = 1 /\ k - 1 = m /\ m \in 1..m /\ 1 \in 1..Len(s)
      BY <1>0, <2>0, <2>2
    <3>2. t[k] = s[1] /\ t[k - 1] = r[m]
      BY <1>0, <1>1, <2>0, <3>1
    <3>3. r[m].next <= mid /\ mid <= s[1].start /\ r[m].next \in Int /\ s[1].start \in Int
      <4>1. \A j \in 1..m : r[j].next \in Int
        BY PartIs
      <4>2. \A j \in 1..Len(s) : s[j].start \in Int
        BY PartIs
      <4>. QED
        BY <1>2, <1>3, <3>1, <4>1, <4>2
    <3>4. r[m].next <= s[1].start
      BY <3>3
    <3>. QED
      BY <3>2, <3>4
  <2>3. CASE k > m + 1
    <3>1. ~(k <= m) /\ ~(k - 1 <= m) /\ k - m \in 2..Len(s) /\ (k - 1) - m = (k - m) - 1
      BY <1>0, <2>0, <2>3
    <3>2. t[k] = s[k - m] /\ t[k - 1] = s[(k - m) - 1]
      BY <1>0, <2>0, <3>1
    <3>3. s[(k - m) - 1].next <= s[k - m].start
      BY <3>1 DEF Laid
    <3>. QED
      BY <3>2, <3>3
  <2>. QED
    BY <1>0, <2>0, <2>1, <2>2, <2>3
<1>. QED
  BY <1>0, <1>4, <1>5 DEF Laid, t

LEMMA DividedConcat ==
  ASSUME NEW text, NEW r, NEW s, NEW lo \in Int, NEW mid \in Int, NEW hi \in Int,
         lo <= mid, mid <= hi, Divided(text, r, lo, mid), Divided(text, s, mid, hi)
  PROVE  Divided(text, r \o s, lo, hi)
<1>1. r \in Seq(Part) /\ s \in Seq(Part) /\ Laid(r, lo, mid) /\ Laid(s, mid, hi)
  BY DEF Divided
<1>2. r \o s \in Seq(Part) /\ Laid(r \o s, lo, hi)
  BY <1>1, LaidConcat
<1>3. ASSUME NEW i \in lo..hi - 1 PROVE Loose(text, i) \/ Within(r \o s, i)
  <2>1. i \in lo..mid - 1 \/ i \in mid..hi - 1
    OBVIOUS
  <2>2. Loose(text, i) \/ Within(r, i) \/ Within(s, i)
    BY <2>1 DEF Divided, Covers
  <2>. QED
    BY <1>1, <2>2, WithinConcat
<1>. QED
  BY <1>2, <1>3 DEF Divided, Covers

\* Divisions of adjoining spans make one of them all.
LEMMA DividedFlatten ==
  ASSUME NEW text, NEW seqs \in Seq(Seq(Part)), Len(seqs) > 0,
         NEW lo \in [1..Len(seqs) -> Int], NEW hi \in [1..Len(seqs) -> Int],
         \A i \in 1..Len(seqs) : lo[i] <= hi[i] /\ Divided(text, seqs[i], lo[i], hi[i]),
         \A i \in 2..Len(seqs) : lo[i] = hi[i - 1]
  PROVE  Divided(text, FlattenSeq(seqs), lo[1], hi[Len(seqs)])
<1>. DEFINE n == Len(seqs)
<1>0. n \in Nat
  OBVIOUS
<1>1. PICK f \in [1..n -> Seq(Part)] :
        /\ FlattenSeq(seqs) = f[n] /\ f[1] = seqs[1]
        /\ \A i \in 2..n : f[i] = f[i - 1] \o seqs[i]
  BY FlattenIs
<1>. DEFINE G == {m \in 1..n : lo[1] <= hi[m] /\ Divided(text, f[m], lo[1], hi[m])}
<1>2. ASSUME NEW m \in 1..n, \A q \in 1..m - 1 : q \in G PROVE m \in G
  <2>1. CASE m = 1
    BY <1>1, <2>1
  <2>2. CASE m # 1
    <3>1. m - 1 \in 1..m - 1 /\ m \in 2..n /\ m - 1 \in 1..n /\ 1 \in 1..n
      BY <1>0, <2>2
    <3>2. lo[1] <= hi[m - 1] /\ Divided(text, f[m - 1], lo[1], hi[m - 1])
      BY <1>2, <3>1
    <3>3. lo[m] = hi[m - 1] /\ lo[m] <= hi[m] /\ Divided(text, seqs[m], hi[m - 1], hi[m])
      BY <3>1
    <3>4. f[m] = f[m - 1] \o seqs[m]
      BY <1>1, <3>1
    <3>5. lo[1] \in Int /\ hi[m - 1] \in Int /\ hi[m] \in Int /\ hi[m - 1] <= hi[m]
      BY <3>1, <3>3
    <3>6. Divided(text, f[m - 1] \o seqs[m], lo[1], hi[m])
      BY <3>2, <3>3, <3>5, DividedConcat
    <3>7. lo[1] <= hi[m]
      BY <3>2, <3>5
    <3>. QED
      BY <3>4, <3>6, <3>7
  <2>. QED
    BY <2>1, <2>2
<1>3. n \in G
  <2>1. \A m \in 1..n : (\A q \in 1..m - 1 : q \in G) => m \in G
    BY <1>2
  <2>2. 1 \in Int /\ n \in Int /\ n \in 1..n
    BY <1>0
  <2>. HIDE DEF G
  <2>. QED
    BY <2>1, <2>2, Ascend
<1>. QED
  BY <1>1, <1>3

\* A division of a segment goes on to the next.
LEMMA InheritIs ==
  ASSUME NEW text, NEW r, NEW lo \in Int, NEW hi \in Int, NEW next \in Int, hi <= next,
         Divided(text, r, lo, hi), \A k \in hi..next - 1 : Loose(text, k)
  PROVE  Divided(text, Inherit(r, next), lo, next)
<1>. DEFINE n == Len(r)
            s == [r EXCEPT ![n].next = next]
<1>0. r \in Seq(Part) /\ Laid(r, lo, hi) /\ Covers(text, r, lo, hi) /\ n \in Nat
      /\ \A j \in 1..n : r[j] \in Part /\ r[j].start \in Int /\ r[j].end \in Int
         /\ r[j].next \in Int
  BY PartIs DEF Divided
<1>1. CASE r = <<>>
  <2>1. Inherit(r, next) = r
    BY <1>1 DEF Inherit
  <2>2. Laid(r, lo, next)
    BY <1>1 DEF Laid
  <2>3. ASSUME NEW i \in lo..next - 1 PROVE Loose(text, i) \/ Within(r, i)
    <3>1. i \in lo..hi - 1 \/ i \in hi..next - 1
      OBVIOUS
    <3>. QED
      BY <1>0, <3>1 DEF Covers
  <2>. QED
    BY <1>0, <2>1, <2>2, <2>3 DEF Divided, Covers
<1>2. CASE r # <<>>
  <2>1. Inherit(r, next) = s /\ n > 0 /\ n \in 1..n
    BY <1>0, <1>2 DEF Inherit
  <2>2. [r[n] EXCEPT !.next = next] \in Part
        /\ [r[n] EXCEPT !.next = next].start = r[n].start
        /\ [r[n] EXCEPT !.next = next].end = r[n].end
        /\ [r[n] EXCEPT !.next = next].next = next
    BY <1>0, <2>1 DEF Part
  <2>3. s = [r EXCEPT ![n] = [r[n] EXCEPT !.next = next]]
    OBVIOUS
  <2>. HIDE DEF s
  <2>4. s \in Seq(Part) /\ Len(s) = n
    <3>. DEFINE x == [r[n] EXCEPT !.next = next]
    <3>1. x \in Part /\ s = [r EXCEPT ![n] = x]
      BY <2>2, <2>3
    <3>. HIDE DEF x
    <3>. QED
      BY <1>0, <2>1, <3>1
  <2>5. \A j \in 1..n : /\ s[j].start = r[j].start /\ s[j].end = r[j].end
                        /\ s[j].next = IF j = n THEN next ELSE r[j].next
    BY <1>0, <2>2, <2>3
  <2>. HIDE DEF n
  <2>6. \A j \in 1..n : /\ lo <= r[j].start /\ r[j].start < r[j].end
                        /\ r[j].end <= r[j].next /\ r[j].next <= hi
    BY <1>0 DEF Laid, n
  <2>7. \A j \in 1..n : /\ lo <= s[j].start /\ s[j].start < s[j].end
                        /\ s[j].end <= s[j].next /\ s[j].next <= next
    <3>. TAKE j \in 1..n
    <3>1. /\ lo \in Int /\ next \in Int /\ hi \in Int /\ hi <= next
          /\ r[j].start \in Int /\ r[j].end \in Int /\ r[j].next \in Int
      BY <1>0
    <3>2. /\ s[j].start = r[j].start /\ s[j].end = r[j].end
          /\ s[j].next = IF j = n THEN next ELSE r[j].next
      BY <2>5
    <3>3. /\ lo <= r[j].start /\ r[j].start < r[j].end
          /\ r[j].end <= r[j].next /\ r[j].next <= hi
      BY <2>6
    <3>4. CASE j = n
      BY <3>1, <3>2, <3>3, <3>4
    <3>5. CASE j # n
      BY <3>1, <3>2, <3>3, <3>5
    <3>. QED
      BY <3>4, <3>5
  <2>8. \A j \in 2..n : s[j - 1].next <= s[j].start
    <3>. TAKE j \in 2..n
    <3>1. j - 1 \in 1..n /\ j \in 1..n /\ j - 1 # n
      BY <1>0
    <3>2. r[j - 1].next <= r[j].start
      BY <1>0 DEF Laid, n
    <3>. QED
      BY <2>5, <3>1, <3>2
  <2>9. ASSUME NEW i \in lo..next - 1 PROVE Loose(text, i) \/ Within(s, i)
    <3>1. i \in lo..hi - 1 \/ i \in hi..next - 1
      OBVIOUS
    <3>2. CASE i \in lo..hi - 1
      <4>1. Loose(text, i) \/ Within(r, i)
        BY <1>0, <3>2 DEF Covers
      <4>2. Within(r, i) => Within(s, i)
        BY <2>4, <2>5 DEF Within, n
      <4>. QED
        BY <4>1, <4>2
    <3>. QED
      BY <3>1, <3>2
  <2>. QED
    BY <2>1, <2>4, <2>7, <2>8, <2>9 DEF Divided, Laid, Covers, s
<1>. QED
  BY <1>1, <1>2

LEMMA WindowSize ==
  ASSUME NEW span \in Seq(Char)
  PROVE  Window(span) \in Nat /\ Window(span) > 0
<1>. DEFINE c == Max({Count(span), 1})
            q == (ChunkSize * Len(span)) \div c
<1>0. ChunkSize \in Nat /\ ChunkSize > 0 /\ Count(span) \in Nat /\ Len(span) \in Nat
  BY ChunkingAssumption, CountIs
<1>1. c \in Nat /\ c > 0
  <2>1. c = IF Count(span) >= 1 THEN Count(span) ELSE 1
    BY <1>0, MaxOfTwo
  <2>. HIDE DEF c
  <2>. QED
    BY <1>0, <2>1
<1>2. ChunkSize * Len(span) \in Nat
  BY <1>0
<1>3. q \in Nat
  <2>. HIDE DEF c
  <2>. QED
    BY <1>1, <1>2, Division
<1>. HIDE DEF q
<1>4. Max({q, ChunkSize}) = IF q >= ChunkSize THEN q ELSE ChunkSize
  BY <1>0, <1>3, MaxOfTwo
<1>. QED
  BY <1>0, <1>3, <1>4 DEF Window, q

\* Pieces each of which starts where the one before it leads to, the last of them
\* leading to the end, with nothing but whitespace before the first.
Tight(text, r, lo, hi) ==
  /\ r = <<>> => AllSpace(text, lo, hi)
  /\ r # <<>> => AllSpace(text, lo, r[1].start) /\ r[Len(r)].next = hi
  /\ \A j \in 2..Len(r) : r[j].start = r[j - 1].next

LEMMA ByCharactersIs ==
  ASSUME NEW text \in Seq(Char), NEW start \in 0..Len(text), NEW end \in start + 1..Len(text)
  PROVE  /\ Divided(text, ByCharacters(text, start, end), start, end)
         /\ Tight(text, ByCharacters(text, start, end), start, end)
<1>. DEFINE w == Window(Slice(text, start, end))
            l == end - start
            n == CeilDiv(l, w)
            Stop(i) == Min({start + i * w, end})
            s == ByCharacters(text, start, end)
<1>0. Len(text) \in Nat /\ start \in Nat /\ end \in Nat /\ l \in Nat /\ l > 0
      /\ end \in start..Len(text)
  OBVIOUS
<1>1. w \in Nat /\ w > 0
  <2>1. Slice(text, start, end) \in Seq(Char)
    BY <1>0, SliceIs
  <2>. QED
    BY <2>1, WindowSize
<1>2. s = [i \in 1..n |-> Piece(Stop(i - 1), Stop(i), Stop(i))]
  BY DEF ByCharacters
<1>. HIDE DEF w, s
<1>3. n \in Nat /\ n * w \in Nat /\ n * w <= l + w - 1 /\ n * w >= l
  <2>1. l + w - 1 \in Nat
    BY <1>0, <1>1
  <2>. DEFINE a == l + w - 1
  <2>2. n = a \div w
    BY DEF CeilDiv
  <2>. HIDE DEF n, l
  <2>3. a \div w \in Nat /\ (a \div w) * w <= a /\ a < (a \div w) * w + w
    <3>. HIDE DEF a
    <3>. QED
      BY <1>1, <2>1, Division DEF a
  <2>4. n * w \in Nat
    BY <1>1, <2>2, <2>3, ProductMonotone
  <2>. QED
    BY <1>0, <1>1, <2>2, <2>3, <2>4
<1>. HIDE DEF n
<1>4. ASSUME NEW i \in Nat
      PROVE  /\ i * w \in Nat /\ (i > 0 => (i - 1) * w = i * w - w)
             /\ Stop(i) = IF start + i * w <= end THEN start + i * w ELSE end
             /\ Stop(i) \in Int
  <2>1. i * w \in Nat
    BY <1>1, ProductMonotone
  <2>2. (i - 1) * w = i * w - w
    BY <1>1, Successor
  <2>3. Stop(i) = IF start + i * w <= end THEN start + i * w ELSE end
    <3>1. start + i * w \in Int /\ end \in Int
      BY <1>0, <2>1
    <3>. QED
      BY <3>1, MinOfTwo
  <2>. HIDE DEF Stop
  <2>. QED
    BY <1>0, <2>1, <2>2, <2>3
<1>. HIDE DEF Stop
<1>5. ASSUME NEW i \in 1..n
      PROVE  /\ start <= Stop(i - 1) /\ Stop(i - 1) < Stop(i) /\ Stop(i) <= end
             /\ Stop(i - 1) = start + (i - 1) * w /\ i * w \in Nat /\ (i - 1) * w \in Nat
             /\ Stop(i) \in Int /\ Stop(i - 1) \in Int /\ (i - 1) * w = i * w - w
  <2>0. i \in Nat /\ i - 1 \in Nat /\ i > 0 /\ i <= n
    BY <1>3
  <2>1. i * w <= n * w
    BY <1>1, <1>3, <2>0, ProductMonotone
  <2>2. (i - 1) * w = i * w - w /\ i * w \in Nat /\ (i - 1) * w \in Nat
    BY <1>4, <2>0
  <2>3. Stop(i) = IF start + i * w <= end THEN start + i * w ELSE end
    BY <1>4, <2>0
  <2>4. Stop(i - 1) = IF start + (i - 1) * w <= end THEN start + (i - 1) * w ELSE end
    BY <1>4, <2>0
  <2>. DEFINE x == i * w
              y == (i - 1) * w
              z == n * w
  <2>5. x <= z /\ y = x - w /\ x \in Nat /\ y \in Nat /\ z \in Nat /\ z <= l + w - 1
    BY <1>3, <2>1, <2>2
  <2>6. Stop(i) = (IF start + x <= end THEN start + x ELSE end)
        /\ Stop(i - 1) = (IF start + y <= end THEN start + y ELSE end)
    BY <2>3, <2>4
  <2>7. y = (i - 1) * w /\ x = i * w
    OBVIOUS
  <2>. HIDE DEF x, y, z
  <2>. QED
    BY <1>0, <1>1, <2>5, <2>6, <2>7
<1>6. ASSUME NEW i \in 1..n
      PROVE  /\ s[i] \in Part /\ s[i].start = Stop(i - 1) /\ s[i].end = Stop(i)
                /\ s[i].next = Stop(i)
  BY <1>2, <1>5 DEF Piece, Part
<1>7. s \in Seq(Part) /\ Len(s) = n
  <2>1. s = [i \in 1..n |-> s[i]]
    BY <1>2
  <2>2. \A i \in 1..n : s[i] \in Part
    BY <1>6
  <2>3. s \in [1..n -> Part]
    BY <2>1, <2>2
  <2>. QED
    BY <1>3, <2>3
<1>8. Laid(s, start, end)
  <2>1. \A j \in 1..n : /\ start <= s[j].start /\ s[j].start < s[j].end
                        /\ s[j].end <= s[j].next /\ s[j].next <= end
    BY <1>5, <1>6
  <2>2. ASSUME NEW j \in 2..n PROVE s[j - 1].next <= s[j].start
    <3>1. j - 1 \in 1..n /\ j \in 1..n
      BY <1>3
    <3>2. s[j - 1].next = Stop(j - 1) /\ s[j].start = Stop(j - 1) /\ Stop(j - 1) \in Int
      BY <1>5, <1>6, <3>1
    <3>. QED
      BY <3>2
  <2>. QED
    BY <1>7, <2>1, <2>2 DEF Laid
<1>9. ASSUME NEW k \in start..end - 1 PROVE Within(s, k)
  <2>. DEFINE a == k - start
              q == a \div w
              i == q + 1
  <2>1. a \in Nat /\ a < l
    BY <1>0
  <2>2. q \in Nat /\ q * w <= a /\ a < q * w + w /\ q * w \in Nat
    <3>. HIDE DEF a
    <3>1. q \in Nat /\ q * w <= a /\ a < q * w + w
      BY <1>1, <2>1, Division
    <3>. HIDE DEF q
    <3>2. q * w \in Nat
      BY <1>1, <3>1, ProductMonotone
    <3>. QED
      BY <3>1, <3>2
  <2>. HIDE DEF q
  <2>3. q < n
    <3>. SUFFICES ASSUME n <= q PROVE FALSE
      BY <1>3, <2>2
    <3>1. n * w <= q * w
      BY <1>1, <1>3, <2>2, ProductMonotone
    <3>. QED
      BY <1>3, <2>1, <2>2, <3>1
  <2>4. i \in 1..n /\ i - 1 = q /\ i \in Nat
    BY <1>3, <2>2, <2>3
  <2>5. /\ Stop(i - 1) = start + q * w
        /\ Stop(i) = IF start + i * w <= end THEN start + i * w ELSE end
        /\ i * w = q * w + w
    <3>1. Stop(i - 1) = start + (i - 1) * w /\ (i - 1) * w = i * w - w /\ i * w \in Nat
      BY <1>5, <2>4
    <3>2. Stop(i) = IF start + i * w <= end THEN start + i * w ELSE end
      BY <1>4, <2>4
    <3>3. (i - 1) * w = q * w
      BY <2>4
    <3>. QED
      BY <1>1, <2>2, <3>1, <3>2, <3>3
  <2>6. Stop(i - 1) <= k /\ k < Stop(i)
    <3>. DEFINE x == q * w
                y == i * w
    <3>1. /\ Stop(i - 1) = start + x
          /\ Stop(i) = IF start + y <= end THEN start + y ELSE end
          /\ y = x + w /\ x \in Nat /\ x <= k - start /\ k - start < x + w
      BY <2>2, <2>5
    <3>. HIDE DEF x, y
    <3>. QED
      BY <1>0, <1>1, <3>1
  <2>7. i \in 1..Len(s) /\ s[i].start = Stop(i - 1) /\ s[i].end = Stop(i)
    BY <1>6, <1>7, <2>4
  <2>. HIDE DEF i
  <2>. QED
    BY <2>6, <2>7 DEF Within
<1>10. Tight(text, s, start, end)
  <2>1. n > 0 /\ 1 \in 1..n /\ n \in 1..n /\ 0 \in Nat /\ n \in Nat
    <3>1. n = 0 => n * w = 0
      BY <1>1, <1>3
    <3>. HIDE DEF l
    <3>2. l > 0
      BY <1>0
    <3>. QED
      BY <1>0, <1>3, <3>1, <3>2
  <2>2. s[1].start = start
    <3>1. Stop(0) = start
      <4>1. 0 * w = 0
        BY <1>1
      <4>2. Stop(0) = IF start + 0 * w <= end THEN start + 0 * w ELSE end
        BY <1>4, <2>1
      <4>. QED
        BY <1>0, <4>1, <4>2
    <3>2. s[1].start = Stop(1 - 1)
      BY <1>6, <2>1
    <3>. QED
      BY <3>1, <3>2
  <2>3. s[n].next = end
    <3>. DEFINE z == n * w
    <3>1. s[n].next = Stop(n) /\ Stop(n) = IF start + z <= end THEN start + z ELSE end
      BY <1>4, <1>6, <2>1
    <3>2. z \in Nat /\ z >= end - start
      BY <1>3
    <3>. HIDE DEF z
    <3>. QED
      BY <1>0, <3>1, <3>2
  <2>4. ASSUME NEW j \in 2..n PROVE s[j].start = s[j - 1].next
    <3>1. j - 1 \in 1..n /\ j \in 1..n
      BY <1>3
    <3>. QED
      BY <1>6, <3>1
  <2>5. s # <<>> /\ start..start - 1 = {}
    <3>1. Len(s) # 0
      BY <1>7, <2>1
    <3>. QED
      BY <1>0, <3>1
  <2>. QED
    BY <1>7, <2>2, <2>3, <2>4, <2>5 DEF Tight, AllSpace
<1>. QED
  BY <1>7, <1>8, <1>9, <1>10 DEF Divided, Covers, s

-----------------------------------------------------------------------------
(* What lies between pieces.  Within a paragraph a piece leads to the next; *)
(* between two of them lies the whitespace that neither holds.             *)

LEMMA SpaceJoins ==
  ASSUME NEW text, NEW a \in Int, NEW b \in Int, NEW c \in Int,
         AllSpace(text, a, b), AllSpace(text, b, c)
  PROVE  AllSpace(text, a, c)
<1>1. \A i \in a..c - 1 : i \in a..b - 1 \/ i \in b..c - 1
  OBVIOUS
<1>. QED
  BY <1>1 DEF AllSpace

LEMMA PartsConcat ==
  ASSUME NEW r \in Seq(Part), NEW s \in Seq(Part), NEW t, t = r \o s
  PROVE  /\ t \in Seq(Part) /\ Len(r) \in Nat /\ Len(s) \in Nat /\ Len(t) = Len(r) + Len(s)
         /\ \A k \in 1..Len(r) : t[k] = r[k]
         /\ \A k \in 1..Len(s) : t[Len(r) + k] = s[k]
<1>1. /\ t \in Seq(Part) /\ Len(r) \in Nat /\ Len(s) \in Nat /\ Len(t) = Len(r) + Len(s)
      /\ \A k \in 1..Len(r) + Len(s) : t[k] = IF k <= Len(r) THEN r[k] ELSE s[k - Len(r)]
  BY ConcatProperties
<1>2. \A k \in 1..Len(r) : k \in 1..Len(r) + Len(s) /\ k <= Len(r)
  BY <1>1
<1>3. \A k \in 1..Len(s) : /\ Len(r) + k \in 1..Len(r) + Len(s) /\ ~(Len(r) + k <= Len(r))
                           /\ (Len(r) + k) - Len(r) = k
  BY <1>1
<1>. QED
  BY <1>1, <1>2, <1>3

LEMMA InheritFields ==
  ASSUME NEW r \in Seq(Part), NEW next \in Int, NEW s, s = Inherit(r, next)
  PROVE  /\ s \in Seq(Part) /\ Len(s) = Len(r) /\ (r = <<>> <=> s = <<>>)
         /\ \A j \in 1..Len(r) : /\ s[j].start = r[j].start /\ s[j].end = r[j].end
                                 /\ s[j].next = IF j = Len(r) THEN next ELSE r[j].next
<1>1. CASE r = <<>>
  BY <1>1 DEF Inherit
<1>2. CASE r # <<>>
  <2>. DEFINE n == Len(r)
              x == [r[n] EXCEPT !.next = next]
  <2>1. n \in 1..n /\ n \in Nat /\ r[n] \in Part
    BY <1>2
  <2>2. x \in Part /\ x.start = r[n].start /\ x.end = r[n].end /\ x.next = next
    BY <2>1 DEF Part
  <2>3. s = [r EXCEPT ![n] = x]
    BY <1>2 DEF Inherit
  <2>. HIDE DEF x
  <2>4. s \in Seq(Part) /\ Len(s) = n /\ \A j \in 1..n : s[j] = IF j = n THEN x ELSE r[j]
    BY <2>1, <2>2, <2>3
  <2>5. s # <<>>
    BY <2>1, <2>4
  <2>. QED
    BY <1>2, <2>2, <2>4, <2>5
<1>. QED
  BY <1>1, <1>2

LEMMA TightInherit ==
  ASSUME NEW text, NEW r \in Seq(Part), NEW lo \in Int, NEW hi \in Int, NEW next \in Int,
         lo <= hi, hi <= next, Tight(text, r, lo, hi), r = <<>> => AllSpace(text, hi, next)
  PROVE  Tight(text, Inherit(r, next), lo, next)
<1>. DEFINE s == Inherit(r, next)
            n == Len(r)
<1>1. /\ s \in Seq(Part) /\ Len(s) = n /\ (r = <<>> <=> s = <<>>) /\ n \in Nat
      /\ \A j \in 1..n : /\ s[j].start = r[j].start /\ s[j].end = r[j].end
                         /\ s[j].next = IF j = n THEN next ELSE r[j].next
  BY InheritFields
<1>. HIDE DEF s
<1>2. s = <<>> => AllSpace(text, lo, next)
  BY <1>1, SpaceJoins DEF Tight
<1>3. s # <<>> => AllSpace(text, lo, s[1].start) /\ s[n].next = next
  <2>1. r # <<>> => 1 \in 1..n /\ n \in 1..n
    OBVIOUS
  <2>. QED
    BY <1>1, <2>1 DEF Tight
<1>4. ASSUME NEW j \in 2..n PROVE s[j].start = s[j - 1].next
  <2>1. j \in 1..n /\ j - 1 \in 1..n /\ j - 1 # n
    BY <1>1
  <2>2. r[j].start = r[j - 1].next
    BY DEF Tight
  <2>. QED
    BY <1>1, <2>1, <2>2
<1>. QED
  BY <1>1, <1>2, <1>3, <1>4 DEF Tight, s

LEMMA TightConcat ==
  ASSUME NEW text, NEW f \in Seq(Part), NEW g \in Seq(Part),
         NEW lo \in Int, NEW mid \in Int, NEW hi \in Int, lo <= mid, mid <= hi,
         Laid(g, mid, hi), Tight(text, f, lo, mid), Tight(text, g, mid, hi),
         mid = hi \/ At(text, mid) \notin Space
  PROVE  Tight(text, f \o g, lo, hi)
<1>. DEFINE t == f \o g
            m == Len(f)
            n == Len(g)
<1>1. /\ t \in Seq(Part) /\ m \in Nat /\ n \in Nat /\ Len(t) = m + n
      /\ (\A k \in 1..m : t[k] = f[k]) /\ (\A k \in 1..n : t[m + k] = g[k])
  BY PartsConcat
<1>. HIDE DEF t
<1>2. /\ (f = <<>> <=> m = 0) /\ (g = <<>> <=> n = 0) /\ (t = <<>> <=> m + n = 0)
  BY <1>1
<1>3. g # <<>> => /\ 1 \in 1..n /\ n \in 1..n /\ g[1].start \in Int /\ mid <= g[1].start
                  /\ mid < hi
  <2>. SUFFICES ASSUME g # <<>>
                PROVE  /\ 1 \in 1..n /\ n \in 1..n /\ g[1].start \in Int /\ mid <= g[1].start
                       /\ mid < hi
    OBVIOUS
  <2>1. 1 \in 1..n /\ n \in 1..n
    BY <1>1, <1>2
  <2>2. /\ mid <= g[1].start /\ g[1].start < g[1].end /\ g[1].end <= g[1].next /\ g[1].next <= hi
        /\ g[1].start \in Int /\ g[1].end \in Int /\ g[1].next \in Int
    BY <2>1, PartIs DEF Laid
  <2>. DEFINE x == g[1].start
              y == g[1].end
              z == g[1].next
  <2>3. mid < hi
    <3>1. mid <= x /\ x < y /\ y <= z /\ z <= hi /\ x \in Int /\ y \in Int /\ z \in Int
      BY <2>2
    <3>. HIDE DEF x, y, z
    <3>. QED
      BY <3>1
  <2>. QED
    BY <2>1, <2>2, <2>3
<1>4. f # <<>> => 1 \in 1..m /\ m \in 1..m
  BY <1>1, <1>2
<1>5. g # <<>> => AllSpace(text, mid, g[1].start) /\ g[n].next = hi
  BY DEF Tight
<1>6. ASSUME f # <<>>, g # <<>> PROVE g[1].start = mid
  <2>1. At(text, mid) \notin Space
    BY <1>3, <1>6
  <2>2. mid \notin mid..g[1].start - 1
    BY <1>5, <1>6, <2>1 DEF AllSpace
  <2>. QED
    BY <1>3, <1>6, <2>2
<1>7. ASSUME g = <<>> PROVE AllSpace(text, mid, hi) /\ (f # <<>> => mid = hi)
  <2>1. AllSpace(text, mid, hi)
    BY <1>7 DEF Tight
  <2>2. mid = hi \/ mid \in mid..hi - 1
    OBVIOUS
  <2>3. mid = hi
    BY <2>1, <2>2 DEF AllSpace
  <2>. QED
    BY <2>1, <2>3
<1>8. t = <<>> => AllSpace(text, lo, hi)
  <2>. SUFFICES ASSUME t = <<>> PROVE AllSpace(text, lo, hi)
    OBVIOUS
  <2>1. f = <<>> /\ g = <<>>
    BY <1>1, <1>2
  <2>2. AllSpace(text, lo, mid) /\ AllSpace(text, mid, hi)
    BY <1>7, <2>1 DEF Tight
  <2>. QED
    BY <2>2, SpaceJoins
<1>9. ASSUME t # <<>> PROVE AllSpace(text, lo, t[1].start)
  <2>1. CASE f # <<>>
    <3>1. t[1] = f[1]
      BY <1>1, <1>4, <2>1
    <3>. QED
      BY <2>1, <3>1 DEF Tight
  <2>2. CASE f = <<>>
    <3>1. g # <<>> /\ m = 0
      BY <1>1, <1>2, <1>9, <2>2
    <3>2. m + 1 = 1 /\ t[m + 1] = g[1]
      BY <1>1, <1>3, <3>1
    <3>3. AllSpace(text, lo, mid) /\ AllSpace(text, mid, g[1].start)
      BY <1>5, <2>2, <3>1 DEF Tight
    <3>4. AllSpace(text, lo, g[1].start)
      BY <1>3, <3>1, <3>3, SpaceJoins
    <3>. QED
      BY <3>2, <3>4
  <2>. QED
    BY <2>1, <2>2
<1>10. ASSUME t # <<>> PROVE t[Len(t)].next = hi
  <2>1. CASE g # <<>>
    BY <1>1, <1>3, <1>5, <2>1
  <2>2. CASE g = <<>>
    <3>1. f # <<>> /\ Len(t) = m
      BY <1>1, <1>2, <1>10, <2>2
    <3>2. t[m] = f[m] /\ mid = hi
      BY <1>1, <1>4, <1>7, <2>2, <3>1
    <3>. QED
      BY <3>1, <3>2 DEF Tight
  <2>. QED
    BY <2>1, <2>2
<1>11. ASSUME NEW j \in 2..Len(t) PROVE t[j].start = t[j - 1].next
  <2>0. j \in Int /\ j >= 2 /\ j <= m + n /\ m \in Int
    BY <1>1
  <2>1. CASE j <= m
    <3>1. j \in 2..m /\ j \in 1..m /\ j - 1 \in 1..m
      BY <1>1, <2>0, <2>1
    <3>. QED
      BY <1>1, <3>1 DEF Tight
  <2>2. CASE j = m + 1
    <3>1. m > 0 /\ n > 0 /\ j - 1 = m
      BY <1>1, <2>0, <2>2
    <3>2. f # <<>> /\ g # <<>>
      BY <1>2, <3>1
    <3>3. t[j] = g[1] /\ t[j - 1] = f[m]
      BY <1>1, <1>3, <1>4, <2>2, <3>1, <3>2
    <3>4. f[m].next = mid
      BY <3>2 DEF Tight
    <3>. QED
      BY <1>6, <3>2, <3>3, <3>4
  <2>3. CASE j > m + 1
    <3>. DEFINE i == j - m
    <3>1. i \in 2..n /\ i \in 1..n /\ i - 1 \in 1..n /\ m + i = j /\ m + (i - 1) = j - 1
      BY <1>1, <2>0, <2>3
    <3>. HIDE DEF i
    <3>2. t[m + i] = g[i] /\ t[m + (i - 1)] = g[i - 1]
      BY <1>1, <3>1
    <3>. QED
      BY <3>1, <3>2 DEF Tight
  <2>4. j <= m \/ j = m + 1 \/ j > m + 1
    BY <2>0
  <2>. QED
    BY <2>1, <2>2, <2>3, <2>4
<1>. QED
  BY <1>8, <1>9, <1>10, <1>11 DEF Tight, t

\* Divisions of adjoining spans, each of which holds what its own pieces do.
Adjoining(text, seqs, lo, hi) ==
  /\ lo \in [1..Len(seqs) -> Int] /\ hi \in [1..Len(seqs) -> Int]
  /\ \A i \in 1..Len(seqs) : /\ lo[i] <= hi[i] /\ Divided(text, seqs[i], lo[i], hi[i])
                             /\ Tight(text, seqs[i], lo[i], hi[i])
  /\ \A i \in 2..Len(seqs) : lo[i] = hi[i - 1]

\* All but the first are empty or begin with a visible character.
Starting(text, seqs, lo, hi) ==
  \A i \in 2..Len(seqs) : lo[i] = hi[i] \/ At(text, lo[i]) \notin Space

LEMMA TightFlatten ==
  ASSUME NEW text, NEW seqs \in Seq(Seq(Part)), Len(seqs) > 0, NEW lo, NEW hi,
         Adjoining(text, seqs, lo, hi), Starting(text, seqs, lo, hi)
  PROVE  Tight(text, FlattenSeq(seqs), lo[1], hi[Len(seqs)])
<1>. DEFINE n == Len(seqs)
<1>0. n \in Nat
  OBVIOUS
<1>1. PICK f \in [1..n -> Seq(Part)] :
        /\ FlattenSeq(seqs) = f[n] /\ f[1] = seqs[1]
        /\ \A i \in 2..n : f[i] = f[i - 1] \o seqs[i]
  BY FlattenIs
<1>. DEFINE G == {m \in 1..n : lo[1] <= hi[m] /\ Tight(text, f[m], lo[1], hi[m])}
<1>2. ASSUME NEW m \in 1..n, \A q \in 1..m - 1 : q \in G PROVE m \in G
  <2>1. CASE m = 1
    BY <1>1, <2>1 DEF Adjoining
  <2>2. CASE m # 1
    <3>1. m - 1 \in 1..m - 1 /\ m \in 2..n /\ m - 1 \in 1..n /\ 1 \in 1..n
      BY <1>0, <2>2
    <3>2. lo[1] <= hi[m - 1] /\ Tight(text, f[m - 1], lo[1], hi[m - 1])
      BY <1>2, <3>1
    <3>3. /\ lo[m] = hi[m - 1] /\ lo[m] <= hi[m]
          /\ Divided(text, seqs[m], hi[m - 1], hi[m]) /\ Tight(text, seqs[m], hi[m - 1], hi[m])
          /\ hi[m - 1] = hi[m] \/ At(text, hi[m - 1]) \notin Space
      BY <3>1 DEF Adjoining, Starting
    <3>4. f[m] = f[m - 1] \o seqs[m] /\ f[m - 1] \in Seq(Part)
      BY <1>1, <3>1
    <3>5. lo[1] \in Int /\ hi[m - 1] \in Int /\ hi[m] \in Int /\ hi[m - 1] <= hi[m]
      BY <3>1, <3>3 DEF Adjoining
    <3>6. Tight(text, f[m - 1] \o seqs[m], lo[1], hi[m])
      BY <3>2, <3>3, <3>4, <3>5, TightConcat DEF Divided
    <3>7. lo[1] <= hi[m]
      BY <3>2, <3>5
    <3>. QED
      BY <3>4, <3>6, <3>7
  <2>. QED
    BY <2>1, <2>2
<1>3. n \in G
  <2>1. \A m \in 1..n : (\A q \in 1..m - 1 : q \in G) => m \in G
    BY <1>2
  <2>2. 1 \in Int /\ n \in Int /\ n \in 1..n
    BY <1>0
  <2>. HIDE DEF G
  <2>. QED
    BY <2>1, <2>2, Ascend
<1>. QED
  BY <1>1, <1>3

\* Only whitespace comes between two pieces, and where it is not part of the first
\* it follows the end of a paragraph.
Gap(text, p, q) ==
  /\ AllSpace(text, p.next, q.start)
  /\ p.next < q.start => Parted(text, p.end, p.next)

Chained(text, r) == \A j \in 2..Len(r) : Gap(text, r[j - 1], r[j])

\* Pieces with gaps between them, and nothing but whitespace after the last.
Linked(text, r, hi) ==
  /\ Chained(text, r)
  /\ r # <<>> => AllSpace(text, r[Len(r)].next, hi)

\* The last piece leads over the end of a paragraph.
Trailed(text, r) == r # <<>> => Parted(text, r[Len(r)].end, r[Len(r)].next)

LEMMA NoGap ==
  ASSUME NEW text, NEW p, NEW q, p.next \in Int, q.start = p.next
  PROVE  Gap(text, p, q)
<1>1. p.next..p.next - 1 = {}
  OBVIOUS
<1>. QED
  BY <1>1 DEF Gap, AllSpace

LEMMA TightLinked ==
  ASSUME NEW text, NEW r \in Seq(Part), NEW lo, NEW hi \in Int, Tight(text, r, lo, hi)
  PROVE  Linked(text, r, hi)
<1>1. ASSUME NEW j \in 2..Len(r) PROVE Gap(text, r[j - 1], r[j])
  <2>1. j - 1 \in 1..Len(r)
    OBVIOUS
  <2>2. r[j - 1].next \in Int
    BY <2>1, PartIs
  <2>3. r[j].start = r[j - 1].next
    BY DEF Tight
  <2>. QED
    BY <2>2, <2>3, NoGap
<1>2. hi..hi - 1 = {}
  OBVIOUS
<1>. QED
  BY <1>1, <1>2 DEF Linked, Chained, Tight, AllSpace

LEMMA LinkConcat ==
  ASSUME NEW text, NEW f \in Seq(Part), NEW g \in Seq(Part), NEW mid \in Int, NEW hi \in Int,
         Linked(text, f, mid), Trailed(text, f), Tight(text, g, mid, hi)
  PROVE  /\ Linked(text, f \o g, hi)
         /\ Trailed(text, g) => Trailed(text, f \o g)
<1>. DEFINE t == f \o g
            m == Len(f)
            n == Len(g)
<1>1. /\ t \in Seq(Part) /\ m \in Nat /\ n \in Nat /\ Len(t) = m + n
      /\ (\A k \in 1..m : t[k] = f[k]) /\ (\A k \in 1..n : t[m + k] = g[k])
  BY PartsConcat
<1>. HIDE DEF t
<1>2. /\ (f = <<>> <=> m = 0) /\ (g = <<>> <=> n = 0) /\ (t = <<>> <=> m + n = 0)
  BY <1>1
<1>3. g # <<>> => 1 \in 1..n /\ n \in 1..n /\ g[1].start \in Int
  <2>1. g # <<>> => 1 \in 1..n /\ n \in 1..n
    BY <1>1, <1>2
  <2>. QED
    BY <2>1, PartIs
<1>4. f # <<>> => 1 \in 1..m /\ m \in 1..m /\ f[m].next \in Int
  <2>1. f # <<>> => 1 \in 1..m /\ m \in 1..m
    BY <1>1, <1>2
  <2>. QED
    BY <2>1, PartIs
<1>5. Linked(text, g, hi)
  BY TightLinked
<1>6. f # <<>> => AllSpace(text, f[m].next, mid)
  BY DEF Linked
<1>7. ASSUME f # <<>>, g # <<>> PROVE Gap(text, f[m], g[1])
  <2>1. AllSpace(text, mid, g[1].start)
    BY <1>7 DEF Tight
  <2>2. AllSpace(text, f[m].next, g[1].start)
    BY <1>3, <1>4, <1>6, <1>7, <2>1, SpaceJoins
  <2>3. Parted(text, f[m].end, f[m].next)
    BY <1>7 DEF Trailed
  <2>. QED
    BY <2>2, <2>3 DEF Gap
<1>8. ASSUME NEW j \in 2..Len(t) PROVE Gap(text, t[j - 1], t[j])
  <2>0. j \in Int /\ j >= 2 /\ j <= m + n /\ m \in Int
    BY <1>1
  <2>1. CASE j <= m
    <3>1. j \in 2..m /\ j \in 1..m /\ j - 1 \in 1..m
      BY <1>1, <2>0, <2>1
    <3>. QED
      BY <1>1, <3>1 DEF Linked, Chained
  <2>2. CASE j = m + 1
    <3>1. m > 0 /\ n > 0 /\ j - 1 = m
      BY <1>1, <2>0, <2>2
    <3>2. f # <<>> /\ g # <<>>
      BY <1>2, <3>1
    <3>3. t[j] = g[1] /\ t[j - 1] = f[m]
      BY <1>1, <1>3, <1>4, <2>2, <3>1, <3>2
    <3>. QED
      BY <1>7, <3>2, <3>3
  <2>3. CASE j > m + 1
    <3>. DEFINE i == j - m
    <3>1. i \in 2..n /\ i \in 1..n /\ i - 1 \in 1..n /\ m + i = j /\ m + (i - 1) = j - 1
      BY <1>1, <2>0, <2>3
    <3>. HIDE DEF i
    <3>2. t[m + i] = g[i] /\ t[m + (i - 1)] = g[i - 1]
      BY <1>1, <3>1
    <3>3. Gap(text, g[i - 1], g[i])
      BY <1>5, <3>1 DEF Linked, Chained
    <3>. QED
      BY <3>1, <3>2, <3>3
  <2>4. j <= m \/ j = m + 1 \/ j > m + 1
    BY <2>0
  <2>. QED
    BY <2>1, <2>2, <2>3, <2>4
<1>9. CASE g # <<>>
  <2>1. t[Len(t)] = g[n]
    BY <1>1, <1>3, <1>9
  <2>2. AllSpace(text, g[n].next, hi)
    BY <1>5, <1>9 DEF Linked
  <2>. QED
    BY <1>8, <1>9, <2>1, <2>2 DEF Linked, Chained, Trailed, t
<1>10. CASE g = <<>>
  <2>1. f # <<>> => t[Len(t)] = f[m]
    BY <1>1, <1>2, <1>4, <1>10
  <2>2. t # <<>> => f # <<>>
    BY <1>1, <1>2, <1>10
  <2>3. AllSpace(text, mid, hi)
    BY <1>10 DEF Tight
  <2>4. f # <<>> => AllSpace(text, f[m].next, hi)
    BY <1>4, <1>6, <2>3, SpaceJoins
  <2>. QED
    BY <1>8, <2>1, <2>2, <2>4 DEF Linked, Chained, Trailed, t
<1>. QED
  BY <1>9, <1>10

LEMMA LinkFlatten ==
  ASSUME NEW text, NEW seqs \in Seq(Seq(Part)), Len(seqs) > 0, NEW lo, NEW hi,
         Adjoining(text, seqs, lo, hi), \A i \in 1..Len(seqs) - 1 : Trailed(text, seqs[i])
  PROVE  Chained(text, FlattenSeq(seqs))
<1>. DEFINE n == Len(seqs)
            Trails(m) == m < n => Trailed(text, seqs[m])
<1>0. n \in Nat /\ \A m \in 1..n : Trails(m)
  OBVIOUS
<1>. HIDE DEF Trails
<1>1. PICK f \in [1..n -> Seq(Part)] :
        /\ FlattenSeq(seqs) = f[n] /\ f[1] = seqs[1]
        /\ \A i \in 2..n : f[i] = f[i - 1] \o seqs[i]
  BY FlattenIs
<1>. DEFINE G == {m \in 1..n : /\ Linked(text, f[m], hi[m])
                               /\ m < n => Trailed(text, f[m])}
<1>2. ASSUME NEW m \in 1..n, \A q \in 1..m - 1 : q \in G PROVE m \in G
  <2>0. /\ Tight(text, seqs[m], lo[m], hi[m]) /\ lo[m] \in Int /\ hi[m] \in Int
        /\ seqs[m] \in Seq(Part) /\ (m < n => Trailed(text, seqs[m]))
    BY <1>0 DEF Adjoining, Divided, Trails
  <2>1. CASE m = 1
    <3>1. Linked(text, seqs[m], hi[m])
      BY <2>0, TightLinked
    <3>. QED
      BY <1>1, <2>0, <2>1, <3>1
  <2>2. CASE m # 1
    <3>1. m - 1 \in 1..m - 1 /\ m \in 2..n /\ m - 1 \in 1..n /\ m - 1 < n
      BY <1>0, <2>2
    <3>2. Linked(text, f[m - 1], hi[m - 1]) /\ Trailed(text, f[m - 1])
      BY <1>2, <3>1
    <3>3. lo[m] = hi[m - 1]
      BY <3>1 DEF Adjoining
    <3>4. f[m] = f[m - 1] \o seqs[m] /\ f[m - 1] \in Seq(Part)
      BY <1>1, <3>1
    <3>5. /\ Linked(text, f[m - 1] \o seqs[m], hi[m])
          /\ Trailed(text, seqs[m]) => Trailed(text, f[m - 1] \o seqs[m])
      BY <2>0, <3>2, <3>3, <3>4, LinkConcat
    <3>. QED
      BY <2>0, <3>4, <3>5
  <2>. QED
    BY <2>1, <2>2
<1>3. n \in G
  <2>1. \A m \in 1..n : (\A q \in 1..m - 1 : q \in G) => m \in G
    BY <1>2
  <2>2. 1 \in Int /\ n \in Int /\ n \in 1..n
    BY <1>0
  <2>. HIDE DEF G
  <2>. QED
    BY <2>1, <2>2, Ascend
<1>. QED
  BY <1>1, <1>3 DEF Linked

LEMMA TrailedInherit ==
  ASSUME NEW text, NEW r \in Seq(Part), NEW lo \in Int, NEW hi \in Int, NEW next \in Int,
         Laid(r, lo, hi), Parted(text, hi, next)
  PROVE  Trailed(text, Inherit(r, next))
<1>. DEFINE s == Inherit(r, next)
            n == Len(r)
<1>1. /\ Len(s) = n /\ (r = <<>> <=> s = <<>>) /\ n \in Nat
      /\ \A j \in 1..n : s[j].end = r[j].end /\ s[j].next = IF j = n THEN next ELSE r[j].next
  BY InheritFields
<1>. HIDE DEF s
<1>2. ASSUME r # <<>> PROVE Parted(text, s[n].end, s[n].next)
  <2>1. n \in 1..n
    BY <1>2
  <2>2. /\ r[n].end <= r[n].next /\ r[n].next <= hi /\ r[n].end \in Int /\ r[n].next \in Int
    BY <2>1, PartIs DEF Laid
  <2>3. s[n].end = r[n].end /\ s[n].next = next
    BY <1>1, <2>1
  <2>. DEFINE x == r[n].end
  <2>4. x \in Int /\ x <= hi
    BY <2>2
  <2>. HIDE DEF x
  <2>5. PICK k \in hi..next - 2 : /\ At(text, k) = "\n" /\ At(text, next - 1) = "\n"
                                  /\ AllSpace(text, k, next)
    BY DEF Parted
  <2>6. k \in x..next - 2
    BY <2>4
  <2>7. Parted(text, x, next)
    BY <2>5, <2>6 DEF Parted
  <2>. QED
    BY <2>3, <2>7 DEF x
<1>. QED
  BY <1>1, <1>2 DEF Trailed, s

-----------------------------------------------------------------------------
(* How large a piece is: no larger than a chunk, unless no word ends in it. *)

\* No whitespace between two visible characters.
Solid(text, a, b) ==
  \A i, j, k \in a..b - 1 :
    i < j /\ j < k /\ At(text, j) \in Space => At(text, i) \in Space \/ At(text, k) \in Space

\* A solid span about i that is too long for a chunk.
TooLongAt(text, i) ==
  \E a, b \in 0..Len(text) : /\ a <= i /\ i < b /\ Solid(text, a, b)
                             /\ Count(Slice(text, a, b)) > ChunkSize

\* A piece keeps to the size and is not blank, unless counting characters made it.
Fits(text, p) ==
  /\ Count(Slice(text, p.start, p.end)) <= ChunkSize \/ Solid(text, p.start, p.end)
  /\ IsBlank(Slice(text, p.start, p.end)) => TooLongAt(text, p.start)

AllFit(text, r) == \A j \in 1..Len(r) : Fits(text, r[j])

\* A span that words do not divide is solid.
LEMMA UndividedSolid ==
  ASSUME NEW text, NEW s, NEW start \in Int, NEW end \in Int,
         Partition(text, s, start, end), Dividing(2, text, s, start, end), ~Divides(s)
  PROVE  Solid(text, start, end)
<1>. DEFINE n == Len(s)
<1>1. /\ n \in Nat /\ n > 0 /\ s[1].start = start /\ s[n].next = end
      /\ \A i \in 1..n : /\ s[i].start \in Int /\ s[i].end \in Int /\ s[i].next \in Int
                         /\ s[i].start <= s[i].end /\ s[i].end <= s[i].next
      /\ \A i \in 2..n : s[i].start = s[i - 1].next
  BY DEF Partition
<1>2. \A k \in 1..n : AllSpace(text, s[k].end, s[k].next) /\ Clear(text, s[k].start, s[k].end)
  BY DEF Dividing
<1>3. \A i, j \in 1..n : i < j => ~(s[i].start < s[i].end /\ s[j].start < s[j].end)
  BY DEF Divides
<1>. HIDE DEF n
<1>4. ASSUME NEW i \in start..end - 1, At(text, i) \notin Space
      PROVE  \E k \in 1..n : s[k].start <= i /\ i < s[k].end
  <2>. DEFINE G == {m \in 1..n : i < s[m].next => \E k \in 1..n : s[k].start <= i /\ i < s[k].end}
  <2>1. ASSUME NEW m \in 1..n, \A q \in 1..m - 1 : q \in G PROVE m \in G
    <3>1. CASE i < s[m].start
      <4>1. m # 1
        BY <1>1, <3>1
      <4>2. m \in 2..n /\ m - 1 \in 1..m - 1
        BY <1>1, <4>1
      <4>3. i < s[m - 1].next
        BY <1>1, <3>1, <4>2
      <4>. QED
        BY <2>1, <4>2, <4>3
    <3>2. CASE s[m].start <= i /\ i < s[m].end
      BY <3>2
    <3>3. CASE s[m].end <= i
      <4>1. i < s[m].next => i \in s[m].end..s[m].next - 1
        BY <1>1, <3>3
      <4>2. ~(i < s[m].next)
        BY <1>2, <1>4, <4>1 DEF AllSpace
      <4>. QED
        BY <4>2
    <3>4. s[m].start \in Int /\ s[m].end \in Int /\ i \in Int
      BY <1>1
    <3>. QED
      BY <3>1, <3>2, <3>3, <3>4
  <2>2. n \in G
    <3>1. 1 \in Int /\ n \in Int /\ n \in 1..n
          /\ \A m \in 1..n : (\A q \in 1..m - 1 : q \in G) => m \in G
      BY <1>1, <2>1
    <3>. HIDE DEF G
    <3>. QED
      BY <3>1, Ascend
  <2>. QED
    BY <1>1, <2>2
<1>5. SUFFICES ASSUME NEW i \in start..end - 1, NEW j \in start..end - 1, NEW k \in start..end - 1,
                      i < j, j < k, At(text, j) \in Space,
                      At(text, i) \notin Space, At(text, k) \notin Space
               PROVE  FALSE
  BY DEF Solid
<1>6. PICK a \in 1..n : s[a].start <= i /\ i < s[a].end
  BY <1>4, <1>5
<1>7. PICK b \in 1..n : s[b].start <= k /\ k < s[b].end
  BY <1>4, <1>5
<1>8. s[a].start < s[a].end /\ s[b].start < s[b].end
  BY <1>1, <1>6, <1>7
<1>9. a = b
  <2>1. a \in Int /\ b \in Int
    OBVIOUS
  <2>. QED
    BY <1>3, <1>8, <2>1
<1>10. j \in s[a].start..s[a].end - 1
  BY <1>1, <1>5, <1>6, <1>7, <1>9
<1>. QED
  BY <1>2, <1>5, <1>10 DEF Clear

LEMMA ClearSolid ==
  ASSUME NEW text, NEW a, NEW b, Clear(text, a, b)
  PROVE  Solid(text, a, b)
BY DEF Clear, Solid

LEMMA SolidWithin ==
  ASSUME NEW text, NEW a \in Int, NEW b \in Int, NEW c \in Int, NEW d \in Int,
         Solid(text, a, b), a <= c, d <= b
  PROVE  Solid(text, c, d)
<1>1. \A i \in c..d - 1 : i \in a..b - 1
  OBVIOUS
<1>. QED
  BY <1>1 DEF Solid

LEMMA AllFitInherit ==
  ASSUME NEW text, NEW r \in Seq(Part), NEW next \in Int, AllFit(text, r)
  PROVE  AllFit(text, Inherit(r, next))
<1>1. Len(Inherit(r, next)) = Len(r)
      /\ \A j \in 1..Len(r) : /\ Inherit(r, next)[j].start = r[j].start
                              /\ Inherit(r, next)[j].end = r[j].end
  BY InheritFields
<1>. QED
  BY <1>1 DEF AllFit, Fits

LEMMA AllFitFlatten ==
  ASSUME NEW text, NEW seqs \in Seq(Seq(Part)), \A i \in 1..Len(seqs) : AllFit(text, seqs[i])
  PROVE  AllFit(text, FlattenSeq(seqs))
<1>1. \A k \in 1..Len(FlattenSeq(seqs)) :
        \E i \in 1..Len(seqs) : \E j \in 1..Len(seqs[i]) : FlattenSeq(seqs)[k] = seqs[i][j]
  BY FlattenHolds
<1>. QED
  BY <1>1 DEF AllFit

LEMMA BlankIs ==
  ASSUME NEW text \in Seq(Char), NEW start \in 0..Len(text), NEW end \in start..Len(text),
         IsBlank(Slice(text, start, end))
  PROVE  AllSpace(text, start, end)
<1>. DEFINE w == Slice(text, start, end)
<1>1. Len(w) = end - start /\ \A i \in 1..end - start : w[i] = text[start + i]
  BY SliceIs
<1>2. \A i \in 1..Len(w) : w[i] \in Space
  BY DEF IsBlank
<1>. HIDE DEF w
<1>3. ASSUME NEW i \in start..end - 1 PROVE At(text, i) \in Space
  <2>1. (i - start) + 1 \in 1..end - start /\ start + ((i - start) + 1) = i + 1
        /\ i \in 0..Len(text) - 1
    OBVIOUS
  <2>2. text[i + 1] \in Space
    BY <1>1, <1>2, <2>1
  <2>. QED
    BY <2>1, <2>2 DEF At
<1>. QED
  BY <1>3 DEF AllSpace

LEMMA SingleIs ==
  ASSUME NEW text, NEW start \in Int, NEW end \in Int,
         Count(Slice(text, start, end)) <= ChunkSize, ~IsBlank(Slice(text, start, end)),
         NEW r, r = <<Piece(start, end, end)>>
  PROVE  Tight(text, r, start, end) /\ AllFit(text, r) /\ Chained(text, r)
<1>. DEFINE x == Piece(start, end, end)
<1>1. x.start = start /\ x.end = end /\ x.next = end
  BY DEF Piece
<1>. HIDE DEF x
<1>2. Len(r) = 1 /\ r[1] = x /\ r # <<>> /\ start..start - 1 = {}
  BY DEF x
<1>3. Fits(text, x)
  BY <1>1 DEF Fits
<1>. QED
  BY <1>1, <1>2, <1>3 DEF Tight, AllFit, AllSpace, Chained

-----------------------------------------------------------------------------
(* Splitting, by recursion on the level and the span at once: a call needs *)
(* those of the next level on the spans within its own.                    *)

Calls(text) == (0..3) \X (0..Len(text)) \X (0..Len(text))

\* The division of one span, given those of the level below.
SplitFrom(text, by, call) ==
  LET level == call[1]
      start == call[2]
      end == call[3]
      span == Slice(text, start, end)
      segments == Segments(level, text, start, end)
  IN CASE IsBlank(span) -> <<>>
       [] ~IsBlank(span) /\ Count(span) <= ChunkSize ->
            <<Piece(start, end, end)>>
       [] ~IsBlank(span) /\ Count(span) > ChunkSize /\ level > 2 ->
            ByCharacters(text, start, end)
       [] OTHER ->
            IF ~Divides(segments) THEN by[<<level + 1, start, end>>]
            ELSE FlattenSeq([i \in 1..Len(segments) |->
                   Inherit(by[<<level + 1, segments[i].start, segments[i].end>>],
                           segments[i].next)])

\* What segments are divided into, one after the other.
Parts(by, level, segments) ==
  [i \in 1..Len(segments) |->
     Inherit(by[<<level + 1, segments[i].start, segments[i].end>>], segments[i].next)]

LEMMA SplitCases ==
  ASSUME NEW text \in Seq(Char), NEW level \in 0..3,
         NEW start \in 0..Len(text), NEW end \in 0..Len(text), NEW by,
         NEW r, r = SplitFrom(text, by, <<level, start, end>>)
  PROVE  \/ IsBlank(Slice(text, start, end)) /\ r = <<>>
         \/ start < end /\ r = <<Piece(start, end, end)>>
            /\ Count(Slice(text, start, end)) <= ChunkSize /\ ~IsBlank(Slice(text, start, end))
         \/ start < end /\ level = 3 /\ r = ByCharacters(text, start, end)
            /\ Count(Slice(text, start, end)) > ChunkSize
         \/ start < end /\ level < 3 /\ ~Divides(Segments(level, text, start, end))
            /\ r = by[<<level + 1, start, end>>]
         \/ start < end /\ level < 3 /\ Divides(Segments(level, text, start, end))
            /\ r = FlattenSeq(Parts(by, level, Segments(level, text, start, end)))
<1>. DEFINE span == Slice(text, start, end)
            segments == Segments(level, text, start, end)
<1>1. CASE IsBlank(span)
  BY <1>1 DEF SplitFrom
<1>2. CASE ~IsBlank(span)
  <2>1. start < end
    <3>. SUFFICES ASSUME ~(start < end) PROVE FALSE
      OBVIOUS
    <3>1. end < start + 1 /\ start + 1 \in Int /\ end \in Int
      OBVIOUS
    <3>2. span = <<>>
      BY <3>1, SubSeqEmpty DEF Slice
    <3>. QED
      BY <1>2, <3>2 DEF IsBlank
  <2>2. span \in Seq(Char)
    <3>1. end \in start..Len(text)
      BY <2>1
    <3>. QED
      BY <3>1, SliceIs
  <2>3. Count(span) \in Nat /\ ChunkSize \in Nat
    BY <2>2, CountIs, ChunkingAssumption
  <2>. HIDE DEF span, segments
  <2>4. CASE Count(span) <= ChunkSize
    BY <1>2, <2>1, <2>4 DEF SplitFrom, span
  <2>5. CASE Count(span) > ChunkSize
    <3>1. ~(Count(span) <= ChunkSize)
      BY <2>3, <2>5
    <3>2. CASE level > 2
      <4>1. r = ByCharacters(text, start, end)
        BY <1>2, <2>5, <3>1, <3>2 DEF SplitFrom, span
      <4>2. level = 3
        BY <3>2
      <4>. QED
        BY <2>1, <2>5, <4>1, <4>2 DEF span
    <3>3. CASE ~(level > 2)
      <4>1. r = IF ~Divides(segments) THEN by[<<level + 1, start, end>>]
                ELSE FlattenSeq(Parts(by, level, segments))
        BY <1>2, <2>5, <3>1, <3>3 DEF SplitFrom, Parts, span, segments
      <4>. QED
        BY <2>1, <3>3, <4>1 DEF segments
    <3>. QED
      BY <3>2, <3>3
  <2>. QED
    BY <2>3, <2>4, <2>5
<1>. QED
  BY <1>1, <1>2

\* The calls a division makes: all of the level below.
LEMMA CallsBelow ==
  ASSUME NEW text \in Seq(Char), NEW level \in 0..2,
         NEW start \in 0..Len(text), NEW end \in start..Len(text),
         NEW s, s = Segments(level, text, start, end)
  PROVE  /\ <<level + 1, start, end>> \in Calls(text)
         /\ \A i \in 1..Len(s) : <<level + 1, s[i].start, s[i].end>> \in Calls(text)
                                 /\ s[i].start \in 0..Len(text)
                                    /\ s[i].end \in s[i].start..Len(text)
<1>0. level + 1 \in 0..3 /\ end \in 0..Len(text) /\ start \in 0..end /\ start \in Int /\ end \in Int
      /\ Len(text) \in Int /\ 0 <= start /\ end <= Len(text)
  OBVIOUS
<1>1. \A i \in 1..Len(s) : /\ start <= s[i].start /\ s[i].start <= s[i].end
                           /\ s[i].end <= s[i].next /\ s[i].next <= end
                           /\ {s[i].start, s[i].end, s[i].next} \subseteq Int
  <2>1. Partition(text, s, start, end)
    BY <1>0, SegmentsAre
  <2>. QED
    BY <2>1 DEF Partition
<1>2. \A i \in 1..Len(s) : s[i].start \in 0..Len(text) /\ s[i].end \in s[i].start..Len(text)
                           /\ s[i].end \in 0..Len(text)
  BY <1>0, <1>1
<1>. QED
  BY <1>0, <1>2 DEF Calls

\* Two families of divisions that are the same at one level.
SameAt(text, level, g, h) ==
  \A s, e \in 0..Len(text) : g[<<level, s, e>>] = h[<<level, s, e>>]

LEMMA SplitDepends ==
  ASSUME NEW text \in Seq(Char), NEW level \in 0..3,
         NEW start \in 0..Len(text), NEW end \in 0..Len(text), NEW g, NEW h,
         level < 3 => SameAt(text, level + 1, g, h)
  PROVE  SplitFrom(text, g, <<level, start, end>>) = SplitFrom(text, h, <<level, start, end>>)
<1>. DEFINE span == Slice(text, start, end)
            segments == Segments(level, text, start, end)
<1>1. CASE IsBlank(span)
  BY <1>1 DEF SplitFrom
<1>2. CASE ~IsBlank(span) /\ (Count(span) <= ChunkSize \/ (Count(span) > ChunkSize /\ level > 2))
  <2>1. CASE Count(span) <= ChunkSize /\ ~(Count(span) > ChunkSize)
    BY <1>2, <2>1 DEF SplitFrom
  <2>2. CASE ~(Count(span) <= ChunkSize) /\ Count(span) > ChunkSize /\ level > 2
    BY <1>2, <2>2 DEF SplitFrom
  <2>3. start < end
    <3>. SUFFICES ASSUME ~(start < end) PROVE FALSE
      OBVIOUS
    <3>1. end < start + 1 /\ start + 1 \in Int /\ end \in Int
      OBVIOUS
    <3>2. span = <<>>
      BY <3>1, SubSeqEmpty DEF Slice
    <3>. QED
      BY <1>2, <3>2 DEF IsBlank
  <2>4. Count(span) \in Nat /\ ChunkSize \in Nat
    <3>1. end \in start..Len(text)
      BY <2>3
    <3>2. span \in Seq(Char)
      BY <3>1, SliceIs
    <3>. QED
      BY <3>2, CountIs, ChunkingAssumption
  <2>. HIDE DEF span
  <2>. QED
    BY <1>2, <2>1, <2>2, <2>4
<1>3. CASE ~IsBlank(span) /\ ~(Count(span) <= ChunkSize) /\ ~(Count(span) > ChunkSize /\ level > 2)
  <2>1. start < end
    <3>. SUFFICES ASSUME ~(start < end) PROVE FALSE
      OBVIOUS
    <3>1. end < start + 1 /\ start + 1 \in Int /\ end \in Int
      OBVIOUS
    <3>2. span = <<>>
      BY <3>1, SubSeqEmpty DEF Slice
    <3>. QED
      BY <1>3, <3>2 DEF IsBlank
  <2>2. end \in start..Len(text)
    BY <2>1
  <2>3. level \in 0..2
    <3>1. span \in Seq(Char)
      BY <2>2, SliceIs
    <3>2. Count(span) \in Nat /\ ChunkSize \in Nat
      BY <3>1, CountIs, ChunkingAssumption
    <3>. HIDE DEF span
    <3>3. Count(span) > ChunkSize
      BY <1>3, <3>2
    <3>. QED
      BY <1>3, <3>3
  <2>. HIDE DEF segments
  <2>4. \A i \in 1..Len(segments) : segments[i].start \in 0..Len(text)
                                    /\ segments[i].end \in segments[i].start..Len(text)
    BY <2>2, <2>3, CallsBelow DEF segments
  <2>5. \A i \in 1..Len(segments) :
          g[<<level + 1, segments[i].start, segments[i].end>>]
            = h[<<level + 1, segments[i].start, segments[i].end>>]
    <3>1. level < 3
      BY <2>3
    <3>2. \A i \in 1..Len(segments) : segments[i].end \in 0..Len(text)
      BY <2>4
    <3>. QED
      BY <2>4, <3>1, <3>2 DEF SameAt
  <2>6. Parts(g, level, segments) = Parts(h, level, segments)
    BY <2>5 DEF Parts
  <2>7. g[<<level + 1, start, end>>] = h[<<level + 1, start, end>>]
    BY <2>3 DEF SameAt
  <2>8. ASSUME NEW f
        PROVE  SplitFrom(text, f, <<level, start, end>>) =
                 IF ~Divides(segments) THEN f[<<level + 1, start, end>>]
                 ELSE FlattenSeq(Parts(f, level, segments))
    <3>. HIDE DEF span
    <3>. QED
      BY <1>3 DEF SplitFrom, Parts, span, segments
  <2>. QED
    BY <2>6, <2>7, <2>8
<1>. QED
  BY <1>1, <1>2, <1>3

LEMMA SplitTyped ==
  ASSUME NEW text \in Seq(Char), NEW level \in 0..3,
         NEW start \in 0..Len(text), NEW end \in 0..Len(text),
         NEW g \in [Calls(text) -> Seq(Part)]
  PROVE  SplitFrom(text, g, <<level, start, end>>) \in Seq(Part)
<1>. DEFINE r == SplitFrom(text, g, <<level, start, end>>)
            s == Segments(level, text, start, end)
<1>0. start \in Int /\ end \in Int /\ <<>> \in Seq(Part)
  OBVIOUS
<1>1. \/ r = <<>>
      \/ start < end /\ r = <<Piece(start, end, end)>>
      \/ start < end /\ r = ByCharacters(text, start, end)
      \/ start < end /\ level < 3 /\ r = g[<<level + 1, start, end>>]
      \/ start < end /\ level < 3 /\ r = FlattenSeq(Parts(g, level, s))
  BY SplitCases
<1>. HIDE DEF r
<1>2. ASSUME start < end, r = <<Piece(start, end, end)>> PROVE r \in Seq(Part)
  <2>1. Piece(start, end, end) \in Part
    BY <1>0 DEF Piece, Part
  <2>. QED
    BY <1>2, <2>1
<1>3. ASSUME start < end, r = ByCharacters(text, start, end) PROVE r \in Seq(Part)
  <2>1. end \in start + 1..Len(text)
    BY <1>3
  <2>. QED
    BY <1>3, <2>1, ByCharactersIs DEF Divided
<1>4. ASSUME start < end, level < 3, r = g[<<level + 1, start, end>>] PROVE r \in Seq(Part)
  <2>1. <<level + 1, start, end>> \in Calls(text)
    BY <1>4 DEF Calls
  <2>. QED
    BY <1>4, <2>1
<1>5. ASSUME start < end, level < 3, r = FlattenSeq(Parts(g, level, s)) PROVE r \in Seq(Part)
  <2>0. level \in 0..2 /\ end \in start..Len(text) /\ start \in 0..end
    BY <1>5
  <2>1. Partition(text, s, start, end)
    BY <2>0, SegmentsAre
  <2>2. \A i \in 1..Len(s) : <<level + 1, s[i].start, s[i].end>> \in Calls(text)
    BY <2>0, CallsBelow
  <2>. HIDE DEF s
  <2>3. Len(s) \in Nat /\ \A i \in 1..Len(s) : s[i].next \in Int
    BY <2>1 DEF Partition
  <2>4. ASSUME NEW q \in Seq(Part), NEW next \in Int PROVE Inherit(q, next) \in Seq(Part)
    <3>1. CASE q = <<>>
      BY <3>1 DEF Inherit
    <3>2. CASE q # <<>>
      <4>. DEFINE x == [q[Len(q)] EXCEPT !.next = next]
      <4>1. Len(q) \in 1..Len(q)
        BY <3>2
      <4>2. q[Len(q)] \in Part
        BY <4>1
      <4>3. x \in Part /\ Inherit(q, next) = [q EXCEPT ![Len(q)] = x]
        BY <3>2, <4>2 DEF Inherit, Part
      <4>. HIDE DEF x
      <4>. QED
        BY <4>1, <4>3
    <3>. QED
      BY <3>1, <3>2
  <2>5. \A i \in 1..Len(s) :
          Inherit(g[<<level + 1, s[i].start, s[i].end>>], s[i].next) \in Seq(Part)
    BY <2>2, <2>3, <2>4
  <2>6. Parts(g, level, s) \in Seq(Seq(Part))
    BY <2>3, <2>5 DEF Parts
  <2>. QED
    BY <1>5, <2>6, FlattenHolds
<1>. QED
  BY <1>0, <1>1, <1>2, <1>3, <1>4, <1>5 DEF r

LEMMA SplitDivides ==
  ASSUME NEW text \in Seq(Char), NEW level \in 0..3,
         NEW start \in 0..Len(text), NEW end \in start..Len(text), NEW by,
         level < 3 => \A s \in 0..Len(text) : \A e \in s..Len(text) :
                        Divided(text, by[<<level + 1, s, e>>], s, e)
  PROVE  Divided(text, SplitFrom(text, by, <<level, start, end>>), start, end)
<1>. DEFINE r == SplitFrom(text, by, <<level, start, end>>)
            s == Segments(level, text, start, end)
<1>0. start \in Int /\ end \in Int /\ end \in 0..Len(text) /\ start <= end /\ 0 <= start
      /\ <<>> \in Seq(Part) /\ Len(text) \in Nat
  OBVIOUS
<1>1. \/ IsBlank(Slice(text, start, end)) /\ r = <<>>
      \/ start < end /\ r = <<Piece(start, end, end)>>
      \/ start < end /\ r = ByCharacters(text, start, end)
      \/ start < end /\ level < 3 /\ r = by[<<level + 1, start, end>>]
      \/ start < end /\ level < 3 /\ r = FlattenSeq(Parts(by, level, s))
  BY <1>0, SplitCases
<1>. HIDE DEF r
<1>2. ASSUME IsBlank(Slice(text, start, end)), r = <<>> PROVE Divided(text, r, start, end)
  <2>. DEFINE w == Slice(text, start, end)
  <2>1. Len(w) = end - start /\ \A i \in 1..end - start : w[i] = text[start + i]
    BY SliceIs
  <2>. HIDE DEF w
  <2>2. ASSUME NEW i \in start..end - 1 PROVE Loose(text, i)
    <3>1. (i - start) + 1 \in 1..end - start /\ start + ((i - start) + 1) = i + 1
          /\ i \in 0..Len(text) - 1
      BY <1>0
    <3>2. text[i + 1] \in Space
      <4>1. w[(i - start) + 1] \in Space
        BY <1>2, <2>1, <3>1 DEF IsBlank, w
      <4>. QED
        BY <2>1, <3>1, <4>1
    <3>3. At(text, i) \in Space
      BY <3>1, <3>2 DEF At
    <3>. QED
      BY <3>3 DEF Loose
  <2>3. Laid(<<>>, start, end)
    BY DEF Laid
  <2>. QED
    BY <1>0, <1>2, <2>2, <2>3 DEF Divided, Covers
<1>3. ASSUME start < end, r = <<Piece(start, end, end)>> PROVE Divided(text, r, start, end)
  <2>. DEFINE x == Piece(start, end, end)
  <2>1. x \in Part /\ x.start = start /\ x.end = end /\ x.next = end
    BY <1>0 DEF Piece, Part
  <2>. HIDE DEF x
  <2>2. r = <<x>>
    BY <1>3 DEF x
  <2>3. r \in Seq(Part) /\ Len(r) = 1 /\ r[1] = x
    BY <2>1, <2>2
  <2>4. Laid(r, start, end)
    BY <1>0, <1>3, <2>1, <2>3 DEF Laid
  <2>5. ASSUME NEW i \in start..end - 1 PROVE Within(r, i)
    <3>1. 1 \in 1..Len(r) /\ start <= i /\ i < end
      BY <1>0, <2>3
    <3>. QED
      BY <2>1, <2>3, <3>1 DEF Within
  <2>. QED
    BY <2>3, <2>4, <2>5 DEF Divided, Covers
<1>4. ASSUME start < end, r = ByCharacters(text, start, end) PROVE Divided(text, r, start, end)
  <2>1. end \in start + 1..Len(text)
    BY <1>0, <1>4
  <2>. QED
    BY <1>4, <2>1, ByCharactersIs
<1>5. ASSUME start < end, level < 3, r = by[<<level + 1, start, end>>]
      PROVE  Divided(text, r, start, end)
  <2>1. Divided(text, by[<<level + 1, start, end>>], start, end)
    BY <1>0, <1>5
  <2>. QED
    BY <1>5, <2>1
<1>6. ASSUME start < end, level < 3, r = FlattenSeq(Parts(by, level, s))
      PROVE  Divided(text, r, start, end)
  <2>0. level \in 0..2 /\ start \in 0..end
    BY <1>0, <1>6
  <2>1. Partition(text, s, start, end)
    BY <1>0, <2>0, SegmentsAre
  <2>2. \A i \in 1..Len(s) : s[i].start \in 0..Len(text) /\ s[i].end \in s[i].start..Len(text)
    BY <2>0, CallsBelow
  <2>. HIDE DEF s
  <2>. DEFINE q == Parts(by, level, s)
              n == Len(s)
              lo == [i \in 1..n |-> s[i].start]
              hi == [i \in 1..n |-> s[i].next]
  <2>3. /\ n \in Nat /\ n > 0 /\ s[1].start = start /\ s[n].next = end
        /\ \A i \in 1..n : /\ s[i].start \in Int /\ s[i].end \in Int /\ s[i].next \in Int
                           /\ s[i].start <= s[i].end /\ s[i].end <= s[i].next
                           /\ s[i].start <= s[i].next
                           /\ \A k \in s[i].end..s[i].next - 1 : Loose(text, k)
        /\ \A i \in 2..n : s[i].start = s[i - 1].next
    <3>1. \A i \in 1..n : s[i].start \in Int /\ s[i].end \in Int /\ s[i].next \in Int
      BY <2>1 DEF Partition
    <3>2. /\ n \in Nat /\ n > 0 /\ s[1].start = start /\ s[n].next = end
          /\ \A i \in 1..n : /\ s[i].start <= s[i].end /\ s[i].end <= s[i].next
                             /\ \A k \in s[i].end..s[i].next - 1 : Loose(text, k)
          /\ \A i \in 2..n : s[i].start = s[i - 1].next
      BY <2>1 DEF Partition
    <3>. HIDE DEF n
    <3>3. \A i \in 1..n : s[i].start <= s[i].next
      <4>1. \A x, y, z \in Int : x <= y /\ y <= z => x <= z
        OBVIOUS
      <4>. QED
        BY <3>1, <3>2, <4>1
    <3>. QED
      BY <3>1, <3>2, <3>3
  <2>4. ASSUME NEW i \in 1..n PROVE Divided(text, q[i], lo[i], hi[i])
    <3>1. Divided(text, by[<<level + 1, s[i].start, s[i].end>>], s[i].start, s[i].end)
      BY <1>6, <2>2
    <3>2. Divided(text, Inherit(by[<<level + 1, s[i].start, s[i].end>>], s[i].next),
                  s[i].start, s[i].next)
      <4>. DEFINE b == by[<<level + 1, s[i].start, s[i].end>>]
                  x == s[i].start
                  y == s[i].end
                  z == s[i].next
      <4>1. /\ x \in Int /\ y \in Int /\ z \in Int /\ y <= z /\ Divided(text, b, x, y)
            /\ \A k \in y..z - 1 : Loose(text, k)
        BY <2>3, <3>1
      <4>. HIDE DEF b, x, y, z
      <4>2. Divided(text, Inherit(b, z), x, z)
        BY <4>1, InheritIs
      <4>. QED
        BY <4>2 DEF b, x, y, z
    <3>. QED
      BY <3>2 DEF Parts
  <2>5. q \in Seq(Seq(Part)) /\ Len(q) = n
    <3>1. \A i \in 1..n : q[i] \in Seq(Part)
      BY <2>4 DEF Divided
    <3>2. q = [i \in 1..n |-> q[i]]
      BY DEF Parts
    <3>. HIDE DEF q, n
    <3>. DEFINE T == Seq(Part)
    <3>3. \A i \in 1..n : q[i] \in T
      BY <3>1
    <3>. HIDE DEF T
    <3>4. q \in [1..n -> T]
      BY <3>2, <3>3
    <3>5. q \in Seq(T) /\ Len(q) = n
      BY <2>3, <3>4
    <3>. QED
      BY <3>5 DEF T
  <2>6. /\ lo \in [1..n -> Int] /\ hi \in [1..n -> Int]
        /\ \A i \in 1..n : lo[i] <= hi[i]
        /\ \A i \in 2..n : lo[i] = hi[i - 1]
        /\ lo[1] = start /\ hi[n] = end
    <3>1. 1 \in 1..n /\ n \in 1..n /\ \A i \in 2..n : i \in 1..n /\ i - 1 \in 1..n
      BY <2>3
    <3>. HIDE DEF n
    <3>. QED
      BY <2>3, <3>1
  <2>. HIDE DEF q, lo, hi
  <2>7. Divided(text, FlattenSeq(q), lo[1], hi[Len(q)])
    BY <2>3, <2>4, <2>5, <2>6, DividedFlatten
  <2>. QED
    BY <1>6, <2>5, <2>6, <2>7 DEF q
<1>. QED
  BY <1>1, <1>2, <1>3, <1>4, <1>5, <1>6 DEF r

\* A family of divisions of all spans at all levels.
Dividings(text, by) ==
  \A l \in 0..3 : \A s \in 0..Len(text) : \A e \in s..Len(text) :
    /\ by[<<l, s, e>>] = SplitFrom(text, by, <<l, s, e>>)
    /\ Divided(text, by[<<l, s, e>>], s, e)

LEMMA SplitUnfolds ==
  ASSUME NEW text \in Seq(Char)
  PROVE  \E by : Split(text) = by[<<0, 0, Len(text)>>] /\ Dividings(text, by)
<1>. DEFINE n == Len(text)
            D == Calls(text)
            T == Seq(Part)
            rank == [c \in D |-> 3 - c[1]]
            Rec == [c \in D |-> [g \in [D -> T] |-> SplitFrom(text, g, c)]]
            chosen == CHOOSE f : f = [c \in D |-> SplitFrom(text, f, c)]
<1>0. n \in Nat /\ 0 \in 0..n /\ n \in 0..n /\ n \in Int
  OBVIOUS
<1>a. \A c \in D : /\ c = <<c[1], c[2], c[3]>>
                   /\ c[1] \in 0..3 /\ c[2] \in 0..n /\ c[3] \in 0..n /\ c[1] \in Int
  BY DEF Calls
<1>b. \A l \in 0..3, s, e \in 0..n : <<l, s, e>> \in D /\ <<l, s, e>>[1] = l
  BY DEF Calls
<1>1. Split(text) = chosen[<<0, 0, n>>]
  BY DEF Split, SplitFrom, Calls
<1>2. rank \in [D -> 0..3] /\ \A c \in D : rank[c] = 3 - c[1]
  BY <1>a
<1>3. \A c \in D, g \in [D -> T] : SplitFrom(text, g, c) \in T
  <2>. TAKE c \in D, g \in [D -> T]
  <2>1. SplitFrom(text, g, <<c[1], c[2], c[3]>>) \in T
    BY <1>a, SplitTyped
  <2>. QED
    BY <1>a, <2>1
<1>4. Rec \in [D -> [[D -> T] -> T]]
      /\ \A c \in D, g \in [D -> T] : Rec[c][g] = SplitFrom(text, g, c)
  BY <1>3
<1>5. \A c \in D : \A g, h \in [D -> T] :
        (\A q \in D : rank[q] < rank[c] => g[q] = h[q]) => Rec[c][g] = Rec[c][h]
  <2>. SUFFICES ASSUME NEW c \in D, NEW g \in [D -> T], NEW h \in [D -> T],
                       \A q \in D : rank[q] < rank[c] => g[q] = h[q]
                PROVE  SplitFrom(text, g, c) = SplitFrom(text, h, c)
    BY <1>4
  <2>. DEFINE level == c[1]
  <2>1. ASSUME level < 3, NEW s \in 0..n, NEW e \in 0..n
        PROVE  g[<<level + 1, s, e>>] = h[<<level + 1, s, e>>]
    <3>0. level \in 0..3
      BY <1>a
    <3>1. level + 1 \in 0..3 /\ level \in Int
      <4>. HIDE DEF level
      <4>. QED
        BY <2>1, <3>0
    <3>2. <<level + 1, s, e>> \in D /\ <<level + 1, s, e>>[1] = level + 1
      BY <1>b, <3>1
    <3>3. rank[<<level + 1, s, e>>] = 3 - (level + 1) /\ rank[c] = 3 - level
      BY <1>2, <3>2
    <3>4. rank[<<level + 1, s, e>>] < rank[c]
      BY <3>1, <3>3
    <3>. QED
      BY <3>2, <3>4
  <2>2. SplitFrom(text, g, <<c[1], c[2], c[3]>>) = SplitFrom(text, h, <<c[1], c[2], c[3]>>)
    <3>1. c[1] \in 0..3 /\ c[2] \in 0..Len(text) /\ c[3] \in 0..Len(text)
      BY <1>a
    <3>2. c[1] < 3 => SameAt(text, c[1] + 1, g, h)
      BY <2>1 DEF SameAt
    <3>. DEFINE x == c[1]
                y == c[2]
                z == c[3]
    <3>3. /\ x \in 0..3 /\ y \in 0..Len(text) /\ z \in 0..Len(text)
          /\ x < 3 => SameAt(text, x + 1, g, h)
      BY <3>1, <3>2
    <3>. HIDE DEF x, y, z
    <3>4. SplitFrom(text, g, <<x, y, z>>) = SplitFrom(text, h, <<x, y, z>>)
      BY <3>3, SplitDepends
    <3>. QED
      BY <3>4 DEF x, y, z
  <2>. QED
    BY <1>a, <2>2
<1>6. PICK f \in [D -> T] : \A c \in D : f[c] = Rec[c][f]
  <2>1. T # {}
    <3>1. <<>> \in T
      OBVIOUS
    <3>. QED
      BY <3>1
  <2>2. 3 \in Nat
    OBVIOUS
  <2>. HIDE DEF D, T, rank, Rec
  <2>3. Recursive(D, 3, rank, T, Rec)
    BY <1>2, <1>4, <1>5, <2>1, <2>2 DEF Recursive
  <2>. QED
    BY <2>3, RecursionExists
<1>7. f = [c \in D |-> SplitFrom(text, f, c)]
  BY <1>4, <1>6
<1>8. chosen = [c \in D |-> SplitFrom(text, chosen, c)]
  BY <1>7
<1>. HIDE DEF chosen, D
<1>9. \A c \in D : chosen[c] = SplitFrom(text, chosen, c)
  BY <1>8
<1>. DEFINE G == {l \in 0..3 : \A s \in 0..n : \A e \in s..n :
            Divided(text, chosen[<<l, s, e>>], s, e)}
<1>10. ASSUME NEW l \in 0..3, \A q \in l + 1..3 : q \in G PROVE l \in G
  <2>1. ASSUME l < 3, NEW s \in 0..n, NEW e \in s..n
        PROVE  Divided(text, chosen[<<l + 1, s, e>>], s, e)
    <3>1. l + 1 \in l + 1..3
      BY <2>1
    <3>. QED
      BY <1>10, <3>1
  <2>2. ASSUME NEW s \in 0..n, NEW e \in s..n PROVE Divided(text, chosen[<<l, s, e>>], s, e)
    <3>1. Divided(text, SplitFrom(text, chosen, <<l, s, e>>), s, e)
      BY <2>1, SplitDivides
    <3>2. e \in 0..n
      BY <1>0
    <3>3. chosen[<<l, s, e>>] = SplitFrom(text, chosen, <<l, s, e>>)
      BY <1>9, <1>b, <3>2
    <3>. QED
      BY <3>1, <3>3
  <2>. QED
    BY <2>2
<1>11. \A l \in 0..3 : l \in G
  <2>1. \A l \in 0..3 : (\A q \in l + 1..3 : q \in G) => l \in G
    BY <1>10
  <2>2. 0 \in Int /\ 3 \in Int
    OBVIOUS
  <2>. HIDE DEF G
  <2>. QED
    BY <2>1, <2>2, Descend
<1>12. ASSUME NEW l \in 0..3, NEW s \in 0..n, NEW e \in s..n
       PROVE  /\ chosen[<<l, s, e>>] = SplitFrom(text, chosen, <<l, s, e>>)
              /\ Divided(text, chosen[<<l, s, e>>], s, e)
  <2>1. e \in 0..n /\ <<l, s, e>> \in D
    BY <1>0, <1>b
  <2>2. l \in G
    BY <1>11
  <2>. QED
    BY <1>9, <2>1, <2>2
<1>13. Dividings(text, chosen)
  BY <1>12 DEF Dividings
<1>. QED
  BY <1>1, <1>13

\* The pieces of a text divide it.
LEMMA SplitIs ==
  ASSUME NEW text \in Seq(Char)
  PROVE  Divided(text, Split(text), 0, Len(text))
<1>1. PICK by : Split(text) = by[<<0, 0, Len(text)>>] /\ Dividings(text, by)
  BY SplitUnfolds
<1>2. 0 \in 0..3 /\ 0 \in 0..Len(text) /\ Len(text) \in 0..Len(text)
  OBVIOUS
<1>. QED
  BY <1>1, <1>2 DEF Dividings

LEMMA PartsAdjoin ==
  ASSUME NEW text, NEW by, NEW level, NEW s, NEW start \in Int, NEW end \in Int,
         Partition(text, s, start, end),
         \A i \in 1..Len(s) :
           /\ Divided(text, by[<<level + 1, s[i].start, s[i].end>>], s[i].start, s[i].end)
           /\ Tight(text, by[<<level + 1, s[i].start, s[i].end>>], s[i].start, s[i].end)
           /\ AllFit(text, by[<<level + 1, s[i].start, s[i].end>>])
           /\ by[<<level + 1, s[i].start, s[i].end>>] = <<>> =>
                AllSpace(text, s[i].end, s[i].next)
  PROVE  /\ Parts(by, level, s) \in Seq(Seq(Part)) /\ Len(Parts(by, level, s)) = Len(s)
         /\ Adjoining(text, Parts(by, level, s), [i \in 1..Len(s) |-> s[i].start],
                      [i \in 1..Len(s) |-> s[i].next])
         /\ AllFit(text, FlattenSeq(Parts(by, level, s)))
<1>. DEFINE q == Parts(by, level, s)
            n == Len(s)
            lo == [i \in 1..n |-> s[i].start]
            hi == [i \in 1..n |-> s[i].next]
<1>1. /\ n \in Nat
      /\ \A i \in 1..n : /\ s[i].start \in Int /\ s[i].end \in Int /\ s[i].next \in Int
                         /\ s[i].start <= s[i].end /\ s[i].end <= s[i].next
                         /\ \A k \in s[i].end..s[i].next - 1 : Loose(text, k)
      /\ \A i \in 2..n : s[i].start = s[i - 1].next
  BY DEF Partition
<1>2. ASSUME NEW i \in 1..n
      PROVE  /\ Divided(text, q[i], s[i].start, s[i].next)
             /\ Tight(text, q[i], s[i].start, s[i].next)
             /\ AllFit(text, q[i]) /\ s[i].start <= s[i].next
  <2>. DEFINE b == by[<<level + 1, s[i].start, s[i].end>>]
              x == s[i].start
              y == s[i].end
              z == s[i].next
  <2>1. /\ x \in Int /\ y \in Int /\ z \in Int /\ x <= y /\ y <= z
        /\ Divided(text, b, x, y) /\ (\A k \in y..z - 1 : Loose(text, k))
        /\ Tight(text, b, x, y) /\ AllFit(text, b) /\ (b = <<>> => AllSpace(text, y, z))
    BY <1>1
  <2>2. q[i] = Inherit(b, z)
    BY DEF Parts
  <2>. HIDE DEF b, x, y, z, q
  <2>3. b \in Seq(Part)
    BY <2>1 DEF Divided
  <2>4. Divided(text, Inherit(b, z), x, z)
    BY <2>1, InheritIs
  <2>5. Tight(text, Inherit(b, z), x, z)
    BY <2>1, <2>3, TightInherit
  <2>6. AllFit(text, Inherit(b, z))
    BY <2>1, <2>3, AllFitInherit
  <2>7. x <= z
    BY <2>1
  <2>. QED
    BY <2>2, <2>4, <2>5, <2>6, <2>7 DEF x, z
<1>3. q \in Seq(Seq(Part)) /\ Len(q) = n
  <2>1. \A i \in 1..n : q[i] \in Seq(Part)
    BY <1>2 DEF Divided
  <2>2. q = [i \in 1..n |-> q[i]]
    BY DEF Parts
  <2>. HIDE DEF q, n
  <2>. DEFINE T == Seq(Part)
  <2>3. \A i \in 1..n : q[i] \in T
    BY <2>1
  <2>. HIDE DEF T
  <2>4. q \in [1..n -> T]
    BY <2>2, <2>3
  <2>5. q \in Seq(T) /\ Len(q) = n
    BY <1>1, <2>4
  <2>. QED
    BY <2>5 DEF T
<1>. HIDE DEF q
<1>4. /\ lo \in [1..n -> Int] /\ hi \in [1..n -> Int]
      /\ \A i \in 1..n : lo[i] = s[i].start /\ hi[i] = s[i].next
      /\ \A i \in 2..n : lo[i] = hi[i - 1]
  <2>1. \A i \in 2..n : i \in 1..n /\ i - 1 \in 1..n
    BY <1>1
  <2>. HIDE DEF n
  <2>. QED
    BY <1>1, <2>1
<1>. HIDE DEF lo, hi
<1>5. Adjoining(text, q, lo, hi)
  BY <1>2, <1>3, <1>4 DEF Adjoining
<1>6. AllFit(text, FlattenSeq(q))
  BY <1>2, <1>3, AllFitFlatten
<1>. QED
  BY <1>3, <1>5, <1>6 DEF q, lo, hi

\* What the division of a span at a level takes for granted: no sentence ends
\* before it, and where characters are counted, no whitespace divides it.
Ready(level, text, start, end) ==
  /\ At(text, start - 1) \notin Terminal
  /\ level = 3 => Solid(text, start, end)

\* What it promises then.
Sound(text, r, start, end) == Tight(text, r, start, end) /\ AllFit(text, r)

SoundAt(level, text, by) ==
  \A s \in 0..Len(text) : \A e \in s..Len(text) :
    Ready(level, text, s, e) => Sound(text, by[<<level, s, e>>], s, e)

LEMMA LevelSound ==
  ASSUME NEW text \in Seq(Char), NEW by, Dividings(text, by), NEW level \in 1..3,
         level < 3 => SoundAt(level + 1, text, by),
         NEW start \in 0..Len(text), NEW end \in start..Len(text), Ready(level, text, start, end)
  PROVE  Sound(text, by[<<level, start, end>>], start, end)
<1>. DEFINE r == by[<<level, start, end>>]
            s == Segments(level, text, start, end)
<1>0. start \in Int /\ end \in Int /\ end \in 0..Len(text) /\ start \in 0..end /\ level \in 0..3
  OBVIOUS
<1>1. r = SplitFrom(text, by, <<level, start, end>>)
  BY <1>0 DEF Dividings
<1>2. \/ IsBlank(Slice(text, start, end)) /\ r = <<>>
      \/ start < end /\ r = <<Piece(start, end, end)>>
         /\ Count(Slice(text, start, end)) <= ChunkSize /\ ~IsBlank(Slice(text, start, end))
      \/ start < end /\ level = 3 /\ r = ByCharacters(text, start, end)
         /\ Count(Slice(text, start, end)) > ChunkSize
      \/ start < end /\ level < 3 /\ ~Divides(s) /\ r = by[<<level + 1, start, end>>]
      \/ start < end /\ level < 3 /\ Divides(s) /\ r = FlattenSeq(Parts(by, level, s))
  BY <1>0, <1>1, SplitCases
<1>. HIDE DEF r
<1>3. ASSUME IsBlank(Slice(text, start, end)), r = <<>> PROVE Sound(text, r, start, end)
  <2>1. AllSpace(text, start, end)
    BY <1>3, BlankIs
  <2>. QED
    BY <1>3, <2>1 DEF Sound, Tight, AllFit
<1>4. ASSUME r = <<Piece(start, end, end)>>, Count(Slice(text, start, end)) <= ChunkSize,
             ~IsBlank(Slice(text, start, end))
      PROVE  Sound(text, r, start, end)
  BY <1>0, <1>4, SingleIs DEF Sound
<1>5. ASSUME start < end, level = 3, r = ByCharacters(text, start, end),
             Count(Slice(text, start, end)) > ChunkSize
      PROVE  Sound(text, r, start, end)
  <2>1. end \in start + 1..Len(text)
    BY <1>0, <1>5
  <2>2. Divided(text, r, start, end) /\ Tight(text, r, start, end)
    BY <1>5, <2>1, ByCharactersIs
  <2>3. Solid(text, start, end)
    BY <1>5 DEF Ready
  <2>4. ASSUME NEW j \in 1..Len(r) PROVE Fits(text, r[j])
    <3>1. r \in Seq(Part) /\ Laid(r, start, end)
      BY <2>2 DEF Divided
    <3>2. /\ start <= r[j].start /\ r[j].start < r[j].end /\ r[j].end <= r[j].next
          /\ r[j].next <= end
          /\ r[j].start \in Int /\ r[j].end \in Int /\ r[j].next \in Int
      BY <3>1, PartIs DEF Laid
    <3>. DEFINE x == r[j].start
                y == r[j].end
    <3>3. x \in Int /\ y \in Int /\ start <= x /\ x < y /\ y <= end
      BY <1>0, <3>2
    <3>. HIDE DEF x, y
    <3>4. Solid(text, x, y)
      BY <1>0, <2>3, <3>3, SolidWithin
    <3>5. TooLongAt(text, x)
      <4>1. start <= x /\ x < end
        BY <1>0, <3>3
      <4>. QED
        BY <1>0, <1>5, <2>3, <4>1 DEF TooLongAt
    <3>. QED
      BY <3>4, <3>5 DEF Fits, x, y
  <2>. QED
    BY <2>2, <2>4 DEF Sound, AllFit
<1>6. ASSUME level < 3
      PROVE  /\ level \in {1, 2} /\ level \in 0..2 /\ level # 0
             /\ (level + 1 = 3 <=> level = 2)
             /\ Partition(text, s, start, end) /\ Dividing(level, text, s, start, end)
             /\ SoundAt(level + 1, text, by)
  <2>1. level \in 0..2 /\ level \in {1, 2} /\ level # 0 /\ (level + 1 = 3 <=> level = 2)
    BY <1>6
  <2>2. Partition(text, s, start, end) /\ Dividing(level, text, s, start, end)
    BY <1>0, <2>1, SegmentsAre, SegmentsDivide
  <2>. QED
    BY <1>6, <2>1, <2>2
<1>7. ASSUME level < 3, ~Divides(s), r = by[<<level + 1, start, end>>]
      PROVE  Sound(text, r, start, end)
  <2>1. level = 2 => Solid(text, start, end)
    <3>. SUFFICES ASSUME level = 2 PROVE Solid(text, start, end)
      OBVIOUS
    <3>1. Partition(text, s, start, end) /\ Dividing(2, text, s, start, end)
      BY <1>6, <1>7
    <3>. HIDE DEF s
    <3>. QED
      BY <1>0, <1>7, <3>1, UndividedSolid
  <2>2. Ready(level + 1, text, start, end)
    BY <1>6, <1>7, <2>1 DEF Ready
  <2>. QED
    BY <1>0, <1>6, <1>7, <2>2 DEF SoundAt
<1>8. ASSUME level < 3, Divides(s), r = FlattenSeq(Parts(by, level, s))
      PROVE  Sound(text, r, start, end)
  <2>. DEFINE n == Len(s)
              part(i) == by[<<level + 1, s[i].start, s[i].end>>]
  <2>1. \A i \in 1..n : s[i].start \in 0..Len(text) /\ s[i].end \in s[i].start..Len(text)
    BY <1>6, <1>8, CallsBelow
  <2>2. Partition(text, s, start, end) /\ Dividing(level, text, s, start, end)
    BY <1>6, <1>8
  <2>. HIDE DEF s
  <2>3. /\ n \in Nat /\ n > 0 /\ s[1].start = start /\ s[n].next = end
        /\ \A i \in 1..n : /\ s[i].start \in Int /\ s[i].end \in Int /\ s[i].next \in Int
                           /\ start <= s[i].start
                           /\ s[i].start <= s[i].end /\ s[i].end <= s[i].next /\ s[i].next <= end
    BY <2>2 DEF Partition
  <2>4. n > 1
    <3>1. PICK i, j \in 1..n : i < j
      BY <1>8 DEF Divides
    <3>. QED
      BY <2>3, <3>1
  <2>5. \A i \in 1..n : i = 1 \/ i \in 2..n
    BY <2>3
  <2>6. \A i \in 2..n : /\ At(text, s[i].start - 1) \in Space
                        /\ \/ s[i].start = end
                           \/ At(text, s[i].start) \notin Space /\ s[i].start < s[i].end
    BY <1>6, <1>8, <2>2 DEF Dividing
  <2>7. level = 1 => At(text, s[1].end - 1) \in Terminal
    BY <2>2, <2>4 DEF Dividing
  <2>8. level = 2 => \A i \in 1..n : /\ Clear(text, s[i].start, s[i].end)
                                     /\ AllSpace(text, s[i].end, s[i].next)
    BY <2>2 DEF Dividing
  <2>. HIDE DEF n
  <2>9. \A x \in Space : x \notin Terminal
    BY DEF Space, Blank, Terminal
  <2>10. ASSUME NEW i \in 1..n PROVE Ready(level + 1, text, s[i].start, s[i].end)
    <3>1. At(text, s[i].start - 1) \notin Terminal
      <4>1. CASE i = 1
        BY <2>3, <4>1 DEF Ready
      <4>2. CASE i \in 2..n
        BY <2>6, <2>9, <4>2
      <4>. QED
        BY <2>5, <4>1, <4>2
    <3>2. level = 2 => Solid(text, s[i].start, s[i].end)
      BY <2>8, ClearSolid
    <3>. QED
      BY <1>6, <1>8, <3>1, <3>2 DEF Ready
  <2>11. \A i \in 1..n : Sound(text, part(i), s[i].start, s[i].end)
    BY <1>6, <1>8, <2>1, <2>10 DEF SoundAt
  <2>12. \A i \in 1..n : Divided(text, part(i), s[i].start, s[i].end)
    <3>1. level + 1 \in 0..3
      BY <1>6, <1>8
    <3>. QED
      BY <2>1, <3>1 DEF Dividings
  <2>. HIDE DEF part
  <2>13. ASSUME NEW i \in 1..n, part(i) = <<>> PROVE AllSpace(text, s[i].end, s[i].next)
    <3>. DEFINE x == s[i].start
                y == s[i].end
                z == s[i].next
    <3>1. /\ x \in Int /\ y \in Int /\ z \in Int /\ x <= y /\ y <= z /\ z <= end
          /\ AllSpace(text, x, y)
      BY <2>3, <2>11, <2>13 DEF Sound, Tight
    <3>2. CASE level = 2
      BY <2>8, <3>2
    <3>3. CASE level = 1 /\ i = 1
      <4>1. x = start /\ At(text, y - 1) \in Terminal
        BY <2>3, <2>7, <3>3
      <4>2. y # x
        BY <4>1 DEF Ready
      <4>3. y - 1 \in x..y - 1
        BY <3>1, <4>2
      <4>. QED
        BY <2>9, <3>1, <4>1, <4>3 DEF AllSpace
    <3>4. CASE i \in 2..n
      <4>1. x = end \/ (At(text, x) \notin Space /\ x < y)
        BY <2>6, <3>4
      <4>2. x < y => x \in x..y - 1
        BY <3>1
      <4>3. x = end
        BY <3>1, <4>1, <4>2 DEF AllSpace
      <4>4. y..z - 1 = {}
        BY <1>0, <3>1, <4>3
      <4>5. AllSpace(text, y, z)
        BY <4>4 DEF AllSpace
      <4>. QED
        BY <4>5
    <3>. QED
      BY <1>6, <1>8, <2>5, <3>2, <3>3, <3>4
  <2>. DEFINE q == Parts(by, level, s)
              lo == [i \in 1..n |-> s[i].start]
              hi == [i \in 1..n |-> s[i].next]
  <2>14. /\ q \in Seq(Seq(Part)) /\ Len(q) = n /\ Adjoining(text, q, lo, hi)
         /\ AllFit(text, FlattenSeq(q))
    <3>1. \A i \in 1..Len(s) :
           /\ Divided(text, by[<<level + 1, s[i].start, s[i].end>>], s[i].start, s[i].end)
           /\ Tight(text, by[<<level + 1, s[i].start, s[i].end>>], s[i].start, s[i].end)
           /\ AllFit(text, by[<<level + 1, s[i].start, s[i].end>>])
           /\ by[<<level + 1, s[i].start, s[i].end>>] = <<>> =>
                AllSpace(text, s[i].end, s[i].next)
      BY <2>11, <2>12, <2>13 DEF Sound, part, n
    <3>. HIDE DEF n
    <3>2. /\ Parts(by, level, s) \in Seq(Seq(Part)) /\ Len(Parts(by, level, s)) = Len(s)
          /\ Adjoining(text, Parts(by, level, s), [i \in 1..Len(s) |-> s[i].start],
                       [i \in 1..Len(s) |-> s[i].next])
          /\ AllFit(text, FlattenSeq(Parts(by, level, s)))
      BY <1>0, <2>2, <3>1, PartsAdjoin
    <3>. QED
      BY <3>2 DEF n
  <2>15. /\ lo[1] = start /\ hi[n] = end
         /\ \A i \in 2..n : lo[i] = hi[i] \/ At(text, lo[i]) \notin Space
    <3>1. 1 \in 1..n /\ n \in 1..n /\ \A i \in 2..n : i \in 1..n
      BY <2>3
    <3>2. lo[1] = start /\ hi[n] = end
      BY <2>3, <3>1
    <3>3. ASSUME NEW i \in 2..n PROVE lo[i] = hi[i] \/ At(text, lo[i]) \notin Space
      <4>. DEFINE x == s[i].start
                  z == s[i].next
      <4>1. /\ x \in Int /\ z \in Int /\ s[i].end \in Int /\ x <= s[i].end /\ s[i].end <= z
            /\ z <= end /\ lo[i] = x /\ hi[i] = z
        BY <2>3, <3>1
      <4>2. x = end \/ At(text, x) \notin Space
        BY <2>6
      <4>. HIDE DEF x, z, lo, hi
      <4>3. x = end => x = z
        BY <1>0, <4>1
      <4>. QED
        BY <4>1, <4>2, <4>3
    <3>. HIDE DEF lo, hi
    <3>. QED
      BY <3>2, <3>3
  <2>. HIDE DEF q, lo, hi
  <2>16. Starting(text, q, lo, hi)
    BY <2>14, <2>15 DEF Starting
  <2>17. Tight(text, FlattenSeq(q), lo[1], hi[Len(q)])
    BY <2>3, <2>14, <2>16, TightFlatten
  <2>. QED
    BY <1>8, <2>14, <2>15, <2>17 DEF Sound, q
<1>9. Sound(text, r, start, end)
  BY <1>2, <1>3, <1>4, <1>5, <1>7, <1>8
<1>. QED
  BY <1>9 DEF r

\* Sentences, words and characters, from the last level up.
LEMMA SplitSound ==
  ASSUME NEW text \in Seq(Char), NEW by, Dividings(text, by)
  PROVE  SoundAt(1, text, by)
<1>. DEFINE G == {l \in 1..3 : SoundAt(l, text, by)}
<1>1. ASSUME NEW l \in 1..3, \A q \in l + 1..3 : q \in G PROVE l \in G
  <2>1. l < 3 => l + 1 \in l + 1..3
    OBVIOUS
  <2>2. l < 3 => SoundAt(l + 1, text, by)
    BY <1>1, <2>1
  <2>3. SoundAt(l, text, by)
    BY <2>2, LevelSound DEF SoundAt
  <2>. QED
    BY <2>3
<1>2. 1 \in G
  <2>1. 1 \in Int /\ 3 \in Int /\ 1 \in 1..3
        /\ \A l \in 1..3 : (\A q \in l + 1..3 : q \in G) => l \in G
    BY <1>1
  <2>. HIDE DEF G
  <2>. QED
    BY <2>1, Descend
<1>. QED
  BY <1>2

\* Between the pieces of a text lies only whitespace, and where it belongs to none
\* it follows the end of a paragraph. Each keeps to the size or is solid.
LEMMA SplitChained ==
  ASSUME NEW text \in Seq(Char)
  PROVE  Chained(text, Split(text)) /\ AllFit(text, Split(text))
<1>. DEFINE end == Len(text)
<1>0. end \in Nat /\ 0 \in 0..end /\ end \in 0..end /\ end \in Int /\ 0 \in 0..3 /\ 1 \in 0..3
  OBVIOUS
<1>1. PICK by : Split(text) = by[<<0, 0, end>>] /\ Dividings(text, by)
  BY SplitUnfolds
<1>. DEFINE r == by[<<0, 0, end>>]
            s == Segments(0, text, 0, end)
<1>2. r = SplitFrom(text, by, <<0, 0, end>>)
  BY <1>0, <1>1 DEF Dividings
<1>3. SoundAt(1, text, by)
  BY <1>1, SplitSound
<1>4. \/ r = <<>>
      \/ r = <<Piece(0, end, end)>> /\ Count(Slice(text, 0, end)) <= ChunkSize
         /\ ~IsBlank(Slice(text, 0, end))
      \/ r = by[<<1, 0, end>>]
      \/ Divides(s) /\ r = FlattenSeq(Parts(by, 0, s))
  <2>1. \/ IsBlank(Slice(text, 0, end)) /\ r = <<>>
        \/ 0 < end /\ r = <<Piece(0, end, end)>>
           /\ Count(Slice(text, 0, end)) <= ChunkSize /\ ~IsBlank(Slice(text, 0, end))
        \/ 0 < end /\ 0 = 3 /\ r = ByCharacters(text, 0, end)
           /\ Count(Slice(text, 0, end)) > ChunkSize
        \/ 0 < end /\ 0 < 3 /\ ~Divides(s) /\ r = by[<<0 + 1, 0, end>>]
        \/ 0 < end /\ 0 < 3 /\ Divides(s) /\ r = FlattenSeq(Parts(by, 0, s))
    BY <1>0, <1>2, SplitCases
  <2>2. 0 + 1 = 1 /\ 0 # 3
    OBVIOUS
  <2>. HIDE DEF r, s
  <2>. QED
    BY <2>1, <2>2
<1>5. At(text, 0 - 1) \notin Terminal
  <2>1. At(text, 0 - 1) = ""
    BY DEF At
  <2>. QED
    BY <2>1 DEF Terminal
<1>6. Ready(1, text, 0, end)
  BY <1>5 DEF Ready
<1>. HIDE DEF r
<1>7. ASSUME r = <<>> PROVE Chained(text, r) /\ AllFit(text, r)
  BY <1>7 DEF Chained, AllFit
<1>8. ASSUME r = <<Piece(0, end, end)>>, Count(Slice(text, 0, end)) <= ChunkSize,
             ~IsBlank(Slice(text, 0, end))
      PROVE  Chained(text, r) /\ AllFit(text, r)
  BY <1>0, <1>8, SingleIs
<1>9. ASSUME r = by[<<1, 0, end>>] PROVE Chained(text, r) /\ AllFit(text, r)
  <2>1. Sound(text, r, 0, end)
    BY <1>0, <1>3, <1>6, <1>9 DEF SoundAt
  <2>2. r \in Seq(Part)
    BY <1>0, <1>1, <1>9 DEF Dividings, Divided
  <2>3. Linked(text, r, end)
    BY <1>0, <2>1, <2>2, TightLinked DEF Sound
  <2>. QED
    BY <2>1, <2>3 DEF Sound, Linked
<1>10. ASSUME Divides(s), r = FlattenSeq(Parts(by, 0, s))
       PROVE  Chained(text, r) /\ AllFit(text, r)
  <2>. DEFINE n == Len(s)
              part(i) == by[<<0 + 1, s[i].start, s[i].end>>]
  <2>1. \A i \in 1..n : s[i].start \in 0..end /\ s[i].end \in s[i].start..end
    <3>1. 0 \in 0..2
      OBVIOUS
    <3>. QED
      BY <1>0, <3>1, CallsBelow
  <2>2. Partition(text, s, 0, end) /\ Dividing(0, text, s, 0, end)
    <3>1. 0 \in 0..2
      OBVIOUS
    <3>. QED
      BY <1>0, <3>1, SegmentsAre, SegmentsDivide
  <2>. HIDE DEF s
  <2>3. /\ n \in Nat /\ n > 0 /\ s[1].start = 0 /\ s[n].next = end
        /\ \A i \in 1..n : s[i].start \in Int /\ s[i].end \in Int /\ s[i].next \in Int
        /\ \A i \in 2..n : s[i].start = s[i - 1].next
    BY <2>2 DEF Partition
  <2>4. /\ \A i \in 1..n : AllSpace(text, s[i].end, s[i].next)
        /\ \A i \in 2..n : Parted(text, s[i - 1].end, s[i - 1].next)
    BY <2>2 DEF Dividing
  <2>. HIDE DEF n
  <2>5. \A i \in 1..n : i = 1 \/ i \in 2..n
    BY <2>3
  <2>6. ASSUME NEW i \in 1..n PROVE Ready(1, text, s[i].start, s[i].end)
    <3>1. CASE i = 1
      BY <1>5, <2>3, <3>1 DEF Ready
    <3>2. CASE i \in 2..n
      <4>1. At(text, s[i - 1].next - 1) = "\n" /\ s[i].start = s[i - 1].next
        BY <2>3, <2>4, <3>2 DEF Parted
      <4>. QED
        BY <4>1 DEF Ready, Terminal
    <3>. QED
      BY <2>5, <3>1, <3>2
  <2>7. 0 + 1 = 1
    OBVIOUS
  <2>8. \A i \in 1..n : Sound(text, part(i), s[i].start, s[i].end)
    BY <1>3, <2>1, <2>6, <2>7 DEF SoundAt
  <2>9. \A i \in 1..n : Divided(text, part(i), s[i].start, s[i].end)
    BY <1>0, <1>1, <2>1, <2>7 DEF Dividings
  <2>. DEFINE q == Parts(by, 0, s)
              lo == [i \in 1..n |-> s[i].start]
              hi == [i \in 1..n |-> s[i].next]
  <2>10. /\ q \in Seq(Seq(Part)) /\ Len(q) = n /\ Adjoining(text, q, lo, hi)
         /\ AllFit(text, FlattenSeq(q))
    <3>. DEFINE level == 0
                first == 0
    <3>1. \A i \in 1..Len(s) :
           /\ Divided(text, by[<<level + 1, s[i].start, s[i].end>>], s[i].start, s[i].end)
           /\ Tight(text, by[<<level + 1, s[i].start, s[i].end>>], s[i].start, s[i].end)
           /\ AllFit(text, by[<<level + 1, s[i].start, s[i].end>>])
           /\ by[<<level + 1, s[i].start, s[i].end>>] = <<>> =>
                AllSpace(text, s[i].end, s[i].next)
      BY <2>4, <2>8, <2>9 DEF Sound, n
    <3>2. first \in Int /\ end \in Int /\ Partition(text, s, first, end)
      BY <1>0, <2>2
    <3>. HIDE DEF level, first, end
    <3>3. /\ Parts(by, level, s) \in Seq(Seq(Part)) /\ Len(Parts(by, level, s)) = Len(s)
          /\ Adjoining(text, Parts(by, level, s), [i \in 1..Len(s) |-> s[i].start],
                       [i \in 1..Len(s) |-> s[i].next])
          /\ AllFit(text, FlattenSeq(Parts(by, level, s)))
      BY <3>1, <3>2, PartsAdjoin
    <3>. QED
      BY <3>3 DEF n, level
  <2>11. ASSUME NEW i \in 1..n - 1 PROVE Trailed(text, q[i])
    <3>1. i \in 1..n /\ i + 1 \in 2..n /\ (i + 1) - 1 = i /\ 1..n = 1..Len(s)
      BY <2>3 DEF n
    <3>2. q[i] = Inherit(part(i), s[i].next)
      BY <3>1 DEF Parts
    <3>. DEFINE b == part(i)
                x == s[i].start
                y == s[i].end
                z == s[i].next
    <3>3. /\ b \in Seq(Part) /\ Laid(b, x, y) /\ x \in Int /\ y \in Int /\ z \in Int
          /\ Parted(text, y, z)
      BY <2>3, <2>4, <2>9, <3>1 DEF Divided
    <3>. HIDE DEF b, x, y, z
    <3>4. Trailed(text, Inherit(b, z))
      BY <3>3, TrailedInherit
    <3>. QED
      BY <3>2, <3>4 DEF b, z
  <2>. HIDE DEF q, lo, hi
  <2>12. Chained(text, FlattenSeq(q))
    BY <2>3, <2>10, <2>11, LinkFlatten
  <2>. QED
    BY <1>10, <2>10, <2>12 DEF q
<1>11. Chained(text, r) /\ AllFit(text, r)
  BY <1>4, <1>7, <1>8, <1>9, <1>10
<1>. QED
  BY <1>1, <1>11 DEF r

=============================================================================
