---------------------------- MODULE IntakeProofs ----------------------------
(***************************************************************************)
(* The first half of the text pipeline, for every file, every limit on its *)
(* size and every sample: what is accepted, what is read from it, and what *)
(* cleaning keeps of that.  The lemmas come first, on the operators of     *)
(* TextIntake and TextCleaning and on what recursive functions compute.    *)
(***************************************************************************)
EXTENDS TextPipeline, TLAPS, WellFoundedInduction, FiniteSetTheorems, SequenceTheorems

-----------------------------------------------------------------------------
(* Numbers, and functions defined by recursion.  Induction is an argument  *)
(* about the least number of a set.                                        *)

\* A set of numbers that is not empty has a least one.
LEMMA NatLeast ==
  ASSUME NEW T \in SUBSET Nat, T # {}
  PROVE  \E x \in T : \A y \in T : x <= y
<1>1. PICK x \in T : \A y \in T : <<y, x>> \notin OpToRel(<, Nat)
  BY NatLessThanWellFounded, WFMin, Zenon
<1>2. ASSUME NEW y \in T PROVE x <= y
  <2>1. <<y, x>> \notin OpToRel(<, Nat)
    BY <1>1
  <2>2. ~(y < x)
    BY <2>1 DEF OpToRel
  <2>. QED
    BY <2>2
<1>. QED
  BY <1>1, <1>2

LEMMA IntLeast ==
  ASSUME NEW T \in SUBSET Int, T # {}, NEW a \in Int, \A x \in T : a <= x
  PROVE  \E x \in T : \A y \in T : x <= y
<1>. DEFINE U == {x - a : x \in T}
<1>0. \A x \in T : x - a \in Nat
  OBVIOUS
<1>1. U \in SUBSET Nat /\ U # {}
  BY <1>0
<1>2. PICK u \in U : \A y \in U : u <= y
  BY <1>1, NatLeast
<1>3. PICK x \in T : u = x - a
  OBVIOUS
<1>4. ASSUME NEW y \in T PROVE x <= y
  <2>1. u <= y - a
    BY <1>2
  <2>. QED
    BY <1>3, <2>1
<1>. QED
  BY <1>4

LEMMA IntGreatest ==
  ASSUME NEW T \in SUBSET Int, T # {}, NEW b \in Int, \A x \in T : x <= b
  PROVE  \E x \in T : \A y \in T : y <= x
<1>. DEFINE U == {b - x : x \in T}
<1>0. \A x \in T : b - x \in Nat
  OBVIOUS
<1>1. U \in SUBSET Nat /\ U # {}
  BY <1>0
<1>2. PICK u \in U : \A y \in U : u <= y
  BY <1>1, NatLeast
<1>3. PICK x \in T : u = b - x
  OBVIOUS
<1>4. ASSUME NEW y \in T PROVE y <= x
  <2>1. u <= b - y
    BY <1>2
  <2>. QED
    BY <1>3, <2>1
<1>. QED
  BY <1>4

LEMMA MinIs ==
  ASSUME NEW T \in SUBSET Int, T # {}, NEW a \in Int, \A x \in T : a <= x
  PROVE  Min(T) \in T /\ \A y \in T : Min(T) <= y
BY IntLeast DEF Min

LEMMA MaxIs ==
  ASSUME NEW T \in SUBSET Int, T # {}, NEW b \in Int, \A x \in T : x <= b
  PROVE  Max(T) \in T /\ \A y \in T : Max(T) >= y
<1>1. \E x \in T : \A y \in T : x >= y
  BY IntGreatest
<1>. QED
  BY <1>1 DEF Max

LEMMA MinOfTwo ==
  ASSUME NEW a \in Int, NEW b \in Int
  PROVE  Min({a, b}) = IF a <= b THEN a ELSE b
<1>. DEFINE T == {a, b}
           l == IF a <= b THEN a ELSE b
<1>1. Min(T) \in T /\ \A y \in T : Min(T) <= y
  BY MinIs, T \in SUBSET Int, T # {}, \A x \in T : l <= x, l \in Int
<1>. QED
  BY <1>1

LEMMA MaxOfTwo ==
  ASSUME NEW a \in Int, NEW b \in Int
  PROVE  Max({a, b}) = IF a >= b THEN a ELSE b
<1>. DEFINE T == {a, b}
           g == IF a >= b THEN a ELSE b
<1>1. Max(T) \in T /\ \A y \in T : Max(T) >= y
  BY MaxIs, T \in SUBSET Int, T # {}, \A x \in T : x <= g, g \in Int
<1>. QED
  BY <1>1

\* What holds of a number as soon as it holds of those above it holds of all,
\* and the same downwards.
LEMMA Descend ==
  ASSUME NEW a \in Int, NEW b \in Int, NEW G,
         \A k \in a..b : (\A q \in k + 1..b : q \in G) => k \in G
  PROVE  \A k \in a..b : k \in G
<1>. DEFINE Bad == {k \in a..b : k \notin G}
<1>. SUFFICES ASSUME Bad # {} PROVE FALSE
  OBVIOUS
<1>0. Bad \in SUBSET Int /\ \A k \in Bad : k <= b
  OBVIOUS
<1>1. PICK k \in Bad : \A q \in Bad : q <= k
  <2>. HIDE DEF Bad
  <2>. QED
    BY <1>0, IntGreatest
<1>2. \A q \in k + 1..b : q \in G
  BY <1>1
<1>. QED
  BY <1>2

LEMMA Ascend ==
  ASSUME NEW a \in Int, NEW b \in Int, NEW G,
         \A k \in a..b : (\A q \in a..k - 1 : q \in G) => k \in G
  PROVE  \A k \in a..b : k \in G
<1>. DEFINE Bad == {k \in a..b : k \notin G}
<1>. SUFFICES ASSUME Bad # {} PROVE FALSE
  OBVIOUS
<1>0. Bad \in SUBSET Int /\ \A k \in Bad : a <= k
  OBVIOUS
<1>1. PICK k \in Bad : \A q \in Bad : k <= q
  <2>. HIDE DEF Bad
  <2>. QED
    BY <1>0, IntLeast
<1>2. \A q \in a..k - 1 : q \in G
  BY <1>1
<1>. QED
  BY <1>2

LEMMA EqualOrBelow == \A a, b \in Int : a <= b => a = b \/ a <= b - 1
OBVIOUS

\* A function that is defined by its own values at points of lower rank exists.
Recursive(D, N, rank, T, Rec) ==
  /\ N \in Nat /\ rank \in [D -> 0..N] /\ T # {}
  /\ Rec \in [D -> [[D -> T] -> T]]
  /\ \A p \in D : \A g, h \in [D -> T] :
       (\A q \in D : rank[q] < rank[p] => g[q] = h[q]) => Rec[p][g] = Rec[p][h]

LEMMA RecursionExists ==
  ASSUME NEW D, NEW N, NEW rank, NEW T, NEW Rec, Recursive(D, N, rank, T, Rec)
  PROVE  \E f \in [D -> T] : \A p \in D : f[p] = Rec[p][f]
<1>. USE DEF Recursive
<1>. DEFINE G == {n \in -1..N : \E f \in [D -> T] : \A p \in D : rank[p] <= n => f[p] = Rec[p][f]}
<1>1. ASSUME NEW n \in -1..N, \A q \in -1..n - 1 : q \in G PROVE n \in G
  <2>1. CASE n = -1
    <3>1. PICK t \in T : TRUE
      OBVIOUS
    <3>2. [p \in D |-> t] \in [D -> T]
      OBVIOUS
    <3>3. \A p \in D : ~(rank[p] <= n)
      BY <2>1
    <3>. QED
      BY <2>1, <3>2, <3>3
  <2>2. CASE n # -1
    <3>1. n - 1 \in G
      <4>1. n - 1 \in -1..n - 1
        BY <2>2
      <4>. HIDE DEF G
      <4>. QED
        BY <1>1, <4>1
    <3>2. PICK g \in [D -> T] : \A p \in D : rank[p] <= n - 1 => g[p] = Rec[p][g]
      BY <3>1
    <3>. DEFINE h == [p \in D |-> IF rank[p] = n THEN Rec[p][g] ELSE g[p]]
    <3>3. h \in [D -> T]
      OBVIOUS
    <3>4. \A q \in D : rank[q] < n => h[q] = g[q]
      OBVIOUS
    <3>5. ASSUME NEW p \in D, rank[p] <= n PROVE h[p] = Rec[p][h]
      <4>1. Rec[p][h] = Rec[p][g]
        <5>1. \A q \in D : rank[q] < rank[p] => h[q] = g[q]
          BY <3>4, <3>5
        <5>. HIDE DEF h
        <5>. QED
          BY <3>3, <5>1
      <4>2. CASE rank[p] = n
        <5>1. h[p] = Rec[p][g]
          BY <4>2
        <5>. QED
          BY <4>1, <5>1
      <4>3. CASE rank[p] <= n - 1
        <5>1. h[p] = g[p]
          BY <4>3
        <5>2. g[p] = Rec[p][g]
          BY <3>2, <4>3
        <5>. QED
          BY <4>1, <5>1, <5>2, Zenon
      <4>4. rank[p] = n \/ rank[p] <= n - 1
        BY <3>5, rank[p] \in Int, n \in Int, EqualOrBelow
      <4>. QED
        BY <4>2, <4>3, <4>4
    <3>. QED
      BY <3>3, <3>5
  <2>. QED
    BY <2>1, <2>2
<1>2. N \in G
  <2>. HIDE DEF G
  <2>1. \A n \in -1..N : (\A q \in -1..n - 1 : q \in G) => n \in G
    BY <1>1
  <2>2. -1 \in Int /\ N \in Int
    OBVIOUS
  <2>3. \A n \in -1..N : n \in G
    BY <2>1, <2>2, Ascend
  <2>. QED
    BY <2>3
<1>. QED
  BY <1>2

-----------------------------------------------------------------------------
(* Texts: characters of an offset, and runs of characters.                 *)

LEMMA AtIs ==
  ASSUME NEW text \in Seq(Char), NEW i \in Int
  PROVE  /\ i \in 0..Len(text) - 1 => At(text, i) = text[i + 1] /\ At(text, i) \in Char
         /\ At(text, i) \in Char => i \in 0..Len(text) - 1
<1>1. "" \notin Char
  BY DEF Char, Letter, Terminal, Closer, Space, Blank, Invisible
<1>2. CASE i \in 0..Len(text) - 1
  <2>1. i + 1 \in 1..Len(text)
    BY <1>2
  <2>2. text[i + 1] \in Char
    BY <2>1
  <2>. QED
    BY <1>2, <2>2 DEF At
<1>3. CASE i \notin 0..Len(text) - 1
  BY <1>1, <1>3 DEF At
<1>. QED
  BY <1>2, <1>3

\* A run ends where its characters do, at the end of the text at the latest.
LEMMA RunEndIs ==
  ASSUME NEW text \in Seq(Char), NEW p \in 0..Len(text), NEW S \in SUBSET Char
  PROVE  /\ RunEnd(text, p, S) \in p..Len(text)
         /\ \A i \in p..RunEnd(text, p, S) - 1 : At(text, i) \in S
         /\ At(text, RunEnd(text, p, S)) \notin S
<1>. DEFINE T == {q \in p..Len(text) : At(text, q) \notin S}
<1>1. Len(text) \in T
  <2>1. At(text, Len(text)) \notin Char
    BY AtIs
  <2>. QED
    BY <2>1
<1>2. PICK q \in T : \A r \in T : q <= r
  <2>1. T \in SUBSET Int /\ T # {} /\ \A x \in T : p <= x
    BY <1>1
  <2>2. p \in Int
    OBVIOUS
  <2>. HIDE DEF T
  <2>. QED
    BY <2>1, <2>2, IntLeast
<1>3. \A i \in p..q - 1 : At(text, i) \in S
  BY <1>2
<1>4. \E r \in p..Len(text) : /\ \A i \in p..r - 1 : At(text, i) \in S
                              /\ At(text, r) \notin S
  BY <1>2, <1>3
<1>. QED
  BY <1>4 DEF RunEnd

LEMMA SliceIs ==
  ASSUME NEW text \in Seq(Char), NEW start \in 0..Len(text), NEW end \in start..Len(text)
  PROVE  /\ Slice(text, start, end) \in Seq(Char) /\ Len(Slice(text, start, end)) = end - start
         /\ \A i \in 1..end - start : /\ start + i \in 1..Len(text)
                                      /\ Slice(text, start, end)[i] = text[start + i]
<1>. DEFINE s == SubSeq(text, start + 1, end)
<1>0. Len(text) \in Nat /\ start \in Int /\ end \in Int /\ 0 <= start /\ start <= end
      /\ end <= Len(text)
  OBVIOUS
<1>1. start + 1 \in 1..Len(text) + 1 /\ end \in (start + 1) - 1..Len(text)
  BY <1>0
<1>2. s \in Seq(Char) /\ Len(s) = end - start
  BY <1>0, <1>1
<1>3. \A i \in 1..end - start : start + i \in 1..Len(text)
  BY <1>0
<1>4. \A i \in 1..end - start : s[i] = text[start + i]
  BY <1>0, <1>1, <1>2
<1>. QED
  BY <1>2, <1>3, <1>4 DEF Slice

\* The part of a text before end reads as the text does.
LEMMA WindowIs ==
  ASSUME NEW text \in Seq(Char), NEW end \in 0..Len(text)
  PROVE  /\ Slice(text, 0, end) \in Seq(Char) /\ Len(Slice(text, 0, end)) = end
         /\ \A i \in 0..end - 1 : At(Slice(text, 0, end), i) = At(text, i)
         /\ \A i \in Int : At(Slice(text, 0, end), i) \in Char =>
              i \in 0..end - 1 /\ At(text, i) = At(Slice(text, 0, end), i)
<1>. DEFINE w == Slice(text, 0, end)
<1>0. 0 \in 0..Len(text) /\ end \in 0..Len(text) /\ end - 0 = end /\ Len(text) \in Nat
  OBVIOUS
<1>1. /\ w \in Seq(Char) /\ Len(w) = end - 0
      /\ \A i \in 1..end - 0 : w[i] = text[0 + i]
  BY <1>0, SliceIs
<1>. HIDE DEF w
<1>2. ASSUME NEW i \in 0..end - 1 PROVE At(w, i) = At(text, i)
  <2>1. i + 1 \in 1..end /\ i \in 0..Len(text) - 1 /\ i \in 0..Len(w) - 1 /\ 0 + (i + 1) = i + 1
    BY <1>0, <1>1
  <2>. QED
    BY <1>0, <1>1, <2>1 DEF At
<1>3. ASSUME NEW i \in Int, At(w, i) \in Char PROVE i \in 0..end - 1
  BY <1>0, <1>1, <1>3, AtIs
<1>. QED
  BY <1>0, <1>1, <1>2, <1>3 DEF w

-----------------------------------------------------------------------------
(* The alternatives of _ARTEFACT, each by what it matches at an offset.    *)

\* Where an alternative matches, and what it then matches.
Matched(source, p, k, q) ==
  CASE k = "lead"      -> p = 0 /\ \A i \in p..q - 1 : At(source, i) \in Space
    [] k = "trail"     -> q = Len(source) /\ \A i \in p..q - 1 : At(source, i) \in Space
    [] k = "cr_lf"     -> q = p + 1 /\ At(source, p) = "\r" /\ At(source, p + 1) = "\n"
    [] k = "cr"        -> q = p + 1 /\ At(source, p) = "\r"
    [] k = "invisible" -> \A i \in p..q - 1 : At(source, i) \in Invisible
    [] k = "hyphen"    -> /\ q = p + 2 /\ At(source, p - 1) \in Letter
                          /\ At(source, p) = "-" /\ At(source, p + 1) = "\n"
                          /\ At(source, p + 2) = "a"
    [] k = "blanks"    -> q >= p + 3 /\ \A i \in p..q - 1 : At(source, i) = "\n"
    [] k = "eol_space" -> At(source, q) = "\n" /\ \A i \in p..q - 1 : At(source, i) \in Blank
    [] k = "runs"      -> q >= p + 2 /\ \A i \in p..q - 1 : At(source, i) \in Blank

Kinds == {"lead", "trail", "cr_lf", "cr", "invisible", "hyphen", "blanks", "eol_space", "runs"}

LEMMA MatchesAre ==
  ASSUME NEW source \in Seq(Char), NEW p \in 0..Len(source) - 1, NEW k \in Kinds,
         MatchEnds(source, p)[k] > p
  PROVE  /\ MatchEnds(source, p)[k] \in p + 1..Len(source)
         /\ Matched(source, p, k, MatchEnds(source, p)[k])
<1>. DEFINE n == Len(source)
            ends == MatchEnds(source, p)
            newlines == RunEnd(source, p, {"\n"})
            blank == RunEnd(source, p, Blank)
            white == RunEnd(source, p, Space)
            hidden == RunEnd(source, p, Invisible)
<1>0. p \in 0..n /\ p \in Int /\ n \in Nat
  OBVIOUS
<1>1. /\ {"\n"} \in SUBSET Char /\ Blank \in SUBSET Char /\ Space \in SUBSET Char
      /\ Invisible \in SUBSET Char /\ "a" \in Char /\ "\n" \in Char
  BY DEF Char, Letter, Space, Blank, Invisible
<1>2. newlines \in p..n /\ \A i \in p..newlines - 1 : At(source, i) = "\n"
  BY <1>0, <1>1, RunEndIs
<1>3. blank \in p..n /\ \A i \in p..blank - 1 : At(source, i) \in Blank
  BY <1>0, <1>1, RunEndIs
<1>4. white \in p..n /\ \A i \in p..white - 1 : At(source, i) \in Space
  BY <1>0, <1>1, RunEndIs
<1>5. hidden \in p..n /\ \A i \in p..hidden - 1 : At(source, i) \in Invisible
  BY <1>0, <1>1, RunEndIs
<1>6. At(source, p + 2) = "a" => p + 2 \in 0..n - 1
  BY <1>1, AtIs
<1>7. /\ ends["lead"] = IF p = 0 THEN white ELSE p
      /\ ends["trail"] = IF white = n THEN white ELSE p
      /\ ends["cr_lf"] = IF At(source, p) = "\r" /\ At(source, p + 1) = "\n" THEN p + 1 ELSE p
      /\ ends["cr"] = IF At(source, p) = "\r" THEN p + 1 ELSE p
      /\ ends["invisible"] = hidden
      /\ ends["hyphen"] = IF /\ At(source, p - 1) \in Letter /\ At(source, p) = "-"
                             /\ At(source, p + 1) = "\n" /\ At(source, p + 2) = "a"
                          THEN p + 2 ELSE p
      /\ ends["blanks"] = IF newlines >= p + 3 THEN newlines ELSE p
      /\ ends["eol_space"] = IF At(source, blank) = "\n" THEN blank ELSE p
      /\ ends["runs"] = IF p > 0 /\ At(source, p - 1) \notin Space /\ blank >= p + 2
                        THEN blank ELSE p
  BY DEF MatchEnds
<1>. HIDE DEF ends, newlines, blank, white, hidden
<1>8. ends[k] > p
  BY DEF ends
<1>9. ends[k] \in p + 1..n /\ Matched(source, p, k, ends[k])
  <2>1. CASE k = "lead"
    BY <1>0, <1>4, <1>7, <1>8, <2>1 DEF Matched
  <2>2. CASE k = "trail"
    BY <1>0, <1>4, <1>7, <1>8, <2>2 DEF Matched
  <2>3. CASE k = "cr_lf"
    BY <1>0, <1>7, <1>8, <2>3 DEF Matched
  <2>4. CASE k = "cr"
    BY <1>0, <1>7, <1>8, <2>4 DEF Matched
  <2>5. CASE k = "invisible"
    BY <1>0, <1>5, <1>7, <1>8, <2>5 DEF Matched
  <2>6. CASE k = "hyphen"
    BY <1>0, <1>6, <1>7, <1>8, <2>6 DEF Matched
  <2>7. CASE k = "blanks"
    BY <1>0, <1>2, <1>7, <1>8, <2>7 DEF Matched
  <2>8. CASE k = "eol_space"
    BY <1>0, <1>3, <1>7, <1>8, <2>8 DEF Matched
  <2>9. CASE k = "runs"
    BY <1>0, <1>3, <1>7, <1>8, <2>9 DEF Matched
  <2>. QED
    BY <2>1, <2>2, <2>3, <2>4, <2>5, <2>6, <2>7, <2>8, <2>9 DEF Kinds
<1>. QED
  BY <1>9 DEF ends

Edit == [char : Char, source : Nat]

\* What the scan does at p: the alternative it takes, where it goes on, and what
\* it leaves behind.
Taken(source, p) == SelectInSeq(Artefact, LAMBDA k : MatchEnds(source, p)[k] > p)

After(source, p) ==
  IF Taken(source, p) = 0 THEN p + 1 ELSE MatchEnds(source, p)[Artefact[Taken(source, p)]]

Left(source, p) ==
  IF Taken(source, p) = 0 THEN <<[char |-> At(source, p), source |-> p]>>
  ELSE Emitted(Artefact[Taken(source, p)], source, p)

Broken(source, s) ==
  /\ At(source, s) = "-" /\ At(source, s + 1) = "\n"
  /\ At(source, s - 1) \in Letter /\ At(source, s + 2) \in Letter

LEMMA TakenIs ==
  ASSUME NEW source \in Seq(Char), NEW p \in 0..Len(source) - 1
  PROVE  Taken(source, p) = 0
         \/ \E k \in Kinds, q \in p + 1..Len(source) :
              /\ Artefact[Taken(source, p)] = k
              /\ Taken(source, p) # 0
              /\ After(source, p) = q
              /\ Matched(source, p, k, q)
<1>. DEFINE ends == MatchEnds(source, p)
            I == {i \in 1..Len(Artefact) : ends[Artefact[i]] > p}
            first == Taken(source, p)
<1>1. first = IF I # {} THEN Min(I) ELSE 0
  BY DEF Taken, SelectInSeq
<1>2. CASE I # {}
  <2>1. I \in SUBSET Int /\ \A x \in I : 1 <= x
    BY DEF Artefact
  <2>2. first \in I
    <3>1. 1 \in Int
      OBVIOUS
    <3>2. Min(I) \in I
      <4>. HIDE DEF I
      <4>. QED
        BY <1>2, <2>1, <3>1, MinIs
    <3>. HIDE DEF I
    <3>. QED
      BY <1>1, <1>2, <3>2
  <2>3. first \in 1..9 /\ ends[Artefact[first]] > p
    BY <2>2 DEF Artefact
  <2>4. Artefact[first] \in Kinds
    <3>. HIDE DEF first
    <3>. QED
      BY <2>3 DEF Artefact, Kinds
  <2>5. first # 0 /\ After(source, p) = ends[Artefact[first]]
    BY <2>3 DEF After
  <2>6. /\ ends[Artefact[first]] \in p + 1..Len(source)
        /\ Matched(source, p, Artefact[first], ends[Artefact[first]])
    BY <2>3, <2>4, MatchesAre
  <2>. QED
    BY <2>4, <2>5, <2>6
<1>. QED
  BY <1>1, <1>2

\* The four things a step of the scan can do: keep the character, leave a line
\* break or a blank in the place of what it deletes, or delete it.
Retains(source, p) ==
  /\ After(source, p) = p + 1
  /\ Left(source, p) = <<[char |-> At(source, p), source |-> p]>>

Returns(source, p) ==
  /\ After(source, p) = p + 1 /\ At(source, p) = "\r"
  /\ Left(source, p) = <<[char |-> "\n", source |-> p]>>

Shortens(source, p) ==
  /\ After(source, p) >= p + 3
  /\ \A s \in p..After(source, p) - 1 : At(source, s) = "\n"
  /\ Left(source, p) = <<[char |-> "\n", source |-> p], [char |-> "\n", source |-> p + 1]>>

Narrows(source, p) ==
  /\ \A s \in p..After(source, p) - 1 : At(source, s) \in Blank
  /\ Left(source, p) = <<[char |-> " ", source |-> p]>>

Deletes(source, p) ==
  /\ Left(source, p) = <<>>
  /\ \A s \in p..After(source, p) - 1 :
       At(source, s) \in Space \cup Invisible \/ Broken(source, s)
  /\ \/ \A s \in p..After(source, p) - 1 :
          At(source, s) \in Space => Broken(source, s - 1)
     \/ p = 0 \/ After(source, p) = Len(source) \/ At(source, After(source, p)) = "\n"
  /\ At(source, p) = "\n" => p = 0 \/ After(source, p) = Len(source)

LEMMA ScanStep ==
  ASSUME NEW source \in Seq(Char), NEW p \in 0..Len(source) - 1
  PROVE  /\ After(source, p) \in p + 1..Len(source)
         /\ \/ Retains(source, p) \/ Returns(source, p) \/ Shortens(source, p)
            \/ Narrows(source, p) \/ Deletes(source, p)
<1>1. CASE Taken(source, p) = 0
  BY <1>1 DEF After, Left, Retains
<1>2. ASSUME NEW k \in Kinds, NEW q \in p + 1..Len(source),
             Artefact[Taken(source, p)] = k, Taken(source, p) # 0,
             After(source, p) = q, Matched(source, p, k, q)
      PROVE  Returns(source, p) \/ Shortens(source, p) \/ Narrows(source, p)
             \/ Deletes(source, p)
  <2>0. Left(source, p) = Emitted(k, source, p)
    BY <1>2 DEF Left
  <2>. DEFINE n == Len(source)
  <2>a. p \in Int /\ q \in Int /\ n \in Nat /\ p < q
    OBVIOUS
  <2>1. CASE k = "lead"
    <3>1. Left(source, p) = <<>>
      BY <2>0, <2>1 DEF Emitted
    <3>2. p = 0 /\ \A s \in p..q - 1 : At(source, s) \in Space
      BY <1>2, <2>1 DEF Matched
    <3>. QED
      BY <1>2, <3>1, <3>2 DEF Deletes
  <2>2. CASE k = "trail"
    <3>1. Left(source, p) = <<>>
      BY <2>0, <2>2 DEF Emitted
    <3>2. q = n /\ \A s \in p..q - 1 : At(source, s) \in Space
      BY <1>2, <2>2 DEF Matched
    <3>. QED
      BY <1>2, <3>1, <3>2 DEF Deletes
  <2>3. CASE k = "cr_lf"
    <3>1. Left(source, p) = <<>>
      BY <2>0, <2>3 DEF Emitted
    <3>2. q = p + 1 /\ At(source, p) = "\r" /\ At(source, p + 1) = "\n"
      BY <1>2, <2>3 DEF Matched
    <3>3. At(source, q) = "\n" /\ \A s \in p..q - 1 : At(source, s) = "\r"
      BY <2>a, <3>2
    <3>4. "\r" \in Space /\ "\r" # "\n"
      BY DEF Space
    <3>. QED
      BY <1>2, <3>1, <3>2, <3>3, <3>4 DEF Deletes
  <2>4. CASE k = "cr"
    <3>1. Left(source, p) = <<[char |-> "\n", source |-> p]>>
      BY <2>0, <2>4 DEF Emitted
    <3>. QED
      BY <1>2, <2>4, <3>1 DEF Returns, Matched
  <2>5. CASE k = "invisible"
    <3>1. Left(source, p) = <<>>
      BY <2>0, <2>5 DEF Emitted
    <3>2. \A s \in p..q - 1 : At(source, s) \in Invisible
      BY <1>2, <2>5 DEF Matched
    <3>3. \A c \in Invisible : c \notin Space /\ c # "\n"
      BY DEF Invisible, Space, Blank
    <3>4. At(source, p) # "\n"
      BY <2>a, <3>2, <3>3
    <3>. QED
      BY <1>2, <3>1, <3>2, <3>3, <3>4 DEF Deletes
  <2>6. CASE k = "hyphen"
    <3>1. Left(source, p) = <<>>
      BY <2>0, <2>6 DEF Emitted
    <3>2. /\ q = p + 2 /\ At(source, p - 1) \in Letter
          /\ At(source, p) = "-" /\ At(source, p + 1) = "\n" /\ At(source, p + 2) = "a"
      BY <1>2, <2>6 DEF Matched
    <3>3. Broken(source, p)
      BY <3>2 DEF Broken, Letter
    <3>4. "\n" \in Space /\ "-" \notin Space /\ "-" # "\n"
      BY DEF Space, Blank
    <3>5. \A s \in p..q - 1 : s = p \/ s = p + 1
      BY <2>a, <3>2
    <3>6. (p + 1) - 1 = p
      OBVIOUS
    <3>7. \A s \in p..q - 1 : At(source, s) \in Space \cup Invisible \/ Broken(source, s)
      BY <3>2, <3>3, <3>4, <3>5
    <3>8. \A s \in p..q - 1 : At(source, s) \in Space => Broken(source, s - 1)
      BY <3>2, <3>3, <3>4, <3>5, <3>6
    <3>. QED
      BY <1>2, <3>1, <3>2, <3>4, <3>7, <3>8 DEF Deletes
  <2>7. CASE k = "blanks"
    <3>1. Left(source, p) = <<[char |-> "\n", source |-> p], [char |-> "\n", source |-> p + 1]>>
      BY <2>0, <2>7 DEF Emitted
    <3>. QED
      BY <1>2, <2>7, <3>1 DEF Shortens, Matched
  <2>8. CASE k = "eol_space"
    <3>1. Left(source, p) = <<>>
      BY <2>0, <2>8 DEF Emitted
    <3>2. At(source, q) = "\n" /\ \A s \in p..q - 1 : At(source, s) \in Blank
      BY <1>2, <2>8 DEF Matched
    <3>3. \A c \in Blank : c \in Space /\ c # "\n"
      BY DEF Space, Blank
    <3>4. At(source, p) # "\n"
      BY <2>a, <3>2, <3>3
    <3>. QED
      BY <1>2, <3>1, <3>2, <3>3, <3>4 DEF Deletes
  <2>9. CASE k = "runs"
    <3>1. Left(source, p) = <<[char |-> " ", source |-> p]>>
      BY <2>0, <2>9 DEF Emitted
    <3>. QED
      BY <1>2, <2>9, <3>1 DEF Narrows, Matched
  <2>. QED
    BY <2>1, <2>2, <2>3, <2>4, <2>5, <2>6, <2>7, <2>8, <2>9 DEF Kinds
<1>. QED
  BY <1>1, <1>2, TakenIs

\* What is left of the text from p on, given what is left from further on.
Scanned(source, from, p) ==
  IF p = Len(source) THEN <<>> ELSE Left(source, p) \o from[After(source, p)]

LEMMA LeftIs ==
  ASSUME NEW source \in Seq(Char), NEW p \in 0..Len(source) - 1
  PROVE  Left(source, p) \in Seq(Edit)
<1>1. p \in Nat /\ p + 1 \in Nat
  OBVIOUS
<1>2. "\n" \in Char /\ " " \in Char
  BY DEF Char, Space, Blank
<1>3. At(source, p) \in Char
  BY AtIs
<1>4. \A c \in Char, s \in Nat : [char |-> c, source |-> s] \in Edit
  BY DEF Edit
<1>5. \A e \in Edit : <<e>> \in Seq(Edit)
  OBVIOUS
<1>6. \A e, f \in Edit : <<e, f>> \in Seq(Edit)
  OBVIOUS
<1>7. <<>> \in Seq(Edit)
  OBVIOUS
<1>. QED
  BY <1>1, <1>2, <1>3, <1>4, <1>5, <1>6, <1>7, ScanStep
    DEF Retains, Returns, Shortens, Narrows, Deletes

LEMMA EditedIs ==
  ASSUME NEW source \in Seq(Char)
  PROVE  \E from \in [0..Len(source) -> Seq(Edit)] :
           /\ Edited(source) = from[0]
           /\ \A p \in 0..Len(source) : from[p] = Scanned(source, from, p)
<1>. DEFINE n == Len(source)
            D == 0..n
            T == Seq(Edit)
            rank == [p \in D |-> n - p]
            Rec == [p \in D |-> [g \in [D -> T] |-> Scanned(source, g, p)]]
            chosen == CHOOSE f : f = [p \in D |-> Scanned(source, f, p)]
<1>0. n \in Nat /\ \A p \in D : p \in Int /\ (p = n \/ p \in 0..n - 1)
  OBVIOUS
<1>1. Edited(source) = chosen[0]
  BY DEF Edited, Scanned, Left, After, Taken
<1>2. rank \in [D -> 0..n] /\ \A p \in D : rank[p] = n - p
  BY <1>0
<1>3. \A p \in D, g \in [D -> T] : Scanned(source, g, p) \in T
  <2>. TAKE p \in D, g \in [D -> T]
  <2>1. CASE p = n
    BY <2>1 DEF Scanned
  <2>2. CASE p \in 0..n - 1
    <3>1. After(source, p) \in D
      BY <2>2, ScanStep
    <3>2. Left(source, p) \in T /\ g[After(source, p)] \in T
      BY <2>2, <3>1, LeftIs
    <3>3. \A s, t \in T : s \o t \in T
      OBVIOUS
    <3>. QED
      BY <2>2, <3>2, <3>3 DEF Scanned
  <2>. QED
    BY <1>0, <2>1, <2>2
<1>4. Rec \in [D -> [[D -> T] -> T]]
      /\ \A p \in D, g \in [D -> T] : Rec[p][g] = Scanned(source, g, p)
  BY <1>3
<1>5. \A p \in D : \A g, h \in [D -> T] :
        (\A q \in D : rank[q] < rank[p] => g[q] = h[q]) => Rec[p][g] = Rec[p][h]
  <2>. SUFFICES ASSUME NEW p \in D, NEW g \in [D -> T], NEW h \in [D -> T],
                       \A q \in D : rank[q] < rank[p] => g[q] = h[q]
                PROVE  Scanned(source, g, p) = Scanned(source, h, p)
    BY <1>4
  <2>1. CASE p = n
    BY <2>1 DEF Scanned
  <2>2. CASE p \in 0..n - 1
    <3>1. After(source, p) \in p + 1..n
      BY <2>2, ScanStep
    <3>2. After(source, p) \in D /\ rank[After(source, p)] < rank[p]
      BY <1>0, <1>2, <2>2, <3>1
    <3>3. g[After(source, p)] = h[After(source, p)]
      BY <3>2
    <3>. QED
      BY <3>3 DEF Scanned
  <2>. QED
    BY <1>0, <2>1, <2>2
<1>6. PICK f \in [D -> T] : \A p \in D : f[p] = Rec[p][f]
  <2>1. <<>> \in T
    OBVIOUS
  <2>2. T # {}
    BY <2>1
  <2>3. n \in Nat /\ rank \in [D -> 0..n] /\ Rec \in [D -> [[D -> T] -> T]]
    BY <1>0, <1>2, <1>4
  <2>. HIDE DEF D, T, rank, Rec, n
  <2>4. Recursive(D, n, rank, T, Rec)
    BY <1>5, <2>2, <2>3 DEF Recursive
  <2>. QED
    BY <2>4, RecursionExists
<1>7. f = [p \in D |-> Scanned(source, f, p)]
  BY <1>4, <1>6
<1>8. chosen = [p \in D |-> Scanned(source, chosen, p)]
  BY <1>7
<1>9. \A p \in D : chosen[p] = Scanned(source, chosen, p)
  BY <1>8
<1>10. chosen \in [D -> T]
  <2>. HIDE DEF chosen
  <2>. DEFINE G == {p \in D : chosen[p] \in T}
  <2>1. \A p \in 0..n : (\A q \in p + 1..n : q \in G) => p \in G
    <3>. SUFFICES ASSUME NEW p \in 0..n, \A q \in p + 1..n : q \in G PROVE chosen[p] \in T
      OBVIOUS
    <3>1. CASE p = n
      <4>1. chosen[p] = <<>>
        BY <1>9, <3>1 DEF Scanned
      <4>. QED
        BY <4>1
    <3>2. CASE p \in 0..n - 1
      <4>0. p # n /\ p \in D
        BY <1>0, <3>2
      <4>1. After(source, p) \in p + 1..n
        BY <3>2, ScanStep
      <4>2. chosen[After(source, p)] \in T
        BY <4>1
      <4>3. Left(source, p) \in T
        BY <3>2, LeftIs
      <4>4. \A s, t \in T : s \o t \in T
        OBVIOUS
      <4>5. chosen[p] = Left(source, p) \o chosen[After(source, p)]
        BY <1>9, <4>0 DEF Scanned
      <4>. QED
        BY <4>2, <4>3, <4>4, <4>5
    <3>. QED
      BY <1>0, <3>1, <3>2
  <2>2. \A p \in 0..n : p \in G
    <3>1. 0 \in Int /\ n \in Int
      OBVIOUS
    <3>. HIDE DEF G
    <3>. QED
      BY <2>1, <3>1, Descend
  <2>3. \A p \in D : chosen[p] \in T
    BY <2>2
  <2>4. chosen = [p \in D |-> chosen[p]]
    BY <1>8, Zenon
  <2>. QED
    BY <2>3, <2>4
<1>. QED
  BY <1>1, <1>9, <1>10

LEMMA Prepended ==
  ASSUME NEW r \in Seq(Edit), NEW e \in Edit
  PROVE  /\ <<e>> \o r \in Seq(Edit) /\ Len(<<e>> \o r) = Len(r) + 1
         /\ (<<e>> \o r)[1] = e
         /\ \A k \in 2..Len(r) + 1 : k - 1 \in 1..Len(r) /\ (<<e>> \o r)[k] = r[k - 1]
<1>1. <<e>> \in Seq(Edit) /\ Len(<<e>>) = 1 /\ <<e>>[1] = e
  OBVIOUS
<1>. QED
  BY <1>1, ConcatProperties

\* What is left of a text from p on stands for characters from p on, in their
\* order.
Ordered(source, s, p) ==
  /\ \A j \in 1..Len(s) : /\ s[j].source \in p..Len(source) - 1
                          /\ Corresponds(At(source, s[j].source), s[j].char)
  /\ \A j \in 2..Len(s) : s[j - 1].source < s[j].source

\* Of the visible characters only broken hyphens are missing.
Complete(source, s, p) ==
  \A t \in p..Len(source) - 1 :
    At(source, t) \in Visible => Broken(source, t) \/ \E j \in 1..Len(s) : s[j].source = t

\* Nothing but the breaks of words is missing between p and q.
Joinable(source, p, q) ==
  \A t \in p..q - 1 : At(source, t) \in Space => Broken(source, t - 1)

\* Between visible characters that are left side by side.
Apart(source, s) ==
  \A j \in 2..Len(s) :
    s[j - 1].char \in Visible /\ s[j].char \in Visible =>
      Joinable(source, s[j - 1].source + 1, s[j].source)

\* Before the first character that is left, which starts a line where p does.
Heads(source, s, p) ==
  p > 0 /\ Len(s) > 0 =>
    /\ s[1].char \in Visible => Joinable(source, p, s[1].source)
    /\ At(source, p) = "\n" => s[1].char = "\n"

LEMMA OrderedPrepend ==
  ASSUME NEW source \in Seq(Char), NEW r \in Seq(Edit), NEW e \in Edit,
         NEW p \in Nat, NEW q \in Nat, p <= e.source, e.source < q, q <= Len(source),
         Corresponds(At(source, e.source), e.char), Ordered(source, r, q)
  PROVE  Ordered(source, <<e>> \o r, p)
<1>. DEFINE s == <<e>> \o r
<1>1. /\ Len(s) = Len(r) + 1 /\ s[1] = e
      /\ \A k \in 2..Len(r) + 1 : k - 1 \in 1..Len(r) /\ s[k] = r[k - 1]
  BY Prepended
<1>. HIDE DEF s
<1>2. e.source \in Nat /\ Len(r) \in Nat /\ Len(source) \in Nat
  BY DEF Edit
<1>3. \A j \in 1..Len(r) : /\ r[j].source \in q..Len(source) - 1
                           /\ Corresponds(At(source, r[j].source), r[j].char)
  BY DEF Ordered
<1>4. ASSUME NEW j \in 1..Len(s)
      PROVE  /\ s[j].source \in p..Len(source) - 1
             /\ Corresponds(At(source, s[j].source), s[j].char)
  <2>1. CASE j = 1
    BY <1>1, <1>2, <2>1
  <2>2. CASE j # 1
    <3>1. s[j] = r[j - 1] /\ j - 1 \in 1..Len(r)
      BY <1>1, <1>2, <2>2
    <3>. QED
      BY <1>2, <1>3, <3>1
  <2>. QED
    BY <2>1, <2>2
<1>5. ASSUME NEW j \in 2..Len(s) PROVE s[j - 1].source < s[j].source
  <2>0. s[j] = r[j - 1] /\ j - 1 \in 1..Len(r)
    BY <1>1, <1>2
  <2>1. CASE j = 2
    <3>1. s[j - 1] = e
      BY <1>1, <2>1
    <3>. QED
      BY <1>2, <1>3, <2>0, <3>1
  <2>2. CASE j # 2
    <3>1. j - 1 \in 2..Len(r) /\ s[j - 1] = r[(j - 1) - 1]
      BY <1>1, <1>2, <2>2
    <3>2. r[(j - 1) - 1].source < r[j - 1].source
      BY <3>1 DEF Ordered
    <3>. QED
      BY <2>0, <3>1, <3>2
  <2>. QED
    BY <2>1, <2>2
<1>6. Ordered(source, s, p)
  BY <1>4, <1>5 DEF Ordered
<1>. QED
  BY <1>6 DEF s

LEMMA CompletePrepend ==
  ASSUME NEW source \in Seq(Char), NEW r \in Seq(Edit), NEW e \in Edit,
         NEW p \in Nat, NEW q \in Nat, q <= Len(source),
         \A t \in p..q - 1 : At(source, t) \in Visible => t = e.source,
         Complete(source, r, q)
  PROVE  Complete(source, <<e>> \o r, p)
<1>. DEFINE s == <<e>> \o r
<1>1. /\ Len(s) = Len(r) + 1 /\ s[1] = e
      /\ \A k \in 2..Len(r) + 1 : k - 1 \in 1..Len(r) /\ s[k] = r[k - 1]
  BY Prepended
<1>. HIDE DEF s
<1>2. Len(r) \in Nat
  OBVIOUS
<1>3. ASSUME NEW t \in p..Len(source) - 1, At(source, t) \in Visible, ~Broken(source, t)
      PROVE  \E j \in 1..Len(s) : s[j].source = t
  <2>1. CASE t < q
    BY <1>1, <1>2, <1>3, <2>1
  <2>2. CASE t >= q
    <3>1. PICK j \in 1..Len(r) : r[j].source = t
      BY <1>3, <2>2 DEF Complete
    <3>2. j + 1 \in 1..Len(s) /\ s[j + 1] = r[(j + 1) - 1] /\ (j + 1) - 1 = j
      BY <1>1, <1>2
    <3>. QED
      BY <3>1, <3>2
  <2>. QED
    BY <2>1, <2>2
<1>4. Complete(source, s, p)
  BY <1>3 DEF Complete
<1>. QED
  BY <1>4 DEF s

LEMMA ApartPrepend ==
  ASSUME NEW source \in Seq(Char), NEW r \in Seq(Edit), NEW e \in Edit,
         \/ e.char \notin Visible \/ Len(r) = 0
         \/ r[1].char \in Visible => Joinable(source, e.source + 1, r[1].source),
         Apart(source, r)
  PROVE  Apart(source, <<e>> \o r)
<1>. DEFINE s == <<e>> \o r
<1>1. /\ Len(s) = Len(r) + 1 /\ s[1] = e
      /\ \A k \in 2..Len(r) + 1 : k - 1 \in 1..Len(r) /\ s[k] = r[k - 1]
  BY Prepended
<1>. HIDE DEF s
<1>2. Len(r) \in Nat
  OBVIOUS
<1>3. ASSUME NEW j \in 2..Len(s), s[j - 1].char \in Visible, s[j].char \in Visible
      PROVE  Joinable(source, s[j - 1].source + 1, s[j].source)
  <2>0. s[j] = r[j - 1] /\ j - 1 \in 1..Len(r)
    BY <1>1, <1>2
  <2>1. CASE j = 2
    <3>1. s[j - 1] = e /\ s[j] = r[1]
      BY <1>1, <2>0, <2>1
    <3>. QED
      BY <1>3, <2>0, <3>1
  <2>2. CASE j # 2
    <3>1. j - 1 \in 2..Len(r) /\ s[j - 1] = r[(j - 1) - 1]
      BY <1>1, <1>2, <2>2
    <3>. QED
      BY <1>3, <2>0, <3>1 DEF Apart
  <2>. QED
    BY <2>1, <2>2
<1>4. Apart(source, s)
  BY <1>3 DEF Apart
<1>. QED
  BY <1>4 DEF s

LEMMA NotSeen ==
  /\ \A c \in Space \cup Invisible : c \notin Visible
  /\ "\n" \in Space /\ "\r" \in Space /\ Blank \subseteq Space /\ "-" \notin Space
  /\ "\n" \in Char /\ " " \in Char /\ " " \in Space
  /\ \A c \in Blank : Corresponds(c, " ")
  /\ \A c : Corresponds(c, c)
  /\ Corresponds("\r", "\n")
  /\ \A c \in Blank : c # "\n"
BY DEF Visible, Space, Blank, Invisible, Char, Corresponds

Remains(source, s, p) ==
  Ordered(source, s, p) /\ Complete(source, s, p) /\ Apart(source, s) /\ Heads(source, s, p)

\* One step of the scan keeps all of it.
LEMMA RemainsStep ==
  ASSUME NEW source \in Seq(Char), NEW p \in 0..Len(source) - 1,
         NEW q \in p + 1..Len(source), q = After(source, p),
         NEW r \in Seq(Edit), Remains(source, r, q),
         q = Len(source) => r = <<>>
  PROVE  Remains(source, Left(source, p) \o r, p)
<1>. DEFINE n == Len(source)
            s == Left(source, p) \o r
<1>0. p \in Nat /\ q \in Nat /\ n \in Nat /\ p <= p /\ p < q /\ q <= n /\ Len(r) \in Nat
      /\ p + 1 \in Nat
  OBVIOUS
<1>a. At(source, p) \in Char
  BY AtIs
<1>b. \A c \in Char, t \in Nat : [char |-> c, source |-> t] \in Edit
  BY DEF Edit
<1>c. Ordered(source, r, q) /\ Complete(source, r, q) /\ Apart(source, r) /\ Heads(source, r, q)
  BY DEF Remains
<1>d. \A j \in 1..Len(r) : r[j].source \in q..n - 1
  BY <1>c DEF Ordered
<1>1. CASE Retains(source, p)
  <2>. DEFINE e == [char |-> At(source, p), source |-> p]
  <2>1. q = p + 1 /\ s = <<e>> \o r
    BY <1>1 DEF Retains
  <2>2. e \in Edit /\ e.source = p /\ e.char = At(source, p)
    BY <1>0, <1>a, <1>b
  <2>. HIDE DEF e, s
  <2>3. Ordered(source, <<e>> \o r, p)
    <3>1. p <= e.source /\ e.source < q
      BY <1>0, <2>2
    <3>2. Corresponds(At(source, e.source), e.char)
      BY <2>2, NotSeen, Zenon
    <3>. QED
      BY <1>0, <1>c, <2>2, <3>1, <3>2, OrderedPrepend
  <2>4. Complete(source, <<e>> \o r, p)
    <3>1. \A t \in p..q - 1 : At(source, t) \in Visible => t = e.source
      BY <1>0, <2>1, <2>2
    <3>. QED
      BY <1>0, <1>c, <2>2, <3>1, CompletePrepend
  <2>5. Apart(source, <<e>> \o r)
    <3>1. Len(r) = 0 \/ (r[1].char \in Visible => Joinable(source, e.source + 1, r[1].source))
      BY <1>0, <1>c, <2>1, <2>2 DEF Heads
    <3>. QED
      BY <1>c, <2>2, <3>1, ApartPrepend
  <2>6. Heads(source, <<e>> \o r, p)
    <3>1. (<<e>> \o r)[1] = e
      BY <2>2, Prepended
    <3>2. Joinable(source, p, p)
      BY <1>0 DEF Joinable
    <3>. QED
      BY <2>2, <3>1, <3>2 DEF Heads
  <2>. QED
    BY <2>1, <2>3, <2>4, <2>5, <2>6 DEF Remains, s
<1>2. CASE Returns(source, p) \/ Narrows(source, p)
  <2>1. PICK c \in {"\n", " "} :
          /\ Left(source, p) = <<[char |-> c, source |-> p]>>
          /\ \A t \in p..q - 1 : At(source, t) \in Space
          /\ Corresponds(At(source, p), c)
          /\ At(source, p) # "\n"
    <3>1. CASE Returns(source, p)
      <4>1. "\r" # "\n"
        OBVIOUS
      <4>2. \A t \in p..q - 1 : t = p
        BY <1>0, <3>1 DEF Returns
      <4>. QED
        BY <3>1, <4>1, <4>2, NotSeen DEF Returns
    <3>2. CASE Narrows(source, p)
      <4>1. p \in p..q - 1
        BY <1>0
      <4>2. At(source, p) \in Blank
        BY <3>2, <4>1 DEF Narrows
      <4>. QED
        BY <3>2, <4>2, NotSeen DEF Narrows
    <3>. QED
      BY <1>2, <3>1, <3>2
  <2>. DEFINE e == [char |-> c, source |-> p]
  <2>2. e \in Edit /\ e.source = p /\ e.char = c /\ c \notin Visible
    BY <1>0, <1>b, NotSeen
  <2>3. s = <<e>> \o r
    BY <2>1
  <2>. HIDE DEF e, s
  <2>4. Ordered(source, <<e>> \o r, p)
    <3>0. e.source = p
      BY <2>2
    <3>1. p <= e.source /\ e.source < q
      BY <1>0, <3>0, Zenon
    <3>2. Corresponds(At(source, e.source), e.char)
      BY <2>1, <2>2, Zenon
    <3>. QED
      BY <1>0, <1>c, <2>2, <3>1, <3>2, OrderedPrepend
  <2>5. Complete(source, <<e>> \o r, p)
    <3>1. \A t \in p..q - 1 : At(source, t) \in Visible => t = e.source
      BY <2>1, NotSeen
    <3>. QED
      BY <1>0, <1>c, <2>2, <3>1, CompletePrepend
  <2>6. Apart(source, <<e>> \o r)
    BY <1>c, <2>2, ApartPrepend
  <2>7. Heads(source, <<e>> \o r, p)
    <3>1. (<<e>> \o r)[1] = e
      BY <2>2, Prepended
    <3>. QED
      BY <2>1, <2>2, <3>1 DEF Heads
  <2>. QED
    BY <2>3, <2>4, <2>5, <2>6, <2>7 DEF Remains, s
<1>3. CASE Shortens(source, p)
  <2>. DEFINE e == [char |-> "\n", source |-> p]
              f == [char |-> "\n", source |-> p + 1]
  <2>1. /\ q >= p + 3 /\ \A t \in p..q - 1 : At(source, t) = "\n"
        /\ Left(source, p) = <<e, f>>
    BY <1>3 DEF Shortens
  <2>2. /\ e \in Edit /\ e.source = p /\ e.char = "\n"
        /\ f \in Edit /\ f.source = p + 1 /\ f.char = "\n"
    BY <1>0, <1>b, NotSeen
  <2>. DEFINE u == <<f>> \o r
  <2>3. s = <<e>> \o u
    <3>. HIDE DEF e, f
    <3>1. \A x \in Edit, y \in Edit : <<x, y>> \o r = <<x>> \o (<<y>> \o r)
      <4>. TAKE x \in Edit, y \in Edit
      <4>1. <<x>> \in Seq(Edit) /\ <<y>> \in Seq(Edit)
        OBVIOUS
      <4>2. <<x, y>> = Append(<<x>>, y)
        OBVIOUS
      <4>3. <<x, y>> = <<x>> \o <<y>>
        BY <4>1, <4>2, AppendIsConcat
      <4>. QED
        BY <4>1, <4>3, ConcatAssociative
    <3>. QED
      BY <2>1, <2>2, <3>1
  <2>4. At(source, p) = "\n" /\ At(source, p + 1) = "\n" /\ "\n" \notin Visible
    <3>1. p \in p..q - 1 /\ p + 1 \in p..q - 1
      BY <1>0, <2>1
    <3>. QED
      BY <2>1, <3>1, NotSeen
  <2>. HIDE DEF e, f, s
  <2>5. Ordered(source, u, p + 1)
    <3>1. p + 1 <= f.source /\ f.source < q
      BY <1>0, <2>1, <2>2
    <3>2. Corresponds(At(source, f.source), f.char)
      BY <2>2, <2>4, NotSeen, Zenon
    <3>. QED
      BY <1>0, <1>c, <2>2, <3>1, <3>2, OrderedPrepend
  <2>6. u \in Seq(Edit)
    BY <2>2, Prepended
  <2>7. Complete(source, u, p + 1)
    <3>1. \A t \in p + 1..q - 1 : At(source, t) \in Visible => t = f.source
      BY <1>0, <2>1, <2>4
    <3>. QED
      BY <1>0, <1>c, <2>2, <3>1, CompletePrepend
  <2>8. Apart(source, u)
    BY <1>c, <2>2, <2>4, ApartPrepend
  <2>. HIDE DEF u
  <2>9. Ordered(source, <<e>> \o u, p)
    <3>1. p + 1 <= Len(source)
      BY <1>0
    <3>. QED
      <4>1. p <= e.source /\ e.source < p + 1
        BY <1>0, <2>2
      <4>2. Corresponds(At(source, e.source), e.char)
        BY <2>2, <2>4, NotSeen, Zenon
      <4>. QED
        BY <1>0, <2>2, <2>5, <2>6, <3>1, <4>1, <4>2, OrderedPrepend
  <2>10. Complete(source, <<e>> \o u, p)
    <3>1. \A t \in p..(p + 1) - 1 : At(source, t) \in Visible => t = e.source
      BY <1>0, <2>2
    <3>. QED
      BY <1>0, <2>2, <2>6, <2>7, <3>1, CompletePrepend
  <2>11. Apart(source, <<e>> \o u)
    BY <2>2, <2>4, <2>6, <2>8, ApartPrepend
  <2>12. Heads(source, <<e>> \o u, p)
    <3>1. (<<e>> \o u)[1] = e
      BY <2>2, <2>6, Prepended
    <3>. QED
      BY <2>2, <2>4, <3>1 DEF Heads
  <2>. QED
    BY <2>3, <2>9, <2>10, <2>11, <2>12 DEF Remains, s
<1>4. CASE Deletes(source, p)
  <2>1. s = r
    BY <1>4 DEF Deletes
  <2>2. Ordered(source, r, p)
    BY <1>0, <1>c DEF Ordered
  <2>3. Complete(source, r, p)
    <3>1. \A t \in p..q - 1 : At(source, t) \in Visible => Broken(source, t)
      BY <1>4, NotSeen DEF Deletes
    <3>2. \A t \in p..n - 1 : t \in p..q - 1 \/ t \in q..n - 1
      BY <1>0
    <3>. QED
      BY <1>c, <3>1, <3>2 DEF Complete
  <2>4. Heads(source, r, p)
    <3>. SUFFICES ASSUME p > 0, Len(r) > 0
                  PROVE  /\ r[1].char \in Visible => Joinable(source, p, r[1].source)
                         /\ At(source, p) = "\n" => r[1].char = "\n"
      BY DEF Heads
    <3>1. q # n
      BY <1>0
    <3>2. At(source, p) # "\n"
      BY <1>0, <1>4, <3>1 DEF Deletes
    <3>3. CASE \A t \in p..q - 1 : At(source, t) \in Space => Broken(source, t - 1)
      <4>1. r[1].char \in Visible => Joinable(source, q, r[1].source)
        BY <1>0, <1>c DEF Heads
      <4>2. r[1].source \in q..n - 1
        BY <1>0, <1>d
      <4>3. \A t \in p..r[1].source - 1 : t \in p..q - 1 \/ t \in q..r[1].source - 1
        BY <1>0, <4>2
      <4>. QED
        BY <3>2, <3>3, <4>1, <4>3 DEF Joinable
    <3>4. CASE At(source, q) = "\n"
      <4>1. r[1].char = "\n"
        BY <1>0, <1>c, <3>4 DEF Heads
      <4>. QED
        BY <3>2, <4>1, NotSeen
    <3>. QED
      BY <1>0, <1>4, <3>1, <3>3, <3>4 DEF Deletes
  <2>. QED
    BY <1>c, <2>1, <2>2, <2>3, <2>4 DEF Remains
<1>. QED
  BY <1>1, <1>2, <1>3, <1>4, ScanStep

\* The cleaned text and where each of its characters comes from.
LEMMA EditedRemains ==
  ASSUME NEW source \in Seq(Char)
  PROVE  /\ Edited(source) \in Seq(Edit)
         /\ Ordered(source, Edited(source), 0)
         /\ Complete(source, Edited(source), 0)
         /\ Apart(source, Edited(source))
<1>. DEFINE n == Len(source)
<1>0. n \in Nat
  OBVIOUS
<1>1. PICK from \in [0..n -> Seq(Edit)] :
        /\ Edited(source) = from[0]
        /\ \A p \in 0..n : from[p] = Scanned(source, from, p)
  BY EditedIs
<1>. DEFINE G == {p \in 0..n : Remains(source, from[p], p)}
<1>2. ASSUME NEW p \in 0..n, \A q \in p + 1..n : q \in G PROVE p \in G
  <2>1. CASE p = n
    <3>1. from[p] = <<>>
      BY <1>1, <2>1 DEF Scanned
    <3>2. \A t : t \notin n..n - 1
      BY <1>0
    <3>3. Len(<<>>) = 0 /\ (\A t : t \notin 1..0) /\ (\A t : t \notin 2..0)
      OBVIOUS
    <3>. QED
      BY <2>1, <3>1, <3>2, <3>3 DEF Remains, Ordered, Complete, Apart, Heads
  <2>2. CASE p # n
    <3>0. p \in 0..n - 1
      BY <1>0, <2>2
    <3>. DEFINE q == After(source, p)
    <3>1. q \in p + 1..n
      BY <3>0, ScanStep
    <3>2. q \in 0..n /\ q \in G
      BY <1>2, <3>1
    <3>3. from[p] = Left(source, p) \o from[q]
      BY <1>1, <2>2 DEF Scanned
    <3>4. q = n => from[q] = <<>>
      BY <1>1, <3>2 DEF Scanned
    <3>5. from[q] \in Seq(Edit) /\ Remains(source, from[q], q)
      BY <3>2
    <3>. HIDE DEF q
    <3>6. Remains(source, Left(source, p) \o from[q], p)
      BY <3>0, <3>1, <3>4, <3>5, RemainsStep DEF q
    <3>. QED
      BY <3>3, <3>6
  <2>. QED
    BY <2>1, <2>2
<1>3. 0 \in G
  <2>1. 0 \in Int /\ n \in Int /\ 0 \in 0..n
    BY <1>0
  <2>2. \A p \in 0..n : (\A q \in p + 1..n : q \in G) => p \in G
    BY <1>2
  <2>. HIDE DEF G, n
  <2>. QED
    BY <2>1, <2>2, Descend
<1>4. from[0] \in Seq(Edit)
  <2>1. 0 \in 0..n
    BY <1>0
  <2>. QED
    BY <2>1
<1>. QED
  BY <1>1, <1>3, <1>4 DEF Remains

-----------------------------------------------------------------------------
(* The offset map: edits grouped into runs, and read back by to_source.    *)

\* The characters that open a run, and the one that opens the next.
Opening(edited) == {i \in 1..Len(edited) : i = 1 \/ ~Contiguous(edited, i)}
NextOpening(edited, i) == Min({j \in Opening(edited) : j > i} \cup {Len(edited) + 1})
RunAt(edited, i) ==
  [clean |-> i - 1, source |-> edited[i].source, length |-> NextOpening(edited, i) - i]

LEMMA RunsAre ==
  ASSUME NEW edited
  PROVE  OffsetRuns(edited) = {RunAt(edited, i) : i \in Opening(edited)}
BY DEF OffsetRuns, RunAt, NextOpening, Opening

\* The k-th character lies in the run that the last opening up to k opens.
LEMMA OpeningBefore ==
  ASSUME NEW edited \in Seq(Edit), NEW k \in 1..Len(edited) + 1, Len(edited) > 0
  PROVE  \E i \in Opening(edited) :
           /\ i <= k /\ \A j \in Opening(edited) : j <= k => j <= i
           /\ \A m \in i..k : m <= Len(edited) => edited[m].source = edited[i].source + (m - i)
           /\ k <= NextOpening(edited, i)
<1>. DEFINE n == Len(edited)
            O == Opening(edited)
            B == {j \in O : j <= k}
<1>0. n \in Nat /\ k \in Nat /\ \A m \in 1..n : edited[m].source \in Nat
  <2>1. n \in Nat /\ k \in Nat
    OBVIOUS
  <2>2. \A e \in Edit : e.source \in Nat
    BY DEF Edit
  <2>3. \A m \in 1..n : edited[m] \in Edit
    OBVIOUS
  <2>. QED
    BY <2>1, <2>2, <2>3
<1>1. 1 \in O /\ O \in SUBSET (1..n)
  BY DEF Opening
<1>2. B \in SUBSET Int /\ B # {} /\ \A x \in B : x <= k
  BY <1>0, <1>1
<1>3. PICK i \in B : \A j \in B : j <= i
  <2>1. k \in Int
    OBVIOUS
  <2>. HIDE DEF B
  <2>. QED
    BY <1>2, <2>1, IntGreatest
<1>4. i \in O /\ i <= k /\ i \in 1..n /\ \A j \in O : j <= k => j <= i
  BY <1>1, <1>3
<1>5. \A m \in i + 1..k : m <= n => edited[m].source = edited[m - 1].source + 1
  <2>. TAKE m \in i + 1..k
  <2>. HAVE m <= n
  <2>1. m \notin O /\ m \in 1..n /\ m # 1
    BY <1>0, <1>4
  <2>. QED
    BY <2>1 DEF Opening, Contiguous
<1>6. \A m \in i..k : m <= n => edited[m].source = edited[i].source + (m - i)
  <2>. DEFINE G == {m \in i..k : m <= n => edited[m].source = edited[i].source + (m - i)}
  <2>1. ASSUME NEW m \in i..k, \A l \in i..m - 1 : l \in G PROVE m \in G
    <3>. SUFFICES ASSUME m <= n PROVE edited[m].source = edited[i].source + (m - i)
      OBVIOUS
    <3>0. m \in Int /\ i \in Int /\ edited[i].source \in Nat
      BY <1>0, <1>4
    <3>1. CASE m = i
      BY <3>0, <3>1
    <3>2. CASE m # i
      <4>1. m - 1 \in i..m - 1 /\ m - 1 <= n /\ m \in i + 1..k
        BY <1>0, <3>0, <3>2
      <4>2. edited[m - 1].source = edited[i].source + ((m - 1) - i)
        BY <2>1, <4>1
      <4>3. edited[m].source = edited[m - 1].source + 1
        BY <1>5, <4>1
      <4>. QED
        BY <3>0, <4>2, <4>3
    <3>. QED
      BY <3>1, <3>2
  <2>2. i \in Int /\ k \in Int
    BY <1>0, <1>4
  <2>3. \A m \in i..k : m \in G
    <3>1. \A m \in i..k : (\A l \in i..m - 1 : l \in G) => m \in G
      BY <2>1
    <3>. HIDE DEF G
    <3>. QED
      BY <2>2, <3>1, Ascend
  <2>. QED
    BY <2>3
<1>7. k <= NextOpening(edited, i)
  <2>. DEFINE N == {j \in O : j > i} \cup {n + 1}
  <2>1. \A j \in N : k <= j
    BY <1>0, <1>1, <1>4
  <2>2. N \in SUBSET Int /\ n + 1 \in N
    BY <1>0, <1>1
  <2>3. Min(N) \in N
    <3>1. N # {} /\ k \in Int
      BY <1>0, <2>2
    <3>. HIDE DEF N
    <3>. QED
      BY <2>1, <2>2, <3>1, MinIs
  <2>. QED
    BY <2>1, <2>3 DEF NextOpening
<1>. QED
  BY <1>4, <1>6, <1>7

LEMMA NextOpeningIs ==
  ASSUME NEW edited \in Seq(Edit), NEW i \in Opening(edited)
  PROVE  NextOpening(edited, i) \in i + 1..Len(edited) + 1
<1>. DEFINE n == Len(edited)
            N == {j \in Opening(edited) : j > i} \cup {n + 1}
<1>1. i \in 1..n /\ n \in Nat
  BY DEF Opening
<1>2. N \in SUBSET (i + 1..n + 1) /\ n + 1 \in N
  BY <1>1 DEF Opening
<1>3. Min(N) \in N
  <2>1. N \in SUBSET Int /\ N # {} /\ i \in Int /\ \A x \in N : i <= x
    BY <1>1, <1>2
  <2>. HIDE DEF N
  <2>. QED
    BY <2>1, MinIs
<1>. QED
  BY <1>2, <1>3 DEF NextOpening

\* The offset of a cleaned character leads to the source of that character, and
\* the offset past the last one to just past the source of the last.
LEMMA ToSourceIs ==
  ASSUME NEW edited \in Seq(Edit), NEW k \in 1..Len(edited) + 1, Len(edited) > 0
  PROVE  ToSource(OffsetRuns(edited), k - 1)
           = IF k <= Len(edited) THEN edited[k].source ELSE edited[Len(edited)].source + 1
<1>. DEFINE n == Len(edited)
            runs == OffsetRuns(edited)
            Holds(r) == /\ r.clean <= k - 1
                        /\ \A s \in runs : s.clean <= k - 1 => s.clean <= r.clean
            run == CHOOSE r \in runs : Holds(r)
<1>0. n \in Nat /\ k \in Nat /\ \A m \in 1..n : edited[m].source \in Nat
  <2>1. n \in Nat /\ k \in Nat
    OBVIOUS
  <2>2. \A e \in Edit : e.source \in Nat
    BY DEF Edit
  <2>3. \A m \in 1..n : edited[m] \in Edit
    OBVIOUS
  <2>. QED
    BY <2>1, <2>2, <2>3
<1>1. PICK i \in Opening(edited) :
        /\ i <= k /\ \A j \in Opening(edited) : j <= k => j <= i
        /\ \A m \in i..k : m <= n => edited[m].source = edited[i].source + (m - i)
        /\ k <= NextOpening(edited, i)
  BY OpeningBefore
<1>2. \A j \in Opening(edited) : j \in 1..n
  BY DEF Opening
<1>3. \A j \in Opening(edited) : /\ RunAt(edited, j).clean = j - 1
                                 /\ RunAt(edited, j).source = edited[j].source
                                 /\ RunAt(edited, j).length = NextOpening(edited, j) - j
  BY DEF RunAt
<1>4. runs = {RunAt(edited, j) : j \in Opening(edited)}
  BY RunsAre
<1>. HIDE DEF runs, n
<1>5. RunAt(edited, i) \in runs /\ Holds(RunAt(edited, i))
  <2>1. i - 1 <= k - 1
    BY <1>0, <1>1, <1>2
  <2>2. \A s \in runs : s.clean <= k - 1 => s.clean <= i - 1
    <3>. TAKE s \in runs
    <3>1. PICK j \in Opening(edited) : s = RunAt(edited, j)
      BY <1>4
    <3>2. s.clean = j - 1 /\ j \in Int /\ i \in Int
      BY <1>1, <1>2, <1>3, <3>1
    <3>. HAVE s.clean <= k - 1
    <3>3. j <= k
      BY <1>0, <3>2
    <3>4. j <= i
      BY <1>1, <3>3
    <3>. QED
      BY <3>2, <3>4
  <2>. QED
    BY <1>3, <1>4, <2>1, <2>2
<1>6. run \in runs /\ Holds(run)
  BY <1>5
<1>. HIDE DEF run
<1>7. run = RunAt(edited, i)
  <2>1. PICK j \in Opening(edited) : run = RunAt(edited, j)
    BY <1>4, <1>6
  <2>2. j - 1 <= k - 1 /\ i - 1 <= j - 1
    <3>1. run.clean <= k - 1 /\ RunAt(edited, i).clean <= run.clean
      <4>1. RunAt(edited, i).clean <= k - 1
        BY <1>5
      <4>. QED
        BY <1>5, <1>6, <4>1
    <3>. QED
      BY <1>3, <2>1, <3>1
  <2>3. j = i
    BY <1>0, <1>1, <1>2, <2>2
  <2>. QED
    BY <2>1, <2>3
<1>8. ToSource(runs, k - 1) = run.source + Min({(k - 1) - run.clean, run.length})
  BY <1>5 DEF ToSource, run
<1>. DEFINE nx == NextOpening(edited, i)
<1>9. nx \in i + 1..n + 1
  BY NextOpeningIs DEF n
<1>. HIDE DEF nx
<1>10. ToSource(runs, k - 1) = edited[i].source + Min({(k - 1) - (i - 1), nx - i})
  BY <1>3, <1>7, <1>8 DEF nx
<1>11. Min({(k - 1) - (i - 1), nx - i}) = k - i
  <2>1. (k - 1) - (i - 1) = k - i /\ k - i \in Int /\ nx - i \in Int /\ k - i <= nx - i
    BY <1>0, <1>1, <1>2, <1>9 DEF nx
  <2>. QED
    BY <2>1, MinOfTwo
<1>12. i \in 1..n /\ i <= k
  BY <1>1, <1>2
<1>13. CASE k <= n
  <2>1. edited[k].source = edited[i].source + (k - i)
    BY <1>0, <1>1, <1>12, <1>13
  <2>. QED
    BY <1>10, <1>11, <1>13, <2>1 DEF n, runs
<1>14. CASE ~(k <= n)
  <2>1. k = n + 1 /\ n \in i..k
    BY <1>0, <1>12, <1>14 DEF n
  <2>2. edited[n].source = edited[i].source + (n - i)
    BY <1>0, <1>1, <2>1
  <2>3. edited[i].source + (k - i) = edited[n].source + 1
    BY <1>0, <1>12, <2>1, <2>2
  <2>. QED
    BY <1>10, <1>11, <1>14, <2>3 DEF n, runs
<1>. QED
  BY <1>13, <1>14

-----------------------------------------------------------------------------
(* Decoding, by recursion on the byte it has come to.                      *)

\* Whether a character of the bytes begins at i and is whole.
WholeAt(bytes, i) ==
  /\ bytes[i] # "cont"
  /\ i + Width(bytes[i]) - 1 <= Len(bytes)
  /\ \A j \in i + 1..i + Width(bytes[i]) - 1 : bytes[j] = "cont"

Outcome == [text : Seq(Char), bad : Nat]

DecodedFrom(bytes, from, i) ==
  IF i = Len(bytes) + 1 \/ ~WholeAt(bytes, i) THEN [text |-> <<>>, bad |-> i - 1]
  ELSE [from[i + Width(bytes[i])] EXCEPT !.text = <<Character(bytes[i])>> \o @]

\* What the bytes decode to from each of them on.
Decoding(bytes, from) ==
  /\ from \in [1..Len(bytes) + 1 -> Outcome]
  /\ \A i \in 1..Len(bytes) + 1 :
       \/ /\ i = Len(bytes) + 1 \/ ~WholeAt(bytes, i)
          /\ from[i].text = <<>> /\ from[i].bad = i - 1
       \/ /\ i <= Len(bytes) /\ WholeAt(bytes, i)
          /\ i + Width(bytes[i]) \in i + 1..Len(bytes) + 1
          /\ from[i].text = <<Character(bytes[i])>> \o from[i + Width(bytes[i])].text
          /\ from[i].bad = from[i + Width(bytes[i])].bad

LEMMA ByteIs ==
  ASSUME NEW b \in Byte
  PROVE  /\ Width(b) \in 1..3
         /\ b # "cont" => Character(b) \in Char
         /\ Character(b) = "nul" => b = "nul"
<1>1. {"zw", "bom", "%"} \subseteq Char
  BY DEF Char, Invisible
<1>2. Width(b) \in 1..3
  BY DEF Width
<1>3. CASE b \in {"l2", "l3", "%PDF-"}
  BY <1>1, <1>2, <1>3 DEF Character
<1>4. CASE b = "cont"
  BY <1>2, <1>4 DEF Character
<1>5. CASE b \in Char /\ b \notin {"l2", "l3", "cont", "%PDF-"}
  BY <1>2, <1>5 DEF Character
<1>. QED
  BY <1>3, <1>4, <1>5 DEF Byte

LEMMA DecodingExists ==
  ASSUME NEW bytes \in Seq(Byte)
  PROVE  \E from : Decoding(bytes, from) /\ Decode(bytes) = from[1]
<1>. DEFINE n == Len(bytes)
            D == 1..n + 1
            T == Outcome
            rank == [i \in D |-> n + 1 - i]
            Rec == [i \in D |-> [g \in [D -> T] |-> DecodedFrom(bytes, g, i)]]
            chosen == CHOOSE f : f = [i \in D |-> DecodedFrom(bytes, f, i)]
<1>0. n \in Nat /\ \A i \in D : i \in Int /\ (i = n + 1 \/ i \in 1..n)
  OBVIOUS
<1>1. Decode(bytes) = chosen[1]
  BY DEF Decode, DecodedFrom, WholeAt
<1>2. rank \in [D -> 0..n] /\ \A i \in D : rank[i] = n + 1 - i
  BY <1>0
<1>3. \A i \in 1..n : Width(bytes[i]) \in 1..3
      /\ (bytes[i] # "cont" => Character(bytes[i]) \in Char)
  <2>1. \A i \in 1..n : bytes[i] \in Byte
    OBVIOUS
  <2>. QED
    BY <2>1, ByteIs
<1>4. \A i \in 1..n : WholeAt(bytes, i) =>
        i + Width(bytes[i]) \in i + 1..n + 1 /\ Character(bytes[i]) \in Char
  BY <1>0, <1>3 DEF WholeAt
<1>5. \A i \in D, g \in [D -> T] : DecodedFrom(bytes, g, i) \in T
  <2>. TAKE i \in D, g \in [D -> T]
  <2>1. CASE i = n + 1 \/ ~WholeAt(bytes, i)
    <3>1. DecodedFrom(bytes, g, i) = [text |-> <<>>, bad |-> i - 1]
      BY <2>1 DEF DecodedFrom
    <3>2. i - 1 \in Nat /\ <<>> \in Seq(Char)
      BY <1>0
    <3>. QED
      BY <3>1, <3>2 DEF Outcome
  <2>2. CASE i # n + 1 /\ WholeAt(bytes, i)
    <3>1. i + Width(bytes[i]) \in D /\ Character(bytes[i]) \in Char
      BY <1>0, <1>4, <2>2
    <3>2. g[i + Width(bytes[i])] \in T
      BY <3>1
    <3>3. \A c \in Char, t \in Seq(Char) : <<c>> \o t \in Seq(Char)
      OBVIOUS
    <3>4. \A o \in T, c \in Char : [o EXCEPT !.text = <<c>> \o @] \in T
      BY <3>3 DEF Outcome
    <3>. QED
      BY <2>2, <3>1, <3>2, <3>4 DEF DecodedFrom
  <2>. QED
    BY <2>1, <2>2
<1>6. Rec \in [D -> [[D -> T] -> T]]
      /\ \A i \in D, g \in [D -> T] : Rec[i][g] = DecodedFrom(bytes, g, i)
  BY <1>5
<1>7. \A i \in D : \A g, h \in [D -> T] :
        (\A q \in D : rank[q] < rank[i] => g[q] = h[q]) => Rec[i][g] = Rec[i][h]
  <2>. SUFFICES ASSUME NEW i \in D, NEW g \in [D -> T], NEW h \in [D -> T],
                       \A q \in D : rank[q] < rank[i] => g[q] = h[q]
                PROVE  DecodedFrom(bytes, g, i) = DecodedFrom(bytes, h, i)
    BY <1>6
  <2>1. CASE i = n + 1 \/ ~WholeAt(bytes, i)
    BY <2>1 DEF DecodedFrom
  <2>2. CASE i # n + 1 /\ WholeAt(bytes, i)
    <3>1. i + Width(bytes[i]) \in i + 1..n + 1
      BY <1>0, <1>4, <2>2
    <3>2. i + Width(bytes[i]) \in D /\ rank[i + Width(bytes[i])] < rank[i]
      BY <1>0, <1>2, <3>1
    <3>3. g[i + Width(bytes[i])] = h[i + Width(bytes[i])]
      BY <3>2
    <3>. QED
      BY <3>3 DEF DecodedFrom
  <2>. QED
    BY <2>1, <2>2
<1>8. PICK f \in [D -> T] : \A i \in D : f[i] = Rec[i][f]
  <2>1. [text |-> <<>>, bad |-> 0] \in T
    BY <<>> \in Seq(Char) DEF Outcome
  <2>2. T # {}
    BY <2>1
  <2>3. n \in Nat /\ rank \in [D -> 0..n] /\ Rec \in [D -> [[D -> T] -> T]]
    BY <1>0, <1>2, <1>6
  <2>. HIDE DEF D, T, rank, Rec, n
  <2>4. Recursive(D, n, rank, T, Rec)
    BY <1>7, <2>2, <2>3 DEF Recursive
  <2>. QED
    BY <2>4, RecursionExists
<1>9. f = [i \in D |-> DecodedFrom(bytes, f, i)]
  BY <1>6, <1>8
<1>10. chosen = [i \in D |-> DecodedFrom(bytes, chosen, i)]
  BY <1>9
<1>. HIDE DEF chosen, T
<1>11. \A i \in D : chosen[i] = DecodedFrom(bytes, chosen, i)
  BY <1>10
<1>12. chosen \in [D -> T]
  <2>. DEFINE G == {i \in D : chosen[i] \in T}
  <2>0. chosen = [i \in D |-> chosen[i]]
    BY <1>10, Zenon
  <2>1. \A i \in 1..n + 1 : (\A q \in i + 1..n + 1 : q \in G) => i \in G
    <3>. SUFFICES ASSUME NEW i \in 1..n + 1, \A q \in i + 1..n + 1 : q \in G
                  PROVE  chosen[i] \in T
      OBVIOUS
    <3>. DEFINE h == [j \in D |-> IF j \in i + 1..n + 1 THEN chosen[j] ELSE f[j]]
    <3>1. h \in [D -> T] /\ \A j \in i + 1..n + 1 : h[j] = chosen[j]
      BY <1>8
    <3>2. DecodedFrom(bytes, h, i) = DecodedFrom(bytes, chosen, i)
      <4>1. CASE i = n + 1 \/ ~WholeAt(bytes, i)
        BY <4>1 DEF DecodedFrom
      <4>2. CASE i # n + 1 /\ WholeAt(bytes, i)
        <5>1. i + Width(bytes[i]) \in i + 1..n + 1
          BY <1>0, <1>4, <4>2
        <5>. HIDE DEF h
        <5>2. h[i + Width(bytes[i])] = chosen[i + Width(bytes[i])]
          BY <3>1, <5>1
        <5>. QED
          BY <5>2 DEF DecodedFrom
      <4>. QED
        BY <4>1, <4>2
    <3>. HIDE DEF h
    <3>. QED
      BY <1>5, <1>11, <3>1, <3>2
  <2>2. \A i \in 1..n + 1 : i \in G
    <3>1. 1 \in Int /\ n + 1 \in Int
      BY <1>0
    <3>. HIDE DEF G
    <3>. QED
      BY <2>1, <3>1, Descend
  <2>. QED
    BY <2>0, <2>2
<1>13. ASSUME NEW i \in D
       PROVE  \/ /\ i = n + 1 \/ ~WholeAt(bytes, i)
                 /\ chosen[i].text = <<>> /\ chosen[i].bad = i - 1
              \/ /\ i <= n /\ WholeAt(bytes, i)
                 /\ i + Width(bytes[i]) \in i + 1..n + 1
                 /\ chosen[i].text = <<Character(bytes[i])>> \o chosen[i + Width(bytes[i])].text
                 /\ chosen[i].bad = chosen[i + Width(bytes[i])].bad
  <2>0. chosen[i] = DecodedFrom(bytes, chosen, i)
    BY <1>11
  <2>1. CASE i = n + 1 \/ ~WholeAt(bytes, i)
    BY <2>0, <2>1 DEF DecodedFrom
  <2>2. CASE i # n + 1 /\ WholeAt(bytes, i)
    <3>1. i + Width(bytes[i]) \in i + 1..n + 1
      BY <1>0, <1>4, <2>2
    <3>2. chosen[i + Width(bytes[i])] \in T
      BY <1>0, <1>12, <3>1
    <3>3. \A o \in T : \A c : /\ [o EXCEPT !.text = <<c>> \o @].text = <<c>> \o o.text
                              /\ [o EXCEPT !.text = <<c>> \o @].bad = o.bad
      BY DEF T, Outcome
    <3>4. chosen[i] = [chosen[i + Width(bytes[i])] EXCEPT !.text = <<Character(bytes[i])>> \o @]
      BY <2>0, <2>2 DEF DecodedFrom
    <3>. QED
      BY <1>0, <2>2, <3>1, <3>2, <3>3, <3>4
  <2>. QED
    BY <2>1, <2>2
<1>14. Decoding(bytes, chosen)
  BY <1>12, <1>13 DEF Decoding, T
<1>. QED
  BY <1>1, <1>14

LEMMA DecodingStops ==
  ASSUME NEW bytes \in Seq(Byte), NEW from, Decoding(bytes, from)
  PROVE  \A i \in 1..Len(bytes) + 1 : from[i].bad \in i - 1..Len(bytes)
<1>. DEFINE n == Len(bytes)
            G == {i \in 1..n + 1 : from[i].bad \in i - 1..n}
<1>0. n \in Nat
  OBVIOUS
<1>1. ASSUME NEW i \in 1..n + 1, \A q \in i + 1..n + 1 : q \in G PROVE i \in G
  <2>1. CASE from[i].bad = i - 1
    BY <1>0, <2>1
  <2>2. CASE /\ i + Width(bytes[i]) \in i + 1..n + 1
             /\ from[i].bad = from[i + Width(bytes[i])].bad
    <3>1. from[i + Width(bytes[i])].bad \in (i + Width(bytes[i])) - 1..n
      BY <1>1, <2>2
    <3>. QED
      BY <2>2, <3>1
  <2>. QED
    BY <2>1, <2>2 DEF Decoding
<1>2. \A i \in 1..n + 1 : i \in G
  <2>1. \A i \in 1..n + 1 : (\A q \in i + 1..n + 1 : q \in G) => i \in G
    BY <1>1
  <2>2. 1 \in Int /\ n + 1 \in Int
    BY <1>0
  <2>. HIDE DEF G, n
  <2>. QED
    BY <2>1, <2>2, Descend
<1>. QED
  BY <1>2

LEMMA DecodeIs ==
  ASSUME NEW bytes \in Seq(Byte)
  PROVE  Decode(bytes).text \in Seq(Char) /\ Decode(bytes).bad \in 0..Len(bytes)
<1>1. PICK from : Decoding(bytes, from) /\ Decode(bytes) = from[1]
  BY DecodingExists
<1>2. 1 \in 1..Len(bytes) + 1
  OBVIOUS
<1>3. from[1] \in Outcome
  BY <1>1, <1>2 DEF Decoding
<1>4. from[1].bad \in 1 - 1..Len(bytes)
  BY <1>1, <1>2, DecodingStops
<1>. QED
  BY <1>1, <1>3, <1>4 DEF Outcome

\* A NUL of the text is a NUL of the bytes.
LEMMA NulDecoded ==
  ASSUME NEW bytes \in Seq(Byte), "nul" \in ToSet(Decode(bytes).text)
  PROVE  \E i \in 1..Len(bytes) : bytes[i] = "nul"
<1>. DEFINE n == Len(bytes)
            Nul == \E i \in 1..n : bytes[i] = "nul"
<1>0. n \in Nat
  OBVIOUS
<1>1. PICK from : Decoding(bytes, from) /\ Decode(bytes) = from[1]
  BY DecodingExists
<1>. DEFINE G == {i \in 1..n + 1 : \A j \in 1..Len(from[i].text) : from[i].text[j] = "nul" => Nul}
<1>2. ASSUME NEW i \in 1..n + 1, \A q \in i + 1..n + 1 : q \in G PROVE i \in G
  <2>1. CASE from[i].text = <<>>
    BY <2>1
  <2>2. CASE /\ i <= n /\ i + Width(bytes[i]) \in i + 1..n + 1
             /\ from[i].text = <<Character(bytes[i])>> \o from[i + Width(bytes[i])].text
    <3>. DEFINE rest == from[i + Width(bytes[i])].text
                c == Character(bytes[i])
    <3>1. rest \in Seq(Char)
      <4>1. from[i + Width(bytes[i])] \in Outcome
        BY <1>1, <2>2 DEF Decoding
      <4>. QED
        BY <4>1 DEF Outcome
    <3>2. \A j \in 1..Len(rest) : rest[j] = "nul" => Nul
      BY <1>2, <2>2
    <3>3. c = "nul" => Nul
      <4>1. i \in 1..n /\ bytes[i] \in Byte
        BY <1>0, <2>2
      <4>. QED
        BY <4>1, ByteIs
    <3>. HIDE DEF rest, c, Nul
    <3>4. ASSUME NEW j \in 1..Len(<<c>> \o rest), (<<c>> \o rest)[j] = "nul" PROVE Nul
      <4>1. \/ j = 1 /\ (<<c>> \o rest)[j] = c
            \/ j - 1 \in 1..Len(rest) /\ (<<c>> \o rest)[j] = rest[j - 1]
        <5>1. /\ Len(<<c>> \o rest) = 1 + Len(rest)
              /\ (<<c>> \o rest)[j] = IF j <= 1 THEN c ELSE rest[j - 1]
          <6>1. <<c>> \in Seq({c} \cup Char) /\ rest \in Seq({c} \cup Char) /\ Len(<<c>>) = 1
                /\ <<c>>[1] = c
            BY <3>1
          <6>. QED
            BY <6>1, ConcatProperties
        <5>2. Len(rest) \in Nat
          BY <3>1
        <5>. QED
          BY <5>1, <5>2
      <4>. QED
        BY <3>2, <3>3, <3>4, <4>1
    <3>5. from[i].text = <<c>> \o rest
      BY <2>2 DEF c, rest
    <3>6. \A j \in 1..Len(from[i].text) : from[i].text[j] = "nul" => Nul
      BY <3>4, <3>5
    <3>. QED
      BY <3>6
  <2>. QED
    BY <1>1, <2>1, <2>2 DEF Decoding
<1>3. \A i \in 1..n + 1 : i \in G
  <2>1. \A i \in 1..n + 1 : (\A q \in i + 1..n + 1 : q \in G) => i \in G
    BY <1>2
  <2>2. 1 \in Int /\ n + 1 \in Int
    BY <1>0
  <2>. HIDE DEF G, n
  <2>. QED
    BY <2>1, <2>2, Descend
<1>4. 1 \in 1..n + 1
  BY <1>0
<1>5. Decode(bytes).text \in Seq(Char)
  BY DecodeIs
<1>. QED
  BY <1>1, <1>3, <1>4, <1>5 DEF ToSet

LEMMA PrefixIs ==
  ASSUME NEW bytes \in Seq(Byte), NEW m \in Nat
  PROVE  /\ Prefix(bytes, m) \in Seq(Byte)
         /\ Len(Prefix(bytes, m)) = Min({m, Len(bytes)})
         /\ Len(Prefix(bytes, m)) = IF m <= Len(bytes) THEN m ELSE Len(bytes)
         /\ \A i \in 1..Len(Prefix(bytes, m)) : Prefix(bytes, m)[i] = bytes[i]
<1>. DEFINE k == Min({m, Len(bytes)})
<1>1. k = IF m <= Len(bytes) THEN m ELSE Len(bytes)
  BY MinOfTwo
<1>. HIDE DEF k
<1>2. k \in 0..Len(bytes) /\ k \in Nat
  BY <1>1
<1>3. SubSeq(bytes, 1, k) \in Seq(Byte) /\ Len(SubSeq(bytes, 1, k)) = k
  BY <1>2
<1>4. \A i \in 1..k : SubSeq(bytes, 1, k)[i] = bytes[i]
  BY <1>2
<1>. QED
  BY <1>1, <1>3, <1>4 DEF Prefix, k

\* What a prefix of the bytes decodes to ends no later than what they all do,
\* and no earlier than the last two bytes of it when they all decode.
LEMMA PrefixDecodes ==
  ASSUME NEW bytes \in Seq(Byte), NEW m \in Nat
  PROVE  /\ Decode(Prefix(bytes, m)).bad <= Decode(bytes).bad
         /\ Decodes(bytes) => Decode(Prefix(bytes, m)).bad >= Len(Prefix(bytes, m)) - 2
<1>. DEFINE n == Len(bytes)
            sample == Prefix(bytes, m)
            k == Len(sample)
<1>0. /\ sample \in Seq(Byte) /\ k \in 0..n /\ n \in Nat /\ k \in Nat
      /\ \A i \in 1..k : sample[i] = bytes[i]
  <2>1. /\ sample \in Seq(Byte) /\ k = IF m <= n THEN m ELSE n
        /\ \A i \in 1..k : sample[i] = bytes[i]
    BY PrefixIs
  <2>2. n \in Nat
    OBVIOUS
  <2>. HIDE DEF sample, k
  <2>. QED
    BY <2>1, <2>2
<1>. HIDE DEF sample
<1>1. PICK whole : Decoding(bytes, whole) /\ Decode(bytes) = whole[1]
  BY DecodingExists
<1>2. PICK part : Decoding(sample, part) /\ Decode(sample) = part[1]
  BY <1>0, DecodingExists
<1>3. \A i \in 1..n + 1 : whole[i].bad \in i - 1..n
  BY <1>1, DecodingStops
<1>4. \A i \in 1..k + 1 : part[i].bad \in i - 1..k
  BY <1>0, <1>2, DecodingStops
<1>5. \A i \in 1..k : bytes[i] \in Byte /\ Width(bytes[i]) \in 1..3 /\ sample[i] = bytes[i]
  <2>1. \A i \in 1..k : bytes[i] \in Byte
    BY <1>0
  <2>. QED
    BY <1>0, <2>1, ByteIs
<1>. DEFINE G == {i \in 1..k + 1 : /\ part[i].bad <= whole[i].bad
                                   /\ whole[i].bad = n => part[i].bad >= k - 2}
<1>6. ASSUME NEW i \in 1..k + 1, \A q \in i + 1..k + 1 : q \in G PROVE i \in G
  <2>0. /\ i \in Int /\ part[i].bad \in i - 1..k /\ whole[i].bad \in i - 1..n
        /\ part[i].bad \in Int /\ whole[i].bad \in Int
    BY <1>0, <1>3, <1>4
  <2>. HIDE DEF G, k, n
  <2>1. CASE i = k + 1
    <3>1. part[i].bad = k
      BY <1>0, <2>0, <2>1
    <3>. QED
      BY <1>0, <2>0, <2>1, <3>1 DEF G
  <2>2. CASE i <= k /\ WholeAt(sample, i)
    <3>. DEFINE w == Width(bytes[i])
    <3>0. i \in 1..k /\ sample[i] = bytes[i] /\ w \in 1..3
      BY <1>0, <1>5, <2>0, <2>2
    <3>1. /\ bytes[i] # "cont" /\ i + w - 1 <= k
          /\ \A j \in i + 1..i + w - 1 : sample[j] = "cont"
      BY <2>2, <3>0 DEF WholeAt, k
    <3>. HIDE DEF w
    <3>2. \A j \in i + 1..i + w - 1 : bytes[j] = "cont"
      <4>1. \A j \in i + 1..i + w - 1 : j \in 1..k
        BY <1>0, <3>0, <3>1
      <4>. QED
        BY <1>0, <3>1, <4>1
    <3>3. WholeAt(bytes, i)
      <4>1. i + w - 1 <= n
        BY <1>0, <3>0, <3>1
      <4>. QED
        BY <3>1, <3>2, <4>1 DEF WholeAt, w, n
    <3>4. i + w \in i + 1..k + 1 /\ i # k + 1 /\ i # n + 1
      BY <1>0, <3>0, <3>1
    <3>5. part[i].bad = part[i + w].bad
      BY <1>2, <2>2, <3>0, <3>4 DEF Decoding, k, w
    <3>6. whole[i].bad = whole[i + w].bad
      <4>1. i \in 1..n + 1
        BY <1>0, <3>0
      <4>. QED
        BY <1>1, <3>3, <3>4, <4>1 DEF Decoding, n, w
    <3>7. i + w \in G
      BY <1>6, <3>4
    <3>. QED
      BY <3>5, <3>6, <3>7 DEF G
  <2>3. CASE i <= k /\ ~WholeAt(sample, i)
    <3>. DEFINE w == Width(bytes[i])
    <3>0. i \in 1..k /\ i \in 1..k + 1 /\ i \in 1..n + 1 /\ i <= n /\ sample[i] = bytes[i]
          /\ w \in 1..3
      BY <1>0, <1>5, <2>0, <2>3
    <3>1. part[i].bad = i - 1
      BY <1>2, <2>3, <3>0 DEF Decoding, k
    <3>2. part[i].bad <= whole[i].bad
      BY <2>0, <3>1
    <3>3. ASSUME whole[i].bad = n PROVE i - 1 >= k - 2
      <4>1. WholeAt(bytes, i)
        <5>1. whole[i].bad # i - 1
          BY <1>0, <3>0, <3>3
        <5>. QED
          BY <1>1, <3>0, <5>1 DEF Decoding, n
      <4>2. ~(i + w - 1 <= k)
        <5>. SUFFICES ASSUME i + w - 1 <= k PROVE FALSE
          OBVIOUS
        <5>. HIDE DEF w
        <5>1. /\ bytes[i] # "cont"
              /\ \A j \in i + 1..i + w - 1 : bytes[j] = "cont"
          BY <4>1 DEF WholeAt, w
        <5>2. \A j \in i + 1..i + w - 1 : j \in 1..k
          BY <1>0, <3>0
        <5>3. \A j \in i + 1..i + w - 1 : sample[j] = "cont"
          BY <1>0, <5>1, <5>2
        <5>. QED
          BY <2>3, <3>0, <5>1, <5>3 DEF WholeAt, w, k
      <4>. QED
        BY <1>0, <3>0, <4>2
    <3>. QED
      BY <2>0, <3>1, <3>2, <3>3 DEF G
  <2>. QED
    BY <1>0, <2>0, <2>1, <2>2, <2>3
<1>7. 1 \in G
  <2>1. \A i \in 1..k + 1 : (\A q \in i + 1..k + 1 : q \in G) => i \in G
    BY <1>6
  <2>2. 1 \in Int /\ k + 1 \in Int /\ 1 \in 1..k + 1
    BY <1>0
  <2>. HIDE DEF G, k
  <2>. QED
    BY <2>1, <2>2, Descend
<1>. QED
  BY <1>1, <1>2, <1>7 DEF Decodes, sample

-----------------------------------------------------------------------------
(* Sequences of sequences, laid end to end by FlattenSeq.                  *)

LEMMA ConcatIs ==
  ASSUME NEW S, NEW s \in Seq(S), NEW t \in Seq(S)
  PROVE  /\ s \o t \in Seq(S) /\ Len(s \o t) = Len(s) + Len(t)
         /\ \A k \in 1..Len(s) : (s \o t)[k] = s[k]
         /\ \A k \in 1..Len(s \o t) : k \notin 1..Len(s) =>
              /\ k - Len(s) \in 1..Len(t)
              /\ (s \o t)[k] = t[k - Len(s)]
<1>1. Len(s) \in Nat /\ Len(t) \in Nat
  OBVIOUS
<1>2. /\ Len(s \o t) = Len(s) + Len(t)
      /\ \A k \in 1..Len(s) + Len(t) :
           (s \o t)[k] = IF k <= Len(s) THEN s[k] ELSE t[k - Len(s)]
  BY ConcatProperties
<1>. QED
  BY <1>1, <1>2

\* A sequence of sequences is flattened from its first one on.
LEMMA FlattenIs ==
  ASSUME NEW S, NEW seqs \in Seq(Seq(S)), Len(seqs) > 0
  PROVE  \E f \in [1..Len(seqs) -> Seq(S)] :
           /\ FlattenSeq(seqs) = f[Len(seqs)] /\ f[1] = seqs[1]
           /\ \A i \in 2..Len(seqs) : f[i] = f[i - 1] \o seqs[i]
<1>. DEFINE n == Len(seqs)
            D == 1..n
            T == Seq(S)
            Flat(g, i) == IF i = 1 THEN seqs[i] ELSE g[i - 1] \o seqs[i]
            rank == [i \in D |-> i]
            Rec == [i \in D |-> [g \in [D -> T] |-> Flat(g, i)]]
            chosen == CHOOSE f : f = [i \in D |-> Flat(f, i)]
<1>0. n \in Nat /\ n > 0 /\ \A i \in D : i \in Int /\ (i = 1 \/ i - 1 \in D) /\ seqs[i] \in T
  OBVIOUS
<1>1. FlattenSeq(seqs) = chosen[n]
  BY DEF FlattenSeq
<1>a. \A s, t \in T : s \o t \in T
  OBVIOUS
<1>b. T # {}
  <2>1. <<>> \in T
    OBVIOUS
  <2>. QED
    BY <2>1
<1>2. rank \in [D -> 0..n] /\ \A i \in D : rank[i] = i
  BY <1>0
<1>. HIDE DEF T, n
<1>3. \A i \in D, g \in [D -> T] : Flat(g, i) \in T
  BY <1>0, <1>a
<1>4. Rec \in [D -> [[D -> T] -> T]] /\ \A i \in D, g \in [D -> T] : Rec[i][g] = Flat(g, i)
  BY <1>3
<1>5. \A i \in D : \A g, h \in [D -> T] :
        (\A q \in D : rank[q] < rank[i] => g[q] = h[q]) => Rec[i][g] = Rec[i][h]
  <2>. SUFFICES ASSUME NEW i \in D, NEW g \in [D -> T], NEW h \in [D -> T],
                       \A q \in D : rank[q] < rank[i] => g[q] = h[q]
                PROVE  Flat(g, i) = Flat(h, i)
    BY <1>4
  <2>1. i # 1 => rank[i - 1] < rank[i]
    BY <1>0, <1>2
  <2>. QED
    BY <1>0, <2>1
<1>6. PICK f \in [D -> T] : \A i \in D : f[i] = Rec[i][f]
  <2>. HIDE DEF D, rank, Rec
  <2>1. Recursive(D, n, rank, T, Rec)
    BY <1>0, <1>b, <1>2, <1>4, <1>5 DEF Recursive
  <2>. QED
    BY <2>1, RecursionExists
<1>7. f = [i \in D |-> Flat(f, i)]
  BY <1>4, <1>6
<1>8. chosen = [i \in D |-> Flat(chosen, i)]
  BY <1>7
<1>. HIDE DEF chosen
<1>9. \A i \in D : chosen[i] = Flat(chosen, i)
  BY <1>8
<1>10. \A i \in D : chosen[i] \in T
  <2>. DEFINE G == {i \in D : chosen[i] \in T}
  <2>1. ASSUME NEW i \in 1..n, \A q \in 1..i - 1 : q \in G PROVE i \in G
    <3>1. CASE i = 1
      BY <1>0, <1>9, <3>1
    <3>2. CASE i # 1
      <4>1. i - 1 \in 1..i - 1 /\ i \in D
        BY <3>2
      <4>2. chosen[i - 1] \in T
        BY <2>1, <4>1
      <4>. QED
        BY <1>0, <1>9, <1>a, <3>2, <4>1, <4>2
    <3>. QED
      BY <3>1, <3>2
  <2>2. \A i \in 1..n : i \in G
    <3>1. \A i \in 1..n : (\A q \in 1..i - 1 : q \in G) => i \in G
      BY <2>1
    <3>2. 1 \in Int /\ n \in Int
      BY <1>0
    <3>. HIDE DEF G
    <3>. QED
      BY <3>1, <3>2, Ascend
  <2>. QED
    BY <2>2
<1>11. chosen \in [D -> T]
  <2>1. chosen = [i \in D |-> chosen[i]]
    BY <1>8, Zenon
  <2>. QED
    BY <1>10, <2>1
<1>12. /\ chosen[1] = seqs[1]
       /\ \A i \in 2..n : chosen[i] = chosen[i - 1] \o seqs[i]
  <2>1. 1 \in D /\ \A i \in 2..n : i \in D /\ i # 1
    BY <1>0
  <2>. QED
    BY <1>9, <2>1
<1>. QED
  BY <1>1, <1>11, <1>12 DEF T, n

\* Flattening keeps the elements it is given and adds none.
LEMMA FlattenHolds ==
  ASSUME NEW S, NEW seqs \in Seq(Seq(S))
  PROVE  /\ FlattenSeq(seqs) \in Seq(S)
         /\ \A k \in 1..Len(FlattenSeq(seqs)) :
              \E i \in 1..Len(seqs) : \E j \in 1..Len(seqs[i]) : FlattenSeq(seqs)[k] = seqs[i][j]
<1>1. CASE Len(seqs) = 0
  <2>1. FlattenSeq(seqs) = seqs
    BY <1>1 DEF FlattenSeq
  <2>2. seqs = <<>>
    BY <1>1
  <2>. QED
    BY <2>1, <2>2
<1>2. CASE Len(seqs) > 0
  <2>1. PICK f \in [1..Len(seqs) -> Seq(S)] :
           /\ FlattenSeq(seqs) = f[Len(seqs)] /\ f[1] = seqs[1]
           /\ \A i \in 2..Len(seqs) : f[i] = f[i - 1] \o seqs[i]
    BY <1>2, FlattenIs
  <2>. DEFINE n == Len(seqs)
              Found(x, m) == \E i \in 1..m : \E j \in 1..Len(seqs[i]) : x = seqs[i][j]
              G == {m \in 1..n : \A k \in 1..Len(f[m]) : Found(f[m][k], m)}
  <2>2. ASSUME NEW m \in 1..n, \A q \in 1..m - 1 : q \in G PROVE m \in G
    <3>1. CASE m = 1
      BY <2>1, <3>1
    <3>2. CASE m # 1
      <4>1. m - 1 \in 1..m - 1 /\ m \in 2..n /\ m - 1 \in 1..n /\ m \in 1..m
        BY <3>2
      <4>2. f[m] = f[m - 1] \o seqs[m] /\ f[m - 1] \in Seq(S) /\ seqs[m] \in Seq(S)
        <5>1. f[m - 1] \in Seq(S)
          BY <2>1, <4>1
        <5>2. seqs[m] \in Seq(S)
          OBVIOUS
        <5>. QED
          BY <2>1, <4>1, <5>1, <5>2
      <4>3. \A k \in 1..Len(f[m - 1]) : Found(f[m - 1][k], m - 1)
        BY <2>2, <4>1
      <4>4. \A x : Found(x, m - 1) => Found(x, m)
        BY <4>1
      <4>5. \A j \in 1..Len(seqs[m]) : Found(seqs[m][j], m)
        BY <4>1
      <4>. HIDE DEF Found
      <4>6. ASSUME NEW k \in 1..Len(f[m]) PROVE Found(f[m][k], m)
        <5>1. /\ k \in 1..Len(f[m - 1]) => f[m][k] = f[m - 1][k]
              /\ k \notin 1..Len(f[m - 1]) =>
                   /\ k - Len(f[m - 1]) \in 1..Len(seqs[m])
                   /\ f[m][k] = seqs[m][k - Len(f[m - 1])]
          <6>. DEFINE a == f[m - 1]
                      b == seqs[m]
          <6>1. a \in Seq(S) /\ b \in Seq(S) /\ f[m] = a \o b /\ k \in 1..Len(f[m])
            BY <4>2
          <6>. HIDE DEF a, b
          <6>2. /\ k \in 1..Len(a) => f[m][k] = a[k]
                /\ k \notin 1..Len(a) =>
                     /\ k - Len(a) \in 1..Len(b)
                     /\ f[m][k] = b[k - Len(a)]
            BY <6>1, ConcatIs
          <6>. QED
            BY <6>2 DEF a, b
        <5>. QED
          BY <4>3, <4>4, <4>5, <5>1
      <4>. QED
        BY <4>6
    <3>. QED
      BY <3>1, <3>2
  <2>3. \A m \in 1..n : m \in G
    <3>1. \A m \in 1..n : (\A q \in 1..m - 1 : q \in G) => m \in G
      BY <2>2
    <3>2. 1 \in Int /\ n \in Int
      OBVIOUS
    <3>. HIDE DEF G, n
    <3>. QED
      BY <3>1, <3>2, Ascend
  <2>4. n \in 1..n
    BY <1>2
  <2>5. f[n] \in Seq(S) /\ \A k \in 1..Len(f[n]) : Found(f[n][k], n)
    BY <2>3, <2>4
  <2>. QED
    BY <2>1, <2>5
<1>. QED
  BY <1>1, <1>2

-----------------------------------------------------------------------------
(* What the parsers leave of a file: pages joined, front matter stripped,  *)
(* a text decoded.                                                         *)

LEMMA JoinedIs ==
  ASSUME NEW parts \in Seq(Seq(Char))
  PROVE  /\ Joined(parts) \in Seq(Char)
         /\ "nul" \in ToSet(Joined(parts)) =>
              \E i \in 1..Len(parts) : "nul" \in ToSet(parts[i])
<1>. DEFINE n == Len(parts)
            seqs == [i \in 1..n |-> IF i = 1 THEN parts[i] ELSE PageSeparator \o parts[i]]
<1>0. n \in Nat
  OBVIOUS
<1>1. \A i \in 1..n : parts[i] \in Seq(Char)
  OBVIOUS
<1>2. PageSeparator \in Seq(Char) /\ \A k \in 1..Len(PageSeparator) : PageSeparator[k] = "\n"
  BY DEF PageSeparator, Char, Space
<1>3. \A i \in 1..n : /\ seqs[i] \in Seq(Char)
                      /\ \A k \in 1..Len(seqs[i]) : seqs[i][k] = "nul" => "nul" \in ToSet(parts[i])
  <2>. TAKE i \in 1..n
  <2>1. \A k \in 1..Len(parts[i]) : parts[i][k] \in ToSet(parts[i])
    BY DEF ToSet
  <2>2. CASE i = 1
    BY <1>1, <2>1, <2>2
  <2>3. CASE i # 1
    <3>. DEFINE s == PageSeparator \o parts[i]
    <3>1. seqs[i] = s
      BY <2>3
    <3>2. /\ s \in Seq(Char)
          /\ \A k \in 1..Len(PageSeparator) : s[k] = PageSeparator[k]
          /\ \A k \in 1..Len(s) : k \notin 1..Len(PageSeparator) =>
               /\ k - Len(PageSeparator) \in 1..Len(parts[i])
               /\ s[k] = parts[i][k - Len(PageSeparator)]
      BY <1>1, <1>2, ConcatIs
    <3>3. \A k \in 1..Len(s) : s[k] = "nul" => "nul" \in ToSet(parts[i])
      <4>. TAKE k \in 1..Len(s)
      <4>. HAVE s[k] = "nul"
      <4>1. k \notin 1..Len(PageSeparator)
        BY <1>2, <3>2
      <4>. QED
        BY <2>1, <3>2, <4>1
    <3>. QED
      BY <3>1, <3>2, <3>3
  <2>. QED
    BY <2>2, <2>3
<1>4. seqs \in Seq(Seq(Char)) /\ Len(seqs) = n
  <2>1. \A i \in 1..n : seqs[i] \in Seq(Char)
    BY <1>3
  <2>2. seqs \in [1..n -> Seq(Char)]
    BY <2>1
  <2>. QED
    BY <1>0, <2>2
<1>5. Joined(parts) = FlattenSeq(seqs)
  BY DEF Joined
<1>. HIDE DEF seqs
<1>6. /\ FlattenSeq(seqs) \in Seq(Char)
      /\ \A k \in 1..Len(FlattenSeq(seqs)) :
           \E i \in 1..Len(seqs) : \E j \in 1..Len(seqs[i]) : FlattenSeq(seqs)[k] = seqs[i][j]
  BY <1>4, FlattenHolds
<1>7. ASSUME "nul" \in ToSet(FlattenSeq(seqs))
      PROVE  \E i \in 1..Len(parts) : "nul" \in ToSet(parts[i])
  <2>1. PICK k \in 1..Len(FlattenSeq(seqs)) : FlattenSeq(seqs)[k] = "nul"
    BY <1>6, <1>7 DEF ToSet
  <2>2. PICK i \in 1..n : \E j \in 1..Len(seqs[i]) : seqs[i][j] = "nul"
    BY <1>4, <1>6, <2>1
  <2>. QED
    BY <1>3, <2>2
<1>. QED
  BY <1>5, <1>6, <1>7

LEMMA FenceEndIs ==
  ASSUME NEW text \in Seq(Char), NEW p \in 0..Len(text), NEW closing
  PROVE  FenceEnd(text, p, closing) \in p..Len(text)
<1>. DEFINE q == RunEnd(text, p + 3, Blank)
            r == IF At(text, q) = "\r" /\ At(text, q + 1) = "\n" THEN q + 1 ELSE q
<1>1. CASE \E i \in p..p + 2 : At(text, i) # "-"
  BY <1>1 DEF FenceEnd
<1>2. CASE \A i \in p..p + 2 : At(text, i) = "-"
  <2>0. Blank \in SUBSET Char /\ "-" \in Char /\ "\n" \in Char
    BY DEF Char, Space, Blank
  <2>1. p + 3 \in 0..Len(text)
    <3>1. At(text, p + 2) \in Char
      BY <1>2, <2>0
    <3>2. p + 2 \in Int
      OBVIOUS
    <3>3. p + 2 \in 0..Len(text) - 1
      BY <3>1, <3>2, AtIs
    <3>. QED
      BY <3>3
  <2>2. q \in p + 3..Len(text)
    BY <2>0, <2>1, RunEndIs
  <2>. HIDE DEF q
  <2>3. r \in Int /\ r >= p + 3
    BY <2>2
  <2>4. At(text, r) = "\n" => r <= Len(text) - 1
    <3>. HIDE DEF r
    <3>1. At(text, r) = "\n" => r \in 0..Len(text) - 1
      BY <2>0, <2>3, AtIs
    <3>. QED
      BY <3>1
  <2>5. FenceEnd(text, p, closing)
          = IF At(text, r) = "\n" THEN r + 1
            ELSE IF closing /\ q = Len(text) THEN q ELSE p
    <3>1. ~\E i \in p..p + 2 : At(text, i) # "-"
      BY <1>2
    <3>. QED
      BY <3>1 DEF FenceEnd, q
  <2>. HIDE DEF r
  <2>. QED
    BY <2>2, <2>3, <2>4, <2>5
<1>. QED
  BY <1>1, <1>2

LEMMA FrontMatterEndIs ==
  ASSUME NEW text \in Seq(Char)
  PROVE  FrontMatterEnd(text) \in 0..Len(text)
<1>. DEFINE n == Len(text)
            C == ClosingFences(text)
<1>0. n \in Nat
  OBVIOUS
<1>1. FenceEnd(text, 0, FALSE) \in 0..n
  <2>1. 0 \in 0..n
    BY <1>0
  <2>. QED
    BY <2>1, FenceEndIs
<1>2. C \in SUBSET (0..n)
  <2>. DEFINE body == FenceEnd(text, 0, FALSE)
  <2>1. body \in 0..n
    BY <1>1
  <2>2. \A p \in C : p \in body + 1..n - 3
    BY DEF ClosingFences
  <2>. HIDE DEF body, C
  <2>3. \A p \in C : p \in 0..n
    BY <1>0, <2>1, <2>2
  <2>. QED
    BY <2>3
<1>3. CASE C = {}
  BY <1>0, <1>3 DEF FrontMatterEnd
<1>4. CASE C # {}
  <2>1. Min(C) \in C
    <3>1. C \in SUBSET Int /\ 0 \in Int /\ \A x \in C : 0 <= x
      BY <1>0, <1>2
    <3>. HIDE DEF C
    <3>. QED
      BY <1>4, <3>1, MinIs
  <2>2. Min(C) \in 0..n
    BY <1>2, <2>1
  <2>. DEFINE p == Min(C)
  <2>3. p \in 0..n
    BY <2>2
  <2>4. FrontMatterEnd(text) = FenceEnd(text, p, TRUE)
    BY <1>4 DEF FrontMatterEnd
  <2>. HIDE DEF p
  <2>5. FenceEnd(text, p, TRUE) \in p..n
    BY <2>3, FenceEndIs
  <2>6. \A x \in p..n : x \in 0..n
    BY <1>0, <2>3
  <2>. QED
    BY <2>4, <2>5, <2>6, Zenon
<1>. QED
  BY <1>3, <1>4

\* The end of a text is made of its characters.
LEMMA SuffixIs ==
  ASSUME NEW text \in Seq(Char), NEW e \in 0..Len(text)
  PROVE  /\ Slice(text, e, Len(text)) \in Seq(Char)
         /\ ToSet(Slice(text, e, Len(text))) \subseteq ToSet(text)
<1>. DEFINE s == SubSeq(text, e + 1, Len(text))
<1>1. e + 1 \in 1..Len(text) + 1 /\ Len(text) \in (e + 1) - 1..Len(text)
  OBVIOUS
<1>2. s \in Seq(Char) /\ Len(s) = Len(text) - e
  BY <1>1
<1>3. \A i \in 1..Len(s) : e + i \in 1..Len(text) /\ s[i] = text[e + i]
  BY <1>1
<1>4. ToSet(s) \subseteq ToSet(text)
  BY <1>2, <1>3 DEF ToSet
<1>. QED
  BY <1>2, <1>4 DEF Slice

LEMMA DecodeTextIs ==
  ASSUME NEW bytes \in Seq(Byte)
  PROVE  /\ DecodeText(bytes) \in Seq(Char)
         /\ "nul" \in ToSet(DecodeText(bytes)) => \E i \in 1..Len(bytes) : bytes[i] = "nul"
<1>. DEFINE text == Decode(bytes).text
<1>1. text \in Seq(Char)
  BY DecodeIs
<1>2. WithoutMark(text) \in Seq(Char) /\ ToSet(WithoutMark(text)) \subseteq ToSet(text)
  <2>1. CASE At(text, 0) = "bom"
    <3>0. "bom" \in Char
      BY DEF Char, Invisible
    <3>1. 0 \in 0..Len(text) - 1
      BY <1>1, <2>1, <3>0, AtIs
    <3>2. text # <<>>
      BY <3>1
    <3>. HIDE DEF text
    <3>3. Tail(text) \in Seq(Char) /\ Len(Tail(text)) = Len(text) - 1
          /\ \A i \in 1..Len(Tail(text)) : Tail(text)[i] = text[i + 1]
      BY <1>1, <3>2
    <3>4. ToSet(Tail(text)) \subseteq ToSet(text)
      <4>1. \A i \in 1..Len(Tail(text)) : i + 1 \in 1..Len(text)
        BY <1>1, <3>3
      <4>. QED
        BY <1>1, <3>3, <4>1 DEF ToSet
    <3>. QED
      BY <2>1, <3>3, <3>4 DEF WithoutMark
  <2>2. CASE At(text, 0) # "bom"
    BY <1>1, <2>2 DEF WithoutMark
  <2>. QED
    BY <2>1, <2>2
<1>. QED
  BY <1>2, NulDecoded DEF DecodeText

-----------------------------------------------------------------------------
(* Intake.  What read_upload and detect_document_type leave behind is what *)
(* they were given: IntakeInv says which state a file is in at each stage. *)

Early == {"read", "check", "extract"}

\* How far a file is read and what is known of it at each stage.
IntakeInv ==
  /\ file \in Files /\ failed \in BOOLEAN /\ stage \in Stages
  /\ read \in 0..Len(file.bytes) /\ read <= Limit
  /\ stage = "read" /\ failed => Len(file.bytes) > Limit
  /\ stage # "read" => read = Len(file.bytes)
  /\ type = IF stage = "read" \/ (stage = "check" /\ ~failed) THEN "none"
            ELSE DetectDocumentType(file)
  /\ stage = "check" => type = "none"
  /\ stage \notin {"read", "check"} => type # "none"
  /\ stage \in Early => extracted = [text |-> <<>>, parts |-> <<>>]
  /\ stage \notin Early => extracted = Parsed /\ (type # "pdf" => Decodes(file.bytes))
  /\ stage = "extract" /\ failed => (type # "pdf" /\ ~Decodes(file.bytes)) \/ IsBlank(Parsed.text)

LEMMA FileIs ==
  ASSUME NEW f \in Files
  PROVE  /\ f.bytes \in Seq(Byte) /\ f.pages \in Seq(Seq(Char)) /\ f.markdown \in BOOLEAN
         /\ DetectDocumentType(f) \in {"none", "pdf", "text", "markdown"}
BY IntakeAssumption DEF DetectDocumentType

\* A text type is that of bytes whose beginning looks like text.
LEMMA DetectedText ==
  ASSUME NEW f \in Files, DetectDocumentType(f) \in {"text", "markdown"}
  PROVE  LooksLikeText(f.bytes)
BY DEF DetectDocumentType

LEMMA DetectedNone ==
  ASSUME NEW f \in Files, DetectDocumentType(f) = "none"
  PROVE  f.bytes = <<>> \/ ~LooksLikeText(f.bytes)
BY DEF DetectDocumentType

LEMMA ParsedIs ==
  ASSUME IntakeInv, type # "none"
  PROVE  /\ type \in {"pdf", "text", "markdown"}
         /\ Parsed.text \in Seq(Char) /\ Parsed.parts \in Seq(Seq(Char))
         /\ "nul" \in ToSet(Parsed.text) =>
              IF type = "pdf" THEN \E i \in 1..Len(file.pages) : "nul" \in ToSet(file.pages[i])
              ELSE \E i \in 1..Len(file.bytes) : file.bytes[i] = "nul"
<1>0. file \in Files
  BY DEF IntakeInv
<1>1. type \in {"none", "pdf", "text", "markdown"}
  <2>1. DetectDocumentType(file) \in {"none", "pdf", "text", "markdown"}
    BY <1>0, FileIs
  <2>2. type = "none" \/ type = DetectDocumentType(file)
    BY DEF IntakeInv
  <2>. QED
    BY <2>1, <2>2
<1>2. file.bytes \in Seq(Byte) /\ file.pages \in Seq(Seq(Char))
  BY <1>0, FileIs
<1>3. <<>> \in Seq(Seq(Char))
  OBVIOUS
<1>4. CASE type = "pdf"
  <2>1. Parsed = [text |-> Joined(file.pages), parts |-> file.pages]
    BY <1>4 DEF Parsed
  <2>. QED
    BY <1>2, <1>4, <2>1, JoinedIs
<1>5. CASE type = "text"
  <2>1. Parsed = [text |-> DecodeText(file.bytes), parts |-> <<>>]
    BY <1>5 DEF Parsed
  <2>. QED
    BY <1>2, <1>3, <1>5, <2>1, DecodeTextIs
<1>6. CASE type = "markdown"
  <2>. DEFINE raw == DecodeText(file.bytes)
              kept == Slice(raw, FrontMatterEnd(raw), Len(raw))
  <2>1. Parsed = [text |-> kept, parts |-> <<>>]
    BY <1>6 DEF Parsed
  <2>2. raw \in Seq(Char)
        /\ ("nul" \in ToSet(raw) => \E i \in 1..Len(file.bytes) : file.bytes[i] = "nul")
    BY <1>2, DecodeTextIs
  <2>. HIDE DEF raw
  <2>3. kept \in Seq(Char) /\ ToSet(kept) \subseteq ToSet(raw)
    <3>1. FrontMatterEnd(raw) \in 0..Len(raw)
      BY <2>2, FrontMatterEndIs
    <3>. QED
      BY <2>2, <3>1, SuffixIs
  <2>. HIDE DEF kept
  <2>4. Parsed.text = kept /\ Parsed.parts = <<>>
    BY <2>1
  <2>5. type # "pdf"
    BY <1>6
  <2>. QED
    BY <1>1, <1>3, <1>6, <2>2, <2>3, <2>4, <2>5
<1>. QED
  BY <1>1, <1>4, <1>5, <1>6

\* What comes after the text is extracted changes nothing about the file.
Onwards ==
  /\ UNCHANGED <<file, read, type, extracted>>
  /\ stage \in Stages \ Early /\ stage' \in Stages \ Early /\ failed' \in BOOLEAN

LEMMA OnwardsKeepsIntake ==
  ASSUME IntakeInv, Onwards
  PROVE  IntakeInv'
<1>1. Parsed' = Parsed
  BY DEF Onwards, Parsed
<1>2. stage' \notin {"read", "check", "extract"} /\ stage \notin {"read", "check", "extract"}
  BY DEF Onwards, Early
<1>. QED
  BY <1>1, <1>2 DEF Onwards, IntakeInv, Early, Stages

LEMMA IntakeStep ==
  ASSUME IntakeInv, IntakeNext
  PROVE  IntakeInv'
<1>0. /\ file \in Files /\ file.bytes \in Seq(Byte) /\ Len(file.bytes) \in Nat
      /\ read \in 0..Len(file.bytes) /\ read <= Limit
      /\ Limit \in Nat /\ ReadBytes \in Nat /\ ReadBytes # 0
  BY FileIs, IntakeAssumption DEF IntakeInv
<1>1. CASE ReadUpload
  <2>. DEFINE chunk == Min({ReadBytes, Len(file.bytes) - read})
  <2>1. chunk = IF ReadBytes <= Len(file.bytes) - read THEN ReadBytes ELSE Len(file.bytes) - read
    BY <1>0, MinOfTwo
  <2>. HIDE DEF chunk
  <2>2. chunk \in 0..Len(file.bytes) - read /\ (chunk = 0 => read = Len(file.bytes))
    BY <1>0, <2>1
  <2>3. /\ Doing("read") /\ UNCHANGED <<file, type, extracted>>
        /\ \/ chunk = 0 /\ stage' = "check" /\ UNCHANGED <<read, failed>>
           \/ chunk > 0 /\ Keeps(chunk) /\ read' = read + chunk /\ UNCHANGED <<stage, failed>>
           \/ chunk > 0 /\ ~Keeps(chunk) /\ failed' = TRUE /\ UNCHANGED <<stage, read>>
    BY <1>1 DEF ReadUpload, chunk
  <2>4. CASE chunk = 0 /\ stage' = "check" /\ UNCHANGED <<read, failed>>
    BY <1>0, <2>2, <2>3, <2>4 DEF IntakeInv, Doing, Stages, Early
  <2>5. CASE chunk > 0 /\ Keeps(chunk) /\ read' = read + chunk /\ UNCHANGED <<stage, failed>>
    <3>1. read' \in 0..Len(file.bytes) /\ read' <= Limit
      BY <1>0, <2>2, <2>5 DEF Keeps
    <3>. QED
      BY <2>3, <2>5, <3>1 DEF IntakeInv, Doing, Stages, Early
  <2>6. CASE chunk > 0 /\ ~Keeps(chunk) /\ failed' = TRUE /\ UNCHANGED <<stage, read>>
    <3>1. Len(file.bytes) > Limit
      BY <1>0, <2>2, <2>6 DEF Keeps
    <3>. QED
      BY <1>0, <2>3, <2>6, <3>1 DEF IntakeInv, Doing, Stages, Early
  <2>. QED
    BY <2>3, <2>4, <2>5, <2>6
<1>2. CASE CheckUpload
  <2>. DEFINE detected == DetectDocumentType(file)
  <2>1. type' = detected /\ UNCHANGED <<file, read, extracted>> /\ Doing("check")
        /\ IF detected = "none" THEN failed' = TRUE /\ UNCHANGED stage
           ELSE stage' = "extract" /\ UNCHANGED failed
    BY <1>2 DEF CheckUpload
  <2>2. detected' = detected
    BY <2>1
  <2>. HIDE DEF detected
  <2>. QED
    BY <1>0, <2>1, <2>2 DEF IntakeInv, Doing, Stages, Early, detected
<1>3. CASE Extract
  <2>1. Parsed' = Parsed
    BY <1>3 DEF Extract, Parsed
  <2>2. /\ UNCHANGED <<file, read, type>> /\ Doing("extract")
        /\ \/ /\ type # "pdf" => Decodes(file.bytes)
              /\ extracted' = Parsed /\ stage' = "clean" /\ UNCHANGED failed
           \/ /\ (type # "pdf" /\ ~Decodes(file.bytes)) \/ IsBlank(Parsed.text)
              /\ failed' = TRUE /\ UNCHANGED <<stage, extracted>>
    BY <1>3 DEF Extract
  <2>3. CASE /\ type # "pdf" => Decodes(file.bytes)
             /\ extracted' = Parsed /\ stage' = "clean" /\ UNCHANGED failed
    BY <1>0, <2>1, <2>2, <2>3 DEF IntakeInv, Doing, Stages, Early
  <2>4. CASE /\ (type # "pdf" /\ ~Decodes(file.bytes)) \/ IsBlank(Parsed.text)
             /\ failed' = TRUE /\ UNCHANGED <<stage, extracted>>
    BY <1>0, <2>1, <2>2, <2>4 DEF IntakeInv, Doing, Stages, Early
  <2>. QED
    BY <2>2, <2>3, <2>4
<1>. QED
  BY <1>1, <1>2, <1>3 DEF IntakeNext

LEMMA IntakeKept ==
  ASSUME IntakeInv, [Next]_vars
  PROVE  IntakeInv'
<1>1. CASE UNCHANGED vars
  <2>1. Parsed' = Parsed /\ UNCHANGED intakeVars
    BY <1>1 DEF vars, intakeVars, Parsed
  <2>. QED
    BY <2>1 DEF IntakeInv, intakeVars
<1>2. CASE IntakeNext
  BY <1>2, IntakeStep
<1>3. CASE Clean \/ SplitText \/ PackPiece \/ PackRest \/ Persist \/ EmbedBatch \/ EmbedEnd
  <2>0. failed \in BOOLEAN
    BY DEF IntakeInv
  <2>. USE DEF Onwards, Stages, Early, Doing
  <2>1. CASE Clean
    BY <2>0, <2>1, OnwardsKeepsIntake DEF Clean
  <2>2. CASE SplitText
    BY <2>0, <2>2, OnwardsKeepsIntake DEF SplitText
  <2>3. CASE PackPiece
    BY <2>0, <2>3, OnwardsKeepsIntake DEF PackPiece, intakeVars
  <2>4. CASE PackRest
    BY <2>0, <2>4, OnwardsKeepsIntake DEF PackRest
  <2>5. CASE Persist
    BY <2>0, <2>5, OnwardsKeepsIntake DEF Persist
  <2>6. CASE EmbedBatch
    BY <2>0, <2>6, OnwardsKeepsIntake DEF EmbedBatch
  <2>7. CASE EmbedEnd
    BY <2>0, <2>7, OnwardsKeepsIntake DEF EmbedEnd
  <2>. QED
    BY <1>3, <2>1, <2>2, <2>3, <2>4, <2>5, <2>6, <2>7
<1>. QED
  BY <1>1, <1>2, <1>3 DEF Next

LEMMA IntakeAlways == Spec => []IntakeInv
<1>1. Init => IntakeInv
  <2>. SUFFICES ASSUME Init PROVE IntakeInv
    OBVIOUS
  <2>1. file \in Files /\ Limit \in Nat /\ Len(file.bytes) \in Nat
    BY FileIs, IntakeAssumption DEF Init, IntakeInit
  <2>2. 0 \in 0..Len(file.bytes) /\ 0 <= Limit
    BY <2>1
  <2>3. /\ read = 0 /\ type = "none" /\ stage = "read" /\ failed = FALSE
        /\ extracted = [text |-> <<>>, parts |-> <<>>]
    BY DEF Init, IntakeInit
  <2>. QED
    BY <2>1, <2>2, <2>3 DEF IntakeInv, Stages, Early
<1>2. IntakeInv /\ [Next]_vars => IntakeInv'
  BY IntakeKept
<1>. QED
  BY <1>1, <1>2, PTL DEF Spec

\* The upload limit is exact, however the chunks of the request fall.
THEOREM LimitExact == Spec => []CapExact
<1>1. IntakeInv => CapExact
  BY DEF IntakeInv, CapExact
<1>. QED
  BY <1>1, IntakeAlways, PTL

\* Text is accepted wherever the sample cuts it.
THEOREM TextGoesOn == Spec => []TextAccepted
<1>1. IntakeInv => TextAccepted
  <2>. SUFFICES ASSUME IntakeInv, stage = "check", failed, Decodes(file.bytes),
                       file.bytes # <<>>, "nul" \notin ToSet(Prefix(file.bytes, Sniff))
                PROVE  FALSE
    BY DEF TextAccepted
  <2>. DEFINE sample == Prefix(file.bytes, Sniff)
  <2>1. file \in Files /\ file.bytes \in Seq(Byte) /\ Sniff \in Nat /\ Margin \in Nat /\ Margin >= 2
    BY FileIs, IntakeAssumption DEF IntakeInv
  <2>2. DetectDocumentType(file) = "none"
    BY DEF IntakeInv
  <2>3. sample \in Seq(Byte) /\ Decode(sample).bad >= Len(sample) - 2
    BY <2>1, PrefixIs, PrefixDecodes
  <2>4. Decode(sample).bad \in Int /\ Len(sample) \in Int
    BY <2>3, DecodeIs
  <2>. HIDE DEF sample
  <2>5. Decode(sample).bad >= Len(sample) - Margin
    BY <2>1, <2>3, <2>4
  <2>6. LooksLikeText(file.bytes)
    BY <2>5 DEF LooksLikeText, sample
  <2>. QED
    BY <2>1, <2>2, <2>6, DetectedNone
<1>. QED
  BY <1>1, IntakeAlways, PTL

-----------------------------------------------------------------------------
(* The cleaned text.  CleanInv: from the split on, and not before, the     *)
(* text is that of clean_text.                                             *)

LEMMA CleanTextIs ==
  ASSUME NEW source \in Seq(Char), NEW edited, edited = Edited(source),
         NEW c, c = CleanText(source)
  PROVE  /\ edited \in Seq(Edit)
         /\ c.text \in Seq(Char) /\ Len(c.text) = Len(edited)
         /\ \A i \in 0..Len(edited) - 1 : /\ At(c.text, i) = edited[i + 1].char
                                          /\ ToSource(c.runs, i) = edited[i + 1].source
         /\ Len(edited) > 0 =>
              ToSource(c.runs, Len(edited)) = edited[Len(edited)].source + 1
<1>1. edited \in Seq(Edit)
  BY EditedRemains
<1>2. /\ c.text = [i \in 1..Len(edited) |-> edited[i].char]
      /\ c.runs = OffsetRuns(edited)
  BY DEF CleanText
<1>3. \A i \in 1..Len(edited) : edited[i].char \in Char
  <2>1. \A i \in 1..Len(edited) : edited[i] \in Edit
    BY <1>1
  <2>. QED
    BY <2>1 DEF Edit
<1>4. c.text \in Seq(Char) /\ Len(c.text) = Len(edited) /\ Len(edited) \in Nat
  BY <1>1, <1>2, <1>3
<1>5. ASSUME NEW i \in 0..Len(edited) - 1
      PROVE  At(c.text, i) = edited[i + 1].char /\ ToSource(c.runs, i) = edited[i + 1].source
  <2>1. i + 1 \in 1..Len(edited) /\ i + 1 \in 1..Len(edited) + 1 /\ (i + 1) - 1 = i
        /\ Len(edited) > 0 /\ i + 1 <= Len(edited)
    BY <1>4
  <2>2. At(c.text, i) = c.text[i + 1]
    BY <1>4 DEF At
  <2>3. ToSource(OffsetRuns(edited), (i + 1) - 1) = edited[i + 1].source
    BY <1>1, <2>1, ToSourceIs
  <2>. QED
    BY <1>2, <2>1, <2>2, <2>3
<1>6. ASSUME Len(edited) > 0
      PROVE  ToSource(c.runs, Len(edited)) = edited[Len(edited)].source + 1
  <2>1. /\ Len(edited) + 1 \in 1..Len(edited) + 1 /\ (Len(edited) + 1) - 1 = Len(edited)
        /\ ~(Len(edited) + 1 <= Len(edited))
    BY <1>4
  <2>2. ToSource(OffsetRuns(edited), (Len(edited) + 1) - 1) = edited[Len(edited)].source + 1
    BY <1>1, <1>6, <2>1, ToSourceIs
  <2>. QED
    BY <1>2, <2>1, <2>2
<1>. QED
  BY <1>1, <1>4, <1>5, <1>6

Cleaned == {"chunk", "pack", "persist", "embed", "index"}

CleanInv ==
  /\ stage \in Cleaned => clean = CleanText(Source)
  /\ stage \notin Cleaned => clean = [text |-> <<>>, runs |-> {}]

LEMMA CleanKept ==
  ASSUME IntakeInv, CleanInv, [Next]_vars
  PROVE  CleanInv'
<1>1. CASE UNCHANGED vars
  BY <1>1 DEF vars, intakeVars, runVars, CleanInv, Source
<1>2. CASE IntakeNext /\ UNCHANGED runVars
  BY <1>2 DEF IntakeNext, ReadUpload, CheckUpload, Extract, runVars, CleanInv, Cleaned, Doing
<1>3. CASE Clean
  BY <1>3 DEF Clean, CleanInv, Cleaned, Source
<1>4. CASE SplitText \/ PackPiece \/ PackRest \/ Persist \/ EmbedBatch \/ EmbedEnd
  BY <1>4 DEF SplitText, PackPiece, PackRest, Persist, EmbedBatch, EmbedEnd, Doing,
              intakeVars, runVars, CleanInv, Cleaned, Source
<1>. QED
  BY <1>1, <1>2, <1>3, <1>4 DEF Next

LEMMA CleanAlways == Spec => [](IntakeInv /\ CleanInv)
<1>1. Init => CleanInv
  BY DEF Init, IntakeInit, CleanInv, Cleaned
<1>2. IntakeInv /\ CleanInv /\ [Next]_vars => CleanInv'
  BY CleanKept
<1>. QED
  BY <1>1, <1>2, IntakeAlways, PTL DEF Spec

LEMMA SourceIs ==
  ASSUME IntakeInv
  PROVE  Source \in Seq(Char) /\ extracted.parts \in Seq(Seq(Char))
<1>1. CASE stage \in Early
  <2>1. extracted.text = <<>> /\ extracted.parts = <<>>
    BY <1>1 DEF IntakeInv
  <2>. QED
    BY <2>1 DEF Source
<1>2. CASE stage \notin Early
  <2>1. extracted = Parsed /\ type # "none"
    BY <1>2 DEF IntakeInv, Early
  <2>. QED
    BY <2>1, ParsedIs DEF Source
<1>. QED
  BY <1>1, <1>2

\* What the offsets of the cleaned text lead to, in the words of the properties.
LEMMA OffsetsAre ==
  ASSUME IntakeInv, CleanInv, stage \in Cleaned,
         NEW edited, edited = Edited(Source)
  PROVE  /\ edited \in Seq(Edit) /\ Len(edited) \in Nat
         /\ Ordered(Source, edited, 0) /\ Complete(Source, edited, 0) /\ Apart(Source, edited)
         /\ clean.text \in Seq(Char) /\ Len(clean.text) = Len(edited)
         /\ Offsets = 0..Len(edited) - 1
         /\ \A i \in Offsets : /\ i + 1 \in 1..Len(edited)
                               /\ At(clean.text, i) = edited[i + 1].char
                               /\ SourceOf(i) = edited[i + 1].source
         /\ Len(edited) > 0 => SourceOf(Len(edited)) = edited[Len(edited)].source + 1
<1>1. Source \in Seq(Char)
  BY SourceIs
<1>2. clean = CleanText(Source)
  BY DEF CleanInv
<1>3. Ordered(Source, edited, 0) /\ Complete(Source, edited, 0) /\ Apart(Source, edited)
  BY <1>1, EditedRemains
<1>4. /\ edited \in Seq(Edit)
      /\ clean.text \in Seq(Char) /\ Len(clean.text) = Len(edited)
      /\ \A i \in 0..Len(edited) - 1 : /\ At(clean.text, i) = edited[i + 1].char
                                       /\ ToSource(clean.runs, i) = edited[i + 1].source
      /\ Len(edited) > 0 =>
           ToSource(clean.runs, Len(edited)) = edited[Len(edited)].source + 1
  BY <1>1, <1>2, CleanTextIs
<1>5. Len(edited) \in Nat
  BY <1>4
<1>. QED
  BY <1>3, <1>4, <1>5 DEF Offsets, SourceOf

\* Offsets lead back to the characters they were made from, in their order.
THEOREM OffsetsLeadBack == Spec => []ProvenanceExact
<1>1. IntakeInv /\ CleanInv => ProvenanceExact
  <2>. SUFFICES ASSUME IntakeInv, CleanInv, stage = "chunk" PROVE ProvenanceExact
    BY DEF ProvenanceExact
  <2>. DEFINE edited == Edited(Source)
  <2>0. stage \in Cleaned
    BY DEF Cleaned
  <2>1. /\ edited \in Seq(Edit) /\ Len(edited) \in Nat /\ Ordered(Source, edited, 0)
        /\ Offsets = 0..Len(edited) - 1
        /\ \A i \in Offsets : /\ i + 1 \in 1..Len(edited)
                              /\ At(clean.text, i) = edited[i + 1].char
                              /\ SourceOf(i) = edited[i + 1].source
    BY <2>0, OffsetsAre
  <2>. HIDE DEF edited
  <2>2. \A i \in Offsets : Corresponds(At(Source, SourceOf(i)), At(clean.text, i))
    BY <2>1 DEF Ordered
  <2>3. ASSUME NEW i \in Offsets, i > 0 PROVE SourceOf(i - 1) < SourceOf(i)
    <3>1. i - 1 \in Offsets /\ i + 1 \in 2..Len(edited) /\ (i - 1) + 1 = (i + 1) - 1
      BY <2>1, <2>3
    <3>. QED
      BY <2>1, <3>1 DEF Ordered
  <2>. QED
    BY <2>2, <2>3 DEF ProvenanceExact
<1>. QED
  BY <1>1, CleanAlways, PTL

\* Nothing visible is lost but broken hyphens, and no words are joined.
THEOREM CleaningKeepsWords == Spec => []CleaningLossless
<1>1. IntakeInv /\ CleanInv => CleaningLossless
  <2>. SUFFICES ASSUME IntakeInv, CleanInv, stage = "chunk" PROVE CleaningLossless
    BY DEF CleaningLossless
  <2>. DEFINE edited == Edited(Source)
  <2>0. stage \in Cleaned
    BY DEF Cleaned
  <2>1. /\ edited \in Seq(Edit) /\ Len(edited) \in Nat /\ Complete(Source, edited, 0)
        /\ Apart(Source, edited)
        /\ clean.text \in Seq(Char) /\ Len(clean.text) = Len(edited)
        /\ Offsets = 0..Len(edited) - 1
        /\ \A i \in Offsets : /\ i + 1 \in 1..Len(edited)
                              /\ At(clean.text, i) = edited[i + 1].char
                              /\ SourceOf(i) = edited[i + 1].source
    BY <2>0, OffsetsAre
  <2>. HIDE DEF edited
  <2>2. \A s : Broken(Source, s) <=> BreakHyphen(s)
    BY DEF Broken, BreakHyphen
  <2>3. ASSUME NEW s \in 0..Len(Source) - 1, At(Source, s) \in Visible, ~BreakHyphen(s)
        PROVE  \E i \in Offsets : SourceOf(i) = s
    <3>1. PICK j \in 1..Len(edited) : edited[j].source = s
      BY <2>1, <2>2, <2>3 DEF Complete
    <3>2. j - 1 \in Offsets /\ (j - 1) + 1 = j
      BY <2>1
    <3>. QED
      BY <2>1, <3>1, <3>2
  <2>4. ASSUME NEW i \in Offsets, {At(clean.text, i), At(clean.text, i + 1)} \subseteq Visible,
               NEW s \in SourceOf(i) + 1..SourceOf(i + 1) - 1, At(Source, s) \in Space
        PROVE  BreakHyphen(s - 1)
    <3>1. i + 1 \in Offsets
      <4>1. At(clean.text, i + 1) \in Char /\ i + 1 \in Int
        BY <2>1, <2>4 DEF Visible
      <4>2. i + 1 \in 0..Len(clean.text) - 1
        BY <2>1, <4>1, AtIs
      <4>. QED
        BY <2>1, <4>2
    <3>2. (i + 1) + 1 \in 2..Len(edited) /\ ((i + 1) + 1) - 1 = i + 1
      BY <2>1, <3>1
    <3>3. Joinable(Source, edited[i + 1].source + 1, edited[(i + 1) + 1].source)
      BY <2>1, <2>4, <3>1, <3>2 DEF Apart
    <3>. QED
      BY <2>1, <2>2, <2>4, <3>1, <3>3 DEF Joinable
  <2>. QED
    BY <2>3, <2>4 DEF CleaningLossless
<1>. QED
  BY <1>1, CleanAlways, PTL

-----------------------------------------------------------------------------
(* Metadata: the block between two fences that the Markdown parser leaves  *)
(* out.                                                                    *)

\* A line of dashes at p: blanks up to q, and the newline at r.
Fence(text, p, q, r) ==
  /\ p + 3 <= q
  /\ \A i \in p..p + 2 : At(text, i) = "-"
  /\ \A i \in p + 3..q - 1 : At(text, i) \in Blank
  /\ r = q \/ (r = q + 1 /\ At(text, q) = "\r")
  /\ At(text, r) = "\n"

\* A line of dashes at p that ends the text.
LastFence(text, p) ==
  /\ p + 3 <= Len(text)
  /\ \A i \in p..p + 2 : At(text, i) = "-"
  /\ \A i \in p + 3..Len(text) - 1 : At(text, i) \in Blank

LEMMA LineChars ==
  /\ Blank \in SUBSET Char /\ {"-", "\n", "\r"} \subseteq Char
  /\ {"-", "\n", "\r"} \cap Blank = {}
BY DEF Char, Space, Blank

LEMMA FenceForm ==
  ASSUME NEW text \in Seq(Char), NEW p \in 0..Len(text), NEW closing,
         FenceEnd(text, p, closing) # p
  PROVE  \/ \E q, r \in 0..Len(text) - 1 :
              Fence(text, p, q, r) /\ FenceEnd(text, p, closing) = r + 1
         \/ closing /\ LastFence(text, p) /\ FenceEnd(text, p, closing) = Len(text)
<1>. DEFINE n == Len(text)
            q == RunEnd(text, p + 3, Blank)
            r == IF At(text, q) = "\r" /\ At(text, q + 1) = "\n" THEN q + 1 ELSE q
<1>0. n \in Nat /\ p \in 0..n
  OBVIOUS
<1>1. \A i \in p..p + 2 : At(text, i) = "-"
  BY DEF FenceEnd
<1>2. p + 3 <= n
  <2>1. At(text, p + 2) \in Char /\ p + 2 \in Int
    BY <1>1, LineChars
  <2>2. p + 2 \in 0..n - 1
    BY <2>1, AtIs
  <2>. QED
    BY <1>0, <2>2
<1>3. /\ q \in p + 3..n
      /\ \A i \in p + 3..q - 1 : At(text, i) \in Blank
  <2>1. p + 3 \in 0..n
    BY <1>0, <1>2
  <2>. QED
    BY <2>1, LineChars, RunEndIs
<1>4. FenceEnd(text, p, closing)
        = IF At(text, r) = "\n" THEN r + 1
          ELSE IF closing /\ q = n THEN q ELSE p
  BY <1>1 DEF FenceEnd
<1>. HIDE DEF q
<1>5. CASE At(text, r) = "\n"
  <2>1. r \in Int
    BY <1>3
  <2>2. r = q \/ (r = q + 1 /\ At(text, q) = "\r")
    OBVIOUS
  <2>. HIDE DEF r
  <2>3. r \in 0..n - 1
    BY <1>5, <2>1, LineChars, AtIs
  <2>4. q \in 0..n - 1
    BY <1>0, <1>3, <2>2, <2>3
  <2>5. Fence(text, p, q, r)
    BY <1>1, <1>3, <1>5, <2>2 DEF Fence
  <2>. QED
    BY <1>4, <1>5, <2>3, <2>4, <2>5
<1>6. CASE At(text, r) # "\n"
  <2>. HIDE DEF r
  <2>1. closing /\ q = n /\ FenceEnd(text, p, closing) = n
    BY <1>4, <1>6
  <2>. QED
    BY <1>1, <1>2, <1>3, <2>1 DEF LastFence
<1>. QED
  BY <1>5, <1>6

LEMMA FenceFound ==
  ASSUME NEW text \in Seq(Char), NEW p \in 0..Len(text), NEW closing,
         NEW q \in 0..Len(text) - 1, NEW r \in 0..Len(text) - 1, Fence(text, p, q, r)
  PROVE  FenceEnd(text, p, closing) = r + 1
<1>. DEFINE e == RunEnd(text, p + 3, Blank)
<1>1. /\ p + 3 <= q
      /\ \A i \in p..p + 2 : At(text, i) = "-"
      /\ \A i \in p + 3..q - 1 : At(text, i) \in Blank
      /\ r = q \/ (r = q + 1 /\ At(text, q) = "\r")
      /\ At(text, r) = "\n"
  BY DEF Fence
<1>2. At(text, q) \notin Blank
  BY <1>1, LineChars
<1>3. /\ e \in p + 3..Len(text)
      /\ \A i \in p + 3..e - 1 : At(text, i) \in Blank
      /\ At(text, e) \notin Blank
  <2>1. p + 3 \in 0..Len(text)
    BY <1>1
  <2>. QED
    BY <2>1, LineChars, RunEndIs
<1>. HIDE DEF e
<1>4. e = q
  <2>1. ~(e < q)
    BY <1>1, <1>3
  <2>2. ~(q < e)
    BY <1>1, <1>2, <1>3
  <2>. QED
    BY <1>3, <2>1, <2>2
<1>5. r = IF At(text, e) = "\r" /\ At(text, e + 1) = "\n" THEN e + 1 ELSE e
  BY <1>1, <1>4
<1>. QED
  BY <1>1, <1>5 DEF FenceEnd, e

LEMMA LastFenceFound ==
  ASSUME NEW text \in Seq(Char), NEW p \in 0..Len(text), LastFence(text, p)
  PROVE  FenceEnd(text, p, TRUE) = Len(text)
<1>. DEFINE n == Len(text)
            e == RunEnd(text, p + 3, Blank)
<1>1. /\ p + 3 <= n /\ n \in Nat
      /\ \A i \in p..p + 2 : At(text, i) = "-"
      /\ \A i \in p + 3..n - 1 : At(text, i) \in Blank
  BY DEF LastFence
<1>2. e \in p + 3..n /\ At(text, e) \notin Blank
  <2>1. p + 3 \in 0..n
    BY <1>1
  <2>. QED
    BY <2>1, LineChars, RunEndIs
<1>. HIDE DEF e
<1>3. e = n
  BY <1>1, <1>2
<1>4. At(text, n) \notin Char
  BY <1>1, AtIs
<1>5. At(text, n) # "\r" /\ At(text, n) # "\n"
  BY <1>4, LineChars
<1>. QED
  BY <1>1, <1>3, <1>5 DEF FenceEnd, e

\* A fence is one line.
LEMMA FenceIsLine ==
  ASSUME NEW text \in Seq(Char), NEW p \in 0..Len(text), NEW closing,
         FenceEnd(text, p, closing) # p
  PROVE  /\ FenceEnd(text, p, closing) \in p + 3..Len(text)
         /\ \A i \in p..FenceEnd(text, p, closing) - 2 : At(text, i) # "\n"
         /\ ~closing => At(text, FenceEnd(text, p, closing) - 1) = "\n"
<1>1. CASE \E q, r \in 0..Len(text) - 1 :
             Fence(text, p, q, r) /\ FenceEnd(text, p, closing) = r + 1
  <2>1. PICK q \in 0..Len(text) - 1, r \in 0..Len(text) - 1 :
               Fence(text, p, q, r) /\ FenceEnd(text, p, closing) = r + 1
    BY <1>1
  <2>2. /\ p + 3 <= q
        /\ \A i \in p..p + 2 : At(text, i) = "-"
        /\ \A i \in p + 3..q - 1 : At(text, i) \in Blank
        /\ r = q \/ (r = q + 1 /\ At(text, q) = "\r")
        /\ At(text, r) = "\n"
    BY <2>1 DEF Fence
  <2>3. ASSUME NEW i \in p..r - 1 PROVE At(text, i) # "\n"
    <3>1. i \in p..p + 2 \/ i \in p + 3..q - 1 \/ i = q
      BY <2>2
    <3>. QED
      BY <2>2, <3>1, LineChars
  <2>4. r + 1 \in p + 3..Len(text) /\ (r + 1) - 2 = r - 1 /\ (r + 1) - 1 = r
    BY <2>2
  <2>. QED
    BY <2>1, <2>2, <2>3, <2>4
<1>2. CASE closing /\ LastFence(text, p) /\ FenceEnd(text, p, closing) = Len(text)
  <2>1. /\ p + 3 <= Len(text)
        /\ \A i \in p..p + 2 : At(text, i) = "-"
        /\ \A i \in p + 3..Len(text) - 1 : At(text, i) \in Blank
    BY <1>2 DEF LastFence
  <2>2. \A i \in p..Len(text) - 2 : i \in p..p + 2 \/ i \in p + 3..Len(text) - 1
    OBVIOUS
  <2>3. \A i \in p..Len(text) - 2 : At(text, i) # "\n"
    BY <2>1, <2>2, LineChars
  <2>4. Len(text) \in p + 3..Len(text)
    BY <2>1
  <2>. QED
    BY <1>2, <2>3, <2>4
<1>. QED
  BY <1>1, <1>2, FenceForm

\* A fence of a text is one of the part of it that ends with or after it.
LEMMA FenceBefore ==
  ASSUME NEW text \in Seq(Char), NEW e \in 0..Len(text), NEW p \in 0..e, NEW closing,
         FenceEnd(text, p, closing) \in p + 1..e
  PROVE  FenceEnd(Slice(text, 0, e), p, TRUE) > p
<1>. DEFINE b == Slice(text, 0, e)
<1>1. /\ b \in Seq(Char) /\ Len(b) = e
      /\ \A i \in 0..e - 1 : At(b, i) = At(text, i)
  BY WindowIs
<1>. HIDE DEF b
<1>2. p \in 0..Len(text) /\ p \in 0..Len(b) /\ FenceEnd(text, p, closing) # p
  BY <1>1
<1>3. CASE \E q, r \in 0..Len(text) - 1 :
             Fence(text, p, q, r) /\ FenceEnd(text, p, closing) = r + 1
  <2>1. PICK q \in 0..Len(text) - 1, r \in 0..Len(text) - 1 :
               Fence(text, p, q, r) /\ FenceEnd(text, p, closing) = r + 1
    BY <1>3
  <2>2. /\ p + 3 <= q /\ r <= e - 1
        /\ \A i \in p..p + 2 : At(text, i) = "-"
        /\ \A i \in p + 3..q - 1 : At(text, i) \in Blank
        /\ r = q \/ (r = q + 1 /\ At(text, q) = "\r")
        /\ At(text, r) = "\n"
    BY <2>1 DEF Fence
  <2>3. q \in 0..e - 1 /\ r \in 0..e - 1
    BY <2>2
  <2>4. \A i \in p..q - 1 : i \in 0..e - 1
    BY <2>2, <2>3
  <2>5. \A i \in p..p + 2 : At(b, i) = "-"
    BY <1>1, <2>2, <2>4
  <2>6. \A i \in p + 3..q - 1 : At(b, i) \in Blank
    BY <1>1, <2>2, <2>4
  <2>7. At(b, r) = At(text, r) /\ At(b, q) = At(text, q)
    BY <1>1, <2>3
  <2>8. Fence(b, p, q, r)
    BY <2>2, <2>5, <2>6, <2>7 DEF Fence
  <2>9. FenceEnd(b, p, TRUE) = r + 1
    BY <1>1, <1>2, <2>3, <2>8, FenceFound
  <2>10. r + 1 > p
    BY <2>2, <2>3
  <2>11. FenceEnd(b, p, TRUE) > p
    BY <2>9, <2>10, Zenon
  <2>. QED
    BY <2>11 DEF b
<1>4. CASE LastFence(text, p) /\ FenceEnd(text, p, closing) = Len(text)
  <2>1. e = Len(text)
    BY <1>4
  <2>2. LastFence(b, p)
    <3>1. /\ p + 3 <= Len(b)
          /\ \A i \in p..p + 2 : At(text, i) = "-"
          /\ \A i \in p + 3..Len(b) - 1 : At(text, i) \in Blank
      BY <1>1, <1>4, <2>1 DEF LastFence
    <3>2. \A i \in p..Len(b) - 1 : At(b, i) = At(text, i)
      BY <1>1
    <3>. QED
      BY <3>1, <3>2 DEF LastFence
  <2>3. FenceEnd(b, p, TRUE) = Len(b)
    BY <1>1, <1>2, <2>2, LastFenceFound
  <2>4. Len(b) > p
    BY <1>1, <2>2 DEF LastFence
  <2>5. FenceEnd(b, p, TRUE) > p
    BY <2>3, <2>4, Zenon
  <2>. QED
    BY <2>5 DEF b
<1>. QED
  BY <1>2, <1>3, <1>4, FenceForm

\* A fence of the part that does not take all that is left of it is one of the text.
LEMMA FenceAfter ==
  ASSUME NEW text \in Seq(Char), NEW e \in 0..Len(text), NEW p \in 0..e,
         FenceEnd(Slice(text, 0, e), p, TRUE) > p,
         NEW k \in p..e - 1, At(text, k) = "\n"
  PROVE  FenceEnd(text, p, TRUE) > p
<1>. DEFINE b == Slice(text, 0, e)
<1>1. /\ b \in Seq(Char) /\ Len(b) = e
      /\ \A i \in 0..e - 1 : At(b, i) = At(text, i)
  BY WindowIs
<1>2. FenceEnd(b, p, TRUE) # p
  <2>1. ~(p > p)
    OBVIOUS
  <2>. QED
    BY <2>1, Zenon
<1>. HIDE DEF b
<1>3. p \in 0..Len(text) /\ p \in 0..Len(b)
  BY <1>1
<1>4. ~LastFence(b, p)
  <2>1. SUFFICES ASSUME LastFence(b, p) PROVE FALSE
    OBVIOUS
  <2>2. At(b, k) = "\n"
    BY <1>1
  <2>3. k \in p..p + 2 \/ k \in p + 3..Len(b) - 1
    BY <1>1
  <2>. QED
    BY <2>1, <2>2, <2>3, LineChars DEF LastFence
<1>5. PICK q \in 0..Len(b) - 1, r \in 0..Len(b) - 1 : Fence(b, p, q, r)
  BY <1>1, <1>2, <1>3, <1>4, FenceForm
<1>6. /\ p + 3 <= q
      /\ \A i \in p..p + 2 : At(b, i) = "-"
      /\ \A i \in p + 3..q - 1 : At(b, i) \in Blank
      /\ r = q \/ (r = q + 1 /\ At(b, q) = "\r")
      /\ At(b, r) = "\n"
  BY <1>5 DEF Fence
<1>7. q \in 0..e - 1 /\ r \in 0..e - 1 /\ q \in 0..Len(text) - 1 /\ r \in 0..Len(text) - 1
  BY <1>1
<1>8. \A i \in p..q - 1 : At(b, i) = At(text, i)
  BY <1>1, <1>7
<1>9. \A i \in p..p + 2 : At(text, i) = "-"
  BY <1>6, <1>8
<1>10. \A i \in p + 3..q - 1 : At(text, i) \in Blank
  BY <1>6, <1>8
<1>11. Fence(text, p, q, r)
  BY <1>1, <1>6, <1>7, <1>9, <1>10 DEF Fence
<1>12. FenceEnd(text, p, TRUE) = r + 1
  BY <1>3, <1>7, <1>11, FenceFound
<1>13. r + 1 > p
  BY <1>6, <1>7
<1>. QED
  BY <1>12, <1>13, Zenon

\* A block that is left out has two fences, unless the text begins with two.
LEMMA BlockIs ==
  ASSUME NEW text \in Seq(Char), ClosingFences(text) # {},
         FenceEnd(text, 0, FALSE) \notin FenceLines(text)
  PROVE  Cardinality(FenceLines(Slice(text, 0, FrontMatterEnd(text)))) = 2
<1>. DEFINE n == Len(text)
            C == ClosingFences(text)
            body == FenceEnd(text, 0, FALSE)
            m == Min(C)
            e == FenceEnd(text, m, TRUE)
            b == Slice(text, 0, e)
<1>0. n \in Nat /\ 0 \in 0..n
  OBVIOUS
<1>1. C = {p \in body + 1..n - 3 :
             body > 0 /\ At(text, p - 1) = "\n" /\ FenceEnd(text, p, TRUE) > p}
  BY DEF ClosingFences
<1>2. body # 0 /\ body \in 0..n
  <2>1. body \in 0..n
    BY <1>0, FenceEndIs
  <2>2. body > 0
    <3>. HIDE DEF body
    <3>. QED
      BY <1>1
  <2>. HIDE DEF body
  <2>. QED
    BY <2>1, <2>2
<1>3. /\ body \in 3..n /\ At(text, body - 1) = "\n"
      /\ \A i \in 0..body - 2 : At(text, i) # "\n"
  <2>1. body \in 0 + 3..n /\ At(text, body - 1) = "\n"
        /\ \A i \in 0..body - 2 : At(text, i) # "\n"
    BY <1>0, <1>2, FenceIsLine
  <2>. HIDE DEF body
  <2>. QED
    BY <2>1
<1>. HIDE DEF body
<1>4. m \in C /\ \A p \in C : m <= p
  <2>1. body \in Int /\ C # {}
    BY <1>0, <1>2
  <2>2. C \subseteq body + 1..n - 3
    BY <1>1
  <2>. HIDE DEF C
  <2>3. C \in SUBSET Int /\ \A p \in C : body <= p
    BY <1>0, <2>1, <2>2
  <2>. QED
    BY <2>1, <2>3, MinIs
<1>5. m \in body + 1..n - 3 /\ At(text, m - 1) = "\n" /\ e > m
  BY <1>1, <1>4
<1>6. FrontMatterEnd(text) = e
  BY DEF FrontMatterEnd
<1>7. \A p \in body + 1..m - 1 : ~(At(text, p - 1) = "\n" /\ FenceEnd(text, p, TRUE) > p)
  <2>1. SUFFICES ASSUME NEW p \in body + 1..m - 1, At(text, p - 1) = "\n",
                        FenceEnd(text, p, TRUE) > p
                 PROVE  FALSE
    OBVIOUS
  <2>2. p \in body + 1..n - 3 /\ body > 0 /\ ~(m <= p)
    BY <1>0, <1>2, <1>5
  <2>3. p \in C
    BY <1>1, <2>1, <2>2
  <2>. QED
    BY <1>4, <2>2, <2>3
<1>. HIDE DEF m, C
<1>8. m \in 0..n /\ m \in Int /\ body \in Int /\ e # m
  <2>. HIDE DEF e
  <2>. QED
    BY <1>0, <1>2, <1>5
<1>9. e \in m + 3..n /\ \A i \in m..e - 2 : At(text, i) # "\n"
  BY <1>8, FenceIsLine
<1>. HIDE DEF e
<1>10. e \in 0..n
  BY <1>0, <1>3, <1>5, <1>8, <1>9
<1>11. /\ b \in Seq(Char) /\ Len(b) = e
       /\ \A i \in 0..e - 1 : At(b, i) = At(text, i)
  BY <1>10, WindowIs
<1>12. 0 \in FenceLines(b)
  <2>0. body \in 0 + 1..e /\ 0 \in 0..e
    BY <1>3, <1>5, <1>8, <1>9
  <2>1. FenceEnd(text, 0, FALSE) \in 0 + 1..e /\ 0 \in 0..e
    BY <2>0 DEF body
  <2>2. FenceEnd(b, 0, TRUE) > 0
    BY <1>10, <2>1, FenceBefore
  <2>3. 0 \in 0..Len(b) - 1
    BY <1>3, <1>5, <1>9, <1>11
  <2>. HIDE DEF b
  <2>. QED
    BY <2>2, <2>3 DEF FenceLines
<1>13. m \in FenceLines(b)
  <2>0. e \in m + 1..e /\ m \in 0..e
    BY <1>8, <1>9
  <2>1. FenceEnd(text, m, TRUE) \in m + 1..e /\ m \in 0..e
    BY <2>0, Zenon DEF e
  <2>2. FenceEnd(b, m, TRUE) > m
    BY <1>10, <2>1, FenceBefore
  <2>3. m \in 0..Len(b) - 1 /\ m - 1 \in 0..e - 1
    BY <1>3, <1>5, <1>9, <1>11
  <2>4. At(b, m - 1) = "\n"
    BY <1>5, <1>11, <2>3
  <2>. HIDE DEF b
  <2>. QED
    BY <2>2, <2>3, <2>4 DEF FenceLines
<1>14. ASSUME NEW p \in FenceLines(b), p # 0, p # m PROVE FALSE
  <2>1. /\ p \in 0..e - 1
        /\ p = 0 \/ At(b, p - 1) = "\n"
        /\ FenceEnd(b, p, TRUE) > p
    BY <1>11 DEF FenceLines
  <2>2. p \in 1..e - 1 /\ p - 1 \in 0..e - 1 /\ At(text, p - 1) = "\n"
    BY <1>11, <1>14, <2>1
  <2>3. CASE m < p
    <3>1. p - 1 \in m..e - 2
      BY <1>8, <1>10, <2>2, <2>3
    <3>. QED
      BY <1>9, <2>2, <3>1
  <2>4. CASE p < body
    <3>1. p - 1 \in 0..body - 2
      BY <1>8, <2>2, <2>4
    <3>. QED
      BY <1>3, <2>2, <3>1
  <2>5. CASE body <= p /\ p < m
    <3>1. m - 1 \in p..e - 1 /\ p \in 0..e
      BY <1>5, <1>9, <2>2, <2>5
    <3>2. FenceEnd(text, p, TRUE) > p
      BY <1>5, <1>10, <2>1, <3>1, FenceAfter
    <3>3. p \in 0..n - 1 /\ (p = body \/ p \in body + 1..m - 1)
      BY <1>8, <1>10, <2>2, <2>5
    <3>4. p = body
      BY <1>7, <2>2, <3>2, <3>3
    <3>5. body \in FenceLines(text)
      BY <2>2, <3>2, <3>3, <3>4 DEF FenceLines
    <3>. QED
      BY <3>5 DEF body
  <2>6. p < m \/ m < p
    BY <1>8, <1>14, <2>2
  <2>7. p < body \/ body <= p
    BY <1>8, <2>2
  <2>. QED
    BY <2>3, <2>4, <2>5, <2>6, <2>7
<1>15. FenceLines(b) = {0, m} /\ 0 # m
  <2>1. 0 # m
    BY <1>3, <1>5
  <2>. HIDE DEF b
  <2>. QED
    BY <1>12, <1>13, <1>14, <2>1
<1>16. Cardinality({0, m}) = 2
  <2>1. IsFiniteSet({0}) /\ Cardinality({0}) = 1
    BY FS_Singleton
  <2>2. Cardinality({0} \cup {m}) = Cardinality({0}) + 1
    BY <1>15, <2>1, FS_AddElement
  <2>3. {0} \cup {m} = {0, m}
    OBVIOUS
  <2>4. Cardinality({0, m}) = Cardinality({0}) + 1
    BY <2>2, <2>3, Zenon
  <2>5. Cardinality({0, m}) = 1 + 1
    BY <2>1, <2>4, Zenon
  <2>. QED
    BY <2>5
<1>. QED
  BY <1>6, <1>15, <1>16

\* A rule further down a Markdown file never makes what precedes it metadata: what
\* _FRONT_MATTER takes off a file is one block between two fences.
THEOREM MetadataOnly == Spec => []ProseKept
<1>1. IntakeInv => ProseKept
  <2>. SUFFICES ASSUME IntakeInv, stage = "clean", type = "markdown" PROVE ProseKept
    BY DEF ProseKept
  <2>. DEFINE raw == DecodeText(file.bytes)
              n == Len(raw)
              e == FrontMatterEnd(raw)
  <2>1. raw \in Seq(Char)
    <3>1. file.bytes \in Seq(Byte)
      BY FileIs DEF IntakeInv
    <3>. QED
      BY <3>1, DecodeTextIs
  <2>2. extracted.text = Slice(raw, e, n)
    <3>1. extracted = Parsed
      BY DEF IntakeInv, Early
    <3>2. Parsed = [text |-> Slice(raw, e, n), parts |-> <<>>]
      BY DEF Parsed
    <3>. QED
      BY <3>1, <3>2
  <2>. HIDE DEF raw
  <2>3. n \in Nat /\ e \in 0..n /\ n \in e..n
    BY <2>1, FrontMatterEndIs
  <2>4. Len(extracted.text) = n - e
    <3>0. n \in 0..n /\ n = Len(raw)
      BY <2>3
    <3>. HIDE DEF n, e
    <3>1. e \in 0..Len(raw) /\ n \in e..Len(raw)
      BY <2>3, <3>0, Zenon
    <3>2. Len(Slice(raw, e, n)) = n - e
      BY <2>1, <3>1, SliceIs
    <3>. QED
      BY <2>2, <3>2
  <2>5. n - Len(extracted.text) = e
    BY <2>3, <2>4
  <2>6. CASE ClosingFences(raw) = {}
    <3>1. e = 0
      BY <2>6 DEF FrontMatterEnd
    <3>2. Slice(raw, 0, 0) = <<>>
      BY <2>1 DEF Slice
    <3>3. Slice(raw, 0, n - Len(extracted.text)) = <<>>
      BY <2>5, <3>1, <3>2
    <3>. QED
      BY <3>3 DEF ProseKept, raw
  <2>7. CASE ClosingFences(raw) # {} /\ FenceEnd(raw, 0, FALSE) \notin FenceLines(raw)
    <3>1. Cardinality(FenceLines(Slice(raw, 0, e))) = 2
      BY <2>1, <2>7, BlockIs
    <3>2. Cardinality(FenceLines(Slice(raw, 0, n - Len(extracted.text)))) = 2
      BY <2>5, <3>1
    <3>. QED
      BY <3>2 DEF ProseKept, raw
  <2>8. CASE FenceEnd(raw, 0, FALSE) \in FenceLines(raw)
    BY <2>8 DEF ProseKept, raw
  <2>. QED
    BY <2>6, <2>7, <2>8
<1>. QED
  BY <1>1, IntakeAlways, PTL

=============================================================================
