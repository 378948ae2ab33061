--------------------------- MODULE ChunkingProofs ---------------------------
(***************************************************************************)
(* The second half of the text pipeline, for every cleaned text, every     *)
(* size of a chunk and every overlap: what packing covers, where the       *)
(* chunks start and end and how large they are, which source and which     *)
(* pages they quote, and which vectors reach the graph.                    *)
(***************************************************************************)
EXTENDS SplittingProofs

-----------------------------------------------------------------------------
(* Tokens of adjoining spans.  A word that a cut divides may begin a token *)
(* more on its right, never one less.                                      *)

\* How many tokens text[a:b] has.
Tokens(text, a, b) == Cardinality(TokenStarts(Slice(text, a, b)))

\* t reads as u and then v.
Joins(t, u, v) ==
  /\ t \in Seq(Char) /\ u \in Seq(Char) /\ v \in Seq(Char) /\ Len(t) = Len(u) + Len(v)
  /\ \A i \in 0..Len(u) - 1 : At(t, i) = At(u, i)
  /\ \A i \in 0..Len(v) - 1 : At(t, Len(u) + i) = At(v, i)

\* The letter at i is of the word that begins at w.
WordAt(text, w, i) ==
  /\ w \in 0..i /\ \A j \in w..i : At(text, j) \in Letter
  /\ w = 0 \/ At(text, w - 1) \notin Letter

LEMMA TokenIs ==
  ASSUME NEW text \in Seq(Char), NEW i \in 0..Len(text) - 1
  PROVE  /\ At(text, i) \in Letter =>
              /\ \E w \in Int : WordAt(text, w, i)
              /\ \A w \in Int : WordAt(text, w, i) =>
                   (i \in TokenStarts(text) <=> (i - w) % CharsPerToken = 0)
         /\ At(text, i) \notin Letter =>
              (i \in TokenStarts(text) <=> (At(text, i) \in Space => At(text, i) = "\n"))
<1>. DEFINE Word == {k \in 0..i : \A j \in k..i : At(text, j) \in Letter}
<1>0. i \in Int /\ 0 <= i
  OBVIOUS
<1>1. i \in TokenStarts(text) <=>
        CASE At(text, i) \in Letter -> (i - Min(Word)) % CharsPerToken = 0
          [] At(text, i) \in Space  -> At(text, i) = "\n"
          [] OTHER                  -> TRUE
  BY DEF TokenStarts
<1>2. ASSUME At(text, i) \in Letter PROVE Min(Word) \in Word /\ \A k \in Word : Min(Word) <= k
  <2>1. i \in Word
    BY <1>0, <1>2
  <2>2. Word \in SUBSET Int /\ \A k \in Word : 0 <= k
    OBVIOUS
  <2>. HIDE DEF Word
  <2>. QED
    BY <2>1, <2>2, MinIs
<1>3. ASSUME At(text, i) \in Letter PROVE WordAt(text, Min(Word), i)
  <2>. DEFINE m == Min(Word)
  <2>1. m \in 0..i /\ (\A j \in m..i : At(text, j) \in Letter) /\ \A k \in Word : m <= k
    BY <1>2, <1>3
  <2>. HIDE DEF m
  <2>2. ASSUME m # 0, At(text, m - 1) \in Letter PROVE FALSE
    <3>1. m - 1 \in 0..i /\ \A j \in m - 1..i : j = m - 1 \/ j \in m..i
      BY <1>0, <2>1, <2>2
    <3>2. m - 1 \in Word
      BY <2>1, <2>2, <3>1
    <3>3. m <= m - 1 /\ m \in Int
      BY <2>1, <3>2
    <3>. QED
      BY <3>3
  <2>. QED
    BY <2>1, <2>2 DEF WordAt, m
<1>4. ASSUME At(text, i) \in Letter, NEW w \in Int, WordAt(text, w, i) PROVE w = Min(Word)
  <2>. DEFINE m == Min(Word)
  <2>1. m \in 0..i /\ (\A j \in m..i : At(text, j) \in Letter) /\ \A k \in Word : m <= k
    BY <1>2, <1>4
  <2>2. w \in Word
    BY <1>4 DEF WordAt
  <2>3. m <= w
    BY <2>1, <2>2
  <2>. HIDE DEF m, Word
  <2>4. ~(m < w)
    <3>. SUFFICES ASSUME m < w PROVE FALSE
      OBVIOUS
    <3>1. w - 1 \in m..i /\ w # 0
      BY <1>0, <1>4, <2>1 DEF WordAt
    <3>. QED
      BY <1>4, <2>1, <3>1 DEF WordAt
  <2>. QED
    BY <2>1, <2>3, <2>4 DEF m
<1>5. \A c \in Letter : c \notin Space
  BY DEF Letter, Space, Blank
<1>. QED
  <2>. DEFINE m == Min(Word)
  <2>1. At(text, i) \in Letter => (i \in TokenStarts(text) <=> (i - m) % CharsPerToken = 0)
    BY <1>1, <1>5
  <2>2. At(text, i) \in Letter => m \in Int /\ WordAt(text, m, i)
    BY <1>3 DEF WordAt
  <2>3. At(text, i) \notin Letter =>
          (i \in TokenStarts(text) <=> (At(text, i) \in Space => At(text, i) = "\n"))
    BY <1>1, <1>5
  <2>4. \A w \in Int : At(text, i) \in Letter /\ WordAt(text, w, i) => w = m
    BY <1>4
  <2>. HIDE DEF m
  <2>. QED
    BY <2>1, <2>2, <2>3, <2>4

\* Multiples of a number lie that far apart.
LEMMA Remainder ==
  ASSUME NEW a \in Nat, NEW d \in Nat, d > 0
  PROVE  /\ a % d \in 0..d - 1 /\ a = (a \div d) * d + (a % d)
         /\ a - (a % d) \in 0..a /\ (a - (a % d)) % d = 0
<1>1. a % d \in 0..d - 1 /\ a = (a \div d) * d + (a % d) /\ a \div d \in Nat
  OBVIOUS
<1>. DEFINE q == a \div d
            p == q * d
            r == a % d
<1>2. p \in Nat
  BY <1>1, ProductMonotone
<1>3. p % d = 0
  <2>1. q \in Nat
    BY <1>1
  <2>. HIDE DEF q
  <2>. QED
    BY <2>1
<1>4. a = p + r /\ r \in 0..d - 1
  BY <1>1
<1>. HIDE DEF p, r, q
<1>5. a - r = p /\ a - r \in 0..a
  BY <1>2, <1>4
<1>. QED
  BY <1>1, <1>3, <1>5 DEF r

LEMMA MultiplesApart ==
  ASSUME NEW a \in Nat, NEW b \in Nat, NEW d \in Nat, d > 0, a < b, a % d = 0, b % d = 0
  PROVE  a + d <= b
<1>. DEFINE p == a \div d
            q == b \div d
<1>1. a = p * d /\ b = q * d /\ p \in Nat /\ q \in Nat
  BY Remainder
<1>. HIDE DEF p, q
<1>2. p + 1 <= q
  <2>. SUFFICES ASSUME q <= p PROVE FALSE
    BY <1>1
  <2>1. q * d <= p * d
    BY <1>1, ProductMonotone
  <2>. QED
    BY <1>1, <2>1
<1>3. (p + 1) * d <= q * d /\ (p + 1) * d \in Nat
  BY <1>1, <1>2, ProductMonotone
<1>4. ((p + 1) - 1) * d = (p + 1) * d - d
  BY <1>1, Successor
<1>. DEFINE x == (p + 1) * d
<1>5. x <= b /\ p * d = x - d /\ x \in Nat
  <2>1. (p + 1) - 1 = p
    BY <1>1
  <2>. QED
    BY <1>1, <1>3, <1>4, <2>1
<1>. HIDE DEF x
<1>. QED
  BY <1>1, <1>5

LEMMA TokensOfPrefix ==
  ASSUME NEW t, NEW u, NEW v, Joins(t, u, v), NEW i \in 0..Len(u) - 1
  PROVE  i \in TokenStarts(t) <=> i \in TokenStarts(u)
<1>0. /\ t \in Seq(Char) /\ u \in Seq(Char) /\ Len(u) \in Nat /\ Len(t) \in Nat /\ Len(u) <= Len(t)
      /\ i \in 0..Len(t) - 1 /\ i \in Int /\ \A k \in 0..Len(u) - 1 : At(t, k) = At(u, k)
  <2>1. /\ t \in Seq(Char) /\ u \in Seq(Char) /\ v \in Seq(Char) /\ Len(t) = Len(u) + Len(v)
        /\ \A k \in 0..Len(u) - 1 : At(t, k) = At(u, k)
    BY DEF Joins
  <2>2. Len(u) \in Nat /\ Len(v) \in Nat
    BY <2>1
  <2>. QED
    BY <2>1, <2>2
<1>1. At(t, i) = At(u, i)
  BY <1>0
<1>2. CASE At(u, i) \in Letter
  <2>1. PICK w \in Int : WordAt(u, w, i)
    BY <1>0, <1>2, TokenIs
  <2>2. w \in 0..i /\ \A j \in w..i : j \in 0..Len(u) - 1
    BY <1>0, <2>1 DEF WordAt
  <2>3. w # 0 => w - 1 \in 0..Len(u) - 1
    BY <1>0, <2>2
  <2>4. WordAt(t, w, i)
    <3>1. \A j \in w..i : At(t, j) \in Letter
      BY <1>0, <2>1, <2>2 DEF WordAt
    <3>2. w # 0 => At(t, w - 1) \notin Letter
      BY <1>0, <2>1, <2>3 DEF WordAt
    <3>. QED
      BY <2>2, <3>1, <3>2 DEF WordAt
  <2>5. i \in TokenStarts(u) <=> (i - w) % CharsPerToken = 0
    BY <1>0, <1>2, <2>1, TokenIs
  <2>6. i \in TokenStarts(t) <=> (i - w) % CharsPerToken = 0
    BY <1>0, <1>1, <1>2, <2>1, <2>4, TokenIs
  <2>. QED
    BY <2>5, <2>6
<1>3. CASE At(u, i) \notin Letter
  <2>1. i \in TokenStarts(u) <=> (At(u, i) \in Space => At(u, i) = "\n")
    BY <1>0, <1>3, TokenIs
  <2>2. i \in TokenStarts(t) <=> (At(t, i) \in Space => At(t, i) = "\n")
    BY <1>0, <1>1, <1>3, TokenIs
  <2>. QED
    BY <1>1, <2>1, <2>2
<1>. QED
  BY <1>2, <1>3

\* All letters from the beginning to j.
Letters(text, j) == \A k \in 0..j : At(text, k) \in Letter

\* The token of the right part that stands for the one at j of the whole.
StandIn(v, j) == IF Letters(v, j) THEN j - (j % CharsPerToken) ELSE j

LEMMA StandInIs ==
  ASSUME NEW t, NEW u, NEW v, Joins(t, u, v), NEW j \in 0..Len(v) - 1,
         Len(u) + j \in TokenStarts(t)
  PROVE  StandIn(v, j) \in TokenStarts(v)
<1>. DEFINE c == CharsPerToken
            n == Len(u)
<1>0. /\ t \in Seq(Char) /\ v \in Seq(Char) /\ n \in Nat /\ Len(v) \in Nat /\ Len(t) = n + Len(v)
      /\ \A k \in 0..Len(v) - 1 : At(t, n + k) = At(v, k)
      /\ n + j \in 0..Len(t) - 1 /\ j \in Int /\ j \in Nat /\ c \in Nat /\ c > 0
  <2>1. /\ t \in Seq(Char) /\ u \in Seq(Char) /\ v \in Seq(Char) /\ Len(t) = Len(u) + Len(v)
        /\ \A k \in 0..Len(v) - 1 : At(t, n + k) = At(v, k)
    BY DEF Joins
  <2>2. n \in Nat /\ Len(v) \in Nat
    BY <2>1
  <2>. HIDE DEF n
  <2>. QED
    BY <2>1, <2>2, ChunkingAssumption DEF n
<1>. HIDE DEF n
<1>1. n + j \in TokenStarts(t) /\ At(t, n + j) = At(v, j)
  BY <1>0 DEF n
<1>. HIDE DEF c
<1>2. CASE Letters(v, j)
  <2>. DEFINE g == j - (j % c)
  <2>1. g \in 0..j /\ g % c = 0
    BY <1>0, Remainder
  <2>2. StandIn(v, j) = g
    BY <1>2 DEF StandIn, c
  <2>. HIDE DEF g
  <2>3. g \in 0..Len(v) - 1 /\ g - 0 = g /\ g \in 0..g /\ 0 \in 0..g /\ \A k \in 0..g : k \in 0..j
    BY <1>0, <2>1
  <2>4. WordAt(v, 0, g) /\ At(v, g) \in Letter
    BY <1>2, <2>3 DEF WordAt, Letters
  <2>5. g \in TokenStarts(v) <=> (g - 0) % CharsPerToken = 0
    BY <1>0, <2>3, <2>4, TokenIs
  <2>. QED
    BY <2>1, <2>2, <2>3, <2>5 DEF c
<1>3. CASE ~Letters(v, j) /\ At(v, j) \in Letter
  <2>1. PICK w \in Int : WordAt(v, w, j)
    BY <1>0, <1>3, TokenIs
  <2>2. w \in 0..j /\ w # 0
    BY <1>3, <2>1 DEF WordAt, Letters
  <2>3. w - 1 \in 0..Len(v) - 1 /\ (n + w) - 1 = n + (w - 1) /\ n + w \in Int /\ n + w \in 0..n + j
        /\ n + w # 0 /\ (n + j) - (n + w) = j - w
    BY <1>0, <2>2
  <2>4. \A k \in n + w..n + j : k - n \in w..j /\ k - n \in 0..Len(v) - 1 /\ n + (k - n) = k
    BY <1>0, <2>2
  <2>5. WordAt(t, n + w, n + j)
    <3>1. ASSUME NEW k \in n + w..n + j PROVE At(t, k) \in Letter
      BY <1>0, <2>1, <2>4 DEF WordAt
    <3>2. At(t, (n + w) - 1) \notin Letter
      BY <1>0, <2>1, <2>2, <2>3 DEF WordAt
    <3>. QED
      BY <2>3, <3>1, <3>2 DEF WordAt
  <2>6. ((n + j) - (n + w)) % CharsPerToken = 0
    BY <1>0, <1>1, <1>3, <2>3, <2>5, TokenIs
  <2>7. j \in TokenStarts(v)
    BY <1>0, <1>3, <2>1, <2>3, <2>6, TokenIs
  <2>. QED
    BY <1>3, <2>7 DEF StandIn
<1>4. CASE At(v, j) \notin Letter
  <2>1. ~Letters(v, j)
    BY <1>0, <1>4 DEF Letters
  <2>2. At(t, n + j) \in Space => At(t, n + j) = "\n"
    BY <1>0, <1>1, <1>4, TokenIs
  <2>3. j \in TokenStarts(v)
    BY <1>0, <1>1, <1>4, <2>2, TokenIs
  <2>. QED
    BY <2>1, <2>3 DEF StandIn
<1>. QED
  BY <1>2, <1>3, <1>4

LEMMA StandInApart ==
  ASSUME NEW t, NEW u, NEW v, Joins(t, u, v),
         NEW j \in 0..Len(v) - 1, NEW k \in 0..Len(v) - 1, j < k,
         Len(u) + j \in TokenStarts(t), Len(u) + k \in TokenStarts(t)
  PROVE  StandIn(v, j) # StandIn(v, k)
<1>. DEFINE c == CharsPerToken
            n == Len(u)
<1>0. /\ t \in Seq(Char) /\ v \in Seq(Char) /\ n \in Nat /\ Len(v) \in Nat /\ Len(t) = n + Len(v)
      /\ \A i \in 0..Len(v) - 1 : At(t, n + i) = At(v, i)
      /\ n + j \in 0..Len(t) - 1 /\ n + k \in 0..Len(t) - 1 /\ j \in Nat /\ k \in Nat
      /\ c \in Nat /\ c > 0
  <2>1. /\ t \in Seq(Char) /\ u \in Seq(Char) /\ v \in Seq(Char) /\ Len(t) = Len(u) + Len(v)
        /\ \A i \in 0..Len(v) - 1 : At(t, Len(u) + i) = At(v, i)
    BY DEF Joins
  <2>2. n \in Nat /\ Len(v) \in Nat
    BY <2>1
  <2>. HIDE DEF n
  <2>. QED
    BY <2>1, <2>2, ChunkingAssumption DEF n
<1>1. n + j \in TokenStarts(t) /\ n + k \in TokenStarts(t)
  OBVIOUS
<1>. HIDE DEF n, c
<1>2. CASE Letters(v, k)
  <2>1. \A i \in 0..k : i \in 0..Len(v) - 1
    BY <1>0
  <2>2. \A i \in 0..k : At(t, n + i) \in Letter
    BY <1>0, <1>2, <2>1 DEF Letters
  <2>3. j \in 0..k /\ k \in 0..k
    BY <1>0
  <2>4. At(t, n + j) \in Letter /\ At(t, n + k) \in Letter
    BY <2>2, <2>3
  <2>5. PICK w \in Int : WordAt(t, w, n + j)
    BY <1>0, <2>4, TokenIs
  <2>6. w \in 0..n + j
    BY <2>5 DEF WordAt
  <2>7. WordAt(t, w, n + k)
    <3>1. ASSUME NEW i \in w..n + k PROVE At(t, i) \in Letter
      <4>1. CASE i <= n + j
        <5>1. i \in w..n + j
          BY <1>0, <2>6, <4>1
        <5>. QED
          BY <2>5, <5>1 DEF WordAt
      <4>2. CASE ~(i <= n + j)
        <5>1. i - n \in 0..k /\ n + (i - n) = i
          BY <1>0, <2>6, <4>2
        <5>. QED
          BY <2>2, <5>1
      <4>. QED
        BY <4>1, <4>2
    <3>2. w \in 0..n + k
      BY <1>0, <2>6
    <3>. QED
      BY <2>5, <3>1, <3>2 DEF WordAt
  <2>8. ((n + j) - w) % c = 0 /\ ((n + k) - w) % c = 0
    BY <1>0, <1>1, <2>4, <2>5, <2>7, TokenIs DEF c
  <2>9. j + c <= k
    <3>. DEFINE a == (n + j) - w
                b == (n + k) - w
    <3>1. a \in Nat /\ b \in Nat /\ a < b /\ a % c = 0 /\ b % c = 0
      BY <1>0, <2>6, <2>8
    <3>. HIDE DEF a, b
    <3>2. a + c <= b
      BY <1>0, <3>1, MultiplesApart
    <3>. QED
      BY <1>0, <2>6, <3>2 DEF a, b
  <2>10. Letters(v, j)
    <3>1. \A i \in 0..j : i \in 0..k
      BY <1>0
    <3>. QED
      BY <1>2, <3>1 DEF Letters
  <2>11. StandIn(v, j) = j - (j % c) /\ StandIn(v, k) = k - (k % c)
    BY <1>2, <2>10 DEF StandIn, c
  <2>12. j % c \in 0..c - 1 /\ k % c \in 0..c - 1
    BY <1>0, Remainder
  <2>. DEFINE x == j % c
              y == k % c
  <2>13. x \in 0..c - 1 /\ y \in 0..c - 1 /\ StandIn(v, j) = j - x /\ StandIn(v, k) = k - y
    BY <2>11, <2>12
  <2>. HIDE DEF x, y
  <2>. QED
    BY <1>0, <2>9, <2>13
<1>3. CASE ~Letters(v, k) /\ Letters(v, j)
  <2>1. StandIn(v, k) = k /\ StandIn(v, j) = j - (j % c)
    BY <1>3 DEF StandIn, c
  <2>2. j % c \in 0..c - 1
    BY <1>0, Remainder
  <2>. DEFINE x == j % c
  <2>3. x \in 0..c - 1 /\ StandIn(v, j) = j - x
    BY <2>1, <2>2
  <2>. HIDE DEF x
  <2>. QED
    BY <1>0, <2>1, <2>3
<1>4. CASE ~Letters(v, k) /\ ~Letters(v, j)
  BY <1>0, <1>4 DEF StandIn
<1>. QED
  BY <1>2, <1>3, <1>4

LEMMA TokensJoin ==
  ASSUME NEW t, NEW u, NEW v, Joins(t, u, v)
  PROVE  /\ Cardinality(TokenStarts(u)) <= Cardinality(TokenStarts(t))
         /\ Cardinality(TokenStarts(t)) <= Cardinality(TokenStarts(u)) + Cardinality(TokenStarts(v))
<1>. DEFINE n == Len(u)
            S == TokenStarts(t)
            A == TokenStarts(u)
            V == TokenStarts(v)
            B == S \ A
            f == [i \in B |-> StandIn(v, i - n)]
<1>0. /\ t \in Seq(Char) /\ u \in Seq(Char) /\ v \in Seq(Char) /\ Len(t) = n + Len(v)
      /\ n \in Nat /\ Len(v) \in Nat
  BY DEF Joins
<1>1. /\ IsFiniteSet(S) /\ IsFiniteSet(A) /\ IsFiniteSet(V)
      /\ S \subseteq 0..Len(t) - 1 /\ A \subseteq 0..n - 1
  BY <1>0, CountIs
<1>2. \A i \in 0..n - 1 : i \in S <=> i \in A
  BY TokensOfPrefix
<1>. HIDE DEF S, A, V, n
<1>3. A \subseteq S
  BY <1>1, <1>2
<1>4. ASSUME NEW i \in B PROVE i - n \in 0..Len(v) - 1 /\ n + (i - n) = i /\ n + (i - n) \in S
  <2>1. i \in S /\ i \in 0..Len(t) - 1 /\ i \notin 0..n - 1
    BY <1>1, <1>2
  <2>2. i - n \in 0..Len(v) - 1 /\ n + (i - n) = i
    BY <1>0, <2>1
  <2>. QED
    BY <2>1, <2>2
<1>5. ASSUME NEW i \in B PROVE StandIn(v, i - n) \in V
  <2>. DEFINE j == i - n
  <2>1. j \in 0..Len(v) - 1 /\ n + j \in S
    BY <1>4
  <2>. HIDE DEF j
  <2>2. StandIn(v, j) \in V
    BY <2>1, StandInIs DEF S, V, n
  <2>. QED
    BY <2>2 DEF j
<1>6. ASSUME NEW i \in B, NEW l \in B, i < l PROVE StandIn(v, i - n) # StandIn(v, l - n)
  <2>. DEFINE j == i - n
              k == l - n
  <2>0. i \in Int /\ l \in Int
    BY <1>1
  <2>1. j \in 0..Len(v) - 1 /\ n + j \in S /\ k \in 0..Len(v) - 1 /\ n + k \in S
    BY <1>4
  <2>2. j < k
    BY <1>0, <1>6, <2>0
  <2>. HIDE DEF j, k
  <2>3. StandIn(v, j) # StandIn(v, k)
    BY <2>1, <2>2, StandInApart DEF S, n
  <2>. QED
    BY <2>3 DEF j, k
<1>7. \A i, l \in B : i # l => i < l \/ l < i
  <2>1. \A i \in B : i \in Int
    BY <1>1
  <2>. QED
    BY <2>1
<1>8. f \in Injection(B, V)
  <2>1. f \in [B -> V]
    BY <1>5
  <2>2. \A i, l \in B : f[i] = f[l] => i = l
    BY <1>6, <1>7
  <2>. QED
    BY <2>1, <2>2 DEF Injection, IsInjective
<1>9. Cardinality(B) <= Cardinality(V)
  BY <1>1, <1>8, FS_Injection
<1>10. Cardinality(B) = Cardinality(S) - Cardinality(S \cap A)
  BY <1>1, FS_Difference
<1>11. S \cap A = A
  BY <1>3
<1>12. Cardinality(A) \in Nat /\ Cardinality(S) \in Nat /\ Cardinality(V) \in Nat
       /\ Cardinality(A) <= Cardinality(S)
  BY <1>1, <1>3, FS_CardinalityType, FS_Subset
<1>13. Cardinality(S) - Cardinality(A) <= Cardinality(V)
  BY <1>9, <1>10, <1>11
<1>. QED
  BY <1>12, <1>13 DEF S, A, V

LEMMA SliceAt ==
  ASSUME NEW text \in Seq(Char), NEW a \in 0..Len(text), NEW b \in a..Len(text)
  PROVE  \A i \in 0..(b - a) - 1 : At(Slice(text, a, b), i) = At(text, a + i)
<1>. DEFINE s == Slice(text, a, b)
<1>0. Len(text) \in Nat /\ a \in Int /\ b \in Int /\ 0 <= a /\ a <= b /\ b <= Len(text)
  OBVIOUS
<1>1. Len(s) = b - a /\ \A i \in 1..b - a : a + i \in 1..Len(text) /\ s[i] = text[a + i]
  BY SliceIs
<1>. HIDE DEF s
<1>2. ASSUME NEW i \in 0..(b - a) - 1 PROVE At(s, i) = At(text, a + i)
  <2>1. i + 1 \in 1..b - a /\ i \in 0..Len(s) - 1 /\ a + i \in 0..Len(text) - 1
        /\ a + (i + 1) = (a + i) + 1
    BY <1>0, <1>1
  <2>. QED
    BY <1>1, <2>1 DEF At
<1>. QED
  BY <1>2 DEF s

LEMMA SlicesJoin ==
  ASSUME NEW text \in Seq(Char), NEW a \in 0..Len(text), NEW b \in a..Len(text),
         NEW c \in b..Len(text)
  PROVE  Joins(Slice(text, a, c), Slice(text, a, b), Slice(text, b, c))
<1>. DEFINE t == Slice(text, a, c)
            u == Slice(text, a, b)
            v == Slice(text, b, c)
<1>0. a \in Int /\ b \in Int /\ c \in Int /\ a <= b /\ b <= c /\ c \in a..Len(text)
      /\ b \in 0..Len(text) /\ (b - a) + (c - b) = c - a
  OBVIOUS
<1>1. /\ t \in Seq(Char) /\ u \in Seq(Char) /\ v \in Seq(Char)
      /\ Len(t) = c - a /\ Len(u) = b - a /\ Len(v) = c - b
  BY <1>0, SliceIs
<1>2. /\ \A i \in 0..(c - a) - 1 : At(t, i) = At(text, a + i)
      /\ \A i \in 0..(b - a) - 1 : At(u, i) = At(text, a + i)
      /\ \A i \in 0..(c - b) - 1 : At(v, i) = At(text, b + i)
  BY <1>0, SliceAt
<1>. HIDE DEF t, u, v
<1>3. \A i \in 0..Len(u) - 1 : At(t, i) = At(u, i)
  <2>1. \A i \in 0..(b - a) - 1 : i \in 0..(c - a) - 1
    BY <1>0
  <2>. QED
    BY <1>1, <1>2, <2>1
<1>4. \A i \in 0..Len(v) - 1 : At(t, Len(u) + i) = At(v, i)
  <2>1. \A i \in 0..(c - b) - 1 : (b - a) + i \in 0..(c - a) - 1 /\ a + ((b - a) + i) = b + i
    BY <1>0
  <2>. QED
    BY <1>1, <1>2, <2>1
<1>5. Len(t) = Len(u) + Len(v)
  BY <1>0, <1>1
<1>. QED
  BY <1>1, <1>3, <1>4, <1>5 DEF Joins, t, u, v

\* A text has no more tokens than its parts, and its beginning no more than it.
LEMMA TokensAdd ==
  ASSUME NEW text \in Seq(Char), NEW a \in 0..Len(text), NEW b \in a..Len(text),
         NEW c \in b..Len(text)
  PROVE  /\ Tokens(text, a, b) \in Nat /\ Tokens(text, a, c) \in Nat /\ Tokens(text, b, c) \in Nat
         /\ Tokens(text, a, b) <= Tokens(text, a, c)
         /\ Tokens(text, a, c) <= Tokens(text, a, b) + Tokens(text, b, c)
<1>1. Joins(Slice(text, a, c), Slice(text, a, b), Slice(text, b, c))
  BY SlicesJoin
<1>2. /\ Slice(text, a, b) \in Seq(Char) /\ Slice(text, a, c) \in Seq(Char)
      /\ Slice(text, b, c) \in Seq(Char)
  BY <1>1 DEF Joins
<1>3. /\ Tokens(text, a, b) \in Nat /\ Tokens(text, a, c) \in Nat /\ Tokens(text, b, c) \in Nat
  BY <1>2, CountIs DEF Tokens
<1>. QED
  BY <1>1, <1>3, TokensJoin DEF Tokens

\* Whitespace has no tokens but its newlines.
LEMMA BlankTokens ==
  ASSUME NEW text \in Seq(Char), NEW a \in 0..Len(text), NEW b \in a..Len(text),
         AllSpace(text, a, b), \A i \in a..b - 1 : At(text, i) # "\n"
  PROVE  Tokens(text, a, b) = 0
<1>. DEFINE s == Slice(text, a, b)
<1>0. a \in Int /\ b \in Int /\ a <= b
  OBVIOUS
<1>1. s \in Seq(Char) /\ Len(s) = b - a /\ \A i \in 0..(b - a) - 1 : At(s, i) = At(text, a + i)
  BY SliceIs, SliceAt
<1>. HIDE DEF s
<1>2. \A x \in Letter : x \notin Space
  BY DEF Letter, Space, Blank
<1>3. ASSUME NEW i \in 0..Len(s) - 1 PROVE i \notin TokenStarts(s)
  <2>1. i \in 0..(b - a) - 1 /\ a + i \in a..b - 1
    BY <1>0, <1>1
  <2>2. At(s, i) \in Space /\ At(s, i) # "\n"
    BY <1>1, <2>1 DEF AllSpace
  <2>. QED
    BY <1>1, <1>2, <2>2, TokenIs
<1>4. TokenStarts(s) = {}
  BY <1>1, <1>3, CountIs
<1>. QED
  BY <1>4, FS_EmptySet DEF Tokens, s

LEMMA CountTokens ==
  ASSUME NEW text \in Seq(Char), NEW a \in 0..Len(text), NEW b \in a + 1..Len(text)
  PROVE  /\ Count(Slice(text, a, b)) \in Nat /\ Tokens(text, a, b) \in Nat
         /\ Count(Slice(text, a, b)) = IF Tokens(text, a, b) >= 1 THEN Tokens(text, a, b) ELSE 1
<1>0. b \in a..Len(text) /\ b - a > 0 /\ a \in Int
  OBVIOUS
<1>1. Slice(text, a, b) \in Seq(Char) /\ Len(Slice(text, a, b)) = b - a
  BY <1>0, SliceIs
<1>2. Slice(text, a, b) # <<>>
  <2>1. Len(Slice(text, a, b)) # 0
    BY <1>0, <1>1
  <2>. QED
    BY <2>1
<1>. QED
  BY <1>1, <1>2, CountIs DEF Tokens

LEMMA ThreeElements ==
  ASSUME NEW x, NEW y, NEW z, x # y, x # z, y # z
  PROVE  IsFiniteSet({x, y, z}) /\ Cardinality({x, y, z}) = 3
<1>1. IsFiniteSet({x}) /\ Cardinality({x}) = 1
  BY FS_Singleton
<1>2. IsFiniteSet({x} \cup {y}) /\ Cardinality({x} \cup {y}) = 2
  BY <1>1, FS_AddElement
<1>3. IsFiniteSet(({x} \cup {y}) \cup {z}) /\ Cardinality(({x} \cup {y}) \cup {z}) = 3
  BY <1>2, FS_AddElement
<1>4. ({x} \cup {y}) \cup {z} = {x, y, z}
  OBVIOUS
<1>. QED
  BY <1>3, <1>4

\* Three newlines with nothing but whitespace between them.
LEMMA BlankLinesIs ==
  ASSUME NEW text \in Seq(Char), NEW a \in 0..Len(text), NEW b \in a..Len(text),
         NEW k \in Int, NEW l \in Int, NEW m \in Int, a <= k, k < l, l < m, m < b,
         At(text, k) = "\n", At(text, l) = "\n", At(text, m) = "\n", AllSpace(text, k, m)
  PROVE  BlankLines(Slice(text, a, b))
<1>. DEFINE s == Slice(text, a, b)
            i == (k - a) + 1
            q == RunEnd(s, i - 1, Space)
            J == {j \in i..q : s[j] = "\n"}
<1>0. a \in Int /\ b \in Int /\ a <= b /\ 0 <= a /\ k - a \in 0..b - a
  OBVIOUS
<1>1. /\ s \in Seq(Char) /\ Len(s) = b - a
      /\ \A x \in 0..(b - a) - 1 : At(s, x) = At(text, a + x)
  BY SliceIs, SliceAt
<1>. HIDE DEF s
<1>2. ASSUME NEW x \in k..m
      PROVE  /\ At(s, x - a) = At(text, x) /\ s[(x - a) + 1] = At(text, x)
             /\ At(text, x) \in Space /\ x - a \in 0..(b - a) - 1
  <2>1. x - a \in 0..(b - a) - 1 /\ a + (x - a) = x /\ x - a \in 0..Len(s) - 1
    BY <1>0, <1>1
  <2>2. At(s, x - a) = At(text, x)
    BY <1>1, <2>1
  <2>3. At(s, x - a) = s[(x - a) + 1]
    BY <2>1 DEF At
  <2>4. x = m \/ x \in k..m - 1
    OBVIOUS
  <2>5. At(text, x) \in Space
    BY <2>4, Classes DEF AllSpace
  <2>. QED
    BY <2>1, <2>2, <2>3, <2>5
<1>3. i \in Int /\ i - 1 = k - a /\ i - 1 \in 0..Len(s) /\ i \in 1..Len(s)
  BY <1>0, <1>1
<1>4. q \in i - 1..Len(s) /\ At(s, q) \notin Space
  BY <1>1, <1>3, Classes, RunEndIs
<1>. HIDE DEF q
<1>5. q \in Int /\ q >= (m - a) + 1
  <2>1. q \in Int /\ q >= k - a
    BY <1>1, <1>3, <1>4
  <2>2. ~(q <= m - a)
    <3>. SUFFICES ASSUME q <= m - a PROVE FALSE
      OBVIOUS
    <3>1. q + a \in k..m /\ (q + a) - a = q
      BY <1>0, <2>1
    <3>2. At(s, (q + a) - a) \in Space
      BY <1>2, <3>1
    <3>. QED
      BY <1>4, <3>1, <3>2
  <2>. QED
    BY <1>0, <2>1, <2>2
<1>6. ASSUME NEW x \in {k, l, m} PROVE (x - a) + 1 \in J
  <2>1. x \in k..m /\ At(text, x) = "\n"
    OBVIOUS
  <2>2. (x - a) + 1 \in i..q
    BY <1>0, <1>5, <2>1
  <2>3. s[(x - a) + 1] = "\n"
    BY <1>2, <2>1
  <2>. QED
    BY <2>2, <2>3
<1>. DEFINE T == {(k - a) + 1, (l - a) + 1, (m - a) + 1}
<1>7. T \subseteq J
  BY <1>6
<1>8. IsFiniteSet(T) /\ Cardinality(T) = 3
  <2>1. (k - a) + 1 # (l - a) + 1 /\ (k - a) + 1 # (m - a) + 1 /\ (l - a) + 1 # (m - a) + 1
    BY <1>0
  <2>. QED
    BY <2>1, ThreeElements
<1>9. IsFiniteSet(J)
  <2>1. J \subseteq i..q
    OBVIOUS
  <2>2. IsFiniteSet(i..q)
    BY <1>3, <1>5, FS_Interval
  <2>. HIDE DEF J, i
  <2>. QED
    BY <2>1, <2>2, FS_Subset
<1>. HIDE DEF T
<1>10. Cardinality(J) >= 3
  <2>. HIDE DEF J
  <2>1. Cardinality(T) <= Cardinality(J) /\ Cardinality(J) \in Nat
    BY <1>7, <1>9, FS_Subset, FS_CardinalityType
  <2>. QED
    BY <1>8, <2>1
<1>. QED
  BY <1>3, <1>10 DEF BlankLines, q, s

-----------------------------------------------------------------------------
(* Packing: what is carried over is an end of the chunk that was emitted.  *)

LEMMA NothingCosts ==
  ASSUME NEW text
  PROVE  TotalCost(text, <<>>) = 0
<1>. DEFINE Sum(f, k) == IF k = 0 THEN 0 ELSE f[k - 1] + Cost(text, (<<>>)[k])
            sum == CHOOSE f : f = [k \in 0..0 |-> Sum(f, k)]
<1>1. TotalCost(text, <<>>) = sum[0]
  BY DEF TotalCost
<1>2. [k \in 0..0 |-> 0] = [k \in 0..0 |-> Sum([j \in 0..0 |-> 0], k)]
  OBVIOUS
<1>3. sum = [k \in 0..0 |-> Sum(sum, k)]
  BY <1>2
<1>. HIDE DEF sum
<1>4. sum[0] = Sum(sum, 0)
  BY <1>3
<1>. QED
  BY <1>1, <1>4

\* The last of some pieces.
Ending(t, s) ==
  /\ t \in Seq(Part) /\ Len(t) <= Len(s)
  /\ \A j \in 1..Len(t) : t[j] = s[(Len(s) - Len(t)) + j]

LEMMA EndingIs ==
  ASSUME NEW s \in Seq(Part), NEW k \in 1..Len(s) + 1
  PROVE  Ending(SubSeq(s, k, Len(s)), s) /\ Len(SubSeq(s, k, Len(s))) = (Len(s) - k) + 1
<1>. DEFINE n == Len(s)
            t == SubSeq(s, k, n)
<1>0. n \in Nat /\ k \in Int /\ k <= n + 1 /\ k >= 1
  OBVIOUS
<1>1. \A i \in k..n : s[i] \in Part
  <2>1. \A i \in k..n : i \in 1..n
    BY <1>0
  <2>. QED
    BY <2>1
<1>. HIDE DEF n
<1>2. /\ t \in Seq(Part) /\ Len(t) = (IF k <= n THEN n - k + 1 ELSE 0)
      /\ \A i \in 1..n - k + 1 : t[i] = s[k + i - 1]
  BY <1>0, <1>1, SubSeqProperties
<1>. HIDE DEF t
<1>3. Len(t) = (n - k) + 1
  BY <1>0, <1>2
<1>4. \A j \in 1..Len(t) : j \in 1..n - k + 1 /\ (n - Len(t)) + j = k + j - 1
  BY <1>0, <1>3
<1>5. /\ t \in Seq(Part) /\ Len(t) <= n /\ Len(t) = (n - k) + 1
      /\ \A j \in 1..Len(t) : t[j] = s[(n - Len(t)) + j]
  <2>1. Len(t) <= n
    BY <1>0, <1>3
  <2>2. \A j \in 1..Len(t) : t[j] = s[k + j - 1]
    BY <1>2, <1>4
  <2>. QED
    BY <1>2, <1>3, <1>4, <2>1, <2>2
<1>. QED
  BY <1>5 DEF Ending, n, t

LEMMA EndingOfEnding ==
  ASSUME NEW r, NEW s, NEW t, s \in Seq(Part), t \in Seq(Part), Ending(r, s), Ending(s, t)
  PROVE  Ending(r, t)
<1>0. /\ Len(r) \in Nat /\ Len(s) \in Nat /\ Len(t) \in Nat
      /\ Len(r) <= Len(s) /\ Len(s) <= Len(t) /\ r \in Seq(Part)
  BY DEF Ending
<1>1. ASSUME NEW j \in 1..Len(r) PROVE r[j] = t[(Len(t) - Len(r)) + j]
  <2>1. (Len(s) - Len(r)) + j \in 1..Len(s)
        /\ (Len(t) - Len(s)) + ((Len(s) - Len(r)) + j) = (Len(t) - Len(r)) + j
    BY <1>0
  <2>2. r[j] = s[(Len(s) - Len(r)) + j]
    BY DEF Ending
  <2>3. s[(Len(s) - Len(r)) + j] = t[(Len(t) - Len(s)) + ((Len(s) - Len(r)) + j)]
    BY <2>1 DEF Ending
  <2>. QED
    BY <2>1, <2>2, <2>3
<1>2. Len(r) <= Len(t)
  BY <1>0
<1>. QED
  BY <1>0, <1>1, <1>2 DEF Ending

LEMMA LongestSuffixIs ==
  ASSUME NEW text, NEW s \in Seq(Part), NEW budget \in Nat
  PROVE  /\ Ending(LongestSuffix(text, s, budget), s)
         /\ TotalCost(text, LongestSuffix(text, s, budget)) <= budget
<1>. DEFINE n == Len(s)
            fitting == {k \in 1..n + 1 : TotalCost(text, SubSeq(s, k, n)) <= budget}
<1>0. n \in Nat
  OBVIOUS
<1>1. n + 1 \in fitting
  <2>1. n + 1 \in 1..n + 1 /\ n < n + 1 /\ n + 1 \in Int /\ n \in Int
    BY <1>0
  <2>2. SubSeq(s, n + 1, n) = <<>>
    BY <2>1, SubSeqEmpty
  <2>3. TotalCost(text, SubSeq(s, n + 1, n)) = 0
    BY <2>2, NothingCosts, Zenon
  <2>4. TotalCost(text, SubSeq(s, n + 1, n)) <= budget
    BY <2>3
  <2>. QED
    BY <2>1, <2>4
<1>2. fitting \in SUBSET Int /\ fitting # {} /\ \A k \in fitting : 1 <= k
  BY <1>1
<1>3. \A k \in fitting : k \in 1..n + 1 /\ TotalCost(text, SubSeq(s, k, n)) <= budget
  OBVIOUS
<1>4. Min(fitting) \in 1..n + 1 /\ TotalCost(text, SubSeq(s, Min(fitting), n)) <= budget
  <2>. HIDE DEF fitting
  <2>1. 1 \in Int
    OBVIOUS
  <2>2. Min(fitting) \in fitting
    BY <1>2, <2>1, MinIs
  <2>. QED
    BY <1>3, <2>2
<1>5. Ending(SubSeq(s, Min(fitting), n), s)
  <2>. HIDE DEF fitting
  <2>. QED
    BY <1>4, EndingIs
<1>. QED
  BY <1>4, <1>5 DEF LongestSuffix

\* What a chunk leaves to the next one: its last pieces, never the first.
LEMMA CarriedIs ==
  ASSUME NEW text, NEW s \in Seq(Part), s # <<>>, NEW piece, Cost(text, piece) \in Nat
  PROVE  Ending(Carried(text, s, piece), s) /\ Len(Carried(text, s, piece)) < Len(s)
<1>. DEFINE n == Len(s)
            tail == OverlapTail(text, s)
            room == ChunkSize - Cost(text, piece)
<1>0. n \in Nat /\ n > 0 /\ Overlap \in Nat /\ ChunkSize \in Nat
  BY ChunkingAssumption
<1>1. Tail(s) = SubSeq(s, 2, n) /\ 2 \in 1..n + 1
  BY <1>0, TailIsSubSeq
<1>2. Ending(Tail(s), s) /\ Len(Tail(s)) = (n - 2) + 1
  BY <1>1, EndingIs
<1>3. Tail(s) \in Seq(Part)
  BY <1>2 DEF Ending
<1>4. Ending(tail, Tail(s))
  BY <1>0, <1>3, LongestSuffixIs DEF OverlapTail
<1>. HIDE DEF tail
<1>5. tail \in Seq(Part)
  BY <1>4 DEF Ending
<1>6. CASE room < 0
  <2>1. Carried(text, s, piece) = <<>>
    BY <1>6 DEF Carried
  <2>2. Ending(<<>>, s)
    BY <1>0 DEF Ending
  <2>. QED
    BY <1>0, <2>1, <2>2
<1>7. CASE ~(room < 0)
  <2>0. room \in Nat
    BY <1>0, <1>7
  <2>. DEFINE c == LongestSuffix(text, tail, room)
  <2>1. Carried(text, s, piece) = c
    BY <1>7 DEF Carried, tail
  <2>. HIDE DEF room
  <2>2. Ending(c, tail)
    BY <1>5, <2>0, LongestSuffixIs
  <2>. HIDE DEF c
  <2>3. Ending(c, Tail(s))
    BY <1>3, <1>4, <1>5, <2>2, EndingOfEnding
  <2>4. Ending(c, s) /\ Len(c) <= Len(Tail(s)) /\ Len(c) \in Nat
    BY <1>2, <1>3, <2>3, EndingOfEnding DEF Ending
  <2>. QED
    BY <1>0, <1>2, <2>1, <2>4
<1>. QED
  BY <1>6, <1>7

LEMMA CostIs ==
  ASSUME NEW text \in Seq(Char), NEW piece \in Part,
         0 <= piece.start, piece.start <= piece.next, piece.next <= Len(text)
  PROVE  Cost(text, piece) \in Nat
<1>1. piece.start \in 0..Len(text) /\ piece.next \in piece.start..Len(text)
  BY DEF Part
<1>2. Slice(text, piece.start, piece.next) \in Seq(Char)
  BY <1>1, SliceIs
<1>. QED
  BY <1>2, CountIs DEF Cost

\* Pieces that are laid follow each other however far apart they are.
LEMMA LaidOrder ==
  ASSUME NEW r \in Seq(Part), NEW lo \in Int, NEW hi \in Int, Laid(r, lo, hi),
         NEW i \in 1..Len(r)
  PROVE  \A j \in i + 1..Len(r) : r[i].next <= r[j].start
<1>. DEFINE n == Len(r)
            G == {j \in i + 1..n : r[i].next <= r[j].start}
<1>0. n \in Nat /\ i \in Int
  OBVIOUS
<1>1. \A j \in 1..n : /\ r[j].start \in Int /\ r[j].end \in Int /\ r[j].next \in Int
                      /\ r[j].start < r[j].end /\ r[j].end <= r[j].next
  BY PartIs DEF Laid
<1>2. \A j \in 2..n : r[j - 1].next <= r[j].start
  BY DEF Laid
<1>3. ASSUME NEW j \in i + 1..n, \A q \in i + 1..j - 1 : q \in G PROVE j \in G
  <2>0. j \in 2..n /\ j \in 1..n /\ j - 1 \in 1..n /\ j \in Int /\ i \in 1..n
    BY <1>0
  <2>1. r[j - 1].next <= r[j].start
    BY <1>2, <2>0
  <2>2. CASE j = i + 1
    <3>1. j - 1 = i
      BY <1>0, <2>2
    <3>. QED
      BY <2>1, <3>1
  <2>3. CASE j # i + 1
    <3>1. j - 1 \in i + 1..j - 1
      BY <1>0, <2>0, <2>3
    <3>2. r[i].next <= r[j - 1].start
      BY <1>3, <3>1
    <3>3. /\ r[i].next \in Int /\ r[j - 1].start \in Int /\ r[j - 1].end \in Int
          /\ r[j - 1].next \in Int /\ r[j].start \in Int
          /\ r[j - 1].start < r[j - 1].end /\ r[j - 1].end <= r[j - 1].next
      BY <1>1, <2>0
    <3>4. \A a, b, c, d, e \in Int : a <= b /\ b < c /\ c <= d /\ d <= e => a <= e
      OBVIOUS
    <3>5. r[i].next <= r[j].start
      BY <2>1, <3>2, <3>3, <3>4
    <3>. QED
      BY <3>5
  <2>. QED
    BY <2>2, <2>3
<1>4. \A j \in i + 1..n : j \in G
  <2>1. \A j \in i + 1..n : (\A q \in i + 1..j - 1 : q \in G) => j \in G
    BY <1>3
  <2>2. i + 1 \in Int /\ n \in Int
    BY <1>0
  <2>. HIDE DEF G, n
  <2>. QED
    BY <2>1, <2>2, Ascend
<1>. QED
  BY <1>4

LEMMA EndingLaid ==
  ASSUME NEW t, NEW s \in Seq(Part), Ending(t, s), NEW lo \in Int, NEW hi \in Int, Laid(s, lo, hi)
  PROVE  /\ Laid(t, lo, hi)
         /\ t # <<>> => Len(t) > 0 /\ s # <<>> /\ t[Len(t)] = s[Len(s)]
         /\ t # <<>> /\ Len(t) < Len(s) => s[1].start < t[1].start
<1>. DEFINE d == Len(s) - Len(t)
<1>0. /\ Len(s) \in Nat /\ Len(t) \in Nat /\ d \in Nat /\ Len(t) + d = Len(s) /\ t \in Seq(Part)
      /\ \A j \in 1..Len(t) : t[j] = s[d + j] /\ d + j \in 1..Len(s)
  <2>1. t \in Seq(Part) /\ Len(t) <= Len(s) /\ \A j \in 1..Len(t) : t[j] = s[d + j]
    BY DEF Ending
  <2>2. Len(s) \in Nat /\ Len(t) \in Nat
    BY <2>1
  <2>. QED
    BY <2>1, <2>2
<1>. HIDE DEF d
<1>1. Laid(t, lo, hi)
  <2>1. \A j \in 1..Len(t) : /\ lo <= t[j].start /\ t[j].start < t[j].end
                             /\ t[j].end <= t[j].next /\ t[j].next <= hi
    BY <1>0 DEF Laid
  <2>2. ASSUME NEW j \in 2..Len(t) PROVE t[j - 1].next <= t[j].start
    <3>1. j \in 1..Len(t) /\ j - 1 \in 1..Len(t) /\ d + j \in 2..Len(s) /\ (d + j) - 1 = d + (j - 1)
      BY <1>0
    <3>2. s[(d + j) - 1].next <= s[d + j].start
      BY <3>1 DEF Laid
    <3>. QED
      BY <1>0, <3>1, <3>2
  <2>. QED
    BY <2>1, <2>2 DEF Laid
<1>2. ASSUME t # <<>> PROVE Len(t) > 0 /\ s # <<>> /\ t[Len(t)] = s[Len(s)]
  <2>1. Len(t) > 0
    BY <1>0, <1>2
  <2>2. Len(t) \in 1..Len(t) /\ d + Len(t) = Len(s) /\ Len(s) > 0
    BY <1>0, <2>1
  <2>3. t[Len(t)] = s[d + Len(t)]
    BY <1>0, <2>2
  <2>. QED
    BY <2>1, <2>2, <2>3
<1>3. ASSUME t # <<>>, Len(t) < Len(s) PROVE s[1].start < t[1].start
  <2>1. 1 \in 1..Len(t) /\ d + 1 \in 1 + 1..Len(s) /\ 1 \in 1..Len(s) /\ d + 1 \in 1..Len(s)
    BY <1>0, <1>2, <1>3
  <2>2. s[1].next <= s[d + 1].start
    BY <2>1, LaidOrder
  <2>3. s[1].start < s[1].end /\ s[1].end <= s[1].next
    BY <2>1 DEF Laid
  <2>4. s[1].start \in Int /\ s[1].end \in Int /\ s[1].next \in Int /\ s[d + 1].start \in Int
    BY <2>1, PartIs
  <2>5. s[1].start < s[d + 1].start
    BY <2>2, <2>3, <2>4
  <2>. QED
    BY <1>0, <2>1, <2>5
<1>. QED
  BY <1>1, <1>2, <1>3

LEMMA AppendIs ==
  ASSUME NEW S, NEW s \in Seq(S), NEW x \in S
  PROVE  /\ Append(s, x) \in Seq(S) /\ Len(Append(s, x)) = Len(s) + 1 /\ Len(s) \in Nat
         /\ Append(s, x) # <<>>
         /\ Append(s, x)[Len(s) + 1] = x
         /\ \A j \in 1..Len(s) : Append(s, x)[j] = s[j] /\ j # Len(s) + 1
OBVIOUS

LEMMA EndingAppend ==
  ASSUME NEW t, NEW s \in Seq(Part), Ending(t, s), NEW x \in Part
  PROVE  Ending(Append(t, x), Append(s, x))
<1>. DEFINE a == Append(t, x)
            b == Append(s, x)
            d == Len(s) - Len(t)
<1>0. /\ t \in Seq(Part) /\ Len(t) <= Len(s) /\ Len(t) \in Nat /\ Len(s) \in Nat
      /\ \A j \in 1..Len(t) : t[j] = s[d + j]
  <2>1. t \in Seq(Part) /\ Len(t) <= Len(s) /\ \A j \in 1..Len(t) : t[j] = s[d + j]
    BY DEF Ending
  <2>. QED
    BY <2>1
<1>1. /\ a \in Seq(Part) /\ Len(a) = Len(t) + 1 /\ a[Len(t) + 1] = x
      /\ \A j \in 1..Len(t) : a[j] = t[j]
  BY <1>0, AppendIs
<1>2. /\ b \in Seq(Part) /\ Len(b) = Len(s) + 1 /\ b[Len(s) + 1] = x
      /\ \A j \in 1..Len(s) : b[j] = s[j]
  BY AppendIs
<1>. HIDE DEF a, b
<1>3. d \in Nat /\ Len(b) - Len(a) = d /\ d + Len(t) = Len(s) /\ d + (Len(t) + 1) = Len(s) + 1
  BY <1>0, <1>1, <1>2
<1>. HIDE DEF d
<1>4. ASSUME NEW j \in 1..Len(a) PROVE a[j] = b[d + j]
  <2>1. CASE j = Len(t) + 1
    BY <1>1, <1>2, <1>3, <2>1
  <2>2. CASE j # Len(t) + 1
    <3>1. j \in 1..Len(t) /\ d + j \in 1..Len(s)
      BY <1>0, <1>1, <1>3, <2>2
    <3>. QED
      BY <1>0, <1>1, <1>2, <3>1
  <2>. QED
    BY <2>1, <2>2
<1>5. Len(a) <= Len(b)
  BY <1>0, <1>1, <1>2
<1>. QED
  BY <1>1, <1>3, <1>4, <1>5 DEF Ending, a, b

\* Whether pieces come before others.
Follows(r, s) == r # <<>> /\ s # <<>> => r[Len(r)].next <= s[1].start

LEMMA AppendLaid ==
  ASSUME NEW s \in Seq(Part), NEW p \in Seq(Part), p # <<>>, NEW lo \in Int, NEW hi \in Int,
         Laid(s, lo, hi), Laid(p, lo, hi), Follows(s, p)
  PROVE  /\ p[1] \in Part /\ Head(p) = p[1]
         /\ Append(s, p[1]) \in Seq(Part) /\ Laid(Append(s, p[1]), lo, hi)
         /\ Tail(p) \in Seq(Part) /\ Laid(Tail(p), lo, hi) /\ Follows(Append(s, p[1]), Tail(p))
         /\ \A i : Within(s, i) => Within(Append(s, p[1]), i)
         /\ \A i : Within(p, i) => Within(Append(s, p[1]), i) \/ Within(Tail(p), i)
         /\ s # <<>> => s[Len(s)].end < p[1].end
<1>. DEFINE x == p[1]
            a == Append(s, x)
            t == Tail(p)
<1>0. Len(p) \in Nat /\ Len(s) \in Nat /\ Len(p) > 0 /\ 1 \in 1..Len(p) /\ Head(p) = x
  OBVIOUS
<1>1. x \in Part /\ x.start \in Int /\ x.end \in Int /\ x.next \in Int
  BY <1>0, PartIs
<1>2. lo <= x.start /\ x.start < x.end /\ x.end <= x.next /\ x.next <= hi
  BY <1>0 DEF Laid
<1>. HIDE DEF x
<1>3. /\ a \in Seq(Part) /\ Len(a) = Len(s) + 1 /\ a[Len(s) + 1] = x
      /\ \A j \in 1..Len(s) : a[j] = s[j]
  BY <1>1, AppendIs
<1>4. t \in Seq(Part) /\ Len(t) = Len(p) - 1 /\ \A j \in 1..Len(t) : t[j] = p[j + 1]
  BY <1>0, HeadTailProperties
<1>. HIDE DEF a, t
<1>5. s # <<>> => Len(s) > 0 /\ Len(s) \in 1..Len(s) /\ s[Len(s)].next <= x.start
  BY <1>0 DEF Follows, x
<1>6. \A j \in 1..Len(s) : s[j].start \in Int /\ s[j].end \in Int /\ s[j].next \in Int
  BY PartIs
<1>7. Laid(a, lo, hi)
  <2>1. ASSUME NEW j \in 1..Len(a)
        PROVE  lo <= a[j].start /\ a[j].start < a[j].end /\ a[j].end <= a[j].next /\ a[j].next <= hi
    <3>1. CASE j = Len(s) + 1
      BY <1>2, <1>3, <3>1
    <3>2. CASE j # Len(s) + 1
      <4>1. j \in 1..Len(s) /\ a[j] = s[j]
        BY <1>0, <1>3, <3>2
      <4>. QED
        BY <4>1 DEF Laid
    <3>. QED
      BY <3>1, <3>2
  <2>2. ASSUME NEW j \in 2..Len(a) PROVE a[j - 1].next <= a[j].start
    <3>1. CASE j = Len(s) + 1
      <4>1. Len(s) \in 1..Len(s) /\ j - 1 = Len(s) /\ s # <<>>
        BY <1>0, <3>1
      <4>. QED
        BY <1>3, <1>5, <3>1, <4>1
    <3>2. CASE j # Len(s) + 1
      <4>1. j \in 1..Len(s) /\ j - 1 \in 1..Len(s) /\ j \in 2..Len(s)
        BY <1>0, <1>3, <3>2
      <4>2. a[j] = s[j] /\ a[j - 1] = s[j - 1]
        BY <1>3, <4>1
      <4>3. s[j - 1].next <= s[j].start
        BY <4>1 DEF Laid
      <4>. QED
        BY <4>2, <4>3
    <3>. QED
      BY <3>1, <3>2
  <2>. QED
    BY <2>1, <2>2 DEF Laid
<1>8. Laid(t, lo, hi)
  <2>1. \A j \in 1..Len(t) : j + 1 \in 1..Len(p)
    BY <1>0, <1>4
  <2>2. \A j \in 2..Len(t) : j \in 1..Len(t) /\ j - 1 \in 1..Len(t) /\ j + 1 \in 2..Len(p)
                             /\ (j - 1) + 1 = (j + 1) - 1
    BY <1>0, <1>4
  <2>3. \A j \in 1..Len(t) : /\ lo <= t[j].start /\ t[j].start < t[j].end
                             /\ t[j].end <= t[j].next /\ t[j].next <= hi
    BY <1>4, <2>1 DEF Laid
  <2>4. ASSUME NEW j \in 2..Len(t) PROVE t[j - 1].next <= t[j].start
    <3>1. t[j] = p[j + 1] /\ t[j - 1] = p[(j + 1) - 1]
      BY <1>4, <2>2
    <3>2. p[(j + 1) - 1].next <= p[j + 1].start
      BY <2>2 DEF Laid
    <3>. QED
      BY <3>1, <3>2
  <2>. QED
    BY <2>3, <2>4 DEF Laid
<1>9. Follows(a, t)
  <2>. SUFFICES ASSUME t # <<>> PROVE a[Len(a)].next <= t[1].start
    BY DEF Follows
  <2>1. 1 \in 1..Len(t) /\ 2 \in 2..Len(p) /\ 2 - 1 = 1 /\ 1 + 1 = 2
    BY <1>0, <1>4
  <2>2. p[2 - 1].next <= p[2].start
    BY <2>1 DEF Laid
  <2>3. t[1] = p[2] /\ a[Len(a)] = p[1]
    BY <1>3, <1>4, <2>1 DEF x
  <2>. QED
    BY <2>1, <2>2, <2>3
<1>10. ASSUME NEW i, Within(s, i) PROVE Within(a, i)
  <2>1. PICK j \in 1..Len(s) : s[j].start <= i /\ i < s[j].end
    BY <1>10 DEF Within
  <2>2. j \in 1..Len(a) /\ a[j] = s[j]
    BY <1>0, <1>3
  <2>. QED
    BY <2>1, <2>2 DEF Within
<1>11. ASSUME NEW i, Within(p, i) PROVE Within(a, i) \/ Within(t, i)
  <2>1. PICK j \in 1..Len(p) : p[j].start <= i /\ i < p[j].end
    BY <1>11 DEF Within
  <2>2. CASE j = 1
    <3>1. Len(s) + 1 \in 1..Len(a) /\ a[Len(s) + 1] = p[j]
      BY <1>0, <1>3, <2>2 DEF x
    <3>. QED
      BY <2>1, <3>1 DEF Within
  <2>3. CASE j # 1
    <3>1. j - 1 \in 1..Len(t) /\ (j - 1) + 1 = j
      BY <1>0, <1>4, <2>3
    <3>2. t[j - 1] = p[j]
      BY <1>4, <3>1
    <3>. QED
      BY <2>1, <3>1, <3>2 DEF Within
  <2>. QED
    BY <2>2, <2>3
<1>12. ASSUME s # <<>> PROVE s[Len(s)].end < x.end
  <2>1. s[Len(s)].next <= x.start /\ Len(s) \in 1..Len(s)
    BY <1>5, <1>12
  <2>2. s[Len(s)].end <= s[Len(s)].next
    BY <2>1 DEF Laid
  <2>3. s[Len(s)].end \in Int /\ s[Len(s)].next \in Int
    BY <1>6, <2>1
  <2>. QED
    BY <1>1, <1>2, <2>1, <2>2, <2>3
<1>. QED
  BY <1>0, <1>1, <1>3, <1>4, <1>7, <1>8, <1>9, <1>10, <1>11, <1>12 DEF a, t, x

-----------------------------------------------------------------------------
(* What pieces cost: as much as the tokens of the span they take, or more. *)

LEMMA PieceCosts ==
  ASSUME NEW text \in Seq(Char), NEW r \in Seq(Part), Laid(r, 0, Len(text)), NEW k \in 1..Len(r)
  PROVE  /\ r[k].start \in 0..Len(text) /\ r[k].end \in r[k].start + 1..Len(text)
         /\ r[k].next \in r[k].end..Len(text) /\ r[k].next \in r[k].start + 1..Len(text)
         /\ Cost(text, r[k]) \in Nat /\ Cost(text, r[k]) >= 1
         /\ Tokens(text, r[k].start, r[k].next) \in Nat
         /\ Cost(text, r[k]) >= Tokens(text, r[k].start, r[k].next)
<1>. DEFINE x == r[k].start
            y == r[k].end
            z == r[k].next
<1>1. x \in Int /\ y \in Int /\ z \in Int /\ 0 <= x /\ x < y /\ y <= z /\ z <= Len(text)
  BY PartIs DEF Laid
<1>2. Cost(text, r[k]) = Count(Slice(text, x, z))
  BY DEF Cost
<1>. HIDE DEF x, y, z
<1>3. x \in 0..Len(text) /\ y \in x + 1..Len(text) /\ z \in y..Len(text) /\ z \in x + 1..Len(text)
  BY <1>1
<1>4. /\ Count(Slice(text, x, z)) \in Nat /\ Tokens(text, x, z) \in Nat
      /\ Count(Slice(text, x, z)) = IF Tokens(text, x, z) >= 1 THEN Tokens(text, x, z) ELSE 1
  BY <1>3, CountTokens
<1>5. Count(Slice(text, x, z)) >= 1 /\ Count(Slice(text, x, z)) >= Tokens(text, x, z)
  BY <1>4
<1>. QED
  BY <1>2, <1>3, <1>4, <1>5 DEF x, y, z

\* The costs of the first pieces, one more at a time.
Sums(text, r, f) ==
  /\ f \in [0..Len(r) -> Nat] /\ f[0] = 0
  /\ \A k \in 1..Len(r) : f[k] = f[k - 1] + Cost(text, r[k])

LEMMA TotalCostIs ==
  ASSUME NEW text \in Seq(Char), NEW r \in Seq(Part), Laid(r, 0, Len(text))
  PROVE  \E f : Sums(text, r, f) /\ TotalCost(text, r) = f[Len(r)]
<1>. DEFINE n == Len(r)
            D == 0..n
            Sum(g, k) == IF k = 0 THEN 0 ELSE g[k - 1] + Cost(text, r[k])
            rank == [k \in D |-> k]
            Rec == [k \in D |-> [g \in [D -> Nat] |-> Sum(g, k)]]
            chosen == CHOOSE f : f = [k \in D |-> Sum(f, k)]
<1>0. n \in Nat /\ n \in D /\ 0 \in D
      /\ \A k \in D : k \in Int /\ (k = 0 \/ (k \in 1..n /\ k - 1 \in D))
  OBVIOUS
<1>1. TotalCost(text, r) = chosen[n]
  BY DEF TotalCost
<1>2. \A k \in 1..n : Cost(text, r[k]) \in Nat
  BY PieceCosts
<1>3. \A k \in D, g \in [D -> Nat] : Sum(g, k) \in Nat
  <2>. TAKE k \in D, g \in [D -> Nat]
  <2>1. CASE k = 0
    BY <2>1
  <2>2. CASE k # 0
    <3>1. k \in 1..n /\ k - 1 \in D
      BY <1>0, <2>2
    <3>2. g[k - 1] \in Nat /\ Cost(text, r[k]) \in Nat
      BY <1>2, <3>1
    <3>. QED
      BY <3>2
  <2>. QED
    BY <2>1, <2>2
<1>4. Rec \in [D -> [[D -> Nat] -> Nat]]
      /\ \A k \in D, g \in [D -> Nat] : Rec[k][g] = Sum(g, k)
  BY <1>3
<1>5. rank \in [D -> 0..n] /\ \A k \in D : rank[k] = k
  OBVIOUS
<1>6. \A k \in D : \A g, h \in [D -> Nat] :
        (\A q \in D : rank[q] < rank[k] => g[q] = h[q]) => Rec[k][g] = Rec[k][h]
  <2>. SUFFICES ASSUME NEW k \in D, NEW g \in [D -> Nat], NEW h \in [D -> Nat],
                       \A q \in D : rank[q] < rank[k] => g[q] = h[q]
                PROVE  Sum(g, k) = Sum(h, k)
    BY <1>4
  <2>1. CASE k = 0
    BY <2>1
  <2>2. CASE k # 0
    <3>1. k - 1 \in D /\ k \in Int
      BY <1>0, <2>2
    <3>2. rank[k - 1] < rank[k]
      BY <1>5, <3>1
    <3>. QED
      BY <2>2, <3>1, <3>2
  <2>. QED
    BY <2>1, <2>2
<1>7. PICK f \in [D -> Nat] : \A k \in D : f[k] = Rec[k][f]
  <2>1. Nat # {}
    OBVIOUS
  <2>. HIDE DEF D, rank, Rec, n
  <2>2. Recursive(D, n, rank, Nat, Rec)
    BY <1>0, <1>4, <1>5, <1>6, <2>1 DEF Recursive
  <2>. QED
    BY <2>2, RecursionExists
<1>8. f = [k \in D |-> Sum(f, k)]
  BY <1>4, <1>7
<1>9. chosen = [k \in D |-> Sum(chosen, k)]
  BY <1>8
<1>. HIDE DEF chosen
<1>10. \A k \in D : chosen[k] = Sum(chosen, k)
  BY <1>9
<1>11. chosen[0] = 0 /\ \A k \in 1..n : chosen[k] = chosen[k - 1] + Cost(text, r[k])
  <2>1. \A k \in 1..n : k \in D /\ k # 0
    BY <1>0
  <2>. QED
    BY <1>0, <1>10, <2>1
<1>12. chosen \in [D -> Nat]
  <2>. DEFINE G == {k \in D : chosen[k] \in Nat}
  <2>1. ASSUME NEW k \in 0..n, \A q \in 0..k - 1 : q \in G PROVE k \in G
    <3>1. CASE k = 0
      BY <1>11, <3>1
    <3>2. CASE k # 0
      <4>1. k \in 1..n /\ k - 1 \in 0..k - 1
        BY <1>0, <3>2
      <4>2. chosen[k - 1] \in Nat
        BY <2>1, <4>1
      <4>3. chosen[k] \in Nat
        BY <1>2, <1>11, <4>1, <4>2
      <4>. QED
        BY <4>3
    <3>. QED
      BY <3>1, <3>2
  <2>2. \A k \in 0..n : k \in G
    <3>1. 0 \in Int /\ n \in Int /\ \A k \in 0..n : (\A q \in 0..k - 1 : q \in G) => k \in G
      BY <1>0, <2>1
    <3>. HIDE DEF G
    <3>. QED
      BY <3>1, Ascend
  <2>3. \A k \in D : chosen[k] \in Nat
    BY <2>2
  <2>4. chosen = [k \in D |-> chosen[k]]
    BY <1>9
  <2>. HIDE DEF D
  <2>. QED
    BY <2>3, <2>4
<1>13. Sums(text, r, chosen)
  BY <1>11, <1>12 DEF Sums
<1>. QED
  BY <1>1, <1>13

LEMMA AppendCosts ==
  ASSUME NEW text \in Seq(Char), NEW r \in Seq(Part), NEW x \in Part,
         NEW s, s = Append(r, x), Laid(s, 0, Len(text))
  PROVE  /\ TotalCost(text, s) = TotalCost(text, r) + Cost(text, x)
         /\ TotalCost(text, r) \in Nat /\ Cost(text, x) \in Nat
<1>. DEFINE n == Len(r)
<1>0. /\ s \in Seq(Part) /\ Len(s) = n + 1 /\ n \in Nat /\ s[n + 1] = x
      /\ \A j \in 1..n : s[j] = r[j]
  BY AppendIs
<1>1. Laid(r, 0, Len(text))
  <2>1. \A j \in 1..n : j \in 1..Len(s)
    BY <1>0
  <2>2. \A j \in 2..n : j \in 2..Len(s) /\ j \in 1..n /\ j - 1 \in 1..n
    BY <1>0
  <2>. QED
    BY <1>0, <2>1, <2>2 DEF Laid
<1>2. PICK f : Sums(text, r, f) /\ TotalCost(text, r) = f[n]
  BY <1>1, TotalCostIs
<1>3. PICK g : Sums(text, s, g) /\ TotalCost(text, s) = g[Len(s)]
  BY <1>0, TotalCostIs
<1>. HIDE DEF n
<1>4. Len(r) = n
  BY DEF n
<1>. DEFINE G == {k \in 0..n : f[k] = g[k]}
<1>5. ASSUME NEW k \in 0..n, \A q \in 0..k - 1 : q \in G PROVE k \in G
  <2>1. CASE k = 0
    BY <1>0, <1>2, <1>3, <2>1 DEF Sums
  <2>2. CASE k # 0
    <3>1. k \in 1..n /\ k - 1 \in 0..k - 1 /\ k \in 1..Len(s)
      BY <1>0, <2>2
    <3>2. f[k - 1] = g[k - 1]
      BY <1>5, <3>1
    <3>3. f[k] = f[k - 1] + Cost(text, r[k])
      BY <1>2, <1>4, <3>1 DEF Sums
    <3>4. g[k] = g[k - 1] + Cost(text, s[k])
      BY <1>3, <3>1 DEF Sums
    <3>5. s[k] = r[k]
      BY <1>0, <3>1
    <3>. QED
      BY <3>2, <3>3, <3>4, <3>5
  <2>. QED
    BY <2>1, <2>2
<1>6. f[n] = g[n]
  <2>1. 0 \in Int /\ n \in Int /\ n \in 0..n
        /\ \A k \in 0..n : (\A q \in 0..k - 1 : q \in G) => k \in G
    BY <1>0, <1>5
  <2>2. n \in G
    <3>. HIDE DEF G
    <3>. QED
      BY <2>1, Ascend
  <2>. QED
    BY <2>2
<1>7. n + 1 \in 1..Len(s) /\ (n + 1) - 1 = n /\ n \in 0..n
  BY <1>0
<1>8. g[n + 1] = g[n] + Cost(text, s[n + 1])
  BY <1>3, <1>7 DEF Sums
<1>9. f[n] \in Nat
  BY <1>2, <1>4, <1>7 DEF Sums
<1>10. Cost(text, s[n + 1]) \in Nat
  BY <1>0, <1>7, PieceCosts
<1>. QED
  BY <1>0, <1>2, <1>3, <1>6, <1>8, <1>9, <1>10

LEMMA GapNewline ==
  ASSUME NEW text \in Seq(Char), NEW p \in Part, NEW q \in Part, Gap(text, p, q),
         NEW a \in 0..Len(text), NEW b \in a..Len(text), a <= p.end, p.end <= p.next,
         q.start < b, NEW m \in p.next..q.start - 1, At(text, m) = "\n"
  PROVE  BlankLines(Slice(text, a, b))
<1>. DEFINE x == p.end
            y == p.next
            z == q.start
<1>0. x \in Int /\ y \in Int /\ z \in Int /\ a <= x /\ x <= y /\ y < z /\ z < b /\ m \in y..z - 1
      /\ a \in Int /\ b \in Int
  BY DEF Part
<1>1. AllSpace(text, y, z) /\ Parted(text, x, y)
  BY <1>0 DEF Gap
<1>. HIDE DEF x, y, z
<1>2. PICK n \in x..y - 2 : /\ At(text, n) = "\n" /\ At(text, y - 1) = "\n" /\ AllSpace(text, n, y)
  BY <1>1 DEF Parted
<1>3. n \in Int /\ y - 1 \in Int /\ m \in Int /\ a <= n /\ n < y - 1 /\ y - 1 < m /\ m < b
  BY <1>0, <1>2
<1>4. AllSpace(text, n, m)
  <2>. SUFFICES ASSUME NEW i \in n..m - 1 PROVE At(text, i) \in Space
    BY DEF AllSpace
  <2>1. i \in n..y - 1 \/ i \in y..z - 1
    BY <1>0, <1>3
  <2>. QED
    BY <1>1, <1>2, <2>1 DEF AllSpace
<1>5. At(text, m) = "\n"
  OBVIOUS
<1>. QED
  BY <1>2, <1>3, <1>4, <1>5, BlankLinesIs

\* The span of some pieces has no more tokens than they cost, blank lines apart.
LEMMA SpanCosts ==
  ASSUME NEW text \in Seq(Char), NEW r \in Seq(Part), r # <<>>, Laid(r, 0, Len(text)),
         Chained(text, r)
  PROVE  \/ Count(Slice(text, r[1].start, r[Len(r)].end)) <= TotalCost(text, r)
         \/ BlankLines(Slice(text, r[1].start, r[Len(r)].end))
<1>. DEFINE n == Len(r)
            L == Len(text)
            a == r[1].start
            b == r[n].end
<1>0. n \in Nat /\ n > 0 /\ 1 \in 1..n /\ n \in 1..n /\ L \in Nat
  OBVIOUS
<1>1. \A k \in 1..n : /\ r[k].start \in 0..L /\ r[k].end \in r[k].start + 1..L
                      /\ r[k].next \in r[k].end..L /\ r[k].next \in r[k].start + 1..L
                      /\ Cost(text, r[k]) \in Nat /\ Cost(text, r[k]) >= 1
                      /\ Tokens(text, r[k].start, r[k].next) \in Nat
                      /\ Cost(text, r[k]) >= Tokens(text, r[k].start, r[k].next)
  BY PieceCosts
<1>2. \A k \in 2..n : k \in 1..n /\ k - 1 \in 1..n /\ r[k - 1].next <= r[k].start
  BY <1>0 DEF Laid
<1>3. PICK f : Sums(text, r, f) /\ TotalCost(text, r) = f[n]
  BY TotalCostIs
<1>a. \A k \in 1..n : r[k] \in Part
  OBVIOUS
<1>4. \A k \in 0..n : f[k] \in Nat
  BY <1>3 DEF Sums
<1>. HIDE DEF n, L
<1>n. Len(r) = n /\ Len(text) = L
  BY DEF n, L
<1>b. \A k \in 1..n : /\ r[k].start \in Int /\ r[k].end \in Int /\ r[k].next \in Int
                      /\ 0 <= r[k].start /\ r[k].start < r[k].end /\ r[k].end <= r[k].next
                      /\ r[k].next <= L
  <2>. TAKE k \in 1..n
  <2>. DEFINE x == r[k].start
              y == r[k].end
              z == r[k].next
  <2>1. x \in 0..L /\ y \in x + 1..L /\ z \in y..L
    BY <1>1
  <2>. HIDE DEF x, y, z
  <2>2. x \in Int /\ y \in Int /\ z \in Int /\ 0 <= x /\ x < y /\ y <= z /\ z <= L
    BY <1>0, <2>1
  <2>. QED
    BY <2>2 DEF x, y, z
<1>5. ASSUME NEW k \in 1..n
      PROVE  a <= r[k].start /\ r[k].end <= b
  <2>1. a <= r[k].start
    <3>1. CASE k = 1
      BY <1>0, <1>1, <3>1
    <3>2. CASE k # 1
      <4>1. k \in 1 + 1..n
        BY <1>0, <3>2
      <4>2. r[1].next <= r[k].start
        BY <1>0, <1>n, <4>1, LaidOrder
      <4>. QED
        BY <1>0, <1>b, <4>2
    <3>. QED
      BY <3>1, <3>2
  <2>2. r[k].end <= b
    <3>1. CASE k = n
      BY <1>0, <1>1, <3>1
    <3>2. CASE k # n
      <4>1. n \in k + 1..n
        BY <1>0, <3>2
      <4>2. r[k].next <= r[n].start
        BY <1>0, <1>n, <4>1, LaidOrder
      <4>3. r[k].end <= r[k].next /\ r[n].start < r[n].end
        BY <1>0, <1>b
      <4>4. /\ r[k].end \in Int /\ r[k].next \in Int /\ r[n].start \in Int /\ r[n].end \in Int
        BY <1>0, <1>b
      <4>. QED
        BY <4>2, <4>3, <4>4
    <3>. QED
      BY <3>1, <3>2
  <2>. QED
    BY <2>1, <2>2
<1>6. a \in 0..L /\ b \in a + 1..L /\ b \in a..L
  <2>1. a \in 0..L /\ b \in r[n].start + 1..L /\ a <= r[n].start /\ r[n].start \in Int
    BY <1>0, <1>1, <1>5
  <2>. HIDE DEF a, b
  <2>. QED
    BY <1>0, <2>1
<1>7. ASSUME NEW k \in 2..n, NEW m \in r[k - 1].next..r[k].start - 1, At(text, m) = "\n"
      PROVE  BlankLines(Slice(text, a, b))
  <2>. DEFINE p == r[k - 1]
              q == r[k]
  <2>1. Gap(text, p, q)
    BY <1>n DEF Chained
  <2>2. p \in Part /\ q \in Part
    BY <1>2, <1>a
  <2>3. a <= p.end /\ p.end <= p.next /\ q.start < b
    <3>1. a <= p.start /\ p.start < p.end /\ p.end <= p.next
          /\ p.start \in Int /\ p.end \in Int /\ p.next \in Int
      BY <1>2, <1>5, <1>b
    <3>2. q.end <= b /\ q.start < q.end /\ q.start \in Int /\ q.end \in Int
      BY <1>5, <1>b
    <3>3. a \in Int /\ b \in Int
      BY <1>0, <1>b
    <3>. HIDE DEF p, q, a, b
    <3>. QED
      BY <3>1, <3>2, <3>3
  <2>4. m \in p.next..q.start - 1
    OBVIOUS
  <2>. HIDE DEF p, q, a, b
  <2>. QED
    BY <1>6, <1>7, <1>n, <2>1, <2>2, <2>3, <2>4, GapNewline
<1>8. ASSUME \A k \in 2..n : \A m \in r[k - 1].next..r[k].start - 1 : At(text, m) # "\n"
      PROVE  Count(Slice(text, a, b)) <= TotalCost(text, r)
  <2>. DEFINE G == {k \in 1..n : Tokens(text, a, r[k].next) <= f[k]}
  <2>1. ASSUME NEW k \in 1..n, \A q \in 1..k - 1 : q \in G PROVE k \in G
    <3>1. f[k] = f[k - 1] + Cost(text, r[k])
      BY <1>3, <1>n DEF Sums
    <3>2. CASE k = 1
      <4>1. f[0] = 0 /\ k - 1 = 0
        BY <1>3, <3>2 DEF Sums
      <4>2. f[k] = Cost(text, r[k])
        BY <1>1, <3>1, <4>1
      <4>3. Tokens(text, a, r[k].next) <= f[k]
        BY <1>1, <3>2, <4>2
      <4>. QED
        BY <4>3
    <3>3. CASE k # 1
      <4>1. k \in 2..n /\ k - 1 \in 1..k - 1 /\ k - 1 \in 0..n
        BY <1>0, <3>3
      <4>2. Tokens(text, a, r[k - 1].next) <= f[k - 1]
        BY <2>1, <4>1
      <4>. DEFINE x == r[k - 1].next
                  y == r[k].start
                  z == r[k].next
                  v == r[k - 1].start
                  w == r[k - 1].end
      <4>c. k - 1 \in 1..n
        BY <1>2, <4>1
      <4>3. /\ v \in Int /\ w \in Int /\ x \in Int /\ y \in Int /\ z \in Int /\ r[k].end \in Int
            /\ a <= v /\ v < w /\ w <= x /\ x <= y /\ y < r[k].end /\ r[k].end <= z /\ z <= L
        BY <1>2, <1>5, <1>b, <4>1, <4>c
      <4>4. AllSpace(text, x, y)
        BY <1>n, <4>1 DEF Chained, Gap
      <4>5. \A i \in x..y - 1 : At(text, i) # "\n"
        BY <1>8, <4>1
      <4>6. Cost(text, r[k]) \in Nat /\ Cost(text, r[k]) >= Tokens(text, y, z)
            /\ f[k - 1] \in Nat /\ Tokens(text, y, z) \in Nat
        BY <1>1, <1>4, <4>1
      <4>. HIDE DEF a, v, w, x, y, z
      <4>7. x \in a..L /\ y \in x..L /\ y \in a..L /\ z \in y..L /\ x \in 0..L /\ y \in 0..L
        <5>1. x \in Int /\ y \in Int /\ z \in Int /\ L \in Int /\ a \in Int /\ 0 <= a
              /\ a <= x /\ x <= y /\ y <= z /\ z <= L
          <6>. DEFINE u == r[k].end
          <6>1. /\ v \in Int /\ w \in Int /\ u \in Int /\ x \in Int /\ y \in Int /\ z \in Int
                /\ a <= v /\ v < w /\ w <= x /\ x <= y /\ y < u /\ u <= z /\ z <= L
            BY <4>3
          <6>2. a \in Int /\ 0 <= a /\ L \in Int
            BY <1>0, <1>6
          <6>. HIDE DEF u
          <6>. QED
            BY <6>1, <6>2
        <5>. QED
          BY <5>1
      <4>8. Tokens(text, x, y) = 0
        BY <1>n, <4>3, <4>4, <4>5, <4>7, BlankTokens
      <4>9. /\ Tokens(text, a, y) <= Tokens(text, a, x) + Tokens(text, x, y)
            /\ Tokens(text, a, x) \in Nat /\ Tokens(text, a, y) \in Nat
        BY <1>6, <1>n, <4>7, TokensAdd
      <4>10. /\ Tokens(text, a, z) <= Tokens(text, a, y) + Tokens(text, y, z)
             /\ Tokens(text, a, z) \in Nat
        BY <1>6, <1>n, <4>7, TokensAdd
      <4>11. Tokens(text, a, x) <= f[k - 1]
        BY <4>2 DEF x
      <4>12. Tokens(text, a, z) <= f[k]
        BY <3>1, <4>6, <4>8, <4>9, <4>10, <4>11
      <4>. QED
        BY <4>12 DEF z
    <3>. QED
      BY <3>2, <3>3
  <2>2. Tokens(text, a, r[n].next) <= f[n]
    <3>1. 1 \in Int /\ n \in Int /\ n \in 1..n
          /\ \A k \in 1..n : (\A q \in 1..k - 1 : q \in G) => k \in G
      BY <1>0, <2>1
    <3>2. n \in G
      <4>. HIDE DEF G
      <4>. QED
        BY <3>1, Ascend
    <3>. QED
      BY <3>2
  <2>3. f[n] \in Nat /\ f[n] >= 1
    <3>1. n - 1 \in 0..n /\ n \in 0..n
      BY <1>0
    <3>2. f[n] = f[n - 1] + Cost(text, r[n])
      BY <1>0, <1>3, <1>n DEF Sums
    <3>3. Cost(text, r[n]) \in Nat /\ Cost(text, r[n]) >= 1 /\ f[n - 1] \in Nat /\ f[n] \in Nat
      BY <1>0, <1>1, <1>4, <3>1
    <3>. QED
      BY <3>2, <3>3
  <2>. DEFINE z == r[n].next
  <2>4. z \in b..L
    BY <1>0, <1>1
  <2>. HIDE DEF a, b, z
  <2>5. /\ Tokens(text, a, b) <= Tokens(text, a, z)
        /\ Tokens(text, a, z) \in Nat /\ Tokens(text, a, b) \in Nat
    BY <1>6, <1>n, <2>4, TokensAdd
  <2>6. Count(Slice(text, a, b)) = IF Tokens(text, a, b) >= 1 THEN Tokens(text, a, b) ELSE 1
    BY <1>6, <1>n, CountTokens
  <2>7. Tokens(text, a, z) <= f[n]
    BY <2>2 DEF z
  <2>. QED
    BY <1>3, <2>3, <2>5, <2>6, <2>7
<1>9. \/ Count(Slice(text, a, b)) <= TotalCost(text, r)
      \/ BlankLines(Slice(text, a, b))
  BY <1>7, <1>8
<1>. QED
  BY <1>9 DEF a, b, n

\* The last of some pieces cost no more than all of them.
LEMMA EndingCosts ==
  ASSUME NEW text \in Seq(Char), NEW s \in Seq(Part), Laid(s, 0, Len(text)),
         NEW t, Ending(t, s)
  PROVE  /\ TotalCost(text, t) <= TotalCost(text, s)
         /\ TotalCost(text, t) \in Nat /\ TotalCost(text, s) \in Nat
<1>. DEFINE n == Len(t)
            m == Len(s)
            d == m - n
<1>0. /\ n \in Nat /\ m \in Nat /\ d \in Nat /\ d + n = m /\ t \in Seq(Part)
      /\ \A j \in 1..n : t[j] = s[d + j] /\ d + j \in 1..m
  <2>1. t \in Seq(Part) /\ n <= m /\ \A j \in 1..n : t[j] = s[d + j]
    BY DEF Ending
  <2>2. m \in Nat /\ n \in Nat
    BY <2>1
  <2>. QED
    BY <2>1, <2>2
<1>1. Laid(t, 0, Len(text))
  <2>. DEFINE lo == 0
              hi == Len(text)
  <2>1. lo \in Int /\ hi \in Int /\ Laid(s, lo, hi)
    OBVIOUS
  <2>. HIDE DEF lo, hi
  <2>2. Laid(t, lo, hi)
    BY <2>1, EndingLaid
  <2>. QED
    BY <2>2 DEF lo, hi
<1>2. PICK f : Sums(text, s, f) /\ TotalCost(text, s) = f[m]
  BY TotalCostIs
<1>3. PICK g : Sums(text, t, g) /\ TotalCost(text, t) = g[n]
  BY <1>0, <1>1, TotalCostIs
<1>4. /\ \A k \in 0..m : f[k] \in Nat
      /\ \A k \in 1..m : f[k] = f[k - 1] + Cost(text, s[k])
      /\ \A k \in 0..n : g[k] \in Nat
      /\ \A k \in 1..n : g[k] = g[k - 1] + Cost(text, t[k])
      /\ g[0] = 0
  BY <1>2, <1>3 DEF Sums
<1>5. \A k \in 1..m : Cost(text, s[k]) \in Nat
  BY PieceCosts
<1>. HIDE DEF n, m, d
<1>. DEFINE G == {k \in 0..n : g[k] <= f[d + k]}
<1>6. ASSUME NEW k \in 0..n, \A q \in 0..k - 1 : q \in G PROVE k \in G
  <2>1. CASE k = 0
    <3>1. d + k \in 0..m
      BY <1>0, <2>1
    <3>. QED
      BY <1>4, <2>1, <3>1
  <2>2. CASE k # 0
    <3>1. /\ k \in 1..n /\ k - 1 \in 0..k - 1 /\ k - 1 \in 0..n /\ d + k \in 1..m
          /\ (d + k) - 1 = d + (k - 1) /\ d + (k - 1) \in 0..m /\ d + k \in 0..m
      BY <1>0, <2>2
    <3>2. g[k - 1] <= f[d + (k - 1)]
      BY <1>6, <3>1
    <3>3. g[k] = g[k - 1] + Cost(text, t[k])
      BY <1>4, <3>1
    <3>4. f[d + k] = f[(d + k) - 1] + Cost(text, s[d + k])
      BY <1>4, <3>1
    <3>5. t[k] = s[d + k] /\ Cost(text, s[d + k]) \in Nat
      BY <1>0, <1>5, <3>1
    <3>6. g[k - 1] \in Nat /\ f[d + (k - 1)] \in Nat /\ f[(d + k) - 1] = f[d + (k - 1)]
      BY <1>4, <3>1
    <3>7. g[k] <= f[d + k]
      BY <3>2, <3>3, <3>4, <3>5, <3>6
    <3>. QED
      BY <3>7
  <2>. QED
    BY <2>1, <2>2
<1>7. g[n] <= f[d + n]
  <2>1. 0 \in Int /\ n \in Int /\ n \in 0..n
        /\ \A k \in 0..n : (\A q \in 0..k - 1 : q \in G) => k \in G
    BY <1>0, <1>6
  <2>2. n \in G
    <3>. HIDE DEF G
    <3>. QED
      BY <2>1, Ascend
  <2>. QED
    BY <2>2
<1>8. n \in 0..n /\ m \in 0..m
  BY <1>0
<1>. QED
  BY <1>0, <1>2, <1>3, <1>4, <1>7, <1>8

\* What is carried over costs no more than the overlap, and leaves the next piece
\* its place.
LEMMA CarriedCosts ==
  ASSUME NEW text \in Seq(Char), NEW s \in Seq(Part), s # <<>>, Laid(s, 0, Len(text)),
         NEW piece, Cost(text, piece) \in Nat, NEW c, c = Carried(text, s, piece), c # <<>>
  PROVE  TotalCost(text, c) <= Overlap /\ TotalCost(text, c) + Cost(text, piece) <= ChunkSize
<1>. DEFINE tail == OverlapTail(text, s)
            room == ChunkSize - Cost(text, piece)
<1>0. Overlap \in Nat /\ ChunkSize \in Nat /\ Len(s) \in Nat /\ Len(s) > 0
  BY ChunkingAssumption
<1>1. ~(room < 0) /\ c = LongestSuffix(text, tail, room)
  BY DEF Carried
<1>2. room \in Nat
  BY <1>0, <1>1
<1>3. Tail(s) \in Seq(Part) /\ Ending(Tail(s), s)
  <2>1. Tail(s) = SubSeq(s, 2, Len(s)) /\ 2 \in 1..Len(s) + 1
    BY <1>0, TailIsSubSeq
  <2>2. Ending(Tail(s), s)
    BY <2>1, EndingIs
  <2>. QED
    BY <2>2 DEF Ending
<1>4. Ending(tail, Tail(s)) /\ TotalCost(text, tail) <= Overlap
  BY <1>0, <1>3, LongestSuffixIs DEF OverlapTail
<1>. HIDE DEF tail, room
<1>5. tail \in Seq(Part) /\ Ending(tail, s)
  BY <1>3, <1>4, EndingOfEnding DEF Ending
<1>6. Ending(c, tail) /\ TotalCost(text, c) <= room
  BY <1>1, <1>2, <1>5, LongestSuffixIs
<1>7. Laid(tail, 0, Len(text))
  <2>. DEFINE lo == 0
              hi == Len(text)
  <2>1. lo \in Int /\ hi \in Int /\ Laid(s, lo, hi)
    OBVIOUS
  <2>. HIDE DEF lo, hi
  <2>2. Laid(tail, lo, hi)
    BY <1>5, <2>1, EndingLaid
  <2>. QED
    BY <2>2 DEF lo, hi
<1>8. /\ TotalCost(text, c) <= TotalCost(text, tail)
      /\ TotalCost(text, c) \in Nat /\ TotalCost(text, tail) \in Nat
  BY <1>5, <1>6, <1>7, EndingCosts
<1>9. TotalCost(text, c) <= Overlap
  BY <1>0, <1>4, <1>8
<1>10. TotalCost(text, c) + Cost(text, piece) <= ChunkSize
  BY <1>0, <1>6, <1>8 DEF room
<1>. QED
  BY <1>9, <1>10

-----------------------------------------------------------------------------
(* Chunks.  PackInv: the chunks are spans that advance, the pieces at hand *)
(* follow them, and all three cover the text.                              *)

LEMMA SourceMonotone ==
  ASSUME IntakeInv, CleanInv, stage \in Cleaned
  PROVE  /\ Len(clean.text) \in Nat /\ Len(Source) \in Nat
         /\ \A i \in 0..Len(clean.text) : Len(clean.text) > 0 => SourceOf(i) \in 0..Len(Source)
         /\ \A i \in 0..Len(clean.text) : \A j \in i + 1..Len(clean.text) :
            SourceOf(i) < SourceOf(j)
<1>. DEFINE edited == Edited(Source)
            n == Len(edited)
<1>1. /\ edited \in Seq(Edit) /\ n \in Nat /\ Ordered(Source, edited, 0)
      /\ Len(clean.text) = n
      /\ \A i \in 0..n - 1 : i + 1 \in 1..n /\ SourceOf(i) = edited[i + 1].source
      /\ n > 0 => SourceOf(n) = edited[n].source + 1
  BY OffsetsAre
<1>2. Source \in Seq(Char) /\ Len(Source) \in Nat
  BY SourceIs
<1>. HIDE DEF edited
<1>3. /\ \A j \in 1..n : edited[j].source \in 0..Len(Source) - 1
      /\ \A j \in 2..n : edited[j - 1].source < edited[j].source
  BY <1>1 DEF Ordered
<1>. HIDE DEF n
<1>4. \A i \in 0..n : i \in 0..n - 1 \/ i = n
  BY <1>1
<1>5. ASSUME n > 0 PROVE SourceOf(n) = edited[n].source + 1
             /\ edited[n].source \in 0..Len(Source) - 1
                         /\ n \in 1..n /\ n - 1 \in 0..n - 1 /\ SourceOf(n - 1) = edited[n].source
  <2>1. n \in 1..n /\ n - 1 \in 0..n - 1 /\ (n - 1) + 1 = n
    BY <1>1, <1>5
  <2>. QED
    BY <1>1, <1>3, <1>5, <2>1
<1>6. ASSUME n > 0, NEW i \in 0..n PROVE SourceOf(i) \in 0..Len(Source)
  <2>1. CASE i = n
    BY <1>2, <1>5, <1>6, <2>1
  <2>2. CASE i \in 0..n - 1
    <3>1. SourceOf(i) \in 0..Len(Source) - 1
      BY <1>1, <1>3, <2>2
    <3>. QED
      BY <1>2, <3>1
  <2>. QED
    BY <1>4, <2>1, <2>2
<1>7. ASSUME NEW i \in 0..n, i + 1 \in 1..n PROVE SourceOf(i) < SourceOf(i + 1)
  <2>0. n > 0 /\ i \in 0..n - 1 /\ i + 1 \in 0..n
    BY <1>1, <1>7
  <2>1. SourceOf(i) = edited[i + 1].source /\ edited[i + 1].source \in 0..Len(Source) - 1
    BY <1>1, <1>3, <2>0
  <2>2. CASE i + 1 = n
    <3>1. SourceOf(i + 1) = edited[i + 1].source + 1
      BY <1>5, <2>0, <2>2
    <3>. QED
      BY <1>2, <2>1, <3>1
  <2>3. CASE i + 1 # n
    <3>1. i + 1 \in 0..n - 1 /\ (i + 1) + 1 \in 2..n /\ ((i + 1) + 1) - 1 = i + 1
      BY <1>1, <1>7, <2>3
    <3>2. SourceOf(i + 1) = edited[(i + 1) + 1].source
      BY <1>1, <3>1
    <3>3. edited[((i + 1) + 1) - 1].source < edited[(i + 1) + 1].source
      BY <1>3, <3>1
    <3>. QED
      BY <2>1, <3>1, <3>2, <3>3
  <2>. QED
    BY <2>2, <2>3
<1>8. ASSUME NEW i \in 0..n PROVE \A j \in i + 1..n : SourceOf(i) < SourceOf(j)
  <2>. DEFINE G == {j \in i + 1..n : SourceOf(i) < SourceOf(j)}
  <2>1. ASSUME NEW j \in i + 1..n, \A q \in i + 1..j - 1 : q \in G PROVE j \in G
    <3>0. j - 1 \in 0..n /\ (j - 1) + 1 = j /\ j \in 1..n /\ n > 0 /\ j \in 0..n
      BY <1>1
    <3>1. SourceOf(j - 1) < SourceOf(j)
      BY <1>7, <3>0
    <3>2. CASE j = i + 1
      <4>1. j - 1 = i
        BY <3>2
      <4>. QED
        BY <3>1, <4>1
    <3>3. CASE j # i + 1
      <4>1. j - 1 \in i + 1..j - 1
        BY <1>1, <3>3
      <4>2. SourceOf(i) < SourceOf(j - 1)
        BY <2>1, <4>1
      <4>3. SourceOf(i) \in Int /\ SourceOf(j - 1) \in Int /\ SourceOf(j) \in Int
        BY <1>2, <1>6, <3>0
      <4>. QED
        BY <3>1, <4>2, <4>3
    <3>. QED
      BY <3>2, <3>3
  <2>2. \A j \in i + 1..n : j \in G
    <3>1. \A j \in i + 1..n : (\A q \in i + 1..j - 1 : q \in G) => j \in G
      BY <2>1
    <3>2. i + 1 \in Int /\ n \in Int
      BY <1>1
    <3>. HIDE DEF G
    <3>. QED
      BY <3>1, <3>2, Ascend
  <2>. QED
    BY <2>2
<1>. QED
  BY <1>1, <1>2, <1>6, <1>8

LEMMA PageAtIs ==
  ASSUME NEW pages, Len(pages) \in Nat, NEW offset
  PROVE  PageAt(pages, offset) \in 0..Len(pages)
<1>. DEFINE n == Len(pages)
            starting == {i \in 1..n : pages[i].start <= offset}
<1>1. CASE starting = {}
  BY <1>1 DEF PageAt
<1>2. CASE starting # {}
  <2>1. starting \in SUBSET Int /\ \A i \in starting : i <= n
    OBVIOUS
  <2>2. \A i \in starting : i \in 1..n
    OBVIOUS
  <2>3. n \in Int
    OBVIOUS
  <2>4. Max(starting) \in 1..n
    <3>. HIDE DEF starting, n
    <3>1. Max(starting) \in starting
      BY <1>2, <2>1, <2>3, MaxIs
    <3>. QED
      BY <2>2, <3>1
  <2>5. PageAt(pages, offset) = 0 \/ PageAt(pages, offset) = Max(starting)
    BY DEF PageAt
  <2>. QED
    BY <2>4, <2>5
<1>. QED
  BY <1>1, <1>2

LEMMA PagesCoveredIs ==
  ASSUME NEW pages, Len(pages) \in Nat, NEW runs, NEW start, NEW end
  PROVE  PagesCovered(pages, runs, start, end) \subseteq 1..Len(pages)
<1>. DEFINE first == PageAt(pages, ToSource(runs, start))
            last == PageAt(pages, ToSource(runs, Max({end - 1, start})))
<1>1. first \in 0..Len(pages) /\ last \in 0..Len(pages)
  BY PageAtIs
<1>2. PagesCovered(pages, runs, start, end) =
        CASE first = 0 /\ last = 0 -> {}
          [] first = 0 /\ last # 0 -> {last}
          [] first # 0 /\ last <= first -> {first}
          [] OTHER -> first..last
  BY DEF PagesCovered
<1>. HIDE DEF first, last
<1>. QED
  BY <1>1, <1>2

Chunk == [start : Int, end : Int, sourceStart : Int, sourceEnd : Int, pages : SUBSET Int,
          tokens : Nat]

\* A chunk is a span of the cleaned text and leads to where that came from.
Made(document, pages, c) ==
  /\ c \in Chunk
  /\ 0 <= c.start /\ c.start < c.end /\ c.end <= Len(document.text)
  /\ c.sourceStart = ToSource(document.runs, c.start)
  /\ c.sourceEnd = ToSource(document.runs, c.end)
  /\ c.pages = PagesCovered(pages, document.runs, c.start, c.end)

LEMMA PagesAre ==
  ASSUME IntakeInv
  PROVE  Len(Pages) \in Nat
<1>1. extracted.parts \in Seq(Seq(Char))
  BY SourceIs
<1>2. Len(extracted.parts) \in Nat
  BY <1>1
<1>. QED
  BY <1>2 DEF Pages, PageSpans

LEMMA EmitIs ==
  ASSUME IntakeInv, CleanInv, stage \in Cleaned, NEW r \in Seq(Part), r # <<>>,
         Laid(r, 0, Len(clean.text)), NEW c, c = Emit(clean, Pages, r)
  PROVE  /\ Made(clean, Pages, c) /\ c.start = r[1].start /\ c.end = r[Len(r)].end
         /\ \A i \in Int : Within(r, i) => c.start <= i /\ i < c.end
<1>. DEFINE n == Len(r)
            m == Len(clean.text)
            start == r[1].start
            end == r[n].end
<1>0. n \in Nat /\ n > 0 /\ 1 \in 1..n /\ n \in 1..n /\ m \in Nat
  BY SourceMonotone
<1>1. \A j \in 1..n : /\ r[j].start \in Int /\ r[j].end \in Int /\ r[j].next \in Int
                      /\ 0 <= r[j].start /\ r[j].start < r[j].end
                      /\ r[j].end <= r[j].next /\ r[j].next <= m
  BY PartIs DEF Laid
<1>2. \A j \in 1..n : start <= r[j].start /\ r[j].end <= end
  <2>. TAKE j \in 1..n
  <2>1. start <= r[j].start
    <3>1. CASE j = 1
      BY <1>1, <3>1
    <3>2. CASE j # 1
      <4>1. j \in 1 + 1..n
        BY <1>0, <3>2
      <4>2. r[1].next <= r[j].start
        BY <1>0, <4>1, LaidOrder
      <4>. QED
        BY <1>0, <1>1, <4>2
    <3>. QED
      BY <3>1, <3>2
  <2>2. r[j].end <= end
    <3>1. CASE j = n
      BY <1>1, <3>1
    <3>2. CASE j # n
      <4>1. n \in j + 1..n
        BY <1>0, <3>2
      <4>2. r[j].next <= r[n].start
        BY <1>0, <4>1, LaidOrder
      <4>. QED
        BY <1>0, <1>1, <4>2
    <3>. QED
      BY <3>1, <3>2
  <2>. QED
    BY <2>1, <2>2
<1>3. start \in Int /\ end \in Int /\ 0 <= start /\ start < end /\ end <= m
  <2>1. /\ r[1].start \in Int /\ r[1].end \in Int /\ r[n].end \in Int /\ r[n].next \in Int
        /\ 0 <= r[1].start /\ r[1].start < r[1].end
        /\ r[n].end <= r[n].next /\ r[n].next <= m /\ r[1].end <= r[n].end
    BY <1>0, <1>1, <1>2
  <2>. QED
    BY <1>0, <2>1
<1>4. c = [start |-> start, end |-> end, sourceStart |-> SourceOf(start),
           sourceEnd |-> SourceOf(end),
           pages |-> PagesCovered(Pages, clean.runs, start, end),
           tokens |-> Count(Slice(clean.text, start, end))]
  BY DEF Emit, Last, SourceEnd, SourceOf
<1>5. ASSUME NEW i \in Int, Within(r, i) PROVE start <= i /\ i < end
  <2>1. PICK j \in 1..n : r[j].start <= i /\ i < r[j].end
    BY <1>5 DEF Within
  <2>2. /\ r[j].start \in Int /\ r[j].end \in Int /\ start <= r[j].start /\ r[j].end <= end
    BY <1>1, <1>2
  <2>. QED
    BY <1>3, <2>1, <2>2
<1>. HIDE DEF start, end
<1>6. SourceOf(start) \in Int /\ SourceOf(end) \in Int
  <2>1. start \in 0..m /\ end \in 0..m /\ m > 0
    BY <1>0, <1>3
  <2>2. SourceOf(start) \in 0..Len(Source) /\ SourceOf(end) \in 0..Len(Source)
    BY <2>1, SourceMonotone
  <2>. QED
    BY <2>2
<1>7. PagesCovered(Pages, clean.runs, start, end) \in SUBSET Int
  <2>1. PagesCovered(Pages, clean.runs, start, end) \subseteq 1..Len(Pages)
    BY PagesAre, PagesCoveredIs
  <2>. QED
    BY <2>1
<1>8. Count(Slice(clean.text, start, end)) \in Nat
  <2>1. clean.text \in Seq(Char)
    BY OffsetsAre
  <2>2. start \in 0..Len(clean.text) /\ end \in start..Len(clean.text)
    BY <1>0, <1>3
  <2>3. Slice(clean.text, start, end) \in Seq(Char)
    BY <2>1, <2>2, SliceIs
  <2>. QED
    BY <2>3, CountIs
<1>9. c \in Chunk
  BY <1>3, <1>4, <1>6, <1>7, <1>8 DEF Chunk
<1>10. Made(clean, Pages, c)
  BY <1>3, <1>4, <1>9 DEF Made, SourceOf
<1>11. c.start = start /\ c.end = end
  BY <1>4
<1>. QED
  BY <1>5, <1>10, <1>11 DEF start, end

Packed == {"persist", "embed", "index"}

\* Every chunk starts and ends after the one before it.
Advancing(cs) ==
  \A k \in 2..Len(cs) : cs[k - 1].start < cs[k].start /\ cs[k - 1].end < cs[k].end

\* The next chunk does so, too.
Ahead(cs, r) ==
  cs # <<>> => /\ r # <<>>
               /\ cs[Len(cs)].start < r[1].start /\ cs[Len(cs)].end < r[Len(r)].end

Reached(cs, i) == \E k \in 1..Len(cs) : cs[k].start <= i /\ i < cs[k].end

ChunksMade(document, pages, cs) ==
  /\ cs \in Seq(Chunk) /\ Advancing(cs)
  /\ \A k \in 1..Len(cs) : Made(document, pages, cs[k])

\* The pieces of the text lie one after the other, those of the chunk being
\* packed before those not packed yet. What neither holds is in a chunk.
PackInv ==
  /\ stage \notin Packed \cup {"pack"} => pieces = <<>> /\ current = <<>> /\ chunks = <<>>
  /\ stage \in Packed => pieces = <<>> /\ current = <<>>
  /\ pieces \in Seq(Part) /\ Laid(pieces, 0, Len(clean.text))
  /\ current \in Seq(Part) /\ Laid(current, 0, Len(clean.text))
  /\ Follows(current, pieces)
  /\ ChunksMade(clean, Pages, chunks)
  /\ stage = "pack" => Ahead(chunks, current)
  /\ stage \in Packed \cup {"pack"} =>
       \A i \in Offsets : \/ Loose(clean.text, i) \/ Within(current, i) \/ Within(pieces, i)
                          \/ Reached(chunks, i)

\* What emitting the chunk r leaves.
Grown(document, pages, cs, r, more) ==
  /\ ChunksMade(document, pages, more)
  /\ more # <<>> /\ more[Len(more)].start = r[1].start /\ more[Len(more)].end = r[Len(r)].end
  /\ \A i \in Int : Reached(cs, i) \/ Within(r, i) => Reached(more, i)

LEMMA EmitAppends ==
  ASSUME IntakeInv, CleanInv, stage \in Cleaned, NEW r \in Seq(Part), r # <<>>,
         Laid(r, 0, Len(clean.text)), NEW cs, ChunksMade(clean, Pages, cs), Ahead(cs, r),
         NEW more, more = Append(cs, Emit(clean, Pages, r))
  PROVE  Grown(clean, Pages, cs, r, more)
<1>. DEFINE c == Emit(clean, Pages, r)
<1>1. /\ Made(clean, Pages, c) /\ c.start = r[1].start /\ c.end = r[Len(r)].end
      /\ \A i \in Int : Within(r, i) => c.start <= i /\ i < c.end
  BY EmitIs
<1>2. c \in Chunk /\ more = Append(cs, c) /\ cs \in Seq(Chunk)
  BY <1>1 DEF Made, ChunksMade
<1>. HIDE DEF c
<1>3. /\ more \in Seq(Chunk) /\ Len(more) = Len(cs) + 1 /\ Len(cs) \in Nat
      /\ more # <<>> /\ more[Len(cs) + 1] = c
      /\ \A j \in 1..Len(cs) : more[j] = cs[j] /\ j # Len(cs) + 1
  BY <1>2, AppendIs
<1>4. ASSUME NEW k \in 1..Len(more) PROVE Made(clean, Pages, more[k])
  <2>1. k \in 1..Len(cs) \/ k = Len(cs) + 1
    BY <1>3
  <2>. QED
    BY <1>1, <1>3, <2>1 DEF ChunksMade
<1>5. ASSUME NEW k \in 2..Len(more)
      PROVE  more[k - 1].start < more[k].start /\ more[k - 1].end < more[k].end
  <2>1. CASE k = Len(cs) + 1
    <3>1. Len(cs) \in 1..Len(cs) /\ k - 1 = Len(cs) /\ cs # <<>>
      BY <1>3, <2>1
    <3>2. more[k] = c /\ more[k - 1] = cs[Len(cs)]
      BY <1>3, <2>1, <3>1
    <3>3. cs[Len(cs)].start < r[1].start /\ cs[Len(cs)].end < r[Len(r)].end
      BY <3>1 DEF Ahead
    <3>. QED
      BY <1>1, <3>2, <3>3
  <2>2. CASE k # Len(cs) + 1
    <3>1. k \in 2..Len(cs) /\ k \in 1..Len(cs) /\ k - 1 \in 1..Len(cs)
      BY <1>3, <2>2
    <3>2. more[k] = cs[k] /\ more[k - 1] = cs[k - 1]
      BY <1>3, <3>1
    <3>. QED
      BY <3>1, <3>2 DEF ChunksMade, Advancing
  <2>. QED
    BY <2>1, <2>2
<1>6. ASSUME NEW i \in Int, Reached(cs, i) \/ Within(r, i) PROVE Reached(more, i)
  <2>1. CASE Reached(cs, i)
    <3>1. PICK k \in 1..Len(cs) : cs[k].start <= i /\ i < cs[k].end
      BY <2>1 DEF Reached
    <3>2. k \in 1..Len(more) /\ more[k] = cs[k]
      BY <1>3
    <3>. QED
      BY <3>1, <3>2 DEF Reached
  <2>2. CASE Within(r, i)
    <3>1. c.start <= i /\ i < c.end
      BY <1>1, <2>2
    <3>2. Len(cs) + 1 \in 1..Len(more)
      BY <1>3
    <3>. QED
      BY <1>3, <3>1, <3>2 DEF Reached
  <2>. QED
    BY <1>6, <2>1, <2>2
<1>7. Len(more) = Len(cs) + 1 /\ more[Len(more)] = c
  BY <1>3
<1>. QED
  BY <1>1, <1>3, <1>4, <1>5, <1>6, <1>7 DEF Grown, ChunksMade, Advancing

\* Steps that are none of the packing's leave what was packed.
LEMMA PackUnchanged ==
  ASSUME PackInv, UNCHANGED <<pieces, current, chunks, clean, extracted>>,
         stage' # "pack",
         stage \in Packed <=> stage' \in Packed, stage # "pack"
  PROVE  PackInv'
<1>1. Pages' = Pages /\ Offsets' = Offsets
  BY DEF Pages, Offsets
<1>. QED
  BY <1>1 DEF PackInv

\* What a round of packing leaves: r, an end t of the chunk s so far and the next
\* piece of p, and the rest of p.
Round(s, p, t, r, rest, hi) ==
  /\ r \in Seq(Part) /\ r # <<>> /\ Laid(r, 0, hi)
  /\ rest \in Seq(Part) /\ Laid(rest, 0, hi) /\ Follows(r, rest)
  /\ r[Len(r)] = p[1] /\ p[1] \in Part
  /\ s # <<>> => s[Len(s)].end < r[Len(r)].end
  /\ Len(t) < Len(s) => s[1].start < r[1].start
  /\ t = s /\ s # <<>> => r[1] = s[1]
  /\ t = s => \A i : Within(s, i) => Within(r, i)
  /\ \A i : Within(p, i) => Within(r, i) \/ Within(rest, i)

LEMMA PackedOn ==
  ASSUME NEW hi \in Int, NEW s \in Seq(Part), Laid(s, 0, hi),
         NEW p \in Seq(Part), p # <<>>, Laid(p, 0, hi), Follows(s, p),
         NEW t, Ending(t, s), NEW r, r = Append(t, p[1]), NEW rest, rest = Tail(p)
  PROVE  Round(s, p, t, r, rest, hi)
<1>. DEFINE x == p[1]
            whole == Append(s, x)
<1>1. /\ x \in Part /\ whole \in Seq(Part) /\ Laid(whole, 0, hi)
      /\ rest \in Seq(Part) /\ Laid(rest, 0, hi) /\ Follows(whole, rest)
      /\ \A i : Within(s, i) => Within(whole, i)
      /\ \A i : Within(p, i) => Within(whole, i) \/ Within(rest, i)
      /\ s # <<>> => s[Len(s)].end < x.end
  BY AppendLaid
<1>2. t \in Seq(Part) /\ Len(t) \in Nat /\ Len(s) \in Nat
  BY DEF Ending
<1>r. r = Append(t, x)
  OBVIOUS
<1>. HIDE DEF x
<1>3. r \in Seq(Part) /\ Len(r) = Len(t) + 1 /\ r # <<>> /\ r[Len(t) + 1] = x
  BY <1>1, <1>2, <1>r, AppendIs
<1>4. /\ Len(whole) = Len(s) + 1 /\ whole # <<>> /\ whole[Len(s) + 1] = x
      /\ \A j \in 1..Len(s) : whole[j] = s[j]
  BY <1>1, AppendIs
<1>5. Ending(r, whole)
  BY <1>1, <1>r, EndingAppend
<1>. HIDE DEF whole
<1>6. /\ Laid(r, 0, hi)
      /\ r # <<>> /\ Len(r) < Len(whole) => whole[1].start < r[1].start
  <2>1. 0 \in Int /\ whole \in Seq(Part) /\ Laid(whole, 0, hi)
    BY <1>1
  <2>2. /\ Laid(r, 0, hi)
        /\ r # <<>> => Len(r) > 0 /\ whole # <<>> /\ r[Len(r)] = whole[Len(whole)]
        /\ r # <<>> /\ Len(r) < Len(whole) => whole[1].start < r[1].start
    BY <1>5, <2>1, EndingLaid
  <2>. QED
    BY <2>2
<1>7. r[Len(r)] = x /\ whole[Len(whole)] = x
  BY <1>3, <1>4
<1>8. Follows(r, rest)
  BY <1>1, <1>4, <1>7 DEF Follows
<1>9. s # <<>> => whole[1] = s[1]
  <2>1. s # <<>> => 1 \in 1..Len(s)
    OBVIOUS
  <2>. QED
    BY <1>4, <2>1
<1>10. ASSUME Len(t) < Len(s) PROVE s[1].start < r[1].start
  <2>1. Len(r) < Len(whole) /\ s # <<>>
    BY <1>2, <1>3, <1>4, <1>10
  <2>. QED
    BY <1>3, <1>6, <1>9, <2>1
<1>11. t = s => r = whole
  BY DEF whole, x
<1>12. t = s => \A i : Within(s, i) => Within(r, i)
  BY <1>1, <1>11, Zenon
<1>13. t = s /\ s # <<>> => r[1] = s[1]
  BY <1>9, <1>11
<1>14. ASSUME NEW i, Within(p, i), ~Within(rest, i) PROVE Within(r, i)
  <2>1. PICK j \in 1..Len(p) : p[j].start <= i /\ i < p[j].end
    BY <1>14 DEF Within
  <2>2. /\ Len(rest) = Len(p) - 1 /\ \A k \in 1..Len(rest) : rest[k] = p[k + 1]
    BY HeadTailProperties
  <2>3. j = 1
    <3>. SUFFICES ASSUME j # 1 PROVE FALSE
      OBVIOUS
    <3>1. j - 1 \in 1..Len(rest) /\ (j - 1) + 1 = j
      BY <2>2
    <3>2. rest[j - 1] = p[j]
      BY <2>2, <3>1
    <3>. QED
      BY <1>14, <2>1, <3>1, <3>2 DEF Within
  <2>4. Len(r) \in 1..Len(r)
    BY <1>2, <1>3
  <2>5. r[Len(r)].start <= i /\ i < r[Len(r)].end
    BY <1>7, <2>1, <2>3 DEF x
  <2>. QED
    BY <2>4, <2>5 DEF Within
<1>15. s # <<>> => s[Len(s)].end < r[Len(r)].end
  BY <1>1, <1>7
<1>16. r[Len(r)] = p[1]
  BY <1>7 DEF x
<1>17. p[1] \in Part
  BY <1>1 DEF x
<1>. QED
  BY <1>1, <1>3, <1>6, <1>8, <1>10, <1>12, <1>13, <1>14, <1>15, <1>16, <1>17 DEF Round

LEMMA PackPieceStep ==
  ASSUME IntakeInv, CleanInv, PackInv, PackPiece
  PROVE  PackInv'
<1>. DEFINE m == Len(clean.text)
            full == current # <<>>
              /\ TotalCost(clean.text, current) + Cost(clean.text, pieces[1]) > ChunkSize
            carried == IF full THEN Carried(clean.text, current, pieces[1]) ELSE current
<1>0. /\ stage = "pack" /\ stage \in Cleaned /\ m \in Nat /\ pieces # <<>>
      /\ pieces \in Seq(Part) /\ Laid(pieces, 0, m)
      /\ current \in Seq(Part) /\ Laid(current, 0, m)
      /\ Follows(current, pieces) /\ ChunksMade(clean, Pages, chunks) /\ Ahead(chunks, current)
      /\ clean.text \in Seq(Char) /\ m \in Int /\ 0 \in Int
  <2>1. stage = "pack" /\ stage \in Cleaned
    BY DEF PackPiece, Doing, Cleaned
  <2>2. m \in Nat /\ clean.text \in Seq(Char)
    BY <2>1, SourceMonotone, OffsetsAre
  <2>. QED
    BY <2>1, <2>2 DEF PackInv, PackPiece
<1>1. Head(pieces) = pieces[1]
  BY <1>0
<1>2. /\ chunks' = IF full THEN Append(chunks, Emit(clean, Pages, current)) ELSE chunks
      /\ current' = Append(carried, pieces[1])
      /\ pieces' = Tail(pieces)
      /\ UNCHANGED <<file, read, type, extracted, stage, failed, clean>>
  BY <1>1 DEF PackPiece, intakeVars
<1>3. Pages' = Pages /\ Offsets' = Offsets /\ Offsets \subseteq Int /\ m' = m
  BY <1>0, <1>2 DEF Pages, Offsets
<1>4. Ending(carried, current) /\ (full => current # <<>> /\ Len(carried) < Len(current))
  <2>1. CASE full
    <3>1. Cost(clean.text, pieces[1]) \in Nat
      <4>. DEFINE piece == pieces[1]
      <4>1. 1 \in 1..Len(pieces)
        BY <1>0
      <4>2. piece.start \in Int /\ piece.end \in Int /\ piece.next \in Int /\ piece \in Part
            /\ 0 <= piece.start /\ piece.start < piece.end /\ piece.end <= piece.next
               /\ piece.next <= m
        BY <1>0, <4>1, PartIs DEF Laid
      <4>3. piece.start <= piece.next
        BY <4>2
      <4>. HIDE DEF piece
      <4>4. Cost(clean.text, piece) \in Nat
        BY <1>0, <4>2, <4>3, CostIs
      <4>. QED
        BY <4>4 DEF piece
    <3>2. current # <<>> /\ carried = Carried(clean.text, current, pieces[1])
      BY <2>1
    <3>. HIDE DEF full, carried
    <3>3. /\ Ending(Carried(clean.text, current, pieces[1]), current)
          /\ Len(Carried(clean.text, current, pieces[1])) < Len(current)
      BY <1>0, <3>1, <3>2, CarriedIs
    <3>. QED
      BY <3>2, <3>3
  <2>2. CASE ~full
    <3>1. carried = current
      BY <2>2
    <3>2. Ending(current, current)
      <4>1. Len(current) \in Nat /\ \A j \in 1..Len(current) : (Len(current) - Len(current)) + j = j
        BY <1>0
      <4>. QED
        BY <1>0, <4>1 DEF Ending
    <3>. HIDE DEF full
    <3>. QED
      BY <2>2, <3>1, <3>2
  <2>. QED
    BY <2>1, <2>2
<1>5. ~full => carried = current
  OBVIOUS
<1>. HIDE DEF full, carried, m
<1>6. /\ current' \in Seq(Part) /\ current' # <<>> /\ Laid(current', 0, m)
      /\ pieces' \in Seq(Part) /\ Laid(pieces', 0, m) /\ Follows(current', pieces')
      /\ current'[Len(current')] = pieces[1] /\ pieces[1] \in Part
      /\ current # <<>> => current[Len(current)].end < current'[Len(current')].end
      /\ Len(carried) < Len(current) => current[1].start < current'[1].start
      /\ carried = current /\ current # <<>> => current'[1] = current[1]
      /\ carried = current => \A i : Within(current, i) => Within(current', i)
      /\ \A i : Within(pieces, i) => Within(current', i) \/ Within(pieces', i)
  <2>. DEFINE r == current'
              rest == pieces'
              p == pieces
              s == current
  <2>1. /\ m \in Int /\ s \in Seq(Part) /\ Laid(s, 0, m)
        /\ p \in Seq(Part) /\ p # <<>> /\ Laid(p, 0, m) /\ Follows(s, p)
        /\ Ending(carried, s) /\ r = Append(carried, p[1]) /\ rest = Tail(p)
    BY <1>0, <1>2, <1>4
  <2>. HIDE DEF r, rest, p, s
  <2>2. Round(s, p, carried, r, rest, m)
    BY <2>1, PackedOn
  <2>. QED
    BY <2>2 DEF Round, r, rest, p, s
<1>7. /\ stage' = "pack" /\ current' # <<>>
      /\ Laid(current', 0, Len(clean'.text)) /\ Laid(pieces', 0, Len(clean'.text))
      /\ clean' = clean /\ Pages' = Pages
  BY <1>0, <1>2, <1>3, <1>6 DEF m
<1>8. ASSUME ChunksMade(clean, Pages, chunks'), Ahead(chunks', current'),
             \A i \in Offsets : \/ Loose(clean.text, i) \/ Within(current', i)
                                \/ Within(pieces', i) \/ Reached(chunks', i)
      PROVE  PackInv'
  BY <1>3, <1>6, <1>7, <1>8 DEF PackInv, Packed
<1>9. \A i \in Offsets : \/ Loose(clean.text, i) \/ Within(current, i) \/ Within(pieces, i)
                         \/ Reached(chunks, i)
  BY <1>0 DEF PackInv
<1>10. CASE full
  <2>1. /\ ChunksMade(clean, Pages, chunks')
        /\ chunks' # <<>> /\ chunks'[Len(chunks')].start = current[1].start
        /\ chunks'[Len(chunks')].end = current[Len(current)].end
        /\ \A i \in Int : Reached(chunks, i) \/ Within(current, i) => Reached(chunks', i)
    <3>1. chunks' = Append(chunks, Emit(clean, Pages, current)) /\ current # <<>>
      BY <1>2, <1>4, <1>10
    <3>2. Laid(current, 0, Len(clean.text))
      BY <1>0 DEF m
    <3>. DEFINE more == chunks'
                r == current
    <3>3. /\ stage \in Cleaned /\ r \in Seq(Part) /\ r # <<>> /\ Laid(r, 0, Len(clean.text))
          /\ ChunksMade(clean, Pages, chunks) /\ Ahead(chunks, r)
          /\ more = Append(chunks, Emit(clean, Pages, r))
      BY <1>0, <3>1, <3>2
    <3>. HIDE DEF more, r
    <3>4. Grown(clean, Pages, chunks, r, more)
      BY <3>3, EmitAppends
    <3>. QED
      BY <3>4 DEF Grown, more, r
  <2>2. Ahead(chunks', current')
    BY <1>4, <1>6, <1>10, <2>1 DEF Ahead
  <2>3. \A i \in Offsets : \/ Loose(clean.text, i) \/ Within(current', i) \/ Within(pieces', i)
                           \/ Reached(chunks', i)
    BY <1>3, <1>6, <1>9, <2>1
  <2>. QED
    BY <1>8, <2>1, <2>2, <2>3
<1>11. CASE ~full
  <2>1. chunks' = chunks /\ carried = current
    BY <1>2, <1>5, <1>11
  <2>2. Ahead(chunks', current')
    <3>. SUFFICES ASSUME chunks # <<>> PROVE Ahead(chunks, current')
      BY <2>1 DEF Ahead
    <3>1. /\ current # <<>> /\ chunks[Len(chunks)].start < current[1].start
          /\ chunks[Len(chunks)].end < current[Len(current)].end
      BY <1>0 DEF Ahead
    <3>2. /\ current'[1] = current[1] /\ current[Len(current)].end < current'[Len(current')].end
      BY <1>6, <2>1, <3>1
    <3>3. /\ current[Len(current)].end \in Int /\ current'[Len(current')].end \in Int
          /\ chunks[Len(chunks)].end \in Int
      <4>1. Len(current) \in 1..Len(current)
        BY <1>0, <3>1
      <4>2. current[Len(current)].end \in Int
        BY <1>0, <4>1, PartIs
      <4>3. chunks \in Seq(Chunk)
        BY <1>0 DEF ChunksMade
      <4>4. chunks[Len(chunks)] \in Chunk
        BY <4>3
      <4>5. current'[Len(current')].end \in Int
        BY <1>6 DEF Part
      <4>. QED
        BY <4>2, <4>4, <4>5 DEF Chunk
    <3>4. chunks[Len(chunks)].end < current'[Len(current')].end
      BY <3>1, <3>2, <3>3
    <3>. QED
      BY <1>6, <3>1, <3>2, <3>4 DEF Ahead
  <2>3. \A i \in Offsets : \/ Loose(clean.text, i) \/ Within(current', i) \/ Within(pieces', i)
                           \/ Reached(chunks', i)
    BY <1>6, <1>9, <2>1
  <2>4. ChunksMade(clean, Pages, chunks')
    BY <1>0, <2>1
  <2>. QED
    BY <1>8, <2>2, <2>3, <2>4
<1>. QED
  BY <1>10, <1>11

LEMMA NothingPacked ==
  ASSUME NEW hi, NEW document, NEW pages
  PROVE  /\ <<>> \in Seq(Part) /\ Laid(<<>>, 0, hi) /\ Follows(<<>>, <<>>)
         /\ ChunksMade(document, pages, <<>>)
         /\ \A s : Ahead(<<>>, s) /\ Follows(<<>>, s)
         /\ \A i : ~Within(<<>>, i) /\ ~Reached(<<>>, i)
<1>1. <<>> \in Seq(Part) /\ <<>> \in Seq(Chunk) /\ Len(<<>>) = 0 /\ 1..0 = {} /\ 2..0 = {}
  OBVIOUS
<1>. QED
  BY <1>1 DEF Laid, Follows, ChunksMade, Advancing, Ahead, Within, Reached

LEMMA PackNone ==
  ASSUME pieces = <<>>, current = <<>>, chunks = <<>>, stage \notin Packed \cup {"pack"}
  PROVE  PackInv
BY NothingPacked DEF PackInv, Packed

LEMMA PackNoneNext ==
  ASSUME pieces' = <<>>, current' = <<>>, chunks' = <<>>, stage' \notin Packed \cup {"pack"}
  PROVE  PackInv'
BY NothingPacked DEF PackInv, Packed

LEMMA SplitTextStep ==
  ASSUME IntakeInv, CleanInv, PackInv, SplitText
  PROVE  PackInv'
<1>. DEFINE m == Len(clean.text)
<1>0. /\ stage = "chunk" /\ stage \in Cleaned /\ stage' = "pack"
      /\ current = <<>> /\ chunks = <<>> /\ current' = <<>> /\ chunks' = <<>>
      /\ pieces' = Split(clean.text) /\ clean' = clean /\ extracted' = extracted
  BY DEF SplitText, Doing, Cleaned, PackInv, Packed
<1>1. clean.text \in Seq(Char) /\ m \in Nat
  BY <1>0, OffsetsAre
<1>2. Divided(clean.text, Split(clean.text), 0, Len(clean.text))
  BY <1>1, SplitIs
<1>3. /\ Split(clean.text) \in Seq(Part) /\ Laid(Split(clean.text), 0, m)
      /\ \A i \in 0..m - 1 : Loose(clean.text, i) \/ Within(Split(clean.text), i)
  BY <1>2 DEF Divided, Covers
<1>4. Offsets' = 0..m - 1 /\ Pages' = Pages /\ clean'.text = clean.text /\ m = Len(clean'.text)
  BY <1>0 DEF Offsets, Pages
<1>5. /\ <<>> \in Seq(Part) /\ Laid(<<>>, 0, m)
      /\ ChunksMade(clean, Pages, <<>>) /\ \A s : Ahead(<<>>, s) /\ Follows(<<>>, s)
  BY NothingPacked
<1>6. /\ pieces' \in Seq(Part) /\ Laid(pieces', 0, m)
      /\ \A i \in Offsets' : Loose(clean.text, i) \/ Within(pieces', i)
  BY <1>0, <1>3, <1>4, Zenon
<1>. HIDE DEF m
<1>7. /\ current' \in Seq(Part) /\ Laid(current', 0, m)
      /\ ChunksMade(clean, Pages, chunks') /\ Ahead(chunks', current')
      /\ Follows(current', pieces')
  BY <1>0, <1>5, Zenon
<1>. QED
  BY <1>0, <1>4, <1>6, <1>7 DEF PackInv, Packed

LEMMA PackRestStep ==
  ASSUME IntakeInv, CleanInv, PackInv, PackRest
  PROVE  PackInv'
<1>. DEFINE m == Len(clean.text)
<1>0. /\ stage = "pack" /\ stage \in Cleaned /\ stage' = "persist"
      /\ pieces = <<>> /\ pieces' = <<>> /\ current' = <<>>
      /\ chunks' = IF current = <<>> THEN chunks ELSE Append(chunks, Emit(clean, Pages, current))
      /\ clean' = clean /\ extracted' = extracted
      /\ current \in Seq(Part) /\ Laid(current, 0, Len(clean.text))
      /\ ChunksMade(clean, Pages, chunks) /\ Ahead(chunks, current)
  BY DEF PackRest, Doing, Cleaned, PackInv, Packed
<1>1. Offsets' = Offsets /\ Pages' = Pages /\ clean'.text = clean.text /\ m = Len(clean'.text)
      /\ Offsets \subseteq Int
  BY <1>0 DEF Offsets, Pages
<1>2. \A i \in Offsets : Loose(clean.text, i) \/ Within(current, i) \/ Reached(chunks, i)
  <2>1. \A i \in Offsets : \/ Loose(clean.text, i) \/ Within(current, i) \/ Within(<<>>, i)
                           \/ Reached(chunks, i)
    BY <1>0 DEF PackInv
  <2>2. \A i : ~Within(<<>>, i)
    BY NothingPacked
  <2>. QED
    BY <2>1, <2>2
<1>3. ChunksMade(clean, Pages, chunks')
      /\ \A i \in Offsets : Loose(clean.text, i) \/ Reached(chunks', i)
  <2>1. CASE current = <<>>
    <3>1. chunks' = chunks /\ \A i : ~Within(current, i)
      BY <1>0, <2>1, NothingPacked, Zenon
    <3>. QED
      BY <1>0, <1>2, <3>1
  <2>2. CASE current # <<>>
    <3>. DEFINE more == chunks'
                r == current
    <3>1. /\ stage \in Cleaned /\ r \in Seq(Part) /\ r # <<>> /\ Laid(r, 0, Len(clean.text))
          /\ ChunksMade(clean, Pages, chunks) /\ Ahead(chunks, r)
          /\ more = Append(chunks, Emit(clean, Pages, r))
      BY <1>0, <2>2
    <3>. HIDE DEF more, r
    <3>2. Grown(clean, Pages, chunks, r, more)
      BY <3>1, EmitAppends
    <3>3. /\ ChunksMade(clean, Pages, chunks')
          /\ \A i \in Int : Reached(chunks, i) \/ Within(current, i) => Reached(chunks', i)
      BY <3>2 DEF Grown, more, r
    <3>. QED
      BY <1>1, <1>2, <3>3
  <2>. QED
    BY <2>1, <2>2
<1>4. /\ <<>> \in Seq(Part) /\ Laid(<<>>, 0, m) /\ Follows(<<>>, <<>>)
  BY NothingPacked
<1>. HIDE DEF m
<1>. QED
  BY <1>0, <1>1, <1>3, <1>4 DEF PackInv, Packed

LEMMA PackKept ==
  ASSUME IntakeInv, CleanInv, PackInv, [Next]_vars
  PROVE  PackInv'
<1>1. CASE UNCHANGED vars
  <2>1. UNCHANGED <<stage, pieces, current, chunks, clean, extracted>>
    BY <1>1 DEF vars, intakeVars, runVars
  <2>2. Pages' = Pages /\ Offsets' = Offsets
    BY <2>1 DEF Pages, Offsets
  <2>. QED
    BY <2>1, <2>2 DEF PackInv
<1>2. CASE IntakeNext /\ UNCHANGED runVars
  <2>1. UNCHANGED <<pieces, current, chunks>>
        /\ stage \notin Packed \cup {"pack"} /\ stage' \notin Packed \cup {"pack"}
    BY <1>2 DEF IntakeNext, ReadUpload, CheckUpload, Extract, Doing, runVars, Packed
  <2>2. pieces = <<>> /\ current = <<>> /\ chunks = <<>>
    BY <2>1 DEF PackInv
  <2>. QED
    BY <2>1, <2>2, PackNoneNext
<1>3. CASE Clean
  <2>1. UNCHANGED <<pieces, current, chunks>>
        /\ stage \notin Packed \cup {"pack"} /\ stage' \notin Packed \cup {"pack"}
    BY <1>3 DEF Clean, Doing, Packed
  <2>2. pieces = <<>> /\ current = <<>> /\ chunks = <<>>
    BY <2>1 DEF PackInv
  <2>. QED
    BY <2>1, <2>2, PackNoneNext
<1>4. CASE SplitText
  BY <1>4, SplitTextStep
<1>5. CASE PackPiece
  BY <1>5, PackPieceStep
<1>6. CASE PackRest
  BY <1>6, PackRestStep
<1>7. CASE Persist \/ EmbedBatch \/ EmbedEnd
  <2>1. UNCHANGED <<pieces, current, chunks, clean, extracted>>
    BY <1>7 DEF Persist, EmbedBatch, EmbedEnd, runVars
  <2>2. stage \in Packed /\ stage' \in Packed
    BY <1>7 DEF Persist, EmbedBatch, EmbedEnd, Doing, Packed
  <2>3. stage # "pack" /\ stage' # "pack"
    BY <2>2 DEF Packed
  <2>. QED
    BY <2>1, <2>2, <2>3, PackUnchanged
<1>. QED
  BY <1>1, <1>2, <1>3, <1>4, <1>5, <1>6, <1>7 DEF Next

LEMMA PackAlways == Spec => [](IntakeInv /\ CleanInv /\ PackInv)
<1>1. Init => PackInv
  BY PackNone DEF Init, IntakeInit, Packed
<1>2. IntakeInv /\ CleanInv /\ PackInv /\ [Next]_vars => PackInv'
  BY PackKept
<1>. QED
  BY <1>1, <1>2, CleanAlways, PTL DEF Spec

LEMMA ToSetIs ==
  ASSUME NEW S, NEW s \in Seq(S), NEW c
  PROVE  c \in ToSet(s) <=> \E k \in 1..Len(s) : s[k] = c
BY DEF ToSet

\* Each chunk starts and ends after the one before it, whatever the overlap
\* carried over (_overlap_tail drops at least one piece; the piece that did not
\* fit comes after).
THEOREM PackingAdvances == Spec => []ChunksAdvance
<1>1. PackInv => ChunksAdvance
  <2>. SUFFICES ASSUME PackInv, NEW k \in 1..Len(chunks) - 1
                PROVE  chunks[k].start < chunks[k + 1].start /\ chunks[k].end < chunks[k + 1].end
    BY DEF ChunksAdvance
  <2>1. chunks \in Seq(Chunk) /\ Advancing(chunks)
    BY DEF PackInv, ChunksMade
  <2>2. k + 1 \in 2..Len(chunks) /\ (k + 1) - 1 = k
    BY <2>1
  <2>. QED
    BY <2>1, <2>2 DEF Advancing
<1>. QED
  BY <1>1, PackAlways, PTL

\* No visible character is lost between the cleaned text and its chunks, those
\* that close a sentence at a boundary apart.
THEOREM ChunksCoverText == Spec => []TextCovered
<1>1. IntakeInv /\ CleanInv /\ PackInv => TextCovered
  <2>. SUFFICES ASSUME IntakeInv, CleanInv, PackInv, stage = "embed", NEW i \in Offsets,
                       At(clean.text, i) \in Visible, ~Closing(i)
                PROVE  \E c \in ToSet(chunks) : i \in c.start..c.end - 1
    BY DEF TextCovered, Chunked
  <2>1. stage \in Packed /\ stage \in Cleaned
    BY DEF Packed, Cleaned
  <2>2. pieces = <<>> /\ current = <<>> /\ ChunksMade(clean, Pages, chunks)
        /\ (Loose(clean.text, i) \/ Within(<<>>, i) \/ Reached(chunks, i))
    BY <2>1 DEF PackInv
  <2>3. ~Within(<<>>, i)
    BY NothingPacked
  <2>4. ~Loose(clean.text, i)
    BY DEF Loose, Closing, Visible
  <2>5. PICK k \in 1..Len(chunks) : chunks[k].start <= i /\ i < chunks[k].end
    BY <2>2, <2>3, <2>4 DEF Reached
  <2>6. chunks \in Seq(Chunk) /\ chunks[k] \in Chunk /\ i \in Int
    <3>1. Len(clean.text) \in Nat
      BY <2>1, SourceMonotone
    <3>. QED
      BY <2>2, <3>1 DEF ChunksMade, Offsets
  <2>7. chunks[k] \in ToSet(chunks)
    BY <2>6, ToSetIs
  <2>8. i \in chunks[k].start..chunks[k].end - 1
    BY <2>5, <2>6 DEF Chunk
  <2>. QED
    BY <2>7, <2>8
<1>. QED
  BY <1>1, PackAlways, PTL

LEMMA ChunksAre ==
  ASSUME IntakeInv, CleanInv, PackInv, stage \in Cleaned, NEW c \in ToSet(chunks)
  PROVE  /\ Made(clean, Pages, c)
         /\ c.start \in Int /\ c.end \in Int /\ 0 <= c.start /\ c.start < c.end
         /\ c.end <= Len(clean.text)
         /\ c.sourceStart = SourceOf(c.start) /\ c.sourceEnd = SourceOf(c.end)
<1>1. chunks \in Seq(Chunk) /\ \A k \in 1..Len(chunks) : Made(clean, Pages, chunks[k])
  BY DEF PackInv, ChunksMade
<1>2. Made(clean, Pages, c)
  BY <1>1, ToSetIs
<1>. QED
  BY <1>2 DEF Made, Chunk, SourceOf

\* The source span of a chunk holds the source of its own characters and of no
\* other, whatever cleaning deleted at its ends.
THEOREM ChunksQuoteSource == Spec => []SpansExact
<1>1. IntakeInv /\ CleanInv /\ PackInv => SpansExact
  <2>. SUFFICES ASSUME IntakeInv, CleanInv, PackInv, stage = "embed",
                       NEW c \in ToSet(chunks), NEW i \in Offsets
                PROVE  i \in c.start..c.end - 1
                         <=> SourceOf(i) \in c.sourceStart..c.sourceEnd - 1
    BY DEF SpansExact, Chunked
  <2>. DEFINE m == Len(clean.text)
  <2>1. stage \in Cleaned
    BY DEF Cleaned
  <2>2. /\ c.start \in Int /\ c.end \in Int /\ 0 <= c.start /\ c.start < c.end /\ c.end <= m
        /\ c.sourceStart = SourceOf(c.start) /\ c.sourceEnd = SourceOf(c.end)
    BY <2>1, ChunksAre
  <2>3. /\ m \in Nat /\ Len(Source) \in Nat
        /\ \A j \in 0..m : m > 0 => SourceOf(j) \in 0..Len(Source)
        /\ \A j \in 0..m : \A k \in j + 1..m : SourceOf(j) < SourceOf(k)
    BY <2>1, SourceMonotone
  <2>4. i \in 0..m - 1
    BY DEF Offsets
  <2>. DEFINE a == c.start
              b == c.end
  <2>5. a \in 0..m /\ b \in 0..m /\ m > 0 /\ i \in 0..m /\ a < b
    BY <2>2, <2>3, <2>4
  <2>. HIDE DEF m, a, b
  <2>6. SourceOf(a) \in Int /\ SourceOf(b) \in Int /\ SourceOf(i) \in Int
    BY <2>3, <2>5
  <2>7. \A j, k \in 0..m : j < k => SourceOf(j) < SourceOf(k)
    <3>. SUFFICES ASSUME NEW j \in 0..m, NEW k \in 0..m, j < k PROVE SourceOf(j) < SourceOf(k)
      OBVIOUS
    <3>1. k \in j + 1..m
      BY <2>3
    <3>. QED
      BY <2>3, <3>1
  <2>8. /\ i < a => SourceOf(i) < SourceOf(a)
        /\ a < i => SourceOf(a) < SourceOf(i)
        /\ i < b => SourceOf(i) < SourceOf(b)
        /\ b < i => SourceOf(b) < SourceOf(i)
    BY <2>5, <2>7
  <2>9. i \in a..b - 1 <=> SourceOf(i) \in SourceOf(a)..SourceOf(b) - 1
    <3>1. a \in Int /\ b \in Int /\ i \in Int
      BY <2>3, <2>5
    <3>2. i = a \/ i < a \/ a < i
      BY <3>1
    <3>3. i = b \/ i < b \/ b < i
      BY <3>1
    <3>4. a <= i <=> SourceOf(a) <= SourceOf(i)
      BY <2>6, <2>8, <3>1, <3>2
    <3>5. i < b <=> SourceOf(i) < SourceOf(b)
      BY <2>6, <2>8, <3>1, <3>3
    <3>. QED
      BY <2>6, <3>1, <3>4, <3>5
  <2>. QED
    BY <2>2, <2>9 DEF a, b
<1>. QED
  BY <1>1, PackAlways, PTL

-----------------------------------------------------------------------------
(* Budgets.  BudgetInv: the pieces at hand meet, fit and cost no more than *)
(* the size, and what they repeat of the last chunk is within the overlap. *)

LEMMA EndingChained ==
  ASSUME NEW text, NEW s \in Seq(Part), Chained(text, s), AllFit(text, s), NEW t, Ending(t, s)
  PROVE  Chained(text, t) /\ AllFit(text, t)
<1>. DEFINE n == Len(t)
            d == Len(s) - n
<1>0. /\ n \in Nat /\ d \in Nat /\ Len(s) \in Nat /\ d + n = Len(s)
      /\ \A j \in 1..n : t[j] = s[d + j] /\ d + j \in 1..Len(s)
  <2>1. t \in Seq(Part) /\ n <= Len(s) /\ \A j \in 1..n : t[j] = s[d + j]
    BY DEF Ending
  <2>2. Len(s) \in Nat /\ n \in Nat
    BY <2>1
  <2>. QED
    BY <2>1, <2>2
<1>. HIDE DEF d
<1>1. ASSUME NEW j \in 2..n PROVE Gap(text, t[j - 1], t[j])
  <2>1. j \in 1..n /\ j - 1 \in 1..n /\ d + j \in 2..Len(s) /\ (d + j) - 1 = d + (j - 1)
    BY <1>0
  <2>2. Gap(text, s[(d + j) - 1], s[d + j])
    BY <2>1 DEF Chained
  <2>. QED
    BY <1>0, <2>1, <2>2
<1>2. \A j \in 1..n : Fits(text, t[j])
  BY <1>0 DEF AllFit
<1>. QED
  BY <1>1, <1>2 DEF Chained, AllFit

\* The gap between the pieces of a chunk and those that follow them.
Meeting(text, s, p) == s # <<>> /\ p # <<>> => Gap(text, s[Len(s)], p[1])

LEMMA AppendChained ==
  ASSUME NEW text, NEW s \in Seq(Part), Chained(text, s), AllFit(text, s),
         NEW x \in Part, Fits(text, x), s # <<>> => Gap(text, s[Len(s)], x),
         NEW r, r = Append(s, x)
  PROVE  Chained(text, r) /\ AllFit(text, r)
<1>. DEFINE n == Len(s)
<1>0. /\ Len(r) = n + 1 /\ n \in Nat /\ r[n + 1] = x /\ \A j \in 1..n : r[j] = s[j]
  BY AppendIs
<1>1. ASSUME NEW j \in 2..n + 1 PROVE Gap(text, r[j - 1], r[j])
  <2>1. CASE j = n + 1
    <3>1. n \in 1..n /\ j - 1 = n /\ s # <<>>
      BY <1>0, <2>1
    <3>. QED
      BY <1>0, <2>1, <3>1
  <2>2. CASE j # n + 1
    <3>1. j \in 2..n /\ j \in 1..n /\ j - 1 \in 1..n
      BY <1>0, <2>2
    <3>. QED
      BY <1>0, <3>1 DEF Chained
  <2>. QED
    BY <2>1, <2>2
<1>2. ASSUME NEW j \in 1..n + 1 PROVE Fits(text, r[j])
  <2>1. j = n + 1 \/ j \in 1..n
    BY <1>0
  <2>. QED
    BY <1>0, <2>1 DEF AllFit
<1>. QED
  BY <1>0, <1>1, <1>2 DEF Chained, AllFit

LEMMA TailChained ==
  ASSUME NEW text, NEW p \in Seq(Part), p # <<>>, Chained(text, p), AllFit(text, p)
  PROVE  /\ Chained(text, Tail(p)) /\ AllFit(text, Tail(p)) /\ Fits(text, p[1])
         /\ Tail(p) # <<>> => Gap(text, p[1], Tail(p)[1])
<1>0. Len(p) \in Nat /\ Len(p) > 0 /\ 1 \in 1..Len(p)
  OBVIOUS
<1>1. Tail(p) = SubSeq(p, 2, Len(p)) /\ 2 \in 1..Len(p) + 1
  BY <1>0, TailIsSubSeq
<1>2. Ending(Tail(p), p)
  BY <1>1, EndingIs
<1>3. Chained(text, Tail(p)) /\ AllFit(text, Tail(p))
  BY <1>2, EndingChained
<1>4. Fits(text, p[1])
  BY <1>0 DEF AllFit
<1>5. ASSUME Tail(p) # <<>> PROVE Gap(text, p[1], Tail(p)[1])
  <2>1. /\ Tail(p) \in Seq(Part) /\ Len(Tail(p)) = Len(p) - 1
        /\ \A k \in 1..Len(Tail(p)) : Tail(p)[k] = p[k + 1]
    BY <1>0, HeadTailProperties
  <2>2. 1 \in 1..Len(Tail(p)) /\ 1 + 1 = 2 /\ 2 - 1 = 1 /\ 2 \in 2..Len(p)
    BY <1>0, <1>5, <2>1
  <2>3. Gap(text, p[2 - 1], p[2])
    BY <2>2 DEF Chained
  <2>. QED
    BY <2>1, <2>2, <2>3
<1>. QED
  BY <1>3, <1>4, <1>5

\* A stretch of text within a budget, blank lines in a row apart.
Lapped(text, a, b) ==
  Count(Slice(text, a, b)) <= Overlap \/ BlankLines(Slice(text, a, b))

Sized(text, c) ==
  /\ \/ c.tokens <= ChunkSize
     \/ Unbroken(Slice(text, c.start, c.end)) \/ BlankLines(Slice(text, c.start, c.end))
  /\ IsBlank(Slice(text, c.start, c.end)) => TooLongAt(text, c.start)

LEMMA SolidUnbroken ==
  ASSUME NEW text \in Seq(Char), NEW a \in 0..Len(text), NEW b \in a..Len(text),
         Solid(text, a, b)
  PROVE  Unbroken(Slice(text, a, b))
<1>. DEFINE s == Slice(text, a, b)
<1>0. a \in Int /\ b \in Int /\ a <= b /\ b - a \in Nat
  OBVIOUS
<1>1. s \in Seq(Char) /\ Len(s) = b - a /\ \A i \in 1..b - a : s[i] = text[a + i]
  BY SliceIs
<1>. HIDE DEF s
<1>2. ASSUME NEW i \in 1..Len(s)
      PROVE  (a + i) - 1 \in a..b - 1 /\ s[i] = At(text, (a + i) - 1)
  <2>1. /\ (a + i) - 1 \in a..b - 1 /\ (a + i) - 1 \in 0..Len(text) - 1
        /\ ((a + i) - 1) + 1 = a + i /\ i \in 1..b - a
    BY <1>0, <1>1
  <2>. QED
    BY <1>1, <2>1 DEF At
<1>3. ASSUME NEW i \in 1..Len(s), NEW j \in 1..Len(s), NEW k \in 1..Len(s),
             i < j, j < k, s[j] \in Space
      PROVE  s[i] \in Space \/ s[k] \in Space
  <2>. DEFINE x == (a + i) - 1
              y == (a + j) - 1
              z == (a + k) - 1
  <2>1. x \in a..b - 1 /\ y \in a..b - 1 /\ z \in a..b - 1
        /\ s[i] = At(text, x) /\ s[j] = At(text, y) /\ s[k] = At(text, z)
    BY <1>2
  <2>2. x < y /\ y < z
    BY <1>0, <1>3
  <2>. HIDE DEF x, y, z
  <2>. QED
    BY <1>3, <2>1, <2>2 DEF Solid
<1>. QED
  BY <1>3 DEF Unbroken, s

\* What begins a blank span is blank.
LEMMA BlankPrefix ==
  ASSUME NEW text \in Seq(Char), NEW a \in 0..Len(text), NEW b \in a..Len(text),
         NEW c \in a..b, IsBlank(Slice(text, a, b))
  PROVE  IsBlank(Slice(text, a, c))
<1>0. /\ c \in a..Len(text) /\ Len(text) \in Nat /\ a \in Int /\ b \in Int /\ c \in Int
      /\ c - a <= b - a
  OBVIOUS
<1>. DEFINE s == Slice(text, a, b)
            t == Slice(text, a, c)
<1>1. Len(s) = b - a /\ \A i \in 1..b - a : s[i] = text[a + i]
  BY SliceIs
<1>2. Len(t) = c - a /\ \A i \in 1..c - a : t[i] = text[a + i]
  BY <1>0, SliceIs
<1>3. \A i \in 1..Len(s) : s[i] \in Space
  BY DEF IsBlank
<1>. HIDE DEF s, t
<1>4. ASSUME NEW i \in 1..Len(t) PROVE t[i] \in Space
  <2>1. i \in 1..c - a /\ i \in 1..b - a
    BY <1>0, <1>2
  <2>. QED
    BY <1>1, <1>2, <1>3, <2>1
<1>. QED
  BY <1>4 DEF IsBlank, t

\* The chunk of pieces that fit, or together cost no more than the size.
LEMMA EmitSized ==
  ASSUME NEW document, document.text \in Seq(Char), NEW pages,
         NEW r \in Seq(Part), r # <<>>, Laid(r, 0, Len(document.text)),
         Chained(document.text, r), AllFit(document.text, r),
         Len(r) > 1 => TotalCost(document.text, r) <= ChunkSize,
         NEW c, c = Emit(document, pages, r)
  PROVE  Sized(document.text, c)
<1>. DEFINE text == document.text
            n == Len(r)
            a == r[1].start
            b == r[n].end
<1>0. n \in Nat /\ n > 0 /\ 1 \in 1..n /\ n \in 1..n /\ ChunkSize \in Nat
  BY ChunkingAssumption
<1>1. c.start = a /\ c.end = b /\ c.tokens = Count(Slice(text, a, b))
  BY DEF Emit, Last
<1>b. ASSUME IsBlank(Slice(text, a, b)) PROVE TooLongAt(text, a)
  <2>. DEFINE x == r[1].end
  <2>1. a \in 0..Len(text) /\ x \in a + 1..Len(text) /\ b \in 0..Len(text)
    <3>1. a \in 0..Len(text) /\ x \in a + 1..Len(text)
      BY <1>0, PieceCosts
    <3>. DEFINE y == r[n].start
    <3>2. y \in 0..Len(text) /\ b \in y + 1..Len(text)
      BY <1>0, PieceCosts
    <3>. HIDE DEF y, b
    <3>3. b \in 0..Len(text)
      BY <3>2
    <3>. QED
      BY <3>1, <3>3
  <2>2. x <= b
    <3>1. CASE n = 1
      BY <3>1, <2>1
    <3>2. CASE n # 1
      <4>1. 0 \in Int /\ Len(text) \in Int /\ n \in 1 + 1..n
        BY <1>0, <3>2
      <4>2. r[1].next <= r[n].start
        BY <1>0, <4>1, LaidOrder
      <4>3. r[1].end <= r[1].next /\ r[n].start < r[n].end
        BY <1>0 DEF Laid
      <4>4. /\ r[1].end \in Int /\ r[1].next \in Int
            /\ r[n].start \in Int /\ r[n].end \in Int
        BY <1>0, PartIs
      <4>. QED
        BY <4>2, <4>3, <4>4
    <3>. QED
      BY <3>1, <3>2
  <2>3. Fits(text, r[1])
    BY <1>0 DEF AllFit
  <2>4. IsBlank(Slice(text, r[1].start, r[1].end)) => TooLongAt(text, r[1].start)
    BY <2>3 DEF Fits
  <2>. HIDE DEF b
  <2>5. b \in a..Len(text) /\ x \in a..b
    <3>. HIDE DEF a, x
    <3>. QED
      BY <2>1, <2>2
  <2>6. IsBlank(Slice(text, a, x))
    BY <1>b, <2>1, <2>5, BlankPrefix
  <2>. QED
    BY <2>4, <2>6
<1>2. CASE n = 1
  <2>1. Fits(text, r[1]) /\ b = r[1].end
    BY <1>0, <1>2 DEF AllFit
  <2>2. a \in 0..Len(text) /\ b \in a + 1..Len(text)
    BY <1>0, <2>1, PieceCosts
  <2>. HIDE DEF a, b
  <2>3. b \in a..Len(text)
    BY <2>2
  <2>4. Count(Slice(text, a, b)) <= ChunkSize \/ Solid(text, a, b)
    BY <2>1 DEF Fits, a
  <2>5. Solid(text, a, b) => Unbroken(Slice(text, a, b))
    BY <2>2, <2>3, SolidUnbroken
  <2>. QED
    BY <1>1, <1>b, <2>4, <2>5 DEF Sized, a, b
<1>3. CASE n > 1
  <2>1. Count(Slice(text, a, b)) <= TotalCost(text, r) \/ BlankLines(Slice(text, a, b))
    BY SpanCosts
  <2>2. TotalCost(text, r) <= ChunkSize
    BY <1>3
  <2>3. PICK f : Sums(text, r, f) /\ TotalCost(text, r) = f[n]
    BY TotalCostIs
  <2>4. TotalCost(text, r) \in Nat
    BY <1>0, <2>3 DEF Sums
  <2>5. a \in 0..Len(text) /\ r[n].start \in 0..Len(text) /\ b \in r[n].start + 1..Len(text)
    BY <1>0, PieceCosts
  <2>6. a <= r[n].start
    <3>1. 0 \in Int /\ Len(text) \in Int /\ n \in 1 + 1..n
      BY <1>0, <1>3
    <3>2. r[1].next <= r[n].start
      BY <1>0, <3>1, LaidOrder
    <3>3. r[1].start < r[1].end /\ r[1].end <= r[1].next
      BY <1>0 DEF Laid
    <3>4. r[1].start \in Int /\ r[1].end \in Int /\ r[1].next \in Int /\ r[n].start \in Int
      BY <1>0, PartIs
    <3>. QED
      BY <3>2, <3>3, <3>4
  <2>7. b \in a + 1..Len(text)
    <3>. DEFINE x == r[n].start
    <3>1. x \in 0..Len(text) /\ b \in x + 1..Len(text) /\ a <= x /\ a \in 0..Len(text)
      BY <2>5, <2>6
    <3>. HIDE DEF x, a, b
    <3>. QED
      BY <3>1
  <2>. HIDE DEF a, b
  <2>8. Count(Slice(text, a, b)) \in Nat
    BY <2>5, <2>7, CountTokens
  <2>9. Count(Slice(text, a, b)) <= ChunkSize \/ BlankLines(Slice(text, a, b))
    BY <1>0, <2>1, <2>2, <2>4, <2>8
  <2>. QED
    BY <1>1, <1>b, <2>9 DEF Sized, a, b
<1>4. n = 1 \/ n > 1
  <2>1. n \in Nat /\ n > 0
    BY <1>0
  <2>. HIDE DEF n
  <2>. QED
    BY <2>1
<1>. QED
  BY <1>2, <1>3, <1>4

\* What a chunk of the pieces s hands over: t, some of its last pieces, or nothing.
LEMMA HandedOver ==
  ASSUME NEW text \in Seq(Char), NEW s \in Seq(Part), s # <<>>, Laid(s, 0, Len(text)),
         Chained(text, s), AllFit(text, s), NEW t, Ending(t, s),
         t # <<>> => TotalCost(text, t) <= Overlap,
         NEW x \in Part, s[Len(s)].next <= x.start, NEW r, r = Append(t, x)
  PROVE  Lapped(text, r[1].start, s[Len(s)].end)
<1>. DEFINE n == Len(t)
            b == s[Len(s)].end
<1>0. t \in Seq(Part) /\ n \in Nat /\ Len(s) \in Nat /\ Len(s) > 0 /\ Len(s) \in 1..Len(s)
      /\ Overlap \in Nat
  BY ChunkingAssumption DEF Ending
<1>1. Len(r) = n + 1 /\ r[n + 1] = x /\ \A j \in 1..n : r[j] = t[j]
  BY <1>0, AppendIs
<1>2. CASE t = <<>>
  <2>1. r[1] = x
    BY <1>1, <1>2
  <2>2. b <= s[Len(s)].next
    BY <1>0 DEF Laid
  <2>3. b \in Int /\ s[Len(s)].next \in Int /\ x.start \in Int
    <3>1. b \in Int /\ s[Len(s)].next \in Int
      BY <1>0, PartIs
    <3>2. x.start \in Int
      BY DEF Part
    <3>. QED
      BY <3>1, <3>2
  <2>. DEFINE y == s[Len(s)].next
              z == x.start
  <2>4. b \in Int /\ y \in Int /\ z \in Int /\ b <= y /\ y <= z
    BY <2>2, <2>3
  <2>. HIDE DEF b, y, z
  <2>5. z + 1 \in Int /\ b < z + 1
    BY <2>4
  <2>6. Slice(text, z, b) = <<>>
    BY <2>4, <2>5, SubSeqEmpty DEF Slice
  <2>7. Count(Slice(text, z, b)) <= Overlap
    BY <1>0, <2>6 DEF Count
  <2>. QED
    BY <2>1, <2>7 DEF Lapped, z, b
<1>3. CASE t # <<>>
  <2>1. Laid(t, 0, Len(text)) /\ t[Len(t)] = s[Len(s)] /\ Len(t) > 0
    <3>. DEFINE lo == 0
                hi == Len(text)
    <3>1. lo \in Int /\ hi \in Int /\ Laid(s, lo, hi)
      OBVIOUS
    <3>. HIDE DEF lo, hi
    <3>2. Laid(t, lo, hi) /\ (t # <<>> => t[Len(t)] = s[Len(s)] /\ Len(t) > 0)
      BY <3>1, EndingLaid
    <3>. QED
      BY <1>3, <3>2 DEF lo, hi
  <2>2. Chained(text, t) /\ AllFit(text, t)
    BY EndingChained
  <2>. DEFINE a == t[1].start
  <2>3. Count(Slice(text, a, b)) <= TotalCost(text, t) \/ BlankLines(Slice(text, a, b))
    <3>1. \/ Count(Slice(text, t[1].start, t[Len(t)].end)) <= TotalCost(text, t)
          \/ BlankLines(Slice(text, t[1].start, t[Len(t)].end))
      BY <1>0, <1>3, <2>1, <2>2, SpanCosts
    <3>. QED
      BY <2>1, <3>1
  <2>4. r[1] = t[1] /\ 1 \in 1..n
    <3>1. 1 \in 1..n
      BY <1>0, <2>1
    <3>. QED
      BY <1>1, <3>1
  <2>5. PICK f : Sums(text, t, f) /\ TotalCost(text, t) = f[n]
    BY <1>0, <2>1, TotalCostIs
  <2>6. TotalCost(text, t) \in Nat
    BY <1>0, <2>5 DEF Sums
  <2>7. Count(Slice(text, a, b)) \in Nat
    <3>1. a \in 0..Len(text) /\ b \in 0..Len(text)
      <4>1. a \in 0..Len(text)
        BY <1>0, <2>1, <2>4, PieceCosts
      <4>2. b \in s[Len(s)].start + 1..Len(text) /\ s[Len(s)].start \in 0..Len(text)
        BY <1>0, PieceCosts
      <4>. DEFINE v == s[Len(s)].start
      <4>. HIDE DEF b, v
      <4>3. b \in v + 1..Len(text) /\ v \in 0..Len(text)
        BY <4>2 DEF v
      <4>4. b \in 0..Len(text)
        BY <4>3
      <4>. QED
        BY <4>1, <4>4
    <3>. HIDE DEF a, b
    <3>2. CASE a <= b
      <4>1. b \in a..Len(text)
        BY <3>1, <3>2
      <4>2. Slice(text, a, b) \in Seq(Char)
        BY <3>1, <4>1, SliceIs
      <4>. QED
        BY <4>2, CountIs
    <3>3. CASE b < a
      <4>1. a + 1 \in Int /\ b \in Int /\ b < a + 1
        BY <3>1, <3>3
      <4>2. Slice(text, a, b) = <<>>
        BY <4>1, SubSeqEmpty DEF Slice
      <4>. QED
        BY <4>2 DEF Count
    <3>4. a <= b \/ b < a
      BY <3>1
    <3>. QED
      BY <3>2, <3>3, <3>4
  <2>. HIDE DEF a, b
  <2>8. Count(Slice(text, a, b)) <= Overlap \/ BlankLines(Slice(text, a, b))
    BY <1>0, <1>3, <2>3, <2>6, <2>7
  <2>. QED
    BY <2>4, <2>8 DEF Lapped, a, b
<1>. QED
  BY <1>2, <1>3

\* The pieces at hand meet, fit and cost no more than the size.
Budgeted(text, s, p) ==
  /\ AllFit(text, s) /\ AllFit(text, p) /\ Chained(text, s) /\ Chained(text, p)
  /\ Meeting(text, s, p)
  /\ Len(s) > 1 => TotalCost(text, s) <= ChunkSize

\* So they do after a round of packing, where t is what is left of the pieces s.
LEMMA RoundBudget ==
  ASSUME NEW text \in Seq(Char), NEW s \in Seq(Part), Laid(s, 0, Len(text)),
         NEW p \in Seq(Part), p # <<>>, Budgeted(text, s, p), NEW t, Ending(t, s),
         t # <<>> => TotalCost(text, t) + Cost(text, p[1]) <= ChunkSize,
         NEW r, r = Append(t, p[1]), Laid(r, 0, Len(text)), NEW rest, rest = Tail(p)
  PROVE  Budgeted(text, r, rest)
<1>. DEFINE x == p[1]
            n == Len(t)
<1>0. /\ t \in Seq(Part) /\ n \in Nat /\ x \in Part /\ Len(p) \in Nat /\ Len(p) > 0
  BY DEF Ending
<1>1. Chained(text, t) /\ AllFit(text, t)
  BY EndingChained DEF Budgeted
<1>2. /\ Chained(text, rest) /\ AllFit(text, rest) /\ Fits(text, x)
      /\ rest # <<>> => Gap(text, x, rest[1])
  BY TailChained DEF Budgeted
<1>3. ASSUME t # <<>> PROVE Gap(text, t[n], x)
  <2>. DEFINE lo == 0
              hi == Len(text)
  <2>1. lo \in Int /\ hi \in Int /\ Laid(s, lo, hi)
    OBVIOUS
  <2>. HIDE DEF lo, hi
  <2>2. t[n] = s[Len(s)] /\ s # <<>>
    BY <1>3, <2>1, EndingLaid
  <2>. QED
    BY <2>2 DEF Budgeted, Meeting
<1>r. r = Append(t, x)
  OBVIOUS
<1>. HIDE DEF x
<1>4. Chained(text, r) /\ AllFit(text, r)
  BY <1>0, <1>1, <1>2, <1>3, <1>r, AppendChained
<1>5. Len(r) = n + 1 /\ r[n + 1] = x
  BY <1>0, <1>r, AppendIs
<1>6. Meeting(text, r, rest)
  BY <1>2, <1>5 DEF Meeting
<1>7. ASSUME Len(r) > 1 PROVE TotalCost(text, r) <= ChunkSize
  <2>1. t # <<>>
    BY <1>0, <1>5, <1>7
  <2>2. TotalCost(text, r) = TotalCost(text, t) + Cost(text, x)
    BY <1>0, <1>r, AppendCosts
  <2>. QED
    BY <2>1, <2>2 DEF x
<1>. QED
  BY <1>2, <1>4, <1>6, <1>7 DEF Budgeted

\* Every chunk keeps to the size, and to the overlap with the one before it.
Keeping(text, cs) ==
  /\ \A k \in 1..Len(cs) : Sized(text, cs[k])
  /\ \A k \in 2..Len(cs) : Lapped(text, cs[k].start, cs[k - 1].end)

\* So does the overlap of the pieces at hand with the last chunk.
Handing(text, cs, r) == cs # <<>> => Lapped(text, r[1].start, cs[Len(cs)].end)

BudgetInv ==
  /\ Budgeted(clean.text, current, pieces)
  /\ Keeping(clean.text, chunks)
  /\ stage = "pack" => Handing(clean.text, chunks, current)

LEMMA NothingBudgeted ==
  ASSUME NEW text
  PROVE  /\ Budgeted(text, <<>>, <<>>) /\ Keeping(text, <<>>)
         /\ \A r : Handing(text, <<>>, r)
<1>1. Len(<<>>) = 0 /\ 1..0 = {} /\ 2..0 = {}
  OBVIOUS
<1>. QED
  BY <1>1 DEF Budgeted, Keeping, Handing, AllFit, Chained, Meeting

LEMMA KeepAppends ==
  ASSUME NEW text, NEW cs \in Seq(Chunk), NEW c \in Chunk, Keeping(text, cs), Sized(text, c),
         cs # <<>> => Lapped(text, c.start, cs[Len(cs)].end), NEW more, more = Append(cs, c)
  PROVE  Keeping(text, more)
<1>. DEFINE n == Len(cs)
<1>0. /\ n \in Nat /\ Len(more) = n + 1 /\ more[n + 1] = c /\ \A j \in 1..n : more[j] = cs[j]
  BY AppendIs
<1>1. ASSUME NEW k \in 1..n + 1 PROVE Sized(text, more[k])
  <2>1. k = n + 1 \/ k \in 1..n
    BY <1>0
  <2>. QED
    BY <1>0, <2>1 DEF Keeping
<1>2. ASSUME NEW k \in 2..n + 1 PROVE Lapped(text, more[k].start, more[k - 1].end)
  <2>1. CASE k = n + 1
    <3>1. n \in 1..n /\ k - 1 = n /\ cs # <<>>
      BY <1>0, <2>1
    <3>. QED
      BY <1>0, <2>1, <3>1
  <2>2. CASE k # n + 1
    <3>1. k \in 2..n /\ k \in 1..n /\ k - 1 \in 1..n
      BY <1>0, <2>2
    <3>. QED
      BY <1>0, <3>1 DEF Keeping
  <2>. QED
    BY <2>1, <2>2
<1>. QED
  BY <1>0, <1>1, <1>2 DEF Keeping

\* What the pieces at hand and the chunks emitted so far promise.
Packing(text, cs, s, p) == Budgeted(text, s, p) /\ Keeping(text, cs) /\ Handing(text, cs, s)

\* The chunk of the pieces s keeps the budgets where they do.
LEMMA EmitKeeps ==
  ASSUME IntakeInv, CleanInv, stage \in Cleaned, NEW s \in Seq(Part), s # <<>>,
         Laid(s, 0, Len(clean.text)), NEW p, NEW cs \in Seq(Chunk),
         Packing(clean.text, cs, s, p), NEW more, more = Append(cs, Emit(clean, Pages, s))
  PROVE  /\ Keeping(clean.text, more) /\ more # <<>>
         /\ more[Len(more)].end = s[Len(s)].end
<1>. DEFINE c == Emit(clean, Pages, s)
            text == clean.text
<1>1. c \in Chunk /\ c.start = s[1].start /\ c.end = s[Len(s)].end
  BY EmitIs DEF Made
<1>2. clean.text \in Seq(Char)
  BY OffsetsAre
<1>3. Sized(clean.text, c)
  BY <1>2, EmitSized DEF Packing, Budgeted
<1>m. more = Append(cs, c)
  OBVIOUS
<1>. HIDE DEF c
<1>4. cs # <<>> => Lapped(text, c.start, cs[Len(cs)].end)
  BY <1>1 DEF Packing, Handing
<1>5. Keeping(clean.text, more)
  BY <1>1, <1>3, <1>4, <1>m, KeepAppends DEF Packing
<1>6. Len(more) = Len(cs) + 1 /\ more # <<>> /\ more[Len(cs) + 1] = c
  BY <1>1, <1>m, AppendIs
<1>. QED
  BY <1>1, <1>5, <1>6

LEMMA WholeEnding ==
  ASSUME NEW s \in Seq(Part)
  PROVE  Ending(s, s)
<1>1. Len(s) \in Nat /\ \A j \in 1..Len(s) : (Len(s) - Len(s)) + j = j
  OBVIOUS
<1>. QED
  BY <1>1 DEF Ending

\* A round that finds room: the piece joins the others.
LEMMA JoinBudget ==
  ASSUME NEW text \in Seq(Char), NEW s \in Seq(Part), Laid(s, 0, Len(text)),
         NEW p \in Seq(Part), p # <<>>, Laid(p, 0, Len(text)), Follows(s, p),
         NEW cs, Packing(text, cs, s, p), cs # <<>> => s # <<>>,
         ~(s # <<>> /\ TotalCost(text, s) + Cost(text, p[1]) > ChunkSize),
         NEW r, r = Append(s, p[1]), NEW rest, rest = Tail(p)
  PROVE  Packing(text, cs, r, rest)
<1>. DEFINE hi == Len(text)
<1>0. hi \in Int /\ Laid(s, 0, hi) /\ Laid(p, 0, hi) /\ Ending(s, s) /\ ChunkSize \in Nat
  BY WholeEnding, ChunkingAssumption
<1>1. Cost(text, p[1]) \in Nat
  <2>1. 1 \in 1..Len(p)
    OBVIOUS
  <2>. QED
    BY <2>1, PieceCosts
<1>2. TotalCost(text, s) \in Nat
  BY <1>0, EndingCosts
<1>3. s # <<>> => TotalCost(text, s) + Cost(text, p[1]) <= ChunkSize
  BY <1>0, <1>1, <1>2
<1>. HIDE DEF hi
<1>4. Round(s, p, s, r, rest, hi)
  BY <1>0, PackedOn
<1>5. Laid(r, 0, Len(text)) /\ (s # <<>> => r[1] = s[1])
  BY <1>4 DEF Round, hi
<1>6. Budgeted(text, r, rest)
  BY <1>0, <1>3, <1>5, RoundBudget DEF Packing
<1>7. Handing(text, cs, r)
  BY <1>5 DEF Packing, Handing
<1>. QED
  BY <1>6, <1>7 DEF Packing

\* A round that finds none: the chunk is emitted and the piece joins what it
\* carries over.
LEMMA EmitBudget ==
  ASSUME NEW text \in Seq(Char), NEW s \in Seq(Part), s # <<>>, Laid(s, 0, Len(text)),
         NEW p \in Seq(Part), p # <<>>, Laid(p, 0, Len(text)), Follows(s, p),
         Budgeted(text, s, p), NEW more, Keeping(text, more), more # <<>>,
         more[Len(more)].end = s[Len(s)].end,
         NEW r, r = Append(Carried(text, s, p[1]), p[1]), NEW rest, rest = Tail(p)
  PROVE  Packing(text, more, r, rest)
<1>. DEFINE hi == Len(text)
            t == Carried(text, s, p[1])
<1>0. hi \in Int /\ Laid(s, 0, hi) /\ Laid(p, 0, hi) /\ 1 \in 1..Len(p) /\ p[1] \in Part
  OBVIOUS
<1>1. Cost(text, p[1]) \in Nat
  BY <1>0, PieceCosts
<1>2. Ending(t, s) /\ Len(t) < Len(s)
  BY <1>1, CarriedIs
<1>3. t # <<>> => /\ TotalCost(text, t) <= Overlap
                  /\ TotalCost(text, t) + Cost(text, p[1]) <= ChunkSize
  BY <1>1, CarriedCosts
<1>r. r = Append(t, p[1])
  OBVIOUS
<1>. HIDE DEF hi, t
<1>4. Round(s, p, t, r, rest, hi)
  BY <1>0, <1>2, <1>r, PackedOn
<1>5. Laid(r, 0, Len(text))
  BY <1>4 DEF Round, hi
<1>6. Budgeted(text, r, rest)
  BY <1>2, <1>3, <1>5, <1>r, RoundBudget
<1>7. Lapped(text, r[1].start, s[Len(s)].end)
  <2>. DEFINE x == p[1]
  <2>1. x \in Part /\ s[Len(s)].next <= x.start /\ r = Append(t, x)
    BY <1>0, <1>r DEF Follows
  <2>. HIDE DEF x
  <2>2. Chained(text, s) /\ AllFit(text, s)
    BY DEF Budgeted
  <2>. QED
    BY <1>2, <1>3, <2>1, <2>2, HandedOver
<1>8. Handing(text, more, r)
  BY <1>7 DEF Handing
<1>. QED
  BY <1>6, <1>8 DEF Packing

LEMMA SplitTextBudget ==
  ASSUME IntakeInv, CleanInv, PackInv, SplitText
  PROVE  BudgetInv'
<1>0. /\ stage = "chunk" /\ stage \in Cleaned
      /\ current' = <<>> /\ chunks' = <<>> /\ pieces' = Split(clean.text) /\ clean' = clean
  BY DEF SplitText, Doing, Cleaned, PackInv, Packed
<1>1. clean.text \in Seq(Char)
  BY <1>0, OffsetsAre
<1>2. Chained(clean.text, Split(clean.text)) /\ AllFit(clean.text, Split(clean.text))
  BY <1>1, SplitChained
<1>3. Chained(clean.text, pieces') /\ AllFit(clean.text, pieces')
  BY <1>0, <1>2
<1>4. /\ Budgeted(clean.text, <<>>, <<>>) /\ Keeping(clean.text, <<>>)
      /\ \A r : Handing(clean.text, <<>>, r)
  BY NothingBudgeted
<1>5. Budgeted(clean.text, <<>>, pieces')
  BY <1>3, <1>4 DEF Budgeted, Meeting
<1>. QED
  BY <1>0, <1>4, <1>5 DEF BudgetInv

LEMMA PackPieceBudget ==
  ASSUME IntakeInv, CleanInv, PackInv, BudgetInv, PackPiece
  PROVE  BudgetInv'
<1>. DEFINE text == clean.text
            s == current
            p == pieces
            cs == chunks
            r == current'
            rest == pieces'
            more == chunks'
            full == s # <<>> /\ TotalCost(text, s) + Cost(text, p[1]) > ChunkSize
<1>0. /\ stage = "pack" /\ stage \in Cleaned /\ p # <<>>
      /\ p \in Seq(Part) /\ Laid(p, 0, Len(text)) /\ s \in Seq(Part) /\ Laid(s, 0, Len(text))
      /\ Follows(s, p) /\ ChunksMade(clean, Pages, cs) /\ Ahead(cs, s)
  BY DEF PackPiece, Doing, Cleaned, PackInv
<1>1. text \in Seq(Char) /\ cs \in Seq(Chunk) /\ Head(p) = p[1]
  BY <1>0, OffsetsAre DEF ChunksMade
<1>2. /\ more = IF full THEN Append(cs, Emit(clean, Pages, s)) ELSE cs
      /\ r = Append(IF full THEN Carried(text, s, p[1]) ELSE s, p[1])
      /\ rest = Tail(p) /\ stage' = stage /\ clean' = clean
  BY <1>1 DEF PackPiece, intakeVars
<1>3. Packing(text, cs, s, p)
  BY <1>0 DEF BudgetInv, Packing
<1>4. ASSUME Packing(text, more, r, rest) PROVE BudgetInv'
  BY <1>2, <1>4 DEF BudgetInv, Packing
<1>5. CASE full
  <2>1. s # <<>> /\ more = Append(cs, Emit(clean, Pages, s))
        /\ r = Append(Carried(text, s, p[1]), p[1])
    BY <1>2, <1>5
  <2>. HIDE DEF s, p, cs, r, rest, more, full
  <2>2. Keeping(text, more) /\ more # <<>> /\ more[Len(more)].end = s[Len(s)].end
    BY <1>0, <1>1, <1>3, <2>1, EmitKeeps
  <2>3. Budgeted(text, s, p)
    BY <1>3 DEF Packing
  <2>. HIDE DEF text
  <2>4. Packing(text, more, r, rest)
    BY <1>0, <1>1, <1>2, <2>1, <2>2, <2>3, EmitBudget
  <2>. QED
    BY <1>4, <2>4
<1>6. CASE ~full
  <2>1. more = cs /\ r = Append(s, p[1])
    BY <1>2, <1>6
  <2>2. cs # <<>> => s # <<>>
    BY <1>0 DEF Ahead
  <2>3. ~(s # <<>> /\ TotalCost(text, s) + Cost(text, p[1]) > ChunkSize)
    BY <1>6
  <2>. HIDE DEF s, p, cs, r, rest, more, full, text
  <2>4. Packing(text, cs, r, rest)
    BY <1>0, <1>1, <1>2, <1>3, <2>1, <2>2, <2>3, JoinBudget
  <2>. QED
    BY <1>4, <2>1, <2>4
<1>. QED
  BY <1>5, <1>6

LEMMA PackRestBudget ==
  ASSUME IntakeInv, CleanInv, PackInv, BudgetInv, PackRest
  PROVE  BudgetInv'
<1>0. /\ stage = "pack" /\ stage \in Cleaned /\ stage' = "persist"
      /\ pieces = <<>> /\ pieces' = <<>> /\ current' = <<>> /\ clean' = clean
      /\ chunks' = IF current = <<>> THEN chunks ELSE Append(chunks, Emit(clean, Pages, current))
      /\ current \in Seq(Part) /\ Laid(current, 0, Len(clean.text)) /\ chunks \in Seq(Chunk)
  BY DEF PackRest, Doing, Cleaned, PackInv, Packed, ChunksMade
<1>1. Packing(clean.text, chunks, current, pieces)
  BY <1>0 DEF BudgetInv, Packing
<1>2. Keeping(clean.text, chunks')
  <2>1. CASE current = <<>>
    BY <1>0, <1>1, <2>1 DEF Packing
  <2>2. CASE current # <<>>
    <3>. DEFINE more == chunks'
                s == current
                p == pieces
                cs == chunks
    <3>1. /\ s \in Seq(Part) /\ s # <<>> /\ Laid(s, 0, Len(clean.text)) /\ cs \in Seq(Chunk)
          /\ Packing(clean.text, cs, s, p) /\ more = Append(cs, Emit(clean, Pages, s))
      BY <1>0, <1>1, <2>2
    <3>. HIDE DEF more, s, p, cs
    <3>2. Keeping(clean.text, more)
      BY <1>0, <3>1, EmitKeeps
    <3>. QED
      BY <3>2 DEF more
  <2>. QED
    BY <2>1, <2>2
<1>3. Budgeted(clean.text, <<>>, <<>>)
  BY NothingBudgeted
<1>. QED
  BY <1>0, <1>2, <1>3 DEF BudgetInv

LEMMA BudgetUnpacked ==
  ASSUME pieces = <<>>, current = <<>>, chunks = <<>>
  PROVE  BudgetInv
BY NothingBudgeted DEF BudgetInv

LEMMA BudgetUnpackedNext ==
  ASSUME pieces' = <<>>, current' = <<>>, chunks' = <<>>
  PROVE  BudgetInv'
BY NothingBudgeted DEF BudgetInv

LEMMA BudgetKept ==
  ASSUME IntakeInv, CleanInv, PackInv, BudgetInv, [Next]_vars
  PROVE  BudgetInv'
<1>1. CASE UNCHANGED vars
  BY <1>1 DEF vars, intakeVars, runVars, BudgetInv
<1>2. CASE (IntakeNext /\ UNCHANGED runVars) \/ Clean
  <2>1. UNCHANGED <<pieces, current, chunks>> /\ stage \notin Packed \cup {"pack"}
    BY <1>2 DEF IntakeNext, ReadUpload, CheckUpload, Extract, Clean, Doing, runVars, Packed
  <2>2. pieces = <<>> /\ current = <<>> /\ chunks = <<>>
    BY <2>1 DEF PackInv
  <2>. QED
    BY <2>1, <2>2, BudgetUnpackedNext
<1>3. CASE SplitText
  BY <1>3, SplitTextBudget
<1>4. CASE PackPiece
  BY <1>4, PackPieceBudget
<1>5. CASE PackRest
  BY <1>5, PackRestBudget
<1>6. CASE Persist \/ EmbedBatch \/ EmbedEnd
  <2>1. UNCHANGED <<pieces, current, chunks, clean>>
    BY <1>6 DEF Persist, EmbedBatch, EmbedEnd, runVars
  <2>2. stage' # "pack"
    BY <1>6 DEF Persist, EmbedBatch, EmbedEnd, Doing
  <2>. QED
    BY <2>1, <2>2 DEF BudgetInv
<1>. QED
  BY <1>1, <1>2, <1>3, <1>4, <1>5, <1>6 DEF Next

LEMMA BudgetAlways == Spec => [](PackInv /\ BudgetInv)
<1>1. Init => BudgetInv
  BY BudgetUnpacked DEF Init
<1>2. IntakeInv /\ CleanInv /\ PackInv /\ BudgetInv /\ [Next]_vars => BudgetInv'
  BY BudgetKept
<1>. QED
  BY <1>1, <1>2, PackAlways, PTL DEF Spec

\* A chunk repeats no more of the one before it than the overlap allows and keeps
\* to the configured size, the separators between its pieces included (_pack,
\* _overlap_tail, _split_by). Where neither holds, blank lines in a row or a stretch
\* cut by counting characters are the reason.
THEOREM PackingKeepsBudgets == Spec => []BudgetsKept
<1>1. PackInv /\ BudgetInv => BudgetsKept
  <2>. SUFFICES ASSUME PackInv, BudgetInv
                PROVE  /\ \A k \in 1..Len(chunks) - 1 : OverlapKept(chunks[k], chunks[k + 1])
                       /\ \A k \in 1..Len(chunks) : SizeKept(chunks[k])
    BY DEF BudgetsKept
  <2>1. Len(chunks) \in Nat /\ Keeping(clean.text, chunks)
    <3>1. chunks \in Seq(Chunk)
      BY DEF PackInv, ChunksMade
    <3>. QED
      BY <3>1 DEF BudgetInv
  <2>2. ASSUME NEW k \in 1..Len(chunks) - 1 PROVE OverlapKept(chunks[k], chunks[k + 1])
    <3>1. k + 1 \in 2..Len(chunks) /\ (k + 1) - 1 = k
      BY <2>1
    <3>2. Lapped(clean.text, chunks[k + 1].start, chunks[(k + 1) - 1].end)
      BY <2>1, <3>1 DEF Keeping
    <3>. QED
      BY <3>1, <3>2 DEF Lapped, OverlapKept
  <2>3. \A k \in 1..Len(chunks) : SizeKept(chunks[k])
    BY <2>1 DEF Keeping, Sized, SizeKept, ChunkText
  <2>. QED
    BY <2>2, <2>3
<1>. QED
  BY <1>1, BudgetAlways, PTL

-----------------------------------------------------------------------------
(* Embedding.  EmbedInv: the vectors are of chunks that were sent, in their*)
(* order, and a run that goes on to the graph has them all.                *)

\* f lists the numbers of S from the least on.
Lists(f, n, S) ==
  /\ f \in [1..n -> S]
  /\ \A j, k \in 1..n : j < k => f[j] < f[k]
  /\ \A x \in S : \E j \in 1..n : f[j] = x

LEMMA ListExists ==
  ASSUME NEW m \in Nat, NEW S \in SUBSET (1..m)
  PROVE  \E n \in Nat : \E f : Lists(f, n, S)
<1>. DEFINE G == {q \in 0..m : \A T \in SUBSET (1..q) : \E n \in Nat : \E f : Lists(f, n, T)}
<1>1. ASSUME NEW q \in 0..m, \A p \in 0..q - 1 : p \in G PROVE q \in G
  <2>. SUFFICES ASSUME NEW T \in SUBSET (1..q) PROVE \E n \in Nat : \E f : Lists(f, n, T)
    OBVIOUS
  <2>1. CASE q = 0
    <3>1. T = {} /\ 1..0 = {}
      BY <2>1
    <3>2. [i \in 1..0 |-> 0] \in [1..0 -> T]
      BY <3>1
    <3>3. Lists([i \in 1..0 |-> 0], 0, T)
      BY <3>1, <3>2 DEF Lists
    <3>. QED
      BY <3>3
  <2>2. CASE q # 0
    <3>1. q - 1 \in 0..q - 1
      BY <2>2
    <3>2. q - 1 \in G
      BY <1>1, <3>1
    <3>3. T \ {q} \in SUBSET (1..q - 1)
      OBVIOUS
    <3>n. PICK n \in Nat : \E f : Lists(f, n, T \ {q})
      BY <3>2, <3>3
    <3>4. PICK f : Lists(f, n, T \ {q})
      BY <3>n
    <3>5. CASE q \notin T
      <4>1. T \ {q} = T
        BY <3>5
      <4>. QED
        BY <3>4, <4>1
    <3>6. CASE q \in T
      <4>. DEFINE g == [i \in 1..n + 1 |-> IF i = n + 1 THEN q ELSE f[i]]
      <4>1. \A i \in 1..n + 1 : i # n + 1 => i \in 1..n
        OBVIOUS
      <4>2. \A i \in 1..n : f[i] \in T /\ f[i] \in 1..q - 1
        BY <3>3, <3>4 DEF Lists
      <4>3. g \in [1..n + 1 -> T]
        BY <3>6, <4>1, <4>2
      <4>4. ASSUME NEW j \in 1..n + 1, NEW k \in 1..n + 1, j < k PROVE g[j] < g[k]
        <5>1. j \in 1..n /\ j # n + 1
          BY <4>4
        <5>2. CASE k = n + 1
          BY <4>2, <5>1, <5>2
        <5>3. CASE k # n + 1
          BY <3>4, <4>1, <4>4, <5>1, <5>3 DEF Lists
        <5>. QED
          BY <5>2, <5>3
      <4>5. ASSUME NEW x \in T PROVE \E j \in 1..n + 1 : g[j] = x
        <5>1. CASE x = q
          <6>1. n + 1 \in 1..n + 1
            OBVIOUS
          <6>. QED
            BY <5>1, <6>1
        <5>2. CASE x # q
          <6>1. PICK j \in 1..n : f[j] = x
            BY <3>4, <5>2 DEF Lists
          <6>2. j \in 1..n + 1 /\ j # n + 1
            OBVIOUS
          <6>. QED
            BY <6>1, <6>2
        <5>. QED
          BY <5>1, <5>2
      <4>6. n + 1 \in Nat
        OBVIOUS
      <4>. HIDE DEF g
      <4>7. Lists(g, n + 1, T)
        BY <4>3, <4>4, <4>5 DEF Lists
      <4>. QED
        BY <4>6, <4>7
    <3>. QED
      BY <3>5, <3>6
  <2>. QED
    BY <2>1, <2>2
<1>2. \A q \in 0..m : q \in G
  <2>1. \A q \in 0..m : (\A p \in 0..q - 1 : p \in G) => q \in G
    BY <1>1
  <2>2. 0 \in Int /\ m \in Int
    OBVIOUS
  <2>. HIDE DEF G
  <2>. QED
    BY <2>1, <2>2, Ascend
<1>3. m \in G
  BY <1>2
<1>. QED
  BY <1>3

LEMMA ListCounts ==
  ASSUME NEW n \in Nat, NEW S \in SUBSET Int, NEW f, Lists(f, n, S)
  PROVE  Cardinality(S) = n
<1>1. ASSUME NEW j \in 1..n, NEW k \in 1..n, f[j] = f[k] PROVE j = k
  <2>1. j < k => f[j] < f[k]
    BY DEF Lists
  <2>2. k < j => f[k] < f[j]
    BY DEF Lists
  <2>3. f[j] \in Int
    BY DEF Lists
  <2>. QED
    BY <1>1, <2>1, <2>2, <2>3
<1>2. f \in Bijection(1..n, S)
  BY <1>1 DEF Lists, Bijection, Injection, Surjection, IsInjective
<1>. QED
  BY <1>2, FS_CountingElements DEF ExistsBijection

\* The items of an answer come out in the order of their indexes.
LEMMA InOrderIs ==
  ASSUME NEW m \in Nat, NEW answer, ToSet(answer) \in SUBSET (1..m)
  PROVE  \E n \in Nat : /\ InOrder(answer) \in [1..n -> ToSet(answer)]
                        /\ \A j, k \in 1..n : j < k => InOrder(answer)[j] < InOrder(answer)[k]
<1>. DEFINE S == ToSet(answer)
            n == Cardinality(S)
            Sorted(s) == \A i, j \in 1..Len(s) : i < j => s[i] < s[j]
<1>0. PICK p \in Nat : \E f : Lists(f, p, S)
  BY ListExists
<1>1. PICK f : Lists(f, p, S)
  BY <1>0
<1>2. S \in SUBSET Int
  OBVIOUS
<1>. HIDE DEF S
<1>3. n = p /\ n \in Nat
  BY <1>1, <1>2, ListCounts
<1>4. f \in [1..n -> S] /\ \A j, k \in 1..n : j < k => f[j] < f[k]
  BY <1>1, <1>3 DEF Lists
<1>. HIDE DEF n
<1>5. ASSUME NEW j \in 1..n, NEW k \in 1..n, j # k PROVE f[j] # f[k]
  <2>1. j < k \/ k < j
    BY <1>5
  <2>2. f[j] \in Int /\ f[k] \in Int
    BY <1>2, <1>4
  <2>. QED
    BY <1>4, <2>1, <2>2
<1>6. SetToSeqs(S) = {g \in [1..n -> S] : \A j, k \in 1..n : j # k => g[j] # g[k]}
  BY DEF SetToSeqs, n
<1>7. \A g \in [1..n -> S] : Len(g) = n
  BY <1>3
<1>8. f \in SetToSeqs(S) /\ Sorted(f)
  BY <1>4, <1>5, <1>6, <1>7
<1>9. InOrder(answer) = CHOOSE s \in SetToSeqs(S) : Sorted(s)
  BY DEF InOrder, S
<1>10. InOrder(answer) \in SetToSeqs(S) /\ Sorted(InOrder(answer))
  <2>. HIDE DEF Sorted
  <2>. QED
    BY <1>8, <1>9
<1>11. InOrder(answer) \in [1..n -> S] /\ Len(InOrder(answer)) = n
  BY <1>6, <1>7, <1>10
<1>. QED
  BY <1>3, <1>10, <1>11 DEF S

\* What is embedded: chunks of the batches that were sent, in their order.
Ascending(s) == \A j, k \in 1..Len(s) : j < k => s[j] < s[k]

EmbedInv ==
  /\ sent \in Nat /\ vectors \in Seq(Int)
  /\ stage \notin {"embed", "index"} => sent = 0 /\ vectors = <<>>
  /\ \A j \in 1..Len(vectors) : vectors[j] \in 1..Len(chunks) /\ vectors[j] <= sent
  /\ Ascending(vectors)
  /\ stage = "index" => Len(vectors) = Len(chunks)

\* The batch is the chunks sent + 1 up to what is sent after it.
LEMMA BatchIs ==
  ASSUME sent \in Nat, Len(chunks) \in Nat
  PROVE  /\ Batch \in SUBSET (1..Len(chunks)) /\ IsFiniteSet(Batch) /\ Cardinality(Batch) \in Nat
         /\ \A i \in Batch : sent < i /\ i <= sent + Cardinality(Batch)
<1>. DEFINE m == Len(chunks)
            top == IF sent + BatchSize <= m THEN sent + BatchSize ELSE m
<1>1. BatchSize \in Nat /\ BatchSize > 0
  BY PipelineAssumption
<1>2. Batch = sent + 1..top /\ top \in Int
  BY <1>1 DEF Batch
<1>. HIDE DEF top
<1>3. IsFiniteSet(Batch) /\ Cardinality(Batch) = IF sent + 1 > top THEN 0 ELSE top - (sent + 1) + 1
  BY <1>2, FS_Interval
<1>4. Batch \in SUBSET (1..m)
  BY DEF Batch
<1>5. \A i \in Batch : sent < i /\ i <= top
  BY <1>2
<1>6. Cardinality(Batch) \in Nat
  BY <1>2, <1>3
<1>7. ASSUME NEW i \in Batch PROVE i <= sent + Cardinality(Batch)
  <2>1. i \in Int /\ sent + 1 <= i /\ i <= top
    BY <1>2, <1>7
  <2>2. Cardinality(Batch) = top - (sent + 1) + 1
    BY <1>2, <1>3, <2>1
  <2>. QED
    BY <1>2, <2>1, <2>2
<1>. QED
  BY <1>3, <1>4, <1>5, <1>6, <1>7

LEMMA AnsweredIs ==
  ASSUME sent \in Nat, Len(chunks) \in Nat, NEW items \in SUBSET Batch,
         NEW answer \in SetToSeqs(items)
  PROVE  /\ InOrder(answer) \in Seq(Int) /\ Ascending(InOrder(answer))
         /\ \A j \in 1..Len(InOrder(answer)) : InOrder(answer)[j] \in Batch
<1>1. IsFiniteSet(items)
  BY BatchIs, FS_Subset
<1>2. answer \in [1..Cardinality(items) -> items]
  BY DEF SetToSeqs
<1>3. ToSet(answer) \in SUBSET items
  BY <1>2 DEF ToSet
<1>4. ToSet(answer) \in SUBSET (1..Len(chunks)) /\ ToSet(answer) \in SUBSET Batch
  BY <1>3, BatchIs
<1>5. PICK n \in Nat : /\ InOrder(answer) \in [1..n -> ToSet(answer)]
                       /\ \A j, k \in 1..n : j < k => InOrder(answer)[j] < InOrder(answer)[k]
  BY <1>4, InOrderIs
<1>. DEFINE s == InOrder(answer)
<1>6. s \in [1..n -> ToSet(answer)] /\ \A j, k \in 1..n : j < k => s[j] < s[k]
  BY <1>5
<1>. HIDE DEF s
<1>7. s \in [1..n -> Int] /\ \A j \in 1..n : s[j] \in Batch
  BY <1>4, <1>6
<1>8. s \in Seq(Int) /\ Len(s) = n
  BY <1>7
<1>. QED
  BY <1>6, <1>7, <1>8 DEF s, Ascending

LEMMA EmbedBatchStep ==
  ASSUME EmbedInv, chunks \in Seq(Chunk), EmbedBatch
  PROVE  EmbedInv'
<1>0. /\ stage = "embed" /\ UNCHANGED <<stage, chunks>> /\ Len(chunks) \in Nat
      /\ sent \in Nat /\ vectors \in Seq(Int)
      /\ \A j \in 1..Len(vectors) : vectors[j] \in 1..Len(chunks) /\ vectors[j] <= sent
      /\ Ascending(vectors)
  BY DEF EmbedInv, EmbedBatch, Doing
<1>1. CASE UNCHANGED <<sent, vectors>>
  BY <1>0, <1>1 DEF EmbedInv
<1>2. CASE /\ \E items \in SUBSET Batch :
                \E answer \in SetToSeqs(items) : vectors' = vectors \o InOrder(answer)
           /\ sent' = sent + Cardinality(Batch)
  <2>1. PICK items \in SUBSET Batch : \E answer \in SetToSeqs(items) :
             vectors' = vectors \o InOrder(answer)
    BY <1>2
  <2>2. PICK answer \in SetToSeqs(items) : vectors' = vectors \o InOrder(answer)
    BY <2>1
  <2>. DEFINE s == vectors
              t == InOrder(answer)
              u == vectors'
              top == sent + Cardinality(Batch)
  <2>3. /\ t \in Seq(Int) /\ Ascending(t)
        /\ \A j \in 1..Len(t) : t[j] \in Batch
    BY <1>0, AnsweredIs
  <2>4. /\ Batch \in SUBSET (1..Len(chunks)) /\ Cardinality(Batch) \in Nat
        /\ \A i \in Batch : sent < i /\ i <= top
    BY <1>0, BatchIs
  <2>5. top \in Nat /\ sent <= top
    BY <1>0, <2>4
  <2>6. s \in Seq(Int) /\ u = s \o t /\ Ascending(s)
        /\ \A j \in 1..Len(s) : s[j] \in 1..Len(chunks) /\ s[j] <= sent /\ s[j] \in Int
    BY <1>0, <2>2
  <2>. HIDE DEF s, t, u, top
  <2>7. /\ u \in Seq(Int) /\ Len(u) = Len(s) + Len(t)
        /\ \A k \in 1..Len(s) : u[k] = s[k]
        /\ \A k \in 1..Len(u) : k \notin 1..Len(s) => k - Len(s) \in 1..Len(t)
           /\ u[k] = t[k - Len(s)]
    BY <2>3, <2>6, ConcatIs
  <2>8. Len(s) \in Nat /\ Len(t) \in Nat
    BY <2>3, <2>6
  <2>9. ASSUME NEW k \in 1..Len(u) PROVE u[k] \in 1..Len(chunks) /\ u[k] <= top
    <3>1. CASE k \in 1..Len(s)
      <4>1. u[k] = s[k] /\ s[k] \in 1..Len(chunks) /\ s[k] <= sent /\ s[k] \in Int
        BY <2>6, <2>7, <3>1
      <4>. QED
        BY <1>0, <2>5, <4>1
    <3>2. CASE k \notin 1..Len(s)
      <4>1. u[k] \in Batch
        BY <2>3, <2>7, <3>2
      <4>. QED
        BY <2>4, <4>1
    <3>. QED
      BY <3>1, <3>2
  <2>10. ASSUME NEW j \in 1..Len(u), NEW k \in 1..Len(u), j < k PROVE u[j] < u[k]
    <3>1. CASE k \in 1..Len(s)
      <4>1. j \in 1..Len(s)
        BY <2>10, <3>1
      <4>. QED
        BY <2>6, <2>7, <2>10, <3>1, <4>1 DEF Ascending
    <3>2. CASE k \notin 1..Len(s) /\ j \in 1..Len(s)
      <4>1. u[j] = s[j] /\ s[j] <= sent /\ s[j] \in Int
        BY <2>6, <2>7, <3>2
      <4>2. u[k] \in Batch
        BY <2>3, <2>7, <3>2
      <4>3. sent < u[k] /\ u[k] \in 1..Len(chunks)
        BY <2>4, <4>2
      <4>4. u[k] \in Int
        BY <4>3
      <4>. QED
        BY <1>0, <4>1, <4>3, <4>4
    <3>3. CASE k \notin 1..Len(s) /\ j \notin 1..Len(s)
      <4>1. /\ j - Len(s) \in 1..Len(t) /\ u[j] = t[j - Len(s)]
            /\ k - Len(s) \in 1..Len(t) /\ u[k] = t[k - Len(s)]
        BY <2>7, <3>3
      <4>2. j - Len(s) < k - Len(s)
        BY <2>8, <2>10
      <4>. QED
        BY <2>3, <4>1, <4>2 DEF Ascending
    <3>. QED
      BY <3>1, <3>2, <3>3
  <2>11. sent' = top /\ Len(chunks') = Len(chunks) /\ stage' = "embed"
    BY <1>0, <1>2 DEF top
  <2>12. Ascending(u)
    BY <2>10 DEF Ascending
  <2>. QED
    BY <2>5, <2>7, <2>9, <2>11, <2>12 DEF EmbedInv, u
<1>. QED
  BY <1>1, <1>2 DEF EmbedBatch

LEMMA EmbedKept ==
  ASSUME PackInv, EmbedInv, [Next]_vars
  PROVE  EmbedInv'
<1>0. chunks \in Seq(Chunk)
  BY DEF PackInv, ChunksMade
<1>1. CASE UNCHANGED vars
  BY <1>1 DEF vars, intakeVars, runVars, EmbedInv
<1>2. ASSUME UNCHANGED <<sent, vectors>>, stage \notin {"embed", "index"}, stage' # "index"
      PROVE  EmbedInv'
  <2>1. sent = 0 /\ vectors = <<>> /\ sent' = 0 /\ vectors' = <<>>
    BY <1>2 DEF EmbedInv
  <2>2. <<>> \in Seq(Int) /\ 1..Len(<<>>) = {}
    OBVIOUS
  <2>. QED
    BY <1>2, <2>1, <2>2 DEF EmbedInv, Ascending
<1>3. CASE IntakeNext /\ UNCHANGED runVars
  BY <1>2, <1>3 DEF IntakeNext, ReadUpload, CheckUpload, Extract, Doing, runVars
<1>4. CASE Clean \/ SplitText
  BY <1>2, <1>4 DEF Clean, SplitText, Doing
<1>5. CASE PackPiece
  BY <1>2, <1>5 DEF PackPiece, Doing, intakeVars
<1>6. CASE PackRest
  BY <1>2, <1>6 DEF PackRest, Doing
<1>7. CASE Persist
  BY <1>2, <1>7 DEF Persist, Doing, runVars
<1>8. CASE EmbedBatch
  BY <1>0, <1>8, EmbedBatchStep
<1>9. CASE EmbedEnd
  BY <1>9 DEF EmbedEnd, Doing, runVars, EmbedInv
<1>. QED
  BY <1>1, <1>3, <1>4, <1>5, <1>6, <1>7, <1>8, <1>9 DEF Next

LEMMA EmbedAlways == Spec => [](IntakeInv /\ CleanInv /\ PackInv /\ EmbedInv)
<1>1. Init => EmbedInv
  <2>1. <<>> \in Seq(Int) /\ 1..Len(<<>>) = {}
    OBVIOUS
  <2>. QED
    BY <2>1 DEF Init, IntakeInit, EmbedInv, Ascending
<1>2. PackInv /\ EmbedInv /\ [Next]_vars => EmbedInv'
  BY EmbedKept
<1>. QED
  BY <1>1, <1>2, PackAlways, PTL DEF Spec

\* As many numbers in 1..n as n, each greater than the one before: all of them.
LEMMA AllListed ==
  ASSUME NEW s \in Seq(Int), Ascending(s), \A j \in 1..Len(s) : s[j] \in 1..Len(s)
  PROVE  \A j \in 1..Len(s) : s[j] = j
<1>. DEFINE n == Len(s)
            G == {j \in 1..n : s[j] >= j}
            H == {j \in 1..n : s[j] <= j}
<1>0. n \in Nat /\ 1 \in Int /\ n \in Int
  OBVIOUS
<1>1. ASSUME NEW j \in 1..n, NEW k \in 1..n, j < k
      PROVE s[j] + 1 <= s[k] /\ s[j] \in Int /\ s[k] \in Int
  <2>1. s[j] < s[k] /\ s[j] \in 1..n /\ s[k] \in 1..n
    BY <1>1 DEF Ascending
  <2>. QED
    BY <2>1
<1>2. ASSUME NEW j \in 1..n, \A q \in 1..j - 1 : q \in G PROVE j \in G
  <2>1. CASE j = 1
    BY <2>1
  <2>2. CASE j # 1
    <3>1. j - 1 \in 1..j - 1 /\ j - 1 < j /\ j - 1 \in 1..n
      BY <2>2
    <3>2. s[j - 1] >= j - 1 /\ s[j - 1] + 1 <= s[j] /\ s[j - 1] \in Int /\ s[j] \in Int
      BY <1>1, <1>2, <3>1
    <3>. QED
      BY <3>2
  <2>. QED
    BY <2>1, <2>2
<1>3. ASSUME NEW j \in 1..n, \A q \in j + 1..n : q \in H PROVE j \in H
  <2>1. CASE j = n
    BY <2>1
  <2>2. CASE j # n
    <3>1. j + 1 \in j + 1..n /\ j < j + 1 /\ j + 1 \in 1..n
      BY <2>2
    <3>2. s[j + 1] <= j + 1 /\ s[j] + 1 <= s[j + 1] /\ s[j + 1] \in Int /\ s[j] \in Int
      BY <1>1, <1>3, <3>1
    <3>. QED
      BY <3>2
  <2>. QED
    BY <2>1, <2>2
<1>4. \A j \in 1..n : j \in G
  <2>1. \A j \in 1..n : (\A q \in 1..j - 1 : q \in G) => j \in G
    BY <1>2
  <2>. HIDE DEF G, n
  <2>. QED
    BY <1>0, <2>1, Ascend
<1>5. \A j \in 1..n : j \in H
  <2>1. \A j \in 1..n : (\A q \in j + 1..n : q \in H) => j \in H
    BY <1>3
  <2>. HIDE DEF H, n
  <2>. QED
    BY <1>0, <2>1, Descend
<1>. QED
  BY <1>4, <1>5

\* A run that goes on to the graph has the vector of every chunk and in the
\* chunks' order: _parse sorts each answer by index, and an answer that is short
\* makes the count differ.
THEOREM VectorsFitChunks == Spec => []VectorsBelong
<1>1. PackInv /\ EmbedInv => VectorsBelong
  <2>. SUFFICES ASSUME PackInv, EmbedInv, stage = "index"
                PROVE  vectors = [i \in 1..Len(chunks) |-> i]
    BY DEF VectorsBelong
  <2>1. /\ vectors \in Seq(Int) /\ Len(vectors) = Len(chunks) /\ Ascending(vectors)
        /\ \A j \in 1..Len(vectors) : vectors[j] \in 1..Len(vectors)
    BY DEF EmbedInv
  <2>2. \A j \in 1..Len(vectors) : vectors[j] = j
    BY <2>1, AllListed
  <2>3. vectors = [j \in 1..Len(vectors) |-> vectors[j]]
    BY <2>1
  <2>. QED
    BY <2>1, <2>2, <2>3
<1>. QED
  BY <1>1, EmbedAlways, PTL

\* The types of the state of the pipeline: each piece and chunk is a span of the
\* cleaned text, each source span one of the source, each page one of the file.
THEOREM TypeCorrect == Spec => []TypeOK
<1>1. IntakeInv /\ CleanInv /\ PackInv /\ EmbedInv => TypeOK
  <2>. SUFFICES ASSUME IntakeInv, CleanInv, PackInv, EmbedInv PROVE TypeOK
    OBVIOUS
  <2>. DEFINE m == Len(clean.text)
  <2>1. stage \in Stages /\ failed \in BOOLEAN /\ type \in {"none", "pdf", "text", "markdown"}
    BY FileIs DEF IntakeInv
  <2>2. Source \in Seq(Char) /\ extracted.parts \in Seq(Seq(Char))
    BY SourceIs
  <2>3. clean.text \in Seq(Char) /\ m \in Nat
    <3>1. CASE stage \in Cleaned
      BY <3>1, OffsetsAre
    <3>2. CASE stage \notin Cleaned
      <4>1. clean.text = <<>>
        BY <3>2 DEF CleanInv
      <4>2. <<>> \in Seq(Char) /\ Len(<<>>) \in Nat
        OBVIOUS
      <4>. QED
        BY <4>1, <4>2
    <3>. QED
      BY <3>1, <3>2
  <2>4. ToSet(Source) \subseteq Char /\ ToSet(clean.text) \subseteq Char
    BY <2>2, <2>3 DEF ToSet
  <2>5. ASSUME NEW r \in Seq(Part), Laid(r, 0, m), NEW p \in ToSet(r)
        PROVE  Spanned(p, m) /\ p.end <= p.next
    <3>1. PICK j \in 1..Len(r) : r[j] = p
      BY <2>5, ToSetIs
    <3>2. /\ 0 <= p.start /\ p.start < p.end /\ p.end <= p.next /\ p.next <= m
          /\ p.start \in Int /\ p.end \in Int /\ p.next \in Int
      BY <2>5, <3>1, PartIs DEF Laid
    <3>. QED
      BY <2>3, <3>2 DEF Spanned
  <2>6. \A p \in ToSet(pieces) \cup ToSet(current) : Spanned(p, m) /\ p.end <= p.next
    <3>1. /\ pieces \in Seq(Part) /\ Laid(pieces, 0, m)
          /\ current \in Seq(Part) /\ Laid(current, 0, m)
      BY DEF PackInv
    <3>. HIDE DEF m
    <3>. QED
      BY <2>5, <3>1
  <2>7. ASSUME NEW c \in ToSet(chunks)
        PROVE  /\ Spanned(c, m) /\ c.sourceStart < c.sourceEnd
               /\ c.sourceEnd <= Len(Source) /\ c.pages \subseteq 1..Len(Pages)
    <3>1. stage \in Cleaned
      <4>1. CASE stage \notin Packed \cup {"pack"}
        <5>1. chunks = <<>> /\ ToSet(<<>>) = {}
          BY <4>1 DEF PackInv, ToSet
        <5>. QED
          BY <2>7, <5>1
      <4>2. CASE stage \in Packed \cup {"pack"}
        BY <4>2 DEF Packed, Cleaned
      <4>. QED
        BY <4>1, <4>2
    <3>2. /\ Made(clean, Pages, c)
          /\ c.start \in Int /\ c.end \in Int /\ 0 <= c.start /\ c.start < c.end /\ c.end <= m
          /\ c.sourceStart = SourceOf(c.start) /\ c.sourceEnd = SourceOf(c.end)
      BY <3>1, ChunksAre
    <3>3. c.pages \subseteq 1..Len(Pages)
      <4>1. c.pages = PagesCovered(Pages, clean.runs, c.start, c.end) /\ Len(Pages) \in Nat
        BY <3>2, PagesAre DEF Made
      <4>. QED
        BY <4>1, PagesCoveredIs
    <3>4. c.start \in 0..m /\ c.end \in c.start + 1..m /\ c.end \in 0..m /\ m > 0
      BY <2>3, <3>2
    <3>. DEFINE a == c.start
                b == c.end
    <3>5. a \in 0..m /\ b \in a + 1..m /\ b \in 0..m
      BY <3>4
    <3>. HIDE DEF m, a, b
    <3>6. SourceOf(a) < SourceOf(b) /\ SourceOf(b) \in 0..Len(Source)
      BY <3>1, <3>4, <3>5, SourceMonotone DEF m
    <3>7. SourceOf(b) <= Len(Source)
      BY <3>6
    <3>. QED
      BY <3>2, <3>3, <3>6, <3>7 DEF Spanned, a, b, m
  <2>8. ToSet(vectors) \subseteq 1..Len(chunks)
    BY DEF EmbedInv, ToSet
  <2>. QED
    BY <2>1, <2>4, <2>6, <2>7, <2>8 DEF TypeOK
<1>. QED
  BY <1>1, EmbedAlways, PTL

\* A run that failed where its chunks are stored has one that the table refuses.
FailInv ==
  failed /\ stage = "persist" => \E c \in ToSet(chunks) : ~Storable(ChunkText(c))

LEMMA FailKept ==
  ASSUME FailInv, [Next]_vars
  PROVE  FailInv'
<1>1. CASE UNCHANGED vars
  BY <1>1 DEF vars, intakeVars, runVars, FailInv, ChunkText
<1>2. CASE IntakeNext /\ UNCHANGED runVars
  BY <1>2 DEF IntakeNext, ReadUpload, CheckUpload, Extract, Doing, FailInv
<1>3. CASE Clean \/ SplitText \/ EmbedBatch \/ EmbedEnd
  BY <1>3 DEF Clean, SplitText, EmbedBatch, EmbedEnd, Doing, FailInv
<1>4. CASE PackPiece \/ PackRest
  BY <1>4 DEF PackPiece, PackRest, intakeVars, Doing, FailInv
<1>5. CASE Persist
  <2>1. UNCHANGED <<chunks, clean>>
    BY <1>5 DEF Persist, runVars
  <2>2. failed' /\ stage' = "persist" => \E c \in ToSet(chunks) : ~Storable(ChunkText(c))
    BY <1>5 DEF Persist, Doing
  <2>. QED
    BY <2>1, <2>2 DEF FailInv, ChunkText
<1>. QED
  BY <1>1, <1>2, <1>3, <1>4, <1>5 DEF Next

\* A NUL of a chunk is one of the source.
LEMMA NulOfSource ==
  ASSUME IntakeInv, CleanInv, PackInv, stage \in Cleaned,
         NEW c \in ToSet(chunks), "nul" \in ToSet(ChunkText(c))
  PROVE  "nul" \in ToSet(Source)
<1>. DEFINE edited == Edited(Source)
<1>1. /\ edited \in Seq(Edit) /\ Len(edited) \in Nat /\ Ordered(Source, edited, 0)
      /\ clean.text \in Seq(Char) /\ Len(clean.text) = Len(edited)
      /\ \A i \in 0..Len(edited) - 1 : /\ i + 1 \in 1..Len(edited)
                                       /\ At(clean.text, i) = edited[i + 1].char
  BY OffsetsAre
<1>2. c.start \in Int /\ c.end \in Int /\ 0 <= c.start /\ c.start < c.end
      /\ c.end <= Len(clean.text)
  BY ChunksAre
<1>3. c.start \in 0..Len(clean.text) /\ c.end \in c.start..Len(clean.text)
  BY <1>1, <1>2
<1>. DEFINE s == Slice(clean.text, c.start, c.end)
<1>4. /\ s \in Seq(Char) /\ Len(s) = c.end - c.start
      /\ \A i \in 1..Len(s) : s[i] = clean.text[c.start + i]
  BY <1>1, <1>3, SliceIs
<1>. HIDE DEF edited, s
<1>5. PICK i \in 1..Len(s) : s[i] = "nul"
  <2>1. "nul" \in ToSet(s)
    BY DEF ChunkText, s
  <2>. QED
    BY <1>4, <2>1, ToSetIs
<1>6. /\ c.start + i \in 1..Len(edited) /\ clean.text[c.start + i] = "nul"
      /\ (c.start + i) - 1 \in 0..Len(edited) - 1 /\ ((c.start + i) - 1) + 1 = c.start + i
  <2>1. clean.text[c.start + i] = "nul"
    BY <1>4, <1>5
  <2>. DEFINE a == c.start
              b == c.end
              n == Len(edited)
  <2>2. a \in Int /\ b \in Int /\ n \in Nat /\ 0 <= a /\ b <= n
    BY <1>1, <1>2
  <2>3. i \in 1..b - a
    BY <1>4, <1>5
  <2>. HIDE DEF a, b, n
  <2>4. a + i \in 1..n /\ (a + i) - 1 \in 0..n - 1 /\ ((a + i) - 1) + 1 = a + i
    BY <2>2, <2>3
  <2>. QED
    BY <2>1, <2>4 DEF a, b, n
<1>7. edited[c.start + i].char = "nul"
  <2>1. At(clean.text, (c.start + i) - 1) = "nul"
    BY <1>1, <1>6 DEF At
  <2>. QED
    BY <1>1, <1>6, <2>1
<1>8. Source \in Seq(Char)
  BY SourceIs
<1>9. /\ edited[c.start + i].source \in 0..Len(Source) - 1
      /\ Corresponds(At(Source, edited[c.start + i].source), edited[c.start + i].char)
  BY <1>1, <1>6 DEF Ordered
<1>10. At(Source, edited[c.start + i].source) = "nul"
  BY <1>7, <1>9 DEF Corresponds
<1>. DEFINE k == edited[c.start + i].source + 1
<1>11. k \in 1..Len(Source) /\ Source[k] = "nul"
  BY <1>8, <1>9, <1>10 DEF At
<1>. QED
  BY <1>8, <1>11, ToSetIs

\* A blank chunk begins in a stretch too long for a chunk: a long word's indent.
LEMMA BlankChunk ==
  ASSUME IntakeInv, CleanInv, PackInv, BudgetInv, stage \in Cleaned,
         NEW c \in ToSet(chunks), IsBlank(ChunkText(c))
  PROVE  IndentedLongWord
<1>. DEFINE text == clean.text
            p == c.start
<1>1. text \in Seq(Char) /\ Len(text) \in Nat
  BY OffsetsAre
<1>2. p \in Int /\ c.end \in Int /\ 0 <= p /\ p < c.end /\ c.end <= Len(text)
  BY ChunksAre
<1>3. IsBlank(Slice(text, p, c.end))
  BY DEF ChunkText
<1>4. TooLongAt(text, p)
  <2>1. PICK k \in 1..Len(chunks) : chunks[k] = c
    BY ToSetIs DEF PackInv, ChunksMade
  <2>2. Sized(text, c)
    BY <2>1 DEF BudgetInv, Keeping
  <2>. QED
    BY <1>3, <2>2 DEF Sized
<1>5. At(text, p) \in Space
  <2>1. p \in 0..Len(text) /\ c.end \in p..Len(text) /\ p \in p..c.end - 1
    BY <1>1, <1>2
  <2>2. AllSpace(text, p, c.end)
    BY <1>1, <1>3, <2>1, BlankIs
  <2>. QED
    BY <2>1, <2>2 DEF AllSpace
<1>. HIDE DEF text, p
<1>6. PICK a \in 0..Len(text), b \in 0..Len(text) :
        a <= p /\ p < b /\ Solid(text, a, b) /\ Count(Slice(text, a, b)) > ChunkSize
  BY <1>4 DEF TooLongAt
<1>7. At(text, a) \in Space \/ At(text, b - 1) \in Space
  <2>1. CASE a = p \/ b - 1 = p
    BY <1>5, <2>1
  <2>2. CASE a < p /\ p < b - 1
    <3>1. a \in a..b - 1 /\ p \in a..b - 1 /\ b - 1 \in a..b - 1
      BY <1>2, <1>6, <2>2 DEF p
    <3>. QED
      BY <1>5, <1>6, <2>2, <3>1 DEF Solid
  <2>3. (a = p \/ b - 1 = p) \/ (a < p /\ p < b - 1)
    BY <1>1, <1>2, <1>6 DEF p
  <2>. QED
    BY <2>1, <2>2, <2>3
<1>. DEFINE w == Slice(text, a, b)
<1>8. /\ b \in a..Len(text) /\ b - a > 0 /\ b - a \in Nat /\ a \in Int /\ b \in Int
      /\ b - 1 \in 0..Len(text) - 1 /\ a \in 0..Len(text) - 1
  BY <1>1, <1>2, <1>6 DEF p
<1>9. /\ Len(w) = b - a /\ \A i \in 1..b - a : w[i] = text[a + i]
  BY <1>1, <1>6, <1>8, SliceIs
<1>. HIDE DEF w
<1>10. At(w, 0) = At(text, a) /\ At(w, Len(w) - 1) = At(text, b - 1)
  <2>1. /\ 0 \in 0..Len(w) - 1 /\ 0 + 1 \in 1..b - a /\ a + (0 + 1) = a + 1
        /\ Len(w) - 1 \in 0..Len(w) - 1 /\ (Len(w) - 1) + 1 \in 1..b - a
        /\ a + ((Len(w) - 1) + 1) = (b - 1) + 1
    BY <1>8, <1>9
  <2>. QED
    BY <1>8, <1>9, <2>1 DEF At
<1>11. Unbroken(w)
  BY <1>1, <1>6, <1>8, SolidUnbroken DEF w
<1>12. {At(w, 0), At(w, Len(w) - 1)} \cap Space # {}
  BY <1>7, <1>10
<1>13. Count(w) > ChunkSize
  BY <1>6 DEF w
<1>. QED
  BY <1>6, <1>11, <1>12, <1>13 DEF IndentedLongWord, w, text

\* Spaces alone are blank.
LEMMA SpacesBlank ==
  ASSUME NEW text \in Seq(Char), OnlySpaces(text)
  PROVE  IsBlank(text)
<1>1. \A i \in 1..Len(text) : text[i] \in ToSet(text)
  BY ToSetIs
<1>. QED
  BY <1>1 DEF OnlySpaces, IsBlank, Space, Blank

\* An accepted file fails for what a look at its first bytes cannot see and for
\* nothing else: detect_document_type has excluded the rest. The chunk table turns
\* away the text with a NUL and the one cut from the indent of a long word.
THEOREM FailuresExplained == Spec => []FailureExplained
<1>1. IntakeInv /\ CleanInv /\ PackInv /\ BudgetInv /\ FailInv => FailureExplained
  <2>. SUFFICES ASSUME IntakeInv, CleanInv, PackInv, BudgetInv, FailInv, failed,
                       stage \in {"extract", "persist"}
                PROVE  FailureExplained
    BY DEF FailureExplained
  <2>. DEFINE bytes == file.bytes
              bad == Decode(bytes).bad
              sample == Prefix(bytes, Sniff)
  <2>1. /\ file \in Files /\ bytes \in Seq(Byte) /\ Sniff \in Nat /\ Margin \in Nat
        /\ type # "none" /\ type = DetectDocumentType(file)
        /\ type \in {"pdf", "text", "markdown"}
    <3>1. file \in Files /\ type # "none" /\ type = DetectDocumentType(file)
      BY DEF IntakeInv
    <3>. QED
      BY <3>1, FileIs, IntakeAssumption
  <2>2. /\ sample \in Seq(Byte) /\ Len(sample) = Min({Sniff, Len(bytes)})
        /\ Len(sample) = IF Sniff <= Len(bytes) THEN Sniff ELSE Len(bytes)
        /\ \A i \in 1..Len(sample) : sample[i] = bytes[i]
    BY <2>1, PrefixIs
  <2>3. bad \in 0..Len(bytes) /\ Decode(sample).bad \in 0..Len(sample) /\ Decode(sample).bad <= bad
    BY <2>1, <2>2, DecodeIs, PrefixDecodes
  <2>. HIDE DEF bad, sample
  <2>4. ASSUME type # "pdf"
        PROVE  "nul" \notin ToSet(sample) /\ bad >= Min({Sniff, Len(bytes)}) - Margin
    <3>1. LooksLikeText(bytes)
      BY <2>1, <2>4, DetectedText
    <3>2. "nul" \notin ToSet(sample)
          /\ (Decode(sample).bad = Len(sample) \/ Decode(sample).bad >= Len(sample) - Margin)
      BY <3>1 DEF LooksLikeText, Decodes, sample
    <3>3. Len(sample) \in Nat /\ Decode(sample).bad \in Int /\ bad \in Int
      BY <2>2, <2>3
    <3>4. bad >= Len(sample) - Margin
      BY <2>1, <2>3, <3>2, <3>3
    <3>. QED
      BY <2>2, <3>2, <3>4
  <2>5. CASE stage = "extract"
    <3>1. (type # "pdf" /\ ~Decodes(bytes)) \/ IsBlank(Parsed.text)
      BY <2>5 DEF IntakeInv
    <3>2. type # "pdf" /\ ~Decodes(bytes) => bad < Len(bytes)
      <4>1. ~Decodes(bytes) => bad # Len(bytes)
        BY DEF Decodes, bad
      <4>. QED
        BY <2>3, <4>1
    <3>3. type = "pdf" => Parsed.text = Joined(file.pages)
      BY DEF Parsed
    <3>. QED
      BY <2>4, <3>1, <3>2, <3>3 DEF FailureExplained, bad
  <2>6. CASE stage = "persist"
    <3>0. PICK c \in ToSet(chunks) : ~Storable(ChunkText(c))
      BY <2>6 DEF FailInv
    <3>. SUFFICES ASSUME "nul" \in ToSet(ChunkText(c)) PROVE FailureExplained
      <4>1. ASSUME OnlySpaces(ChunkText(c)) PROVE FailureExplained
        <5>1. stage \in Cleaned
          BY <2>6 DEF Cleaned
        <5>2. ChunkText(c) \in Seq(Char)
          <6>. DEFINE a == c.start
                      b == c.end
          <6>1. /\ clean.text \in Seq(Char) /\ a \in Int /\ b \in Int /\ 0 <= a /\ a < b
                /\ b <= Len(clean.text)
            BY <5>1, ChunksAre, OffsetsAre
          <6>. HIDE DEF a, b
          <6>2. a \in 0..Len(clean.text) /\ b \in a..Len(clean.text)
            BY <6>1
          <6>3. Slice(clean.text, a, b) \in Seq(Char)
            BY <6>1, <6>2, SliceIs
          <6>. QED
            BY <6>3 DEF ChunkText, a, b
        <5>3. IsBlank(ChunkText(c))
          BY <4>1, <5>2, SpacesBlank
        <5>4. IndentedLongWord
          BY <5>1, <5>3, BlankChunk
        <5>. QED
          BY <2>6, <5>4 DEF FailureExplained
      <4>. QED
        BY <3>0, <4>1 DEF Storable
    <3>2. "nul" \in ToSet(Source)
      BY <2>6, NulOfSource DEF Cleaned
    <3>3. Source = Parsed.text
      BY <2>6 DEF IntakeInv, Early, Source
    <3>4. IF type = "pdf" THEN \E i \in 1..Len(file.pages) : "nul" \in ToSet(file.pages[i])
          ELSE \E i \in 1..Len(bytes) : bytes[i] = "nul"
      BY <2>1, <3>2, <3>3, ParsedIs
    <3>5. CASE type = "pdf"
      BY <2>6, <3>4, <3>5 DEF FailureExplained
    <3>6. CASE type # "pdf"
      <4>1. PICK i \in 1..Len(bytes) : bytes[i] = "nul"
        BY <3>4, <3>6
      <4>2. i \notin 1..Len(sample)
        <5>. SUFFICES ASSUME i \in 1..Len(sample) PROVE FALSE
          OBVIOUS
        <5>1. sample[i] = "nul"
          BY <2>2, <4>1
        <5>. QED
          BY <2>2, <2>4, <3>6, <5>1, ToSetIs
      <4>3. i \in Sniff + 1..Len(bytes)
        <5>1. Len(bytes) \in Nat
          BY <2>1
        <5>. QED
          BY <2>1, <2>2, <4>2, <5>1
      <4>. QED
        BY <2>6, <4>1, <4>3 DEF FailureExplained
    <3>. QED
      BY <3>5, <3>6
  <2>. QED
    BY <2>5, <2>6
<1>2. Init => FailInv
  BY DEF Init, IntakeInit, FailInv
<1>3. FailInv /\ [Next]_vars => FailInv'
  BY FailKept
<1>. QED
  BY <1>1, <1>2, <1>3, PackAlways, BudgetAlways, PTL DEF Spec

\* Of two offsets that lie on pages, the later lies on no earlier page.
LEMMA PageMonotone ==
  ASSUME NEW pages, Len(pages) \in Nat, \A k \in 1..Len(pages) : pages[k].start \in Int,
         NEW o \in Int, NEW q \in Int, o <= q,
         PageAt(pages, o) # 0, PageAt(pages, q) # 0
  PROVE  PageAt(pages, o) <= PageAt(pages, q)
<1>. DEFINE n == Len(pages)
            S == {i \in 1..n : pages[i].start <= o}
            T == {i \in 1..n : pages[i].start <= q}
<1>1. S # {} /\ PageAt(pages, o) = Max(S) /\ T # {} /\ PageAt(pages, q) = Max(T)
  BY DEF PageAt
<1>2. S \subseteq T
  OBVIOUS
<1>3. S \in SUBSET Int /\ T \in SUBSET Int /\ n \in Int /\ (\A i \in S : i <= n)
      /\ (\A i \in T : i <= n)
  OBVIOUS
<1>. HIDE DEF S, T, n
<1>4. Max(S) \in S /\ Max(T) \in T /\ \A i \in T : i <= Max(T)
  BY <1>1, <1>3, MaxIs
<1>. QED
  BY <1>1, <1>2, <1>4

LEMMA PageStarts ==
  ASSUME IntakeInv
  PROVE  \A k \in 1..Len(Pages) : Pages[k].start \in Int
<1>. DEFINE parts == extracted.parts
<1>1. parts \in Seq(Seq(Char))
  BY SourceIs
<1>2. Len(Pages) = Len(parts)
  BY <1>1 DEF Pages, PageSpans
<1>. SUFFICES ASSUME NEW k \in 1..Len(parts) PROVE Pages[k].start \in Int
  BY <1>2
<1>3. Pages[k].start = Len(Joined(SubSeq(parts, 1, k))) - Len(parts[k])
  BY DEF Pages, PageSpans
<1>. HIDE DEF parts
<1>4. SubSeq(parts, 1, k) \in Seq(Seq(Char)) /\ parts[k] \in Seq(Char)
  <2>1. k \in Nat /\ k <= Len(parts) /\ Len(parts) \in Nat
    BY <1>1
  <2>. QED
    BY <1>1, <2>1
<1>5. Joined(SubSeq(parts, 1, k)) \in Seq(Char)
  BY <1>4, JoinedIs
<1>6. Len(Joined(SubSeq(parts, 1, k))) \in Int /\ Len(parts[k]) \in Int
  BY <1>4, <1>5
<1>. QED
  BY <1>3, <1>6

\* The pages a chunk is attributed to begin and end with pages it touches; one
\* that starts and ends on a page is attributed to all it touches.
THEOREM PagesFit == Spec => []PagesAttributed
<1>1. IntakeInv /\ CleanInv /\ PackInv => PagesAttributed
  <2>. SUFFICES ASSUME IntakeInv, CleanInv, PackInv, stage = "embed", NEW c \in ToSet(chunks)
                PROVE  /\ 0 \notin {PageAt(Pages, SourceOf(c.start)), PageAt(Pages, SourceOf(c.end - 1))} =>
                            PagesTouched(c) \subseteq c.pages
                       /\ c.pages # {} => {Min(c.pages), Max(c.pages)} \subseteq PagesTouched(c)
    BY DEF PagesAttributed, Chunked
  <2>. DEFINE m == Len(clean.text)
              a == c.start
              z == c.end - 1
              On(i) == PageAt(Pages, SourceOf(i))
  <2>0. stage \in Cleaned
    BY DEF Cleaned
  <2>1. /\ Made(clean, Pages, c)
        /\ c.start \in Int /\ c.end \in Int /\ 0 <= c.start /\ c.start < c.end
        /\ c.end <= Len(clean.text)
    BY <2>0, ChunksAre
  <2>2. /\ m \in Nat /\ Len(Source) \in Nat
        /\ \A i \in 0..m : m > 0 => SourceOf(i) \in 0..Len(Source)
        /\ \A i \in 0..m : \A j \in i + 1..m : SourceOf(i) < SourceOf(j)
    BY <2>0, SourceMonotone
  <2>3. a \in 0..m /\ z \in 0..m /\ m > 0 /\ a <= z /\ a \in a..z /\ z \in a..z
        /\ \A i \in a..z : i \in 0..m
    <3>. DEFINE e == c.end
    <3>1. a \in Int /\ e \in Int /\ z = e - 1 /\ 0 <= a /\ a < e /\ e <= m /\ m \in Nat
      BY <2>1, <2>2
    <3>. HIDE DEF a, z, m, e
    <3>. QED
      BY <3>1
  <2>4. Max({c.end - 1, c.start}) = z
    BY <2>1, MaxOfTwo
  <2>5. c.pages = CASE On(a) = 0 /\ On(z) = 0 -> {}
                    [] On(a) = 0 /\ On(z) # 0 -> {On(z)}
                    [] On(a) # 0 /\ On(z) <= On(a) -> {On(a)}
                    [] OTHER -> On(a)..On(z)
    BY <2>1, <2>4 DEF Made, PagesCovered, SourceOf
  <2>6. PagesTouched(c) = {On(i) : i \in a..z} \ {0}
    BY DEF PagesTouched
  <2>. HIDE DEF m, a, z
  <2>7. \A i \in 0..m : SourceOf(i) \in Int /\ On(i) \in Int
    <3>. SUFFICES ASSUME NEW i \in 0..m PROVE SourceOf(i) \in Int /\ On(i) \in Int
      OBVIOUS
    <3>1. SourceOf(i) \in Int
      BY <2>2, <2>3
    <3>2. On(i) \in 0..Len(Pages) /\ Len(Pages) \in Nat
      BY PagesAre, PageAtIs
    <3>. QED
      BY <3>1, <3>2
  <2>8. ASSUME NEW i \in 0..m, NEW j \in 0..m, i <= j, On(i) # 0, On(j) # 0 PROVE On(i) <= On(j)
    <3>1. SourceOf(i) <= SourceOf(j)
      <4>1. i = j \/ j \in i + 1..m
        BY <2>2, <2>8
      <4>. QED
        BY <2>2, <2>7, <4>1
    <3>. HIDE DEF m
    <3>2. SourceOf(i) \in Int /\ SourceOf(j) \in Int
      BY <2>7
    <3>. DEFINE o == SourceOf(i)
                q == SourceOf(j)
                pages == Pages
    <3>3. /\ o \in Int /\ q \in Int /\ o <= q /\ PageAt(pages, o) # 0 /\ PageAt(pages, q) # 0
          /\ Len(pages) \in Nat /\ \A k \in 1..Len(pages) : pages[k].start \in Int
      BY <2>8, <3>1, <3>2, PagesAre, PageStarts
    <3>. HIDE DEF o, q, pages
    <3>4. PageAt(pages, o) <= PageAt(pages, q)
      BY <3>3, PageMonotone
    <3>. QED
      BY <3>4 DEF o, q, pages
  <2>. HIDE DEF On
  <2>9. ASSUME On(a) # 0, On(z) # 0, NEW p \in PagesTouched(c) PROVE p \in c.pages
    <3>1. PICK i \in a..z : p = On(i) /\ On(i) # 0
      BY <2>6, <2>9
    <3>2. i \in 0..m /\ a <= i /\ i <= z
      BY <2>3, <3>1
    <3>3. On(a) <= On(i) /\ On(i) <= On(z) /\ On(a) \in Int /\ On(i) \in Int /\ On(z) \in Int
      BY <2>3, <2>7, <2>8, <2>9, <3>1, <3>2
    <3>. QED
      BY <2>5, <2>9, <3>1, <3>3
  <2>10. ASSUME c.pages # {}
         PROVE Min(c.pages) \in PagesTouched(c) /\ Max(c.pages) \in PagesTouched(c)
    <3>1. On(a) \in Int /\ On(z) \in Int
      BY <2>3, <2>7
    <3>2. \A p \in {On(a), On(z)} : p # 0 => p \in PagesTouched(c)
      BY <2>3, <2>6
    <3>3. ASSUME NEW p \in Int, c.pages = {p} PROVE Min(c.pages) = p /\ Max(c.pages) = p
      <4>1. Min({p, p}) = p /\ Max({p, p}) = p
        BY MinOfTwo, MaxOfTwo
      <4>2. {p, p} = {p}
        OBVIOUS
      <4>. QED
        BY <3>3, <4>1, <4>2
    <3>4. ASSUME On(a) < On(z), c.pages = On(a)..On(z)
          PROVE  Min(c.pages) = On(a) /\ Max(c.pages) = On(z)
      <4>. DEFINE S == c.pages
                  lo == On(a)
                  hi == On(z)
      <4>1. /\ S \in SUBSET Int /\ S # {} /\ lo \in S /\ hi \in S /\ lo \in Int /\ hi \in Int
            /\ \A i \in S : lo <= i /\ i <= hi /\ i \in Int
        BY <3>1, <3>4
      <4>. HIDE DEF S, lo, hi
      <4>2. Min(S) \in S /\ \A i \in S : Min(S) <= i
        BY <4>1, MinIs
      <4>3. Max(S) \in S /\ \A i \in S : i <= Max(S)
        BY <4>1, MaxIs
      <4>4. Min(S) \in Int /\ Min(S) <= lo /\ lo <= Min(S)
        BY <4>1, <4>2
      <4>5. Max(S) \in Int /\ hi <= Max(S) /\ Max(S) <= hi
        BY <4>1, <4>3
      <4>6. Min(S) = lo /\ Max(S) = hi
        BY <4>1, <4>4, <4>5
      <4>. QED
        BY <4>6 DEF S, lo, hi
    <3>5. CASE On(a) = 0
      <4>1. On(z) # 0 /\ c.pages = {On(z)}
        BY <2>5, <2>10, <3>5
      <4>. QED
        BY <3>1, <3>2, <3>3, <4>1
    <3>6. CASE On(a) # 0 /\ On(z) <= On(a)
      <4>1. c.pages = {On(a)}
        BY <2>5, <3>6
      <4>. QED
        BY <3>1, <3>2, <3>3, <3>6, <4>1
    <3>7. CASE On(a) # 0 /\ ~(On(z) <= On(a))
      <4>1. c.pages = On(a)..On(z) /\ On(a) < On(z)
        BY <2>5, <3>1, <3>7
      <4>2. On(z) # 0
        <5>1. On(a) \in 0..Len(Pages)
          BY PagesAre, PageAtIs DEF On
        <5>. QED
          BY <3>1, <4>1, <5>1
      <4>. QED
        BY <3>2, <3>4, <3>7, <4>1, <4>2
    <3>. QED
      BY <3>5, <3>6, <3>7
  <2>. QED
    BY <2>9, <2>10 DEF On, a, z
<1>. QED
  BY <1>1, PackAlways, PTL

=============================================================================
