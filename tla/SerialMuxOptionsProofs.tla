----------------------- MODULE SerialMuxOptionsProofs -----------------------
(***************************************************************************)
(* Proofs about SerialMuxOptions, for every set of inputs and every length *)
(* of the token: options come from the source that should win, and         *)
(* hexToBin, one character at a time, computes what the token spells.      *)
(***************************************************************************)
EXTENDS SerialMuxOptions, FiniteSetTheorems, SequenceTheorems, WellFoundedInduction, TLAPS

-----------------------------------------------------------------------------
(* Words and the bytes they spell *)

\* The least-number principle, for sets of naturals.
LEMMA LeastNumber ==
    ASSUME NEW T \in SUBSET Nat, T # {}
    PROVE  \E x \in T : \A y \in T : x <= y
<1> DEFINE R == OpToRel(<, Nat)
<1>1. IsWellFoundedOn(R, Nat)
  BY NatLessThanWellFounded
<1>2. \A x, y \in Nat : y < x => <<y, x>> \in R
  BY DEF OpToRel
<1> HIDE DEF R
<1>3. PICK x \in T : \A y \in T : ~(<<y, x>> \in R)
  BY <1>1, WFMin
<1>4. ASSUME NEW y \in T PROVE x <= y
  <2>1. x \in Nat /\ y \in Nat
    OBVIOUS
  <2>2. ~(y < x)
    BY <1>2, <1>3, <2>1, Zenon
  <2> QED BY <2>1, <2>2
<1> QED BY <1>4

\* Where the word of a token begins and ends: after leading space, and before
\* the next.
WordIs(s, w, first, after) ==
    /\ first \in 1 .. Len(s) + 1 /\ after \in first .. Len(s) + 1
    /\ \A j \in 1 .. first - 1 : s[j] = Space
    /\ first = Len(s) + 1 \/ s[first] # Space
    /\ \A j \in first .. after - 1 : s[j] # Space
    /\ after = Len(s) + 1 \/ s[after] = Space
    /\ w \in Seq(Character \ {Space}) /\ Len(w) = after - first
    /\ \A j \in 1 .. Len(w) : w[j] = s[first - 1 + j]

LEMMA WordFound ==
    ASSUME NEW s \in Seq(Character)
    PROVE  \E first, after \in Nat : WordIs(s, Word(s), first, after)
<1> DEFINE IsFirst(i) == /\ i = Len(s) + 1 \/ s[i] # Space
                         /\ \A j \in 1 .. i - 1 : s[j] = Space
           first == CHOOSE i \in 1 .. Len(s) + 1 : IsFirst(i)
           IsAfter(i) == /\ i = Len(s) + 1 \/ s[i] = Space
                         /\ \A j \in first .. i - 1 : s[j] # Space
           after == CHOOSE i \in first .. Len(s) + 1 : IsAfter(i)
<1>1. Len(s) \in Nat /\ \A j \in 1 .. Len(s) : s[j] \in Character
  OBVIOUS
<1>2. first \in 1 .. Len(s) + 1 /\ IsFirst(first)
  <2> DEFINE T == {i \in 1 .. Len(s) + 1 : i = Len(s) + 1 \/ s[i] # Space}
  <2>1. Len(s) + 1 \in T /\ T \in SUBSET Nat
    BY <1>1
  <2>2. PICK x \in T : \A y \in T : x <= y
    BY <2>1, LeastNumber
  <2>3. x \in 1 .. Len(s) + 1 /\ IsFirst(x)
    BY <1>1, <2>2
  <2> QED BY <2>3
<1> HIDE DEF first
<1>3. after \in first .. Len(s) + 1 /\ IsAfter(after)
  <2> DEFINE T == {i \in first .. Len(s) + 1 : i = Len(s) + 1 \/ s[i] = Space}
  <2>1. Len(s) + 1 \in T /\ T \in SUBSET Nat
    BY <1>1, <1>2
  <2>2. PICK x \in T : \A y \in T : x <= y
    BY <2>1, LeastNumber
  <2>3. x \in first .. Len(s) + 1 /\ IsAfter(x)
    BY <1>1, <1>2, <2>2
  <2> QED BY <2>3
<1>4. Word(s) = SubSeq(s, first, after - 1)
  BY DEF Word, first
<1> HIDE DEF after
<1>5. \A j \in first .. after - 1 : s[j] \in Character \ {Space}
  BY <1>1, <1>2, <1>3
<1>6. /\ SubSeq(s, first, after - 1) \in Seq(Character \ {Space})
      /\ Len(SubSeq(s, first, after - 1)) = after - first
      /\ \A j \in 1 .. after - first : SubSeq(s, first, after - 1)[j] = s[first - 1 + j]
  BY <1>1, <1>2, <1>3, <1>5
<1>7. WordIs(s, Word(s), first, after)
  BY <1>2, <1>3, <1>4, <1>6 DEF WordIs
<1>8. first \in Nat /\ after \in Nat
  BY <1>1, <1>2, <1>3
<1> QED BY <1>7, <1>8

\* The group of a digit begins after the separator before it.
LEMMA GroupIs ==
    ASSUME NEW w \in Seq(Character), NEW i \in 1 .. Len(w), NEW g \in 1 .. i,
           g = 1 \/ w[g - 1] = Sep, \A k \in g .. i : w[k] # Sep
    PROVE  Group(w, i) = g
<1> DEFINE P(j) == (j = 1 \/ w[j - 1] = Sep) /\ \A k \in j .. i : w[k] # Sep
<1>1. ASSUME NEW j \in 1 .. i, P(j) PROVE j = g
  <2>1. ~(j < g)
    BY <1>1
  <2>2. ~(g < j)
    BY <1>1
  <2> QED BY <2>1, <2>2
<1>2. P(g)
  OBVIOUS
<1> QED BY <1>1, <1>2 DEF Group

\* How many bytes begin before a position.
Rank(w, i) == Cardinality({j \in Starts(w) : j < i})

LEMMA RankStep ==
    ASSUME NEW w \in Seq(Character), NEW i \in Nat
    PROVE  /\ IsFiniteSet({j \in Starts(w) : j < i}) /\ Rank(w, i) \in Nat
           /\ Rank(w, i + 1) = IF i \in Starts(w) THEN Rank(w, i) + 1 ELSE Rank(w, i)
<1> DEFINE Before(k) == {j \in Starts(w) : j < k}
<1>1. IsFiniteSet(1 .. Len(w))
  BY FS_Interval
<1>2. Starts(w) \subseteq 1 .. Len(w)
  BY DEF Starts
<1>3. IsFiniteSet(Before(i))
  BY <1>1, <1>2, FS_Subset
<1>4. Rank(w, i) \in Nat
  BY <1>3, FS_CardinalityType DEF Rank
<1>5. CASE i \in Starts(w)
  <2>1. Before(i + 1) = Before(i) \cup {i} /\ i \notin Before(i)
    BY <1>2, <1>5
  <2> HIDE DEF Before
  <2>2. Cardinality(Before(i + 1)) = Cardinality(Before(i)) + 1
    BY <1>3, <2>1, FS_AddElement
  <2> QED BY <1>3, <1>4, <1>5, <2>2 DEF Rank, Before
<1>6. CASE i \notin Starts(w)
  <2>1. Before(i + 1) = Before(i)
    BY <1>2, <1>6
  <2> QED BY <1>3, <1>4, <1>6, <2>1 DEF Rank
<1> QED BY <1>5, <1>6

LEMMA RankMonotonic ==
    ASSUME NEW w \in Seq(Character), NEW i \in Nat, NEW k \in Nat, i <= k
    PROVE  Rank(w, i) <= Rank(w, k)
<1>1. Starts(w) \subseteq Nat
  BY DEF Starts
<1>2. {j \in Starts(w) : j < i} \subseteq {j \in Starts(w) : j < k}
  BY <1>1
<1> QED BY <1>2, RankStep, FS_Subset DEF Rank

LEMMA RankOfAll ==
    ASSUME NEW w \in Seq(Character)
    PROVE  Rank(w, Len(w) + 1) = Cardinality(Starts(w))
<1>1. {j \in Starts(w) : j < Len(w) + 1} = Starts(w)
  BY DEF Starts
<1> QED BY <1>1 DEF Rank

\* What hexToBin has made of the first q characters of a word: t is the token, b and
\* n the byte it works on and its digits so far, and d whether the last character was a
\* digit.
Begun(n)  == IF n > 0 THEN 1 ELSE 0
InGroup(w, q, g, n) ==
    /\ g \in 1 .. q + 1 /\ (g = 1 \/ w[g - 1] = Sep) /\ \A k \in g .. q : w[k] # Sep
    /\ n = IF g = q + 1 THEN 0 ELSE ((q - g) % 2) + 1

WellFormed(w, q) ==
    \A i \in 1 .. q : /\ w[i] \in Digit \cup {Sep}
                      /\ w[i] = Sep => i > 1 /\ w[i - 1] # Sep

Spelled(w, q, t, b, n, d) ==
    /\ q \in 0 .. Len(w) /\ b \in Nat /\ n \in 0 .. 2
    /\ WellFormed(w, q)
    /\ d <=> q > 0 /\ w[q] # Sep
    /\ \E g \in Nat : InGroup(w, q, g, n)
    /\ Rank(w, q + 1) = b + Begun(n) /\ Rank(w, q + 1) <= AUTHENTICATION_LEN
    /\ \A i \in Starts(w) : i <= q =>
         t[Rank(w, i)] = IF i = q THEN w[i] ELSE ByteAt(w, i)
    /\ \A k \in 0 .. AUTHENTICATION_LEN - 1 : Rank(w, q + 1) <= k => t[k] = 0
    /\ \A k \in Nat : k < Rank(w, q + 1) => \E i \in Starts(w) : Rank(w, i) = k
    /\ t \in [0 .. AUTHENTICATION_LEN - 1 -> Nat]

\* A digit begins a byte exactly if the byte before it is full.
LEMMA StartsAtDigit ==
    ASSUME NEW w \in Seq(Character), NEW q \in 0 .. Len(w) - 1, NEW g \in Nat, NEW n \in 0 .. 2,
           InGroup(w, q, g, n), w[q + 1] \in Digit
    PROVE  q + 1 \in Starts(w) <=> n # 1
<1>1. w[q + 1] # Sep /\ q + 1 \in DOMAIN w /\ q + 1 \in 1 .. Len(w)
  BY DEF Digit, Sep
<1>2. g \in 1 .. q + 1 /\ (g = 1 \/ w[g - 1] = Sep)
  BY DEF InGroup
<1>3. \A k \in g .. q + 1 : w[k] # Sep
  BY <1>1 DEF InGroup
<1>4. Group(w, q + 1) = g
  BY <1>1, <1>2, <1>3, GroupIs
<1>5. q + 1 \in Starts(w) <=> (q + 1 - g) % 2 = 0
  BY <1>1, <1>4 DEF Starts
<1>6. CASE g = q + 1
  BY <1>5, <1>6 DEF InGroup
<1>7. CASE g # q + 1
  <2>1. (q - g) % 2 \in {0, 1} /\ ((q + 1 - g) % 2 = 0 <=> (q - g) % 2 = 1)
    BY <1>2
  <2>2. n = ((q - g) % 2) + 1
    BY <1>7 DEF InGroup
  <2> QED BY <1>5, <2>1, <2>2
<1> QED BY <1>6, <1>7

LEMMA LenPositive == AUTHENTICATION_LEN \in Nat \ {0}
BY InputAssumption

LEMMA NothingSpelled ==
    ASSUME NEW w \in Seq(Character)
    PROVE  Spelled(w, 0, [k \in 0 .. AUTHENTICATION_LEN - 1 |-> 0], 0, 0, FALSE)
<1>1. {j \in Starts(w) : j < 1} = {}
  BY DEF Starts
<1>2. Rank(w, 1) = 0
  BY <1>1, FS_EmptySet DEF Rank
<1>3. \A i \in Starts(w) : ~(i <= 0)
  BY DEF Starts
<1>4. InGroup(w, 0, 1, 0)
  BY DEF InGroup
<1> QED BY <1>2, <1>3, <1>4, LenPositive DEF Spelled, WellFormed, Begun

LEMMA KindsOfCharacter ==
    /\ End \notin Character /\ Space \notin Digit /\ End \notin Digit /\ Sep \notin Digit
    /\ Sep \notin {End, Space}
BY DEF Character, Digit, Sep, Space, Other, End

\* A digit is shifted into a byte.
Shifted(x, y) == (x * 16 + y) % 256

LEMMA TwoDigits ==
    /\ \A x \in Nat, y \in Digit : Shifted(x, y) \in Nat
    /\ \A y \in Digit : Shifted(0, y) = y
    /\ \A x, y \in Digit : Shifted(x, y) = 16 * x + y
BY DEF Digit, Shifted

LEMMA DigitSpelled ==
    ASSUME NEW w \in Seq(Character), NEW q \in Nat, NEW t, NEW b, NEW n, NEW d, NEW c, NEW t2,
           Spelled(w, q, t, b, n, d), q < Len(w), w[q + 1] \in Digit,
           c = (IF n = 2 THEN b + 1 ELSE b), c < AUTHENTICATION_LEN,
           t2 = [t EXCEPT ![c] = Shifted(@, w[q + 1])]
    PROVE  Spelled(w, q + 1, t2, c, IF n = 2 THEN 1 ELSE n + 1, TRUE)
<1> DEFINE m == IF n = 2 THEN 1 ELSE n + 1
           r == Rank(w, q + 1)
<1> USE LenPositive
<1>p. /\ b \in Nat /\ n \in 0 .. 2 /\ WellFormed(w, q) /\ r = b + Begun(n) /\ r <= AUTHENTICATION_LEN
      /\ \A i \in Starts(w) : i <= q => t[Rank(w, i)] = IF i = q THEN w[i] ELSE ByteAt(w, i)
      /\ \A k \in 0 .. AUTHENTICATION_LEN - 1 : r <= k => t[k] = 0
      /\ \A k \in Nat : k < r => \E i \in Starts(w) : Rank(w, i) = k
      /\ t \in [0 .. AUTHENTICATION_LEN - 1 -> Nat]
  BY DEF Spelled
<1>r. \A i \in Nat : /\ Rank(w, i) \in Nat
                      /\ Rank(w, i + 1) = IF i \in Starts(w) THEN Rank(w, i) + 1 ELSE Rank(w, i)
  BY RankStep
<1>s. \A i \in Starts(w) : i \in 1 .. Len(w)
  BY DEF Starts
<1>t. Rank(w, q + 2) = IF q + 1 \in Starts(w) THEN r + 1 ELSE r
  <2>1. q + 1 \in Nat /\ q + 2 = (q + 1) + 1
    OBVIOUS
  <2> HIDE DEF m
  <2> QED BY <1>r, <2>1
<1> HIDE DEF r
<1>u. r \in Nat
  BY <1>r DEF r
<1>1. b \in Nat /\ n \in 0 .. 2 /\ c \in 0 .. AUTHENTICATION_LEN - 1 /\ m \in 1 .. 2
  BY <1>p
<1>2. WellFormed(w, q + 1)
  <2> SUFFICES ASSUME NEW i \in 1 .. q + 1
               PROVE  /\ w[i] \in Digit \cup {Sep}
                      /\ w[i] = Sep => i > 1 /\ w[i - 1] # Sep
    BY DEF WellFormed
  <2>1. CASE i = q + 1
    BY <2>1 DEF Digit, Sep
  <2>2. CASE i # q + 1
    BY <1>p, <2>2 DEF WellFormed
  <2> QED BY <2>1, <2>2
<1>3. PICK g \in Nat : InGroup(w, q, g, n)
  BY DEF Spelled
<1>4. InGroup(w, q + 1, g, m)
  <2>1. g \in 1 .. q + 1 /\ (g = 1 \/ w[g - 1] = Sep)
    BY <1>3 DEF InGroup
  <2>2. \A k \in g .. q + 1 : w[k] # Sep
    <3>1. w[q + 1] # Sep
      BY KindsOfCharacter
    <3>2. \A k \in g .. q : w[k] # Sep
      BY <1>3 DEF InGroup
    <3> QED BY <2>1, <3>1, <3>2
  <2>3. m = ((q + 1 - g) % 2) + 1
    <3>1. CASE g = q + 1
      BY <1>3, <3>1 DEF InGroup
    <3>2. CASE g # q + 1
      <4>1. n = ((q - g) % 2) + 1
        BY <1>3, <3>2 DEF InGroup
      <4>2. (q - g) % 2 \in {0, 1} /\ (q + 1 - g) % 2 = 1 - ((q - g) % 2)
        BY <2>1
      <4> QED BY <4>1, <4>2
    <3> QED BY <3>1, <3>2
  <2> QED BY <2>1, <2>2, <2>3 DEF InGroup
<1>5. q + 1 \in Starts(w) <=> n # 1
  BY <1>1, <1>3, StartsAtDigit
<1>6. r \in Nat /\ r = b + Begun(n) /\ r <= AUTHENTICATION_LEN
  BY <1>p, <1>u
<1>7. Rank(w, q + 2) = c + 1
  BY <1>1, <1>5, <1>6, <1>t DEF Begun
<1>8. t2 \in [0 .. AUTHENTICATION_LEN - 1 -> Nat] /\ \A k \in 0 .. AUTHENTICATION_LEN - 1 :
          t2[k] = IF k = c THEN Shifted(t[c], w[q + 1]) ELSE t[k]
  <2>2. t[c] \in Nat
    BY <1>1, <1>p
  <2>3. Shifted(t[c], w[q + 1]) \in Nat
    BY <2>2, TwoDigits
  <2> HIDE DEF m
  <2> QED BY <1>1, <1>p, <2>3
<1>9. \A k \in 0 .. AUTHENTICATION_LEN - 1 : Rank(w, q + 2) <= k => t2[k] = 0
  <2> SUFFICES ASSUME NEW k \in 0 .. AUTHENTICATION_LEN - 1, Rank(w, q + 2) <= k PROVE t2[k] = 0
    OBVIOUS
  <2>1. r <= k /\ k # c
    BY <1>1, <1>5, <1>6, <1>7, <1>t
  <2>2. t[k] = 0
    BY <1>p, <2>1
  <2> QED BY <1>8, <2>1, <2>2
<1>10. ASSUME NEW i \in Starts(w), i <= q + 1
       PROVE  t2[Rank(w, i)] = IF i = q + 1 THEN w[i] ELSE ByteAt(w, i)
  <2>1. i \in 1 .. Len(w) /\ Rank(w, i) \in Nat /\ Rank(w, i + 1) = Rank(w, i) + 1
    <3>1. i \in 1 .. Len(w) /\ i \in Nat
      BY <1>s
    <3> QED BY <1>r, <3>1
  <2>2. CASE i = q + 1
    <3>1. n # 1 /\ r = c
      BY <1>1, <1>5, <1>6, <2>2 DEF Begun
    <3>2. t[c] = 0
      BY <1>1, <1>6, <1>p, <3>1
    <3>3. t2[c] = w[q + 1]
      BY <1>1, <1>8, <3>2, TwoDigits
    <3>4. Rank(w, i) = c
      BY <2>2, <3>1 DEF r
    <3> QED BY <2>2, <3>3, <3>4
  <2>3. CASE i = q
    <3>1. Rank(w, q + 1) = Rank(w, q) + 1
      BY <2>1, <2>3
    <3>2. t[Rank(w, q)] = w[q]
      BY <1>p, <1>10, <2>3
    <3>3. w[q] \in Digit
      BY <1>p, <2>1, <2>3 DEF WellFormed, Starts
    <3>4. ByteAt(w, q) = 16 * w[q] + w[q + 1]
      BY DEF ByteAt
    <3>5. n = 1
      <4>1. n # 0
        BY <1>3, <2>1, <2>3 DEF InGroup, Starts
      <4>2. n # 2
        <5> SUFFICES ASSUME n = 2 PROVE FALSE
          OBVIOUS
        <5>1. g \in 1 .. q /\ (q - g) % 2 = 1
          BY <1>3 DEF InGroup
        <5>2. Group(w, q) = g
          BY <1>3, <2>1, <2>3, <5>1, GroupIs DEF InGroup
        <5> QED BY <2>3, <5>1, <5>2 DEF Starts
      <4> QED BY <1>1, <4>1, <4>2
    <3>6. Rank(w, q) = c
      BY <1>1, <1>6, <2>1, <2>3, <3>1, <3>5 DEF Begun, r
    <3>7. t2[c] = Shifted(w[q], w[q + 1])
      BY <1>1, <1>8, <3>2, <3>6
    <3>8. Shifted(w[q], w[q + 1]) = 16 * w[q] + w[q + 1]
      BY <3>3, TwoDigits
    <3> QED BY <2>3, <3>4, <3>6, <3>7, <3>8
  <2>4. CASE i < q
    <3>1. t[Rank(w, i)] = ByteAt(w, i)
      <4>1. i <= q /\ i # q
        BY <2>1, <2>4
      <4> QED BY <1>p, <4>1
    <3>2. Rank(w, i) + 1 = Rank(w, i + 1)
      BY <2>1
    <3>3. Rank(w, i) # c
      <4>1. CASE n = 1
        <5>1. PICK k \in Nat : k \in Starts(w) /\ k = q
          <6>1. g \in 1 .. q /\ (q - g) % 2 = 0
            BY <1>3, <4>1 DEF InGroup
          <6>2. /\ q \in 1 .. Len(w) /\ g \in 1 .. q /\ (g = 1 \/ w[g - 1] = Sep)
                /\ \A k \in g .. q : w[k] # Sep
            BY <1>3, <6>1 DEF InGroup
          <6>3. Group(w, q) = g
            BY <6>2, GroupIs
          <6> QED BY <6>1, <6>2, <6>3 DEF Starts
        <5>2. Rank(w, q) \in Nat /\ Rank(w, q) + 1 = r
          BY <1>r, <5>1 DEF r
        <5>3. Rank(w, i + 1) <= Rank(w, q)
          BY <2>1, <2>4, RankMonotonic
        <5> QED BY <1>1, <1>6, <2>1, <3>2, <4>1, <5>2, <5>3 DEF Begun
      <4>2. CASE n # 1
        <5>1. r = c
          BY <1>1, <1>6, <4>2 DEF Begun
        <5>2. Rank(w, i + 1) <= r
          BY <2>1, <2>4, RankMonotonic DEF r
        <5> QED BY <2>1, <3>2, <5>1, <5>2
      <4> QED BY <4>1, <4>2
    <3>4. Rank(w, i) < AUTHENTICATION_LEN
      <4>1. Rank(w, i + 1) <= r
        BY <2>1, <2>4, RankMonotonic DEF r
      <4> QED BY <1>6, <2>1, <3>2, <4>1
    <3>5. t2[Rank(w, i)] = t[Rank(w, i)]
      BY <1>8, <2>1, <3>3, <3>4
    <3> QED BY <2>1, <2>4, <3>1, <3>5
  <2>5. i = q + 1 \/ i = q \/ i < q
    BY <1>10, <2>1
  <2> QED BY <2>2, <2>3, <2>4, <2>5
<1>11. ASSUME NEW k \in Nat, k < Rank(w, q + 2) PROVE \E i \in Starts(w) : Rank(w, i) = k
  <2>1. CASE k < r
    BY <1>p, <2>1
  <2>2. CASE ~(k < r)
    <3>1. q + 1 \in Starts(w) /\ k = r
      BY <1>6, <1>11, <1>t, <2>2
    <3> QED BY <3>1 DEF r
  <2> QED BY <2>1, <2>2
<1>12. TRUE <=> q + 1 > 0 /\ w[q + 1] # Sep
  BY KindsOfCharacter
<1>13. q + 1 + 1 = q + 2 /\ q + 1 \in 0 .. Len(w)
  OBVIOUS
<1>14. Begun(m) = 1
  BY <1>1 DEF Begun
<1>15. Rank(w, q + 1 + 1) = c + Begun(m) /\ Rank(w, q + 1 + 1) <= AUTHENTICATION_LEN
  BY <1>1, <1>7, <1>13, <1>14
<1> HIDE DEF m
<1>16. \A k \in 0 .. AUTHENTICATION_LEN - 1 : Rank(w, q + 1 + 1) <= k => t2[k] = 0
  BY <1>9, <1>13
<1>17. \A k \in Nat : k < Rank(w, q + 1 + 1) => \E i \in Starts(w) : Rank(w, i) = k
  BY <1>11, <1>13
<1>18. Spelled(w, q + 1, t2, c, m, TRUE)
  <2>1. \E h \in Nat : InGroup(w, q + 1, h, m)
    BY <1>4
  <2>2. c \in Nat /\ m \in 0 .. 2
    BY <1>1
  <2> QED BY <1>2, <1>8, <1>10, <1>12, <1>13, <1>15, <1>16, <1>17, <2>1, <2>2 DEF Spelled
<1> QED BY <1>18 DEF m

\* After a digit a byte has begun.
LEMMA DigitBegins ==
    ASSUME NEW w \in Seq(Character), NEW q \in Nat, NEW t, NEW b, NEW n,
           Spelled(w, q, t, b, n, TRUE)
    PROVE  q > 0 /\ w[q] # Sep /\ n > 0 /\ Rank(w, q + 1) = b + 1 /\ b \in Nat
<1>1. q > 0 /\ w[q] # Sep
  BY DEF Spelled
<1>2. PICK g \in Nat : InGroup(w, q, g, n)
  BY DEF Spelled
<1>3. g # q + 1
  BY <1>1, <1>2 DEF InGroup
<1>4. n > 0
  <2>1. g \in 1 .. q + 1 /\ n = ((q - g) % 2) + 1
    BY <1>2, <1>3 DEF InGroup
  <2> QED BY <2>1
<1> QED BY <1>1, <1>4 DEF Spelled, Begun

LEMMA SeparatorSpelled ==
    ASSUME NEW w \in Seq(Character), NEW q \in Nat, NEW t, NEW b, NEW n,
           Spelled(w, q, t, b, n, TRUE), q < Len(w), w[q + 1] = Sep
    PROVE  Spelled(w, q + 1, t, b + 1, 0, FALSE)
<1>1. q > 0 /\ w[q] # Sep /\ Rank(w, q + 1) = b + 1 /\ b \in Nat
  BY DigitBegins
<1>2. WellFormed(w, q)
  BY DEF Spelled
<1>3. WellFormed(w, q + 1)
  <2> SUFFICES ASSUME NEW i \in 1 .. q + 1
               PROVE  /\ w[i] \in Digit \cup {Sep}
                      /\ w[i] = Sep => i > 1 /\ w[i - 1] # Sep
    BY DEF WellFormed
  <2>1. CASE i = q + 1
    BY <1>1, <2>1
  <2>2. CASE i # q + 1
    BY <1>2, <2>2 DEF WellFormed
  <2> QED BY <2>1, <2>2
<1>4. InGroup(w, q + 1, q + 2, 0)
  BY DEF InGroup
<1>5. Rank(w, q + 1 + 1) = b + 1
  <2>1. q + 1 \notin Starts(w)
    BY DEF Starts
  <2>2. q + 1 \in Nat
    OBVIOUS
  <2> QED BY <1>1, <2>1, <2>2, RankStep
<1>6. ASSUME NEW i \in Starts(w), i <= q + 1
      PROVE  t[Rank(w, i)] = IF i = q + 1 THEN w[i] ELSE ByteAt(w, i)
  <2>1. i \in 1 .. Len(w) /\ i # q + 1
    BY DEF Starts
  <2>2. i <= q
    BY <1>6, <2>1
  <2>3. t[Rank(w, i)] = IF i = q THEN w[i] ELSE ByteAt(w, i)
    BY <2>2 DEF Spelled
  <2>4. ByteAt(w, q) = w[q]
    BY DEF ByteAt, Sep, Digit
  <2> QED BY <2>1, <2>3, <2>4
<1>7. /\ b + 1 \in Nat /\ Begun(0) = 0 /\ ~(w[q + 1] # Sep) /\ q + 1 \in 0 .. Len(w)
      /\ b + 1 = b + 1 + Begun(0) /\ 0 \in 0 .. 2
  BY <1>1 DEF Begun
<1>8. \E h \in Nat : InGroup(w, q + 1, h, 0)
  BY <1>4
<1>9. /\ Rank(w, q + 1) <= AUTHENTICATION_LEN
      /\ \A k \in 0 .. AUTHENTICATION_LEN - 1 : Rank(w, q + 1) <= k => t[k] = 0
      /\ \A k \in Nat : k < Rank(w, q + 1) => \E i \in Starts(w) : Rank(w, i) = k
      /\ t \in [0 .. AUTHENTICATION_LEN - 1 -> Nat]
  BY DEF Spelled
<1> QED BY <1>1, <1>3, <1>5, <1>6, <1>7, <1>8, <1>9 DEF Spelled

LEMMA WordSpelled ==
    ASSUME NEW w \in Seq(Character), NEW t, NEW b, NEW n, Spelled(w, Len(w), t, b, n, TRUE)
    PROVE  IsToken(w) /\ t = TokenOf(w)
<1> DEFINE q == Len(w)
<1>0. Len(w) \in Nat /\ Len(w) + 1 \in Nat
  OBVIOUS
<1>1. q \in Nat /\ q > 0 /\ w[q] # Sep
  BY <1>0, DigitBegins
<1>2. WellFormed(w, q)
  BY DEF Spelled
<1>3. \A i \in DOMAIN w : w[i] = Sep => i > 1 /\ i < Len(w) /\ w[i + 1] # Sep
  <2> SUFFICES ASSUME NEW i \in 1 .. q, w[i] = Sep
               PROVE  i > 1 /\ i < q /\ w[i + 1] # Sep
    OBVIOUS
  <2>1. i > 1 /\ i < q
    BY <1>1, <1>2 DEF WellFormed
  <2>2. i + 1 \in 1 .. q /\ (i + 1) - 1 = i
    BY <2>1
  <2> QED BY <1>2, <2>1, <2>2 DEF WellFormed
<1>4. Rank(w, q + 1) = Cardinality(Starts(w)) /\ Rank(w, q + 1) \in Nat
  BY <1>0, RankOfAll, RankStep
<1>5. IsToken(w)
  <2>1. w # <<>> /\ \A i \in DOMAIN w : w[i] \in Digit \cup {Sep}
    BY <1>1, <1>2 DEF WellFormed
  <2>2. Cardinality(Starts(w)) <= AUTHENTICATION_LEN
    BY <1>4 DEF Spelled
  <2> QED BY <1>3, <2>1, <2>2 DEF IsToken
<1>6. ASSUME NEW k \in 0 .. AUTHENTICATION_LEN - 1 PROVE t[k] = TokenOf(w)[k]
  <2>0. k \in Nat
    BY LenPositive
  <2>1. CASE k < Cardinality(Starts(w))
    <3> DEFINE i == CHOOSE i \in Starts(w) : Cardinality({j \in Starts(w) : j < i}) = k
    <3>1. \E j \in Starts(w) : Rank(w, j) = k
      BY <1>4, <2>0, <2>1 DEF Spelled
    <3>2. i \in Starts(w) /\ Rank(w, i) = k
      BY <3>1 DEF Rank
    <3>3. TokenOf(w)[k] = ByteAt(w, i)
      BY <2>1 DEF TokenOf
    <3> HIDE DEF i
    <3>4. i \in 1 .. q
      BY <3>2 DEF Starts
    <3>5. t[k] = IF i = q THEN w[i] ELSE ByteAt(w, i)
      BY <3>2, <3>4 DEF Spelled
    <3>6. ByteAt(w, q) = w[q]
      BY <1>1 DEF ByteAt
    <3> QED BY <3>3, <3>5, <3>6
  <2>2. CASE ~(k < Cardinality(Starts(w)))
    <3>1. t[k] = 0
      BY <1>4, <2>0, <2>2 DEF Spelled
    <3>2. TokenOf(w)[k] = 0
      BY <2>2 DEF TokenOf
    <3> QED BY <3>1, <3>2
  <2> QED BY <2>1, <2>2
<1>7. t \in [0 .. AUTHENTICATION_LEN - 1 -> Nat]
  BY DEF Spelled
<1>8. DOMAIN TokenOf(w) = 0 .. AUTHENTICATION_LEN - 1
      /\ TokenOf(w) = [k \in 0 .. AUTHENTICATION_LEN - 1 |-> TokenOf(w)[k]]
  BY DEF TokenOf
<1> QED BY <1>5, <1>6, <1>7, <1>8

\* hexToBin gives up: at a character that cannot stand here, or at a digit for which
\* there is no room.
LEMMA NotSpelled ==
    ASSUME NEW w \in Seq(Character), NEW q \in Nat, NEW t, NEW b, NEW n, NEW d \in BOOLEAN,
           Spelled(w, q, t, b, n, d),
           \/ q = Len(w) /\ ~d
           \/ q < Len(w) /\ w[q + 1] \notin Digit \cup {Sep}
           \/ q < Len(w) /\ w[q + 1] = Sep /\ ~d
           \/ /\ q < Len(w) /\ w[q + 1] \in Digit
              /\ (IF n = 2 THEN b + 1 ELSE b) >= AUTHENTICATION_LEN
    PROVE  ~IsToken(w)
<1>1. ~d => q = 0 \/ w[q] = Sep
  BY DEF Spelled
<1>2. CASE q = Len(w) /\ ~d
  <2>1. CASE q = 0
    <3>1. w = <<>>
      BY <1>2, <2>1, EmptySeq
    <3> QED BY <3>1 DEF IsToken
  <2>2. CASE q > 0
    <3>1. q \in DOMAIN w /\ w[q] = Sep /\ ~(q < Len(w))
      BY <1>1, <1>2, <2>2
    <3> QED BY <3>1 DEF IsToken
  <2> QED BY <2>1, <2>2
<1>3. CASE q < Len(w) /\ w[q + 1] \notin Digit \cup {Sep}
  BY <1>3 DEF IsToken
<1>4. CASE q < Len(w) /\ w[q + 1] = Sep /\ ~d
  <2>1. CASE q = 0
    BY <1>4, <2>1 DEF IsToken
  <2>2. CASE q > 0
    BY <1>1, <1>4, <2>2 DEF IsToken
  <2> QED BY <2>1, <2>2
<1>5. CASE q < Len(w) /\ w[q + 1] \in Digit /\ (IF n = 2 THEN b + 1 ELSE b) >= AUTHENTICATION_LEN
  <2>1. PICK g \in Nat : InGroup(w, q, g, n)
    BY DEF Spelled
  <2>2. /\ b \in Nat /\ n \in 0 .. 2 /\ Rank(w, q + 1) = b + Begun(n)
        /\ Rank(w, q + 1) <= AUTHENTICATION_LEN
    BY DEF Spelled
  <2>3. n # 1 /\ Rank(w, q + 1) >= AUTHENTICATION_LEN /\ Rank(w, q + 1) \in Nat
    BY <1>5, <2>2, LenPositive DEF Begun
  <2>4. q + 1 \in Starts(w)
    BY <1>5, <2>1, <2>2, <2>3, StartsAtDigit
  <2>5. q + 1 \in Nat /\ q + 2 = (q + 1) + 1 /\ q + 2 \in Nat /\ Len(w) + 1 \in Nat /\ q + 2 <= Len(w) + 1
    BY <1>5
  <2>6. Rank(w, q + 2) = Rank(w, q + 1) + 1
    BY <2>4, <2>5, RankStep
  <2>7. Rank(w, q + 2) <= Rank(w, Len(w) + 1)
    BY <2>5, RankMonotonic
  <2>8. Cardinality(Starts(w)) > AUTHENTICATION_LEN
    <3>1. Rank(w, Len(w) + 1) = Cardinality(Starts(w)) /\ Rank(w, Len(w) + 1) \in Nat
      BY <2>5, RankOfAll, RankStep
    <3> QED BY <2>3, <2>6, <2>7, <3>1, LenPositive
  <2>9. Cardinality(Starts(w)) \in Nat
    BY <2>5, RankOfAll, RankStep
  <2> QED BY <2>8, <2>9, LenPositive DEF IsToken
<1> QED BY <1>2, <1>3, <1>4, <1>5

-----------------------------------------------------------------------------
(* The inductive invariant: what every stage of parseConfiguration has made of its input *)

OptNames == Stored \cup Flags \cup {"log-level", "authToken", "emulatorPort", "useSerial"}

\* The stages that come after the port, the file, the directory, the special options and
\* the command line.
AfterPort    == {"skip", "hex", "flags", "done"}
AfterFile    == {"values"} \cup AfterPort
AfterDir     == {"config"} \cup AfterFile
AfterSpecial == {"directory"} \cup AfterDir
AfterCmdline == {"special"} \cup AfterSpecial

\* What is stored when the command line and then a file were taken.
Merged(parsed) ==
    [o \in DOMAIN input.cmdline \cup DOMAIN parsed \cup Valued |->
        IF o \in DOMAIN input.cmdline THEN [value |-> input.cmdline[o], defaulted |-> FALSE]
        ELSE IF o \in DOMAIN parsed THEN [value |-> parsed[o], defaulted |-> FALSE]
        ELSE [value |-> Default(o), defaulted |-> TRUE]]

\* What the stages behind have accepted, and what they have stored.
Accepted ==
    /\ input \in Input /\ pc \in AfterCmdline \cup {"cmdline", "exit", "error"}
    /\ pc = "cmdline" => vm = <<>>
    /\ pc \in {"cmdline", "special", "directory"} => cwd = "cwd"
    /\ pc \in AfterCmdline => ~Refused(input.cmdline, CmdlineOptions)
    /\ pc \in AfterCmdline \ AfterFile => vm = Merged(<<>>)
    /\ pc \in AfterFile => vm = Merged(FileOptions)
    /\ pc \in AfterSpecial => DOMAIN input.cmdline \cap {"help", "version"} = {}
    /\ pc \in AfterDir => cwd = TheDirectory /\ TheDirectory \in Directories
    /\ pc \in AfterFile => /\ ~(TheFile = Missing /\ "config" \in DOMAIN input.cmdline)
                           /\ ~Refused(FileOptions, ConfOptions)

\* The variables behind the options follow the map; the flags and the level come last.
Copied ==
    /\ DOMAIN opts = OptNames
    /\ pc = "cmdline" => opts = Initial
    /\ pc \in AfterCmdline => \A o \in Stored :
         opts[o] = IF o \in DOMAIN vm THEN vm[o].value ELSE Initial[o]
    /\ pc \in AfterCmdline \ {"done"} => \A o \in Flags \cup {"log-level"} : opts[o] = Initial[o]
    /\ pc \in AfterCmdline \ AfterPort => opts["useSerial"] = TRUE /\ opts["authToken"] = DefaultToken
    /\ pc \in AfterPort => opts["useSerial"] = (ToUint16(ValueOf("port", 0)) \in SerialPorts)
    /\ pc = "done" => /\ \A o \in Flags : opts[o] = Given(o)
                      /\ opts["log-level"] = stringToEnum(ValueOf("log-level", "error"))

\* hexToBin has read p characters of the token.
TheToken == ValueOf("authToken", <<>>)
HasRead(p) ==
    /\ p \in 0 .. Len(TheToken)
    /\ str \in Seq(Character) /\ Len(str) = Len(TheToken) - p
    /\ \A j \in 1 .. Len(str) : str[j] = TheToken[p + j]

AtStart == idx = 0 /\ nn = 0 /\ wasDigit = FALSE
Zeros   == [k \in 0 .. AUTHENTICATION_LEN - 1 |-> 0]
Skipping ==
    /\ AtStart /\ opts["authToken"] = Zeros
    /\ \E p \in Nat : HasRead(p) /\ \A j \in 1 .. p : TheToken[j] = Space
Spelling ==
    \E first, after, q \in Nat :
        /\ WordIs(TheToken, Word(TheToken), first, after)
        /\ Spelled(Word(TheToken), q, opts["authToken"], idx, nn, wasDigit)
        /\ HasRead(first - 1 + q)

\* What hexToBin has made of the characters behind.
Converted ==
    /\ pc \in ({"cmdline"} \cup AfterCmdline) \ AfterPort => AtStart
    /\ pc \in {"skip", "hex"} => Given("authToken") /\ TheToken \in Seq(Character)
    /\ pc = "skip" => Skipping
    /\ pc = "hex" => wasDigit \in BOOLEAN /\ Spelling
    /\ pc \in {"flags", "done"} =>
         IF Given("authToken") THEN IsToken(Word(TheToken)) /\ opts["authToken"] = TokenOf(Word(TheToken))
         ELSE opts["authToken"] = DefaultToken

Ends == pc \in {"exit", "error"} => pc = Outcome

Inv == Accepted /\ Copied /\ Converted /\ Ends

LEMMA InitInv == Init => Inv
<1> SUFFICES ASSUME Init PROVE Inv
  OBVIOUS
<1> USE DEF AfterCmdline, AfterSpecial, AfterDir, AfterFile, AfterPort
<1>1. Accepted
  BY DEF Init, Accepted
<1>2. Copied
  <2>1. pc = "cmdline" /\ opts = Initial
    BY DEF Init
  <2>2. DOMAIN opts = OptNames
    BY <2>1 DEF Initial, OptNames
  <2> QED BY <2>1, <2>2 DEF Copied
<1>3. Converted
  BY DEF Init, Converted, AtStart
<1>4. Ends
  BY DEF Init, Ends
<1> QED BY <1>1, <1>2, <1>3, <1>4 DEF Inv

\* What is said of the input alone stays.
LEMMA InputStays ==
    ASSUME input' = input
    PROVE  /\ TheDirectory' = TheDirectory /\ Directories' = Directories
           /\ TheFile' = TheFile /\ FileOptions' = FileOptions
           /\ TheToken' = TheToken /\ Outcome' = Outcome
           /\ \A o : Given(o)' = Given(o)
           /\ \A o, d : ValueOf(o, d)' = ValueOf(o, d)
           /\ \A parsed : Merged(parsed)' = Merged(parsed)
<1>1. TheDirectory' = TheDirectory /\ Directories' = Directories
  BY DEF TheDirectory, Directories
<1>2. TheFile' = TheFile
  BY <1>1 DEF TheFile
<1>3. FileOptions' = FileOptions
  BY <1>2 DEF FileOptions
<1>4. \A o : Given(o)' = Given(o)
  BY <1>3 DEF Given
<1>5. \A o, d : ValueOf(o, d)' = ValueOf(o, d)
  BY <1>3 DEF ValueOf
<1>6. TheToken' = TheToken
  BY <1>5 DEF TheToken
<1>7. BadFile' = BadFile
  BY <1>1, <1>2, <1>3, <1>4, <1>5 DEF BadFile
<1>8. Outcome' = Outcome
  BY <1>7 DEF Outcome
<1>9. \A parsed : Merged(parsed)' = Merged(parsed)
  BY DEF Merged
<1> QED BY <1>1, <1>2, <1>3, <1>4, <1>5, <1>6, <1>8, <1>9

\* The first store, and the second, which must not take a default for a value.
LEMMA StoredFirst ==
    ASSUME vm = <<>> PROVE Store(input.cmdline) = Merged(<<>>)
<1>1. DOMAIN vm = {} /\ DOMAIN <<>> = {}
  OBVIOUS
<1> QED BY <1>1 DEF Store, Merged, IsDefaulted

LEMMA StoredSecond ==
    ASSUME NEW parsed, vm = Merged(<<>>) PROVE Store(parsed) = Merged(parsed)
<1>1. DOMAIN vm = DOMAIN input.cmdline \cup Valued
  BY DEF Merged
<1>2. \A o \in DOMAIN vm : /\ o \in DOMAIN input.cmdline =>
                                vm[o] = [value |-> input.cmdline[o], defaulted |-> FALSE]
                           /\ o \notin DOMAIN input.cmdline =>
                                vm[o] = [value |-> Default(o), defaulted |-> TRUE]
  BY <1>1 DEF Merged
<1>3. DOMAIN vm \cup DOMAIN parsed \cup Valued = DOMAIN input.cmdline \cup DOMAIN parsed \cup Valued
  BY <1>1
<1> QED BY <1>1, <1>2, <1>3 DEF Store, Merged, IsDefaulted

\* A map that was merged has the value the sources give, or the default.
LEMMA MergedValue ==
    ASSUME NEW parsed, NEW o
    PROVE  /\ o \in DOMAIN Merged(parsed) <=> o \in DOMAIN input.cmdline \cup DOMAIN parsed \cup Valued
           /\ o \in DOMAIN Merged(parsed) =>
                Merged(parsed)[o].value = Lookup(o, input.cmdline, Lookup(o, parsed, Default(o)))
BY DEF Merged, Lookup

\* notify copies what is stored and leaves the rest.
LEMMA Notified ==
    ASSUME DOMAIN opts = OptNames, NEW m, opts' = Notify(m)
    PROVE  /\ DOMAIN opts' = OptNames
           /\ \A o \in Stored : opts'[o] = IF o \in DOMAIN m THEN m[o].value ELSE opts[o]
           /\ \A o \in OptNames \ Stored : opts'[o] = opts[o]
<1>1. Stored \subseteq OptNames
  BY DEF OptNames
<1> QED BY <1>1 DEF Notify

LEMMA NamesApart ==
    /\ Stored \cap Flags = {}
    /\ Stored \cap {"log-level", "authToken", "emulatorPort", "useSerial"} = {}
    /\ Flags \cap {"log-level", "authToken", "emulatorPort", "useSerial"} = {}
    /\ Flags \cup {"log-level", "authToken", "emulatorPort", "useSerial"} \subseteq OptNames \ Stored
    /\ "port" \in Stored /\ "config" \in Stored /\ "baud" \in Stored
    /\ Stored \subseteq OptNames
BY DEF Stored, Flags, Valued, OptNames

LEMMA InitialValues ==
    /\ \A o \in Valued \cup {"baud"} : Initial[o] = Default(o)
    /\ Initial["config"] = "serial_mux.cfg"
    /\ \A o \in Flags : Initial[o] = FALSE
    /\ Initial["log-level"] = "LOG_ERROR" /\ Initial["authToken"] = DefaultToken
    /\ Initial["useSerial"] = TRUE
<1>0. \A o \in Valued \cup {"baud"} :
         o \notin Flags \cup {"config", "log-level", "authToken", "emulatorPort", "useSerial"}
  BY DEF Valued, Flags
<1>1. ASSUME NEW o \in Valued \cup {"baud"} PROVE Initial[o] = Default(o)
  <2>1. o \in Stored \cup Flags \cup {"log-level", "authToken", "emulatorPort", "useSerial"}
    BY DEF Stored
  <2>2. /\ o \notin Flags /\ o # "config" /\ o # "log-level" /\ o # "authToken"
        /\ o # "emulatorPort" /\ o # "useSerial"
    BY <1>0
  <2> QED BY <2>1, <2>2 DEF Initial
<1>2. Initial["config"] = "serial_mux.cfg"
  <2>1. "config" \notin Flags /\ "config" \notin Valued \cup {"baud"}
    BY <1>0 DEF Flags
  <2> QED BY <2>1, SMT DEF Initial, Stored
<1>3. \A o \in Flags : Initial[o] = FALSE
  BY DEF Initial, Stored, Valued, Flags
<1>4. Initial["log-level"] = "LOG_ERROR" /\ Initial["authToken"] = DefaultToken
  BY DEF Initial, Stored, Valued, Flags
<1>5. Initial["useSerial"] = TRUE
  BY DEF Initial, Stored, Valued, Flags
<1> QED BY <1>1, <1>2, <1>3, <1>4, <1>5

-----------------------------------------------------------------------------
(* One lemma per stage *)

LEMMA CommandLineKeeps ==
    ASSUME Inv, ParseCommandLine PROVE Inv'
<1> USE DEF AfterCmdline, AfterSpecial, AfterDir, AfterFile, AfterPort
<1>0. pc = "cmdline" /\ input' = input /\ cwd' = cwd /\ str' = str /\ idx' = idx
      /\ nn' = nn /\ wasDigit' = wasDigit
  BY DEF ParseCommandLine, hexVars
<1>1. vm = <<>> /\ cwd = "cwd" /\ input \in Input /\ opts = Initial /\ AtStart /\ DOMAIN opts = OptNames
  BY <1>0 DEF Inv, Accepted, Copied, Converted
<1>2. CASE Refused(input.cmdline, CmdlineOptions) /\ pc' = "error" /\ UNCHANGED <<vm, opts>>
  <2>1. Accepted'
    BY <1>0, <1>1, <1>2 DEF Accepted
  <2>2. Copied'
    BY <1>0, <1>1, <1>2 DEF Copied
  <2>3. Converted'
    BY <1>0, <1>1, <1>2 DEF Converted
  <2>4. Outcome = "error"
    BY <1>2 DEF Outcome
  <2>5. Ends'
    BY <1>0, <1>2, <2>4, InputStays DEF Ends
  <2> QED BY <2>1, <2>2, <2>3, <2>5 DEF Inv
<1>3. CASE /\ ~Refused(input.cmdline, CmdlineOptions)
           /\ vm' = Store(input.cmdline) /\ opts' = Notify(Store(input.cmdline))
           /\ pc' = "special"
  <2>1. vm' = Merged(<<>>) /\ Merged(<<>>)' = Merged(<<>>) /\ opts' = Notify(vm')
    BY <1>0, <1>1, <1>3, StoredFirst, InputStays
  <2>2. Accepted'
    BY <1>0, <1>1, <1>3, <2>1 DEF Accepted, Refused
  <2>3. /\ DOMAIN opts' = OptNames
        /\ \A o \in Stored : opts'[o] = IF o \in DOMAIN vm' THEN vm'[o].value ELSE Initial[o]
        /\ \A o \in OptNames \ Stored : opts'[o] = Initial[o]
    BY <1>1, <2>1, Notified
  <2>4. /\ \A o \in Flags \cup {"log-level"} : opts'[o] = Initial[o]
        /\ opts'["useSerial"] = TRUE /\ opts'["authToken"] = DefaultToken
    BY <2>3, NamesApart, InitialValues
  <2>5. Copied'
    BY <1>3, <2>3, <2>4 DEF Copied
  <2>6. Converted'
    BY <1>0, <1>1, <1>3 DEF Converted, AtStart
  <2>7. Ends'
    BY <1>3 DEF Ends
  <2> QED BY <2>2, <2>5, <2>6, <2>7 DEF Inv
<1> QED BY <1>2, <1>3 DEF ParseCommandLine, Take

LEMMA SpecialKeeps ==
    ASSUME Inv, Special PROVE Inv'
<1> USE DEF AfterCmdline, AfterSpecial, AfterDir, AfterFile, AfterPort
<1>0. /\ pc = "special" /\ input' = input /\ vm' = vm /\ opts' = opts /\ cwd' = cwd
      /\ str' = str /\ idx' = idx /\ nn' = nn /\ wasDigit' = wasDigit
      /\ pc' = IF DOMAIN vm \cap {"help", "version"} # {} THEN "exit" ELSE "directory"
  BY DEF Special, hexVars
<1>1. /\ vm = Merged(<<>>) /\ Merged(<<>>)' = Merged(<<>>) /\ cwd = "cwd" /\ input \in Input
      /\ ~Refused(input.cmdline, CmdlineOptions) /\ AtStart
  BY <1>0, InputStays DEF Inv, Accepted, Converted
<1>2. DOMAIN vm \cap {"help", "version"} = DOMAIN input.cmdline \cap {"help", "version"}
  <2>1. DOMAIN vm = DOMAIN input.cmdline \cup Valued
    BY <1>1 DEF Merged
  <2> QED BY <2>1 DEF Valued
<1>3. Accepted'
  BY <1>0, <1>1, <1>2 DEF Accepted, Refused
<1>4. Copied'
  BY <1>0 DEF Inv, Copied
<1>5. Converted'
  BY <1>0, <1>1 DEF Converted, AtStart
<1>6. Ends'
  <2>1. pc' = "exit" => Outcome = "exit"
    BY <1>0, <1>1, <1>2 DEF Outcome
  <2> QED BY <1>0, <2>1, InputStays DEF Ends
<1> QED BY <1>3, <1>4, <1>5, <1>6 DEF Inv

LEMMA DirectoryKeeps ==
    ASSUME Inv, ChangeDirectory PROVE Inv'
<1> USE DEF AfterCmdline, AfterSpecial, AfterDir, AfterFile, AfterPort
<1> DEFINE dir == IF "directory" \in DOMAIN vm THEN vm["directory"].value ELSE cwd
<1>0. /\ pc = "directory" /\ input' = input /\ vm' = vm /\ opts' = opts
      /\ str' = str /\ idx' = idx /\ nn' = nn /\ wasDigit' = wasDigit
      /\ \/ dir \in Directories /\ cwd' = dir /\ pc' = "config"
         \/ dir \notin Directories /\ cwd' = cwd /\ pc' = "error"
  BY DEF ChangeDirectory, hexVars
<1>1. /\ vm = Merged(<<>>) /\ Merged(<<>>)' = Merged(<<>>) /\ cwd = "cwd" /\ input \in Input
      /\ ~Refused(input.cmdline, CmdlineOptions) /\ AtStart
      /\ DOMAIN input.cmdline \cap {"help", "version"} = {}
  BY <1>0, InputStays DEF Inv, Accepted, Converted
<1>2. dir = TheDirectory
  <2>1. /\ "directory" \in DOMAIN vm <=> "directory" \in DOMAIN input.cmdline
        /\ "directory" \in DOMAIN input.cmdline => vm["directory"].value = input.cmdline["directory"]
    BY <1>1 DEF Merged, Valued
  <2> QED BY <1>1, <2>1 DEF TheDirectory, Lookup
<1> HIDE DEF dir
<1>3. Accepted'
  BY <1>0, <1>1, <1>2, InputStays DEF Accepted, Refused
<1>4. Copied'
  BY <1>0 DEF Inv, Copied
<1>5. Converted'
  BY <1>0, <1>1 DEF Converted, AtStart
<1>6. Ends'
  <2>1. pc' = "error" => Outcome = "error"
    BY <1>0, <1>1, <1>2 DEF Outcome, BadFile
  <2> QED BY <1>0, <2>1, InputStays DEF Ends
<1> QED BY <1>3, <1>4, <1>5, <1>6 DEF Inv

\* Which file is read.
LEMMA FileFound ==
    ASSUME Inv, pc = "config"
    PROVE  /\ input.files[<<cwd, opts["config"]>>] = TheFile
           /\ "config" \in DOMAIN vm <=> "config" \in DOMAIN input.cmdline
<1> USE DEF AfterCmdline, AfterSpecial, AfterDir, AfterFile, AfterPort
<1>1. vm = Merged(<<>>) /\ cwd = TheDirectory
  BY DEF Inv, Accepted
<1>2. opts["config"] = IF "config" \in DOMAIN vm THEN vm["config"].value ELSE Initial["config"]
  BY NamesApart DEF Inv, Copied
<1>3. "config" \in DOMAIN vm <=> "config" \in DOMAIN input.cmdline
  BY <1>1, MergedValue DEF Valued
<1>4. "config" \in DOMAIN vm => vm["config"].value = input.cmdline["config"]
  BY <1>1, <1>3, MergedValue DEF Lookup
<1>5. opts["config"] = Lookup("config", input.cmdline, "serial_mux.cfg")
  BY <1>2, <1>3, <1>4, InitialValues DEF Lookup
<1> QED BY <1>1, <1>3, <1>5 DEF TheFile

LEMMA NoFileKeeps ==
    ASSUME Inv, NoConfigFile PROVE Inv'
<1> USE DEF AfterCmdline, AfterSpecial, AfterDir, AfterFile, AfterPort
<1>0. /\ pc = "config" /\ input' = input /\ vm' = vm /\ opts' = opts /\ cwd' = cwd
      /\ str' = str /\ idx' = idx /\ nn' = nn /\ wasDigit' = wasDigit
      /\ input.files[<<cwd, opts["config"]>>] = Missing
      /\ pc' = IF "config" \in DOMAIN vm THEN "error" ELSE "values"
  BY DEF NoConfigFile, hexVars
<1>1. /\ vm = Merged(<<>>) /\ input \in Input /\ AtStart
      /\ ~Refused(input.cmdline, CmdlineOptions)
      /\ DOMAIN input.cmdline \cap {"help", "version"} = {}
      /\ cwd = TheDirectory /\ TheDirectory \in Directories
  BY <1>0 DEF Inv, Accepted, Converted
<1>2. TheFile = Missing /\ FileOptions = <<>>
  BY <1>0, FileFound DEF FileOptions
<1>3. "config" \in DOMAIN vm <=> "config" \in DOMAIN input.cmdline
  BY <1>0, FileFound
<1>4. ~Refused(FileOptions, ConfOptions)
  BY <1>2 DEF Refused
<1>5. ~Refused(FileOptions, ConfOptions)' /\ ~Refused(input.cmdline, CmdlineOptions)'
  BY <1>0, <1>1, <1>4, InputStays DEF Refused
<1>6. Accepted'
  BY <1>0, <1>1, <1>2, <1>3, <1>5, InputStays DEF Accepted
<1>7. Copied'
  BY <1>0 DEF Inv, Copied
<1>8. Converted'
  BY <1>0, <1>1 DEF Converted, AtStart
<1>9. Ends'
  <2>1. pc' = "error" => Outcome = "error"
    BY <1>0, <1>1, <1>2, <1>3 DEF Outcome, BadFile
  <2> QED BY <1>0, <2>1, InputStays DEF Ends
<1> QED BY <1>6, <1>7, <1>8, <1>9 DEF Inv

LEMMA FileKeeps ==
    ASSUME Inv, ReadConfigFile PROVE Inv'
<1> USE DEF AfterCmdline, AfterSpecial, AfterDir, AfterFile, AfterPort
<1>0. /\ pc = "config" /\ input' = input /\ cwd' = cwd
      /\ str' = str /\ idx' = idx /\ nn' = nn /\ wasDigit' = wasDigit
      /\ TheFile # Missing /\ FileOptions = TheFile
      /\ Take(FileOptions, ConfOptions, "values")
  BY FileFound DEF ReadConfigFile, hexVars, FileOptions
<1>1. /\ vm = Merged(<<>>) /\ input \in Input /\ AtStart
      /\ ~Refused(input.cmdline, CmdlineOptions)
      /\ DOMAIN input.cmdline \cap {"help", "version"} = {}
      /\ cwd = TheDirectory /\ TheDirectory \in Directories
      /\ DOMAIN opts = OptNames
  BY <1>0 DEF Inv, Accepted, Converted, Copied
<1>2. ~Refused(input.cmdline, CmdlineOptions)'
  BY <1>0, <1>1 DEF Refused
<1>3. CASE Refused(FileOptions, ConfOptions) /\ pc' = "error" /\ UNCHANGED <<vm, opts>>
  <2>1. Accepted'
    BY <1>0, <1>1, <1>3 DEF Accepted
  <2>2. Copied'
    BY <1>1, <1>3 DEF Copied
  <2>3. Converted'
    BY <1>3 DEF Converted
  <2>4. Outcome = "error"
    BY <1>1, <1>3 DEF Outcome, BadFile
  <2>5. Ends'
    BY <1>0, <1>3, <2>4, InputStays DEF Ends
  <2> QED BY <2>1, <2>2, <2>3, <2>5 DEF Inv
<1>4. CASE /\ ~Refused(FileOptions, ConfOptions)
           /\ vm' = Store(FileOptions) /\ opts' = Notify(Store(FileOptions))
           /\ pc' = "values"
  <2>1. vm' = Merged(FileOptions) /\ opts' = Notify(vm')
    BY <1>1, <1>4, StoredSecond
  <2>2. vm' = Merged(FileOptions)'
    BY <1>0, <2>1, InputStays DEF Merged
  <2>3. ~Refused(FileOptions, ConfOptions)'
    BY <1>0, <1>4, InputStays DEF Refused
  <2>4. Accepted'
    BY <1>0, <1>1, <1>2, <1>4, <2>2, <2>3, InputStays DEF Accepted
  <2>5. /\ DOMAIN opts' = OptNames
        /\ \A o \in Stored : opts'[o] = IF o \in DOMAIN vm' THEN vm'[o].value ELSE opts[o]
        /\ \A o \in OptNames \ Stored : opts'[o] = opts[o]
    BY <1>1, <2>1, Notified
  <2>6. \A o \in Stored : opts'[o] = IF o \in DOMAIN vm' THEN vm'[o].value ELSE Initial[o]
    <3>1. DOMAIN vm \subseteq DOMAIN vm'
      BY <1>1, <2>1 DEF Merged
    <3>2. \A o \in Stored : opts[o] = IF o \in DOMAIN vm THEN vm[o].value ELSE Initial[o]
      BY <1>0 DEF Inv, Copied
    <3> QED BY <2>5, <3>1, <3>2
  <2>7. /\ \A o \in Flags \cup {"log-level"} : opts'[o] = Initial[o]
        /\ opts'["useSerial"] = TRUE /\ opts'["authToken"] = DefaultToken
    BY <1>0, <2>5, NamesApart DEF Inv, Copied
  <2>8. Copied'
    BY <1>4, <2>5, <2>6, <2>7 DEF Copied
  <2>9. Converted'
    BY <1>0, <1>1, <1>4 DEF Converted, AtStart
  <2>10. Ends'
    BY <1>4 DEF Ends
  <2> QED BY <2>4, <2>8, <2>9, <2>10 DEF Inv
<1> QED BY <1>0, <1>3, <1>4 DEF Take

\* What was not refused is a number, or characters.
LEMMA SourcesTyped ==
    ASSUME Accepted, pc \in AfterFile
    PROVE  /\ ValueOf("port", 0) \in Int /\ TheToken \in Seq(Character)
           /\ "authToken" \notin DOMAIN input.cmdline
           /\ "config" \notin DOMAIN FileOptions /\ "baud" \notin DOMAIN input.cmdline
<1> USE DEF AfterCmdline, AfterSpecial, AfterDir, AfterFile, AfterPort
<1>1. /\ input \in Input /\ TheDirectory \in Directories
      /\ ~Refused(input.cmdline, CmdlineOptions) /\ ~Refused(FileOptions, ConfOptions)
  BY DEF Accepted
<1>2. IsParsed(input.cmdline)
  BY <1>1, InputAssumption
<1>3. PICK place \in DOMAIN input.files : place[1] = TheDirectory
  BY <1>1 DEF Directories
<1>4. <<TheDirectory, Lookup("config", input.cmdline, "serial_mux.cfg")>> \in DOMAIN input.files
  BY <1>1, <1>3, InputAssumption
<1>5. TheFile = Missing \/ IsParsed(TheFile)
  BY <1>1, <1>4, InputAssumption DEF TheFile
<1>6. IsParsed(FileOptions)
  <2>1. CASE TheFile = Missing
    <3>1. FileOptions = <<>> /\ DOMAIN <<>> = {}
      BY <2>1 DEF FileOptions
    <3> QED BY <3>1 DEF IsParsed, Lookup
  <2>2. CASE TheFile # Missing
    BY <1>5, <2>2 DEF FileOptions
  <2> QED BY <2>1, <2>2
<1>7. /\ \A o \in DOMAIN input.cmdline : o \in CmdlineOptions /\ input.cmdline[o] # Malformed
      /\ \A o \in DOMAIN FileOptions : o \in ConfOptions /\ FileOptions[o] # Malformed
  BY <1>1 DEF Refused
<1>8. ValueOf("port", 0) \in Int
  BY <1>2, <1>6, <1>7 DEF ValueOf, Lookup, IsParsed
<1>9. TheToken \in Seq(Character)
  <2>1. <<>> \in Seq(Character)
    OBVIOUS
  <2> QED BY <1>2, <1>6, <1>7, <2>1 DEF TheToken, ValueOf, Lookup, IsParsed
<1>10. /\ "authToken" \notin CmdlineOptions /\ "baud" \notin CmdlineOptions
       /\ "config" \notin ConfOptions
  BY DEF CmdlineOptions, ConfOptions, General, Valued, Flags
<1> QED BY <1>7, <1>8, <1>9, <1>10

\* A number of 16 bits, and the ports of an emulator.
LEMMA SixteenBits ==
    ASSUME NEW i \in Int PROVE IsEmulator(ToUint16(i)) <=> ToUint16(i) \notin SerialPorts
BY SMT DEF IsEmulator, ToUint16, SerialPorts

LEMMA PortKeeps ==
    ASSUME Inv, ParsePort PROVE Inv'
<1> USE DEF AfterCmdline, AfterSpecial, AfterDir, AfterFile, AfterPort
<1> DEFINE port == ToUint16(opts["port"])
           hasToken == "authToken" \in DOMAIN vm
<1>0. /\ pc = "values" /\ input' = input /\ vm' = vm /\ cwd' = cwd
      /\ idx' = idx /\ nn' = nn /\ wasDigit' = wasDigit
      /\ str' = (IF hasToken THEN vm["authToken"].value ELSE <<>>)
      /\ pc' = (IF hasToken THEN "skip" ELSE "flags")
  BY DEF ParsePort
<1>c. opts' = [opts EXCEPT
                 !["emulatorPort"] = port,
                 !["useSerial"] = IF IsEmulator(port) THEN FALSE ELSE @,
                 !["authToken"] = IF hasToken THEN [i \in DOMAIN @ |-> 0] ELSE @]
  BY DEF ParsePort
<1>1. /\ vm = Merged(FileOptions) /\ input \in Input /\ AtStart /\ DOMAIN opts = OptNames
      /\ opts["useSerial"] = TRUE /\ opts["authToken"] = DefaultToken
      /\ ValueOf("port", 0) \in Int /\ TheToken \in Seq(Character)
  BY <1>0, SourcesTyped DEF Inv, Accepted, Converted, Copied
<1>2. opts["port"] = ValueOf("port", 0)
  <2>1. opts["port"] = IF "port" \in DOMAIN vm THEN vm["port"].value ELSE Initial["port"]
    BY <1>0, NamesApart DEF Inv, Copied
  <2>2. "port" \in DOMAIN vm /\ vm["port"].value = ValueOf("port", Default("port"))
    BY <1>1, MergedValue DEF Valued, ValueOf
  <2> QED BY <2>1, <2>2 DEF Default
<1>3. hasToken <=> Given("authToken")
  BY <1>1, MergedValue DEF Given, Valued
<1>4. hasToken => vm["authToken"].value = TheToken
  <2> SUFFICES ASSUME hasToken PROVE vm["authToken"].value = TheToken
    OBVIOUS
  <2>1. vm["authToken"].value = Lookup("authToken", input.cmdline, Lookup("authToken", FileOptions, Default("authToken")))
    BY <1>1, MergedValue
  <2>2. "authToken" \in DOMAIN input.cmdline \cup DOMAIN FileOptions
    BY <1>3 DEF Given
  <2> QED BY <2>1, <2>2 DEF TheToken, ValueOf, Lookup
<1> HIDE DEF hasToken
<1>5. Accepted'
  <2>1. ~Refused(FileOptions, ConfOptions)' /\ ~Refused(input.cmdline, CmdlineOptions)'
    BY <1>0, InputStays DEF Refused, Inv, Accepted
  <2>2. Merged(FileOptions)' = Merged(FileOptions)
    BY <1>0, InputStays DEF Merged
  <2>3. /\ DOMAIN input.cmdline \cap {"help", "version"} = {}
        /\ cwd = TheDirectory /\ TheDirectory \in Directories
        /\ ~(TheFile = Missing /\ "config" \in DOMAIN input.cmdline)
    BY <1>0 DEF Inv, Accepted
  <2> QED BY <1>0, <1>1, <2>1, <2>2, <2>3, InputStays DEF Accepted
<1>6. /\ DOMAIN opts' = OptNames
      /\ \A o \in Stored \cup Flags \cup {"log-level"} : opts'[o] = opts[o]
  <2>1. DOMAIN opts' = OptNames
    BY <1>c, <1>1
  <2>2. ASSUME NEW o \in OptNames, o \notin {"emulatorPort", "useSerial", "authToken"}
        PROVE  opts'[o] = opts[o]
    BY <1>c, <1>1, <2>2
  <2>3. \A o \in Stored \cup Flags \cup {"log-level"} :
            o \in OptNames /\ o \notin {"emulatorPort", "useSerial", "authToken"}
    BY NamesApart
  <2> QED BY <2>1, <2>2, <2>3
<1>7. opts'["useSerial"] = (ToUint16(ValueOf("port", 0)) \in SerialPorts)
  <2>1. port = ToUint16(ValueOf("port", 0))
    BY <1>2
  <2> HIDE DEF port
  <2>2. opts'["useSerial"] = IF IsEmulator(port) THEN FALSE ELSE opts["useSerial"]
    BY <1>c, <1>1, NamesApart
  <2>3. CASE IsEmulator(port)
    <3>1. opts'["useSerial"] = FALSE
      BY <2>2, <2>3
    <3>2. ToUint16(ValueOf("port", 0)) \notin SerialPorts
      BY <1>1, <2>1, <2>3, SixteenBits
    <3>3. (ToUint16(ValueOf("port", 0)) \in SerialPorts) = FALSE
      BY <3>2
    <3> QED BY <3>1, <3>3, Zenon
  <2>4. CASE ~IsEmulator(port)
    <3>1. opts'["useSerial"] = TRUE
      BY <1>1, <2>2, <2>4
    <3>2. ToUint16(ValueOf("port", 0)) \in SerialPorts
      BY <1>1, <2>1, <2>4, SixteenBits
    <3> QED BY <3>1, <3>2, Zenon
  <2> QED BY <2>3, <2>4
<1>8. opts'["authToken"] = IF hasToken THEN Zeros ELSE DefaultToken
  <2>1. opts'["authToken"] = IF hasToken THEN [i \in DOMAIN opts["authToken"] |-> 0] ELSE opts["authToken"]
    BY <1>c, <1>1, NamesApart
  <2> QED BY <1>1, <2>1 DEF DefaultToken, Zeros
<1>9. Copied'
  <2>1. /\ \A o \in Stored : opts[o] = IF o \in DOMAIN vm THEN vm[o].value ELSE Initial[o]
        /\ \A o \in Flags \cup {"log-level"} : opts[o] = Initial[o]
    BY <1>0 DEF Inv, Copied
  <2>2. /\ \A o \in Stored : opts'[o] = IF o \in DOMAIN vm' THEN vm'[o].value ELSE Initial[o]
        /\ \A o \in Flags \cup {"log-level"} : opts'[o] = Initial[o]
    BY <1>0, <1>6, <2>1
  <2>3. opts'["useSerial"] = (ToUint16(ValueOf("port", 0)') \in SerialPorts)
    BY <1>0, <1>7, InputStays
  <2>4. pc' \in {"skip", "flags"}
    BY <1>0
  <2> QED BY <1>6, <2>2, <2>3, <2>4 DEF Copied
<1>10. Converted'
  <2>1. CASE hasToken
    <3>1. str' = TheToken /\ pc' = "skip" /\ opts'["authToken"] = Zeros
      BY <1>0, <1>4, <1>8, <2>1
    <3>2. HasRead(0)'
      BY <1>0, <1>1, <3>1, InputStays DEF HasRead
    <3>3. Skipping'
      BY <1>0, <1>1, <3>1, <3>2 DEF Skipping, AtStart
    <3>4. Given("authToken")' /\ TheToken' \in Seq(Character)
      BY <1>0, <1>1, <1>3, <2>1, InputStays
    <3> QED BY <3>1, <3>3, <3>4 DEF Converted
  <2>2. CASE ~hasToken
    BY <1>0, <1>3, <1>8, <2>2, InputStays DEF Converted
  <2> QED BY <2>1, <2>2
<1>11. Ends'
  BY <1>0 DEF Ends
<1> QED BY <1>5, <1>9, <1>10, <1>11 DEF Inv

-----------------------------------------------------------------------------
(* hexToBin *)

\* hexToBin touches the token only.
LEMMA TokenOnly ==
    ASSUME Accepted, Copied, pc \in {"skip", "hex"}, pc' \in {"skip", "hex", "flags", "error"},
           input' = input, vm' = vm, cwd' = cwd, DOMAIN opts' = DOMAIN opts,
           \A o \in OptNames \ {"authToken"} : opts'[o] = opts[o]
    PROVE  Accepted' /\ Copied'
<1> USE DEF AfterCmdline, AfterSpecial, AfterDir, AfterFile, AfterPort
<1>1. Accepted'
  <2>1. /\ ~Refused(FileOptions, ConfOptions) /\ ~Refused(input.cmdline, CmdlineOptions)
        /\ vm = Merged(FileOptions) /\ input \in Input
        /\ DOMAIN input.cmdline \cap {"help", "version"} = {}
        /\ cwd = TheDirectory /\ TheDirectory \in Directories
        /\ ~(TheFile = Missing /\ "config" \in DOMAIN input.cmdline)
    BY DEF Accepted
  <2>2. ~Refused(FileOptions, ConfOptions)' /\ ~Refused(input.cmdline, CmdlineOptions)'
    BY <2>1, InputStays DEF Refused
  <2>3. Merged(FileOptions)' = Merged(FileOptions)
    BY InputStays DEF Merged
  <2> QED BY <2>1, <2>2, <2>3, InputStays DEF Accepted
<1>2. Copied'
  <2>1. /\ DOMAIN opts = OptNames
        /\ \A o \in Stored : opts[o] = IF o \in DOMAIN vm THEN vm[o].value ELSE Initial[o]
        /\ \A o \in Flags \cup {"log-level"} : opts[o] = Initial[o]
        /\ opts["useSerial"] = (ToUint16(ValueOf("port", 0)) \in SerialPorts)
    BY DEF Copied
  <2>2. /\ \A o \in Stored \cup Flags \cup {"log-level"} : opts'[o] = opts[o]
        /\ opts'["useSerial"] = opts["useSerial"]
    BY NamesApart
  <2>3. /\ \A o \in Stored : opts'[o] = IF o \in DOMAIN vm' THEN vm'[o].value ELSE Initial[o]
        /\ \A o \in Flags \cup {"log-level"} : opts'[o] = Initial[o]
    BY <2>1, <2>2
  <2>4. opts'["useSerial"] = (ToUint16(ValueOf("port", 0)') \in SerialPorts)
    BY <2>1, <2>2, InputStays
  <2> QED BY <2>1, <2>3, <2>4 DEF Copied
<1> QED BY <1>1, <1>2

\* The character hexToBin looks at, when it has read q characters of the word.
LEMMA NextCharacter ==
    ASSUME TheToken \in Seq(Character), NEW w, NEW first \in Nat, NEW after \in Nat, NEW q \in Nat,
           WordIs(TheToken, w, first, after), q <= Len(w), HasRead(first - 1 + q)
    PROVE  /\ w \in Seq(Character) /\ Len(w) \in Nat
           /\ q < Len(w) => /\ Char = w[q + 1] /\ w[q + 1] \in Character \ {Space}
                            /\ input' = input /\ str' = Tail(str) => HasRead(first - 1 + (q + 1))'
           /\ q = Len(w) => Char \in {End, Space}
<1>1. w \in Seq(Character \ {Space}) /\ w \in Seq(Character) /\ Len(w) \in Nat
  <2>1. w \in Seq(Character \ {Space})
    BY DEF WordIs
  <2>2. \A j \in 1 .. Len(w) : w[j] \in Character
    BY <2>1
  <2> QED BY <2>1, <2>2
<1>2. /\ first \in 1 .. Len(TheToken) + 1 /\ after \in first .. Len(TheToken) + 1
      /\ Len(w) = after - first /\ \A j \in 1 .. Len(w) : w[j] = TheToken[first - 1 + j]
      /\ after = Len(TheToken) + 1 \/ TheToken[after] = Space
  BY DEF WordIs
<1>3. /\ str \in Seq(Character) /\ Len(str) = Len(TheToken) - (first - 1 + q)
      /\ \A j \in 1 .. Len(str) : str[j] = TheToken[(first - 1 + q) + j]
      /\ Len(TheToken) \in Nat
  BY DEF HasRead
<1>4. CASE q < Len(w)
  <2>1. Len(str) >= 1 /\ str # <<>>
    BY <1>2, <1>3, <1>4
  <2>2. str[1] = w[q + 1]
    <3>1. str[1] = TheToken[(first - 1 + q) + 1]
      BY <1>3, <2>1
    <3>2. w[q + 1] = TheToken[first - 1 + (q + 1)]
      BY <1>1, <1>2, <1>4
    <3>3. (first - 1 + q) + 1 = first - 1 + (q + 1)
      OBVIOUS
    <3> QED BY <3>1, <3>2, <3>3
  <2>3. Char = w[q + 1] /\ w[q + 1] \in Character \ {Space}
    BY <1>1, <1>3, <1>4, <2>1, <2>2 DEF Char
  <2>4. ASSUME input' = input, str' = Tail(str) PROVE HasRead(first - 1 + (q + 1))'
    <3>1. TheToken' = TheToken
      BY <2>4, InputStays
    <3>2. first - 1 + (q + 1) \in 0 .. Len(TheToken)
      BY <1>2, <1>3, <1>4
    <3>3. str' \in Seq(Character) /\ Len(str') = Len(str) - 1
          /\ \A j \in 1 .. Len(str') : str'[j] = str[j + 1]
      BY <1>3, <2>1, <2>4
    <3>4. Len(str') = Len(TheToken) - (first - 1 + (q + 1))
      BY <1>3, <3>3
    <3>5. ASSUME NEW j \in 1 .. Len(str') PROVE str'[j] = TheToken[(first - 1 + (q + 1)) + j]
      <4>1. j + 1 \in 1 .. Len(str) /\ (first - 1 + q) + (j + 1) = (first - 1 + (q + 1)) + j
        BY <1>3, <3>3
      <4>2. str[j + 1] = TheToken[(first - 1 + q) + (j + 1)]
        BY <1>3, <4>1
      <4> QED BY <3>3, <4>1, <4>2
    <3> QED BY <3>1, <3>2, <3>3, <3>4, <3>5 DEF HasRead
  <2> QED BY <1>1, <1>4, <2>3, <2>4
<1>5. CASE q = Len(w)
  <2>1. first - 1 + q = after - 1
    BY <1>2, <1>5
  <2>2. CASE str = <<>>
    BY <1>1, <1>5, <2>2 DEF Char
  <2>3. CASE str # <<>>
    <3>1. Len(str) >= 1 /\ Char = str[1]
      BY <1>3, <2>3 DEF Char
    <3>2. str[1] = TheToken[(first - 1 + q) + 1] /\ (first - 1 + q) + 1 = after
      BY <1>2, <1>3, <2>1, <3>1
    <3>3. after # Len(TheToken) + 1
      BY <1>2, <1>3, <2>1, <3>1
    <3>4. Char = Space
      BY <1>2, <3>1, <3>2, <3>3
    <3> QED BY <1>1, <1>5, <3>4
  <2> QED BY <2>2, <2>3
<1> QED BY <1>1, <1>4, <1>5

LEMMA SkipKeeps ==
    ASSUME Inv, HexSkip PROVE Inv'
<1>0. /\ pc = "skip" /\ input' = input /\ vm' = vm /\ cwd' = cwd /\ opts' = opts
      /\ idx' = idx /\ nn' = nn /\ wasDigit' = wasDigit
      /\ \/ Char = Space /\ str' = Tail(str) /\ pc' = "skip"
         \/ Char # Space /\ str' = str /\ pc' = "hex"
  BY DEF HexSkip
<1>1. /\ Given("authToken") /\ TheToken \in Seq(Character) /\ Len(TheToken) \in Nat
      /\ AtStart /\ opts["authToken"] = Zeros
  BY <1>0 DEF Inv, Converted, Skipping
<1>2. PICK p \in Nat : HasRead(p) /\ \A j \in 1 .. p : TheToken[j] = Space
  BY <1>0 DEF Inv, Converted, Skipping
<1>3. /\ p \in 0 .. Len(TheToken) /\ str \in Seq(Character) /\ Len(str) = Len(TheToken) - p
      /\ \A j \in 1 .. Len(str) : str[j] = TheToken[p + j]
  BY <1>2 DEF HasRead
<1>4. Given("authToken")' /\ TheToken' = TheToken
  BY <1>0, <1>1, InputStays
<1>5. Accepted' /\ Copied'
  BY <1>0, TokenOnly DEF Inv
<1>6. Converted'
  <2>1. CASE Char = Space /\ str' = Tail(str) /\ pc' = "skip"
    <3>1. str # <<>> /\ Len(str) >= 1 /\ str[1] = Space
      BY <1>3, <2>1 DEF Char, Space, End
    <3>2. TheToken[p + 1] = Space /\ p + 1 \in 0 .. Len(TheToken)
      BY <1>1, <1>3, <3>1
    <3>3. /\ str' \in Seq(Character) /\ Len(str') = Len(TheToken) - (p + 1)
          /\ \A j \in 1 .. Len(str') : str'[j] = str[j + 1]
      BY <1>1, <1>3, <2>1, <3>1
    <3>4. \A j \in 1 .. Len(str') : str'[j] = TheToken[(p + 1) + j]
      <4> SUFFICES ASSUME NEW j \in 1 .. Len(str') PROVE str'[j] = TheToken[(p + 1) + j]
        OBVIOUS
      <4>1. j + 1 \in 1 .. Len(str) /\ p + (j + 1) = (p + 1) + j
        BY <1>1, <1>3, <3>3
      <4> QED BY <1>3, <3>3, <4>1
    <3>5. HasRead(p + 1)'
      BY <1>4, <3>2, <3>3, <3>4 DEF HasRead
    <3>6. \A j \in 1 .. p + 1 : TheToken'[j] = Space
      BY <1>2, <1>4, <3>2
    <3>7. Skipping'
      BY <1>0, <1>1, <3>5, <3>6 DEF Skipping, AtStart
    <3> QED BY <1>1, <1>4, <2>1, <3>7 DEF Converted, AfterCmdline, AfterPort
  <2>2. CASE Char # Space /\ str' = str /\ pc' = "hex"
    <3> DEFINE w == Word(TheToken)
    <3>1. PICK first, after \in Nat : WordIs(TheToken, w, first, after)
      BY <1>1, WordFound
    <3>2. p = Len(TheToken) \/ TheToken[p + 1] # Space
      <4>1. CASE str = <<>>
        BY <1>1, <1>3, <4>1
      <4>2. CASE str # <<>>
        BY <1>3, <2>2, <4>2 DEF Char
      <4> QED BY <4>1, <4>2
    <3>3. /\ first \in 1 .. Len(TheToken) + 1
          /\ \A j \in 1 .. first - 1 : TheToken[j] = Space
          /\ first = Len(TheToken) + 1 \/ TheToken[first] # Space
      BY <3>1 DEF WordIs
    <3>4. first = p + 1
      <4>1. ~(first < p + 1)
        BY <1>1, <1>2, <1>3, <3>3
      <4>2. ~(first > p + 1)
        BY <1>1, <1>3, <3>2, <3>3
      <4> QED BY <4>1, <4>2
    <3>5. w \in Seq(Character)
      <4>1. w \in Seq(Character \ {Space})
        BY <3>1 DEF WordIs
      <4> QED BY <4>1
    <3>6. Spelled(w, 0, opts["authToken"], idx, nn, wasDigit)
      BY <1>1, <3>5, NothingSpelled DEF AtStart, Zeros
    <3>7. HasRead(first - 1 + 0)'
      BY <1>1, <1>2, <1>3, <1>4, <2>2, <3>4 DEF HasRead
    <3>8. Spelling'
      BY <1>0, <1>4, <3>1, <3>6, <3>7 DEF Spelling
    <3>9. wasDigit' \in BOOLEAN
      BY <1>0, <1>1 DEF AtStart
    <3> QED BY <1>1, <1>4, <2>2, <3>8, <3>9 DEF Converted, AfterCmdline, AfterPort
  <2> QED BY <1>0, <2>1, <2>2
<1>7. Ends'
  BY <1>0 DEF Ends
<1> QED BY <1>5, <1>6, <1>7 DEF Inv

\* The facts every character of the word starts from.
LEMMA InTheWord ==
    ASSUME Inv, pc = "hex"
    PROVE  /\ Given("authToken") /\ TheToken \in Seq(Character) /\ wasDigit \in BOOLEAN
           /\ \E first, after, q \in Nat :
                /\ WordIs(TheToken, Word(TheToken), first, after)
                /\ Spelled(Word(TheToken), q, opts["authToken"], idx, nn, wasDigit)
                /\ HasRead(first - 1 + q)
                /\ q <= Len(Word(TheToken))
<1>1. Given("authToken") /\ TheToken \in Seq(Character) /\ wasDigit \in BOOLEAN /\ Spelling
  BY DEF Inv, Converted
<1>2. PICK first, after, q \in Nat :
         /\ WordIs(TheToken, Word(TheToken), first, after)
         /\ Spelled(Word(TheToken), q, opts["authToken"], idx, nn, wasDigit)
         /\ HasRead(first - 1 + q)
  BY <1>1 DEF Spelling
<1>3. q \in 0 .. Len(Word(TheToken)) /\ Len(Word(TheToken)) \in Nat
  BY <1>2 DEF Spelled, WordIs
<1>4. q <= Len(Word(TheToken))
  BY <1>3
<1> QED BY <1>1, <1>2, <1>4

LEMMA DigitKeeps ==
    ASSUME Inv, HexDigit PROVE Inv'
<1>0. /\ pc = "hex" /\ IsDigit /\ Idx < AUTHENTICATION_LEN
      /\ input' = input /\ vm' = vm /\ cwd' = cwd /\ pc' = pc
      /\ idx' = Idx /\ nn' = (IF ByteEnds THEN 1 ELSE nn + 1) /\ wasDigit' = TRUE /\ str' = Tail(str)
  BY DEF HexDigit
<1>c. opts' = [opts EXCEPT !["authToken"][Idx] = (@ * 16 + Char) % 256]
  BY DEF HexDigit
<1> DEFINE w == Word(TheToken)
           t == opts["authToken"]
<1>1. PICK first, after, q \in Nat :
         /\ WordIs(TheToken, w, first, after) /\ Spelled(w, q, t, idx, nn, wasDigit)
         /\ HasRead(first - 1 + q) /\ q <= Len(w)
  BY <1>0, InTheWord
<1>2. Given("authToken") /\ TheToken \in Seq(Character)
  BY <1>0, InTheWord
<1> HIDE DEF w
<1>3. /\ w \in Seq(Character) /\ Len(w) \in Nat
      /\ q < Len(w) => Char = w[q + 1] /\ HasRead(first - 1 + (q + 1))'
      /\ q = Len(w) => Char \in {End, Space}
  BY <1>0, <1>1, <1>2, NextCharacter
<1>4. q < Len(w) /\ w[q + 1] \in Digit /\ Char = w[q + 1]
  BY <1>0, <1>1, <1>3, KindsOfCharacter DEF IsDigit
<1>5. Idx = (IF nn = 2 THEN idx + 1 ELSE idx) /\ nn' = (IF nn = 2 THEN 1 ELSE nn + 1)
  BY <1>0 DEF Idx, ByteEnds
<1>6. /\ DOMAIN opts' = DOMAIN opts /\ \A o \in OptNames \ {"authToken"} : opts'[o] = opts[o]
      /\ opts'["authToken"] = [t EXCEPT ![Idx] = Shifted(@, w[q + 1])]
  <2>1. DOMAIN opts = OptNames /\ "authToken" \in OptNames
    BY NamesApart DEF Inv, Copied
  <2>2. opts' = [opts EXCEPT !["authToken"] = [t EXCEPT ![Idx] = Shifted(@, w[q + 1])]]
    BY <1>c, <1>4 DEF Shifted
  <2> QED BY <2>1, <2>2
<1>7. Spelled(w, q + 1, opts'["authToken"], idx', nn', TRUE)
  <2> DEFINE t2 == opts'["authToken"]
             m  == IF nn = 2 THEN 1 ELSE nn + 1
  <2>1. Spelled(w, q, t, idx, nn, wasDigit) /\ q < Len(w) /\ w[q + 1] \in Digit /\ w \in Seq(Character)
    BY <1>1, <1>3, <1>4
  <2>2. Idx = (IF nn = 2 THEN idx + 1 ELSE idx) /\ Idx < AUTHENTICATION_LEN
    BY <1>0, <1>5
  <2>3. t2 = [t EXCEPT ![Idx] = Shifted(@, w[q + 1])]
    BY <1>6
  <2> HIDE DEF t, t2
  <2>4. Spelled(w, q + 1, t2, Idx, m, TRUE)
    BY <2>1, <2>2, <2>3, DigitSpelled
  <2> QED BY <1>0, <1>5, <2>4 DEF t2
<1>8. Accepted' /\ Copied'
  BY <1>0, <1>6, TokenOnly DEF Inv
<1>9. TheToken' = TheToken /\ Given("authToken")'
  BY <1>0, <1>2, InputStays
<1>10. Spelling'
  <2>1. q + 1 \in Nat
    OBVIOUS
  <2>2. WordIs(TheToken', Word(TheToken'), first, after)
    BY <1>1, <1>9 DEF w
  <2>3. Spelled(Word(TheToken'), q + 1, opts'["authToken"], idx', nn', wasDigit')
    BY <1>0, <1>7, <1>9 DEF w
  <2>4. HasRead(first - 1 + (q + 1))'
    BY <1>3, <1>4
  <2> QED BY <2>1, <2>2, <2>3, <2>4 DEF Spelling
<1>11. Converted'
  BY <1>0, <1>2, <1>9, <1>10 DEF Converted, AfterCmdline, AfterPort
<1>12. Ends'
  BY <1>0 DEF Ends
<1> QED BY <1>8, <1>11, <1>12 DEF Inv

LEMMA SeparatorKeeps ==
    ASSUME Inv, HexSeparator PROVE Inv'
<1>0. /\ pc = "hex" /\ HexOk /\ Char = Sep
      /\ input' = input /\ vm' = vm /\ cwd' = cwd /\ pc' = pc /\ opts' = opts
      /\ idx' = Idx /\ nn' = 0 /\ wasDigit' = FALSE /\ str' = Tail(str)
  BY DEF HexSeparator
<1> DEFINE w == Word(TheToken)
           t == opts["authToken"]
<1>1. PICK first, after, q \in Nat :
         /\ WordIs(TheToken, w, first, after) /\ Spelled(w, q, t, idx, nn, wasDigit)
         /\ HasRead(first - 1 + q) /\ q <= Len(w)
  BY <1>0, InTheWord
<1>2. Given("authToken") /\ TheToken \in Seq(Character) /\ wasDigit \in BOOLEAN
  BY <1>0, InTheWord
<1> HIDE DEF w
<1>3. /\ w \in Seq(Character) /\ Len(w) \in Nat
      /\ q < Len(w) => Char = w[q + 1] /\ HasRead(first - 1 + (q + 1))'
      /\ q = Len(w) => Char \in {End, Space}
  BY <1>0, <1>1, <1>2, NextCharacter
<1>4. q < Len(w) /\ w[q + 1] = Sep
  BY <1>0, <1>1, <1>3, KindsOfCharacter
<1>5. wasDigit = TRUE /\ Idx = idx + 1
  BY <1>0, <1>2, KindsOfCharacter DEF HexOk, IsDigit, Idx, ByteEnds
<1>6. Spelled(w, q + 1, t, idx + 1, 0, FALSE)
  BY <1>1, <1>3, <1>4, <1>5, SeparatorSpelled
<1>7. Accepted' /\ Copied'
  BY <1>0, TokenOnly DEF Inv
<1>8. TheToken' = TheToken /\ Given("authToken")'
  BY <1>0, <1>2, InputStays
<1>9. Spelling'
  <2>1. q + 1 \in Nat
    OBVIOUS
  <2>2. WordIs(TheToken', Word(TheToken'), first, after)
    BY <1>1, <1>8 DEF w
  <2>3. Spelled(Word(TheToken'), q + 1, opts'["authToken"], idx', nn', wasDigit')
    BY <1>0, <1>5, <1>6, <1>8 DEF w
  <2>4. HasRead(first - 1 + (q + 1))'
    BY <1>3, <1>4
  <2> QED BY <2>1, <2>2, <2>3, <2>4 DEF Spelling
<1>10. Converted'
  BY <1>0, <1>2, <1>8, <1>9 DEF Converted, AfterCmdline, AfterPort
<1>11. Ends'
  BY <1>0 DEF Ends
<1> QED BY <1>7, <1>10, <1>11 DEF Inv

\* At the end of the word the token is spelled.
LEMMA EndKeeps ==
    ASSUME Inv, HexEnd PROVE Inv'
<1>0. /\ pc = "hex" /\ HexOk /\ Char \in {End, Space}
      /\ input' = input /\ vm' = vm /\ cwd' = cwd /\ pc' = "flags" /\ opts' = opts
  BY DEF HexEnd
<1> DEFINE w == Word(TheToken)
           t == opts["authToken"]
<1>1. PICK first, after, q \in Nat :
         /\ WordIs(TheToken, w, first, after) /\ Spelled(w, q, t, idx, nn, wasDigit)
         /\ HasRead(first - 1 + q) /\ q <= Len(w)
  BY <1>0, InTheWord
<1>2. Given("authToken") /\ TheToken \in Seq(Character) /\ wasDigit \in BOOLEAN
  BY <1>0, InTheWord
<1> HIDE DEF w
<1>3. /\ w \in Seq(Character) /\ Len(w) \in Nat
      /\ q < Len(w) => Char = w[q + 1] /\ w[q + 1] \in Character \ {Space}
  BY <1>0, <1>1, <1>2, NextCharacter
<1>4. q = Len(w)
  BY <1>0, <1>1, <1>3, KindsOfCharacter
<1>5. wasDigit = TRUE
  BY <1>0, <1>2, KindsOfCharacter DEF HexOk, IsDigit
<1>6. IsToken(w) /\ t = TokenOf(w)
  BY <1>1, <1>3, <1>4, <1>5, WordSpelled
<1>7. Accepted' /\ Copied'
  BY <1>0, TokenOnly DEF Inv
<1>8. TheToken' = TheToken /\ Given("authToken")'
  BY <1>0, <1>2, InputStays
<1>9. IsToken(Word(TheToken')) /\ opts'["authToken"] = TokenOf(Word(TheToken'))
  BY <1>0, <1>6, <1>8 DEF w
<1>10. Converted'
  BY <1>0, <1>8, <1>9 DEF Converted, AfterCmdline, AfterPort
<1>11. Ends'
  BY <1>0 DEF Ends
<1> QED BY <1>7, <1>10, <1>11 DEF Inv

\* hexToBin fails only for a word that spells no token.
LEMMA FailsKeeps ==
    ASSUME Inv, HexFails PROVE Inv'
<1> USE DEF AfterCmdline, AfterSpecial, AfterDir, AfterFile, AfterPort
<1>0. /\ pc = "hex" /\ (~HexOk \/ (IsDigit /\ Idx >= AUTHENTICATION_LEN))
      /\ input' = input /\ vm' = vm /\ cwd' = cwd /\ pc' = "error" /\ opts' = opts
  BY DEF HexFails
<1> DEFINE w == Word(TheToken)
           t == opts["authToken"]
<1>1. PICK first, after, q \in Nat :
         /\ WordIs(TheToken, w, first, after) /\ Spelled(w, q, t, idx, nn, wasDigit)
         /\ HasRead(first - 1 + q) /\ q <= Len(w)
  BY <1>0, InTheWord
<1>2. Given("authToken") /\ TheToken \in Seq(Character) /\ wasDigit \in BOOLEAN
  BY <1>0, InTheWord
<1> HIDE DEF w
<1>3. /\ w \in Seq(Character) /\ Len(w) \in Nat
      /\ q < Len(w) => Char = w[q + 1] /\ w[q + 1] \in Character \ {Space}
      /\ q = Len(w) => Char \in {End, Space}
  BY <1>0, <1>1, <1>2, NextCharacter
<1>4. ~IsToken(w)
  <2>1. CASE ~HexOk
    <3>1. ~IsDigit /\ ~(wasDigit /\ Char \in {End, Space, Sep})
      BY <2>1 DEF HexOk
    <3>2. CASE q = Len(w)
      <4>1. q = Len(w) /\ ~wasDigit
        BY <1>2, <1>3, <3>1, <3>2
      <4> QED BY <1>1, <1>2, <1>3, <4>1, NotSpelled
    <3>3. CASE q < Len(w) /\ w[q + 1] = Sep
      <4>1. q < Len(w) /\ w[q + 1] = Sep /\ ~wasDigit
        BY <1>2, <1>3, <3>1, <3>3
      <4> QED BY <1>1, <1>2, <1>3, <4>1, NotSpelled
    <3>4. CASE q < Len(w) /\ w[q + 1] # Sep
      <4>1. q < Len(w) /\ w[q + 1] \notin Digit \cup {Sep}
        BY <1>3, <3>1, <3>4 DEF IsDigit
      <4> QED BY <1>1, <1>2, <1>3, <4>1, NotSpelled
    <3> QED BY <1>1, <1>3, <3>2, <3>3, <3>4
  <2>2. CASE IsDigit /\ Idx >= AUTHENTICATION_LEN
    <3>1. q < Len(w) /\ w[q + 1] \in Digit
      BY <1>1, <1>3, <2>2, KindsOfCharacter DEF IsDigit
    <3>2. (IF nn = 2 THEN idx + 1 ELSE idx) >= AUTHENTICATION_LEN
      BY <2>2 DEF Idx, ByteEnds
    <3> QED BY <1>1, <1>2, <1>3, <3>1, <3>2, NotSpelled
  <2> QED BY <1>0, <2>1, <2>2
<1>5. BadFile
  BY <1>2, <1>4 DEF BadFile, w, TheToken
<1>6. Outcome = "error"
  BY <1>0, <1>5 DEF Outcome, Inv, Accepted
<1>7. Accepted' /\ Copied'
  BY <1>0, TokenOnly DEF Inv
<1>8. Converted'
  BY <1>0 DEF Converted
<1>9. Ends'
  BY <1>0, <1>6, InputStays DEF Ends
<1> QED BY <1>7, <1>8, <1>9 DEF Inv

-----------------------------------------------------------------------------
(* The last stage, and the theorems *)

LEMMA FlagsKeep ==
    ASSUME Inv, ParseFlags PROVE Inv'
<1> USE DEF AfterCmdline, AfterSpecial, AfterDir, AfterFile, AfterPort
<1>0. /\ pc = "flags" /\ pc' = "done" /\ input' = input /\ vm' = vm /\ cwd' = cwd
  BY DEF ParseFlags
<1>1. /\ vm = Merged(FileOptions) /\ input \in Input /\ DOMAIN opts = OptNames
      /\ \A o \in Stored : opts[o] = IF o \in DOMAIN vm THEN vm[o].value ELSE Initial[o]
      /\ \A o \in Flags \cup {"log-level"} : opts[o] = Initial[o]
      /\ opts["useSerial"] = (ToUint16(ValueOf("port", 0)) \in SerialPorts)
  BY <1>0 DEF Inv, Accepted, Copied
<1>2. /\ DOMAIN opts' = OptNames
      /\ \A o \in Flags : opts'[o] = (opts[o] \/ o \in DOMAIN vm)
      /\ "log-level" \in DOMAIN vm => opts'["log-level"] = stringToEnum(vm["log-level"].value)
      /\ "log-level" \notin DOMAIN vm => opts'["log-level"] = opts["log-level"]
      /\ \A o \in OptNames : o \notin Flags /\ o # "log-level" => opts'[o] = opts[o]
  <2>1. opts' = [o \in OptNames |->
                  CASE o \in Flags -> opts[o] \/ o \in DOMAIN vm
                    [] o = "log-level" /\ o \in DOMAIN vm -> stringToEnum(vm[o].value)
                    [] OTHER -> opts[o]]
    BY <1>1 DEF ParseFlags
  <2>2. Flags \subseteq OptNames /\ "log-level" \in OptNames /\ "log-level" \notin Flags
    BY NamesApart
  <2>3. DOMAIN opts' = OptNames
    BY <2>1
  <2>4. ASSUME NEW o \in Flags PROVE opts'[o] = (opts[o] \/ o \in DOMAIN vm)
    <3>1. o \in OptNames /\ o # "log-level"
      BY <2>2
    <3> QED BY <2>1, <3>1
  <2>5. /\ "log-level" \in DOMAIN vm => opts'["log-level"] = stringToEnum(vm["log-level"].value)
        /\ "log-level" \notin DOMAIN vm => opts'["log-level"] = opts["log-level"]
    BY <2>1, <2>2
  <2>6. ASSUME NEW o \in OptNames, o \notin Flags, o # "log-level" PROVE opts'[o] = opts[o]
    BY <2>1, <2>6
  <2> QED BY <2>3, <2>4, <2>5, <2>6
<1>3. Accepted'
  <2>1. /\ ~Refused(FileOptions, ConfOptions) /\ ~Refused(input.cmdline, CmdlineOptions)
        /\ DOMAIN input.cmdline \cap {"help", "version"} = {}
        /\ cwd = TheDirectory /\ TheDirectory \in Directories
        /\ ~(TheFile = Missing /\ "config" \in DOMAIN input.cmdline)
    BY <1>0 DEF Inv, Accepted
  <2>2. ~Refused(FileOptions, ConfOptions)' /\ ~Refused(input.cmdline, CmdlineOptions)'
    BY <1>0, <2>1, InputStays DEF Refused
  <2>3. Merged(FileOptions)' = Merged(FileOptions)
    BY <1>0, InputStays DEF Merged
  <2> QED BY <1>0, <1>1, <2>1, <2>2, <2>3, InputStays DEF Accepted
<1>4. ASSUME NEW o \in Flags PROVE opts'[o] = Given(o)'
  <2>1. opts[o] = FALSE
    BY <1>1, InitialValues
  <2>2. o \in DOMAIN vm <=> o \in DOMAIN input.cmdline \cup DOMAIN FileOptions
    <3>1. o \notin Valued
      BY DEF Flags, Valued
    <3> QED BY <1>1, <3>1, MergedValue
  <2>3. opts'[o] = (opts[o] \/ o \in DOMAIN vm)
    BY <1>2
  <2>4. opts'[o] = (o \in DOMAIN vm)
    BY <2>1, <2>3
  <2>5. opts'[o] = (o \in DOMAIN input.cmdline \cup DOMAIN FileOptions)
    <3>1. (o \in DOMAIN vm) = (o \in DOMAIN input.cmdline \cup DOMAIN FileOptions)
      BY <2>2
    <3> QED BY <2>4, <3>1, Zenon
  <2> QED BY <1>0, <2>5, InputStays DEF Given
<1>5. opts'["log-level"] = stringToEnum(ValueOf("log-level", "error"))'
  <2>1. "log-level" \in DOMAIN vm <=> "log-level" \in DOMAIN input.cmdline \cup DOMAIN FileOptions
    BY <1>1, MergedValue DEF Valued
  <2>2. CASE "log-level" \in DOMAIN vm
    <3>1. vm["log-level"].value = ValueOf("log-level", Default("log-level"))
      BY <1>1, <2>2, MergedValue DEF ValueOf
    <3>2. ValueOf("log-level", Default("log-level")) = ValueOf("log-level", "error")
      BY <2>1, <2>2 DEF ValueOf, Lookup
    <3> QED BY <1>0, <1>2, <2>2, <3>1, <3>2, InputStays DEF stringToEnum
  <2>3. CASE "log-level" \notin DOMAIN vm
    <3>1. ValueOf("log-level", "error") = "error"
      BY <2>1, <2>3 DEF ValueOf, Lookup
    <3>2. stringToEnum("error") = "LOG_ERROR"
      BY DEF stringToEnum
    <3>3. opts'["log-level"] = "LOG_ERROR"
      BY <1>1, <1>2, <2>3, InitialValues
    <3>4. stringToEnum(ValueOf("log-level", "error"))' = stringToEnum(ValueOf("log-level", "error"))
      BY <1>0, InputStays DEF stringToEnum
    <3> QED BY <3>1, <3>2, <3>3, <3>4
  <2> QED BY <2>2, <2>3
<1>6. /\ \A o \in Stored : opts'[o] = opts[o]
      /\ opts'["useSerial"] = opts["useSerial"] /\ opts'["authToken"] = opts["authToken"]
  <2>1. \A o \in Stored \cup {"useSerial", "authToken"} : o \in OptNames /\ o \notin Flags /\ o # "log-level"
    BY NamesApart
  <2> QED BY <1>2, <2>1
<1>7. Copied'
  <2>1. \A o \in Stored : opts'[o] = IF o \in DOMAIN vm' THEN vm'[o].value ELSE Initial[o]
    BY <1>0, <1>1, <1>6
  <2>2. opts'["useSerial"] = (ToUint16(ValueOf("port", 0)') \in SerialPorts)
    BY <1>0, <1>1, <1>6, InputStays
  <2> QED BY <1>0, <1>2, <1>4, <1>5, <2>1, <2>2 DEF Copied
<1>8. Converted'
  BY <1>0, <1>6, InputStays DEF Inv, Converted
<1>9. Ends'
  BY <1>0 DEF Ends
<1> QED BY <1>3, <1>7, <1>8, <1>9 DEF Inv

LEMMA StutterKeeps ==
    ASSUME Inv, UNCHANGED vars PROVE Inv'
<1>1. /\ input' = input /\ pc' = pc /\ vm' = vm /\ opts' = opts /\ cwd' = cwd
      /\ str' = str /\ idx' = idx /\ nn' = nn /\ wasDigit' = wasDigit
  BY DEF vars, hexVars
<1>2. Accepted'
  <2>1. /\ Refused(FileOptions, ConfOptions)' <=> Refused(FileOptions, ConfOptions)
        /\ Refused(input.cmdline, CmdlineOptions)' <=> Refused(input.cmdline, CmdlineOptions)
    BY <1>1, InputStays DEF Refused
  <2>2. Merged(FileOptions)' = Merged(FileOptions) /\ Merged(<<>>)' = Merged(<<>>)
    BY <1>1, InputStays DEF Merged
  <2> QED BY <1>1, <2>1, <2>2, InputStays DEF Inv, Accepted
<1>3. Copied'
  <2>1. /\ ToUint16(ValueOf("port", 0))' = ToUint16(ValueOf("port", 0))
        /\ stringToEnum(ValueOf("log-level", "error"))' = stringToEnum(ValueOf("log-level", "error"))
    BY <1>1, InputStays DEF ToUint16, stringToEnum
  <2> QED BY <1>1, <2>1, InputStays DEF Inv, Copied
<1>4. Converted'
  <2>1. Skipping => Skipping'
    BY <1>1, InputStays DEF Skipping, HasRead, AtStart
  <2>2. Spelling => Spelling'
    BY <1>1, InputStays DEF Spelling, HasRead
  <2> QED BY <1>1, <2>1, <2>2, InputStays DEF Inv, Converted, AtStart
<1>5. Ends'
  BY <1>1, InputStays DEF Inv, Ends
<1> QED BY <1>2, <1>3, <1>4, <1>5 DEF Inv

\* Every stage keeps the invariant.
THEOREM StagesKept == Spec => []Inv
<1>1. Init => Inv
  BY InitInv
<1>2. Inv /\ [Next]_vars => Inv'
  <2> SUFFICES ASSUME Inv, [Next]_vars PROVE Inv'
    OBVIOUS
  <2>1. CASE ParseCommandLine \/ Special \/ ChangeDirectory
    BY <2>1, CommandLineKeeps, SpecialKeeps, DirectoryKeeps
  <2>2. CASE NoConfigFile \/ ReadConfigFile \/ ParsePort
    BY <2>2, NoFileKeeps, FileKeeps, PortKeeps
  <2>3. CASE HexSkip \/ HexDigit \/ HexSeparator
    BY <2>3, SkipKeeps, DigitKeeps, SeparatorKeeps
  <2>4. CASE HexEnd \/ HexFails \/ ParseFlags
    BY <2>4, EndKeeps, FailsKeeps, FlagsKeep
  <2>5. CASE Returned \/ UNCHANGED vars
    BY <2>5, StutterKeeps DEF Returned
  <2> QED BY <2>1, <2>2, <2>3, <2>4, <2>5 DEF Next
<1> QED BY <1>1, <1>2, PTL DEF Spec

\* For every command line and every set of files parseConfiguration ends early, with or
\* without an error, exactly for the inputs that say so, and otherwise gives every option
\* the value of the command line, else of the file, else its default.
THEOREM OptionsComeFromTheirSource == Spec => []OptionsAgree
<1>1. Inv => OptionsAgree
  <2> SUFFICES ASSUME Inv, pc \in {"exit", "error", "done"}
               PROVE  /\ pc = Outcome
                      /\ pc = "done" =>
                           /\ \A o \in Valued \cup {"baud"} : opts[o] = ValueOf(o, Default(o))
                           /\ \A o \in Flags : opts[o] = Given(o)
                           /\ opts["log-level"] = stringToEnum(ValueOf("log-level", "error"))
                           /\ opts["useSerial"] = (ToUint16(ValueOf("port", 0)) \in SerialPorts)
    BY DEF OptionsAgree
  <2>1. CASE pc \in {"exit", "error"}
    BY <2>1 DEF Inv, Ends
  <2>2. CASE pc = "done"
    <3> USE DEF AfterCmdline, AfterSpecial, AfterDir, AfterFile, AfterPort
    <3>1. /\ vm = Merged(FileOptions)
          /\ ~Refused(FileOptions, ConfOptions) /\ ~Refused(input.cmdline, CmdlineOptions)
          /\ DOMAIN input.cmdline \cap {"help", "version"} = {}
          /\ TheDirectory \in Directories
          /\ ~(TheFile = Missing /\ "config" \in DOMAIN input.cmdline)
          /\ Given("authToken") => IsToken(Word(TheToken))
      BY <2>2 DEF Inv, Accepted, Converted
    <3>2. pc = Outcome
      BY <2>2, <3>1 DEF Outcome, BadFile, TheToken
    <3>3. ASSUME NEW o \in Valued \cup {"baud"} PROVE opts[o] = ValueOf(o, Default(o))
      <4>1. o \in Stored
        BY DEF Stored
      <4>2. opts[o] = IF o \in DOMAIN vm THEN vm[o].value ELSE Initial[o]
        BY <2>2, <4>1 DEF Inv, Copied
      <4>3. o \in DOMAIN vm => vm[o].value = ValueOf(o, Default(o))
        BY <3>1, MergedValue DEF ValueOf
      <4>4. o \notin DOMAIN vm => ValueOf(o, Default(o)) = Default(o)
        BY <3>1, MergedValue DEF ValueOf, Lookup
      <4>5. Initial[o] = Default(o)
        BY InitialValues
      <4> QED BY <4>2, <4>3, <4>4, <4>5
    <3>4. /\ \A o \in Flags : opts[o] = Given(o)
          /\ opts["log-level"] = stringToEnum(ValueOf("log-level", "error"))
          /\ opts["useSerial"] = (ToUint16(ValueOf("port", 0)) \in SerialPorts)
      BY <2>2 DEF Inv, Copied
    <3> QED BY <3>2, <3>3, <3>4
  <2> QED BY <2>1, <2>2
<1> QED BY <1>1, StagesKept, PTL

\* hexToBin: for every length of the token, and every string of characters, the token
\* is the bytes the string's word spells; without one it is the default.
THEOREM TokenIsSpelled == Spec => []TokenSpelled
<1>1. Inv => TokenSpelled
  BY DEF Inv, Converted, TokenSpelled, TheToken
<1> QED BY <1>1, StagesKept, PTL
=============================================================================
