--------------------------- MODULE MuxParserProofs ---------------------------
(***************************************************************************)
(* Proofs about MuxParser, for all messages whose length fits its field,   *)
(* all junk, every stream and every way to cut it into reads.              *)
(***************************************************************************)
EXTENDS MuxParser, SequenceTheorems, WellFoundedInduction, TLAPS

-----------------------------------------------------------------------------
(* Induction and recursion over sets, since the provers cannot instantiate *)
(* an operator parameter                                                   *)

LEMMA Least ==
    ASSUME NEW T \in SUBSET Nat, T # {}
    PROVE  \E x \in T : \A y \in T : x <= y
<1> DEFINE R == OpToRel(<, Nat)
<1>1. IsWellFoundedOn(R, Nat)
  BY NatLessThanWellFounded
<1>2. \A x, y \in Nat : y < x => <<y, x>> \in R
  BY DEF OpToRel
<1> HIDE DEF R
<1>3. PICK x \in T : \A y \in T : ~(<<y, x>> \in R)
  BY <1>1, WFMin
<1>4. ASSUME NEW y \in T PROVE x <= y
  <2>1. x \in Nat /\ y \in Nat
    OBVIOUS
  <2>2. ~(y < x)
    BY <1>2, <1>3, <2>1, Zenon
  <2> QED BY <2>1, <2>2
<1> QED BY <1>4

LEMMA Induction ==
    ASSUME NEW T, 0 \in T, \A n \in Nat : n \in T => n + 1 \in T
    PROVE  Nat \subseteq T
<1> SUFFICES ASSUME Nat \ T # {} PROVE FALSE
  OBVIOUS
<1>1. PICK x \in Nat \ T : \A y \in Nat \ T : x <= y
  BY Least
<1>2. x # 0 /\ x - 1 \in Nat /\ x - 1 \in T
  BY <1>1
<1> QED BY <1>2

\* f[s] is computed from f[next[s]] for the arguments in M, and given for the others.
Obeys(f, s, M, next, g, last) ==
    f[s] = IF s \in M THEN g[<<s, f[next[s]]>>] ELSE last[s]

\* Recursion on arguments that get smaller.
LEMMA RecursionExists ==
    ASSUME NEW D, NEW Y, NEW M, NEW next, NEW g, NEW last \in [D -> Y], NEW size \in [D -> Nat],
           \A s \in D, y \in Y : g[<<s, y>>] \in Y,
           \A s \in D : s \in M => next[s] \in D /\ size[next[s]] < size[s]
    PROVE  \E f \in [D -> Y] : \A s \in D : Obeys(f, s, M, next, g, last)
<1> DEFINE Upto(f, n) == \A s \in D : size[s] < n => Obeys(f, s, M, next, g, last)
           Unique == {n \in Nat : \A f, h \in [D -> Y] : Upto(f, n) /\ Upto(h, n) =>
                                    \A s \in D : size[s] < n => f[s] = h[s]}
           Exists == {n \in Nat : \E f \in [D -> Y] : Upto(f, n)}
<1>1. Nat \subseteq Unique
  <2>1. 0 \in Unique
    OBVIOUS
  <2>2. ASSUME NEW n \in Nat, n \in Unique PROVE n + 1 \in Unique
    <3> SUFFICES ASSUME NEW f \in [D -> Y], NEW h \in [D -> Y], Upto(f, n + 1), Upto(h, n + 1),
                        NEW s \in D, size[s] < n + 1
                 PROVE  f[s] = h[s]
      OBVIOUS
    <3>1. Upto(f, n) /\ Upto(h, n)
      OBVIOUS
    <3>2. Obeys(f, s, M, next, g, last) /\ Obeys(h, s, M, next, g, last)
      OBVIOUS
    <3>3. s \in M => f[next[s]] = h[next[s]]
      BY <2>2, <3>1
    <3> QED BY <3>2, <3>3 DEF Obeys
  <2> HIDE DEF Unique
  <2> QED BY <2>1, <2>2, Induction
<1>2. Nat \subseteq Exists
  <2>1. 0 \in Exists
    OBVIOUS
  <2>2. ASSUME NEW n \in Nat, n \in Exists PROVE n + 1 \in Exists
    <3>1. PICK f \in [D -> Y] : Upto(f, n)
      BY <2>2
    <3> DEFINE h == [s \in D |-> IF s \in M THEN g[<<s, f[next[s]]>>] ELSE last[s]]
    <3>2. h \in [D -> Y]
      OBVIOUS
    <3>3. ASSUME NEW s \in D, size[s] < n + 1 PROVE Obeys(h, s, M, next, g, last)
      <4>1. s \in M => next[s] \in D /\ size[next[s]] < n
        BY <3>3
      <4>2. s \in M => h[next[s]] = f[next[s]]
        BY <3>1, <4>1 DEF Obeys
      <4>3. h[s] = IF s \in M THEN g[<<s, f[next[s]]>>] ELSE last[s]
        OBVIOUS
      <4> HIDE DEF h
      <4> QED BY <4>2, <4>3 DEF Obeys
    <3> HIDE DEF h
    <3> QED BY <3>2, <3>3
  <2> HIDE DEF Exists
  <2> QED BY <2>1, <2>2, Induction
<1> DEFINE F(n) == CHOOSE f \in [D -> Y] : Upto(f, n)
           f == [s \in D |-> F(size[s] + 1)[s]]
<1>3. ASSUME NEW n \in Nat PROVE F(n) \in [D -> Y] /\ Upto(F(n), n)
  <2>1. \E h \in [D -> Y] : Upto(h, n)
    BY <1>2
  <2> HIDE DEF Upto
  <2> QED BY <2>1
<1>4. ASSUME NEW m \in Nat, NEW n \in Nat, m <= n, NEW s \in D, size[s] < m PROVE F(m)[s] = F(n)[s]
  <2>1. F(m) \in [D -> Y] /\ F(n) \in [D -> Y] /\ Upto(F(m), m) /\ Upto(F(n), n)
    BY <1>3
  <2> HIDE DEF F
  <2>2. Upto(F(n), m)
    BY <1>4, <2>1
  <2>3. m \in Unique
    BY <1>1
  <2> QED BY <1>4, <2>1, <2>2, <2>3
<1>5. f \in [D -> Y]
  BY <1>3
<1>6. ASSUME NEW s \in D PROVE Obeys(f, s, M, next, g, last)
  <2>1. f[s] = F(size[s] + 1)[s] /\ size[s] \in Nat /\ size[s] + 1 \in Nat
    OBVIOUS
  <2>2. Obeys(F(size[s] + 1), s, M, next, g, last)
    <3>1. Upto(F(size[s] + 1), size[s] + 1)
      BY <1>3, <2>1
    <3> HIDE DEF F
    <3> QED BY <2>1, <3>1
  <2>3. s \in M => f[next[s]] = F(size[s] + 1)[next[s]]
    <3> SUFFICES ASSUME s \in M PROVE f[next[s]] = F(size[s] + 1)[next[s]]
      OBVIOUS
    <3>1. next[s] \in D /\ size[next[s]] < size[s] /\ size[next[s]] \in Nat
      OBVIOUS
    <3>2. f[next[s]] = F(size[next[s]] + 1)[next[s]]
      BY <3>1
    <3>3. F(size[next[s]] + 1)[next[s]] = F(size[s] + 1)[next[s]]
      <4> HIDE DEF F
      <4> QED BY <1>4, <2>1, <3>1
    <3> QED BY <3>2, <3>3
  <2> HIDE DEF f, F
  <2> QED BY <2>1, <2>2, <2>3 DEF Obeys
<1> HIDE DEF f
<1> QED BY <1>5, <1>6

-----------------------------------------------------------------------------
(* The token *)

Data == Seq(Bytes)

LEMMA DataConcat ==
    ASSUME NEW x \in Data, NEW y \in Data
    PROVE  x \o y \in Data /\ Len(x \o y) = Len(x) + Len(y) /\ Len(x) \in Nat /\ Len(y) \in Nat
BY ConcatProperties DEF Data

LEMMA DataAssoc ==
    ASSUME NEW x \in Data, NEW y \in Data, NEW z \in Data
    PROVE  (x \o y) \o z = x \o (y \o z)
BY ConcatAssociative DEF Data

\* The same, to be cited without the equation, which the provers would rewrite with.
Associate(x, y, z) == (x \o y) \o z = x \o (y \o z)

LEMMA DataAssociate ==
    ASSUME NEW x \in Data, NEW y \in Data, NEW z \in Data
    PROVE  Associate(x, y, z)
BY DataAssoc DEF Associate

LEMMA ByteOfSecond ==
    ASSUME NEW u \in Data, NEW v \in Data, NEW k \in 1 .. Len(v)
    PROVE  (u \o v)[Len(u) + k] = v[k]
BY DEF Data

TokenAt(s, i) == /\ i + 3 <= Len(s)
                 /\ s[i] = 167 /\ s[i + 1] = 64 /\ s[i + 2] = 160 /\ s[i + 3] = 245

LEMMA OccursIs ==
    ASSUME NEW s \in Data, NEW i \in Nat \ {0}
    PROVE  Occurs(MAGIC_TOKEN, s, i) <=> TokenAt(s, i)
<1>1. Len(MAGIC_TOKEN) = 4 /\ i + 4 - 1 = i + 3 /\ Len(s) \in Nat
  BY DEF MAGIC_TOKEN, Data
<1>2. CASE i + 3 <= Len(s)
  <2> DEFINE w == SubSeq(s, i, i + 3)
  <2>1. /\ w \in Seq(Bytes) /\ Len(w) = 4
        /\ w[1] = s[i] /\ w[2] = s[i + 1] /\ w[3] = s[i + 2] /\ w[4] = s[i + 3]
    BY <1>1, <1>2 DEF Data
  <2> HIDE DEF w
  <2>2. w = MAGIC_TOKEN <=> w[1] = 167 /\ w[2] = 64 /\ w[3] = 160 /\ w[4] = 245
    BY <2>1 DEF MAGIC_TOKEN
  <2> QED BY <1>1, <1>2, <2>1, <2>2 DEF Occurs, TokenAt, w
<1>3. CASE ~(i + 3 <= Len(s))
  BY <1>1, <1>3 DEF Occurs, TokenAt
<1> QED BY <1>2, <1>3

\* The first occurrence, or none.
FirstToken(s, i) ==
    \/ i = 0 /\ \A j \in Nat \ {0} : ~TokenAt(s, j)
    \/ i \in Nat \ {0} /\ TokenAt(s, i) /\ \A j \in Nat \ {0} : j < i => ~TokenAt(s, j)

LEMMA SearchIs ==
    ASSUME NEW s \in Data
    PROVE  FirstToken(s, Search(s))
<1> DEFINE at == {i \in 1 .. Len(s) : Occurs(MAGIC_TOKEN, s, i)}
<1>0. Len(s) \in Nat
  BY DEF Data
<1>1. \A i \in Nat \ {0} : i \in at <=> TokenAt(s, i)
  <2> SUFFICES ASSUME NEW i \in Nat \ {0} PROVE i \in at <=> TokenAt(s, i)
    OBVIOUS
  <2>1. TokenAt(s, i) => i \in 1 .. Len(s)
    BY <1>0 DEF TokenAt
  <2> QED BY <2>1, OccursIs
<1>2. at \subseteq Nat \ {0}
  BY <1>0
<1>3. Search(s) = IF at = {} THEN 0 ELSE CHOOSE i \in at : \A j \in at : i <= j
  BY DEF Search
<1> HIDE DEF at
<1>4. CASE at = {}
  BY <1>1, <1>3, <1>4 DEF FirstToken
<1>5. CASE at # {}
  <2>1. \E i \in at : \A j \in at : i <= j
    BY <1>2, <1>5, Least
  <2>2. Search(s) \in at /\ \A j \in at : Search(s) <= j
    BY <1>3, <1>5, <2>1
  <2>3. PICK i \in at : i = Search(s) /\ \A j \in at : i <= j
    BY <2>2
  <2>4. i \in Nat \ {0} /\ TokenAt(s, i)
    BY <1>1, <1>2
  <2>5. ASSUME NEW j \in Nat \ {0}, j < i PROVE ~TokenAt(s, j)
    BY <1>1, <2>3, <2>4, <2>5
  <2>6. FirstToken(s, i)
    BY <2>4, <2>5 DEF FirstToken
  <2> QED BY <2>3, <2>6
<1> QED BY <1>4, <1>5

LEMMA FirstTokenUnique ==
    ASSUME NEW s, NEW i, NEW j, FirstToken(s, i), FirstToken(s, j)
    PROVE  i = j
BY DEF FirstToken

\* Bytes that follow do not move a token that was found.
LEMMA TokenStays ==
    ASSUME NEW s \in Data, NEW t \in Data, NEW i \in Nat \ {0}, i + 3 <= Len(s)
    PROVE  TokenAt(s \o t, i) <=> TokenAt(s, i)
<1>1. Len(s) \in Nat /\ Len(t) \in Nat /\ Len(s \o t) = Len(s) + Len(t)
  BY DEF Data
<1>2. \A k \in 1 .. Len(s) : (s \o t)[k] = s[k]
  BY DEF Data
<1>3. i \in 1 .. Len(s) /\ i + 1 \in 1 .. Len(s) /\ i + 2 \in 1 .. Len(s) /\ i + 3 \in 1 .. Len(s)
  BY <1>1
<1> QED BY <1>1, <1>2, <1>3 DEF TokenAt

LEMMA SearchStays ==
    ASSUME NEW s \in Data, NEW t \in Data, Search(s) # 0
    PROVE  Search(s \o t) = Search(s)
<1>1. s \o t \in Data /\ Len(s) \in Nat
  BY DEF Data
<1> DEFINE i == Search(s)
<1>2. i \in Nat \ {0} /\ TokenAt(s, i) /\ \A j \in Nat \ {0} : j < i => ~TokenAt(s, j)
  BY SearchIs DEF FirstToken
<1> HIDE DEF i
<1>3. i + 3 <= Len(s)
  BY <1>2 DEF TokenAt
<1>4. TokenAt(s \o t, i) /\ \A j \in Nat \ {0} : j < i => ~TokenAt(s \o t, j)
  BY <1>1, <1>2, <1>3, TokenStays
<1>5. FirstToken(s \o t, i)
  BY <1>2, <1>4 DEF FirstToken
<1> QED BY <1>1, <1>5, SearchIs, FirstTokenUnique DEF i

\* Bytes before which no token begins do not count.
NoTokenIn(u, v) == \A i \in 1 .. Len(u) : ~TokenAt(u \o v, i)

LEMMA TokenMoves ==
    ASSUME NEW u \in Data, NEW v \in Data, NEW i \in Nat \ {0}
    PROVE  TokenAt(u \o v, Len(u) + i) <=> TokenAt(v, i)
<1>1. Len(u) \in Nat /\ Len(v) \in Nat /\ Len(u \o v) = Len(u) + Len(v)
  BY DEF Data
<1>2. \A k \in 1 .. Len(v) : (u \o v)[Len(u) + k] = v[k]
  BY DEF Data
<1>3. CASE i + 3 <= Len(v)
  <2>1. i \in 1 .. Len(v) /\ i + 1 \in 1 .. Len(v) /\ i + 2 \in 1 .. Len(v) /\ i + 3 \in 1 .. Len(v)
    BY <1>1, <1>3
  <2>2. /\ (u \o v)[Len(u) + i] = v[i] /\ (u \o v)[Len(u) + i + 1] = v[i + 1]
        /\ (u \o v)[Len(u) + i + 2] = v[i + 2] /\ (u \o v)[Len(u) + i + 3] = v[i + 3]
    <3>1. PICK a, b, c : a = i + 1 /\ b = i + 2 /\ c = i + 3
      OBVIOUS
    <3>2. /\ Len(u) + i + 1 = Len(u) + a /\ Len(u) + i + 2 = Len(u) + b /\ Len(u) + i + 3 = Len(u) + c
          /\ a \in 1 .. Len(v) /\ b \in 1 .. Len(v) /\ c \in 1 .. Len(v)
      BY <1>1, <2>1, <3>1
    <3>3. (u \o v)[Len(u) + a] = v[a] /\ (u \o v)[Len(u) + b] = v[b] /\ (u \o v)[Len(u) + c] = v[c]
      BY <1>2, <3>2
    <3> QED BY <1>2, <2>1, <3>1, <3>2, <3>3
  <2> QED BY <1>1, <1>3, <2>2 DEF TokenAt
<1>4. CASE ~(i + 3 <= Len(v))
  BY <1>1, <1>4 DEF TokenAt
<1> QED BY <1>3, <1>4

LEMMA SearchMoves ==
    ASSUME NEW u \in Data, NEW v \in Data, NoTokenIn(u, v)
    PROVE  Search(u \o v) = IF Search(v) = 0 THEN 0 ELSE Len(u) + Search(v)
<1>1. u \o v \in Data /\ Len(u) \in Nat
  BY DEF Data
<1> DEFINE i == Search(v)
           k == IF i = 0 THEN 0 ELSE Len(u) + i
<1>2. FirstToken(v, i)
  BY SearchIs
<1> HIDE DEF i
<1>3. ASSUME NEW j \in Nat \ {0}, TokenAt(u \o v, j) PROVE i # 0 /\ Len(u) + i <= j
  <2>1. j > Len(u)
    BY <1>1, <1>3 DEF NoTokenIn
  <2>2. PICK n \in Nat \ {0} : j = Len(u) + n
    <3>1. j - Len(u) \in Nat \ {0} /\ j = Len(u) + (j - Len(u))
      BY <1>1, <2>1
    <3> QED BY <3>1
  <2>3. TokenAt(v, n)
    BY <1>3, <2>2, TokenMoves
  <2> QED BY <1>1, <1>2, <2>2, <2>3 DEF FirstToken
<1>4. CASE i = 0
  <2>1. FirstToken(u \o v, 0)
    BY <1>3, <1>4 DEF FirstToken
  <2> QED BY <1>1, <1>4, <2>1, SearchIs, FirstTokenUnique DEF i
<1>5. CASE i # 0
  <2>1. i \in Nat \ {0} /\ TokenAt(v, i)
    BY <1>2, <1>5 DEF FirstToken
  <2>2. TokenAt(u \o v, Len(u) + i) /\ Len(u) + i \in Nat \ {0}
    BY <1>1, <2>1, TokenMoves
  <2>3. FirstToken(u \o v, Len(u) + i)
    BY <1>1, <1>3, <2>1, <2>2 DEF FirstToken
  <2> QED BY <1>1, <1>5, <2>3, SearchIs, FirstTokenUnique DEF i
<1> QED BY <1>4, <1>5

-----------------------------------------------------------------------------
(* Parts of concatenations *)

LEMMA PartOfFirst ==
    ASSUME NEW s \in Data, NEW t \in Data, NEW a \in Nat \ {0}, NEW b \in Nat, b <= Len(s)
    PROVE  SubSeq(s \o t, a, b) = SubSeq(s, a, b)
<1>1. Len(s) \in Nat /\ Len(t) \in Nat /\ Len(s \o t) = Len(s) + Len(t) /\ s \o t \in Data
  BY DEF Data
<1> DEFINE x == SubSeq(s \o t, a, b)
           y == SubSeq(s, a, b)
<1>2. x \in Data /\ y \in Data /\ Len(x) = Len(y)
  BY <1>1 DEF Data
<1>3. ASSUME NEW i \in 1 .. Len(x) PROVE x[i] = y[i]
  <2>1. a + i - 1 \in 1 .. Len(s) /\ x[i] = (s \o t)[a + i - 1] /\ y[i] = s[a + i - 1]
    BY <1>1 DEF Data
  <2> QED BY <2>1 DEF Data
<1> HIDE DEF x, y
<1>4. x = y
  BY <1>2, <1>3, SeqEqual DEF Data
<1> QED BY <1>4 DEF x, y

LEMMA PartToEnd ==
    ASSUME NEW s \in Data, NEW t \in Data, NEW a \in 1 .. Len(s) + 1
    PROVE  SubSeq(s \o t, a, Len(s \o t)) = SubSeq(s, a, Len(s)) \o t
<1>1. Len(s) \in Nat /\ Len(t) \in Nat /\ Len(s \o t) = Len(s) + Len(t) /\ s \o t \in Data
  BY DEF Data
<1> DEFINE x == SubSeq(s \o t, a, Len(s) + Len(t))
           z == SubSeq(s, a, Len(s))
           y == z \o t
<1>2. /\ x \in Data /\ z \in Data /\ Len(z) = Len(s) + 1 - a /\ Len(x) = Len(s) + Len(t) + 1 - a
      /\ Len(z) \in Nat
  BY <1>1 DEF Data
<1>3. \A i \in 1 .. Len(s) + Len(t) + 1 - a : x[i] = (s \o t)[a + i - 1]
  BY <1>1 DEF Data
<1>4. \A i \in 1 .. Len(s) + 1 - a : z[i] = s[a + i - 1]
  BY <1>1 DEF Data
<1> HIDE DEF x, z
<1>5. y \in Data /\ Len(y) = Len(z) + Len(t)
  BY <1>2, DataConcat
<1>6. Len(x) = Len(y)
  BY <1>1, <1>2, <1>5
<1>7. ASSUME NEW i \in 1 .. Len(x) PROVE x[i] = y[i]
  <2>1. CASE i <= Len(z)
    <3>1. i \in 1 .. Len(z) /\ a + i - 1 \in 1 .. Len(s)
      BY <1>1, <1>2, <2>1
    <3>2. y[i] = z[i] /\ z[i] = s[a + i - 1] /\ (s \o t)[a + i - 1] = s[a + i - 1]
      BY <1>2, <1>4, <3>1 DEF Data
    <3> QED BY <1>2, <1>3, <3>2
  <2>2. CASE ~(i <= Len(z))
    <3>1. i - Len(z) \in 1 .. Len(t) /\ a + i - 1 = Len(s) + (i - Len(z)) /\ i = Len(z) + (i - Len(z))
      BY <1>1, <1>2, <2>2
    <3>2. PICK k \in 1 .. Len(t) : k = i - Len(z)
      BY <3>1
    <3>3. (z \o t)[Len(z) + k] = t[k] /\ (s \o t)[Len(s) + k] = t[k]
      BY <1>2 DEF Data
    <3> QED BY <1>2, <1>3, <3>1, <3>2, <3>3
  <2> QED BY <2>1, <2>2
<1> HIDE DEF y
<1>8. x = y
  BY <1>2, <1>5, <1>6, <1>7, SeqEqual DEF Data
<1> QED BY <1>1, <1>8 DEF x, y, z

LEMMA PartOfSecond ==
    ASSUME NEW u \in Data, NEW v \in Data, NEW a \in Nat \ {0}, NEW b \in Nat, b <= Len(v)
    PROVE  SubSeq(u \o v, Len(u) + a, Len(u) + b) = SubSeq(v, a, b)
<1>1. Len(u) \in Nat /\ Len(v) \in Nat /\ Len(u \o v) = Len(u) + Len(v) /\ u \o v \in Data
  BY DEF Data
<1> DEFINE x == SubSeq(u \o v, Len(u) + a, Len(u) + b)
           y == SubSeq(v, a, b)
<1>2. x \in Data /\ y \in Data /\ Len(x) = Len(y)
  BY <1>1 DEF Data
<1>3. ASSUME NEW i \in 1 .. Len(x) PROVE x[i] = y[i]
  <2>1. PICK k : k = a + i - 1
    OBVIOUS
  <2>2. k \in 1 .. Len(v) /\ x[i] = (u \o v)[Len(u) + k] /\ y[i] = v[k]
    BY <1>1, <2>1 DEF Data
  <2>3. (u \o v)[Len(u) + k] = v[k]
    BY <2>2 DEF Data
  <2> QED BY <2>2, <2>3
<1> HIDE DEF x, y
<1>4. x = y
  BY <1>2, <1>3, SeqEqual DEF Data
<1> QED BY <1>4 DEF x, y

SplitAt(s, n, u, v) ==
    s = u \o v /\ u \in Data /\ v \in Data /\ Len(u) = n /\ Len(v) = Len(s) - n

LEMMA Halves ==
    ASSUME NEW s \in Data, NEW n \in 0 .. Len(s)
    PROVE  SplitAt(s, n, SubSeq(s, 1, n), SubSeq(s, n + 1, Len(s)))
<1> DEFINE u == SubSeq(s, 1, n)
           v == SubSeq(s, n + 1, Len(s))
<1>0. Len(s) \in Nat
  BY DEF Data
<1>1. /\ u \in Data /\ Len(u) = n /\ \A i \in 1 .. n : u[i] = s[i]
      /\ v \in Data /\ Len(v) = Len(s) - n /\ \A i \in 1 .. Len(s) - n : v[i] = s[n + i]
  BY <1>0 DEF Data
<1> HIDE DEF u, v
<1>2. u \o v \in Data /\ Len(u \o v) = Len(u) + Len(v)
  BY <1>1, ConcatProperties DEF Data
<1>3. Len(u \o v) = Len(s)
  BY <1>0, <1>1, <1>2
<1>4. ASSUME NEW i \in 1 .. Len(s) PROVE (u \o v)[i] = s[i]
  <2>1. (u \o v)[i] = IF i <= Len(u) THEN u[i] ELSE v[i - Len(u)]
    BY <1>1, <1>2, <1>3, ConcatProperties DEF Data
  <2>2. CASE i <= n
    BY <1>1, <2>1, <2>2
  <2>3. CASE ~(i <= n)
    <3>1. PICK k : k = i - n
      OBVIOUS
    <3>2. k \in 1 .. Len(s) - n /\ n + k = i
      BY <1>0, <2>3, <3>1
    <3> QED BY <1>1, <2>1, <2>3, <3>1, <3>2
  <2> QED BY <2>2, <2>3
<1>5. s = u \o v
  BY <1>2, <1>3, <1>4, SeqEqual DEF Data
<1>6. SplitAt(s, n, u, v)
  BY <1>1, <1>5 DEF SplitAt
<1> QED BY <1>6 DEF u, v

-----------------------------------------------------------------------------
(* Commands *)

Command(s) == SubSeq(s, BodyFrom(s), BodyTo(s))
Rest(s)    == SubSeq(s, BodyTo(s) + 1, Len(s))

TwoBytes(a, b) == a * 256 + b
LengthOf(s)    == TwoBytes(s[Search(s) + 4], s[Search(s) + 5])

LEMMA TwoBytesType ==
    ASSUME NEW a \in Bytes, NEW b \in Bytes
    PROVE  TwoBytes(a, b) \in Nat
BY DEF Bytes, TwoBytes

LEMMA BodyAt ==
    ASSUME NEW s \in Data
    PROVE  /\ Search(s) \in Nat /\ Len(s) \in Nat /\ BodyFrom(s) = Search(s) + 6
           /\ HasLength(s) => Search(s) # 0 /\ Search(s) + 5 <= Len(s)
           /\ Search(s) # 0 /\ Search(s) + 5 <= Len(s) => HasLength(s)
           /\ HasLength(s) => LengthOf(s) \in Nat /\ BodyTo(s) = Search(s) + 5 + LengthOf(s)
<1>1. Search(s) \in Nat /\ Len(s) \in Nat
  BY SearchIs DEF FirstToken, Data
<1>2. BodyFrom(s) = Search(s) + 6
  BY <1>1 DEF BodyFrom, MAGIC_TOKEN
<1>3. HasLength(s) <=> Search(s) # 0 /\ Search(s) + 5 <= Len(s)
  BY <1>1, <1>2 DEF HasLength
<1>4. ASSUME HasLength(s) PROVE LengthOf(s) \in Nat /\ BodyTo(s) = Search(s) + 5 + LengthOf(s)
  <2>1. Search(s) + 4 \in 1 .. Len(s) /\ Search(s) + 5 \in 1 .. Len(s)
    BY <1>1, <1>3, <1>4
  <2>2. s[Search(s) + 4] \in Bytes /\ s[Search(s) + 5] \in Bytes
    BY <2>1 DEF Data
  <2>3. LengthOf(s) \in Nat
    BY <2>2, TwoBytesType DEF LengthOf
  <2>4. BodyFrom(s) - 1 = Search(s) + 5 /\ BodyFrom(s) - 2 = Search(s) + 4
    BY <1>1, <1>2
  <2>5. PICK a \in Bytes, b \in Bytes : a = s[Search(s) + 4] /\ b = s[Search(s) + 5]
    BY <2>2
  <2>6. BodyTo(s) = Search(s) + 5 + a * 256 + b
    BY <2>4, <2>5 DEF BodyTo
  <2>7. BodyTo(s) = Search(s) + 5 + (a * 256 + b)
    BY <1>1, <2>6 DEF Bytes
  <2> QED BY <2>3, <2>5, <2>7 DEF LengthOf, TwoBytes
<1> QED BY <1>1, <1>2, <1>3, <1>4

LEMMA WholeFacts ==
    ASSUME NEW s \in Data, Whole(s)
    PROVE  /\ Command(s) \in Data /\ Rest(s) \in Data /\ Len(Rest(s)) < Len(s) /\ Len(Rest(s)) \in Nat
           /\ BodyTo(s) \in Nat /\ BodyTo(s) <= Len(s) /\ BodyFrom(s) \in Nat \ {0}
<1>1. /\ BodyTo(s) \in Nat /\ BodyTo(s) <= Len(s) /\ BodyFrom(s) \in Nat \ {0}
      /\ BodyTo(s) > 0 /\ Len(s) \in Nat
  <2>1. HasLength(s) /\ BodyTo(s) <= Len(s)
    BY DEF Whole
  <2>2. /\ Search(s) \in Nat /\ Len(s) \in Nat /\ BodyFrom(s) = Search(s) + 6
        /\ LengthOf(s) \in Nat /\ BodyTo(s) = Search(s) + 5 + LengthOf(s)
    BY <2>1, BodyAt
  <2> QED BY <2>1, <2>2
<1>2. Command(s) \in Data
  BY <1>1 DEF Command, Data
<1>3. Rest(s) \in Data /\ Len(Rest(s)) = Len(s) - BodyTo(s)
  BY <1>1 DEF Rest, Data
<1> QED BY <1>1, <1>2, <1>3

\* A whole command is not changed by the bytes that follow.
LEMMA WholeStays ==
    ASSUME NEW s \in Data, NEW t \in Data, Whole(s)
    PROVE  Whole(s \o t) /\ Command(s \o t) = Command(s) /\ Rest(s \o t) = Rest(s) \o t
<1>0. s \o t \in Data /\ Len(s \o t) = Len(s) + Len(t) /\ Len(t) \in Nat /\ Len(s) \in Nat
  BY DEF Data
<1>1. HasLength(s) /\ BodyTo(s) <= Len(s)
  BY DEF Whole
<1>2. Search(s \o t) = Search(s)
  BY <1>1, SearchStays DEF HasLength
<1>3. HasLength(s \o t)
  <2>1. Search(s) # 0 /\ Search(s) + 5 <= Len(s) /\ Search(s) \in Nat
    BY <1>1, BodyAt
  <2>2. Search(s \o t) # 0 /\ Search(s \o t) + 5 <= Len(s \o t)
    BY <1>0, <1>2, <2>1
  <2> QED BY <1>0, <2>2, BodyAt
<1>4. /\ (s \o t)[Search(s) + 4] = s[Search(s) + 4]
      /\ (s \o t)[Search(s) + 5] = s[Search(s) + 5]
  <2>1. Search(s) + 4 \in 1 .. Len(s) /\ Search(s) + 5 \in 1 .. Len(s)
    BY <1>1, BodyAt
  <2> QED BY <2>1 DEF Data
<1>5. BodyTo(s \o t) = BodyTo(s) /\ BodyFrom(s \o t) = BodyFrom(s)
  <2>1. LengthOf(s \o t) = LengthOf(s)
    BY <1>2, <1>4 DEF LengthOf
  <2>2. BodyTo(s \o t) = Search(s \o t) + 5 + LengthOf(s \o t) /\ BodyFrom(s \o t) = Search(s \o t) + 6
    BY <1>0, <1>3, BodyAt
  <2>3. BodyTo(s) = Search(s) + 5 + LengthOf(s) /\ BodyFrom(s) = Search(s) + 6
    BY <1>1, BodyAt
  <2> QED BY <1>2, <2>1, <2>2, <2>3
<1>6. Whole(s \o t)
  BY <1>0, <1>1, <1>3, <1>5, WholeFacts DEF Whole
<1>7. Command(s \o t) = Command(s)
  <2>1. PICK a \in Nat \ {0}, b \in Nat : a = BodyFrom(s) /\ b = BodyTo(s) /\ b <= Len(s)
    BY WholeFacts
  <2>2. SubSeq(s \o t, a, b) = SubSeq(s, a, b)
    BY <2>1, PartOfFirst
  <2> QED BY <1>5, <2>1, <2>2 DEF Command
<1>8. Rest(s \o t) = Rest(s) \o t
  <2>1. BodyTo(s) + 1 \in 1 .. Len(s) + 1
    BY <1>0, WholeFacts
  <2>2. SubSeq(s \o t, BodyTo(s) + 1, Len(s \o t)) = SubSeq(s, BodyTo(s) + 1, Len(s)) \o t
    BY <2>1, PartToEnd
  <2> QED BY <1>5, <2>2 DEF Rest
<1> QED BY <1>6, <1>7, <1>8

\* Bytes before which no token begins change nothing.
LEMMA WholeMoves ==
    ASSUME NEW u \in Data, NEW v \in Data, NoTokenIn(u, v)
    PROVE  /\ Whole(u \o v) <=> Whole(v)
           /\ Whole(v) => Command(u \o v) = Command(v) /\ Rest(u \o v) = Rest(v)
<1>0. u \o v \in Data /\ Len(u \o v) = Len(u) + Len(v) /\ Len(u) \in Nat /\ Len(v) \in Nat
  BY DEF Data
<1>1. Search(u \o v) = IF Search(v) = 0 THEN 0 ELSE Len(u) + Search(v)
  BY SearchMoves
<1>2. HasLength(u \o v) <=> HasLength(v)
  <2>1. CASE Search(v) = 0
    BY <1>0, <1>1, <2>1, BodyAt
  <2>2. CASE Search(v) # 0
    <3>1. Search(u \o v) = Len(u) + Search(v) /\ Search(u \o v) # 0 /\ Search(v) \in Nat
      BY <1>0, <1>1, <2>2, BodyAt
    <3>2. HasLength(v) <=> Search(v) + 5 <= Len(v)
      BY <2>2, BodyAt
    <3>3. HasLength(u \o v) <=> Search(u \o v) + 5 <= Len(u \o v)
      BY <1>0, <3>1, BodyAt
    <3> QED BY <1>0, <3>1, <3>2, <3>3
  <2> QED BY <2>1, <2>2
<1>3. ASSUME HasLength(v) PROVE BodyTo(u \o v) = Len(u) + BodyTo(v) /\ BodyFrom(u \o v) = Len(u) + BodyFrom(v)
  <2>1. Search(v) # 0 /\ Search(v) + 4 \in 1 .. Len(v) /\ Search(v) + 5 \in 1 .. Len(v) /\ Search(v) \in Nat
    BY <1>3, BodyAt
  <2>2. PICK a, b : a = Search(v) + 4 /\ b = Search(v) + 5
    OBVIOUS
  <2>3. (u \o v)[Len(u) + a] = v[a] /\ (u \o v)[Len(u) + b] = v[b]
    BY <2>1, <2>2, ByteOfSecond
  <2>4. Search(u \o v) = Len(u) + Search(v) /\ Search(u \o v) + 4 = Len(u) + a /\ Search(u \o v) + 5 = Len(u) + b
    BY <1>0, <1>1, <2>1, <2>2
  <2>5. (u \o v)[Search(u \o v) + 4] = v[Search(v) + 4] /\ (u \o v)[Search(u \o v) + 5] = v[Search(v) + 5]
    BY <2>2, <2>3, <2>4
  <2>6. LengthOf(u \o v) = LengthOf(v)
    BY <2>5 DEF LengthOf
  <2>7. BodyTo(u \o v) = Search(u \o v) + 5 + LengthOf(v) /\ BodyFrom(u \o v) = Search(u \o v) + 6
    BY <1>0, <1>2, <1>3, <2>6, BodyAt
  <2>8. BodyTo(v) = Search(v) + 5 + LengthOf(v) /\ BodyFrom(v) = Search(v) + 6 /\ LengthOf(v) \in Nat
    BY <1>3, BodyAt
  <2>9. PICK i \in Nat, k \in Nat, l \in Nat : i = Search(v) /\ k = Len(u) /\ l = LengthOf(v)
    BY <1>0, <2>1, <2>8
  <2>10. (k + i) + 5 + l = k + (i + 5 + l) /\ (k + i) + 6 = k + (i + 6)
    OBVIOUS
  <2> QED BY <2>4, <2>7, <2>8, <2>9, <2>10
<1>4. Whole(u \o v) <=> Whole(v)
  <2>1. CASE HasLength(v)
    <3>1. BodyTo(v) \in Nat
      <4>1. BodyTo(v) = Search(v) + 5 + LengthOf(v) /\ Search(v) \in Nat /\ LengthOf(v) \in Nat
        BY <2>1, BodyAt
      <4> QED BY <4>1
    <3> QED BY <1>0, <1>2, <1>3, <2>1, <3>1 DEF Whole
  <2>2. CASE ~HasLength(v)
    BY <1>2, <2>2 DEF Whole
  <2> QED BY <2>1, <2>2
<1>5. ASSUME Whole(v) PROVE Command(u \o v) = Command(v) /\ Rest(u \o v) = Rest(v)
  <2>1. /\ BodyTo(v) \in Nat /\ BodyTo(v) <= Len(v) /\ BodyFrom(v) \in Nat \ {0}
        /\ BodyTo(u \o v) = Len(u) + BodyTo(v) /\ BodyFrom(u \o v) = Len(u) + BodyFrom(v)
    BY <1>3, <1>5, WholeFacts DEF Whole
  <2>2. SubSeq(u \o v, Len(u) + BodyFrom(v), Len(u) + BodyTo(v)) = SubSeq(v, BodyFrom(v), BodyTo(v))
    BY <2>1, PartOfSecond
  <2>3. SubSeq(u \o v, Len(u) + (BodyTo(v) + 1), Len(u) + Len(v)) = SubSeq(v, BodyTo(v) + 1, Len(v))
    <3>1. PICK a : a = BodyTo(v) + 1
      OBVIOUS
    <3>2. a \in Nat \ {0}
      BY <2>1, <3>1
    <3>3. SubSeq(u \o v, Len(u) + a, Len(u) + Len(v)) = SubSeq(v, a, Len(v))
      BY <1>0, <3>2, PartOfSecond
    <3> QED BY <3>1, <3>3
  <2>4. BodyTo(u \o v) + 1 = Len(u) + (BodyTo(v) + 1)
    BY <1>0, <2>1
  <2> QED BY <1>0, <2>1, <2>2, <2>3, <2>4 DEF Command, Rest
<1> QED BY <1>4, <1>5

-----------------------------------------------------------------------------
(* Decode: the messages of a byte sequence *)

AnyMessage == [id : Nat, type : Nat, data : Data]

LEMMA MessagesAssoc ==
    ASSUME NEW x \in Seq(AnyMessage), NEW y \in Seq(AnyMessage), NEW z \in Seq(AnyMessage)
    PROVE  (x \o y) \o z = x \o (y \o z)
BY ConcatAssociative

LEMMA MessagesAssociate ==
    ASSUME NEW x \in Seq(AnyMessage), NEW y \in Seq(AnyMessage), NEW z \in Seq(AnyMessage)
    PROVE  Associate(x, y, z)
BY MessagesAssoc DEF Associate

LEMMA MessageType ==
    ASSUME NEW d \in Data
    PROVE  ToMessage(d) \in AnyMessage
<1>1. Len(d) \in Nat /\ \A i \in 1 .. Len(d) : d[i] \in Bytes
  BY DEF Data
<1>2. CASE Len(d) >= 3
  <2>1. d[1] \in Bytes /\ d[2] \in Bytes /\ d[3] \in Bytes
    BY <1>1, <1>2
  <2>2. d[1] * 256 + d[2] \in Nat
    BY <2>1, TwoBytesType DEF TwoBytes
  <2>3. d[3] \in Nat
    BY <2>1 DEF Bytes
  <2>4. SubSeq(d, 4, Len(d)) \in Data
    BY <1>1, <1>2 DEF Data
  <2>5. ToMessage(d) = [id |-> d[1] * 256 + d[2], type |-> d[3], data |-> SubSeq(d, 4, Len(d))]
    BY <1>2 DEF ToMessage
  <2> QED BY <2>2, <2>3, <2>4, <2>5 DEF AnyMessage
<1>3. CASE ~(Len(d) >= 3)
  <2>1. ToMessage(d) = [id |-> 0, type |-> 0, data |-> <<>>] /\ <<>> \in Data
    BY <1>3 DEF ToMessage, Data
  <2> QED BY <2>1 DEF AnyMessage
<1> QED BY <1>2, <1>3

\* The body of Decode, and the same in the words of the parser.
DecodeBody(f, s) ==
    LET at == {i \in 1 .. Len(s) : Occurs(MAGIC_TOKEN, s, i)} IN
    IF at = {} THEN <<>>
    ELSE LET i == CHOOSE i \in at : \A j \in at : i <= j
             n == s[i + 4] * 256 + s[i + 5]
         IN IF i + 5 > Len(s) THEN <<>>
            ELSE IF i + 5 + n > Len(s) THEN <<>>
            ELSE <<ToMessage(SubSeq(s, i + 6, i + 5 + n))>>
                   \o f[SubSeq(s, i + 6 + n, Len(s))]

CommandsOf(f, s) == IF Whole(s) THEN <<ToMessage(Command(s))>> \o f[Rest(s)] ELSE <<>>

Decodes(f) == f = [s \in Data |-> CommandsOf(f, s)]

LEMMA DecodeStep ==
    ASSUME NEW f, NEW s \in Data
    PROVE  DecodeBody(f, s) = CommandsOf(f, s)
<1> USE DEF CommandsOf
<1> DEFINE at == {i \in 1 .. Len(s) : Occurs(MAGIC_TOKEN, s, i)}
           i == CHOOSE i \in at : \A j \in at : i <= j
           n == s[i + 4] * 256 + s[i + 5]
<1>0. Search(s) = (IF at = {} THEN 0 ELSE i) /\ \A j \in at : j # 0
  BY DEF Search
<1>1. at # {} => i \in at
  <2>1. at \subseteq Nat
    BY DEF Data
  <2> HIDE DEF at
  <2>2. at # {} => \E k \in at : \A j \in at : k <= j
    BY <2>1, Least
  <2> QED BY <2>2
<1>2. n = LengthOf(s) \/ at = {}
  BY <1>0 DEF LengthOf, TwoBytes
<1> HIDE DEF at, i, n
<1>3. CASE at = {}
  <2>1. ~Whole(s)
    BY <1>0, <1>3 DEF Whole, HasLength
  <2> QED BY <1>3, <2>1 DEF DecodeBody, at
<1>4. CASE at # {} /\ i + 5 > Len(s)
  <2>1. ~Whole(s)
    <3>1. Search(s) = i /\ Search(s) \in Nat /\ Len(s) \in Nat
      BY <1>0, <1>4, BodyAt
    <3>2. ~HasLength(s)
      BY <1>4, <3>1, BodyAt
    <3> QED BY <3>2 DEF Whole
  <2> QED BY <1>4, <2>1 DEF DecodeBody, at, i
<1>5. CASE at # {} /\ ~(i + 5 > Len(s))
  <2>1. Search(s) = i /\ i # 0 /\ i \in Nat /\ Len(s) \in Nat /\ n = LengthOf(s)
    BY <1>0, <1>1, <1>2, <1>5, BodyAt
  <2>2. HasLength(s)
    BY <1>5, <2>1, BodyAt
  <2>3. n \in Nat /\ BodyTo(s) = i + 5 + n /\ BodyFrom(s) = i + 6
    BY <2>1, <2>2, BodyAt
  <2>4. Whole(s) <=> ~(i + 5 + n > Len(s))
    BY <2>1, <2>2, <2>3 DEF Whole
  <2>5. i + 6 + n = BodyTo(s) + 1
    BY <2>1, <2>3
  <2>6. Command(s) = SubSeq(s, i + 6, i + 5 + n) /\ Rest(s) = SubSeq(s, i + 6 + n, Len(s))
    BY <2>3, <2>5 DEF Command, Rest
  <2> QED BY <1>5, <2>4, <2>6 DEF DecodeBody, at, i, n
<1> QED BY <1>3, <1>4, <1>5

LEMMA DecodeExists == \E f : Decodes(f)
<1> DEFINE Y == Seq(AnyMessage)
           M == {s \in Data : Whole(s)}
           next == [s \in Data |-> Rest(s)]
           g == [p \in Data \X Y |-> IF Whole(p[1]) THEN <<ToMessage(Command(p[1]))>> \o p[2] ELSE <<>>]
           last == [s \in Data |-> <<>>]
           size == [s \in Data |-> Len(s)]
<1>1. last \in [Data -> Y] /\ size \in [Data -> Nat]
  BY DEF Data
<1>2. ASSUME NEW s \in Data, NEW y \in Y
      PROVE  g[<<s, y>>] \in Y /\ g[<<s, y>>] = IF Whole(s) THEN <<ToMessage(Command(s))>> \o y ELSE <<>>
  <2>1. g[<<s, y>>] = IF Whole(s) THEN <<ToMessage(Command(s))>> \o y ELSE <<>>
    OBVIOUS
  <2>2. Whole(s) => <<ToMessage(Command(s))>> \in Y
    BY WholeFacts, MessageType
  <2>3. Whole(s) => <<ToMessage(Command(s))>> \o y \in Y
    BY <2>2, ConcatProperties
  <2> QED BY <2>1, <2>3
<1>3. ASSUME NEW s \in Data, s \in M PROVE next[s] \in Data /\ size[next[s]] < size[s]
  BY <1>3, WholeFacts
<1>4. \A s \in Data : next[s] = Rest(s) /\ last[s] = <<>> /\ (s \in M <=> Whole(s))
  OBVIOUS
<1> HIDE DEF Y, M, next, g, last, size
<1>5. PICK f \in [Data -> Y] : \A s \in Data : Obeys(f, s, M, next, g, last)
  BY <1>1, <1>2, <1>3, RecursionExists
<1>6. ASSUME NEW s \in Data PROVE f[s] = CommandsOf(f, s)
  <2>1. f[s] = IF s \in M THEN g[<<s, f[next[s]]>>] ELSE last[s]
    BY <1>5 DEF Obeys
  <2>2. CASE Whole(s)
    <3>1. f[Rest(s)] \in Y
      BY <2>2, WholeFacts
    <3> QED BY <1>2, <1>4, <2>1, <2>2, <3>1 DEF CommandsOf
  <2>3. CASE ~Whole(s)
    BY <1>4, <2>1, <2>3 DEF CommandsOf
  <2> QED BY <2>2, <2>3
<1>7. Decodes(f)
  BY <1>6 DEF Decodes
<1> QED BY <1>7

LEMMA DecodeIs == Decodes(Decode)
<1> DEFINE IsDecode(f) == f = [s \in Seq(Bytes) |-> DecodeBody(f, s)]
<1>1. ASSUME NEW f PROVE IsDecode(f) <=> Decodes(f)
  <2>1. [s \in Data |-> DecodeBody(f, s)] = [s \in Data |-> CommandsOf(f, s)]
    BY DecodeStep
  <2> QED BY <2>1 DEF Decodes, Data
<1>2. Decode = CHOOSE f : IsDecode(f)
  BY DEF Decode, DecodeBody
<1> HIDE DEF IsDecode
<1>3. \E f : IsDecode(f)
  BY <1>1, DecodeExists
<1>4. IsDecode(Decode)
  BY <1>2, <1>3
<1> QED BY <1>1, <1>4

LEMMA DecodeUnfolds ==
    ASSUME NEW s \in Data
    PROVE  Decode[s] = IF Whole(s) THEN <<ToMessage(Command(s))>> \o Decode[Rest(s)] ELSE <<>>
BY DecodeIs DEF Decodes, CommandsOf

LEMMA DecodeType ==
    ASSUME NEW s \in Data
    PROVE  Decode[s] \in Seq(AnyMessage)
<1> DEFINE T == {n \in Nat : \A d \in Data : Len(d) < n => Decode[d] \in Seq(AnyMessage)}
<1>1. 0 \in T
  BY DEF Data
<1>2. ASSUME NEW n \in Nat, n \in T PROVE n + 1 \in T
  <2> SUFFICES ASSUME NEW d \in Data, Len(d) < n + 1 PROVE Decode[d] \in Seq(AnyMessage)
    OBVIOUS
  <2>1. CASE Whole(d)
    <3>1. Rest(d) \in Data /\ Len(Rest(d)) < n /\ Command(d) \in Data
      <4>1. Len(Rest(d)) < Len(d) /\ Len(Rest(d)) \in Nat /\ Len(d) \in Nat
        BY <2>1, WholeFacts DEF Data
      <4> QED BY <2>1, <4>1, WholeFacts
    <3>2. Decode[Rest(d)] \in Seq(AnyMessage) /\ <<ToMessage(Command(d))>> \in Seq(AnyMessage)
      BY <1>2, <3>1, MessageType
    <3> QED BY <2>1, <3>2, DecodeUnfolds, ConcatProperties
  <2>2. CASE ~Whole(d)
    <3>1. Decode[d] = <<>>
      BY <2>2, DecodeUnfolds
    <3>2. <<>> \in Seq(AnyMessage)
      OBVIOUS
    <3> QED BY <3>1, <3>2
  <2> QED BY <2>1, <2>2
<1> HIDE DEF T
<1>3. Nat \subseteq T
  BY <1>1, <1>2, Induction
<1>4. Len(s) + 1 \in T /\ Len(s) < Len(s) + 1
  BY <1>3 DEF Data
<1> QED BY <1>4 DEF T

\* Bytes before which no token begins decode to nothing.
LEMMA DecodeMoves ==
    ASSUME NEW u \in Data, NEW v \in Data, NoTokenIn(u, v)
    PROVE  Decode[u \o v] = Decode[v]
<1>1. u \o v \in Data
  BY DEF Data
<1>2. Decode[u \o v] = IF Whole(u \o v) THEN <<ToMessage(Command(u \o v))>> \o Decode[Rest(u \o v)] ELSE <<>>
  BY <1>1, DecodeUnfolds
<1>3. Decode[v] = IF Whole(v) THEN <<ToMessage(Command(v))>> \o Decode[Rest(v)] ELSE <<>>
  BY DecodeUnfolds
<1> QED BY <1>2, <1>3, WholeMoves

-----------------------------------------------------------------------------
(* read(): parse until no more commands are found *)

\* What read() makes of its input s: the rest holds no whole command, and whatever
\* follows, messages and rest decode to what the input decodes to.
Parsed(s, r) ==
    /\ r.rest \in Data /\ r.messages \in Seq(AnyMessage) /\ ~Whole(r.rest)
    /\ \A t \in Data : Decode[s \o t] = r.messages \o Decode[r.rest \o t]

LEMMA DiscardKeeps ==
    ASSUME NEW s \in Data, Search(s) = 0
    PROVE  Parsed(s, [messages |-> <<>>, rest |-> Discard(s)])
<1>0. Len(s) \in Nat /\ \A i \in Nat \ {0} : ~TokenAt(s, i)
  BY SearchIs DEF FirstToken, Data
<1>1. PICK u \in Data, v \in Data :
         s = u \o v /\ v = Discard(s) /\ Len(s) = Len(u) + Len(v) /\ (Len(u) > 0 => Len(v) = 3)
  <2>1. CASE Len(s) > 3
    <3>1. PICK n : n = Len(s) - 3
      OBVIOUS
    <3>2. n \in 0 .. Len(s) /\ n + 1 = Len(s) - 2 /\ n \in Nat /\ Len(s) - n = 3 /\ Len(s) = n + 3
      BY <1>0, <2>1, <3>1
    <3>3. PICK u, v : u = SubSeq(s, 1, n) /\ v = SubSeq(s, n + 1, Len(s))
      OBVIOUS
    <3>4. SplitAt(s, n, u, v)
      BY <3>2, <3>3, Halves
    <3>5. v = Discard(s)
      BY <2>1, <3>2, <3>3 DEF Discard
    <3> QED BY <3>2, <3>4, <3>5 DEF SplitAt
  <2>2. CASE ~(Len(s) > 3)
    <3>1. <<>> \in Data /\ <<>> \o s = s /\ Len(<<>>) = 0 /\ Discard(s) = s
      BY <2>2, ConcatEmptySeq DEF Data, Discard
    <3>2. Len(s) = Len(<<>>) + Len(s) /\ ~(Len(<<>>) > 0)
      BY <1>0, <3>1
    <3> QED BY <3>1, <3>2
  <2> QED BY <2>1, <2>2
<1>a. Len(s) = Len(u) + Len(v) /\ (Len(u) > 0 => Len(v) = 3)
  BY <1>1
<1>2. ASSUME NEW t \in Data PROVE Decode[s \o t] = <<>> \o Decode[v \o t]
  <2>1. v \o t \in Data /\ s \o t = u \o (v \o t) /\ Len(u) \in Nat /\ Len(v) \in Nat
    <3>1. v \o t \in Data
      BY ConcatProperties DEF Data
    <3>2. s \o t = u \o (v \o t)
      BY <1>1, ConcatAssociative DEF Data
    <3> QED BY <3>1, <3>2 DEF Data
  <2>2. ASSUME NEW i \in 1 .. Len(u) PROVE ~TokenAt(u \o (v \o t), i)
    <3>1. i \in Nat \ {0} /\ i + 3 <= Len(s)
      <4>1. Len(u) \in Nat
        BY DEF Data
      <4>2. Len(u) > 0
        BY <4>1
      <4>3. Len(s) = Len(u) + 3
        BY <1>a, <4>2
      <4> QED BY <4>1, <4>3
    <3> QED BY <1>0, <2>1, <3>1, TokenStays
  <2>3. Decode[u \o (v \o t)] = Decode[v \o t]
    BY <2>1, <2>2, DecodeMoves DEF NoTokenIn
  <2>4. Decode[v \o t] \in Seq(AnyMessage)
    BY <2>1, DecodeType
  <2> QED BY <2>1, <2>3, <2>4, ConcatEmptySeq
<1>3. ~Whole(v)
  <2>1. ASSUME NEW i \in Nat \ {0}, TokenAt(v, i) PROVE FALSE
    <3>1. TokenAt(u \o v, Len(u) + i)
      BY <2>1, TokenMoves
    <3>2. Len(u) \in Nat /\ Len(u) + i \in Nat \ {0}
      BY DEF Data
    <3> QED BY <1>0, <1>1, <3>1, <3>2
  <2>2. Search(v) = 0
    BY <2>1, SearchIs DEF FirstToken
  <2> QED BY <2>2 DEF Whole, HasLength
<1>4. <<>> \in Seq(AnyMessage)
  OBVIOUS
<1> QED BY <1>1, <1>2, <1>3, <1>4 DEF Parsed

LEMMA StayKeeps ==
    ASSUME NEW s \in Data, ~Whole(s)
    PROVE  Parsed(s, [messages |-> <<>>, rest |-> s])
<1>1. ASSUME NEW t \in Data PROVE Decode[s \o t] = <<>> \o Decode[s \o t]
  <2>1. s \o t \in Data
    BY ConcatProperties DEF Data
  <2>2. Decode[s \o t] \in Seq(AnyMessage)
    BY <2>1, DecodeType
  <2> QED BY <2>2, ConcatEmptySeq
<1>2. <<>> \in Seq(AnyMessage)
  OBVIOUS
<1> QED BY <1>1, <1>2 DEF Parsed

LEMMA FoundKeeps ==
    ASSUME NEW s \in Data, Whole(s), NEW r, Parsed(Rest(s), r)
    PROVE  Parsed(s, [messages |-> <<ToMessage(Command(s))>> \o r.messages, rest |-> r.rest])
<1> DEFINE m == <<ToMessage(Command(s))>>
<1>1. m \in Seq(AnyMessage) /\ Rest(s) \in Data
  BY WholeFacts, MessageType
<1> HIDE DEF m
<1>2. r.rest \in Data /\ r.messages \in Seq(AnyMessage) /\ ~Whole(r.rest)
  BY DEF Parsed
<1>3. m \o r.messages \in Seq(AnyMessage)
  BY <1>1, <1>2, ConcatProperties
<1>4. ASSUME NEW t \in Data PROVE Decode[s \o t] = (m \o r.messages) \o Decode[r.rest \o t]
  <2>1. s \o t \in Data /\ r.rest \o t \in Data
    BY <1>2, ConcatProperties DEF Data
  <2>2. Decode[s \o t] = m \o Decode[Rest(s) \o t]
    <3>1. Whole(s \o t) /\ Command(s \o t) = Command(s) /\ Rest(s \o t) = Rest(s) \o t
      BY WholeStays
    <3>2. Decode[s \o t] = <<ToMessage(Command(s \o t))>> \o Decode[Rest(s \o t)]
      BY <2>1, <3>1, DecodeUnfolds
    <3> QED BY <3>1, <3>2 DEF m
  <2>3. Decode[Rest(s) \o t] = r.messages \o Decode[r.rest \o t]
    BY DEF Parsed
  <2>4. Decode[r.rest \o t] \in Seq(AnyMessage)
    BY <2>1, DecodeType
  <2>5. m \o (r.messages \o Decode[r.rest \o t]) = (m \o r.messages) \o Decode[r.rest \o t]
    <3>1. PICK d \in Seq(AnyMessage) : d = Decode[r.rest \o t]
      BY <2>4
    <3>2. PICK e \in Seq(AnyMessage) : e = r.messages
      BY <1>2
    <3>3. (m \o e) \o d = m \o (e \o d)
      BY <1>1, MessagesAssoc
    <3> QED BY <3>1, <3>2, <3>3
  <2> QED BY <2>2, <2>3, <2>5
<1>5. Parsed(s, [messages |-> m \o r.messages, rest |-> r.rest])
  BY <1>2, <1>3, <1>4 DEF Parsed
<1> QED BY <1>5 DEF m

ParseOf(f, s) ==
    IF parse(s).found
    THEN [messages |-> <<ToMessage(parse(s).data)>> \o f[parse(s).rest].messages,
          rest     |-> f[parse(s).rest].rest]
    ELSE [messages |-> <<>>, rest |-> parse(s).rest]

LEMMA ParseFacts ==
    ASSUME NEW s \in Data
    PROVE  /\ parse(s).found <=> Whole(s)
           /\ Whole(s) => parse(s).data = Command(s) /\ parse(s).rest = Rest(s)
           /\ ~Whole(s) => Parsed(s, [messages |-> <<>>, rest |-> parse(s).rest])
<1>1. CASE Whole(s)
  <2>1. parse(s) = [found |-> TRUE, data |-> Command(s), rest |-> Rest(s)]
    BY <1>1 DEF parse, Command, Rest, Whole, HasLength
  <2> QED BY <1>1, <2>1
<1>2. CASE Search(s) = 0
  <2>1. ~Whole(s)
    BY <1>2 DEF Whole, HasLength
  <2>2. parse(s) = [found |-> FALSE, data |-> <<>>, rest |-> Discard(s)]
    BY <1>2, <2>1 DEF parse
  <2>3. parse(s).found = FALSE /\ parse(s).rest = Discard(s)
    BY <2>2
  <2> QED BY <1>2, <2>1, <2>3, DiscardKeeps
<1>3. CASE ~Whole(s) /\ Search(s) # 0
  <2>1. parse(s) = [found |-> FALSE, data |-> <<>>, rest |-> s]
    BY <1>3 DEF parse
  <2>2. parse(s).found = FALSE /\ parse(s).rest = s
    BY <2>1
  <2> QED BY <1>3, <2>2, StayKeeps
<1> QED BY <1>1, <1>2, <1>3

LEMMA ParseAllExists == \E f : f = [s \in Data |-> ParseOf(f, s)]
<1> DEFINE Y == [messages : Seq(AnyMessage), rest : Data]
           M == {s \in Data : Whole(s)}
           next == [s \in Data |-> Rest(s)]
           G(s, y) == IF Whole(s) THEN [messages |-> <<ToMessage(Command(s))>> \o y.messages, rest |-> y.rest]
                      ELSE y
           g == [p \in Data \X Y |-> G(p[1], p[2])]
           last == [s \in Data |-> [messages |-> <<>>, rest |-> parse(s).rest]]
           size == [s \in Data |-> Len(s)]
<1>1. last \in [Data -> Y] /\ size \in [Data -> Nat]
  <2>1. ASSUME NEW s \in Data PROVE parse(s).rest \in Data
    BY ParseFacts, WholeFacts DEF Parsed
  <2>2. <<>> \in Seq(AnyMessage)
    OBVIOUS
  <2> QED BY <2>1, <2>2 DEF Data
<1>2. ASSUME NEW s \in Data, NEW y \in Y PROVE g[<<s, y>>] \in Y /\ g[<<s, y>>] = G(s, y)
  <2>1. g[<<s, y>>] = G(s, y)
    OBVIOUS
  <2>2. Whole(s) => <<ToMessage(Command(s))>> \in Seq(AnyMessage)
    BY WholeFacts, MessageType
  <2>3. Whole(s) => <<ToMessage(Command(s))>> \o y.messages \in Seq(AnyMessage)
    BY <2>2, ConcatProperties
  <2>4. G(s, y) \in Y
    BY <2>3
  <2> QED BY <2>1, <2>4
<1>3. ASSUME NEW s \in Data, s \in M PROVE next[s] \in Data /\ size[next[s]] < size[s]
  BY <1>3, WholeFacts
<1>4. \A s \in Data : /\ next[s] = Rest(s) /\ (s \in M <=> Whole(s))
                      /\ last[s] = [messages |-> <<>>, rest |-> parse(s).rest]
  OBVIOUS
<1>5. \A s, y : Whole(s) => G(s, y) = [messages |-> <<ToMessage(Command(s))>> \o y.messages, rest |-> y.rest]
  OBVIOUS
<1> HIDE DEF Y, M, next, G, g, last, size
<1>6. PICK f \in [Data -> Y] : \A s \in Data : Obeys(f, s, M, next, g, last)
  BY <1>1, <1>2, <1>3, RecursionExists
<1>7. ASSUME NEW s \in Data PROVE f[s] = ParseOf(f, s)
  <2>1. f[s] = IF s \in M THEN g[<<s, f[next[s]]>>] ELSE last[s]
    BY <1>6 DEF Obeys
  <2>2. CASE Whole(s)
    <3>1. f[Rest(s)] \in Y
      BY <2>2, WholeFacts
    <3>2. PICK y \in Y : y = f[Rest(s)]
      BY <3>1
    <3>3. f[s] = g[<<s, y>>]
      BY <1>4, <2>1, <2>2, <3>2
    <3>4. f[s] = G(s, y)
      BY <1>2, <3>3
    <3>5. f[s] = [messages |-> <<ToMessage(Command(s))>> \o y.messages, rest |-> y.rest]
      BY <1>5, <2>2, <3>4
    <3>6. parse(s).found /\ parse(s).data = Command(s) /\ parse(s).rest = Rest(s)
      BY <2>2, ParseFacts
    <3> QED BY <3>2, <3>5, <3>6 DEF ParseOf
  <2>3. CASE ~Whole(s)
    BY <1>4, <2>1, <2>3, ParseFacts DEF ParseOf
  <2> QED BY <2>2, <2>3
<1>8. f = [s \in Data |-> ParseOf(f, s)]
  BY <1>7
<1> QED BY <1>8

LEMMA ParseAllUnfolds ==
    ASSUME NEW s \in Data
    PROVE  ParseAll[s] = ParseOf(ParseAll, s)
<1> DEFINE IsParse(f) == f = [d \in Seq(Bytes) |-> ParseOf(f, d)]
<1>1. ParseAll = CHOOSE f : IsParse(f)
  BY DEF ParseAll, ParseOf
<1>2. \E f : IsParse(f)
  BY ParseAllExists DEF Data
<1> HIDE DEF IsParse
<1>3. IsParse(ParseAll)
  BY <1>1, <1>2
<1> QED BY <1>3 DEF IsParse, Data

LEMMA ParseAllParses ==
    ASSUME NEW s \in Data
    PROVE  Parsed(s, ParseAll[s])
<1> DEFINE T == {n \in Nat : \A d \in Data : Len(d) < n => Parsed(d, ParseAll[d])}
<1>1. 0 \in T
  BY DEF Data
<1>2. ASSUME NEW n \in Nat, n \in T PROVE n + 1 \in T
  <2> SUFFICES ASSUME NEW d \in Data, Len(d) < n + 1 PROVE Parsed(d, ParseAll[d])
    OBVIOUS
  <2>1. ParseAll[d] = ParseOf(ParseAll, d)
    BY ParseAllUnfolds
  <2>2. CASE Whole(d)
    <3>1. Len(Rest(d)) < Len(d) /\ Len(Rest(d)) \in Nat /\ Len(d) \in Nat /\ Rest(d) \in Data
      BY <2>2, WholeFacts DEF Data
    <3>2. Parsed(Rest(d), ParseAll[Rest(d)])
      BY <1>2, <3>1
    <3>3. ParseAll[d] = [messages |-> <<ToMessage(Command(d))>> \o ParseAll[Rest(d)].messages,
                         rest |-> ParseAll[Rest(d)].rest]
      BY <2>1, <2>2, ParseFacts DEF ParseOf
    <3> QED BY <2>2, <3>2, <3>3, FoundKeeps
  <2>3. CASE ~Whole(d)
    BY <2>1, <2>3, ParseFacts DEF ParseOf
  <2> QED BY <2>2, <2>3
<1> HIDE DEF T
<1>3. Nat \subseteq T
  BY <1>1, <1>2, Induction
<1>4. Len(s) + 1 \in T /\ Len(s) < Len(s) + 1
  BY <1>3 DEF Data
<1> QED BY <1>4 DEF T

-----------------------------------------------------------------------------
(* Concatenations: FlattenSeq, unfolded by induction over the number of pieces *)

\* The function that FlattenSeq chooses.
IsFlattening(f, s, n) ==
    f = [i \in 1 .. n |-> IF i = 1 THEN s[1] ELSE f[i - 1] \o s[i]]

LEMMA FlatteningExists ==
    ASSUME NEW s, NEW n \in Nat PROVE \E f : IsFlattening(f, s, n)
<1> DEFINE T == {k \in Nat : \E f : IsFlattening(f, s, k)}
<1>1. 0 \in T
  <2>1. IsFlattening([i \in 1 .. 0 |-> 0], s, 0)
    BY DEF IsFlattening
  <2> QED BY <2>1
<1>2. ASSUME NEW k \in Nat, k \in T PROVE k + 1 \in T
  <2>1. PICK f : IsFlattening(f, s, k)
    BY <1>2
  <2> DEFINE g == [i \in 1 .. k + 1 |-> IF i = k + 1 THEN IF i = 1 THEN s[1] ELSE f[k] \o s[i] ELSE f[i]]
  <2>2. ASSUME NEW i \in 1 .. k + 1 PROVE g[i] = IF i = 1 THEN s[1] ELSE g[i - 1] \o s[i]
    <3>1. CASE i = k + 1
      BY <3>1
    <3>2. CASE i # k + 1
      <4>1. i \in 1 .. k /\ g[i] = f[i] /\ (i # 1 => i - 1 \in 1 .. k /\ g[i - 1] = f[i - 1])
        BY <3>2
      <4>2. f[i] = IF i = 1 THEN s[1] ELSE f[i - 1] \o s[i]
        BY <2>1, <4>1 DEF IsFlattening
      <4> QED BY <4>1, <4>2
    <3> QED BY <3>1, <3>2
  <2>3. g = [i \in 1 .. k + 1 |-> g[i]]
    OBVIOUS
  <2> HIDE DEF g
  <2>4. IsFlattening(g, s, k + 1)
    BY <2>2, <2>3 DEF IsFlattening
  <2> QED BY <2>4
<1> HIDE DEF T
<1>3. n \in T
  BY <1>1, <1>2, Induction
<1> QED BY <1>3 DEF T

LEMMA FlattenSeqUnfolds ==
    ASSUME NEW n \in Nat \ {0}, NEW s, Len(s) = n
    PROVE  \E f : IsFlattening(f, s, n) /\ FlattenSeq(s) = f[n]
<1> DEFINE f == CHOOSE f : IsFlattening(f, s, n)
<1>1. IsFlattening(f, s, n)
  BY FlatteningExists
<1>2. FlattenSeq(s) = f[n]
  BY DEF FlattenSeq, IsFlattening
<1> QED BY <1>1, <1>2

\* n sequences over S.
Pieces(S, n) == [1 .. n -> Seq(S)]

\* The flattenings of the first pieces, one after the other.
Flattens(f, s, S, n) ==
    /\ f \in [1 .. n -> Seq(S)] /\ f[1] = s[1]
    /\ \A i \in 2 .. n : f[i] = f[i - 1] \o s[i]

LEMMA FlattenSeqIs ==
    ASSUME NEW S, NEW n \in Nat \ {0}, NEW s \in Pieces(S, n)
    PROVE  \E f : Flattens(f, s, S, n) /\ FlattenSeq(s) = f[n]
<1>0. Len(s) = n
  BY DEF Pieces
<1>1. PICK f : IsFlattening(f, s, n) /\ FlattenSeq(s) = f[n]
  BY <1>0, FlattenSeqUnfolds
<1>2. f = [i \in 1 .. n |-> f[i]] /\ f[1] = s[1]
  BY <1>1 DEF IsFlattening
<1>3. ASSUME NEW i \in 2 .. n PROVE f[i] = f[i - 1] \o s[i]
  <2>1. i \in 1 .. n /\ i # 1
    OBVIOUS
  <2> QED BY <1>1, <2>1 DEF IsFlattening
<1> DEFINE T == {k \in Nat : k + 1 <= n => f[k + 1] \in Seq(S)}
<1>4. 0 \in T
  BY <1>2 DEF Pieces
<1>5. ASSUME NEW k \in Nat, k \in T PROVE k + 1 \in T
  <2>1. CASE (k + 1) + 1 <= n
    <3>1. f[k + 1] \in Seq(S) /\ s[k + 2] \in Seq(S)
      BY <1>5, <2>1 DEF Pieces
    <3>2. f[k + 2] = f[k + 1] \o s[k + 2]
      <4>1. k + 2 \in 2 .. n /\ (k + 2) - 1 = k + 1
        BY <2>1
      <4> QED BY <1>3, <4>1
    <3>3. f[k + 2] \in Seq(S)
      BY <3>1, <3>2, ConcatProperties
    <3> QED BY <3>3
  <2>2. CASE ~((k + 1) + 1 <= n)
    BY <2>2
  <2> QED BY <2>1, <2>2
<1> HIDE DEF T
<1>6. Nat \subseteq T
  BY <1>4, <1>5, Induction
<1>7. ASSUME NEW i \in 1 .. n PROVE f[i] \in Seq(S)
  <2>1. i - 1 \in T /\ (i - 1) + 1 = i /\ i <= n
    BY <1>6
  <2> QED BY <2>1 DEF T
<1>8. Flattens(f, s, S, n)
  BY <1>2, <1>3, <1>7 DEF Flattens
<1> QED BY <1>1, <1>8

LEMMA FlattenType ==
    ASSUME NEW S, NEW n \in Nat \ {0}, NEW s \in Pieces(S, n)
    PROVE  FlattenSeq(s) \in Seq(S)
<1>1. Len(s) = n
  BY DEF Pieces
<1>2. PICK f : Flattens(f, s, S, n) /\ FlattenSeq(s) = f[n]
  BY <1>1, FlattenSeqIs
<1> QED BY <1>2 DEF Flattens

LEMMA WordsAreNumbers == Words \subseteq Nat
BY SMTT(30) DEF Words

LEMMA ByteTypes ==
    ASSUME NEW n \in Nat
    PROVE  High(n) \in Bytes /\ Low(n) \in Bytes
<1>1. n % 256 \in 0 .. 255 /\ n \div 256 \in Nat
  OBVIOUS
<1>2. (n \div 256) % 256 \in 0 .. 255
  BY <1>1
<1> QED BY <1>1, <1>2 DEF High, Low, Bytes

LEMMA SerializeType ==
    ASSUME NEW m \in Messages
    PROVE  serialize(m) \in Data
<1>1. m \in [id : Words, type : Bytes, data : Seq(Bytes)]
  BY StreamAssumption
<1>2. m.id \in Nat /\ m.type \in Bytes /\ m.data \in Data
  <2>1. m.id \in Words /\ m.type \in Bytes /\ m.data \in Seq(Bytes)
    BY <1>1
  <2>2. m.id \in Nat
    BY <2>1, WordsAreNumbers
  <2> QED BY <2>1, <2>2 DEF Data
<1>3. High(m.id) \in Bytes /\ Low(m.id) \in Bytes
  BY <1>2, ByteTypes
<1> DEFINE head == <<High(m.id), Low(m.id), m.type>>
           body == head \o m.data
           len == <<High(Len(body)), Low(Len(body))>>
<1>4. head \in Data
  BY <1>2, <1>3 DEF Data
<1> HIDE DEF head
<1>5. body \in Data /\ Len(body) \in Nat
  BY <1>2, <1>4, ConcatProperties DEF Data
<1> HIDE DEF body
<1>6. len \in Data
  BY <1>5, ByteTypes DEF Data
<1>7. MAGIC_TOKEN \in Data
  BY DEF MAGIC_TOKEN, Data, Bytes
<1> HIDE DEF len
<1>8. (MAGIC_TOKEN \o len) \o body \in Data
  BY <1>5, <1>6, <1>7, ConcatProperties DEF Data
<1> QED BY <1>8 DEF serialize, body, head, len

LEMMA PartOfPart ==
    ASSUME NEW s \in Data, NEW k \in 0 .. Len(s), NEW n \in 0 .. k
    PROVE  /\ Len(SubSeq(s, 1, k)) = k
           /\ SubSeq(SubSeq(s, 1, k), 1, n) = SubSeq(s, 1, n)
           /\ SubSeq(SubSeq(s, 1, k), n + 1, k) = SubSeq(s, n + 1, k)
<1>0. Len(s) \in Nat
  BY DEF Data
<1> DEFINE u == SubSeq(s, 1, k)
           v == SubSeq(s, k + 1, Len(s))
<1>1. SplitAt(s, k, u, v)
  BY Halves
<1>2. s = u \o v /\ u \in Data /\ v \in Data /\ Len(u) = k
  BY <1>1 DEF SplitAt
<1> HIDE DEF u, v
<1>3. SubSeq(u \o v, 1, n) = SubSeq(u, 1, n)
  BY <1>2, PartOfFirst
<1>4. SubSeq(u \o v, n + 1, k) = SubSeq(u, n + 1, k)
  <2>1. n + 1 \in Nat \ {0} /\ k \in Nat /\ k <= Len(u)
    BY <1>0, <1>2
  <2> QED BY <1>2, <2>1, PartOfFirst
<1> QED BY <1>2, <1>3, <1>4 DEF u

-----------------------------------------------------------------------------
(* Reads *)

StreamOk == \E n \in Nat \ {0} : stream \in [1 .. n -> Items]

LEMMA ItemType ==
    ASSUME NEW it \in Items
    PROVE  ItemBytes(it) \in Data
<1>1. CASE it \in [junk : {TRUE}, bytes : Junk]
  <2>1. it.junk = TRUE /\ it.bytes \in Junk
    BY <1>1
  <2>2. ItemBytes(it) = it.bytes
    BY <2>1 DEF ItemBytes
  <2>3. Junk \subseteq Data
    BY StreamAssumption DEF Data
  <2> QED BY <2>1, <2>2, <2>3
<1>2. CASE it \in [junk : {FALSE}, message : Messages]
  <2>1. PICK m \in Messages : m = it.message
    BY <1>2
  <2>2. ~it.junk /\ ItemBytes(it) = serialize(m)
    BY <1>2, <2>1 DEF ItemBytes
  <2>3. serialize(m) \in Data
    BY SerializeType
  <2> QED BY <2>2, <2>3
<1> QED BY <1>1, <1>2 DEF Items

LEMMA StreamType ==
    ASSUME StreamOk
    PROVE  StreamBytes \in Data
<1>1. PICK n \in Nat \ {0} : stream \in [1 .. n -> Items]
  BY DEF StreamOk
<1>2. [i \in DOMAIN stream |-> ItemBytes(stream[i])] \in Pieces(Bytes, n)
  BY <1>1, ItemType DEF Pieces, Data
<1> QED BY <1>1, <1>2, FlattenType DEF StreamBytes, Data

\* Whatever comes next, what was handed on and what is left over decode to what all
\* the bytes decode to.
ReadInv ==
    /\ StreamOk /\ pos \in 0 .. Len(StreamBytes)
    /\ partialInput \in Data /\ got \in Seq(AnyMessage) /\ ~Whole(partialInput)
    /\ \A t \in Data : Decode[SubSeq(StreamBytes, 1, pos) \o t] = got \o Decode[partialInput \o t]

\* The zero bytes the parser starts with begin no token.
LEMMA InitRead == Init => ReadInv
<1> SUFFICES ASSUME Init PROVE ReadInv
  OBVIOUS
<1>1. StreamOk
  BY BoundAssumption DEF Init, StreamOk
<1>2. /\ pos = 0 /\ Len(StreamBytes) \in Nat /\ SubSeq(StreamBytes, 1, 0) = <<>>
      /\ got = <<>> /\ got \in Seq(AnyMessage) /\ <<>> \in Data
  BY <1>1, StreamType DEF Init, Data
<1>3. /\ partialInput \in Data /\ Len(partialInput) = COMMAND_SIZE
      /\ \A i \in 1 .. COMMAND_SIZE : partialInput[i] = 0
  BY BoundAssumption DEF Init, Data, Bytes
<1>4. ASSUME NEW t \in Data PROVE Decode[partialInput \o t] = Decode[t]
  <2>1. ASSUME NEW i \in 1 .. Len(partialInput) PROVE ~TokenAt(partialInput \o t, i)
    <3>1. (partialInput \o t)[i] = partialInput[i] /\ partialInput[i] = 0
      BY <1>3 DEF Data
    <3> QED BY <3>1 DEF TokenAt
  <2> QED BY <1>3, <2>1, DecodeMoves DEF NoTokenIn
<1>5. ASSUME NEW t \in Data
      PROVE  Decode[SubSeq(StreamBytes, 1, pos) \o t] = got \o Decode[partialInput \o t]
  <2>1. <<>> \o t = t
    BY ConcatEmptySeq DEF Data
  <2>2. Decode[t] \in Seq(AnyMessage)
    BY DecodeType
  <2>3. <<>> \o Decode[t] = Decode[t]
    BY <2>2, ConcatEmptySeq
  <2> QED BY <1>2, <1>4, <2>1, <2>3
<1>6. ~Whole(partialInput)
  <2>1. ASSUME NEW i \in Nat \ {0} PROVE ~TokenAt(partialInput, i)
    <3>1. CASE i \in 1 .. COMMAND_SIZE
      BY <1>3, <3>1 DEF TokenAt
    <3>2. CASE i \notin 1 .. COMMAND_SIZE
      BY <1>3, <3>2, BoundAssumption DEF TokenAt
    <3> QED BY <3>1, <3>2
  <2>2. Search(partialInput) = 0
    BY <1>3, <2>1, SearchIs DEF FirstToken
  <2> QED BY <2>2 DEF Whole, HasLength
<1>7. pos \in 0 .. Len(StreamBytes)
  BY <1>2
<1> QED BY <1>1, <1>2, <1>3, <1>5, <1>6, <1>7 DEF ReadInv

LEMMA ReadKeeps ==
    ASSUME ReadInv, NEW n \in 1 .. MaxChunk, Read(n)
    PROVE  ReadInv'
<1> DEFINE b == StreamBytes
           c == SubSeq(b, pos + 1, pos + n)
           r == ParseAll[partialInput \o c]
<1>0. stream' = stream /\ StreamBytes' = b /\ pos' = pos + n /\ partialInput' = r.rest /\ got' = got \o r.messages
  BY DEF Read, StreamBytes
<1>1. /\ b \in Data /\ Len(b) \in Nat /\ pos \in Nat /\ n \in Nat /\ pos + n \in 0 .. Len(b)
      /\ partialInput \in Data /\ got \in Seq(AnyMessage)
      /\ \A t \in Data : Decode[SubSeq(b, 1, pos) \o t] = got \o Decode[partialInput \o t]
  <2>1. b \in Data
    BY StreamType DEF ReadInv
  <2>2. Len(b) \in Nat
    BY <2>1 DEF Data
  <2> HIDE DEF b
  <2>3. pos \in 0 .. Len(b) /\ pos + n <= Len(b) /\ n \in Nat
    BY BoundAssumption DEF ReadInv, Read, b
  <2> QED BY <2>1, <2>2, <2>3 DEF ReadInv, b
<1> HIDE DEF b
<1>2. c \in Data /\ SubSeq(b, 1, pos + n) = SubSeq(b, 1, pos) \o c /\ SubSeq(b, 1, pos) \in Data
  <2>1. PICK a \in Data : a = SubSeq(b, 1, pos + n)
    <3>1. PICK k \in 0 .. Len(b) : k = pos + n
      BY <1>1
    <3>2. SplitAt(b, k, SubSeq(b, 1, k), SubSeq(b, k + 1, Len(b)))
      BY <1>1, Halves
    <3> QED BY <3>1, <3>2 DEF SplitAt
  <2>2. Len(a) = pos + n /\ SubSeq(a, 1, pos) = SubSeq(b, 1, pos) /\ SubSeq(a, pos + 1, pos + n) = c
    BY <1>1, <2>1, PartOfPart
  <2>3. SplitAt(a, pos, SubSeq(a, 1, pos), SubSeq(a, pos + 1, Len(a)))
    BY <1>1, <2>2, Halves
  <2> QED BY <2>1, <2>2, <2>3 DEF SplitAt
<1> HIDE DEF c
<1>3. partialInput \o c \in Data
  BY <1>1, <1>2, DataConcat
<1>4. Parsed(partialInput \o c, r)
  BY <1>3, ParseAllParses
<1> HIDE DEF r
<1>5. r.rest \in Data /\ r.messages \in Seq(AnyMessage) /\ ~Whole(r.rest)
  BY <1>4 DEF Parsed
<1>6. ASSUME NEW t \in Data
      PROVE  Decode[SubSeq(b, 1, pos + n) \o t] = (got \o r.messages) \o Decode[r.rest \o t]
  <2>1. c \o t \in Data /\ r.rest \o t \in Data
    BY <1>2, <1>5, DataConcat
  <2>2. SubSeq(b, 1, pos + n) \o t = SubSeq(b, 1, pos) \o (c \o t)
    <3>1. PICK a \in Data : a = SubSeq(b, 1, pos)
      BY <1>2
    <3>2. (a \o c) \o t = a \o (c \o t)
      BY <1>2, DataAssoc
    <3> QED BY <1>2, <3>1, <3>2
  <2>3. Decode[SubSeq(b, 1, pos) \o (c \o t)] = got \o Decode[partialInput \o (c \o t)]
    BY <1>1, <2>1
  <2>4. partialInput \o (c \o t) = (partialInput \o c) \o t
    <3>1. partialInput \in Data /\ c \in Data
      BY <1>1, <1>2
    <3> QED BY <3>1, DataAssoc
  <2>5. Decode[(partialInput \o c) \o t] = r.messages \o Decode[r.rest \o t]
    BY <1>4 DEF Parsed
  <2>6. got \o (r.messages \o Decode[r.rest \o t]) = (got \o r.messages) \o Decode[r.rest \o t]
    <3>1. PICK d \in Seq(AnyMessage) : d = Decode[r.rest \o t]
      BY <2>1, DecodeType
    <3>2. PICK e \in Seq(AnyMessage) : e = r.messages
      BY <1>5
    <3>3. (got \o e) \o d = got \o (e \o d)
      BY <1>1, MessagesAssoc
    <3> QED BY <3>1, <3>2, <3>3
  <2> QED BY <2>2, <2>3, <2>4, <2>5, <2>6
<1>7. got \o r.messages \in Seq(AnyMessage)
  BY <1>1, <1>5, ConcatProperties
<1>8. StreamOk'
  BY <1>0 DEF ReadInv, StreamOk
<1> QED BY <1>0, <1>1, <1>5, <1>6, <1>7, <1>8 DEF ReadInv

LEMMA NextRead == ReadInv /\ [Next]_vars => ReadInv'
<1> SUFFICES ASSUME ReadInv, [Next]_vars PROVE ReadInv'
  OBVIOUS
<1>1. CASE UNCHANGED vars
  BY <1>1 DEF vars, ReadInv, StreamOk, StreamBytes
<1>2. CASE \E n \in 1 .. MaxChunk : Read(n)
  BY <1>2, ReadKeeps
<1> QED BY <1>1, <1>2 DEF Next, Done

LEMMA ReadChunkFree == ReadInv => ChunkFree
<1> SUFFICES ASSUME ReadInv PROVE ChunkFree
  OBVIOUS
<1>1. SubSeq(StreamBytes, 1, pos) \in Data
  <2>1. StreamBytes \in Data
    BY StreamType DEF ReadInv
  <2>2. PICK b \in Data : b = StreamBytes
    BY <2>1
  <2>3. pos \in 0 .. Len(b)
    BY <2>2 DEF ReadInv
  <2>4. SplitAt(b, pos, SubSeq(b, 1, pos), SubSeq(b, pos + 1, Len(b)))
    BY <2>3, Halves
  <2> QED BY <2>2, <2>4 DEF SplitAt
<1>2. <<>> \in Data /\ partialInput \in Data /\ got \in Seq(AnyMessage)
  BY DEF ReadInv, Data
<1>3. Decode[SubSeq(StreamBytes, 1, pos) \o <<>>] = got \o Decode[partialInput \o <<>>]
  BY <1>2 DEF ReadInv
<1>4. SubSeq(StreamBytes, 1, pos) \o <<>> = SubSeq(StreamBytes, 1, pos) /\ partialInput \o <<>> = partialInput
  BY <1>1, <1>2, ConcatEmptySeq DEF Data
<1>5. Decode[partialInput] = <<>>
  BY <1>2, DecodeUnfolds DEF ReadInv
<1>6. got \o <<>> = got
  BY <1>2, ConcatEmptySeq
<1> QED BY <1>3, <1>4, <1>5, <1>6 DEF ChunkFree

\* How TCP cuts the stream into reads makes no difference: after every read, what was
\* handed on is what the bytes so far contain, wherever tokens, lengths and commands
\* are cut.
THEOREM ReadsDoNotMatter == Spec => []ChunkFree
BY InitRead, NextRead, ReadChunkFree, PTL DEF Spec

-----------------------------------------------------------------------------
(* Serialized messages *)

LEMMA WordBound ==
    ASSUME NEW n \in Words
    PROVE  n <= 65535
BY SMTT(30) DEF Words

LEMMA WordBytes ==
    ASSUME NEW n \in Words
    PROVE  TwoBytes(High(n), Low(n)) = n
<1>1. n \in Nat /\ (n \div 256) \in 0 .. 255
  <2>1. n \in Nat /\ n <= 65535
    BY WordBound, WordsAreNumbers
  <2>2. n \div 256 \in Nat /\ 256 * (n \div 256) <= n
    BY <2>1, SMT
  <2> QED BY <2>1, <2>2, SMT
<1>2. n = 256 * (n \div 256) + (n % 256)
  BY <1>1, SMT
<1>3. (n \div 256) % 256 = n \div 256
  BY <1>1
<1> QED BY <1>1, <1>2, <1>3 DEF TwoBytes, High, Low

LEMMA WholePart ==
    ASSUME NEW s \in Data
    PROVE  SubSeq(s, 1, Len(s)) = s
BY DEF Data

\* The bytes of a message after the length.
Body(m) == <<High(m.id), Low(m.id), m.type>> \o m.data

LEMMA BodyFacts ==
    ASSUME NEW m \in Messages
    PROVE  Body(m) \in Data /\ Len(Body(m)) \in Words /\ Len(Body(m)) \in Nat /\ ToMessage(Body(m)) = m
<1>1. m \in [id : Words, type : Bytes, data : Seq(Bytes)] /\ Len(m.data) + 3 \in Words
  BY StreamAssumption
<1>2. m.id \in Words /\ m.type \in Bytes /\ m.data \in Data
  BY <1>1 DEF Data
<1>3. High(m.id) \in Bytes /\ Low(m.id) \in Bytes
  BY <1>2, WordsAreNumbers, ByteTypes
<1>4. PICK a \in Bytes, b \in Bytes, c \in Bytes, d \in Data, n \in Nat :
        a = High(m.id) /\ b = Low(m.id) /\ c = m.type /\ d = m.data /\ n = Len(d)
  <2>1. Len(m.data) \in Nat
    BY <1>2 DEF Data
  <2> QED BY <1>2, <1>3, <2>1
<1> DEFINE head == <<a, b, c>>
           body == head \o d
<1>5. /\ head \in Data /\ Len(head) = 3 /\ body \in Data /\ Len(body) = n + 3
      /\ body[1] = a /\ body[2] = b /\ body[3] = c
  BY <1>4 DEF Data
<1>6. SubSeq(body, 4, Len(body)) = d
  <2> HIDE DEF head
  <2>1. SubSeq(head \o d, Len(head) + 1, Len(head) + n) = SubSeq(d, 1, n)
    BY <1>4, <1>5, PartOfSecond
  <2>2. Len(head) + 1 = 4 /\ Len(head) + n = Len(body)
    BY <1>5
  <2> QED BY <1>4, <2>1, <2>2, WholePart
<1>7. Body(m) = body
  BY <1>4 DEF Body
<1> HIDE DEF head, body
<1>8. Len(body) \in Words /\ Len(body) \in Nat /\ Len(body) >= 3
  <2>1. Len(body) = Len(m.data) + 3
    BY <1>4, <1>5
  <2>2. Len(body) \in Words
    BY <1>1, <2>1
  <2> QED BY <1>5, <2>2
<1>9. ToMessage(body) = m
  <2>1. a * 256 + b = m.id
    BY <1>2, <1>4, WordBytes DEF TwoBytes
  <2>2. ToMessage(body) = [id |-> body[1] * 256 + body[2], type |-> body[3],
                           data |-> SubSeq(body, 4, Len(body))]
    BY <1>8 DEF ToMessage
  <2>3. ToMessage(body) = [id |-> m.id, type |-> m.type, data |-> m.data]
    BY <1>4, <1>5, <1>6, <2>1, <2>2
  <2> QED BY <1>1, <2>3
<1> QED BY <1>5, <1>7, <1>8, <1>9

\* serialize makes one whole command, its body, and nothing else.
LEMMA SerializedCommand ==
    ASSUME NEW m \in Messages
    PROVE  /\ serialize(m) \in Data /\ Len(serialize(m)) \in Nat /\ Len(serialize(m)) > 0
           /\ serialize(m)[1] = 167 /\ Whole(serialize(m))
           /\ Command(serialize(m)) = Body(m) /\ Rest(serialize(m)) = <<>>
<1>1. PICK y \in Data, n \in Nat : y = Body(m) /\ n = Len(y) /\ n \in Words
  BY BodyFacts
<1>2. PICK a \in Bytes, b \in Bytes : a = High(n) /\ b = Low(n) /\ TwoBytes(a, b) = n
  BY <1>1, ByteTypes, WordBytes
<1> DEFINE head == <<167, 64, 160, 245, a, b>>
           x == head \o y
<1>3. /\ head \in Data /\ Len(head) = 6 /\ x \in Data /\ Len(x) = 6 + n
      /\ x[1] = 167 /\ x[2] = 64 /\ x[3] = 160 /\ x[4] = 245 /\ x[5] = a /\ x[6] = b
  BY <1>1 DEF Data, Bytes
<1>4. serialize(m) = x
  <2>1. serialize(m) = (<<167, 64, 160, 245>> \o <<High(Len(Body(m))), Low(Len(Body(m)))>>) \o Body(m)
    BY DEF serialize, MAGIC_TOKEN, Body
  <2>2. <<167, 64, 160, 245>> \o <<a, b>> = head
    <3> DEFINE p == <<167, 64, 160, 245>> \o <<a, b>>
    <3>1. /\ p \in Seq(Bytes) /\ Len(p) = 6
          /\ p[1] = 167 /\ p[2] = 64 /\ p[3] = 160 /\ p[4] = 245 /\ p[5] = a /\ p[6] = b
      BY DEF Bytes
    <3>2. /\ head \in Seq(Bytes) /\ Len(head) = 6
          /\ head[1] = 167 /\ head[2] = 64 /\ head[3] = 160 /\ head[4] = 245
          /\ head[5] = a /\ head[6] = b
      BY DEF Bytes
    <3> HIDE DEF p, head
    <3>3. \A i \in 1 .. 6 : p[i] = head[i]
      BY <3>1, <3>2
    <3>4. p = head
      BY <3>1, <3>2, <3>3, SeqEqual
    <3> QED BY <3>4 DEF p
  <2>3. serialize(m) = (<<167, 64, 160, 245>> \o <<a, b>>) \o y
    BY <1>1, <1>2, <2>1
  <2> QED BY <2>2, <2>3
<1>5. SubSeq(x, 7, 6 + n) = y
  <2> HIDE DEF head
  <2>1. SubSeq(head \o y, Len(head) + 1, Len(head) + n) = SubSeq(y, 1, n)
    BY <1>1, <1>3, PartOfSecond
  <2> QED BY <1>1, <1>3, <2>1, WholePart
<1> HIDE DEF head, x
<1>6. Search(x) = 1
  <2>1. TokenAt(x, 1)
    BY <1>3 DEF TokenAt
  <2>2. FirstToken(x, 1)
    BY <2>1 DEF FirstToken
  <2> QED BY <1>3, <2>2, SearchIs, FirstTokenUnique
<1>7. HasLength(x) /\ BodyFrom(x) = 7 /\ BodyTo(x) = 6 + n
  <2>1. BodyFrom(x) = 7 /\ HasLength(x)
    <3>1. BodyFrom(x) = Search(x) + 6 /\ (Search(x) # 0 /\ Search(x) + 5 <= Len(x) => HasLength(x))
      BY <1>3, BodyAt
    <3>2. Search(x) # 0 /\ Search(x) + 5 <= Len(x)
      BY <1>1, <1>3, <1>6
    <3> QED BY <1>6, <3>1, <3>2
  <2>2. LengthOf(x) = n
    BY <1>2, <1>3, <1>6 DEF LengthOf
  <2>3. BodyTo(x) = 1 + 5 + n
    BY <1>3, <1>6, <2>1, <2>2, BodyAt
  <2> QED BY <2>1, <2>3
<1>8. Whole(x)
  BY <1>3, <1>7 DEF Whole
<1>9. Command(x) = y
  BY <1>5, <1>7 DEF Command
<1>10. Rest(x) = <<>>
  <2>1. Rest(x) = SubSeq(x, 6 + n + 1, 6 + n)
    BY <1>3, <1>7 DEF Rest
  <2> QED BY <1>3, <2>1 DEF Data
<1> QED BY <1>1, <1>3, <1>4, <1>8, <1>9, <1>10

\* The parser gives back what serialize was given.
LEMMA SerializedDecodes ==
    ASSUME NEW m \in Messages, NEW t \in Data
    PROVE  Decode[serialize(m) \o t] = <<m>> \o Decode[t]
<1>1. PICK x \in Data : x = serialize(m) /\ Whole(x) /\ Command(x) = Body(m) /\ Rest(x) = <<>>
  BY SerializedCommand
<1>2. Whole(x \o t) /\ Command(x \o t) = Body(m) /\ Rest(x \o t) = <<>> \o t /\ x \o t \in Data
  BY <1>1, WholeStays, DataConcat
<1>3. <<>> \o t = t
  BY DEF Data
<1>4. Decode[x \o t] = <<ToMessage(Body(m))>> \o Decode[t]
  BY <1>2, <1>3, DecodeUnfolds
<1> QED BY <1>1, <1>4, BodyFacts

-----------------------------------------------------------------------------
(* Junk without a token *)

NoToken(s) == \A i \in Nat \ {0} : ~TokenAt(s, i)

LEMMA NoTokenSearch ==
    ASSUME NEW s \in Data, Search(s) = 0
    PROVE  NoToken(s)
BY SearchIs DEF FirstToken, NoToken

LEMMA NoTokenHalves ==
    ASSUME NEW u \in Data, NEW v \in Data, NoToken(u \o v)
    PROVE  NoToken(u) /\ NoToken(v)
<1>1. ASSUME NEW i \in Nat \ {0}, TokenAt(u, i) PROVE FALSE
  <2>1. i + 3 <= Len(u)
    BY <1>1 DEF TokenAt
  <2> QED BY <1>1, <2>1, TokenStays DEF NoToken
<1>2. ASSUME NEW i \in Nat \ {0}, TokenAt(v, i) PROVE FALSE
  <2>1. Len(u) + i \in Nat \ {0}
    BY DEF Data
  <2> QED BY <1>2, <2>1, TokenMoves DEF NoToken
<1> QED BY <1>1, <1>2 DEF NoToken

\* No token begins before a first byte of a token: it stands nowhere else in one.
LEMMA NoTokenAcross ==
    ASSUME NEW w \in Data, NoToken(w), NEW v \in Data, Len(v) > 0, v[1] = 167
    PROVE  NoTokenIn(w, v)
<1> SUFFICES ASSUME NEW i \in 1 .. Len(w), TokenAt(w \o v, i) PROVE FALSE
  BY DEF NoTokenIn
<1>1. Len(w) \in Nat /\ (w \o v)[Len(w) + 1] = 167
  BY DEF Data
<1>2. i \in Nat \ {0}
  BY <1>1
<1>3. CASE i + 3 <= Len(w)
  BY <1>2, <1>3, TokenStays DEF NoToken
<1>4. CASE ~(i + 3 <= Len(w))
  <2>1. PICK x : x = w \o v
    OBVIOUS
  <2>2. x[i + 1] = 64 /\ x[i + 2] = 160 /\ x[i + 3] = 245 /\ x[Len(w) + 1] = 167
    BY <1>1, <2>1 DEF TokenAt
  <2>3. Len(w) + 1 = i + 1 \/ Len(w) + 1 = i + 2 \/ Len(w) + 1 = i + 3
    BY <1>1, <1>2, <1>4
  <2> QED BY <2>2, <2>3
<1> QED BY <1>3, <1>4

\* The bytes x, whose junk is y, decode to z and leave the end of the junk over.
Carried(x, y, z) ==
    \E u, w \in Data : /\ y = u \o w
                       /\ \A t \in Data : Decode[x \o t] = z \o Decode[w \o t]

LEMMA CarryJunk ==
    ASSUME NEW x \in Data, NEW y \in Data, NEW z \in Seq(AnyMessage), NEW j \in Data, Carried(x, y, z)
    PROVE  Carried(x \o j, y \o j, z)
<1>1. PICK u \in Data, w \in Data : /\ y = u \o w
                                    /\ \A t \in Data : Decode[x \o t] = z \o Decode[w \o t]
  BY DEF Carried
<1>2. y \o j = u \o (w \o j) /\ w \o j \in Data
  <2>1. (u \o w) \o j = u \o (w \o j)
    <3>1. Associate(u, w, j)
      BY DataAssociate
    <3> QED BY <3>1 DEF Associate
  <2>2. w \o j \in Data
    BY DataConcat
  <2> QED BY <1>1, <2>1, <2>2
<1>3. ASSUME NEW t \in Data PROVE Decode[(x \o j) \o t] = z \o Decode[(w \o j) \o t]
  <2>1. (x \o j) \o t = x \o (j \o t)
    <3>1. Associate(x, j, t)
      BY DataAssociate
    <3> QED BY <3>1 DEF Associate
  <2>2. (w \o j) \o t = w \o (j \o t)
    <3>1. Associate(w, j, t)
      BY DataAssociate
    <3> QED BY <3>1 DEF Associate
  <2>3. Decode[x \o (j \o t)] = z \o Decode[w \o (j \o t)]
    BY <1>1, DataConcat
  <2> QED BY <2>1, <2>2, <2>3
<1> QED BY <1>2, <1>3 DEF Carried

LEMMA CarryMessage ==
    ASSUME NEW x \in Data, NEW y \in Data, NEW z \in Seq(AnyMessage), NEW m \in Messages,
           m \in AnyMessage, NoToken(y), Carried(x, y, z)
    PROVE  Carried(x \o serialize(m), y \o <<0>>, z \o <<m>>)
<1>1. PICK u \in Data, w \in Data : /\ y = u \o w
                                    /\ \A t \in Data : Decode[x \o t] = z \o Decode[w \o t]
  BY DEF Carried
<1>2. NoToken(w)
  BY <1>1, NoTokenHalves
<1>3. PICK b \in Data : b = serialize(m) /\ Len(b) > 0 /\ b[1] = 167
  BY SerializedCommand
<1>4. <<0>> \in Data /\ <<>> \in Data /\ <<m>> \in Seq(AnyMessage)
  BY DEF Data, Bytes
<1>5. ASSUME NEW t \in Data PROVE Decode[(x \o b) \o t] = (z \o <<m>>) \o Decode[<<>> \o t]
  <2>1. b \o t \in Data /\ Len(b \o t) > 0 /\ (b \o t)[1] = 167
    BY <1>3 DEF Data
  <2>2. NoTokenIn(w, b \o t)
    BY <1>2, <2>1, NoTokenAcross
  <2>3. Decode[x \o (b \o t)] = z \o Decode[w \o (b \o t)]
    BY <1>1, <2>1
  <2>4. Decode[w \o (b \o t)] = Decode[b \o t]
    BY <2>1, <2>2, DecodeMoves
  <2>5. Decode[b \o t] = <<m>> \o Decode[t]
    BY <1>3, SerializedDecodes
  <2>6. (x \o b) \o t = x \o (b \o t)
    <3>1. Associate(x, b, t)
      BY DataAssociate
    <3> QED BY <3>1 DEF Associate
  <2>7. z \o (<<m>> \o Decode[t]) = (z \o <<m>>) \o Decode[t]
    <3>1. PICK d \in Seq(AnyMessage), e \in Seq(AnyMessage) : d = Decode[t] /\ e = <<m>>
      BY <1>4, DecodeType
    <3>2. Associate(z, e, d)
      BY MessagesAssociate
    <3> QED BY <3>1, <3>2 DEF Associate
  <2>8. <<>> \o t = t
    BY DEF Data
  <2> QED BY <2>3, <2>4, <2>5, <2>6, <2>7, <2>8
<1>6. y \o <<0>> = (y \o <<0>>) \o <<>> /\ y \o <<0>> \in Data
  <2>1. y \o <<0>> \in Data
    BY <1>4, DataConcat
  <2> QED BY <2>1, ConcatEmptySeq DEF Data
<1>7. Carried(x \o b, y \o <<0>>, z \o <<m>>)
  BY <1>4, <1>5, <1>6 DEF Carried
<1> QED BY <1>3, <1>7

LEMMA MessageIsAny ==
    ASSUME NEW m \in Messages
    PROVE  m \in AnyMessage
<1>1. m \in [id : Words, type : Bytes, data : Seq(Bytes)]
  BY StreamAssumption
<1>2. m.id \in Nat /\ m.type \in Nat /\ m.data \in Data
  <2>1. m.id \in Words /\ m.type \in Bytes /\ m.data \in Seq(Bytes)
    BY <1>1
  <2>2. Bytes \subseteq Nat
    BY DEF Bytes
  <2> QED BY <2>1, <2>2, WordsAreNumbers DEF Data
<1>3. m = [id |-> m.id, type |-> m.type, data |-> m.data]
  BY <1>1
<1>4. [id |-> m.id, type |-> m.type, data |-> m.data] \in AnyMessage
  BY <1>2 DEF AnyMessage
<1> QED BY <1>3, <1>4

ItemJunk(it) == IF it.junk THEN it.bytes ELSE <<0>>
ItemSent(it) == IF it.junk THEN <<>> ELSE <<it.message>>

LEMMA CarryItem ==
    ASSUME NEW x \in Data, NEW y \in Data, NEW z \in Seq(AnyMessage), NEW it \in Items,
           NoToken(y), Carried(x, y, z)
    PROVE  Carried(x \o ItemBytes(it), y \o ItemJunk(it), z \o ItemSent(it))
<1>1. CASE it \in [junk : {TRUE}, bytes : Junk]
  <2>1. PICK j \in Data : j = it.bytes
    BY <1>1, StreamAssumption DEF Data
  <2>2. it.junk
    BY <1>1
  <2>3. ItemBytes(it) = j /\ ItemJunk(it) = j /\ ItemSent(it) = <<>>
    BY <2>1, <2>2 DEF ItemBytes, ItemJunk, ItemSent
  <2>4. z \o <<>> = z
    BY ConcatEmptySeq
  <2>5. Carried(x \o j, y \o j, z)
    BY CarryJunk
  <2> QED BY <2>3, <2>4, <2>5
<1>2. CASE it \in [junk : {FALSE}, message : Messages]
  <2>1. PICK m \in Messages : m = it.message
    BY <1>2
  <2>2. ~it.junk
    BY <1>2
  <2>3. ItemBytes(it) = serialize(m) /\ ItemJunk(it) = <<0>> /\ ItemSent(it) = <<m>>
    BY <2>1, <2>2 DEF ItemBytes, ItemJunk, ItemSent
  <2>4. m \in AnyMessage
    BY MessageIsAny
  <2>5. Carried(x \o serialize(m), y \o <<0>>, z \o <<m>>)
    BY <2>4, CarryMessage
  <2> QED BY <2>3, <2>5
<1> QED BY <1>1, <1>2 DEF Items

LEMMA ItemParts ==
    ASSUME NEW it \in Items
    PROVE  ItemBytes(it) \in Data /\ ItemJunk(it) \in Data /\ ItemSent(it) \in Seq(AnyMessage)
<1>1. CASE it \in [junk : {TRUE}, bytes : Junk]
  <2>1. PICK j \in Data : j = it.bytes
    BY <1>1, StreamAssumption DEF Data
  <2>2. it.junk
    BY <1>1
  <2>3. ItemJunk(it) = j /\ ItemSent(it) = <<>>
    BY <2>1, <2>2 DEF ItemJunk, ItemSent
  <2>4. <<>> \in Seq(AnyMessage)
    OBVIOUS
  <2> QED BY <2>3, <2>4, ItemType
<1>2. CASE it \in [junk : {FALSE}, message : Messages]
  <2>1. PICK m \in Messages : m = it.message
    BY <1>2
  <2>2. ~it.junk
    BY <1>2
  <2>3. ItemJunk(it) = <<0>> /\ ItemSent(it) = <<m>>
    BY <2>1, <2>2 DEF ItemJunk, ItemSent
  <2>4. <<m>> \in Seq(AnyMessage) /\ <<0>> \in Data
    BY MessageIsAny DEF Data, Bytes
  <2> QED BY <2>3, <2>4, ItemType
<1> QED BY <1>1, <1>2 DEF Items

\* A stream whose junk holds no token decodes to the messages that were sent.
LEMMA StreamDecodes ==
    ASSUME StreamOk, Search(JunkBytes) = 0
    PROVE  SentMessages \in Seq(AnyMessage) /\ Decode[StreamBytes] = SentMessages
<1>1. PICK n \in Nat \ {0} : stream \in [1 .. n -> Items]
  BY DEF StreamOk
<1> DEFINE b == [i \in 1 .. n |-> ItemBytes(stream[i])]
           c == [i \in 1 .. n |-> ItemJunk(stream[i])]
           d == [i \in 1 .. n |-> ItemSent(stream[i])]
<1>2. b \in Pieces(Bytes, n) /\ c \in Pieces(Bytes, n) /\ d \in Pieces(AnyMessage, n)
  BY <1>1, ItemParts DEF Pieces, Data
<1>3. StreamBytes = FlattenSeq(b) /\ JunkBytes = FlattenSeq(c) /\ SentMessages = FlattenSeq(d)
  BY <1>1 DEF StreamBytes, JunkBytes, SentMessages, ItemJunk, ItemSent
<1>4. ASSUME NEW k \in 1 .. n
      PROVE  /\ stream[k] \in Items /\ b[k] = ItemBytes(stream[k])
             /\ c[k] = ItemJunk(stream[k]) /\ d[k] = ItemSent(stream[k])
  BY <1>1
<1> HIDE DEF b, c, d
<1>5. PICK f : Flattens(f, b, Bytes, n) /\ FlattenSeq(b) = f[n]
  BY <1>2, FlattenSeqIs
<1>6. PICK g : Flattens(g, c, Bytes, n) /\ FlattenSeq(c) = g[n]
  BY <1>2, FlattenSeqIs
<1>7. PICK h : Flattens(h, d, AnyMessage, n) /\ FlattenSeq(d) = h[n]
  BY <1>2, FlattenSeqIs
<1>8. ASSUME NEW k \in 1 .. n PROVE f[k] \in Data /\ g[k] \in Data /\ h[k] \in Seq(AnyMessage)
  BY <1>5, <1>6, <1>7 DEF Flattens, Data
<1> DEFINE Good(k) == NoToken(g[k]) => Carried(f[k], g[k], h[k])
           T == {k \in Nat : k + 1 <= n => Good(k + 1)}
<1>9. Good(1)
  <2>1. 1 \in 1 .. n
    OBVIOUS
  <2>2. PICK x \in Data : x = <<>>
    <3>1. <<>> \in Data
      BY DEF Data
    <3> QED BY <3>1
  <2>3. PICK z \in Seq(AnyMessage) : z = <<>>
    <3>1. <<>> \in Seq(AnyMessage)
      OBVIOUS
    <3> QED BY <3>1
  <2>4. NoToken(x)
    BY <2>2 DEF NoToken, TokenAt
  <2>5. Carried(x, x, z)
    <3>1. x = x \o x
      BY <2>2
    <3>2. ASSUME NEW t \in Data PROVE Decode[x \o t] = z \o Decode[x \o t]
      <4>1. x \o t \in Data
        BY DataConcat
      <4> QED BY <2>3, <4>1, DecodeType, ConcatEmptySeq
    <3> QED BY <3>1, <3>2 DEF Carried
  <2>6. Carried(x \o ItemBytes(stream[1]), x \o ItemJunk(stream[1]), z \o ItemSent(stream[1]))
    BY <1>4, <2>1, <2>4, <2>5, CarryItem
  <2>7. /\ x \o ItemBytes(stream[1]) = f[1] /\ x \o ItemJunk(stream[1]) = g[1]
        /\ z \o ItemSent(stream[1]) = h[1]
    <3>1. /\ f[1] = ItemBytes(stream[1]) /\ g[1] = ItemJunk(stream[1]) /\ h[1] = ItemSent(stream[1])
      BY <1>4, <1>5, <1>6, <1>7, <2>1 DEF Flattens
    <3>2. f[1] \in Data /\ g[1] \in Data /\ h[1] \in Seq(AnyMessage)
      BY <1>8, <2>1
    <3>3. x \o f[1] = f[1] /\ x \o g[1] = g[1]
      BY <2>2, <3>2, ConcatEmptySeq DEF Data
    <3>4. z \o h[1] = h[1]
      BY <2>3, <3>2, ConcatEmptySeq
    <3> QED BY <3>1, <3>3, <3>4
  <2> QED BY <2>6, <2>7
<1>10. ASSUME NEW i \in 1 .. n, NEW k \in 1 .. n, k = i + 1, Good(i) PROVE Good(k)
  <2> SUFFICES ASSUME NoToken(g[k]) PROVE Carried(f[k], g[k], h[k])
    OBVIOUS
  <2>1. /\ f[k] = f[i] \o ItemBytes(stream[k]) /\ g[k] = g[i] \o ItemJunk(stream[k])
        /\ h[k] = h[i] \o ItemSent(stream[k])
    <3>1. k \in 2 .. n /\ k - 1 = i
      BY <1>10
    <3>2. f[k] = f[i] \o b[k] /\ g[k] = g[i] \o c[k] /\ h[k] = h[i] \o d[k]
      BY <1>5, <1>6, <1>7, <3>1 DEF Flattens
    <3> QED BY <1>4, <3>2
  <2>2. /\ f[i] \in Data /\ g[i] \in Data /\ h[i] \in Seq(AnyMessage) /\ stream[k] \in Items
        /\ ItemJunk(stream[k]) \in Data
    BY <1>4, <1>8, ItemParts
  <2>3. NoToken(g[i])
    <3>1. NoToken(g[i] \o ItemJunk(stream[k]))
      BY <2>1
    <3> QED BY <2>2, <3>1, NoTokenHalves
  <2>4. Carried(f[i], g[i], h[i])
    BY <1>10, <2>3
  <2>5. Carried(f[i] \o ItemBytes(stream[k]), g[i] \o ItemJunk(stream[k]), h[i] \o ItemSent(stream[k]))
    BY <2>2, <2>3, <2>4, CarryItem
  <2> QED BY <2>1, <2>5
<1> HIDE DEF Good
<1>11. 0 \in T
  BY <1>9
<1>12. ASSUME NEW k \in Nat, k \in T PROVE k + 1 \in T
  <2>1. CASE (k + 1) + 1 <= n
    <3>1. PICK i \in 1 .. n, j \in 1 .. n : i = k + 1 /\ j = (k + 1) + 1 /\ j = i + 1
      BY <2>1
    <3>2. Good(i)
      BY <1>12, <2>1, <3>1
    <3>3. Good(j)
      BY <1>10, <3>1, <3>2
    <3> QED BY <3>1, <3>3
  <2>2. CASE ~((k + 1) + 1 <= n)
    BY <2>2
  <2> QED BY <2>1, <2>2
<1> HIDE DEF T
<1>13. Nat \subseteq T
  BY <1>11, <1>12, Induction
<1>14. Good(n)
  <2>1. n - 1 \in T /\ (n - 1) + 1 = n
    BY <1>13
  <2> QED BY <2>1 DEF T
<1>15. f[n] \in Data /\ g[n] \in Data /\ h[n] \in Seq(AnyMessage)
  BY <1>8
<1>16. Carried(f[n], g[n], h[n]) /\ NoToken(g[n])
  <2>1. NoToken(g[n])
    BY <1>3, <1>6, <1>15, NoTokenSearch
  <2> QED BY <1>14, <2>1 DEF Good
<1>17. Decode[f[n]] = h[n]
  <2>1. PICK u \in Data, w \in Data : /\ g[n] = u \o w
                                      /\ \A t \in Data : Decode[f[n] \o t] = h[n] \o Decode[w \o t]
    BY <1>16 DEF Carried
  <2>2. NoToken(w)
    BY <1>16, <2>1, NoTokenHalves
  <2>3. Decode[w] = <<>>
    <3>1. ~Whole(w)
      BY <2>2, SearchIs DEF Whole, HasLength, FirstToken, NoToken
    <3> QED BY <3>1, DecodeUnfolds
  <2>4. <<>> \in Data /\ f[n] \o <<>> = f[n] /\ w \o <<>> = w /\ h[n] \o <<>> = h[n]
    BY <1>15, ConcatEmptySeq DEF Data
  <2>5. Decode[f[n] \o <<>>] = h[n] \o Decode[w \o <<>>]
    BY <2>1, <2>4
  <2> QED BY <2>3, <2>4, <2>5
<1> QED BY <1>3, <1>5, <1>7, <1>15, <1>17

LEMMA PrefixOfConcat ==
    ASSUME NEW x \in Seq(AnyMessage), NEW y \in Seq(AnyMessage)
    PROVE  IsPrefix(x, x \o y)
<1>1. Len(x) \in Nat /\ Len(y) \in Nat /\ Len(x \o y) = Len(x) + Len(y)
  OBVIOUS
<1>2. SubSeq(x \o y, 1, Len(x)) = SubSeq(x, 1, Len(x))
  <2>1. PICK k \in Nat : k = Len(x)
    BY <1>1
  <2>2. /\ SubSeq(x \o y, 1, k) \in Seq(AnyMessage) /\ Len(SubSeq(x \o y, 1, k)) = k
        /\ \A i \in 1 .. k : SubSeq(x \o y, 1, k)[i] = x[i]
    BY <1>1, <2>1
  <2>3. /\ SubSeq(x, 1, k) \in Seq(AnyMessage) /\ Len(SubSeq(x, 1, k)) = k
        /\ \A i \in 1 .. k : SubSeq(x, 1, k)[i] = x[i]
    BY <1>1, <2>1
  <2> QED BY <2>1, <2>2, <2>3, SeqEqual
<1> QED BY <1>1, <1>2 DEF IsPrefix

LEMMA ReadRoundTrip == ReadInv => RoundTrip
<1> SUFFICES ASSUME ReadInv, Search(JunkBytes) = 0
             PROVE  IsPrefix(got, SentMessages) /\ (pos = Len(StreamBytes) => got = SentMessages)
  BY DEF RoundTrip
<1>1. StreamOk /\ StreamBytes \in Data
  BY StreamType DEF ReadInv
<1>2. Decode[StreamBytes] = SentMessages
  BY <1>1, StreamDecodes
<1>3. PICK b \in Data : b = StreamBytes
  BY <1>1
<1>4. /\ pos \in 0 .. Len(b) /\ partialInput \in Data /\ got \in Seq(AnyMessage)
      /\ \A t \in Data : Decode[SubSeq(b, 1, pos) \o t] = got \o Decode[partialInput \o t]
  BY <1>3 DEF ReadInv
<1>5. IsPrefix(got, SentMessages)
  <2>1. PICK t \in Data : b = SubSeq(b, 1, pos) \o t
    <3>1. SplitAt(b, pos, SubSeq(b, 1, pos), SubSeq(b, pos + 1, Len(b)))
      BY <1>4, Halves
    <3> QED BY <3>1 DEF SplitAt
  <2>2. SentMessages = got \o Decode[partialInput \o t]
    <3>1. Decode[SubSeq(b, 1, pos) \o t] = got \o Decode[partialInput \o t]
      BY <1>4
    <3>2. Decode[SubSeq(b, 1, pos) \o t] = SentMessages
      BY <1>2, <1>3, <2>1
    <3> QED BY <3>1, <3>2
  <2>3. Decode[partialInput \o t] \in Seq(AnyMessage)
    BY <1>4, DataConcat, DecodeType
  <2> QED BY <1>4, <2>2, <2>3, PrefixOfConcat
<1>6. ASSUME pos = Len(StreamBytes) PROVE got = SentMessages
  <2>1. got = Decode[SubSeq(b, 1, pos)]
    BY <1>3, ReadChunkFree DEF ChunkFree
  <2>2. SubSeq(b, 1, pos) = b
    BY <1>3, <1>6, WholePart
  <2> QED BY <1>2, <1>3, <2>1, <2>2
<1> QED BY <1>5, <1>6

\* Junk without a token costs no message, whatever part of a token it ends with and
\* wherever the reads cut it: the messages handed on are a prefix of those the client
\* serialized, and all of them at the end, tokens in payloads included.
THEOREM MessagesSurvive == Spec => []RoundTrip
BY InitRead, NextRead, ReadRoundTrip, PTL DEF Spec

=============================================================================
