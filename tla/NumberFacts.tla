---------------------------- MODULE NumberFacts ----------------------------
(***************************************************************************)
(* Least and greatest numbers: what the library's Min and Max find.  The   *)
(* models use them wherever the code scans for the first table with a      *)
(* writer or the highest file or sequence number.  And the order in which  *)
(* a merge brings its keys.                                                *)
(***************************************************************************)
EXTENDS Ascending, FiniteSetsExt, FiniteSetTheorems, WellFoundedInduction, TLAPS

\* A nonempty set of naturals has a least element (flush1 and the sequential flush
\* scan for the first memtable with writers).
LEMMA LeastNat ==
  ASSUME NEW T, T \subseteq Nat, T # {}
  PROVE  \E x \in T : \A y \in T : x <= y
<1> DEFINE R == OpToRel(<, Nat)
<1>1. IsWellFoundedOn(R, Nat)
  BY NatLessThanWellFounded
<1>2. \A x, y \in Nat : y < x => <<y, x>> \in R
  BY DEF OpToRel
<1> HIDE DEF R
<1>3. \E x \in T : \A y \in T : ~(<<y, x>> \in R)
  BY <1>1, WFMin, Zenon
<1>4. \A x, y \in Nat : ~(y < x) => x <= y
  OBVIOUS
<1> QED
  BY <1>2, <1>3, <1>4, Zenon

\* Min finds it (Ready; the oldest log of ReplayWAL).
LEMMA MinFact ==
  ASSUME NEW T, T \subseteq Nat, T # {}
  PROVE  Min(T) \in T /\ \A y \in T : Min(T) <= y
BY LeastNat, Zenon DEF Min

\* Max finds the greatest of a nonempty set of naturals with a bound (the newest write
\* a merge or a Get meets, the highest file number openMetadata has seen).
LEMMA MaxFact ==
  ASSUME NEW T, T \subseteq Nat, T # {}, NEW b \in Nat, \A y \in T : y <= b
  PROVE  Max(T) \in T /\ \A y \in T : Max(T) >= y
<1> DEFINE D == {b - y : y \in T}
<1>1. D \subseteq Nat /\ D # {}
  OBVIOUS
<1>2. PICK d \in D : \A e \in D : d <= e
  BY <1>1, LeastNat, Zenon
<1>3. PICK x \in T : d = b - x
  BY <1>2
<1>4. \A y \in T : x >= y
  <2> TAKE y \in T
  <2>1. b - y \in D
    OBVIOUS
  <2> QED
    BY <1>2, <1>3, <2>1
<1> QED
  BY <1>4, Zenon DEF Max

\* q brings the keys of S in rising order (compactionIter).
InOrder(q, S) ==
  /\ q \in [1..Cardinality(S) -> S]
  /\ {q[i] : i \in DOMAIN q} = S
  /\ \A i, j \in DOMAIN q : i < j => q[i] < q[j]

\* The greatest key comes last: with it, a list of the others is a list of all.
LEMMA InOrderMore ==
  ASSUME NEW n \in Nat, NEW S \in SUBSET (1..(n + 1)), n + 1 \in S,
         NEW q, InOrder(q, S \ {n + 1})
  PROVE  \E r : InOrder(r, S)
<1> DEFINE T == S \ {n + 1}
           c == Cardinality(T)
           r == [i \in 1..(c + 1) |-> IF i = c + 1 THEN n + 1 ELSE q[i]]
<1>1. IsFiniteSet(S)
  <2>1. IsFiniteSet(1..(n + 1))
    BY FS_Interval
  <2> QED BY <2>1, FS_Subset
<1>2. IsFiniteSet(T) /\ c \in Nat /\ Cardinality(S) = c + 1
  <2>1. IsFiniteSet(T) /\ Cardinality(T) = Cardinality(S) - 1
    BY <1>1, FS_RemoveElement
  <2>2. Cardinality(T) \in Nat /\ Cardinality(S) \in Nat
    BY <1>1, <2>1, FS_CardinalityType
  <2> QED BY <2>1, <2>2
<1>3. /\ q \in [1..c -> T] /\ {q[i] : i \in 1..c} = T
      /\ \A i, j \in 1..c : i < j => q[i] < q[j]
  BY DEF InOrder
<1> HIDE DEF c
<1>4. \A x \in T : x \in 1..n
  OBVIOUS
<1>5. r \in [1..(c + 1) -> S]
  BY <1>2, <1>3
<1>6. {r[i] : i \in 1..(c + 1)} = S
  <2>1. \A x \in S : \E i \in 1..(c + 1) : r[i] = x
    <3> TAKE x \in S
    <3>1. CASE x = n + 1
      BY <1>2, <3>1
    <3>2. CASE x \in T
      <4>1. PICK i \in 1..c : q[i] = x
        BY <1>3, <3>2
      <4>2. i \in 1..(c + 1) /\ i # c + 1
        BY <1>2
      <4> QED BY <4>1, <4>2
    <3> QED BY <3>1, <3>2
  <2> QED BY <1>5, <2>1
<1>7. \A i, j \in 1..(c + 1) : i < j => r[i] < r[j]
  <2> SUFFICES ASSUME NEW i \in 1..(c + 1), NEW j \in 1..(c + 1), i < j PROVE r[i] < r[j]
    OBVIOUS
  <2>1. i \in 1..c /\ r[i] = q[i] /\ q[i] \in 1..n
    <3>1. i \in 1..c /\ i # c + 1
      BY <1>2
    <3>2. r[i] = q[i]
      BY <3>1
    <3>3. q[i] \in T
      BY <1>3, <3>1
    <3> QED BY <1>4, <3>1, <3>2, <3>3
  <2>2. CASE j = c + 1
    BY <1>2, <2>1, <2>2
  <2>3. CASE j # c + 1
    <3>1. j \in 1..c /\ r[j] = q[j]
      BY <1>2, <2>3
    <3> QED BY <1>3, <2>1, <3>1
  <2> QED BY <2>2, <2>3
<1>8. DOMAIN r = 1..(c + 1)
  OBVIOUS
<1> HIDE DEF r
<1>9. InOrder(r, S)
  BY <1>2, <1>5, <1>6, <1>7, <1>8 DEF InOrder
<1> QED BY <1>9

\* Every set of keys has such a list.
LEMMA InOrderExists ==
  ASSUME NEW n \in Nat, NEW S \in SUBSET (1..n)
  PROVE  \E q : InOrder(q, S)
<1> DEFINE Bad == {m \in Nat : \E R \in SUBSET (1..m) : \A q : ~InOrder(q, R)}
<1>1. Bad = {}
  <2> SUFFICES ASSUME Bad # {} PROVE FALSE
    OBVIOUS
  <2>1. PICK m \in Bad : \A y \in Bad : m <= y
    BY LeastNat
  <2>2. m \in Nat
    BY <2>1
  <2>3. PICK R \in SUBSET (1..m) : \A q : ~InOrder(q, R)
    BY <2>1
  <2>4. CASE m = 0
    <3>0. R = {}
      BY <2>3, <2>4
    <3>1. R = {} /\ Cardinality(R) = 0
      BY <3>0, FS_EmptySet
    <3> DEFINE q == [i \in 1..0 |-> 0]
    <3>2. InOrder(q, R)
      BY <3>1 DEF InOrder
    <3> QED BY <2>3, <3>2
  <2>5. CASE m # 0
    <3>1. PICK l \in Nat : m = l + 1
      BY <2>2, <2>5
    <3>2. l \notin Bad
      <4> HIDE DEF Bad
      <4> QED BY <2>1, <2>2, <3>1
    <3>3. \A Q \in SUBSET (1..l) : \E q : InOrder(q, Q)
      BY <3>2
    <3> HIDE DEF Bad
    <3>4. CASE m \in R
      <4>1. R \ {m} \in SUBSET (1..l)
        BY <2>3, <3>1
      <4>2. PICK q : InOrder(q, R \ {l + 1})
        BY <3>1, <3>3, <4>1
      <4>3. \E r : InOrder(r, R)
        BY <2>3, <3>1, <3>4, <4>2, InOrderMore
      <4> QED BY <2>3, <4>3
    <3>5. CASE m \notin R
      <4>1. R \in SUBSET (1..l)
        BY <2>3, <3>1, <3>5
      <4> QED BY <2>3, <3>3, <4>1
    <3> QED BY <3>4, <3>5
  <2> QED BY <2>4, <2>5
<1> QED BY <1>1

\* What a merge brings of keys up to n: each of them once, in rising order.
LEMMA AscendingFact ==
  ASSUME NEW n \in Nat, NEW S \in SUBSET (1..n)
  PROVE  LET q == Ascending(S) IN
         /\ Cardinality(S) \in Nat
         /\ q \in [1..Cardinality(S) -> S]
         /\ \A x \in S : \E i \in 1..Cardinality(S) : q[i] = x
         /\ \A i, j \in 1..Cardinality(S) : i < j => q[i] < q[j]
<1> DEFINE q == Ascending(S)
<1>1. \E r : InOrder(r, S)
  BY InOrderExists
<1>2. \E r \in [1..Cardinality(S) -> S] :
        /\ {r[i] : i \in DOMAIN r} = S
        /\ \A i, j \in DOMAIN r : i < j => r[i] < r[j]
  BY <1>1 DEF InOrder
<1>3. /\ q \in [1..Cardinality(S) -> S]
      /\ {q[i] : i \in DOMAIN q} = S
      /\ \A i, j \in DOMAIN q : i < j => q[i] < q[j]
  BY <1>2 DEF Ascending
<1>4. Cardinality(S) \in Nat
  <2>1. IsFiniteSet(1..n)
    BY FS_Interval
  <2>2. IsFiniteSet(S)
    BY <2>1, FS_Subset
  <2> QED BY <2>2, FS_CardinalityType
<1> HIDE DEF q
<1>5. DOMAIN q = 1..Cardinality(S)
  BY <1>3
<1>6. \A x \in S : \E i \in 1..Cardinality(S) : q[i] = x
  BY <1>3, <1>5
<1> QED BY <1>3, <1>4, <1>5, <1>6 DEF q
=============================================================================
