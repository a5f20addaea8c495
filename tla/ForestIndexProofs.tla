-------------------------- MODULE ForestIndexProofs --------------------------
(***************************************************************************)
(* Theorems about the trees of forests of every size and what Verdicts     *)
(* says of the proofs that are made in them.  A forest of 2^Depth entries  *)
(* is full; sizes up to the next power of two are well-defined.            *)
(***************************************************************************)
EXTENDS Verdicts, SequenceLemmas

ForestSizes == { size \in Nat : size < 2 ^ (Depth + 1) }

(***************************************************************************)
(* Numbers.                                                                *)
(***************************************************************************)

\* Powers of two are positive, and each is twice the one before it.
LEMMA Powers ==
  /\ \A n \in 0 .. Depth + 1 : 2 ^ n \in Nat \ {0}
  /\ \A n \in 0 .. Depth : 2 ^ (n + 1) = 2 * 2 ^ n
  /\ 2 ^ 0 = 1
<1>1. Depth \in Nat
  BY DepthAssumption
<1>2. 2 ^ Depth \in Nat \ {0} /\ 2 ^ (Depth + 1) = 2 * 2 ^ Depth
  BY <1>1, PowersAssumption
<1>3. \A n \in 0 .. Depth + 1 : n \in 0 .. Depth \/ n = Depth + 1
  BY <1>1
<1> QED
  BY <1>1, <1>2, <1>3, PowersAssumption

\* Dividing by twice a number is halving the quotient.
LEMMA HalfQuotient ==
  ASSUME NEW a \in Nat, NEW k \in Nat \ {0}
  PROVE  a \div (2 * k) = (a \div k) \div 2
  OBVIOUS

\* A quotient, and what it is of.
LEMMA Quotient ==
  ASSUME NEW a \in Nat, NEW k \in Nat \ {0}
  PROVE  a \div k \in Nat /\ k * (a \div k) <= a /\ a < k * (a \div k + 1)
  OBVIOUS

\* A greater number does not have the lesser quotient.
LEMMA QuotientMonotone ==
  ASSUME NEW a \in Nat, NEW b \in Nat, NEW k \in Nat \ {0}, a <= b
  PROVE  a \div k <= b \div k
  OBVIOUS

\* Two numbers with the same half are the same or differ in their last bit.
LEMMA SameHalf ==
  ASSUME NEW a \in Nat, NEW b \in Nat, a \div 2 = b \div 2, a < b
  PROVE  a % 2 = 0 /\ b % 2 = 1 /\ b = a + 1
  OBVIOUS

\* The part of a number above a bit is made up of that bit and the part above it.
LEMMA NextBit ==
  ASSUME NEW n \in Nat, NEW b \in 0 .. Depth
  PROVE  /\ n \div 2 ^ b \in Nat
         /\ n \div 2 ^ (b + 1) \in Nat
         /\ n \div 2 ^ (b + 1) = (n \div 2 ^ b) \div 2
         /\ n \div 2 ^ b = 2 * (n \div 2 ^ (b + 1)) + Bit(n, b)
         /\ Bit(n, b) \in {0, 1}
<1>1. 2 ^ b \in Nat \ {0} /\ 2 ^ (b + 1) = 2 * 2 ^ b
  BY PowersAssumption
<1> DEFINE k == 2 ^ b
           q == n \div k
<1>2. n \div (2 * k) = q \div 2 /\ q \in Nat
  BY <1>1, HalfQuotient, Quotient
<1> HIDE DEF q
<1>3. q \div 2 \in Nat /\ q = 2 * (q \div 2) + (q % 2) /\ q % 2 \in {0, 1}
  BY <1>2
<1> QED
  BY <1>1, <1>2, <1>3 DEF Bit, q

\* Above the highest bit there is nothing.
LEMMA NothingAbove ==
  ASSUME NEW n \in ForestSizes
  PROVE  n \div 2 ^ (Depth + 1) = 0
<1>1. Depth + 1 \in 0 .. Depth + 1
  BY DepthAssumption
<1>2. 2 ^ (Depth + 1) \in Nat \ {0}
  BY <1>1, Powers
<1>3. n \in Nat /\ n < 2 ^ (Depth + 1)
  BY DEF ForestSizes
<1> QED
  BY <1>2, <1>3

\* Of two numbers the greater has the highest bit in which they differ.
LEMMA HighestDifferingBit ==
  ASSUME NEW pos \in Nat, NEW size \in ForestSizes, pos < size
  PROVE  \E b \in 0 .. Depth :
           /\ Bit(size, b) = 1 /\ Bit(pos, b) = 0
           /\ \A c \in 0 .. Depth : c > b => Bit(pos, c) = Bit(size, c)
           /\ size \div 2 ^ b = pos \div 2 ^ b + 1
           /\ \A c \in 0 .. Depth + 1 : c > b => size \div 2 ^ c = pos \div 2 ^ c
<1> DEFINE Same(n) == pos \div 2 ^ n = size \div 2 ^ n
           S == { n \in 0 .. Depth + 1 : \A k \in n .. Depth + 1 : Same(k) }
<1>1. Depth \in Nat /\ size \in Nat /\ pos \in ForestSizes
  BY DepthAssumption DEF ForestSizes
<1>2. Same(Depth + 1)
  BY <1>1, NothingAbove
<1>3. Depth + 1 \in S
  BY <1>1, <1>2
<1>4. ~ Same(0)
  BY <1>1, PowersAssumption
<1>5. PICK m \in S : \A n \in S : m <= n
  <2>1. \A n \in 0 .. Depth + 1 : n \in Nat
    OBVIOUS
  <2>2. S \in SUBSET Nat
    BY <2>1
  <2>3. S # {}
    BY <1>3
  <2> QED
    BY <2>2, <2>3, LeastNumber
<1>6. m \in 0 .. Depth + 1 /\ \A k \in m .. Depth + 1 : Same(k)
  OBVIOUS
<1>7. m # 0
  BY <1>1, <1>4, <1>6
<1> DEFINE b == m - 1
<1>8. b \in 0 .. Depth /\ b + 1 = m
  BY <1>1, <1>6, <1>7
<1>9. ~ Same(b)
  <2>1. SUFFICES ASSUME Same(b) PROVE FALSE
    OBVIOUS
  <2>2. \A k \in b .. Depth + 1 : k = b \/ k \in m .. Depth + 1
    BY <1>1, <1>6, <1>8
  <2>3. b \in S
    BY <1>1, <1>6, <1>8, <2>1, <2>2
  <2> QED
    BY <1>5, <1>6, <1>8, <2>3
<1> HIDE DEF b, S
<1>10. \A n \in 0 .. Depth + 1 : 2 ^ n \in Nat \ {0}
  BY Powers
<1> DEFINE p == pos \div 2 ^ b
           s == size \div 2 ^ b
<1>11. p \in Nat /\ s \in Nat /\ p <= s
  <2>1. 2 ^ b \in Nat \ {0}
    BY <1>1, <1>8, <1>10
  <2> HIDE DEF b
  <2> QED
    BY <1>1, <2>1, Quotient, QuotientMonotone
<1>12. p \div 2 = s \div 2
  <2>1. Same(b + 1)
    BY <1>1, <1>6, <1>8
  <2> QED
    BY <1>1, <1>8, <2>1, NextBit
<1>13. p % 2 = 0 /\ s % 2 = 1 /\ s = p + 1
  <2>1. p # s
    BY <1>9
  <2> HIDE DEF p, s
  <2> QED
    BY <1>11, <1>12, <2>1, SameHalf
<1>14. Bit(pos, b) = 0 /\ Bit(size, b) = 1
  BY <1>13 DEF Bit
<1>15. \A c \in 0 .. Depth + 1 : c > b => Same(c)
  BY <1>1, <1>6, <1>8
<1>16. \A c \in 0 .. Depth : c > b => Bit(pos, c) = Bit(size, c)
  <2>1. \A c \in 0 .. Depth : c \in 0 .. Depth + 1
    BY <1>1
  <2>2. \A c \in 0 .. Depth : c > b => Same(c)
    BY <1>15, <2>1
  <2> QED
    BY <2>2, Zenon DEF Bit
<1> QED
  BY <1>8, <1>13, <1>14, <1>15, <1>16

\* Numbers with the same part above a bit have the same parts above higher bits.
LEMMA SameAbove ==
  ASSUME NEW a \in Nat, NEW z \in Nat, NEW n \in 0 .. Depth + 1, a \div 2 ^ n = z \div 2 ^ n
  PROVE  \A k \in 0 .. Depth + 1 : k >= n => a \div 2 ^ k = z \div 2 ^ k
<1> DEFINE Same(k) == a \div 2 ^ k = z \div 2 ^ k
           S == { k \in 0 .. Depth + 1 : k >= n /\ ~ Same(k) }
<1>1. SUFFICES ASSUME S # {} PROVE FALSE
  OBVIOUS
<1>2. S \in SUBSET Nat
  <2>1. \A k \in 0 .. Depth + 1 : k \in Nat
    OBVIOUS
  <2> QED
    BY <2>1
<1>3. PICK k \in S : \A l \in S : k <= l
  BY <1>1, <1>2, LeastNumber
<1>4. k \in 0 .. Depth + 1 /\ k >= n /\ ~ Same(k)
  OBVIOUS
<1>5. k # n
  BY <1>4
<1>6. k - 1 \in 0 .. Depth /\ k - 1 \in 0 .. Depth + 1 /\ k - 1 >= n /\ (k - 1) + 1 = k
  BY <1>4, <1>5, DepthAssumption
<1>7. Same(k - 1)
  <2>1. k - 1 \notin S
    BY <1>3, <1>4
  <2> QED
    BY <1>6, <2>1
<1>8. Same(k)
  <2>1. PICK j \in 0 .. Depth : j + 1 = k /\ Same(j)
    BY <1>6, <1>7
  <2>2. \A x \in Nat : x \div 2 ^ (j + 1) = (x \div 2 ^ j) \div 2
    BY NextBit
  <2> QED
    BY <2>1, <2>2
<1> QED
  BY <1>4, <1>8

(***************************************************************************)
(* The trees of a forest.                                                  *)
(***************************************************************************)

\* The trees that are greater than the one of the given depth.
Greater(depth, size) == { c \in Ones(size) : c > depth }

\* There are finitely many trees.
LEMMA FiniteForest ==
  ASSUME NEW size
  PROVE  /\ IsFiniteSet(Ones(size))
         /\ Ones(size) \subseteq 0 .. Depth
         /\ NumRoots(size) \in Nat
         /\ \A T \in SUBSET Ones(size) : IsFiniteSet(T) /\ Cardinality(T) \in Nat
<1>1. IsFiniteSet(0 .. Depth)
  BY DepthAssumption, FS_Interval
<1>2. Ones(size) \subseteq 0 .. Depth
  BY DEF Ones
<1>3. IsFiniteSet(Ones(size))
  BY <1>1, <1>2, FS_Subset
<1>4. \A T \in SUBSET Ones(size) : IsFiniteSet(T)
  BY <1>3, FS_Subset
<1> QED
  BY <1>2, <1>3, <1>4, FS_CardinalityType DEF NumRoots

\* A smaller tree has more trees before it.
LEMMA GreaterDecreases ==
  ASSUME NEW size, NEW c \in Ones(size), NEW d \in Ones(size), c < d
  PROVE  Cardinality(Greater(d, size)) < Cardinality(Greater(c, size))
<1>1. c \in Int /\ d \in Int /\ Ones(size) \subseteq 0 .. Depth
  BY FiniteForest
<1>2. Greater(c, size) \in SUBSET Ones(size) /\ Greater(d, size) \in SUBSET Ones(size)
  BY DEF Greater
<1>3. IsFiniteSet(Greater(c, size))
  BY <1>2, FiniteForest
<1>4. d \in Greater(c, size) /\ d \notin Greater(d, size)
  BY <1>1 DEF Greater
<1>5. Greater(d, size) \subseteq Greater(c, size)
  BY <1>1 DEF Greater
<1>6. Cardinality(Greater(c, size)) \in Nat /\ Cardinality(Greater(d, size)) \in Nat
  BY <1>2, FiniteForest
<1> QED
  BY <1>3, <1>4, <1>5, <1>6, FS_Subset

\* A tree is found by the number of the greater ones.
LEMMA RootDepthOf ==
  ASSUME NEW size, NEW d \in Ones(size)
  PROVE  RootDepth(Cardinality(Greater(d, size)), size) = d
<1> DEFINE i == Cardinality(Greater(d, size))
           c == RootDepth(i, size)
<1>1. c \in Ones(size) /\ Cardinality(Greater(c, size)) = i
  BY DEF RootDepth, Greater
<1>2. c \in Int /\ d \in Int
  BY <1>1, FiniteForest
<1> HIDE DEF c
<1>3. ~ (c < d)
  <2>1. SUFFICES ASSUME c < d PROVE FALSE
    OBVIOUS
  <2>2. i < Cardinality(Greater(c, size))
    BY <1>1, <2>1, GreaterDecreases
  <2>3. i \in Nat
    BY FiniteForest DEF Greater
  <2> QED
    BY <1>1, <2>2, <2>3
<1>4. ~ (d < c)
  <2>1. SUFFICES ASSUME d < c PROVE FALSE
    OBVIOUS
  <2>2. Cardinality(Greater(c, size)) < i
    BY <1>1, <2>1, GreaterDecreases
  <2>3. i \in Nat
    BY FiniteForest DEF Greater
  <2> QED
    BY <1>1, <2>2, <2>3
<1> QED
  BY <1>2, <1>3, <1>4 DEF c

\* Whatever the size, every root has a tree, and it is the only one.
LEMMA EveryRootHasATree ==
  ASSUME NEW size, NEW i \in 0 .. NumRoots(size) - 1
  PROVE  RootDepth(i, size) \in Ones(size) /\ Cardinality(Greater(RootDepth(i, size), size)) = i
<1> DEFINE N == NumRoots(size)
           f == [ d \in Ones(size) |-> Cardinality(Greater(d, size)) ]
<1>1. N \in Nat /\ IsFiniteSet(Ones(size)) /\ Ones(size) \subseteq 0 .. Depth
  BY FiniteForest
<1>2. f \in Injection(Ones(size), 0 .. N - 1)
  <2>1. ASSUME NEW d \in Ones(size) PROVE Cardinality(Greater(d, size)) \in 0 .. N - 1
    <3>1. Greater(d, size) \in SUBSET Ones(size) /\ d \notin Greater(d, size)
      BY <1>1 DEF Greater
    <3>2. Cardinality(Greater(d, size)) \in Nat
      BY <3>1, FiniteForest
    <3>3. Cardinality(Greater(d, size)) <= N /\ N # Cardinality(Greater(d, size))
      BY <1>1, <3>1, FS_Subset DEF NumRoots
    <3> QED
      BY <1>1, <3>2, <3>3
  <2>2. f \in [Ones(size) -> 0 .. N - 1]
    BY <2>1
  <2>3. ASSUME NEW c \in Ones(size), NEW d \in Ones(size), f[c] = f[d] PROVE c = d
    BY <2>3, RootDepthOf
  <2> QED
    BY <2>2, <2>3 DEF Injection, IsInjective
<1>3. IsFiniteSet(0 .. N - 1) /\ Cardinality(0 .. N - 1) = N
  BY <1>1, FS_Interval
<1>4. f \in Surjection(Ones(size), 0 .. N - 1)
  BY <1>2, <1>3, FS_Injection DEF NumRoots
<1>5. PICK d \in Ones(size) : f[d] = i
  BY <1>4 DEF Surjection
<1> QED
  BY <1>5, RootDepthOf

\* Which of two roots has the greater tree.
LEMMA TreesGetSmaller ==
  ASSUME NEW size, NEW i \in 0 .. NumRoots(size) - 1, NEW j \in 0 .. NumRoots(size) - 1, i < j
  PROVE  RootDepth(j, size) < RootDepth(i, size)
<1> DEFINE c == RootDepth(i, size)
           d == RootDepth(j, size)
<1>1. /\ c \in Ones(size) /\ Cardinality(Greater(c, size)) = i
      /\ d \in Ones(size) /\ Cardinality(Greater(d, size)) = j
  BY EveryRootHasATree
<1>2. c \in Int /\ d \in Int
  BY <1>1, FiniteForest
<1> HIDE DEF c, d
<1>3. c # d
  BY <1>1
<1>4. ~ (c < d)
  BY <1>1, GreaterDecreases
<1> QED
  BY <1>2, <1>3, <1>4 DEF c, d

(***************************************************************************)
(* What is in which tree.                                                  *)
(***************************************************************************)

\* The positions in a tree are those that the tree's depth leads to the number of
\* its leftmost neighbour.
LEMMA UnderIsQuotient ==
  ASSUME NEW size \in Nat, NEW i \in 0 .. NumRoots(size) - 1
  PROVE  LET depth == RootDepth(i, size)
         IN  /\ Under(i, size) \subseteq Nat
             /\ \A p \in Nat : p \in Under(i, size) <=> size \div 2 ^ depth = p \div 2 ^ depth + 1
<1> DEFINE d == RootDepth(i, size)
<1>1. d \in Ones(size)
  BY EveryRootHasATree
<1>2. d \in 0 .. Depth /\ Bit(size, d) = 1
  BY <1>1 DEF Ones
<1> HIDE DEF d
<1> DEFINE k == 2 ^ d
           half == size \div 2 ^ (d + 1)
           low == (2 * half) * k
           high == (2 * half + 1) * k - 1
<1>3. half \in Nat /\ size \div k = 2 * half + 1
  BY <1>2, NextBit
<1>4. k \in Nat \ {0}
  BY <1>2, PowersAssumption
<1>5. Under(i, size) = low .. high
  BY DEF Under, ShiftOf, d
<1> HIDE DEF k, half
<1>6. low \in Nat /\ high \in Int
  BY <1>3, <1>4
<1>7. Under(i, size) \subseteq Nat
  BY <1>5, <1>6
<1>8. ASSUME NEW p \in Nat PROVE p \in low .. high <=> p \div k = 2 * half
  <2> DEFINE q == p \div k
  <2>1. q \in Nat /\ k * q <= p /\ p < k * (q + 1)
    BY <1>4, Quotient
  <2> HIDE DEF q
  <2>2. ASSUME q = 2 * half PROVE p \in low .. high
    BY <1>3, <1>4, <1>6, <2>1, <2>2
  <2>3. ASSUME p \in low .. high, q < 2 * half PROVE FALSE
    <3>1. q + 1 <= 2 * half
      BY <1>3, <2>1, <2>3
    <3>2. k * (q + 1) <= k * (2 * half)
      BY <1>3, <1>4, <2>1, <3>1
    <3> QED
      BY <1>3, <1>4, <1>6, <2>1, <2>3, <3>2
  <2>4. ASSUME p \in low .. high, q > 2 * half PROVE FALSE
    <3>1. q >= 2 * half + 1
      BY <1>3, <2>1, <2>4
    <3>2. k * q >= k * (2 * half + 1)
      BY <1>3, <1>4, <2>1, <3>1
    <3> QED
      BY <1>3, <1>4, <1>6, <2>1, <2>4, <3>2
  <2> QED
    BY <1>3, <2>1, <2>2, <2>3, <2>4 DEF q
<1>9. ASSUME NEW p \in Nat PROVE p \in Under(i, size) <=> size \div k = p \div k + 1
  <2>1. p \div k \in Nat
    BY <1>4, Quotient
  <2> QED
    BY <1>3, <1>5, <1>8, <2>1
<1> QED
  BY <1>7, <1>9 DEF d, k

\* Every position below the size is in exactly one tree, that of its root index, and
\* the trees contain nothing else.
THEOREM EveryPositionHasItsTree ==
  ASSUME NEW size \in ForestSizes
  PROVE  /\ \A pos \in 0 .. size - 1 :
              /\ GetRootIndex(pos, size) \in 0 .. NumRoots(size) - 1
              /\ pos \in Under(GetRootIndex(pos, size), size)
         /\ \A i \in 0 .. NumRoots(size) - 1 :
              /\ Under(i, size) \subseteq 0 .. size - 1
              /\ \A pos \in Under(i, size) : GetRootIndex(pos, size) = i
<1>1. size \in Nat /\ Depth \in Nat
  BY DepthAssumption DEF ForestSizes
\* The trees that GetRootIndex counts are those above the highest differing bit.
<1>2. ASSUME NEW pos \in Nat, NEW b \in 0 .. Depth, Bit(size, b) = 1, Bit(pos, b) = 0,
             \A c \in 0 .. Depth : c > b => Bit(pos, c) = Bit(size, c)
      PROVE  /\ b \in Ones(size)
             /\ GetRootIndex(pos, size) = Cardinality(Greater(b, size))
             /\ GetRootIndex(pos, size) \in 0 .. NumRoots(size) - 1
             /\ RootDepth(GetRootIndex(pos, size), size) = b
  <2> DEFINE Counted == { c \in Ones(size) : \A e \in c .. Depth : Bit(pos, e) = Bit(size, e) }
  <2>1. b \in Ones(size)
    BY <1>2 DEF Ones
  <2>2. ASSUME NEW c \in Ones(size)
        PROVE  c > b <=> \A e \in c .. Depth : Bit(pos, e) = Bit(size, e)
    <3>1. c \in 0 .. Depth
      BY FiniteForest
    <3>2. ASSUME c > b PROVE \A e \in c .. Depth : e \in 0 .. Depth /\ e > b
      BY <3>1, <3>2
    <3>3. ASSUME ~ (c > b) PROVE b \in c .. Depth
      BY <3>1, <3>3
    <3>4. Bit(pos, b) # Bit(size, b)
      BY <1>2
    <3> QED
      BY <1>2, <3>2, <3>3, <3>4
  <2>3. Counted = Greater(b, size)
    BY <2>2 DEF Greater
  <2>4. GetRootIndex(pos, size) = Cardinality(Greater(b, size))
    BY <2>3 DEF GetRootIndex
  <2>5. Cardinality(Greater(b, size)) \in 0 .. NumRoots(size) - 1
    <3>1. Greater(b, size) \in SUBSET Ones(size) /\ b \notin Greater(b, size)
      BY <1>1 DEF Greater
    <3>2. Cardinality(Greater(b, size)) \in Nat /\ NumRoots(size) \in Nat /\ IsFiniteSet(Ones(size))
      BY <3>1, FiniteForest
    <3>3. Cardinality(Greater(b, size)) <= NumRoots(size) /\ NumRoots(size) # Cardinality(Greater(b, size))
      BY <2>1, <3>1, <3>2, FS_Subset DEF NumRoots
    <3> QED
      BY <3>2, <3>3
  <2> QED
    BY <2>1, <2>4, <2>5, RootDepthOf
<1>3. ASSUME NEW pos \in 0 .. size - 1
      PROVE  /\ GetRootIndex(pos, size) \in 0 .. NumRoots(size) - 1
             /\ pos \in Under(GetRootIndex(pos, size), size)
  <2>1. pos \in Nat /\ pos < size
    BY <1>1
  <2>2. PICK b \in 0 .. Depth :
          /\ Bit(size, b) = 1 /\ Bit(pos, b) = 0
          /\ \A c \in 0 .. Depth : c > b => Bit(pos, c) = Bit(size, c)
          /\ size \div 2 ^ b = pos \div 2 ^ b + 1
    BY <2>1, HighestDifferingBit
  <2>3. GetRootIndex(pos, size) \in 0 .. NumRoots(size) - 1
        /\ RootDepth(GetRootIndex(pos, size), size) = b
    BY <1>2, <2>1, <2>2
  <2> QED
    BY <1>1, <2>1, <2>2, <2>3, UnderIsQuotient
<1>4. ASSUME NEW i \in 0 .. NumRoots(size) - 1, NEW pos \in Under(i, size)
      PROVE  pos \in 0 .. size - 1 /\ GetRootIndex(pos, size) = i
  <2> DEFINE d == RootDepth(i, size)
  <2>1. d \in Ones(size) /\ Cardinality(Greater(d, size)) = i
    BY EveryRootHasATree
  <2>2. pos \in Nat /\ size \div 2 ^ d = pos \div 2 ^ d + 1
    BY <1>1, UnderIsQuotient
  <2> HIDE DEF d
  <2>3. d \in 0 .. Depth /\ d \in 0 .. Depth + 1 /\ Bit(size, d) = 1
    BY <1>1, <2>1 DEF Ones
  <2>4. 2 ^ d \in Nat \ {0} /\ size \div 2 ^ d \in Nat /\ pos \div 2 ^ d \in Nat
    BY <1>1, <2>2, <2>3, NextBit, PowersAssumption
  <2>5. pos < size
    BY <1>1, <2>2, <2>4, QuotientMonotone
  <2>6. pos \div 2 ^ (d + 1) = size \div 2 ^ (d + 1) /\ Bit(pos, d) = 0
    <3>1. /\ size \div 2 ^ d = 2 * (size \div 2 ^ (d + 1)) + 1
          /\ pos \div 2 ^ d = 2 * (pos \div 2 ^ (d + 1)) + Bit(pos, d)
          /\ size \div 2 ^ (d + 1) \in Nat /\ pos \div 2 ^ (d + 1) \in Nat /\ Bit(pos, d) \in {0, 1}
      BY <1>1, <2>2, <2>3, NextBit
    <3> QED
      BY <2>2, <3>1
  <2>7. ASSUME NEW c \in 0 .. Depth, c > d PROVE Bit(pos, c) = Bit(size, c)
    <3>1. c \in 0 .. Depth + 1 /\ c >= d + 1 /\ d + 1 \in 0 .. Depth + 1
      BY <1>1, <2>3, <2>7
    <3>2. pos \div 2 ^ c = size \div 2 ^ c
      BY <1>1, <2>2, <2>6, <3>1, SameAbove
    <3> QED
      BY <3>2 DEF Bit
  <2>8. GetRootIndex(pos, size) = Cardinality(Greater(d, size))
    BY <1>2, <2>2, <2>3, <2>6, <2>7
  <2> QED
    BY <1>1, <2>1, <2>2, <2>5, <2>8
<1> QED
  BY <1>3, <1>4

\* The trees are in the order of the positions in them.
LEMMA TreesAreInOrder ==
  ASSUME NEW size \in ForestSizes,
         NEW i \in 0 .. NumRoots(size) - 1, NEW j \in 0 .. NumRoots(size) - 1, i < j,
         NEW p \in Under(i, size), NEW q \in Under(j, size)
  PROVE  p < q
<1> DEFINE c == RootDepth(i, size)
           d == RootDepth(j, size)
<1>1. size \in Nat
  BY DEF ForestSizes
<1>2. c \in Ones(size) /\ d \in Ones(size) /\ d < c
  BY EveryRootHasATree, TreesGetSmaller
<1>3. p \in Nat /\ q \in Nat /\ p \in 0 .. size - 1 /\ q \in 0 .. size - 1
  BY EveryPositionHasItsTree
<1>4. size \div 2 ^ c = p \div 2 ^ c + 1 /\ size \div 2 ^ d = q \div 2 ^ d + 1
  BY <1>1, <1>3, UnderIsQuotient
<1> HIDE DEF c, d
<1>5. c \in 0 .. Depth /\ d \in 0 .. Depth /\ Bit(size, d) = 1
  BY <1>2 DEF Ones
<1>6. size \div 2 ^ (d + 1) = q \div 2 ^ (d + 1)
  <2>1. /\ size \div 2 ^ d = 2 * (size \div 2 ^ (d + 1)) + 1
        /\ q \div 2 ^ d = 2 * (q \div 2 ^ (d + 1)) + Bit(q, d)
        /\ size \div 2 ^ (d + 1) \in Nat /\ q \div 2 ^ (d + 1) \in Nat /\ Bit(q, d) \in {0, 1}
    BY <1>1, <1>3, <1>5, NextBit
  <2> QED
    BY <1>4, <2>1
<1>7. size \div 2 ^ c = q \div 2 ^ c
  <2>1. c \in 0 .. Depth + 1 /\ d + 1 \in 0 .. Depth + 1 /\ c >= d + 1
    BY <1>2, <1>5, DepthAssumption
  <2> QED
    BY <1>1, <1>3, <1>6, <2>1, SameAbove
<1>8. 2 ^ c \in Nat \ {0} /\ p \div 2 ^ c \in Nat
  BY <1>3, <1>5, NextBit, PowersAssumption
<1>9. ~ (q <= p)
  BY <1>3, <1>4, <1>7, <1>8, QuotientMonotone
<1> QED
  BY <1>3, <1>9

(***************************************************************************)
(* Verdicts.                                                               *)
(***************************************************************************)

\* ProveFirst makes a proof for the first key of a user in the digest, of whatever
\* size, and the client accepts it.
THEOREM FirstKeyIsAccepted ==
  ASSUME NEW size \in ForestSizes, NEW own \in SUBSET Nat,
         NEW pos \in own, pos < size, \A q \in own : pos <= q
  PROVE  ~ FirstPanics(own, pos, size) /\ MKVerdict(pos, size) = "accepts"
<1> DEFINE index == GetRootIndex(pos, size)
<1>1. pos \in Nat /\ size \in Nat /\ pos \in 0 .. size - 1
  BY DEF ForestSizes
<1>2. index \in 0 .. NumRoots(size) - 1 /\ pos \in Under(index, size)
  BY <1>1, EveryPositionHasItsTree
<1>3. NumRoots(size) \in Nat
  BY FiniteForest
<1>4. ~ Hangs(pos, size)
  BY <1>2, <1>3 DEF Hangs
<1>5. InOwnTree(pos, size)
  BY <1>2 DEF InOwnTree
<1>6. Has(own, index, size)
  BY <1>2 DEF Has
<1>7. ASSUME NEW i \in 0 .. NumRoots(size) - 1, i < index, Has(own, i, size) PROVE FALSE
  <2>1. PICK q \in own : q \in Under(i, size)
    BY <1>7 DEF Has
  <2>2. q < pos
    BY <1>2, <1>7, <2>1, TreesAreInOrder
  <2> QED
    BY <1>1, <2>1, <2>2
<1> HIDE DEF index
<1>8. \A i \in InternalRootsOf(size) : i \in 0 .. NumRoots(size) - 1
  BY DEF InternalRootsOf
<1>9. ~ FirstPanics(own, pos, size)
  BY <1>6, <1>7, <1>8 DEF FirstPanics, index
<1> QED
  BY <1>4, <1>5, <1>9 DEF MKVerdict

\* ProveLatest makes a proof for the newest key of a user in the digest, of whatever
\* size, and the client accepts it.
THEOREM NewestKeyIsAccepted ==
  ASSUME NEW size \in ForestSizes, NEW own \in SUBSET Nat,
         NEW pos \in own, pos < size, \A q \in own : q <= pos \/ q >= size
  PROVE  ~ LatestPanics(own, pos, size) /\ PKVerdict(own, pos, size) = "accepts"
<1> DEFINE index == GetRootIndex(pos, size)
           last == NumRoots(size) - 1
<1>1. pos \in Nat /\ size \in Nat /\ pos \in 0 .. size - 1
  BY DEF ForestSizes
<1>2. index \in 0 .. last /\ pos \in Under(index, size)
  BY <1>1, EveryPositionHasItsTree
<1>3. NumRoots(size) \in Nat
  BY FiniteForest
<1>4. ~ Hangs(pos, size)
  BY <1>2, <1>3 DEF Hangs
<1>5. InOwnTree(pos, size)
  BY <1>2 DEF InOwnTree
<1>6. Has(own, index, size)
  BY <1>2 DEF Has
<1>7. ASSUME NEW i \in 0 .. last, i > index, Has(own, i, size) PROVE FALSE
  <2>1. PICK q \in own : q \in Under(i, size)
    BY <1>7 DEF Has
  <2>2. index < i
    BY <1>2, <1>7
  <2>3. pos < q
    BY <1>2, <2>1, <2>2, TreesAreInOrder
  <2>4. q \in 0 .. size - 1
    BY <2>1, EveryPositionHasItsTree
  <2> QED
    BY <1>1, <2>1, <2>3, <2>4
<1> HIDE DEF index
<1>8. \A i \in InternalRootsOf(size) : i \in 0 .. last
  BY DEF InternalRootsOf
<1>9. ~ LatestPanics(own, pos, size)
  BY <1>6, <1>7, <1>8 DEF LatestPanics, index
<1>10. last > index => ~ Has(own, last, size)
  <2>1. last \in 0 .. last
    BY <1>2, <1>3
  <2> QED
    BY <1>7, <2>1
<1>11. PKVerdict(own, pos, size) = "accepts"
  BY <1>4, <1>5, <1>10 DEF PKVerdict, index
<1> QED
  BY <1>9, <1>11

\* The tree that a position is in does not get smaller as the forest grows.
LEMMA DepthsGrow ==
  ASSUME NEW size \in ForestSizes, NEW target \in ForestSizes, size <= target, NEW pos \in 0 .. size - 1
  PROVE  /\ GetOldDepth(pos, size) \in 0 .. Depth
         /\ GetOldDepth(pos, target) \in 0 .. Depth
         /\ GetOldDepth(pos, size) <= GetOldDepth(pos, target)
<1> DEFINE c == GetOldDepth(pos, size)
           d == GetOldDepth(pos, target)
<1>1. size \in Nat /\ target \in Nat /\ pos \in Nat /\ pos \in 0 .. target - 1
  BY DEF ForestSizes
<1>2. c \in Ones(size) /\ size \div 2 ^ c = pos \div 2 ^ c + 1
  <2>1. /\ GetRootIndex(pos, size) \in 0 .. NumRoots(size) - 1
        /\ pos \in Under(GetRootIndex(pos, size), size)
    BY EveryPositionHasItsTree
  <2> QED
    BY <1>1, <2>1, UnderIsQuotient, EveryRootHasATree DEF GetOldDepth
<1>3. d \in Ones(target) /\ target \div 2 ^ d = pos \div 2 ^ d + 1
  <2>1. /\ GetRootIndex(pos, target) \in 0 .. NumRoots(target) - 1
        /\ pos \in Under(GetRootIndex(pos, target), target)
    BY <1>1, EveryPositionHasItsTree
  <2> QED
    BY <1>1, <2>1, UnderIsQuotient, EveryRootHasATree DEF GetOldDepth
<1> HIDE DEF c, d
<1>4. c \in 0 .. Depth /\ d \in 0 .. Depth /\ Bit(target, d) = 1
  BY <1>2, <1>3 DEF Ones
<1>5. ~ (d < c)
  <2>1. SUFFICES ASSUME d < c PROVE FALSE
    OBVIOUS
  <2>2. /\ target \div 2 ^ d = 2 * (target \div 2 ^ (d + 1)) + 1
        /\ pos \div 2 ^ d = 2 * (pos \div 2 ^ (d + 1)) + Bit(pos, d)
        /\ target \div 2 ^ (d + 1) \in Nat /\ pos \div 2 ^ (d + 1) \in Nat /\ Bit(pos, d) \in {0, 1}
    <3>1. \A n \in Nat : /\ n \div 2 ^ d = 2 * (n \div 2 ^ (d + 1)) + Bit(n, d)
                         /\ n \div 2 ^ (d + 1) \in Nat /\ Bit(n, d) \in {0, 1}
      BY <1>4, NextBit
    <3> QED
      BY <1>1, <1>4, <3>1
  <2>3. pos \div 2 ^ (d + 1) = target \div 2 ^ (d + 1)
    BY <1>3, <2>2
  <2>4. c \in 0 .. Depth + 1 /\ d + 1 \in 0 .. Depth + 1 /\ c >= d + 1
    BY <1>4, <2>1, DepthAssumption
  <2>5. pos \div 2 ^ c = target \div 2 ^ c
    BY <1>1, <2>3, <2>4, SameAbove
  <2>6. 2 ^ c \in Nat \ {0} /\ pos \div 2 ^ c \in Nat
    BY <1>1, <1>4, NextBit, PowersAssumption
  <2>7. size \div 2 ^ c <= target \div 2 ^ c
    BY <1>1, <2>6, QuotientMonotone
  <2> QED
    BY <1>2, <2>5, <2>6, <2>7
<1> QED
  BY <1>4, <1>5 DEF c, d

\* A forest's roots as a set.
LEMMA OldRootsAsSet ==
  ASSUME NEW size
  PROVE  ToSet(GetOldRoots(size)) = { << d, ShiftOf(size, d) >> : d \in Ones(size) }
<1> DEFINE N == NumRoots(size)
           Root(d) == << d, ShiftOf(size, d) >>
<1>1. N \in Nat
  BY FiniteForest
<1>2. GetOldRoots(size) = [ i \in 1 .. N |-> Root(RootDepth(i - 1, size)) ]
  BY DEF GetOldRoots, NumRoots
<1>3. ToSet(GetOldRoots(size)) = { Root(RootDepth(i - 1, size)) : i \in 1 .. N }
  BY <1>2 DEF ToSet
<1>4. ASSUME NEW i \in 1 .. N PROVE RootDepth(i - 1, size) \in Ones(size)
  <2>1. i - 1 \in 0 .. N - 1
    BY <1>1
  <2> QED
    BY <2>1, EveryRootHasATree
<1>5. ASSUME NEW d \in Ones(size) PROVE \E i \in 1 .. N : RootDepth(i - 1, size) = d
  <2> DEFINE j == Cardinality(Greater(d, size))
  <2>1. RootDepth(j, size) = d
    BY RootDepthOf
  <2>2. Greater(d, size) \in SUBSET Ones(size) /\ d \notin Greater(d, size) /\ d \in Int
    BY FiniteForest DEF Greater
  <2>3. j \in Nat /\ IsFiniteSet(Ones(size))
    BY <2>2, FiniteForest
  <2>4. j <= N /\ N # j
    BY <2>2, <2>3, FS_Subset DEF NumRoots
  <2> HIDE DEF j
  <2>5. j + 1 \in 1 .. N /\ (j + 1) - 1 = j
    BY <1>1, <2>3, <2>4
  <2> QED
    BY <2>1, <2>5
<1> HIDE DEF Root, N
<1>6. { Root(RootDepth(i - 1, size)) : i \in 1 .. N } = { Root(d) : d \in Ones(size) }
  BY <1>4, <1>5
<1> QED
  BY <1>3, <1>6 DEF Root

\* An extension proof from an old digest for a target that the log has reached is
\* accepted against every digest in between: neither the trees that the server
\* leaves out nor the path that it ends at its own root are those of the wrong size.
THEOREM ExtensionIsAccepted ==
  ASSUME NEW oldSize \in ForestSizes, NEW size \in ForestSizes, NEW target \in ForestSizes,
         oldSize <= size, size <= target
  PROVE  ExtensionVerdict(oldSize, size, target) = "accepts"
<1> DEFINE old == ToSet(GetOldRoots(oldSize))
           Reaches(s) == GetOldDepth(oldSize - 1, s)
<1>1. oldSize \in Nat /\ size \in Nat /\ target \in Nat
  BY DEF ForestSizes
<1>2. CASE oldSize = 0
  <2>1. Ones(0) = {}
    <3>1. ASSUME NEW b \in 0 .. Depth PROVE Bit(0, b) = 0
      <4>1. 2 ^ b \in Nat \ {0}
        BY PowersAssumption
      <4> HIDE DEF Bit
      <4>2. 0 \div 2 ^ b = 0
        BY <4>1
      <4>3. 0 % 2 = 0
        OBVIOUS
      <4> QED
        BY <4>2, <4>3 DEF Bit
    <3> QED
      BY <3>1 DEF Ones
  <2>2. old = {}
    BY <1>2, <2>1, OldRootsAsSet
  <2> QED
    BY <2>2 DEF ExtensionVerdict
<1>3. CASE oldSize # 0
  <2>1. oldSize - 1 \in 0 .. size - 1
    BY <1>1, <1>3
  <2>2. Reaches(size) \in 0 .. Depth /\ Reaches(target) \in 0 .. Depth
        /\ Reaches(size) <= Reaches(target)
    BY <2>1, DepthsGrow
  <2>3. ~ (Reaches(target) < Reaches(size))
    <3> HIDE DEF Reaches
    <3> QED
      BY <2>2
  <2>4. ASSUME old \subseteq ToSet(GetOldRoots(target)) PROVE old \subseteq ToSet(GetOldRoots(size))
    <3>1. ASSUME NEW b \in Ones(oldSize)
          PROVE  << b, ShiftOf(oldSize, b) >> \in { << d, ShiftOf(size, d) >> : d \in Ones(size) }
      <4>1. b \in 0 .. Depth /\ Bit(oldSize, b) = 1
        BY <3>1 DEF Ones
      <4>2. << b, ShiftOf(oldSize, b) >> \in { << d, ShiftOf(target, d) >> : d \in Ones(target) }
        BY <2>4, OldRootsAsSet
      <4>3. PICK d \in Ones(target) : << b, ShiftOf(oldSize, b) >> = << d, ShiftOf(target, d) >>
        BY <4>2
      <4>4. b = d /\ ShiftOf(oldSize, b) = ShiftOf(target, b) /\ Bit(target, b) = 1
        BY <4>3 DEF Ones
      <4> DEFINE Part(n) == n \div 2 ^ b
                 Rest(n) == n \div 2 ^ (b + 1)
      <4>5. \A n \in Nat : /\ Part(n) \in Nat /\ Rest(n) \in Nat
                           /\ Part(n) = 2 * Rest(n) + Bit(n, b) /\ Bit(n, b) \in {0, 1}
        BY <4>1, NextBit
      <4>6. Rest(oldSize) = Rest(target)
        <5>1. 2 * Rest(oldSize) = 2 * Rest(target)
          BY <4>4 DEF ShiftOf
        <5>2. Rest(oldSize) \in Nat /\ Rest(target) \in Nat
          BY <1>1, <4>5
        <5> HIDE DEF Rest
        <5> QED
          BY <5>1, <5>2
      <4>7. 2 ^ b \in Nat \ {0} /\ 2 ^ (b + 1) \in Nat \ {0}
        BY <4>1, PowersAssumption
      <4>8. Part(oldSize) <= Part(size) /\ Part(size) <= Part(target)
            /\ Rest(oldSize) <= Rest(size) /\ Rest(size) <= Rest(target)
        BY <1>1, <4>7, QuotientMonotone
      <4> HIDE DEF Part, Rest
      <4>9. Rest(size) = Rest(oldSize) /\ Bit(size, b) = 1
        <5>1. /\ Part(oldSize) = 2 * Rest(oldSize) + 1 /\ Rest(oldSize) \in Nat
              /\ Part(target) = 2 * Rest(target) + 1 /\ Part(target) \in Nat
              /\ Part(size) = 2 * Rest(size) + Bit(size, b) /\ Rest(size) \in Nat
              /\ Bit(size, b) \in {0, 1}
          BY <1>1, <4>1, <4>4, <4>5
        <5>2. Rest(size) = Rest(oldSize)
          BY <4>6, <4>8, <5>1
        <5> QED
          BY <4>6, <4>8, <5>1, <5>2
      <4>10. b \in Ones(size)
        BY <4>1, <4>9 DEF Ones
      <4>11. ShiftOf(size, b) = ShiftOf(oldSize, b)
        BY <4>9 DEF ShiftOf, Rest
      <4> QED
        BY <4>10, <4>11
    <3> QED
      BY <3>1, OldRootsAsSet
  <2> QED
    BY <2>3, <2>4 DEF ExtensionVerdict
<1> QED
  BY <1>2, <1>3
=============================================================================
