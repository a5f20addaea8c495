------------------------- MODULE MerkleSquareProofs -------------------------
(***************************************************************************)
(* Theorems about MerkleSquare, for logs of every length up to what a tree *)
(* of any depth has room for: the forest that Append grows in place has at *)
(* all times the digests of what was appended.                             *)
(***************************************************************************)
EXTENDS MerkleSquare, ForestIndexProofs

(***************************************************************************)
(* Numbers.                                                                *)
(***************************************************************************)

Product == INSTANCE SequenceLemmas WITH
  LoopBody <- LAMBDA fixed, n, s : s,
  Claim <- LAMBDA fixed, n : fixed + n <= Depth => 2 ^ (fixed + n) = 2 ^ fixed * 2 ^ n

\* Powers are multiplied by adding the exponents.
LEMMA PowersProduct ==
  ASSUME NEW a \in Nat, NEW b \in Nat, a + b <= Depth
  PROVE  2 ^ (a + b) = 2 ^ a * 2 ^ b
<1> DEFINE Holds(n) == a + n <= Depth => 2 ^ (a + n) = 2 ^ a * 2 ^ n
<1>1. a \in 0 .. Depth /\ Depth \in Nat
  BY DepthAssumption
<1>2. Holds(0)
  <2>1. a + 0 = a /\ 2 ^ a \in Nat /\ 2 ^ 0 = 1
    BY <1>1, Powers
  <2> QED
    BY <2>1
<1>3. ASSUME NEW n \in Nat, Holds(n) PROVE Holds(n + 1)
  <2>1. SUFFICES ASSUME a + (n + 1) <= Depth PROVE 2 ^ (a + (n + 1)) = 2 ^ a * 2 ^ (n + 1)
    OBVIOUS
  <2>2. n \in 0 .. Depth /\ a + n \in 0 .. Depth /\ a + (n + 1) = (a + n) + 1
    BY <1>1, <2>1
  <2>3. /\ 2 ^ a \in Nat /\ 2 ^ n \in Nat /\ 2 ^ (n + 1) = 2 * 2 ^ n
        /\ 2 ^ ((a + n) + 1) = 2 * 2 ^ (a + n)
    BY <1>1, <2>2, Powers
  <2>4. 2 ^ (a + n) = 2 ^ a * 2 ^ n
    BY <1>1, <1>3, <2>2
  <2> DEFINE x == 2 ^ a
             y == 2 ^ n
  <2>5. 2 * (x * y) = x * (2 * y)
    <3>1. x \in Nat /\ y \in Nat
      BY <2>3
    <3> HIDE DEF x, y
    <3> QED
      BY <3>1
  <2> QED
    BY <2>2, <2>3, <2>4, <2>5
<1>4. \A n \in Nat : Holds(n)
  BY <1>2, <1>3, Product!Induction
<1> QED
  BY <1>4

(***************************************************************************)
(* Prefix trees.                                                           *)
(***************************************************************************)

\* A new greatest position changes no rank.
LEMMA RankKept ==
  ASSUME NEW own \in SUBSET Nat, NEW new \in Nat, \A p \in own : p < new,
         NEW pos \in own
  PROVE  Rank(own \cup {new}, pos) = Rank(own, pos)
<1>1. { p \in own \cup {new} : p < pos } = { p \in own : p < pos }
  OBVIOUS
<1> QED
  BY <1>1, Zenon DEF Rank

\* Its own is the number of the others.
LEMMA RankOfNew ==
  ASSUME NEW own \in SUBSET Nat, NEW new \in Nat, \A p \in own : p < new
  PROVE  Rank(own \cup {new}, new) = Cardinality(own)
<1>1. { p \in own \cup {new} : p < new } = own
  <2>1. ~ (new < new)
    OBVIOUS
  <2> QED
    BY <2>1
<1> QED
  BY <1>1, Zenon DEF Rank

\* The rank of a position is less than the number of positions.
LEMMA RankIsSmall ==
  ASSUME NEW own \in SUBSET Nat, IsFiniteSet(own), NEW pos \in own
  PROVE  Rank(own, pos) \in Nat /\ Rank(own, pos) < Cardinality(own)
<1> DEFINE less == { p \in own : p < pos }
<1>1. less \in SUBSET own /\ pos \in own /\ pos \notin less
  OBVIOUS
<1> HIDE DEF less
<1>2. IsFiniteSet(less) /\ Cardinality(less) \in Nat /\ Cardinality(own) \in Nat
  BY <1>1, FS_Subset, FS_CardinalityType
<1>3. Cardinality(less) <= Cardinality(own) /\ Cardinality(own) # Cardinality(less)
  BY <1>1, FS_Subset
<1> QED
  BY <1>2, <1>3 DEF Rank, less

\* The positions keep their order, and the new one is the last.
LEMMA NthAfter ==
  ASSUME NEW own \in SUBSET Nat, IsFiniteSet(own), NEW new \in Nat, \A p \in own : p < new
  PROVE  /\ Cardinality(own \cup {new}) = Cardinality(own) + 1
         /\ \A i \in 1 .. Cardinality(own) : Nth(own \cup {new}, i) = Nth(own, i)
         /\ Nth(own \cup {new}, Cardinality(own) + 1) = new
<1> DEFINE all == own \cup {new}
           N   == Cardinality(own)
<1>1. new \notin own /\ N \in Nat
  BY FS_CardinalityType
<1>2. Cardinality(own \cup {new}) = N + 1
  BY <1>1, FS_AddElement
<1>3. \A pos \in own : Rank(all, pos) = Rank(own, pos) /\ Rank(own, pos) \in Nat /\ Rank(own, pos) < N
  BY RankKept, RankIsSmall
<1>4. Rank(all, new) = N
  BY RankOfNew
<1>5. new \in all /\ \A pos \in all : pos \in own \/ pos = new
  OBVIOUS
<1>6. own \subseteq all
  OBVIOUS
<1> HIDE DEF all, N
<1>7. ASSUME NEW i \in 1 .. N PROVE Nth(all, i) = Nth(own, i)
  <2>1. \A pos : pos \in all /\ Rank(all, pos) = i - 1 <=> pos \in own /\ Rank(own, pos) = i - 1
    <3>1. N # i - 1
      BY <1>1
    <3> QED
      BY <1>3, <1>4, <1>5, <1>6, <3>1
  <2>2. { pos \in all : Rank(all, pos) = i - 1 } = { pos \in own : Rank(own, pos) = i - 1 }
    BY <2>1
  <2> QED
    BY <2>1, Zenon DEF Nth
<1>8. Nth(all, N + 1) = new
  <2>1. \A pos \in all : Rank(all, pos) = (N + 1) - 1 => pos = new
    BY <1>1, <1>3, <1>5
  <2>2. Rank(all, new) = (N + 1) - 1
    BY <1>1, <1>4
  <2> QED
    BY <1>5, <2>1, <2>2, Zenon DEF Nth
<1> QED
  BY <1>2, <1>7, <1>8 DEF all, N

\* A list one longer.
LEMMA AppendToList ==
  ASSUME NEW n \in Nat, NEW f
  PROVE  Append([ i \in 1 .. n |-> f[i] ], f[n + 1]) = [ i \in 1 .. n + 1 |-> f[i] ]
<1> DEFINE s == [ i \in 1 .. n |-> f[i] ]
<1>1. s \in Seq({ f[i] : i \in 1 .. n }) /\ Len(s) = n
  OBVIOUS
<1>2. Append(s, f[n + 1]) = [ i \in 1 .. n + 1 |-> IF i = n + 1 THEN f[n + 1] ELSE s[i] ]
  <2> HIDE DEF s
  <2> QED
    BY <1>1
<1>3. \A i \in 1 .. n + 1 : (IF i = n + 1 THEN f[n + 1] ELSE s[i]) = f[i]
  OBVIOUS
<1> QED
  BY <1>2, <1>3

\* What the prefix tree of the keys at some positions has for one key.
Own(keys, positions, key) == { pos \in positions : keys[pos + 1] = key }
ListOf(key, own) == [ i \in 1 .. Cardinality(own) |-> KeyHash(key, Nth(own, i)) ]

\* The prefix tree has one list for each key.
LEMMA PrefixTreeIs ==
  ASSUME NEW keys, NEW positions
  PROVE  /\ PrefixTreeOf(keys, positions) =
              [ key \in { keys[pos + 1] : pos \in positions } |-> ListOf(key, Own(keys, positions, key)) ]
         /\ DOMAIN PrefixTreeOf(keys, positions) = { keys[pos + 1] : pos \in positions }
         /\ \A key \in { keys[pos + 1] : pos \in positions } :
              PrefixTreeOf(keys, positions)[key] = ListOf(key, Own(keys, positions, key))
<1>1. PrefixTreeOf(keys, positions) =
        [ key \in { keys[pos + 1] : pos \in positions } |-> ListOf(key, Own(keys, positions, key)) ]
  BY DEF PrefixTreeOf, ListOf, Own
<1> QED
  BY <1>1

\* The prefix tree of the keys at some positions depends on nothing else.
LEMMA PrefixTreeFrame ==
  ASSUME NEW keys, NEW others, NEW positions,
         \A pos \in positions : others[pos + 1] = keys[pos + 1]
  PROVE  PrefixTreeOf(others, positions) = PrefixTreeOf(keys, positions)
<1>1. { others[pos + 1] : pos \in positions } = { keys[pos + 1] : pos \in positions }
  OBVIOUS
<1>2. \A key : Own(others, positions, key) = Own(keys, positions, key)
  BY DEF Own
<1>3. PrefixTreeOf(keys, positions) =
        [ key \in { keys[pos + 1] : pos \in positions } |-> ListOf(key, Own(keys, positions, key)) ]
  BY PrefixTreeIs
<1>4. PrefixTreeOf(others, positions) =
        [ key \in { others[pos + 1] : pos \in positions } |-> ListOf(key, Own(others, positions, key)) ]
  BY PrefixTreeIs
<1>5. \A S : [ key \in S |-> ListOf(key, Own(others, positions, key)) ] =
             [ key \in S |-> ListOf(key, Own(keys, positions, key)) ]
  BY <1>2
<1> QED
  BY <1>1, <1>3, <1>4, <1>5, Zenon

\* A list gets the hash of a new greatest position at its end.
LEMMA ListAppend ==
  ASSUME NEW key, NEW own \in SUBSET Nat, IsFiniteSet(own), NEW new \in Nat, \A p \in own : p < new
  PROVE  ListOf(key, own \cup {new}) = Append(ListOf(key, own), KeyHash(key, new))
<1> DEFINE N == Cardinality(own)
           f == [ i \in 1 .. N + 1 |-> KeyHash(key, Nth(own \cup {new}, i)) ]
<1>1. N \in Nat
  BY FS_CardinalityType
<1>2. /\ Cardinality(own \cup {new}) = N + 1
      /\ \A i \in 1 .. N : Nth(own \cup {new}, i) = Nth(own, i)
      /\ Nth(own \cup {new}, N + 1) = new
  BY NthAfter
<1> HIDE DEF N
<1>3. f[N + 1] = KeyHash(key, new)
  <2>1. N + 1 \in 1 .. N + 1
    BY <1>1
  <2> QED
    BY <1>2, <2>1
<1>4. ListOf(key, own) = [ i \in 1 .. N |-> f[i] ]
  <2>1. \A i \in 1 .. N : f[i] = KeyHash(key, Nth(own, i))
    <3>1. \A i \in 1 .. N : i \in 1 .. N + 1
      BY <1>1
    <3> QED
      BY <1>2, <3>1
  <2>2. ListOf(key, own) = [ i \in 1 .. N |-> KeyHash(key, Nth(own, i)) ]
    BY DEF ListOf, N
  <2> HIDE DEF f
  <2> QED
    BY <2>1, <2>2
<1>5. ListOf(key, own \cup {new}) = [ i \in 1 .. N + 1 |-> f[i] ]
  BY <1>2 DEF ListOf
<1> HIDE DEF f
<1>6. Append([ i \in 1 .. N |-> f[i] ], f[N + 1]) = [ i \in 1 .. N + 1 |-> f[i] ]
  BY <1>1, AppendToList
<1> QED
  BY <1>3, <1>4, <1>5, <1>6

\* Without positions there is no hash.
LEMMA ListOfNothing == \A key : ListOf(key, {}) = <<>>
<1>1. Cardinality({}) = 0
  BY FS_EmptySet
<1>2. \A key : ListOf(key, {}) = [ i \in 1 .. 0 |-> KeyHash(key, Nth({}, i)) ]
  BY <1>1 DEF ListOf
<1>3. 1 .. 0 = {}
  OBVIOUS
<1> QED
  BY <1>2, <1>3

\* A key that is appended becomes the last of its hashes in the prefix tree.
LEMMA PrefixTreeAppend ==
  ASSUME NEW keys, NEW positions \in SUBSET Nat, IsFiniteSet(positions),
         NEW new \in Nat, \A pos \in positions : pos < new
  PROVE  LET tree == PrefixTreeOf(keys, positions)
             key  == keys[new + 1]
         IN  PrefixTreeOf(keys, positions \cup {new}) =
               WithValues(tree, key, Append(Values(tree, key), KeyHash(key, new)))
<1> DEFINE all  == positions \cup {new}
           key  == keys[new + 1]
           tree == PrefixTreeOf(keys, positions)
           values == Append(Values(tree, key), KeyHash(key, new))
           own == Own(keys, positions, key)
<1>1. /\ DOMAIN tree = { keys[pos + 1] : pos \in positions }
      /\ \A k \in DOMAIN tree : tree[k] = ListOf(k, Own(keys, positions, k))
  BY PrefixTreeIs
<1>2. { keys[pos + 1] : pos \in all } = DOMAIN tree \cup {key}
  BY <1>1
<1>3. \A k : k # key => Own(keys, all, k) = Own(keys, positions, k)
  BY DEF Own
<1>4. Own(keys, all, key) = own \cup {new}
  BY DEF Own
<1>5. own \in SUBSET Nat /\ IsFiniteSet(own) /\ \A p \in own : p < new
  BY FS_Subset DEF Own
<1>6. Values(tree, key) = ListOf(key, own)
  <2>1. CASE key \in DOMAIN tree
    BY <1>1, <2>1 DEF Values
  <2>2. CASE key \notin DOMAIN tree
    <3>1. own = {}
      BY <1>1, <2>2 DEF Own
    <3>2. ListOf(key, own) = <<>>
      BY <3>1, ListOfNothing
    <3> QED
      BY <2>2, <3>2 DEF Values
  <2> QED
    BY <2>1, <2>2
<1> HIDE DEF own
<1>7. ListOf(key, own \cup {new}) = Append(ListOf(key, own), KeyHash(key, new))
  BY <1>5, ListAppend
<1>8. ListOf(key, Own(keys, all, key)) = values
  BY <1>4, <1>6, <1>7
<1>9. PrefixTreeOf(keys, all) =
        [ k \in { keys[pos + 1] : pos \in all } |-> ListOf(k, Own(keys, all, k)) ]
  BY PrefixTreeIs
<1> HIDE DEF values, key, tree, all
<1>10. \A k \in DOMAIN tree \cup {key} :
         ListOf(k, Own(keys, all, k)) = IF k = key THEN values ELSE tree[k]
  BY <1>1, <1>3, <1>8
<1>11. PrefixTreeOf(keys, all) = [ k \in DOMAIN tree \cup {key} |-> IF k = key THEN values ELSE tree[k] ]
  BY <1>2, <1>9, <1>10
<1> QED
  BY <1>11 DEF WithValues, values, all, key, tree

\* Without positions there is no key.
LEMMA PrefixTreeOfNothing ==
  ASSUME NEW keys
  PROVE  PrefixTreeOf(keys, {}) = <<>>
  BY DEF PrefixTreeOf

(***************************************************************************)
(* Tree hashes.                                                            *)
(***************************************************************************)

\* The hashes of the keys alone, and of the trees of 2^depth keys from those of
\* half as many.
LeafHashes(keys) ==
  [ first \in Nat |-> LeafNodeHash(keys[first + 1], ContentHash(keys[first + 1], first)) ]

Joined(keys, depth, halves) ==
  [ first \in Nat |->
      InternalHash(halves[first], halves[first + 2 ^ (depth - 1)],
                   PrefixHash(PrefixTreeOf(keys, first .. first + 2 ^ depth - 1))) ]

Hashes == INSTANCE SequenceLemmas WITH
  LoopBody <- LAMBDA fixed, n, s : Joined(fixed, n, s), Claim <- LAMBDA fixed, n : TRUE

\* What TreeHashes defines by recursion exists, and is this.
LEMMA TreeHashesAre ==
  ASSUME NEW keys
  PROVE  /\ TreeHashes(keys)[0] = LeafHashes(keys)
         /\ \A n \in Nat : TreeHashes(keys)[n + 1] = Joined(keys, n + 1, TreeHashes(keys)[n])
<1>1. TreeHashes(keys) = Hashes!Loop(keys, LeafHashes(keys))
  BY DEF TreeHashes, LeafHashes, Joined, Hashes!Loop, Hashes!IsLoop
<1>2. /\ Hashes!Loop(keys, LeafHashes(keys))[0] = LeafHashes(keys)
      /\ \A n \in Nat : Hashes!Loop(keys, LeafHashes(keys))[n + 1] =
                          Joined(keys, n + 1, Hashes!Loop(keys, LeafHashes(keys))[n])
  BY Hashes!LoopRounds
<1> QED
  BY <1>1, <1>2

\* The hash of a single key, and of a tree of two halves.
LEMMA TreeHashSteps ==
  ASSUME NEW keys, NEW first \in Nat
  PROVE  /\ TreeHash(keys, first, 0) =
              LeafNodeHash(keys[first + 1], ContentHash(keys[first + 1], first))
         /\ \A n \in Nat :
              TreeHash(keys, first, n + 1) =
                InternalHash(TreeHash(keys, first, n), TreeHash(keys, first + 2 ^ n, n),
                             PrefixHash(PrefixTreeOf(keys, first .. first + 2 ^ (n + 1) - 1)))
<1>1. TreeHash(keys, first, 0) =
        LeafNodeHash(keys[first + 1], ContentHash(keys[first + 1], first))
  BY TreeHashesAre DEF TreeHash, LeafHashes
<1>2. ASSUME NEW n \in Nat
      PROVE  TreeHash(keys, first, n + 1) =
               InternalHash(TreeHash(keys, first, n), TreeHash(keys, first + 2 ^ n, n),
                            PrefixHash(PrefixTreeOf(keys, first .. first + 2 ^ (n + 1) - 1)))
  <2>1. (n + 1) - 1 = n
    OBVIOUS
  <2>2. TreeHashes(keys)[n + 1] = Joined(keys, n + 1, TreeHashes(keys)[n])
    BY TreeHashesAre
  <2>3. Joined(keys, n + 1, TreeHashes(keys)[n])[first] =
          InternalHash(TreeHashes(keys)[n][first], TreeHashes(keys)[n][first + 2 ^ n],
                       PrefixHash(PrefixTreeOf(keys, first .. first + 2 ^ (n + 1) - 1)))
    <3> HIDE DEF InternalHash, PrefixHash, PrefixTreeOf
    <3> QED
      BY <2>1 DEF Joined
  <2> QED
    BY <2>2, <2>3 DEF TreeHash
<1> QED
  BY <1>1, <1>2

\* Two lists of keys are the same in a range of positions.
SameIn(keys, others, first, size) ==
  \A pos \in first .. first + size - 1 : others[pos + 1] = keys[pos + 1]

SameTrees(keys, others, n) ==
  \A first \in Nat : SameIn(keys, others, first, 2 ^ n) => TreeHash(others, first, n) = TreeHash(keys, first, n)

Frame == INSTANCE SequenceLemmas WITH
  LoopBody <- LAMBDA fixed, n, s : s,
  Claim <- LAMBDA fixed, n : n <= Depth => SameTrees(fixed.keys, fixed.others, n)

\* The hash of a tree depends on nothing but its own keys.
LEMMA TreeHashFrame ==
  ASSUME NEW keys, NEW others, NEW depth \in 0 .. Depth, NEW first \in Nat,
         SameIn(keys, others, first, 2 ^ depth)
  PROVE  TreeHash(others, first, depth) = TreeHash(keys, first, depth)
<1> DEFINE fixed == [keys |-> keys, others |-> others]
<1>1. fixed.keys = keys /\ fixed.others = others
  OBVIOUS
<1> HIDE DEF fixed
<1>2. SameTrees(keys, others, 0)
  <2>1. SUFFICES ASSUME NEW f \in Nat, SameIn(keys, others, f, 2 ^ 0)
                 PROVE  TreeHash(others, f, 0) = TreeHash(keys, f, 0)
    BY DEF SameTrees
  <2>2. 2 ^ 0 = 1
    BY Powers
  <2>3. f \in f .. f + 1 - 1
    OBVIOUS
  <2>4. others[f + 1] = keys[f + 1]
    BY <2>1, <2>2, <2>3 DEF SameIn
  <2> QED
    BY <2>4, TreeHashSteps
<1>3. ASSUME NEW n \in Nat, n <= Depth => SameTrees(keys, others, n), n + 1 <= Depth
      PROVE  SameTrees(keys, others, n + 1)
  <2>1. SUFFICES ASSUME NEW f \in Nat, SameIn(keys, others, f, 2 ^ (n + 1))
                 PROVE  TreeHash(others, f, n + 1) = TreeHash(keys, f, n + 1)
    BY DEF SameTrees
  <2>2. Depth \in Nat /\ n \in 0 .. Depth
    BY <1>3, DepthAssumption
  <2>3. 2 ^ n \in Nat \ {0} /\ 2 ^ (n + 1) = 2 * 2 ^ n
    BY <2>2, Powers
  <2> DEFINE half == 2 ^ n
             whole == 2 ^ (n + 1)
  <2>4. half \in Nat /\ whole = 2 * half
    BY <2>3
  <2>5. /\ SameIn(keys, others, f, half) /\ SameIn(keys, others, f + half, half)
        /\ \A pos \in f .. f + whole - 1 : others[pos + 1] = keys[pos + 1]
    <3>1. SameIn(keys, others, f, whole)
      BY <2>1
    <3> HIDE DEF half, whole
    <3>2. \A pos \in f .. f + half - 1 : pos \in f .. f + whole - 1
      BY <2>4
    <3>3. \A pos \in f + half .. f + half + half - 1 : pos \in f .. f + whole - 1
      BY <2>4
    <3> QED
      BY <3>1, <3>2, <3>3 DEF SameIn
  <2>6. f + half \in Nat
    <3> HIDE DEF half
    <3> QED
      BY <2>4
  <2>7. /\ TreeHash(others, f, n) = TreeHash(keys, f, n)
        /\ TreeHash(others, f + half, n) = TreeHash(keys, f + half, n)
    BY <1>3, <2>2, <2>5, <2>6 DEF SameTrees
  <2>8. PrefixTreeOf(others, f .. f + whole - 1) = PrefixTreeOf(keys, f .. f + whole - 1)
    <3> DEFINE positions == f .. f + whole - 1
    <3>1. \A pos \in positions : others[pos + 1] = keys[pos + 1]
      BY <2>5
    <3> HIDE DEF positions
    <3>2. PrefixTreeOf(others, positions) = PrefixTreeOf(keys, positions)
      BY <3>1, PrefixTreeFrame
    <3> QED
      BY <3>2 DEF positions
  <2>9. \A list : TreeHash(list, f, n + 1) =
                   InternalHash(TreeHash(list, f, n), TreeHash(list, f + half, n),
                                PrefixHash(PrefixTreeOf(list, f .. f + whole - 1)))
    BY TreeHashSteps
  <2> HIDE DEF half, whole
  <2> QED
    BY <2>7, <2>8, <2>9
<1>4. \A n \in Nat : n <= Depth => SameTrees(keys, others, n)
  BY <1>1, <1>2, <1>3, Frame!Induction
<1>5. depth \in Nat /\ depth <= Depth
  BY DepthAssumption
<1> QED
  BY <1>4, <1>5 DEF SameTrees

(***************************************************************************)
(* From a size to the next.                                                *)
(***************************************************************************)

\* The size ends in so many ones, which the next one has as zeros.
LowOnes(size, k) == 2 ^ k * (size \div 2 ^ k + 1) = size + 1

\* A multiple's quotient, and that of the number before it.
LEMMA Multiple ==
  ASSUME NEW n \in Nat, NEW k \in Nat \ {0}, NEW m \in Nat, n + 1 = k * m
  PROVE  m # 0 /\ (n + 1) \div k = m /\ n \div k + 1 = m
<1>1. m # 0
  OBVIOUS
<1> DEFINE a == (n + 1) \div k
           b == n \div k
<1>2. a \in Nat /\ k * a <= n + 1 /\ n + 1 < k * (a + 1)
  BY Quotient
<1>3. b \in Nat /\ k * b <= n /\ n < k * (b + 1)
  BY Quotient
<1> HIDE DEF a, b
<1>4. ASSUME NEW x \in Nat, NEW y \in Nat, k * x < k * y PROVE x < y
  <2>1. SUFFICES ASSUME y <= x PROVE FALSE
    BY <1>4
  <2>2. k * y <= k * x
    BY <2>1
  <2>3. k * x \in Nat /\ k * y \in Nat
    OBVIOUS
  <2> QED
    BY <1>4, <2>2, <2>3
<1>5. a = m
  <2>1. k * m < k * (a + 1) /\ k * a <= k * m
    BY <1>2
  <2>2. k * (m + 1) = k * m + k /\ k * m \in Nat /\ k * a \in Nat /\ k * (m + 1) \in Nat
    BY <1>2
  <2>3. k * a < k * (m + 1)
    BY <2>1, <2>2
  <2>4. m < a + 1 /\ a < m + 1
    BY <1>2, <1>4, <2>1, <2>3
  <2> QED
    BY <1>2, <2>4
<1>6. b + 1 = m
  <2>1. k * b < k * m
    BY <1>3
  <2>2. k * m <= k * (b + 1)
    BY <1>3
  <2>3. k * (b + 1) + k = k * (b + 2) /\ k * (b + 1) \in Nat /\ k * m \in Nat /\ k * (b + 2) \in Nat
    BY <1>3
  <2>4. k * m < k * (b + 2)
    BY <2>2, <2>3
  <2>5. b < m /\ m < b + 2
    BY <1>3, <1>4, <2>1, <2>4
  <2> QED
    BY <1>3, <2>5
<1> QED
  BY <1>1, <1>5, <1>6 DEF a, b

\* At first nothing is claimed.
LEMMA LowOnesFirst ==
  ASSUME NEW size \in Nat
  PROVE  LowOnes(size, 0)
  BY Powers DEF LowOnes

\* One more one.
LEMMA LowOnesNext ==
  ASSUME NEW size \in Nat, NEW k \in 0 .. Depth, LowOnes(size, k), Bit(size, k) = 1
  PROVE  LowOnes(size, k + 1)
<1> DEFINE p == 2 ^ k
           q == size \div 2 ^ k
           h == size \div 2 ^ (k + 1)
<1>1. p \in Nat /\ 2 ^ (k + 1) = 2 * p
  BY PowersAssumption
<1>2. q \in Nat /\ h \in Nat /\ q = 2 * h + 1
  BY NextBit
<1>3. p * (q + 1) = size + 1
  BY DEF LowOnes
<1> HIDE DEF p, q, h
<1>4. (2 * p) * (h + 1) = p * (q + 1)
  <2>1. q + 1 = 2 * (h + 1)
    BY <1>2
  <2>2. (2 * p) * (h + 1) = p * (2 * (h + 1))
    BY <1>1, <1>2
  <2> QED
    BY <2>1, <2>2
<1>5. 2 ^ (k + 1) * (h + 1) = size + 1
  BY <1>1, <1>3, <1>4
<1> QED
  BY <1>5 DEF LowOnes, h

\* Up to the ones at the end, the next size has the next quotients.
LEMMA QuotientsBelow ==
  ASSUME NEW size \in Nat, NEW k \in 0 .. Depth, LowOnes(size, k), NEW d \in 0 .. k
  PROVE  /\ (size + 1) \div 2 ^ d = size \div 2 ^ d + 1
         /\ ((size + 1) \div 2 ^ d) * 2 ^ d = size + 1
         /\ (size + 1) \div 2 ^ d = ((size + 1) \div 2 ^ k) * 2 ^ (k - d)
         /\ d < k => Bit(size, d) = 1 /\ Bit(size + 1, d) = 0
<1>1. Depth \in Nat /\ k \in Nat /\ d \in Nat /\ k - d \in Nat /\ d + (k - d) = k
      /\ d \in 0 .. Depth /\ k - d \in 0 .. Depth /\ k <= Depth
  BY DepthAssumption
<1> DEFINE x == 2 ^ d
           y == 2 ^ (k - d)
           z == 2 ^ k
           q == size \div 2 ^ k + 1
           m == y * q
<1>2. x \in Nat \ {0} /\ y \in Nat \ {0} /\ z \in Nat \ {0}
  BY <1>1, Powers
<1>3. z = x * y
  <2>1. 2 ^ (d + (k - d)) = 2 ^ d * 2 ^ (k - d)
    BY <1>1, PowersProduct
  <2> QED
    BY <1>1, <2>1
<1>4. q \in Nat /\ z * q = size + 1
  <2>1. size \div z \in Nat
    BY <1>2, Quotient
  <2> QED
    BY <2>1 DEF LowOnes
<1>5. d < k => \E w \in Nat : m = 2 * w
  <2>1. SUFFICES ASSUME d < k PROVE \E w \in Nat : m = 2 * w
    OBVIOUS
  <2> DEFINE e == k - d - 1
             v == 2 ^ e
  <2>2. e \in 0 .. Depth /\ e + 1 = k - d
    BY <1>1, <2>1
  <2> HIDE DEF e
  <2>3. v \in Nat /\ y = 2 * v
    BY <2>2, PowersAssumption
  <2> HIDE DEF y, v, q
  <2>4. m = 2 * (v * q) /\ v * q \in Nat
    BY <1>4, <2>3
  <2> QED
    BY <2>4
<1> HIDE DEF q
<1>6. m \in Nat /\ size + 1 = x * m
  <2> HIDE DEF x, y, z
  <2>1. x * (y * q) = (x * y) * q /\ y * q \in Nat
    BY <1>2, <1>4
  <2> QED
    BY <1>3, <1>4, <2>1
<1> HIDE DEF m
<1>7. (size + 1) \div x = m /\ size \div x + 1 = m
  BY <1>2, <1>6, Multiple
<1>8. (size + 1) \div z = q
  BY <1>2, <1>4, Multiple
<1>9. m * x = size + 1 /\ m = q * y
  <2> HIDE DEF x, y, z
  <2> QED
    BY <1>2, <1>4, <1>6 DEF m
<1>10. d < k => (size \div x) % 2 = 1 /\ ((size + 1) \div x) % 2 = 0
  <2>1. SUFFICES ASSUME d < k PROVE (size \div x) % 2 = 1 /\ m % 2 = 0
    BY <1>7
  <2>2. PICK w \in Nat : m = 2 * w
    BY <1>5, <2>1
  <2>3. size \div x \in Nat
    BY <1>2, Quotient
  <2> DEFINE b == size \div x
  <2>4. b \in Nat /\ b + 1 = 2 * w
    BY <1>7, <2>2, <2>3
  <2> HIDE DEF b
  <2>5. b % 2 = 1
    BY <2>4
  <2>6. m % 2 = 0
    BY <2>2
  <2> QED
    BY <2>5, <2>6 DEF b
<1> QED
  BY <1>7, <1>8, <1>9, <1>10 DEF Bit

\* Above the zero after the ones at the end, both sizes have the same quotients.
LEMMA QuotientsAbove ==
  ASSUME NEW size \in Nat, NEW k \in 0 .. Depth, LowOnes(size, k), Bit(size, k) = 0
  PROVE  /\ \A d \in k + 1 .. Depth + 1 : (size + 1) \div 2 ^ d = size \div 2 ^ d
         /\ \A d \in k + 1 .. Depth : Bit(size + 1, d) = Bit(size, d)
         /\ Bit(size + 1, k) = 1
<1>1. k \in 0 .. k /\ size + 1 \in Nat /\ Depth \in Nat /\ k + 1 \in 0 .. Depth + 1
  BY DepthAssumption
<1>2. (size + 1) \div 2 ^ k = size \div 2 ^ k + 1
  BY <1>1, QuotientsBelow
<1> DEFINE q == size \div 2 ^ k
           h == size \div 2 ^ (k + 1)
           r == (size + 1) \div 2 ^ k
           g == (size + 1) \div 2 ^ (k + 1)
<1>3. q \in Nat /\ h \in Nat /\ q = 2 * h
  BY NextBit
<1>4. g \in Nat /\ r = 2 * g + Bit(size + 1, k) /\ Bit(size + 1, k) \in {0, 1}
  BY <1>1, NextBit
<1>5. g = h /\ Bit(size + 1, k) = 1
  <2>1. r = q + 1
    BY <1>2
  <2> DEFINE bit == Bit(size + 1, k)
  <2> HIDE DEF q, h, r, g, bit
  <2>2. 2 * h + 1 = 2 * g + bit
    BY <1>3, <1>4, <2>1 DEF bit
  <2> QED
    BY <1>3, <1>4, <2>2 DEF bit
<1>6. \A d \in 0 .. Depth + 1 : d >= k + 1 => (size + 1) \div 2 ^ d = size \div 2 ^ d
  BY <1>1, <1>5, SameAbove
<1>7. \A d \in k + 1 .. Depth + 1 : d \in 0 .. Depth + 1 /\ d >= k + 1
  BY <1>1
<1>8. \A d \in k + 1 .. Depth + 1 : (size + 1) \div 2 ^ d = size \div 2 ^ d
  BY <1>6, <1>7
<1>9. \A d \in k + 1 .. Depth : d \in k + 1 .. Depth + 1
  BY <1>1
<1> QED
  BY <1>5, <1>8, <1>9 DEF Bit

\* The powers of two in the next size: its new tree takes the place of the last k.
LEMMA NextOnes ==
  ASSUME NEW size \in Nat, NEW k \in 0 .. Depth, LowOnes(size, k), Bit(size, k) = 0
  PROVE  /\ 0 .. k - 1 \subseteq Ones(size)
         /\ Ones(size + 1) = (Ones(size) \ 0 .. k - 1) \cup {k}
         /\ k \notin Ones(size)
<1>1. Depth \in Nat /\ \A d \in 0 .. k - 1 : d \in 0 .. k /\ d < k /\ d \in 0 .. Depth
  BY DepthAssumption
<1>2. \A d \in 0 .. k - 1 : Bit(size, d) = 1 /\ Bit(size + 1, d) = 0
  BY <1>1, QuotientsBelow
<1>3. Bit(size + 1, k) = 1 /\ \A d \in k + 1 .. Depth : Bit(size + 1, d) = Bit(size, d)
  BY QuotientsAbove
<1>4. \A d \in 0 .. Depth : d \in 0 .. k - 1 \/ d = k \/ d \in k + 1 .. Depth
  OBVIOUS
<1> HIDE DEF Bit
<1>5. ASSUME NEW d PROVE d \in Ones(size + 1) <=> d \in (Ones(size) \ 0 .. k - 1) \cup {k}
  <2>1. d \in k + 1 .. Depth => d \notin 0 .. k - 1 /\ d # k
    OBVIOUS
  <2> QED
    BY <1>2, <1>3, <1>4, <2>1 DEF Ones
<1> QED
  BY <1>1, <1>2, <1>5 DEF Ones

\* And how many they are.
LEMMA NextRoots ==
  ASSUME NEW size \in Nat, NEW k \in 0 .. Depth, LowOnes(size, k), Bit(size, k) = 0
  PROVE  /\ k <= NumRoots(size)
         /\ NumRoots(size + 1) = NumRoots(size) - k + 1
         /\ \A i \in 0 .. NumRoots(size) - k - 1 :
              RootDepth(i, size + 1) = RootDepth(i, size) /\ RootDepth(i, size) > k
         /\ RootDepth(NumRoots(size) - k, size + 1) = k
<1> DEFINE ones == Ones(size)
           low  == 0 .. k - 1
           high == ones \ low
           N    == NumRoots(size)
<1>1. low \subseteq ones /\ Ones(size + 1) = high \cup {k} /\ k \notin ones
  BY NextOnes
<1>2. ones \subseteq 0 .. Depth /\ IsFiniteSet(ones) /\ N \in Nat /\ N = Cardinality(ones)
  BY FiniteForest DEF NumRoots
<1>3. IsFiniteSet(low) /\ Cardinality(low) = k
  <2>1. 0 \in Int /\ k - 1 \in Int
    OBVIOUS
  <2>2. IsFiniteSet(low) /\ Cardinality(low) = IF 0 > k - 1 THEN 0 ELSE (k - 1) - 0 + 1
    BY <2>1, FS_Interval
  <2> HIDE DEF low
  <2> QED
    BY <2>2
<1>4. high \subseteq ones /\ IsFiniteSet(high) /\ Cardinality(high) \in Nat
  BY <1>2, FS_Subset, FS_CardinalityType
<1>5. Cardinality(high) = N - k
  <2>1. Cardinality(ones) = Cardinality(high) + Cardinality(low)
    <3>1. high \cup low = ones /\ high \cap low = {}
      BY <1>1
    <3> HIDE DEF high, low
    <3>2. Cardinality(high \cup low) = Cardinality(high) + Cardinality(low) - Cardinality(high \cap low)
      BY <1>3, <1>4, FS_Union
    <3>3. Cardinality(high \cap low) = 0
      BY <3>1, FS_EmptySet
    <3>4. Cardinality(low) \in Nat
      BY <1>3
    <3>5. Cardinality(ones) = Cardinality(high) + Cardinality(low) - 0
      BY <3>1, <3>2, <3>3, Zenon
    <3> QED
      BY <1>4, <3>4, <3>5
  <2> HIDE DEF high, low
  <2> QED
    BY <1>2, <1>3, <1>4, <2>1
<1>6. k <= N
  BY <1>2, <1>4, <1>5
<1>7. NumRoots(size + 1) = N - k + 1
  <2>1. k \notin high
    BY <1>1
  <2>2. Cardinality(high \cup {k}) = Cardinality(high) + 1
    BY <1>4, <2>1, FS_AddElement
  <2> QED
    BY <1>1, <1>5, <2>2 DEF NumRoots
<1>8. \A c \in high : c > k
  BY <1>1, <1>2
<1>9. RootDepth(N - k, size + 1) = k
  <2>1. Greater(k, size + 1) = high
    BY <1>1, <1>8 DEF Greater
  <2>2. k \in Ones(size + 1)
    BY <1>1
  <2> HIDE DEF high
  <2> QED
    BY <1>5, <2>1, <2>2, RootDepthOf
<1>10. ASSUME NEW i \in 0 .. N - k - 1
       PROVE  RootDepth(i, size + 1) = RootDepth(i, size) /\ RootDepth(i, size) > k
  <2> DEFINE d == RootDepth(i, size)
  <2>1. i \in 0 .. NumRoots(size) - 1
    BY <1>2, <1>6
  <2>2. d \in ones /\ Cardinality(Greater(d, size)) = i
    BY <2>1, EveryRootHasATree
  <2> HIDE DEF d
  <2>3. d \in high
    <3>1. SUFFICES ASSUME d \in low PROVE FALSE
      BY <2>2
    <3>2. high \subseteq Greater(d, size)
      <4>1. \A c \in high : c \in ones /\ c \in Int /\ c > k
        BY <1>2, <1>8
      <4>2. \A c \in high : c > d
        BY <3>1, <4>1
      <4> HIDE DEF high
      <4> QED
        BY <4>1, <4>2 DEF Greater
    <3>3. IsFiniteSet(Greater(d, size)) /\ Cardinality(Greater(d, size)) \in Nat
      BY FiniteForest DEF Greater
    <3> HIDE DEF high
    <3>4. Cardinality(high) <= Cardinality(Greater(d, size))
      BY <3>2, <3>3, FS_Subset
    <3> QED
      BY <1>2, <1>4, <1>5, <2>2, <3>3, <3>4
  <2>4. Greater(d, size + 1) = Greater(d, size)
    <3>1. d > k
      BY <1>8, <2>3
    <3>2. \A c \in low : ~ (c > d)
      BY <3>1, <1>2, <2>2
    <3>3. ~ (k > d)
      BY <3>1, <1>2, <2>2
    <3> QED
      BY <1>1, <3>2, <3>3 DEF Greater
  <2>5. d \in Ones(size + 1)
    BY <1>1, <2>3
  <2>6. RootDepth(i, size + 1) = d
    BY <2>2, <2>4, <2>5, RootDepthOf
  <2> QED
    BY <1>8, <2>3, <2>6 DEF d
<1> QED
  BY <1>6, <1>7, <1>9, <1>10

(***************************************************************************)
(* Append.                                                                 *)
(***************************************************************************)

NodeFields == { "hash", "completed", "prefixTree" }

\* The node has the hash of its tree.
IsTree(tree, keys, d, shift) ==
  << d, shift >> \in DOMAIN tree /\ tree[<< d, shift >>].hash = TreeHash(keys, shift * 2 ^ d, d)

\* The node is not complete and has the prefix tree of the keys below it so far.
IsOpen(tree, keys, d, shift, size) ==
  /\ << d, shift >> \in DOMAIN tree
  /\ DOMAIN tree[<< d, shift >>] = NodeFields
  /\ tree[<< d, shift >>].completed = FALSE
  /\ tree[<< d, shift >>].prefixTree = PrefixTreeOf(keys, shift * 2 ^ d .. size - 1)

\* All trees that were ever complete are.
TreesOK(tree, keys, size) ==
  \A d \in 0 .. Depth : \A shift \in Nat : shift < size \div 2 ^ d => IsTree(tree, keys, d, shift)

\* There are no nodes to the right of the way to the next leaf.
NothingBeyond(domain, size) ==
  \A d \in 0 .. Depth : \A shift \in Nat : << d, shift >> \in domain => shift <= size \div 2 ^ d

\* The nodes above the next leaf, and itself, are open.
WayOpen(tree, keys, size) ==
  \A d \in 0 .. Depth : IsOpen(tree, keys, d, size \div 2 ^ d, size)

\* The invariant.
ForestInv ==
  /\ Size \in 0 .. 2 ^ Depth
  /\ log \in Seq(Keys) /\ Len(log) = Size
  /\ Roots = GetOldRoots(Size)
  /\ TreesOK(nodes, log, Size)
  /\ NothingBeyond(DOMAIN nodes, Size)
  /\ ~ IsFull => next = << 0, Size >> /\ WayOpen(nodes, log, Size)

\* The loop stands at the root of a complete tree at the end of the log.
RoundOK(s, domain, keys, size, k) ==
  /\ LowOnes(size, k)
  /\ s.at = << k, size \div 2 ^ k >>
  /\ s.roots = [ i \in 1 .. NumRoots(size) - k |-> GetOldRoots(size)[i] ]
  /\ DOMAIN s.tree = domain
  /\ TreesOK(s.tree, keys, size)
  /\ \A d \in 0 .. k : IsTree(s.tree, keys, d, size \div 2 ^ d)
  /\ \A d \in k + 1 .. Depth : IsOpen(s.tree, keys, d, size \div 2 ^ d, size + 1)

\* What is shorter than the log is unchanged by an append.
LEMMA AppendSame ==
  ASSUME log \in Seq(Keys), NEW key \in Keys, NEW first \in Nat, NEW size \in Nat,
         first + size <= Len(log)
  PROVE  SameIn(log, Append(log, key), first, size)
  BY DEF SameIn

\* A complete tree that is not changed stays one.
LEMMA TreeStays ==
  ASSUME log \in Seq(Keys), NEW key \in Keys, NEW d \in 0 .. Depth, NEW shift \in Nat,
         shift < Len(log) \div 2 ^ d
  PROVE  TreeHash(Append(log, key), shift * 2 ^ d, d) = TreeHash(log, shift * 2 ^ d, d)
<1> DEFINE x == 2 ^ d
           q == Len(log) \div x
<1>1. x \in Nat \ {0}
  BY PowersAssumption
<1>2. q \in Nat /\ x * q <= Len(log)
  BY <1>1, Quotient
<1>3. shift + 1 <= q
  BY <1>2
<1> HIDE DEF x, q
<1>4. shift * x \in Nat /\ shift * x + x <= Len(log)
  <2>1. x * (shift + 1) <= x * q
    BY <1>1, <1>2, <1>3
  <2>2. x * (shift + 1) = shift * x + x /\ x * (shift + 1) \in Nat /\ x * q \in Nat /\ Len(log) \in Nat
    BY <1>1, <1>2
  <2> QED
    BY <1>1, <1>2, <2>1, <2>2
<1>5. SameIn(log, Append(log, key), shift * x, x)
  BY <1>1, <1>4, AppendSame
<1> QED
  BY <1>4, <1>5, TreeHashFrame DEF x

\* Where the nodes above a leaf are.
LEMMA AncestorsOfLeaf ==
  ASSUME NEW n \in Nat
  PROVE  Ancestors(<< 0, n >>) = { << d, n \div 2 ^ d >> : d \in 1 .. Depth }
<1>1. \A d \in 1 .. Depth : d - 0 = d
  OBVIOUS
<1>2. \A d \in 1 .. Depth : Above(<< 0, n >>, d) = << d, n \div 2 ^ d >>
  BY <1>1 DEF Above, DepthOf
<1>3. DepthOf(<< 0, n >>) + 1 = 1
  BY DEF DepthOf
<1> QED
  BY <1>2, <1>3 DEF Ancestors

\* The loop starts at the new leaf.
LEMMA FirstRoundOK ==
  ASSUME ForestInv, ~ IsFull, NEW key \in Keys
  PROVE  RoundOK([tree |-> WithLeaf(key), roots |-> Roots, at |-> next], DOMAIN nodes,
                 Append(log, key), Size, 0)
<1> DEFINE tree == WithLeaf(key)
           keys == Append(log, key)
<1>1. /\ Size \in Nat /\ Len(log) = Size /\ log \in Seq(Keys) /\ next = << 0, Size >>
      /\ Roots = GetOldRoots(Size) /\ Depth \in Nat /\ 2 ^ Depth \in Nat
      /\ TreesOK(nodes, log, Size) /\ WayOpen(nodes, log, Size)
  BY DepthAssumption, PowersAssumption DEF ForestInv
<1>2. DOMAIN tree = DOMAIN nodes
  BY DEF WithLeaf
<1>3. keys[Size + 1] = key /\ \A i \in 1 .. Size : keys[i] = log[i]
  BY <1>1
<1>4. 2 ^ 0 = 1 /\ Size \div 2 ^ 0 = Size
  BY <1>1, Powers
<1>5. ASSUME NEW d \in 0 .. Depth, NEW shift \in Nat, shift < Size \div 2 ^ d
      PROVE  IsTree(tree, keys, d, shift)
  <2> DEFINE node == << d, shift >>
  <2>1. node \in DOMAIN nodes /\ nodes[node].hash = TreeHash(log, shift * 2 ^ d, d)
    BY <1>1, <1>5 DEF TreesOK, IsTree
  <2>2. shift # Size \div 2 ^ d
    <3>1. Size \div 2 ^ d \in Nat
      BY <1>1, NextBit
    <3> QED
      BY <1>5, <3>1
  <2>3. node # next
    BY <1>1, <1>4, <2>2
  <2>4. node \notin Ancestors(next)
    BY <1>1, <2>2, AncestorsOfLeaf
  <2>5. tree[node] = nodes[node]
    BY <2>1, <2>3, <2>4 DEF WithLeaf
  <2> HIDE DEF tree, keys
  <2>6. TreeHash(keys, shift * 2 ^ d, d) = TreeHash(log, shift * 2 ^ d, d)
    BY <1>1, <1>5, TreeStays DEF keys
  <2> QED
    BY <1>2, <2>1, <2>5, <2>6 DEF IsTree
<1>6. IsTree(tree, keys, 0, Size \div 2 ^ 0)
  <2>1. next \in DOMAIN nodes
    <3>1. IsOpen(nodes, log, 0, Size \div 2 ^ 0, Size)
      <4>1. 0 \in 0 .. Depth
        BY <1>1
      <4> QED
        BY <1>1, <4>1, Zenon DEF WayOpen
    <3> QED
      BY <1>1, <1>4, <3>1 DEF IsOpen
  <2>2. tree[next] = CompletedLeaf(key, Size)
    BY <2>1 DEF WithLeaf
  <2>3. CompletedLeaf(key, Size).hash = LeafNodeHash(key, ContentHash(key, Size))
    BY DEF CompletedLeaf, Ghost
  <2>4. TreeHash(keys, Size, 0) = LeafNodeHash(keys[Size + 1], ContentHash(keys[Size + 1], Size))
    BY <1>1, TreeHashSteps
  <2>5. Size * 2 ^ 0 = Size
    BY <1>1, <1>4
  <2> HIDE DEF tree, keys
  <2> QED
    BY <1>1, <1>2, <1>3, <1>4, <2>1, <2>2, <2>3, <2>4, <2>5 DEF IsTree
<1>7. ASSUME NEW d \in 1 .. Depth PROVE IsOpen(tree, keys, d, Size \div 2 ^ d, Size + 1)
  <2> DEFINE node == << d, Size \div 2 ^ d >>
             first == (Size \div 2 ^ d) * 2 ^ d
             before == first .. Size - 1
             old  == nodes[node]
             new  == WithValues(old.prefixTree, key, Append(Values(old.prefixTree, key), KeyHash(key, Size)))
  <2>1. /\ node \in DOMAIN nodes /\ DOMAIN old = NodeFields
        /\ old.completed = FALSE /\ old.prefixTree = PrefixTreeOf(log, before)
    BY <1>1 DEF WayOpen, IsOpen
  <2>2. node # next /\ node \in Ancestors(next)
    BY <1>1, AncestorsOfLeaf
  <2>3. tree[node] = [old EXCEPT !.prefixTree = new]
    BY <2>1, <2>2 DEF WithLeaf, PrefixAppend
  <2>4. first \in Nat /\ first <= Size
    <3>1. 2 ^ d \in Nat \ {0}
      BY PowersAssumption
    <3> DEFINE x == 2 ^ d
               q == Size \div x
    <3>2. q \in Nat /\ x * q <= Size
      BY <1>1, <3>1, Quotient
    <3> HIDE DEF x, q
    <3>3. q * x \in Nat /\ q * x = x * q
      BY <3>1, <3>2 DEF x
    <3> QED
      BY <3>2, <3>3 DEF x, q
  <2> HIDE DEF first
  <2>5. PrefixTreeOf(keys, before) = PrefixTreeOf(log, before)
    <3>1. \A pos \in before : pos + 1 \in 1 .. Size
      BY <1>1, <2>4
    <3>2. \A pos \in before : keys[pos + 1] = log[pos + 1]
      BY <1>3, <3>1
    <3> HIDE DEF before, keys
    <3> QED
      BY <3>2, PrefixTreeFrame
  <2>6. PrefixTreeOf(keys, before \cup {Size}) =
          WithValues(PrefixTreeOf(keys, before), key,
                     Append(Values(PrefixTreeOf(keys, before), key), KeyHash(key, Size)))
    <3>1. before \in SUBSET Nat /\ IsFiniteSet(before) /\ \A pos \in before : pos < Size
      BY <1>1, <2>4, FS_Interval
    <3> HIDE DEF before, keys
    <3> QED
      BY <1>1, <1>3, <3>1, PrefixTreeAppend
  <2>7. before \cup {Size} = first .. (Size + 1) - 1
    BY <1>1, <2>4
  <2>8. PrefixTreeOf(keys, first .. (Size + 1) - 1) = new
    <3> HIDE DEF before, keys, old
    <3> QED
      BY <2>1, <2>5, <2>6, <2>7
  <2> HIDE DEF tree, keys, new, old
  <2>9. /\ DOMAIN tree[node] = NodeFields /\ tree[node].completed = FALSE
        /\ tree[node].prefixTree = new
    BY <2>1, <2>3 DEF NodeFields
  <2> QED
    BY <1>2, <2>1, <2>8, <2>9 DEF IsOpen, first
<1>8. Roots = [ i \in 1 .. NumRoots(Size) - 0 |-> GetOldRoots(Size)[i] ]
  <2>1. NumRoots(Size) - 0 = NumRoots(Size)
    BY FiniteForest
  <2> QED
    BY <1>1, <2>1 DEF GetOldRoots, NumRoots
<1>9. LowOnes(Size, 0)
  BY <1>1, LowOnesFirst
<1>10. next = << 0, Size \div 2 ^ 0 >>
  BY <1>1, <1>4
<1>11. TreesOK(tree, keys, Size)
  BY <1>5 DEF TreesOK
<1>12. \A d \in 0 .. 0 : IsTree(tree, keys, d, Size \div 2 ^ d)
  BY <1>6
<1>13. \A d \in 0 + 1 .. Depth : IsOpen(tree, keys, d, Size \div 2 ^ d, Size + 1)
  BY <1>7
<1> HIDE DEF tree, keys
<1>14. RoundOK([tree |-> tree, roots |-> Roots, at |-> next], DOMAIN nodes, keys, Size, 0)
  BY <1>2, <1>8, <1>9, <1>10, <1>11, <1>12, <1>13 DEF RoundOK
<1> QED
  BY <1>14 DEF tree, keys

\* Where the loop goes from a right child.
LEMMA UpFromRight ==
  ASSUME NEW size \in Nat, NEW k \in 0 .. Depth, IsRightChild(<< k, size \div 2 ^ k >>)
  PROVE  LET at == << k, size \div 2 ^ k >>
             up == << k + 1, size \div 2 ^ (k + 1) >>
         IN  /\ k + 1 \in 0 .. Depth
             /\ Bit(size, k) = 1
             /\ Parent(at) = up
             /\ LeftChild(up) = << k, size \div 2 ^ k - 1 >>
             /\ RightChild(up) = at
<1> DEFINE q == size \div 2 ^ k
           h == size \div 2 ^ (k + 1)
<1>1. q \in Nat /\ h \in Nat /\ h = q \div 2 /\ q = 2 * h + Bit(size, k)
  BY NextBit
<1>2. q % 2 = 1 /\ k # Depth
  BY DEF IsRightChild, DepthOf
<1>3. Bit(size, k) = 1
  BY <1>2 DEF Bit
<1> HIDE DEF q, h
<1>4. 2 * h = q - 1 /\ 2 * h + 1 = q
  BY <1>1, <1>3
<1>5. k + 1 \in 0 .. Depth /\ (k + 1) - 1 = k
  BY <1>2, DepthAssumption
<1>6. /\ Parent(<< k, q >>) = << k + 1, h >>
      /\ LeftChild(<< k + 1, h >>) = << k, q - 1 >>
      /\ RightChild(<< k + 1, h >>) = << k, q >>
  BY <1>1, <1>4, <1>5 DEF Parent, LeftChild, RightChild
<1> QED
  BY <1>3, <1>5, <1>6 DEF q, h

\* The hash that a parent gets is that of its tree, which the log has just filled.
LEMMA ParentHash ==
  ASSUME NEW size \in Nat, NEW k \in 0 .. Depth, k + 1 \in 0 .. Depth, LowOnes(size, k + 1), NEW keys
  PROVE  LET q == size \div 2 ^ k
             h == size \div 2 ^ (k + 1)
         IN  q = 2 * h + 1 =>
               TreeHash(keys, h * 2 ^ (k + 1), k + 1) =
                 InternalHash(TreeHash(keys, (q - 1) * 2 ^ k, k), TreeHash(keys, q * 2 ^ k, k),
                              PrefixHash(PrefixTreeOf(keys, h * 2 ^ (k + 1) .. (size + 1) - 1)))
<1> DEFINE x == 2 ^ k
           y == 2 ^ (k + 1)
           q == size \div x
           h == size \div y
           first == h * y
<1>1. SUFFICES ASSUME q = 2 * h + 1
               PROVE  TreeHash(keys, first, k + 1) =
                        InternalHash(TreeHash(keys, (q - 1) * x, k), TreeHash(keys, q * x, k),
                                     PrefixHash(PrefixTreeOf(keys, first .. (size + 1) - 1)))
  OBVIOUS
<1>2. x \in Nat \ {0} /\ y = 2 * x
  BY PowersAssumption
<1>3. h \in Nat
  BY NextBit
<1>4. y * (h + 1) = size + 1
  BY DEF LowOnes
<1> HIDE DEF x, y, q, h
<1>5. first \in Nat /\ first + y - 1 = (size + 1) - 1
  <2>1. y \in Nat /\ y * (h + 1) = h * y + y /\ h * y \in Nat
    BY <1>2, <1>3
  <2> QED
    BY <1>4, <2>1
<1>6. (q - 1) * x = first /\ q * x = first + x
  <2>1. first = 2 * (h * x) /\ h * x \in Nat
    BY <1>2, <1>3
  <2>2. (2 * h) * x = 2 * (h * x) /\ (2 * h + 1) * x = 2 * (h * x) + x
    BY <1>2, <1>3
  <2>3. q - 1 = 2 * h
    BY <1>1, <1>3
  <2> QED
    BY <1>1, <2>1, <2>2, <2>3
<1> HIDE DEF first
<1>7. TreeHash(keys, first, k + 1) =
        InternalHash(TreeHash(keys, first, k), TreeHash(keys, first + x, k),
                     PrefixHash(PrefixTreeOf(keys, first .. first + y - 1)))
  <2>1. k \in Nat
    OBVIOUS
  <2> QED
    BY <1>5, <2>1, TreeHashSteps DEF x, y
<1> QED
  BY <1>5, <1>6, <1>7

\* A round of the loop.
LEMMA RiseKeeps ==
  ASSUME NEW s, NEW domain, NEW keys, NEW size \in Nat, NEW k \in 0 .. Depth,
         RoundOK(s, domain, keys, size, k), IsRightChild(s.at)
  PROVE  k + 1 \in 0 .. Depth /\ RoundOK(Rise(s), domain, keys, size, k + 1)
<1> DEFINE up    == << k + 1, size \div 2 ^ (k + 1) >>
           left  == << k, size \div 2 ^ k - 1 >>
           right == << k, size \div 2 ^ k >>
           old   == s.tree
           hash  == InternalHash(old[left].hash, old[right].hash, PrefixHash(old[up].prefixTree))
           new   == Completed(old, up)
<1>1. /\ s.at = right /\ LowOnes(size, k) /\ DOMAIN old = domain
      /\ s.roots = [ i \in 1 .. NumRoots(size) - k |-> GetOldRoots(size)[i] ]
      /\ TreesOK(old, keys, size)
      /\ \A d \in 0 .. k : IsTree(old, keys, d, size \div 2 ^ d)
      /\ \A d \in k + 1 .. Depth : IsOpen(old, keys, d, size \div 2 ^ d, size + 1)
  BY DEF RoundOK
<1>2. /\ k + 1 \in 0 .. Depth /\ Bit(size, k) = 1 /\ Parent(right) = up
      /\ LeftChild(up) = left /\ RightChild(up) = right
  BY <1>1, UpFromRight
<1>3. Rise(s) = [tree |-> new, roots |-> Pop(s.roots), at |-> up]
  BY <1>1, <1>2 DEF Rise
<1>4. LowOnes(size, k + 1)
  BY <1>1, <1>2, LowOnesNext
<1>5. IsOpen(old, keys, k + 1, size \div 2 ^ (k + 1), size + 1)
  BY <1>1, <1>2
<1>6. new = [old EXCEPT ![up].completed = TRUE, ![up].hash = hash]
  BY <1>2 DEF Completed
<1>7. /\ DOMAIN new = domain /\ up \in domain /\ new[up].hash = hash
      /\ \A node \in domain : node # up => new[node] = old[node]
  <2>1. up \in DOMAIN old /\ DOMAIN old[up] = NodeFields
    BY <1>5 DEF IsOpen
  <2> HIDE DEF new, up, hash, old
  <2> QED
    BY <1>1, <1>6, <2>1 DEF NodeFields
<1>8. hash = TreeHash(keys, (size \div 2 ^ (k + 1)) * 2 ^ (k + 1), k + 1)
  <2> DEFINE q == size \div 2 ^ k
             h == size \div 2 ^ (k + 1)
  <2>1. q \in Nat /\ q = 2 * h + 1 /\ h \in Nat
    BY <1>2, NextBit
  <2>2. q - 1 \in Nat /\ q - 1 < q
    <3> HIDE DEF q, h
    <3> QED
      BY <2>1
  <2>3. old[left].hash = TreeHash(keys, (q - 1) * 2 ^ k, k)
    BY <1>1, <2>2 DEF TreesOK, IsTree
  <2>4. old[right].hash = TreeHash(keys, q * 2 ^ k, k)
    <3>1. k \in 0 .. k
      OBVIOUS
    <3>2. IsTree(old, keys, k, q)
      BY <1>1, <3>1, Zenon
    <3> QED
      BY <3>2 DEF IsTree
  <2>5. old[up].prefixTree = PrefixTreeOf(keys, h * 2 ^ (k + 1) .. (size + 1) - 1)
    BY <1>5 DEF IsOpen
  <2>6. TreeHash(keys, h * 2 ^ (k + 1), k + 1) =
          InternalHash(TreeHash(keys, (q - 1) * 2 ^ k, k), TreeHash(keys, q * 2 ^ k, k),
                       PrefixHash(PrefixTreeOf(keys, h * 2 ^ (k + 1) .. (size + 1) - 1)))
    BY <1>2, <1>4, <2>1, ParentHash
  <2> HIDE DEF q, h, old, left, right, up
  <2> QED
    BY <2>3, <2>4, <2>5, <2>6 DEF h
<1>9. TreesOK(new, keys, size)
  <2>1. SUFFICES ASSUME NEW d \in 0 .. Depth, NEW shift \in Nat, shift < size \div 2 ^ d
                 PROVE  IsTree(new, keys, d, shift)
    BY DEF TreesOK
  <2>2. IsTree(old, keys, d, shift)
    BY <1>1, <2>1 DEF TreesOK
  <2>3. << d, shift >> # up
    <3>1. size \div 2 ^ d \in Nat
      BY NextBit
    <3>2. shift # size \div 2 ^ d
      BY <2>1, <3>1
    <3> QED
      BY <3>2
  <2> HIDE DEF new, up, old
  <2> QED
    BY <1>1, <1>7, <2>2, <2>3 DEF IsTree
<1>10. ASSUME NEW d \in 0 .. k + 1 PROVE IsTree(new, keys, d, size \div 2 ^ d)
  <2>1. CASE d = k + 1
    <3> HIDE DEF new, hash
    <3>1. IsTree(new, keys, k + 1, size \div 2 ^ (k + 1))
      BY <1>7, <1>8 DEF IsTree
    <3> QED
      BY <2>1, <3>1
  <2>2. CASE d # k + 1
    <3>1. d \in 0 .. k
      BY <2>2
    <3>2. IsTree(old, keys, d, size \div 2 ^ d)
      BY <1>1, <3>1
    <3>3. << d, size \div 2 ^ d >> # up
      BY <2>2
    <3> HIDE DEF new, up, old
    <3> QED
      BY <1>1, <1>7, <3>2, <3>3 DEF IsTree
  <2> QED
    BY <2>1, <2>2
<1>11. ASSUME NEW d \in (k + 1) + 1 .. Depth PROVE IsOpen(new, keys, d, size \div 2 ^ d, size + 1)
  <2>1. d \in k + 1 .. Depth /\ d # k + 1
    OBVIOUS
  <2>2. IsOpen(old, keys, d, size \div 2 ^ d, size + 1)
    BY <1>1, <2>1
  <2>3. << d, size \div 2 ^ d >> # up
    BY <2>1
  <2> HIDE DEF new, up, old
  <2> QED
    BY <1>1, <1>7, <2>2, <2>3 DEF IsOpen
<1>12. Pop(s.roots) = [ i \in 1 .. NumRoots(size) - (k + 1) |-> GetOldRoots(size)[i] ]
  <2> DEFINE f == GetOldRoots(size)
             n == NumRoots(size) - k
  <2>1. n \in Nat /\ n # 0 /\ n - 1 = NumRoots(size) - (k + 1)
    <3>1. 0 .. k \subseteq Ones(size)
      <4>1. ASSUME NEW d \in 0 .. k PROVE Bit(size, d) = 1 /\ d \in 0 .. Depth
        <5> DEFINE j == k + 1
        <5>1. d \in 0 .. j /\ d < j /\ d \in 0 .. Depth
          BY DepthAssumption
        <5>2. j \in 0 .. Depth /\ LowOnes(size, j)
          BY <1>2, <1>4
        <5> HIDE DEF j
        <5> QED
          BY <5>1, <5>2, QuotientsBelow
      <4> QED
        BY <4>1 DEF Ones
    <3>2. /\ Cardinality(0 .. k) <= NumRoots(size) /\ NumRoots(size) \in Nat
          /\ Cardinality(0 .. k) = k + 1
      <4>1. IsFiniteSet(Ones(size)) /\ NumRoots(size) \in Nat
        BY FiniteForest
      <4>2. 0 \in Int /\ k \in Int /\ ~ (0 > k) /\ k - 0 + 1 = k + 1
        OBVIOUS
      <4>3. Cardinality(0 .. k) = k + 1
        BY <4>2, FS_Interval
      <4> QED
        BY <3>1, <4>1, <4>3, FS_Subset DEF NumRoots
    <3> QED
      BY <3>2
  <2> HIDE DEF f, n
  <2>2. s.roots = [ i \in 1 .. n |-> f[i] ]
    BY <1>1 DEF f, n
  <2>3. Front([ i \in 1 .. n |-> f[i] ]) = [ i \in 1 .. n - 1 |-> f[i] ]
    <3> DEFINE list == [ i \in 1 .. n |-> f[i] ]
    <3>1. list \in Seq({ f[i] : i \in 1 .. n }) /\ Len(list) = n
      BY <2>1
    <3>2. Front(list) = [ i \in 1 .. n - 1 |-> list[i] ]
      <4> HIDE DEF list
      <4> QED
        BY <2>1, <3>1 DEF Front
    <3>3. \A i \in 1 .. n - 1 : list[i] = f[i]
      BY <2>1
    <3> HIDE DEF list
    <3> QED
      BY <3>2, <3>3 DEF list
  <2> QED
    BY <2>1, <2>2, <2>3 DEF Pop, f
<1>13. RoundOK([tree |-> new, roots |-> Pop(s.roots), at |-> up], domain, keys, size, k + 1)
  <2> HIDE DEF new
  <2> QED
    BY <1>4, <1>7, <1>9, <1>10, <1>11, <1>12 DEF RoundOK
<1> QED
  BY <1>2, <1>3, <1>13

\* After any number of rounds the loop has gone up as often, or stands still.
RoundsOK(s, domain, keys, size, n) ==
  \E k \in 0 .. Depth : /\ RoundOK(s, domain, keys, size, k)
                        /\ k = n \/ ~ IsRightChild(s.at)

Loops == INSTANCE SequenceLemmas WITH
  LoopBody <- LAMBDA fixed, n, s : Rise(s),
  Claim <- LAMBDA fixed, n : RoundsOK(fixed.rounds[n], fixed.domain, fixed.keys, fixed.size, n)

\* What Risen defines by recursion exists, and is the list of all rounds.
LEMMA RoundsOfLoop ==
  ASSUME NEW key
  PROVE  /\ Risen(key)[0] = [tree |-> WithLeaf(key), roots |-> Roots, at |-> next]
         /\ \A n \in Nat : Risen(key)[n + 1] = Rise(Risen(key)[n])
<1> DEFINE first == [tree |-> WithLeaf(key), roots |-> Roots, at |-> next]
<1>1. Risen(key) = Loops!Loop(0, first)
  BY DEF Risen, Loops!Loop, Loops!IsLoop
<1>2. /\ Loops!Loop(0, first)[0] = first
      /\ \A n \in Nat : Loops!Loop(0, first)[n + 1] = Rise(Loops!Loop(0, first)[n])
  BY Loops!LoopRounds
<1> QED
  BY <1>1, <1>2

\* When the loop ends it stands at the root of a new tree, which is not a right child.
LEMMA LoopEnds ==
  ASSUME ForestInv, ~ IsFull, NEW key \in Keys
  PROVE  \E k \in 0 .. Depth :
           /\ RoundOK(Risen(key)[Depth], DOMAIN nodes, Append(log, key), Size, k)
           /\ Bit(Size, k) = 0
<1> DEFINE rounds == Risen(key)
           keys == Append(log, key)
           domain == DOMAIN nodes
           Good(n) == RoundsOK(rounds[n], domain, keys, Size, n)
           fixed == [rounds |-> rounds, domain |-> domain, keys |-> keys, size |-> Size]
<1>1. fixed.rounds = rounds /\ fixed.domain = domain /\ fixed.keys = keys /\ fixed.size = Size
  OBVIOUS
<1>2. rounds[0] = [tree |-> WithLeaf(key), roots |-> Roots, at |-> next]
      /\ \A n \in Nat : rounds[n + 1] = Rise(rounds[n])
  BY RoundsOfLoop
<1>3. RoundOK(rounds[0], domain, keys, Size, 0)
  BY <1>2, FirstRoundOK
<1>4. Depth \in Nat /\ Size \in Nat /\ Size < 2 ^ Depth
  <2>1. Depth \in Nat /\ 2 ^ Depth \in Nat /\ Size \in 0 .. 2 ^ Depth
    BY DepthAssumption, PowersAssumption DEF ForestInv
  <2> QED
    BY <2>1 DEF IsFull
<1> HIDE DEF rounds, keys, domain, fixed
<1>5. Good(0)
  <2>1. 0 \in 0 .. Depth
    BY <1>4
  <2> QED
    BY <1>3, <2>1 DEF RoundsOK
<1>6. ASSUME NEW n \in Nat, Good(n) PROVE Good(n + 1)
  <2>1. PICK k \in 0 .. Depth : /\ RoundOK(rounds[n], domain, keys, Size, k)
                                /\ k = n \/ ~ IsRightChild(rounds[n].at)
    BY <1>6 DEF RoundsOK
  <2>2. rounds[n + 1] = Rise(rounds[n])
    BY <1>2
  <2>3. CASE IsRightChild(rounds[n].at)
    <3>1. k + 1 \in 0 .. Depth /\ RoundOK(Rise(rounds[n]), domain, keys, Size, k + 1)
      BY <1>4, <2>1, <2>3, RiseKeeps
    <3>2. k + 1 = n + 1
      BY <2>1, <2>3
    <3> QED
      BY <2>2, <3>1, <3>2 DEF RoundsOK
  <2>4. CASE ~ IsRightChild(rounds[n].at)
    <3>1. rounds[n + 1] = rounds[n]
      BY <2>2, <2>4 DEF Rise
    <3> QED
      BY <2>1, <2>4, <3>1 DEF RoundsOK
  <2> QED
    BY <2>3, <2>4
<1>7. \A n \in Nat : Good(n)
  BY <1>1, <1>5, <1>6, Loops!Induction
<1>8. PICK k \in 0 .. Depth : /\ RoundOK(rounds[Depth], domain, keys, Size, k)
                              /\ k = Depth \/ ~ IsRightChild(rounds[Depth].at)
  BY <1>4, <1>7 DEF RoundsOK
<1>9. Bit(Size, k) = 0
  <2>1. rounds[Depth].at = << k, Size \div 2 ^ k >>
    BY <1>8 DEF RoundOK
  <2>2. CASE k = Depth
    <3>1. 2 ^ Depth \in Nat \ {0}
      BY <1>4, PowersAssumption
    <3> DEFINE x == 2 ^ Depth
    <3>2. Size \div x = 0
      <4> HIDE DEF x
      <4> QED
        BY <1>4, <3>1 DEF x
    <3>3. 0 % 2 = 0
      OBVIOUS
    <3> QED
      BY <2>2, <3>2, <3>3 DEF Bit
  <2>3. CASE k # Depth
    <3>1. ~ IsRightChild(<< k, Size \div 2 ^ k >>)
      BY <1>8, <2>1, <2>3
    <3>2. Bit(Size, k) # 1
      BY <2>3, <3>1 DEF IsRightChild, DepthOf, Bit
    <3> QED
      BY <1>4, <3>2, NextBit
  <2> QED
    BY <2>2, <2>3
<1> QED
  BY <1>8, <1>9 DEF rounds, keys, domain

\* The roots that are left and the new one are those of the next size.
LEMMA NextOldRoots ==
  ASSUME NEW size \in Nat, NEW k \in 0 .. Depth, LowOnes(size, k), Bit(size, k) = 0
  PROVE  Append([ i \in 1 .. NumRoots(size) - k |-> GetOldRoots(size)[i] ], << k, size \div 2 ^ k >>)
           = GetOldRoots(size + 1)
<1> DEFINE n == NumRoots(size) - k
           f == GetOldRoots(size + 1)
           Root(i, z) == << RootDepth(i - 1, z), ShiftOf(z, RootDepth(i - 1, z)) >>
<1>1. /\ n \in Nat /\ NumRoots(size + 1) = n + 1
      /\ \A i \in 0 .. n - 1 : RootDepth(i, size + 1) = RootDepth(i, size) /\ RootDepth(i, size) > k
      /\ RootDepth(n, size + 1) = k
  <2>1. NumRoots(size) \in Nat
    BY FiniteForest
  <2> QED
    BY <2>1, NextRoots
<1>2. f = [ i \in 1 .. n + 1 |-> Root(i, size + 1) ]
  BY <1>1 DEF GetOldRoots, NumRoots
<1>3. GetOldRoots(size) = [ i \in 1 .. NumRoots(size) |-> Root(i, size) ]
  BY DEF GetOldRoots, NumRoots
<1>4. ASSUME NEW i \in 1 .. n PROVE f[i] = GetOldRoots(size)[i]
  <2>1. i \in 1 .. n + 1 /\ i \in 1 .. NumRoots(size) /\ i - 1 \in 0 .. n - 1
        /\ i - 1 \in 0 .. NumRoots(size) - 1
    <3> DEFINE m == NumRoots(size)
    <3>1. m \in Nat /\ k \in Nat /\ k <= m
      BY FiniteForest, NextRoots
    <3> HIDE DEF m, f, Root
    <3>2. i \in 1 .. m - k
      BY DEF m
    <3>3. /\ i \in 1 .. (m - k) + 1 /\ i \in 1 .. m /\ i - 1 \in 0 .. (m - k) - 1
          /\ i - 1 \in 0 .. m - 1
      BY <3>1, <3>2
    <3> QED
      BY <3>3 DEF m
  <2> DEFINE d == RootDepth(i - 1, size)
  <2>2. RootDepth(i - 1, size + 1) = d /\ d > k
    BY <1>1, <2>1
  <2>3. d \in 0 .. Depth
    BY <2>1, EveryRootHasATree DEF Ones
  <2> HIDE DEF d
  <2>4. d + 1 \in k + 1 .. Depth + 1
    <3> HIDE DEF n, f, Root
    <3> QED
      BY <2>2, <2>3, DepthAssumption
  <2>5. (size + 1) \div 2 ^ (d + 1) = size \div 2 ^ (d + 1)
    BY <2>4, QuotientsAbove
  <2>6. ShiftOf(size + 1, d) = ShiftOf(size, d)
    BY <2>5 DEF ShiftOf
  <2>7. Root(i, size + 1) = Root(i, size)
    BY <2>2, <2>6 DEF d
  <2> HIDE DEF f, Root, n
  <2> QED
    BY <1>2, <1>3, <2>1, <2>7
<1>5. f[n + 1] = << k, size \div 2 ^ k >>
  <2>1. n + 1 \in 1 .. n + 1 /\ (n + 1) - 1 = n
    BY <1>1
  <2>2. f[n + 1] = << k, ShiftOf(size + 1, k) >>
    <3> HIDE DEF f, n
    <3> QED
      BY <1>1, <1>2, <2>1
  <2>3. ShiftOf(size + 1, k) = size \div 2 ^ k
    <3>1. k + 1 \in k + 1 .. Depth + 1
      BY DepthAssumption
    <3>2. (size + 1) \div 2 ^ (k + 1) = size \div 2 ^ (k + 1)
      BY <3>1, QuotientsAbove
    <3> DEFINE q == size \div 2 ^ k
               h == size \div 2 ^ (k + 1)
    <3>3. q = 2 * h + 0 /\ h \in Nat
      BY NextBit
    <3> HIDE DEF q, h
    <3>4. q = 2 * h
      BY <3>3
    <3> QED
      BY <3>2, <3>4 DEF ShiftOf, q, h
  <2> QED
    BY <2>2, <2>3
<1>6. [ i \in 1 .. n + 1 |-> f[i] ] = f
  <2> HIDE DEF n, Root
  <2> QED
    BY <1>2
<1> HIDE DEF f, n
<1>7. [ i \in 1 .. n |-> GetOldRoots(size)[i] ] = [ i \in 1 .. n |-> f[i] ]
  BY <1>4
<1>8. Append([ i \in 1 .. n |-> f[i] ], f[n + 1]) = [ i \in 1 .. n + 1 |-> f[i] ]
  BY <1>1, AppendToList
<1>9. Append([ i \in 1 .. n |-> GetOldRoots(size)[i] ], << k, size \div 2 ^ k >>) = f
  BY <1>5, <1>6, <1>7, <1>8
<1> QED
  BY <1>9 DEF f, n

\* When the loop has ended, all trees of the next size are complete.
LEMMA TreesAfterLoop ==
  ASSUME NEW s, NEW domain, NEW keys, NEW size \in Nat, NEW k \in 0 .. Depth,
         RoundOK(s, domain, keys, size, k), Bit(size, k) = 0
  PROVE  /\ TreesOK(s.tree, keys, size + 1)
         /\ \A d \in 0 .. Depth : size \div 2 ^ d <= (size + 1) \div 2 ^ d
         /\ \A d \in 0 .. k : (size + 1) \div 2 ^ d = size \div 2 ^ d + 1
         /\ \A d \in k + 1 .. Depth : (size + 1) \div 2 ^ d = size \div 2 ^ d
<1>1. /\ LowOnes(size, k) /\ TreesOK(s.tree, keys, size)
      /\ \A d \in 0 .. k : IsTree(s.tree, keys, d, size \div 2 ^ d)
  BY DEF RoundOK
<1>2. \A d \in 0 .. k : (size + 1) \div 2 ^ d = size \div 2 ^ d + 1
  BY <1>1, QuotientsBelow
<1>3. \A d \in k + 1 .. Depth : (size + 1) \div 2 ^ d = size \div 2 ^ d
  <2>1. Depth \in Nat
    BY DepthAssumption
  <2>2. \A d \in k + 1 .. Depth : d \in k + 1 .. Depth + 1
    BY <2>1
  <2> QED
    BY <1>1, <2>2, QuotientsAbove
<1>4. ASSUME NEW d \in 0 .. Depth
      PROVE  /\ size \div 2 ^ d \in Nat
             /\ \/ d \in 0 .. k /\ (size + 1) \div 2 ^ d = size \div 2 ^ d + 1
                \/ (size + 1) \div 2 ^ d = size \div 2 ^ d
  <2>1. d \in 0 .. k \/ d \in k + 1 .. Depth
    OBVIOUS
  <2> QED
    BY <1>2, <1>3, <2>1, NextBit
<1>5. ASSUME NEW d \in 0 .. Depth, NEW shift \in Nat, shift < (size + 1) \div 2 ^ d
      PROVE  IsTree(s.tree, keys, d, shift)
  <2> DEFINE q == size \div 2 ^ d
             r == (size + 1) \div 2 ^ d
  <2>1. /\ (d \in 0 .. k /\ r = q + 1) \/ r = q
        /\ q \in Nat /\ shift < r
    BY <1>4, <1>5
  <2>2. CASE shift < q
    BY <1>1, <2>2 DEF TreesOK
  <2>3. CASE ~ (shift < q)
    <3>1. shift = q /\ d \in 0 .. k
      <4> HIDE DEF q, r
      <4> QED
        BY <2>1, <2>3
    <3> QED
      BY <1>1, <3>1
  <2> QED
    BY <2>2, <2>3
<1>6. \A d \in 0 .. Depth : size \div 2 ^ d <= (size + 1) \div 2 ^ d
  <2>1. SUFFICES ASSUME NEW d \in 0 .. Depth PROVE size \div 2 ^ d <= (size + 1) \div 2 ^ d
    OBVIOUS
  <2> DEFINE q == size \div 2 ^ d
             r == (size + 1) \div 2 ^ d
  <2>2. q \in Nat /\ (r = q + 1 \/ r = q)
    BY <1>4
  <2> HIDE DEF q, r
  <2>3. q <= r
    BY <2>2
  <2> QED
    BY <2>3 DEF q, r
<1> QED
  BY <1>2, <1>3, <1>5, <1>6 DEF TreesOK

\* The nodes that are created are those on the way to the leaf after the next.
LEMMA SpineOfSibling ==
  ASSUME NEW size \in Nat, NEW k \in 0 .. Depth, LowOnes(size, k), Bit(size, k) = 0
  PROVE  LET right == RightChild(Parent(<< k, size \div 2 ^ k >>))
         IN  /\ LeftSpine(right) = { << d, (size + 1) \div 2 ^ d >> : d \in 0 .. k }
             /\ << 0, right[2] * 2 ^ DepthOf(right) >> = << 0, size + 1 >>
<1> DEFINE q == size \div 2 ^ k
           h == size \div 2 ^ (k + 1)
           r == (size + 1) \div 2 ^ k
           right == RightChild(Parent(<< k, q >>))
<1>1. h = q \div 2 /\ q = 2 * h + 0 /\ h \in Nat
  BY NextBit
<1>2. k \in 0 .. k /\ k \in Nat
  OBVIOUS
<1>3. r = q + 1 /\ r * 2 ^ k = size + 1
  BY <1>2, QuotientsBelow
<1>4. \A d \in 0 .. k : (size + 1) \div 2 ^ d = r * 2 ^ (k - d)
  BY QuotientsBelow
<1> HIDE DEF q, h, r
<1>5. 2 * (q \div 2) + 1 = r /\ (k + 1) - 1 = k
  BY <1>1, <1>2, <1>3
<1>6. right = << k, r >>
  BY <1>5 DEF RightChild, Parent
<1> HIDE DEF right
<1>7. right[2] = r /\ DepthOf(right) = k
  BY <1>6 DEF DepthOf
<1>8. LeftSpine(right) = { << d, r * 2 ^ (k - d) >> : d \in 0 .. k }
  BY <1>7 DEF LeftSpine
<1>9. { << d, r * 2 ^ (k - d) >> : d \in 0 .. k } = { << d, (size + 1) \div 2 ^ d >> : d \in 0 .. k }
  BY <1>4
<1> QED
  BY <1>3, <1>7, <1>8, <1>9 DEF right, q

\* The nodes on the way to the next leaf have natural numbers.
LEMMA QuotientsAreNumbers ==
  ASSUME NEW size \in Nat
  PROVE  \A d \in 0 .. Depth : size \div 2 ^ d \in Nat /\ (size + 1) \div 2 ^ d \in Nat
<1>1. \A n \in Nat : \A d \in 0 .. Depth : n \div 2 ^ d \in Nat
  BY NextBit
<1>2. size + 1 \in Nat
  OBVIOUS
<1> QED
  BY <1>1, <1>2, Zenon

\* After the ghosts are created the way to the next leaf is open again.
LEMMA GhostsOpenWay ==
  ASSUME NEW s, NEW domain, NEW keys, NEW size \in Nat, NEW k \in 0 .. Depth,
         RoundOK(s, domain, keys, size, k), Bit(size, k) = 0, NothingBeyond(domain, size)
  PROVE  LET tree == WithGhosts(s.tree, RightChild(Parent(s.at)))
         IN  /\ TreesOK(tree, keys, size + 1)
             /\ NothingBeyond(DOMAIN tree, size + 1)
             /\ WayOpen(tree, keys, size + 1)
<1> DEFINE spine == { << d, (size + 1) \div 2 ^ d >> : d \in 0 .. k }
           old  == s.tree
           tree == WithGhosts(old, RightChild(Parent(s.at)))
<1>1. /\ s.at = << k, size \div 2 ^ k >> /\ LowOnes(size, k) /\ DOMAIN old = domain
      /\ \A d \in k + 1 .. Depth : IsOpen(old, keys, d, size \div 2 ^ d, size + 1)
  BY DEF RoundOK
<1>2. LeftSpine(RightChild(Parent(s.at))) = spine
  BY <1>1, SpineOfSibling
<1>3. /\ TreesOK(old, keys, size + 1)
      /\ \A d \in 0 .. Depth : size \div 2 ^ d <= (size + 1) \div 2 ^ d
      /\ \A d \in 0 .. k : (size + 1) \div 2 ^ d = size \div 2 ^ d + 1
      /\ \A d \in k + 1 .. Depth : (size + 1) \div 2 ^ d = size \div 2 ^ d
  BY TreesAfterLoop
<1> HIDE DEF spine
<1>4. /\ DOMAIN tree = domain \cup spine
      /\ \A node \in domain : tree[node] = old[node]
      /\ \A node \in spine \ domain : tree[node] = Ghost
  BY <1>1, <1>2 DEF WithGhosts
<1> HIDE DEF tree, old
<1>5. TreesOK(tree, keys, size + 1)
  BY <1>1, <1>3, <1>4 DEF TreesOK, IsTree
<1>6. \A d \in 0 .. Depth : size \div 2 ^ d \in Nat /\ (size + 1) \div 2 ^ d \in Nat
  BY QuotientsAreNumbers
<1>7. NothingBeyond(DOMAIN tree, size + 1)
  <2>1. SUFFICES ASSUME NEW d \in 0 .. Depth, NEW shift \in Nat, << d, shift >> \in DOMAIN tree
                 PROVE  shift <= (size + 1) \div 2 ^ d
    BY DEF NothingBeyond
  <2>2. CASE << d, shift >> \in domain
    <3>1. shift <= size \div 2 ^ d
      BY <2>2 DEF NothingBeyond
    <3> QED
      BY <1>3, <1>6, <3>1
  <2>3. CASE << d, shift >> \in spine
    <3>1. shift = (size + 1) \div 2 ^ d
      BY <2>3 DEF spine
    <3> QED
      BY <1>6, <3>1
  <2> QED
    BY <1>4, <2>1, <2>2, <2>3
<1>8. ASSUME NEW d \in 0 .. k PROVE IsOpen(tree, keys, d, (size + 1) \div 2 ^ d, size + 1)
  <2> DEFINE r == (size + 1) \div 2 ^ d
             node == << d, r >>
  <2>1. d \in 0 .. Depth
    BY DepthAssumption
  <2>2. node \in spine
    BY DEF spine
  <2>3. node \notin domain
    <3>1. r = size \div 2 ^ d + 1 /\ size \div 2 ^ d \in Nat /\ r \in Nat
      BY <1>3, <1>6, <2>1
    <3>2. ~ (r <= size \div 2 ^ d)
      BY <3>1
    <3> QED
      BY <2>1, <3>1, <3>2 DEF NothingBeyond
  <2>4. node \in DOMAIN tree /\ tree[node] = Ghost
    BY <1>4, <2>2, <2>3
  <2>5. DOMAIN Ghost = NodeFields /\ Ghost.completed = FALSE /\ Ghost.prefixTree = <<>>
    BY DEF Ghost, NodeFields
  <2>6. r * 2 ^ d = size + 1
    BY <1>1, QuotientsBelow
  <2>7. PrefixTreeOf(keys, r * 2 ^ d .. (size + 1) - 1) = <<>>
    <3>1. size + 1 .. (size + 1) - 1 = {}
      OBVIOUS
    <3> QED
      BY <2>6, <3>1, PrefixTreeOfNothing
  <2> HIDE DEF r
  <2> QED
    BY <2>4, <2>5, <2>7 DEF IsOpen, r
<1>9. ASSUME NEW d \in k + 1 .. Depth PROVE IsOpen(tree, keys, d, (size + 1) \div 2 ^ d, size + 1)
  <2>1. IsOpen(old, keys, d, size \div 2 ^ d, size + 1)
    BY <1>1
  <2>2. (size + 1) \div 2 ^ d = size \div 2 ^ d
    BY <1>3
  <2> QED
    BY <1>1, <1>4, <2>1, <2>2 DEF IsOpen
<1>10. WayOpen(tree, keys, size + 1)
  <2>1. \A d \in 0 .. Depth : d \in 0 .. k \/ d \in k + 1 .. Depth
    OBVIOUS
  <2> QED
    BY <1>8, <1>9, <2>1 DEF WayOpen
<1> QED
  BY <1>5, <1>7, <1>10 DEF tree, old

\* An append keeps the invariant.
LEMMA AppendKeeps ==
  ASSUME ForestInv, NEW key \in Keys, AppendEntry(key)
  PROVE  ForestInv'
<1> DEFINE s == Risen(key)[Depth]
           keys == Append(log, key)
           right == RightChild(Parent(s.at))
<1>1. /\ ~ IsFull /\ Size' = Size + 1 /\ log' = keys
      /\ Roots' = Append(s.roots, s.at)
      /\ nodes' = IF IsFull' THEN s.tree ELSE WithGhosts(s.tree, right)
      /\ next' = IF IsFull' THEN next ELSE << 0, right[2] * 2 ^ DepthOf(right) >>
  BY DEF AppendEntry, Finish
<1>2. PICK k \in 0 .. Depth : RoundOK(s, DOMAIN nodes, keys, Size, k) /\ Bit(Size, k) = 0
  BY <1>1, LoopEnds
<1>3. /\ Size \in 0 .. 2 ^ Depth /\ Size \in Nat /\ log \in Seq(Keys) /\ Len(log) = Size
      /\ NothingBeyond(DOMAIN nodes, Size) /\ 2 ^ Depth \in Nat
  BY DepthAssumption, PowersAssumption DEF ForestInv
<1>4. Size' \in 0 .. 2 ^ Depth
  BY <1>1, <1>3 DEF IsFull
<1>5. keys \in Seq(Keys) /\ Len(keys) = Size + 1
  BY <1>3
<1> HIDE DEF s, keys
<1>6. /\ s.at = << k, Size \div 2 ^ k >> /\ LowOnes(Size, k) /\ DOMAIN s.tree = DOMAIN nodes
      /\ s.roots = [ i \in 1 .. NumRoots(Size) - k |-> GetOldRoots(Size)[i] ]
  BY <1>2 DEF RoundOK
<1>7. Roots' = GetOldRoots(Size')
  BY <1>1, <1>2, <1>3, <1>6, NextOldRoots
<1>8. /\ TreesOK(s.tree, keys, Size + 1)
      /\ \A d \in 0 .. Depth : Size \div 2 ^ d <= (Size + 1) \div 2 ^ d
  <2>1. \A domain, size : size \in Nat /\ RoundOK(s, domain, keys, size, k) /\ Bit(size, k) = 0
           => /\ TreesOK(s.tree, keys, size + 1)
              /\ \A d \in 0 .. Depth : size \div 2 ^ d <= (size + 1) \div 2 ^ d
    BY TreesAfterLoop, Zenon
  <2> QED
    BY <1>2, <1>3, <2>1, Zenon
<1>9. NothingBeyond(DOMAIN nodes, Size + 1)
  <2>1. \A d \in 0 .. Depth : Size \div 2 ^ d \in Nat /\ (Size + 1) \div 2 ^ d \in Nat
    BY <1>3, QuotientsAreNumbers
  <2>2. SUFFICES ASSUME NEW d \in 0 .. Depth, NEW shift \in Nat, << d, shift >> \in DOMAIN nodes
                 PROVE  shift <= (Size + 1) \div 2 ^ d
    BY DEF NothingBeyond
  <2>3. shift <= Size \div 2 ^ d
    BY <1>3, <2>2 DEF NothingBeyond
  <2> QED
    BY <1>8, <2>1, <2>3
<1>10. /\ TreesOK(WithGhosts(s.tree, right), keys, Size + 1)
       /\ NothingBeyond(DOMAIN WithGhosts(s.tree, right), Size + 1)
       /\ WayOpen(WithGhosts(s.tree, right), keys, Size + 1)
  BY <1>2, <1>3, GhostsOpenWay
<1>11. << 0, right[2] * 2 ^ DepthOf(right) >> = << 0, Size + 1 >>
  <2>1. right = RightChild(Parent(<< k, Size \div 2 ^ k >>))
    BY <1>6
  <2> HIDE DEF right
  <2> QED
    BY <1>2, <1>3, <1>6, <2>1, SpineOfSibling
<1> HIDE DEF right
<1>12. /\ TreesOK(nodes', log', Size') /\ NothingBeyond(DOMAIN nodes', Size')
       /\ ~ IsFull' => next' = << 0, Size' >> /\ WayOpen(nodes', log', Size')
  BY <1>1, <1>6, <1>8, <1>9, <1>10, <1>11
<1> QED
  BY <1>1, <1>4, <1>5, <1>7, <1>12 DEF ForestInv

\* The empty forest.
LEMMA InitIsForest == Init => ForestInv
<1> SUFFICES ASSUME Init PROVE ForestInv
  OBVIOUS
<1>1. /\ nodes = [ node \in LeftSpine(<< Depth, 0 >>) |-> Ghost ] /\ Roots = <<>>
      /\ next = << 0, 0 >> /\ Size = 0 /\ log = <<>>
  BY DEF Init
<1>2. Depth \in Nat /\ Depth \in 0 .. Depth
  BY DepthAssumption
<1>3. \A x \in Nat \ {0} : 0 \div x = 0 /\ 0 * x = 0
  OBVIOUS
<1>4. \A d \in 0 .. Depth : 0 \div 2 ^ d = 0 /\ 0 * 2 ^ d = 0
  BY <1>3, PowersAssumption
<1>5. LeftSpine(<< Depth, 0 >>) = { << d, 0 >> : d \in 0 .. Depth }
  <2>1. LeftSpine(<< Depth, 0 >>) = { << d, 0 * 2 ^ (Depth - d) >> : d \in 0 .. Depth }
    BY DEF LeftSpine, DepthOf
  <2>2. \A d \in 0 .. Depth : Depth - d \in 0 .. Depth
    BY <1>2
  <2>3. \A d \in 0 .. Depth : 0 * 2 ^ (Depth - d) = 0
    BY <1>4, <2>2
  <2> QED
    BY <2>1, <2>3
<1>6. Roots = GetOldRoots(0)
  <2>1. \A d \in 0 .. Depth : Bit(0, d) = 0
    <3>1. SUFFICES ASSUME NEW d \in 0 .. Depth PROVE Bit(0, d) = 0
      OBVIOUS
    <3> DEFINE q == 0 \div 2 ^ d
    <3>2. q = 0
      BY <1>4
    <3>3. Bit(0, d) = q % 2
      BY DEF Bit
    <3> HIDE DEF q
    <3> QED
      BY <3>2, <3>3
  <2>2. Ones(0) = {}
    BY <2>1 DEF Ones
  <2>3. Cardinality(Ones(0)) = 0
    BY <2>2, FS_EmptySet
  <2> DEFINE N == Cardinality(Ones(0))
  <2>4. 1 .. N = {}
    BY <2>3
  <2>5. GetOldRoots(0) = [ i \in 1 .. N |-> << RootDepth(i - 1, 0), ShiftOf(0, RootDepth(i - 1, 0)) >> ]
    BY DEF GetOldRoots
  <2> HIDE DEF N
  <2>6. DOMAIN GetOldRoots(0) = {}
    BY <2>4, <2>5
  <2>7. GetOldRoots(0) = [ i \in {} |-> GetOldRoots(0)[i] ]
    BY <2>4, <2>5, <2>6, Zenon
  <2>8. GetOldRoots(0) = <<>>
    BY <2>7
  <2> QED
    BY <1>1, <2>8
<1>7. TreesOK(nodes, log, 0)
  <2>1. \A shift \in Nat : ~ (shift < 0)
    OBVIOUS
  <2> QED
    BY <1>4, <2>1 DEF TreesOK
<1>8. DOMAIN nodes = { << d, 0 >> : d \in 0 .. Depth }
  BY <1>1, <1>5
<1>9. NothingBeyond(DOMAIN nodes, 0)
  BY <1>4, <1>8 DEF NothingBeyond
<1>10. WayOpen(nodes, log, 0)
  <2>1. SUFFICES ASSUME NEW d \in 0 .. Depth PROVE IsOpen(nodes, log, d, 0, 0)
    BY <1>4 DEF WayOpen
  <2>2. << d, 0 >> \in DOMAIN nodes /\ nodes[<< d, 0 >>] = Ghost
    BY <1>1, <1>5
  <2>3. DOMAIN Ghost = NodeFields /\ Ghost.completed = FALSE /\ Ghost.prefixTree = <<>>
    BY DEF Ghost, NodeFields
  <2>4. PrefixTreeOf(log, 0 * 2 ^ d .. 0 - 1) = <<>>
    <3>1. 0 .. 0 - 1 = {}
      OBVIOUS
    <3> QED
      BY <1>4, <3>1, PrefixTreeOfNothing
  <2> QED
    BY <2>2, <2>3, <2>4 DEF IsOpen
<1>11. 0 \in 0 .. 2 ^ Depth
  BY <1>2, PowersAssumption
<1>12. log \in Seq(Keys) /\ Len(log) = 0
  BY <1>1
<1> QED
  BY <1>1, <1>6, <1>7, <1>9, <1>10, <1>11, <1>12 DEF ForestInv

\* The forest is at all times as ForestInv says: every tree that was ever
\* complete still has the hash of its part of the log, and the nodes on the way to
\* the next leaf wait for it with the prefix trees of what is below them.
THEOREM ForestInvariance == Spec => []ForestInv
<1>1. ForestInv /\ [Next]_vars => ForestInv'
  <2> SUFFICES ASSUME ForestInv, [Next]_vars PROVE ForestInv'
    OBVIOUS
  <2>1. CASE Next
    BY <2>1, AppendKeeps DEF Next
  <2>2. CASE UNCHANGED vars
    BY <2>2 DEF vars, ForestInv, IsFull
  <2> QED
    BY <2>1, <2>2
<1> QED
  BY <1>1, InitIsForest, PTL DEF Spec

\* A root of an earlier size is complete, and its tree is in the log of that size.
LEMMA OldRootHash ==
  ASSUME ForestInv, NEW size \in 0 .. Size, NEW d \in Ones(size)
  PROVE  nodes[<< d, ShiftOf(size, d) >>].hash =
           TreeHash(SubSeq(log, 1, size), size - (size % 2 ^ (d + 1)), d)
<1> DEFINE x == 2 ^ d
           y == 2 ^ (d + 1)
           q == size \div 2 ^ d
           h == size \div 2 ^ (d + 1)
           now == Size \div 2 ^ d
           part == SubSeq(log, 1, size)
<1>1. /\ size \in Nat /\ Size \in Nat /\ size <= Size /\ Len(log) = Size /\ log \in Seq(Keys)
      /\ TreesOK(nodes, log, Size)
  <2>1. Size \in 0 .. 2 ^ Depth /\ 2 ^ Depth \in Nat
    BY DepthAssumption, PowersAssumption DEF ForestInv
  <2> QED
    BY <2>1 DEF ForestInv
<1>2. d \in 0 .. Depth /\ Bit(size, d) = 1
  BY DEF Ones
<1>3. x \in Nat \ {0} /\ y = 2 * x /\ y \in Nat \ {0}
  BY <1>2, PowersAssumption
<1>4. q = 2 * h + 1 /\ h \in Nat /\ q \in Nat
  <2>1. q = 2 * h + Bit(size, d) /\ h \in Nat /\ q \in Nat
    BY <1>1, <1>2, NextBit, Zenon
  <2> QED
    BY <1>2, <2>1
<1>5. q <= now /\ now \in Nat /\ x * q <= size
  <2>1. q <= now
    BY <1>1, <1>3, QuotientMonotone
  <2> QED
    BY <1>1, <1>3, <2>1, Quotient
<1>6. ShiftOf(size, d) = 2 * h
  BY DEF ShiftOf
<1>7. size - (size % y) = 2 * h * x
  <2>1. \A a \in Nat, k \in Nat \ {0} : a - (a % k) = k * (a \div k)
    OBVIOUS
  <2>2. size - (size % y) = y * h
    BY <1>1, <1>3, <2>1
  <2> HIDE DEF x, y, h
  <2> QED
    BY <1>3, <1>4, <2>2
<1> HIDE DEF x, y, q, h, now
<1>8. 2 * h \in Nat /\ 2 * h < now
  BY <1>4, <1>5
<1>9. IsTree(nodes, log, d, 2 * h)
  <2>1. \A shift \in Nat : shift < now => IsTree(nodes, log, d, shift)
    BY <1>1, <1>2 DEF TreesOK, now
  <2> QED
    BY <1>8, <2>1
<1> DEFINE first == 2 * h * x
<1>10. first \in Nat /\ first + x <= size
  <2>1. x * q = 2 * h * x + x
    BY <1>3, <1>4
  <2>2. 2 * h * x \in Nat
    BY <1>3, <1>4
  <2> QED
    BY <1>5, <2>1, <2>2
<1>11. TreeHash(part, first, d) = TreeHash(log, first, d)
  <2> HIDE DEF first
  <2>1. SameIn(log, part, first, x)
    <3>1. SUFFICES ASSUME NEW pos \in first .. first + x - 1 PROVE part[pos + 1] = log[pos + 1]
      BY DEF SameIn
    <3>2. pos + 1 \in 1 .. size
      BY <1>1, <1>3, <1>10
    <3> QED
      BY <1>1, <3>2
  <2> QED
    BY <1>2, <1>10, <2>1, TreeHashFrame DEF x
<1>12. nodes[<< d, 2 * h >>].hash = TreeHash(log, first, d)
  BY <1>9 DEF IsTree, x
<1> HIDE DEF first, part
<1>13. nodes[<< d, ShiftOf(size, d) >>].hash = TreeHash(part, size - (size % y), d)
  BY <1>6, <1>7, <1>11, <1>12 DEF first
<1> QED
  BY <1>13 DEF part, y

\* Every digest that was ever current can be taken again and is the digest of the
\* entries of its time (MerkleSquare.GetOldDigest): whatever is appended later
\* changes no tree that an auditor or a client may hold the root of.
THEOREM DigestsAlwaysCommitToLog == Spec => []DigestsCommitToLog
<1>1. ForestInv => DigestsCommitToLog
  <2> SUFFICES ASSUME ForestInv PROVE DigestsCommitToLog
    OBVIOUS
  <2>1. GetDigest = GetOldDigest(Size)
    BY DEF ForestInv, GetDigest, GetOldDigest
  <2>2. ASSUME NEW size \in 0 .. Size PROVE GetOldDigest(size) = DigestOf(SubSeq(log, 1, size))
    <3> DEFINE part == SubSeq(log, 1, size)
               N == NumRoots(size)
               first(i) == size - (size % 2 ^ (RootDepth(i - 1, size) + 1))
    <3>1. Len(part) = size
      <4>1. Size \in Nat /\ Len(log) = Size /\ log \in Seq(Keys)
        <5>1. Size \in 0 .. 2 ^ Depth /\ 2 ^ Depth \in Nat
          BY DepthAssumption, PowersAssumption DEF ForestInv
        <5> QED
          BY <5>1 DEF ForestInv
      <4> QED
        BY <4>1
    <3>2. N \in Nat
      BY FiniteForest
    <3>3. GetOldRoots(size) =
            [ i \in 1 .. N |-> << RootDepth(i - 1, size), ShiftOf(size, RootDepth(i - 1, size)) >> ]
      BY DEF GetOldRoots, NumRoots
    <3>4. ASSUME NEW i \in 1 .. N
          PROVE  nodes[GetOldRoots(size)[i]].hash = TreeHash(part, first(i), RootDepth(i - 1, size))
      <4>1. RootDepth(i - 1, size) \in Ones(size)
        <5> HIDE DEF N
        <5>1. i - 1 \in 0 .. N - 1
          BY <3>2
        <5> QED
          BY <5>1, EveryRootHasATree DEF N
      <4> HIDE DEF N
      <4>2. GetOldRoots(size)[i] = << RootDepth(i - 1, size), ShiftOf(size, RootDepth(i - 1, size)) >>
        BY <3>3
      <4> QED
        BY <4>1, <4>2, OldRootHash
    <3>5. HashesOf(GetOldRoots(size)) =
            [ i \in 1 .. N |-> TreeHash(part, first(i), RootDepth(i - 1, size)) ]
      <4> HIDE DEF N, part, first
      <4>1. DOMAIN GetOldRoots(size) = 1 .. N
        BY <3>3
      <4> QED
        BY <3>4, <4>1 DEF HashesOf
    <3>6. DigestOf(part) =
            [ Roots |-> [ i \in 1 .. N |-> TreeHash(part, first(i), RootDepth(i - 1, size)) ],
              Size  |-> size ]
      <4> HIDE DEF part
      <4> QED
        BY <3>1 DEF DigestOf, NumRoots
    <3> QED
      BY <3>5, <3>6 DEF GetOldDigest
  <2> QED
    BY <2>1, <2>2 DEF DigestsCommitToLog
<1> QED
  BY <1>1, ForestInvariance, PTL
=============================================================================
