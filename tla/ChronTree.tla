------------------------------ MODULE ChronTree ------------------------------
(***************************************************************************)
(* The chronological Merkle tree that every update log is                  *)
(* (core/chron_node.go): append, consistency proof, and its verification   *)
(* by a client that knows two roots and two sizes.                         *)
(*                                                                         *)
(* A pointer is an index into the sequence of nodes and 0 is nil.  A hash  *)
(* is the term that was hashed, so hashing is injective.                   *)
(***************************************************************************)
EXTENDS Integers, Sequences, SequencesExt, FiniteSetsExt

CONSTANTS
  Values,       (* What is appended: roots of update sets.                 *)
  MaxLeaves     (* Bound on the number of leaves.                          *)

ASSUME MaxLeavesAssumption == MaxLeaves \in Nat

\* What the powers of two are, as far as they are used: a proof has to be told.
ASSUME ChronPowersAssumption ==
  /\ 2 ^ 0 = 1
  /\ \A n \in 0 .. MaxLeaves : 2 ^ n \in Nat \ {0} /\ 2 ^ (n + 1) = 2 * 2 ^ n

VARIABLES
  nodes,        (* The nodes allocated so far.                             *)
  root,
  last,
  numNodes,     (* The number of leaves.                                   *)
  maxNodes,     (* The number that the tree has place for at its height.   *)
  appended      (* History variable: the values appended.                  *)

chronVars == << nodes, root, last, numNodes, maxNodes, appended >>

Nil == 0

LeafHash(value, number) == << "leaf", value, number >>
Hash(left, right) == << "node", left, right >>

\* crypto.Hash() of nothing.
EmptyHash == << "empty" >>

Leaf(value, number, parent) ==
  [ hash |-> LeafHash(value, number), parent |-> parent, depth |-> 0,
    leftChild |-> Nil, rightChild |-> Nil ]

\* An internal node whose hash is still to be computed.
Internal(left, right, depth, parent) ==
  [ hash |-> Nil, parent |-> parent, depth |-> depth,
    leftChild |-> left, rightChild |-> right ]

-----------------------------------------------------------------------------
(* Append.                                                                 *)

ChronInit ==
  /\ nodes = <<>>
  /\ root = Nil
  /\ last = Nil
  /\ numNodes = 0
  /\ maxNodes = 1
  /\ appended = <<>>

GetRootHash == IF root = Nil THEN EmptyHash ELSE nodes[root].hash

\* node.updateHash(), when the children's hashes are right.
UpdateHash(tree, node) ==
  [tree EXCEPT ![node].hash =
     Hash(tree[tree[node].leftChild].hash, tree[tree[node].rightChild].hash)]

\* The loop that refreshes the hashes from a node up to the root.
RefreshStep(s) ==
  IF s.at = Nil THEN s ELSE [tree |-> UpdateHash(s.tree, s.at), at |-> s.tree[s.at].parent]

UpdateHashesFrom(tree, node) ==
  LET climb[n \in Nat] == IF n = 0 THEN [tree |-> tree, at |-> node] ELSE RefreshStep(climb[n - 1])
  IN  climb[Len(tree)].tree

\* The lowest ancestor of the last leaf, or that leaf, whose parent is more than
\* one level above it: there the path is to be pushed down.
PushDownStep(tree, top, curr) ==
  IF curr # top /\ tree[curr].depth + 1 = tree[tree[curr].parent].depth
  THEN tree[curr].parent ELSE curr

PushDownPoint ==
  LET climb[n \in Nat] == IF n = 0 THEN last ELSE PushDownStep(nodes, root, climb[n - 1])
  IN  climb[Len(nodes)]

\* What every case of Append does besides linking the new leaf in.
PlaceLeaf(value, leaf) ==
  /\ numNodes < MaxLeaves
  /\ last' = leaf
  /\ numNodes' = numNodes + 1
  /\ appended' = Append(appended, value)

FirstLeaf(value) ==
  /\ numNodes = 0
  /\ nodes' = << Leaf(value, 0, Nil) >>
  /\ root' = 1
  /\ PlaceLeaf(value, 1)
  /\ UNCHANGED maxNodes

TwiceAsMany(capacity) == capacity * 2

\* The tree is full: a new root gets it and the leaf as children.
GrowRoot(value) ==
  LET leaf == Len(nodes) + 1
      top  == Len(nodes) + 2
      tree == [nodes EXCEPT ![root].parent = top] \o
              << Leaf(value, numNodes, top), Internal(root, leaf, nodes[root].depth + 1, Nil) >>
  IN  /\ numNodes # 0
      /\ numNodes = maxNodes
      /\ nodes' = UpdateHash(tree, top)
      /\ root' = top
      /\ maxNodes' = TwiceAsMany(maxNodes)
      /\ PlaceLeaf(value, leaf)

\* Slip: hashes are refreshed at the new node only.
PushDownRehashingOnce(tree, node) == UpdateHash(tree, node)

PushDownRehashing(tree, node) == UpdateHashesFrom(tree, node)

\* The push-down point moves one level down, under a new parent that it shares
\* with the leaf.  There always is a place below the root: Append's branch for a
\* push-down point at the root is not reached, and this step would look for its
\* parent in vain.
PushDown(value) ==
  LET curr   == PushDownPoint
      grand  == nodes[curr].parent
      leaf   == Len(nodes) + 1
      parent == Len(nodes) + 2
      tree   == [nodes EXCEPT ![grand].rightChild = parent, ![curr].parent = parent] \o
                << Leaf(value, numNodes, parent),
                   Internal(curr, leaf, nodes[curr].depth + 1, grand) >>
  IN  /\ numNodes \notin {0, maxNodes}
      /\ nodes' = PushDownRehashing(tree, parent)
      /\ PlaceLeaf(value, leaf)
      /\ UNCHANGED << root, maxNodes >>

ChronNext == \E value \in Values : FirstLeaf(value) \/ GrowRoot(value) \/ PushDown(value)

ChronSpec == ChronInit /\ [][ChronNext]_chronVars

-----------------------------------------------------------------------------
(* Consistency proofs.                                                     *)

\* The largest power of two below n.
SplitPoint(n) == Max({ k \in { 2 ^ i : i \in 0 .. n } : k < n })

SiblingLast(below, hash) == Append(below, hash)

\* GenerateConsistencyProof(oldSize, numNodes).
GenerateConsistencyProof(oldSize) ==
  LET generate[m \in Nat, n \in Nat, node \in Nat, isComplete \in BOOLEAN] ==
        IF m = 0 THEN <<>>
        ELSE IF m = n THEN (IF isComplete THEN <<>> ELSE << nodes[node].hash >>)
        ELSE LET k     == SplitPoint(n)
                 left  == nodes[node].leftChild
                 right == nodes[node].rightChild
             IN  IF m <= k
                 THEN SiblingLast(generate[m, k, left, isComplete], nodes[right].hash)
                 ELSE SiblingLast(generate[m - k, n - k, right, FALSE], nodes[left].hash)
  IN  generate[oldSize, numNodes, root, TRUE]

IsPowerOfTwo(n) == n \in { 2 ^ i : i \in 0 .. n }

\* How often a number can be halved while its lowest bit is the given one: the
\* loops that shift fn and sn.  They end at zero.
Shifts(n, bit) ==
  Min({ i \in 0 .. n + 1 : (n \div 2 ^ i) % 2 # bit \/ n \div 2 ^ i = 0 })

IsRightChild(s) == s.fn % 2 = 1 \/ s.fn = s.sn

\* One round of the verifier: fr and sr are the old and the new root so far, fn
\* and sn the numbers of the old and the new tree's last node at this level.
VerifyStep(s, c) ==
  LET skip == IF s.fn % 2 = 1 THEN 0 ELSE Shifts(s.fn, 0)
      up   == IF IsRightChild(s) THEN skip + 1 ELSE 1
  IN  [ ok |-> s.ok /\ s.sn # 0,
        fr |-> IF IsRightChild(s) THEN Hash(c, s.fr) ELSE s.fr,
        sr |-> IF IsRightChild(s) THEN Hash(c, s.sr) ELSE Hash(s.sr, c),
        fn |-> s.fn \div 2 ^ up,
        sn |-> s.sn \div 2 ^ up ]

\* Slip: the old root is taken on trust.
NewRootFound(end, oldRoot, newRoot) == end.sr = newRoot

RootsFound(end, oldRoot, newRoot) == end.fr = oldRoot /\ end.sr = newRoot

VerifyConsistencyProof(oldSize, oldRoot, newSize, newRoot, proof) ==
  LET hashes == IF IsPowerOfTwo(oldSize) THEN << oldRoot >> \o proof ELSE proof
      ones   == Shifts(oldSize - 1, 1)
      start  == [ ok |-> TRUE, fr |-> Head(hashes), sr |-> Head(hashes),
                  fn |-> (oldSize - 1) \div 2 ^ ones, sn |-> (newSize - 1) \div 2 ^ ones ]
      end    == FoldLeft(VerifyStep, start, Tail(hashes))
  IN  \/ oldSize = 0
      \/ oldSize = newSize /\ oldRoot = newRoot
      \/ /\ oldSize \notin {0, newSize}
         /\ proof # <<>>
         /\ end.ok /\ RootsFound(end, oldRoot, newRoot) /\ end.sn = 0

-----------------------------------------------------------------------------
(* Reference.                                                              *)

\* The Merkle tree hash of the n values from number lo on, when those of fewer
\* values are known: the left subtree is the largest complete one that leaves
\* something for the right.
TreeHashFrom(values, n, lo, fewer) ==
  IF n = 0 THEN EmptyHash
  ELSE IF n = 1 THEN LeafHash(values[lo + 1], lo)
  ELSE LET k == SplitPoint(n) IN Hash(fewer[k][lo], fewer[n - k][lo + k])

MerkleTreeHash(values) ==
  LET mth[n \in 0 .. Len(values)] == [ lo \in Nat |-> TreeHashFrom(values, n, lo, mth) ]
  IN  mth[Len(values)][0]

-----------------------------------------------------------------------------
\* However many leaves were pushed down, the stored root hash is the Merkle tree
\* hash of everything appended, in order: appending in place, along one path,
\* builds the same tree as hashing the whole list anew.
RootIsMerkleTreeHash ==
  GetRootHash = MerkleTreeHash(appended)

\* The consistency proof that the server makes from an earlier size convinces an
\* auditor whose old root is that of the log's first entries: it never rejects a
\* log that it follows.  It does not convince an auditor whose old root is of any
\* other list, and neither does the proof for another size than the auditor's.
ConsistencyProofsExact ==
  \A oldSize \in 1 .. numNodes :
    \A old \in [1 .. oldSize -> Values], proved \in oldSize - 1 .. oldSize :
      LET verified == VerifyConsistencyProof(oldSize, MerkleTreeHash(old), numNodes, GetRootHash,
                                             GenerateConsistencyProof(proved))
      IN  IF old = SubSeq(appended, 1, oldSize) THEN proved = oldSize => verified ELSE ~ verified
=============================================================================
