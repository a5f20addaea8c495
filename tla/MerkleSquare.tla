---------------------------- MODULE MerkleSquare ----------------------------
(***************************************************************************)
(* MerkleSquare's own tree (core/merkle.go, core/node.go): a growing       *)
(* forest of complete Merkle trees over a log of entries, in which every   *)
(* internal node also holds a prefix tree of the keys below it; and the    *)
(* proofs a server makes from it for a size it had at any time, with their *)
(* verification by clients and auditors.                                   *)
(*                                                                         *)
(* A node is its index << depth, shift >>.  A hash is the term that was    *)
(* hashed, so hashing is injective.  A prefix tree is the function from    *)
(* its keys to their values in the order of insertion, which is what its   *)
(* root hash commits to; BaseTree is about such trees themselves.  Value   *)
(* and signature of an entry are one with its key and position.            *)
(***************************************************************************)
EXTENDS ForestIndex, Sequences, SequencesExt

CONSTANT Keys   (* The hashed keys of users.                               *)

VARIABLES
  nodes,        (* The nodes created so far, ghosts included.              *)
  Roots,        (* The roots of the complete trees, from left to right.    *)
  next,         (* The ghost leaf that the next entry completes.           *)
  Size,
  log           (* History variable: the keys appended.                    *)

vars == << nodes, Roots, next, Size, log >>

NilHash == <<>>

ContentHash(key, pos) == << "content", key, pos >>
LeafNodeHash(key, content) == << "leaf", key, content >>
InternalHash(left, right, prefixHash) == << "node", left, right, prefixHash >>

KeyHash(key, pos) == [hash |-> ContentHash(key, pos), pos |-> pos]

Ancestors(node) == { Above(node, depth) : depth \in DepthOf(node) + 1 .. Depth }

-----------------------------------------------------------------------------
(* Prefix trees.                                                           *)

Values(tree, key) == IF key \in DOMAIN tree THEN tree[key] ELSE <<>>

WithValues(tree, key, values) ==
  [ k \in DOMAIN tree \cup {key} |-> IF k = key THEN values ELSE tree[k] ]

PrefixHash(tree) == << "prefixes", tree >>

\* A membership proof is the rest of the tree, from which and the values of the
\* key a client computes the root hash; a non-membership proof is the whole
\* tree, which a client accepts if it leads to no leaf for the key.
MembershipProof(tree, key) == [ k \in DOMAIN tree \ {key} |-> tree[k] ]

RootHashMembership(key, proof, values) == PrefixHash(WithValues(proof, key, values))

RootHashNonMembership(key, tree) == IF key \in DOMAIN tree THEN NilHash ELSE PrefixHash(tree)

-----------------------------------------------------------------------------
(* Append.                                                                 *)

Ghost == [hash |-> NilHash, completed |-> FALSE, prefixTree |-> <<>>]

Init ==
  /\ nodes = [ node \in LeftSpine(<< Depth, 0 >>) |-> Ghost ]
  /\ Roots = <<>>
  /\ next = << 0, 0 >>
  /\ Size = 0
  /\ log = <<>>

IsFull == Size = 2 ^ Depth

\* A completed prefix tree refuses the append, and the caller ignores it.
PrefixAppend(node, key, pos) ==
  IF node.completed THEN node
  ELSE [node EXCEPT !.prefixTree =
          WithValues(@, key, Append(Values(@, key), KeyHash(key, pos)))]

CompletedLeaf(key, pos) ==
  [ Ghost EXCEPT !.hash = LeafNodeHash(key, ContentHash(key, pos)), !.completed = TRUE ]

\* next is completed and its key appended to the prefix trees above it.
WithLeaf(key) ==
  [ node \in DOMAIN nodes |->
      IF node = next THEN CompletedLeaf(key, Size)
      ELSE IF node \in Ancestors(next) THEN PrefixAppend(nodes[node], key, Size)
      ELSE nodes[node] ]

\* InternalNode.complete()
Completed(tree, node) ==
  [ tree EXCEPT ![node].completed = TRUE,
      ![node].hash = InternalHash(tree[LeftChild(node)].hash, tree[RightChild(node)].hash,
                                  PrefixHash(tree[node].prefixTree)) ]

Pop(roots) == Front(roots)

\* One round of the loop that completes the parent of a right child.
Rise(s) ==
  IF ~ IsRightChild(s.at) THEN s
  ELSE [ tree  |-> Completed(s.tree, Parent(s.at)),
         roots |-> Pop(s.roots),
         at    |-> Parent(s.at) ]

\* The loop: one round for each depth is enough.
Risen(key) ==
  LET round[n \in Nat] ==
        IF n = 0 THEN [tree |-> WithLeaf(key), roots |-> Roots, at |-> next]
        ELSE Rise(round[n - 1])
  IN  round

\* The right sibling of the new tree is created, down to the next leaf.
WithGhosts(tree, right) ==
  [ node \in DOMAIN tree \cup LeftSpine(right) |->
      IF node \in DOMAIN tree THEN tree[node] ELSE Ghost ]

\* What is left to do when the loop ends at s.at, the root of a new tree.
Finish(s) ==
  LET right == RightChild(Parent(s.at))
  IN  /\ Roots' = Append(s.roots, s.at)
      /\ nodes' = IF IsFull' THEN s.tree ELSE WithGhosts(s.tree, right)
      /\ next' = IF IsFull' THEN next ELSE << 0, right[2] * 2 ^ DepthOf(right) >>

\* A full tree returns without a change and without an error.
AppendEntry(key) ==
  /\ ~ IsFull
  /\ Size' = Size + 1
  /\ Finish(Risen(key)[Depth])
  /\ log' = Append(log, key)

Next == \E key \in Keys : AppendEntry(key)

Spec == Init /\ [][Next]_vars

-----------------------------------------------------------------------------
(* The forest as it was at an earlier size.                                *)

HashesOf(roots) == [ i \in DOMAIN roots |-> nodes[roots[i]].hash ]

GetDigest == [Roots |-> HashesOf(Roots), Size |-> Size]

GetOldDigest(size) == [Roots |-> HashesOf(GetOldRoots(size)), Size |-> size]

-----------------------------------------------------------------------------
(* Reference: the digest of a list of keys, without a forest.              *)

Rank(positions, pos) == Cardinality({ p \in positions : p < pos })

\* The i-th of the positions, in order.
Nth(positions, i) == CHOOSE pos \in positions : Rank(positions, pos) = i - 1

PrefixTreeOf(keys, positions) ==
  [ key \in { keys[pos + 1] : pos \in positions } |->
      LET own == { pos \in positions : keys[pos + 1] = key }
      IN  [ i \in 1 .. Cardinality(own) |-> KeyHash(key, Nth(own, i)) ] ]

\* The hashes of the complete trees of 2^depth keys, by the first of them.
TreeHashes(keys) ==
  LET tree[depth \in Nat] ==
        IF depth = 0
        THEN [ first \in Nat |-> LeafNodeHash(keys[first + 1], ContentHash(keys[first + 1], first)) ]
        ELSE [ first \in Nat |->
                 InternalHash(tree[depth - 1][first], tree[depth - 1][first + 2 ^ (depth - 1)],
                              PrefixHash(PrefixTreeOf(keys, first .. first + 2 ^ depth - 1))) ]
  IN  tree

TreeHash(keys, first, depth) == TreeHashes(keys)[depth][first]

\* One complete tree for each power of two in the length, the largest first, over
\* the keys that come after those of the larger trees.
DigestOf(keys) ==
  LET size     == Len(keys)
      depth(i) == RootDepth(i - 1, size)
      First(i) == size - (size % 2 ^ (depth(i) + 1))
  IN  [ Roots |-> [ i \in 1 .. Cardinality(Ones(size)) |-> TreeHash(keys, First(i), depth(i)) ],
        Size  |-> size ]

-----------------------------------------------------------------------------
\* Every digest that was ever current can be taken again later and is the digest
\* of the entries of its time: no append changes a tree that an auditor or a
\* client may hold the root of.
DigestsCommitToLog ==
  /\ GetDigest = GetOldDigest(Size)
  /\ \A size \in 0 .. Size : GetOldDigest(size) = DigestOf(SubSeq(log, 1, size))
=============================================================================
