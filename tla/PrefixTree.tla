----------------------------- MODULE PrefixTree -----------------------------
(***************************************************************************)
(* The plain prefix tree (core/prefix_tree.go, prefix_node.go) that the    *)
(* internal nodes of MerkleSquare and the update sets hold, and its copies *)
(* (prefix_tree_copy_utils.go).  It has one version, edited in place; what *)
(* it shares with the persistent prefix tree, the shape of its nodes and   *)
(* the terms for hashes, is taken from there.                              *)
(*                                                                         *)
(* A tree names the heap its nodes are in, so that two trees can be asked  *)
(* whether they share a node.  A list of append calls is kept in the tree. *)
(***************************************************************************)
EXTENDS PersistentPrefixTree

PlainNode(prefix, values) ==
  [ hash |-> NilHash, values |-> values, prefix |-> prefix,
    leftChild |-> Nil, rightChild |-> Nil, parent |-> Nil ]

NewPrefixTree ==
  [ heap |-> << PlainNode(<<>>, <<>>) >>, root |-> 1, isComplete |-> FALSE, appends |-> <<>> ]

IsLeafNode(heap, node) == heap[node].values # <<>>

\* parent.addChild(child)
AddChildNode(heap, parent, child) ==
  SetParent(SetChild(heap, parent, heap[child].prefix[1], child), child, parent)

Rehash(heap, node) == [heap EXCEPT ![node].hash = ComputedHash(heap, node)]

\* From a leaf to the root, which is at most as many nodes up as a key has bits.
RehashFromLeaf(own, bits) ==
  LET climb[n \in Nat] ==
        IF n = 0 THEN own
        ELSE LET s == climb[n - 1]
             IN  IF s.at = Nil THEN s ELSE At(Rehash(s.heap, s.at), s.heap[s.at].parent)
  IN  climb[bits + 1].heap

\* Slip: the first of two children stays unhashed under its shorter label.
SplitWithoutRehash(heap, node, parent, idx) ==
  LET label == heap[node].prefix
      made  == Append([heap EXCEPT ![node].prefix = SubSeq(label, idx + 1, Len(label))],
                      PlainNode(SubSeq(label, 1, idx), <<>>))
  IN  LastOf(AddChildNode(AddChildNode(made, parent, Len(made)), Len(made), node))

\* splitCompressedNode, after which the caller hashes the node that was split.
SplitCompressedNode(heap, node, parent, idx) ==
  LET label == heap[node].prefix
      made  == Append([heap EXCEPT ![node].prefix = SubSeq(label, idx + 1, Len(label))],
                      PlainNode(SubSeq(label, 1, idx), <<>>))
      hung  == AddChildNode(AddChildNode(made, parent, Len(made)), Len(made), node)
  IN  LastOf(Rehash(hung, node))

NewLeafNode(own, prefix, value) ==
  LastOf(AddChildNode(Append(own.heap, PlainNode(prefix, <<value>>)), own.at, Len(own.heap) + 1))

\* Slip: the values of a key are kept with the newest first.
AddLeafValueFirst(heap, leaf, value) == At([heap EXCEPT ![leaf].values = << value >> \o @], leaf)

\* leaf.addValue
AddLeafValue(heap, leaf, value) == At([heap EXCEPT ![leaf].values = Append(@, value)], leaf)

\* The leaf that prefix has in the tree, or is given, with the value added.
LeafWithValue(tree, prefix, value) ==
  LET way   == Descend(tree.heap, tree.root, prefix)
      end   == Last(way.path)
      rest  == SubSeq(prefix, way.bits + 1, Len(prefix))
      child == Child(tree.heap, end, rest[1])
      idx   == SharedBits(tree.heap[child].prefix, rest)
  IN  IF rest = <<>> THEN AddLeafValue(tree.heap, end, value)
      ELSE IF child = Nil THEN NewLeafNode(At(tree.heap, end), rest, value)
      ELSE NewLeafNode(SplitCompressedNode(tree.heap, child, end, idx),
                       SubSeq(rest, idx + 1, Len(rest)), value)

PrefixAppend(tree, prefix, value) ==
  IF tree.isComplete THEN tree
  ELSE [tree EXCEPT !.heap = RehashFromLeaf(LeafWithValue(tree, prefix, value), Len(prefix)),
                    !.appends = Append(@, [Prefix |-> prefix, Value |-> value])]

RootHash(tree) == tree.heap[tree.root].hash

-----------------------------------------------------------------------------
(* Proofs.  A step of a copath is the label of a node on the path to the   *)
(* root and the hash of its child that is not on the path.                 *)

LeafOf(tree, prefix) ==
  LET way == Descend(tree.heap, tree.root, prefix)
  IN  IF way.bits = Len(prefix) THEN Last(way.path) ELSE Nil

\* The copath of a node with this label under parent.
PlainCopath(tree, parent, label, bits) ==
  LET heap == tree.heap
      copath[n \in Nat] ==
        IF n = 0 THEN [steps |-> <<>>, at |-> parent, bit |-> label[1]]
        ELSE LET s    == copath[n - 1]
                 step == [ PartialPrefix  |-> heap[s.at].prefix,
                           OtherChildHash |-> HashOf(heap, Child(heap, s.at, 1 - s.bit)) ]
             IN  IF s.at = Nil THEN s
                 ELSE [ steps |-> Append(s.steps, step), at |-> heap[s.at].parent,
                        bit |-> IF step.PartialPrefix = <<>> THEN s.bit
                                ELSE step.PartialPrefix[1] ]
  IN  copath[bits + 1].steps

PlainMembershipProof(tree, prefix) ==
  LET leaf == tree.heap[LeafOf(tree, prefix)]
  IN  [ LeafPartialPrefix |-> leaf.prefix,
        CopathNodes |-> PlainCopath(tree, leaf.parent, leaf.prefix, Len(prefix)) ]

\* The node in the way of an absent prefix, or the missing child of the root.
PlainNonMembershipProof(tree, prefix) ==
  LET way   == Descend(tree.heap, tree.root, prefix)
      end   == Child(tree.heap, Last(way.path), prefix[way.bits + 1])
      label == IF end = Nil THEN << prefix[way.bits + 1] >> ELSE tree.heap[end].prefix
  IN  [ EndNodeHash          |-> HashOf(tree.heap, end),
        EndNodePartialPrefix |-> label,
        CopathNodes          |-> PlainCopath(tree, Last(way.path), label, Len(prefix)) ]

GetPrefix(copath) == FoldLeft(LAMBDA bits, step : step.PartialPrefix \o bits, <<>>, copath)

ComputeRootHashMembership(prefix, proof, values) ==
  IF prefix # GetPrefix(proof.CopathNodes) \o proof.LeafPartialPrefix THEN NilHash
  ELSE GetRootHash(LeafHash(proof.LeafPartialPrefix, values), proof.LeafPartialPrefix,
                   proof.CopathNodes)

\* Slip: the end node's label is not compared with the key.
ComputeRootHashWithoutEndNode(prefix, proof) ==
  IF ~ IsPrefix(GetPrefix(proof.CopathNodes), prefix) THEN NilHash
  ELSE GetRootHash(proof.EndNodeHash, proof.EndNodePartialPrefix, proof.CopathNodes)

ComputeRootHashNonMembership(prefix, proof) ==
  LET before == GetPrefix(proof.CopathNodes)
      rest   == SubSeq(prefix, Len(before) + 1, Len(prefix))
  IN  IF \/ ~ IsPrefix(before, prefix)
         \/ rest[1] # proof.EndNodePartialPrefix[1]
         \/ proof.EndNodeHash # NilHash /\ IsPrefix(proof.EndNodePartialPrefix, rest)
      THEN NilHash
      ELSE GetRootHash(proof.EndNodeHash, proof.EndNodePartialPrefix, proof.CopathNodes)

-----------------------------------------------------------------------------
(* Copies.                                                                 *)

\* copy and deserializePrefixTree: the same appends, made again.
CopyTree(tree) ==
  FoldLeft(LAMBDA t, a : PrefixAppend(t, a.Prefix, a.Value), NewPrefixTree, tree.appends)

\* A copy of node, still without children, that knows its parent.
CloneNode(heap, node, parent) ==
  LastOf(Append(heap, [heap[node] EXCEPT !.parent = parent, !.leftChild = Nil, !.rightChild = Nil]))

\* Slip: a leaf becomes the child of both trees.
EnterSharingLeaves(s, bit) ==
  LET child == Child(s.heap, s.node, bit)
      made  == IF IsLeafNode(s.heap, child) THEN LastOf(Append(s.heap, s.heap[child]))
               ELSE CloneNode(s.heap, child, s.clone)
      kept  == IF IsLeafNode(s.heap, child) THEN child ELSE made.at
  IN  [ heap  |-> SetChild([made.heap EXCEPT ![made.at].parent = s.clone], s.clone, bit, kept),
        node  |-> child,
        clone |-> made.at ]

\* The walk goes down to a child that the copy lacks.  The object that stands
\* for a leaf's copy while the walk is there is the copy itself.
EnterChild(s, bit) ==
  LET child == Child(s.heap, s.node, bit)
      made  == CloneNode(s.heap, child, s.clone)
  IN  [ heap  |-> SetChild(made.heap, s.clone, bit, made.at),
        node  |-> child,
        clone |-> made.at ]

Lacks(s, bit) == Child(s.heap, s.node, bit) # Nil /\ Child(s.heap, s.clone, bit) = Nil

WalkStep(s) ==
  IF s.node = Nil THEN s
  ELSE IF Lacks(s, 0) THEN EnterChild(s, 0)
  ELSE IF Lacks(s, 1) THEN EnterChild(s, 1)
  ELSE [heap |-> s.heap, node |-> s.heap[s.node].parent, clone |-> s.heap[s.clone].parent]

\* deepCopyInternalNodeIterative.  The walk does not end at node but goes on
\* above it, through the trees' roots, until the root's parent: it may visit
\* every node of the tree, each from its parent and from its children.
DeepCopy(heap, parent, node) ==
  LET ret  == CloneNode(heap, node, parent)
      walk == FoldLeft(LAMBDA s, i : WalkStep(s),
                       [heap |-> ret.heap, node |-> node, clone |-> ret.at],
                       [ i \in 1 .. 3 * Len(heap) |-> i ])
  IN  IF IsLeafNode(heap, node) THEN ret ELSE At(walk.heap, ret.at)

CopyChild(heap, tree, root, bit) ==
  LET copied == DeepCopy(heap, root, Child(heap, tree.root, bit))
  IN  IF Child(heap, tree.root, bit) = Nil THEN heap
      ELSE SetChild(copied.heap, root, bit, copied.at)

\* copyFast; the copy is in the same heap.
CopyFast(tree) ==
  LET made == CloneNode(tree.heap, tree.root, Nil)
      left == CopyChild(made.heap, tree, made.at, 0)
  IN  [tree EXCEPT !.heap = CopyChild(left, tree, made.at, 1), !.root = made.at]
=============================================================================
