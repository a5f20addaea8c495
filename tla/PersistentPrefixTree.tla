------------------------ MODULE PersistentPrefixTree ------------------------
(***************************************************************************)
(* The partial-persistent, path-compressed prefix tree that every          *)
(* partition keeps as its base tree (core/persistent_prefix_tree.go).      *)
(*                                                                         *)
(* A tree is a value: the heap of `metadata` objects, the root of every    *)
(* finished epoch, and the root of the current one.  A pointer is an       *)
(* address into the heap and 0 is nil.  Objects are never freed.  The      *)
(* write-only field `prev` is left out.                                    *)
(*                                                                         *)
(* A hash is the term that was hashed, which makes hashing injective, but  *)
(* for the empty string, which both a leaf and an internal node without    *)
(* any input hash to; a prefix is a sequence of bits of the hashed key.    *)
(***************************************************************************)
EXTENDS Integers, Sequences, SequencesExt

Nil == 0
NilHash == <<>>

\* A node as &metadata{...} creates it: epoch, prefix, values, parent given.
Metadata(epoch, prefix, values, parent) ==
  [ hash |-> NilHash, values |-> values, epoch |-> epoch, prefix |-> prefix,
    next |-> Nil, leftChild |-> Nil, rightChild |-> Nil, parent |-> parent ]

NewPersistentPrefixTree ==
  [ heap |-> << Metadata(0, <<>>, <<>>, Nil) >>, roots |-> <<>>,
    currRoot |-> 1, currEpoch |-> 0, sizesAtEpoch |-> <<0>> ]

RootAtEpoch(tree, epoch) ==
  IF epoch = tree.currEpoch THEN tree.currRoot ELSE tree.roots[epoch + 1]

GetHash(tree, epoch) == tree.heap[RootAtEpoch(tree, epoch)].hash

GetSize(tree, epoch) == tree.sizesAtEpoch[epoch + 1]

Child(heap, node, bit) ==
  IF bit = 0 THEN heap[node].leftChild ELSE heap[node].rightChild

SetChild(heap, node, bit, child) ==
  IF bit = 0 THEN [heap EXCEPT ![node].leftChild = child]
             ELSE [heap EXCEPT ![node].rightChild = child]

HashOf(heap, ptr) == IF ptr = Nil THEN NilHash ELSE heap[ptr].hash

SetParent(heap, child, parent) ==
  IF child = Nil THEN heap ELSE [heap EXCEPT ![child].parent = parent]

-----------------------------------------------------------------------------
(* Path copying.                                                           *)

\* One frame of makeNextMetadata: a copy of node, hung under the given parent.
CopyNode(heap, node, epoch, parent) ==
  LET ret    == Len(heap) + 1
      copied == Append(heap, [heap[node] EXCEPT !.epoch = epoch, !.next = Nil,
                                                !.parent = parent])
      hung   == IF parent = Nil THEN copied
                ELSE SetChild(copied, parent, heap[node].prefix[1], ret)
      left   == SetParent(hung, heap[node].leftChild, ret)
      right  == SetParent(left, heap[node].rightChild, ret)
  IN  [right EXCEPT ![node].next = ret]

\* node, its parent, that one's parent, ..., Nil.
Upwards(heap, node) ==
  LET up[n \in Nat] == IF n = 0 THEN node
                       ELSE IF up[n - 1] = Nil THEN Nil
                       ELSE heap[up[n - 1]].parent
  IN  up

\* The heap after node.makeNextMetadata(epoch): node and those of its
\* ancestors that are of an older epoch, up to the first that is not, are
\* copied from the top down.  The copy of node is the last object.
MakeNextMetadata(heap, node, epoch) ==
  LET up == Upwards(heap, node)
      Stale(n) == up[n] # Nil /\ heap[up[n]].epoch < epoch
      top  == CHOOSE n \in 0 .. Len(heap) :
                (\A i \in 1 .. n : Stale(i)) /\ ~ Stale(n + 1)
      copy[n \in Nat] ==
        IF n = 0 THEN CopyNode(heap, up[top], epoch, up[top + 1])
        ELSE CopyNode(copy[n - 1], up[top - n], epoch, Len(copy[n - 1]))
  IN  copy[top]

\* A heap and the object a step goes on with.
At(heap, node) == [heap |-> heap, at |-> node]

LastOf(heap) == At(heap, Len(heap))

\* `if node.epoch < epoch { node = node.makeNextMetadata(epoch) }`
OwnCopy(heap, node, epoch) ==
  IF heap[node].epoch < epoch THEN LastOf(MakeNextMetadata(heap, node, epoch))
                              ELSE At(heap, node)

-----------------------------------------------------------------------------
(* Hashes.                                                                 *)

InternalHash(prefix, left, right) == << "node", prefix, left, right >>

LeafHash(prefix, values) ==
  IF prefix = <<>> /\ values = <<>> THEN InternalHash(<<>>, NilHash, NilHash)
  ELSE << "leaf", prefix, values >>

\* What updateHash computes from the node and the stored hashes of its children.
ComputedHash(heap, node) ==
  LET m == heap[node]
  IN  IF m.leftChild = Nil /\ m.rightChild = Nil
      THEN LeafHash(m.prefix, m.values)
      ELSE InternalHash(m.prefix, HashOf(heap, m.leftChild), HashOf(heap, m.rightChild))

SetHash(own, hash) == [own.heap EXCEPT ![own.at].hash = hash]

UpdateHash(heap, node, epoch) ==
  LET h == ComputedHash(heap, node)
  IN  IF h = heap[node].hash THEN heap ELSE SetHash(OwnCopy(heap, node, epoch), h)

\* One round of the loop to the root: `md.updateHash(epoch); md = md.parent`.
ClimbStep(s, epoch) ==
  LET Parent(heap) == At(heap, heap[s.at].parent)
  IN  IF s.heap[s.at].parent = Nil THEN s ELSE Parent(UpdateHash(s.heap, s.at, epoch))

SetRoot(tree, heap, root) ==
  [tree EXCEPT !.heap = heap,
     !.currRoot = IF heap[root].next = Nil THEN root ELSE heap[root].next]

RehashRoot(tree, end) == SetRoot(tree, UpdateHash(end.heap, end.at, tree.currEpoch), end.at)

\* Rehash from a leaf to the root its parent pointers lead to, which becomes
\* the current root, or its newer copy does.  No path has more nodes than a
\* key has bits, plus the root.
UpdateHashesFromLeaf(tree, leaf, depth) ==
  LET climb[n \in Nat] == IF n = 0 THEN leaf ELSE ClimbStep(climb[n - 1], tree.currEpoch)
  IN  RehashRoot(tree, climb[depth + 1])

-----------------------------------------------------------------------------
(* Walking down.                                                           *)

\* The nodes from root down whose labels spell a prefix of the key, and how
\* many bits of the key they spell.
Descend(heap, root, key) ==
  LET step[n \in Nat] ==
        IF n = 0 THEN [path |-> <<root>>, bits |-> 0]
        ELSE LET s == step[n - 1]
                 c == IF s.bits = Len(key) THEN Nil
                      ELSE Child(heap, Last(s.path), key[s.bits + 1])
                 rest == SubSeq(key, s.bits + 1, Len(key))
             IN  IF c = Nil \/ ~ IsPrefix(heap[c].prefix, rest) THEN s
                 ELSE [path |-> Append(s.path, c), bits |-> s.bits + Len(heap[c].prefix)]
  IN  step[Len(key)]

PathTo(tree, key, epoch) == Descend(tree.heap, RootAtEpoch(tree, epoch), key)

\* GetLeaf and getLeaf: the leaf of key at an epoch, or nil.
GetLeaf(tree, key, epoch) ==
  LET way == PathTo(tree, key, epoch)
  IN  IF way.bits = Len(key) THEN Last(way.path) ELSE Nil

\* leaf.getValues(), of no value where there is no leaf.
ValuesAt(tree, key, epoch) ==
  LET leaf == GetLeaf(tree, key, epoch)
  IN  IF leaf = Nil THEN <<>> ELSE tree.heap[leaf].values

-----------------------------------------------------------------------------
(* Insert.                                                                 *)

\* A new node under a child pointer of own that was nil; its parent pointer is
\* set to prev.
AddChild(own, prev, prefix, value, epoch) ==
  LET md == Len(own.heap) + 1
  IN  At(SetChild(Append(own.heap, Metadata(epoch, prefix, <<value>>, prev)),
                  own.at, prefix[1], md), md)

\* prev, or prev's new copy, gets the child, whose parent
\* pointer stays at prev.
InsertMissing(tree, prev, prefix, value) ==
  AddChild(OwnCopy(tree.heap, prev, tree.currEpoch), prev, prefix, value, tree.currEpoch)

\* own becomes the child of parent on the side of the bit given.
Hang(own, parent, bit) ==
  SetParent(SetChild(own.heap, parent, bit, own.at), own.at, parent)

\* One child of a split node: the bottom half takes over its newest copy.
Adopt(heap, child, bottom, epoch) ==
  IF child = Nil THEN heap
  ELSE Hang(OwnCopy(heap, child, epoch), bottom, heap[child].prefix[1])

\* Slip: a parent of an earlier epoch is edited in place.
SplitNodeInPlace(tree, node, idx) ==
  LET old   == tree.heap[node]
      top   == Len(tree.heap) + 1
      label == SubSeq(old.prefix, idx + 1, Len(old.prefix))
      h1    == tree.heap \o
               << Metadata(tree.currEpoch, SubSeq(old.prefix, 1, idx), <<>>, old.parent),
                  [old EXCEPT !.prefix = label, !.parent = top, !.next = Nil] >>
      h2    == SetChild(UpdateHash(h1, top + 1, tree.currEpoch), top, label[1], top + 1)
  IN  At(SetChild(h2, old.parent, old.prefix[1], top), top)

\* splitNode(node, idx): the node's first idx bits become a new internal node,
\* returned with the heap.
SplitNode(tree, node, idx) ==
  LET epoch   == tree.currEpoch
      old     == tree.heap[node]
      topHalf == Len(tree.heap) + 1
      botHalf == topHalf + 1
      botPrefix == SubSeq(old.prefix, idx + 1, Len(old.prefix))
      top     == Metadata(epoch, SubSeq(old.prefix, 1, idx), <<>>, old.parent)
      bottom  == [Metadata(epoch, botPrefix, old.values, topHalf) EXCEPT
                    !.leftChild = old.leftChild, !.rightChild = old.rightChild]
      h1 == tree.heap \o << top, bottom >>
      h2 == Adopt(h1, old.leftChild, botHalf, epoch)
      h3 == Adopt(h2, old.rightChild, botHalf, epoch)
      h4 == SetChild(UpdateHash(h3, botHalf, epoch), topHalf, botPrefix[1], botHalf)
      HangTop(own) == Hang(At(own.heap, topHalf), own.at, old.prefix[1])
  IN  At(HangTop(OwnCopy(h4, old.parent, epoch)), topHalf)

\* The bits of the edge to node that the key spells too.
SharedBits(edge, prefix) ==
  CHOOSE j \in 1 .. Len(edge) - 1 :
    SubSeq(edge, 1, j) = SubSeq(prefix, 1, j) /\ edge[j + 1] # prefix[j + 1]

\* A key that leaves the tree inside the edge to node: the edge is split and
\* the key becomes the new internal node's other child.
InsertSplit(tree, node, prefix, value) ==
  LET idx  == SharedBits(tree.heap[node].prefix, prefix)
      rest == SubSeq(prefix, idx + 1, Len(prefix))
      Other(s) == AddChild(s, s.at, rest, value, tree.currEpoch)
  IN  Other(SplitNode(tree, node, idx))

AddValue(own, value) == [own.heap EXCEPT ![own.at].values = Append(@, value)]

\* Slip: the leaf of an earlier epoch is edited in place.
InsertValueInPlace(tree, leaf, value) ==
  At(AddValue(At(tree.heap, leaf), value), leaf)

\* A key that has a leaf: the leaf, or its copy in this epoch, gets one more
\* value; hashes are then refreshed from the leaf that was found.
InsertValue(tree, leaf, value) ==
  At(AddValue(OwnCopy(tree.heap, leaf, tree.currEpoch), value), leaf)

CountLeaf(tree) == [tree EXCEPT !.sizesAtEpoch[tree.currEpoch + 1] = @ + 1]

Insert(tree, key, value) ==
  LET way   == Descend(tree.heap, tree.currRoot, key)
      end   == Last(way.path)
      rest  == SubSeq(key, way.bits + 1, Len(key))
      child == Child(tree.heap, end, rest[1])
      put   == IF child = Nil THEN InsertMissing(tree, end, rest, value)
               ELSE InsertSplit(tree, child, rest, value)
  IN  IF way.bits = Len(key)
      THEN UpdateHashesFromLeaf(tree, InsertValue(tree, end, value), Len(key))
      ELSE CountLeaf(UpdateHashesFromLeaf(tree, put, Len(key)))

NextEpoch(tree) ==
  [tree EXCEPT !.sizesAtEpoch = Append(@, @[tree.currEpoch + 1]),
               !.roots = Append(@, tree.currRoot),
               !.currEpoch = @ + 1]

-----------------------------------------------------------------------------
(* Proofs: the copath the server sends and the root a client computes.     *)

\* The copath of a node that hangs under the last of path and has this prefix, from
\* there up: the prefixes of the nodes above it and the hashes beside it.
BuildCopath(heap, path, endPrefix) ==
  LET way == Append([ i \in DOMAIN path |-> heap[path[i]].prefix ], endPrefix)
  IN  Reverse([ i \in DOMAIN path |->
        [ PartialPrefix  |-> heap[path[i]].prefix,
          OtherChildHash |-> HashOf(heap, Child(heap, path[i], 1 - way[i + 1][1])) ] ])

\* Slip: the sibling is always hashed on the right.
GetRootHashOneSided(endHash, endPrefix, copath) ==
  LET Up(below, step) == InternalHash(step.PartialPrefix, below, step.OtherChildHash)
  IN  FoldLeft(Up, endHash, copath)

\* One round of its loop: the node above, from what is below it and beside that.
CopathStep(below, step) ==
  [ prefix |-> step.PartialPrefix,
    hash   |-> IF below.prefix[1] = 0
               THEN InternalHash(step.PartialPrefix, below.hash, step.OtherChildHash)
               ELSE InternalHash(step.PartialPrefix, step.OtherChildHash, below.hash) ]

\* getRootHash
GetRootHash(endHash, endPrefix, copath) ==
  LET up[n \in Nat] == IF n = 0 THEN [prefix |-> endPrefix, hash |-> endHash]
                       ELSE CopathStep(up[n - 1], copath[n])
  IN  up[Len(copath)].hash

RootOverCopath(heap, path, endHash, endPrefix) ==
  GetRootHash(endHash, endPrefix, BuildCopath(heap, path, endPrefix))

\* The root computeRootHashMembership finds for the proof of a present key.
MembershipRoot(tree, key, epoch) ==
  LET path == PathTo(tree, key, epoch).path
      leaf == tree.heap[Last(path)]
  IN  RootOverCopath(tree.heap, Front(path), LeafHash(leaf.prefix, leaf.values), leaf.prefix)

\* The root computeRootHashNonMembership finds for the proof of an absent key:
\* the node in the way, or the missing child, is the proof's end node.
NonMembershipRoot(tree, key, epoch) ==
  LET way == PathTo(tree, key, epoch)
      bit == key[way.bits + 1]
      end == Child(tree.heap, Last(way.path), bit)
  IN  RootOverCopath(tree.heap, way.path, HashOf(tree.heap, end),
                     IF end = Nil THEN <<bit>> ELSE tree.heap[end].prefix)

-----------------------------------------------------------------------------
(* A version.                                                              *)

\* The nodes of the version of an epoch, level by level as StringAtEpoch finds them,
\* for keys of the given length.
Version(t, epoch, bits) ==
  LET upto[n \in Nat] ==
        IF n = 0 THEN { RootAtEpoch(t, epoch) }
        ELSE upto[n - 1] \cup
             { Child(t.heap, node, bit) : node \in upto[n - 1] \ {Nil}, bit \in {0, 1} }
  IN  upto[bits] \ {Nil}
=============================================================================
