--------------------------- MODULE Serialization ---------------------------
(***************************************************************************)
(* A MerkleSquare written to bytes and read back (core/serialize.go).      *)
(* Only the nodes and the size are written: the roots and the next leaf    *)
(* are found again, and the prefix tree of a node is rebuilt by repeating  *)
(* its appends, by which it forgets that it was completed.                 *)
(***************************************************************************)
EXTENDS MerkleSquare, TLC

NoChild == <<>>

\* Slip: what is not complete is not written.
WrittenIfCompleted(node) == node \in DOMAIN nodes /\ nodes[node].completed

Written(node) == node \in DOMAIN nodes

\* The calls that filled a prefix tree: the position orders them.
Appends(tree) ==
  LET positions == { h.pos : h \in UNION { ToSet(tree[key]) : key \in DOMAIN tree } }
      KeyAt(pos) == CHOOSE key \in DOMAIN tree : \E h \in ToSet(tree[key]) : h.pos = pos
      ordered   == SelectSeq([ i \in 1 .. Size |-> i - 1 ], LAMBDA pos : pos \in positions)
  IN  [ i \in DOMAIN ordered |-> KeyHash(KeyAt(ordered[i]), ordered[i]) @@ [key |-> KeyAt(ordered[i])] ]

SerializeNodes ==
  LET json[node \in DOMAIN nodes] ==
        LET Below(child) == IF DepthOf(node) > 0 /\ Written(child) THEN json[child] ELSE NoChild
        IN  [ Hash       |-> nodes[node].hash,
              Completed  |-> nodes[node].completed,
              Index      |-> node,
              LeftChild  |-> Below(LeftChild(node)),
              RightChild |-> Below(RightChild(node)),
              PrefixTree |-> Appends(nodes[node].prefixTree) ]
  IN  json

Serialize == [Root |-> SerializeNodes[<< Depth, 0 >>], Size |-> Size]

DeserializePrefixTree(appends) ==
  FoldLeft(LAMBDA tree, a :
             WithValues(tree, a.key, Append(Values(tree, a.key), [hash |-> a.hash, pos |-> a.pos])),
           <<>>, appends)

DeserializeNode(json) ==
  [ hash |-> json.Hash, completed |-> json.Completed,
    prefixTree |-> DeserializePrefixTree(json.PrefixTree) ]

\* The nodes read from the bytes of the root, as far as there are children.
DeserializeNodes(root) ==
  LET ChildrenOf(json) == { json.LeftChild, json.RightChild } \ { NoChild }
      upto[d \in 0 .. Depth] ==
        IF d = 0 THEN { root }
        ELSE upto[d - 1] \cup UNION { ChildrenOf(json) : json \in upto[d - 1] }
      Read(node) == CHOOSE json \in upto[Depth] : json.Index = node
  IN  [ node \in { json.Index : json \in upto[Depth] } |-> DeserializeNode(Read(node)) ]

DeserializeMerkleSquare(json) ==
  [ nodes |-> DeserializeNodes(json.Root),
    Size  |-> json.Size,
    Roots |-> GetOldRoots(json.Size),
    next  |-> GetNodeFromIndex(<< 0, json.Size >>) ]

-----------------------------------------------------------------------------
\* A square that is written and read back at any size goes on like the one that
\* was kept in memory: the nodes, the ghosts among them, their hashes and prefix
\* trees are the same, and so are the roots and the next leaf, which the size
\* alone determines; the leaf found for a full square is its last.  A rebuilt
\* prefix tree takes appends again although its node is complete, which makes
\* no difference, as no node above the next leaf is complete.
RestoredContinues ==
  /\ DeserializeMerkleSquare(Serialize) =
       [nodes |-> nodes, Size |-> Size, Roots |-> Roots, next |-> next]
  /\ next \in DOMAIN nodes
  /\ ~ IsFull => \A node \in Ancestors(next) \cup {next} : ~ nodes[node].completed
=============================================================================
