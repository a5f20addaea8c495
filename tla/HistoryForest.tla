---------------------------- MODULE HistoryForest ----------------------------
(***************************************************************************)
(* The forest over the finished versions of an aggregated-history base     *)
(* tree (core/history_forest.go, core/history_node.go), as a value: the    *)
(* nodes by their index, ghosts included, the roots from left to right,    *)
(* the ghost leaf that the next version completes, and the number of       *)
(* versions.  A hash is the term that was hashed.                          *)
(***************************************************************************)
EXTENDS ForestIndex, Sequences, SequencesExt

\* createLeafHistoryNode, createInternalHistoryNode and createRootHistoryNode
GhostNode == [hash |-> <<>>, newestLeafHash |-> <<>>, verificationPeriod |-> 0, completed |-> FALSE]

NewHistoryForest ==
  [ nodes |-> [ node \in LeftSpine(<< Depth, 0 >>) |-> GhostNode ],
    Roots |-> <<>>, next |-> << 0, 0 >>, Size |-> 0 ]

IsFull(forest) == forest.Size = 2 ^ Depth

\* LeafHistoryNode.completeLeaf()
CompletedLeaf(hash, period) ==
  [hash |-> hash, newestLeafHash |-> hash, verificationPeriod |-> period, completed |-> TRUE]

\* Slip: a tree is known by its oldest version.
CompletedOldest(left, right) == [left EXCEPT !.hash = << left.hash, right.hash >>]

\* InternalHistoryNode.complete(): a tree is known by its newest version.
Completed(left, right) == [right EXCEPT !.hash = << left.hash, right.hash >>]

WithNode(nodes, p, node) == [q \in DOMAIN nodes \cup {p} |-> IF q = p THEN node ELSE nodes[q]]

\* One round of Append's loop: the tree above the right child p is complete and
\* the root of its left half no longer one.
CompleteAbove(s) ==
  LET p == Parent(s.p)
  IN  IF ~ IsRightChild(s.p) THEN s
      ELSE [ p     |-> p,
             nodes |-> WithNode(s.nodes, p, Completed(s.nodes[LeftChild(p)], s.nodes[RightChild(p)])),
             Roots |-> Front(s.Roots) ]

\* createRightChild of p's parent, and createLeftChild from there down to a leaf.
WithGhostNodes(nodes, p) ==
  LET spine == LeftSpine(RightChild(Parent(p)))
  IN  [q \in DOMAIN nodes \cup spine |-> IF q \in DOMAIN nodes THEN nodes[q] ELSE GhostNode]

LeafAfter(p) == CHOOSE leaf \in LeftSpine(RightChild(Parent(p))) : DepthOf(leaf) = 0

\* Append's loop after the next leaf has been completed.
CompleteFrom(forest, leaf) ==
  LET round[n \in Nat] ==
        IF n = 0 THEN [ p     |-> forest.next,
                        nodes |-> WithNode(forest.nodes, forest.next, leaf),
                        Roots |-> forest.Roots ]
        ELSE CompleteAbove(round[n - 1])
  IN  round

\* HistoryForest.Append; a full forest stays as it is.
ForestAppend(forest, hash, period) ==
  LET end == CompleteFrom(forest, CompletedLeaf(hash, period))[Depth]
      new == [forest EXCEPT !.nodes = end.nodes, !.Roots = Append(end.Roots, end.p), !.Size = @ + 1]
  IN  CASE IsFull(forest)                      -> forest
        [] ~ IsFull(forest) /\ IsFull(new)      -> new
        [] ~ IsFull(forest) /\ ~ IsFull(new) ->
             [new EXCEPT !.nodes = WithGhostNodes(@, end.p), !.next = LeafAfter(end.p)]

-----------------------------------------------------------------------------
\* The node at an index, found from the root.
GetNode(forest, index) == forest.nodes[GetNodeFromIndex(index)]

\* The roots when the forest had the given size.
GetOldRootNodes(forest, size) == [ i \in DOMAIN GetOldRoots(size) |-> GetNode(forest, GetOldRoots(size)[i]) ]

\* The roots as GetDigest and GetOldDigest find them.
CurrentHashes(forest) == [ i \in DOMAIN forest.Roots |-> forest.nodes[forest.Roots[i]].hash ]

OldHashes(forest, size) ==
  LET roots == GetOldRootNodes(forest, size)
  IN  [ i \in DOMAIN roots |-> roots[i].hash ]
=============================================================================
