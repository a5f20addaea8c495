----------------------------- MODULE ForestIndex -----------------------------
(***************************************************************************)
(* The indices of nodes, << depth, shift >>, in the forests of complete    *)
(* trees that MerkleSquare (core/merkle.go) and HistoryForest              *)
(* (core/history_forest.go) grow; which trees a forest of a given size     *)
(* consists of, and which of them a position is in.  The bit operations of *)
(* the code are stated over the powers of two in the size.                 *)
(***************************************************************************)
EXTENDS Integers, FiniteSetsExt

CONSTANT Depth  (* The depth of the root: 2^Depth entries are the maximum. *)

ASSUME DepthAssumption == Depth \in Nat \ {0}

\* What the powers of two are, as far as they are used: a proof has to be told.
ASSUME PowersAssumption ==
  /\ 2 ^ 0 = 1
  /\ \A n \in 0 .. Depth : 2 ^ n \in Nat \ {0} /\ 2 ^ (n + 1) = 2 * 2 ^ n

DepthOf(node) == node[1]
Parent(node) == << node[1] + 1, node[2] \div 2 >>
LeftChild(node) == << node[1] - 1, 2 * node[2] >>
RightChild(node) == << node[1] - 1, 2 * node[2] + 1 >>

\* isRight, which the root of the whole tree does not have.
IsRightChild(node) == node[2] % 2 = 1 /\ DepthOf(node) # Depth

Sibling(node) == IF IsRightChild(node) THEN LeftChild(Parent(node)) ELSE RightChild(Parent(node))

\* The nodes on the left edge of the subtree under node, node included.
LeftSpine(node) == { << d, node[2] * 2 ^ (DepthOf(node) - d) >> : d \in 0 .. DepthOf(node) }

Above(node, depth) == << depth, node[2] \div 2 ^ (depth - DepthOf(node)) >>

\* index2 is under the right child of index1, or further right.
IsRightOf(index1, index2) ==
  LET width == 2 ^ (index1[1] - index2[1])
  IN  index2[2] >= width * index1[2] + width \div 2

\* The node that the way down from the root leads to.
GetNodeFromIndex(index) ==
  LET Down(node) == IF IsRightOf(node, index) THEN RightChild(node) ELSE LeftChild(node)
      at[n \in Nat] == IF n = 0 THEN << Depth, 0 >> ELSE Down(at[n - 1])
  IN  at[Depth - index[1]]

Bit(n, b) == (n \div 2 ^ b) % 2

Ones(n) == { b \in 0 .. Depth : Bit(n, b) = 1 }

\* The tree that pos belongs to in a forest of the given size, counted from 0.
\* The code asks for positions past the end, too, and gets the number of trees
\* or of those before the first in which pos and size differ.
GetRootIndex(pos, size) ==
  Cardinality({ b \in Ones(size) : \A c \in b .. Depth : Bit(pos, c) = Bit(size, c) })

RootDepth(rootIndex, size) ==
  CHOOSE b \in Ones(size) : Cardinality({ c \in Ones(size) : c > b }) = rootIndex

\* For GetRootIndex(pos, size) < the number of trees; the loop in the code does
\* not end otherwise.
GetOldDepth(pos, size) == RootDepth(GetRootIndex(pos, size), size)

\* Slip: a root's shift counts the keys from its own tree on.
ShiftAfter(size, depth) == size \div 2 ^ depth

ShiftOf(size, depth) == 2 * (size \div 2 ^ (depth + 1))

\* The roots, each << depth, shift >>.
GetOldRoots(size) ==
  [ i \in 1 .. Cardinality(Ones(size)) |->
      << RootDepth(i - 1, size), ShiftOf(size, RootDepth(i - 1, size)) >> ]
=============================================================================
