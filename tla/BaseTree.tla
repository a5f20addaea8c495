------------------------------ MODULE BaseTree ------------------------------
(***************************************************************************)
(* The life of one persistent prefix tree: inserts and epoch changes in    *)
(* any order, with as history variable the inserts the caller made.        *)
(***************************************************************************)
EXTENDS PersistentPrefixTree, FiniteSets

CONSTANTS
  Keys,         (* The hashed identifiers: bit sequences of one length.    *)
  MaxInserts,   (* Bound on the number of inserts.                         *)
  MaxEpoch      (* Bound on the tree's epoch.                              *)

ASSUME KeysAssumption ==
  /\ Keys # {}
  /\ \A key \in Keys : /\ key \in Seq({0, 1}) \ { <<>> }
                      /\ \A other \in Keys : Len(other) = Len(key)

ASSUME BoundsAssumption == MaxInserts \in Nat /\ MaxEpoch \in Nat

VARIABLES
  tree,
  inserted      (* The inserts so far: [key, epoch]; the i-th inserts i.   *)

vars == << tree, inserted >>

Init ==
  /\ tree = NewPersistentPrefixTree
  /\ inserted = <<>>

InsertKey(key) ==
  /\ Len(inserted) < MaxInserts
  /\ tree' = Insert(tree, key, Len(inserted) + 1)
  /\ inserted' = Append(inserted, [key |-> key, epoch |-> tree.currEpoch])

FinishEpoch ==
  /\ tree.currEpoch < MaxEpoch
  /\ tree' = NextEpoch(tree)
  /\ UNCHANGED inserted

Next ==
  \/ \E key \in Keys : InsertKey(key)
  \/ FinishEpoch

Spec == Init /\ [][Next]_vars

-----------------------------------------------------------------------------
Epochs == 0 .. tree.currEpoch

KeyBits == Len(CHOOSE key \in Keys : TRUE)

\* A tree is sound if every stored hash of its current version is the hash of
\* what the node holds and every child's parent pointer leads back to its parent.
Sound(t) ==
  LET heap == t.heap
      root == t.currRoot
  IN  /\ heap[root].next = Nil
      /\ \A node \in Version(t, t.currEpoch, KeyBits) :
           /\ \/ heap[node].hash = ComputedHash(heap, node)
              \/ node = root /\ heap[node].hash = NilHash
           /\ \A bit \in {0, 1} :
                Child(heap, node, bit) # Nil => heap[Child(heap, node, bit)].parent = node

\* The values inserted under key up to an epoch, in the order of the inserts.
Given(key, epoch) ==
  SelectSeq([i \in DOMAIN inserted |-> i],
            LAMBDA i : inserted[i].key = key /\ inserted[i].epoch <= epoch)

-----------------------------------------------------------------------------
\* The tree is persistent: an insert, which edits older nodes in place where
\* their epoch allows it, changes neither the root hash nor the leaf values
\* that a lookup at a finished epoch finds.  Digests, the hash chain and every
\* proof are computed from finished epochs and rest on this.
FinishedEpochsFrozen ==
  [][\A epoch \in 0 .. tree.currEpoch - 1 :
       /\ GetHash(tree', epoch) = GetHash(tree, epoch)
       /\ \A key \in Keys : ValuesAt(tree', key, epoch) = ValuesAt(tree, key, epoch)]_vars

\* The assertions of the lookups hold, which would panic otherwise: no lookup
\* meets a node newer than the epoch it looks at, and by path compression only a
\* root has exactly one child, in every version; nor is any path label empty.
ProofsNeverPanic ==
  \A epoch \in Epochs : \A node \in Version(tree, epoch, KeyBits) :
    /\ tree.heap[node].epoch <= epoch
    /\ node # RootAtEpoch(tree, epoch) =>
         /\ (tree.heap[node].leftChild = Nil) = (tree.heap[node].rightChild = Nil)
         /\ tree.heap[node].prefix # <<>>

\* What the server proves from a sound tree, a client accepts: the membership
\* proof of every present key and the non-membership proof of every absent one
\* lead to the root hash that the digest carries.
SoundTreeProofsVerify ==
  Sound(tree) /\ GetHash(tree, tree.currEpoch) # NilHash =>
    \A key \in Keys :
      GetHash(tree, tree.currEpoch) =
        IF GetLeaf(tree, key, tree.currEpoch) # Nil
        THEN MembershipRoot(tree, key, tree.currEpoch)
        ELSE NonMembershipRoot(tree, key, tree.currEpoch)

\* Every membership proof verifies against its root, in every tree the tests'
\* calls (Insert and NextEpoch) can build.
MembershipProofsVerify ==
  \A key \in Keys :
    GetLeaf(tree, key, tree.currEpoch) # Nil =>
      MembershipRoot(tree, key, tree.currEpoch) = GetHash(tree, tree.currEpoch)
=============================================================================
