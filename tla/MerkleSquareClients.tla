------------------------ MODULE MerkleSquareClients ------------------------
(***************************************************************************)
(* The proofs a MerkleSquare server makes for a size its tree has had, and *)
(* their verification against a digest of that size (core/merkle.go).      *)
(*                                                                         *)
(* The two child hashes of a root are kept with the prefix proof of that   *)
(* root; the code lists them in ChildHashes in the same order.             *)
(***************************************************************************)
EXTENDS MerkleSquare, Verdicts

\* Lists of KeyHash are sorted by position.
FilterOutKeyHash(hashes, positions) == SelectSeq(hashes, LAMBDA h : h.pos \notin positions)

AddKeyHash(hashes, new) ==
  SelectSeq(hashes, LAMBDA h : h.pos <= new.pos) \o << new >>
    \o SelectSeq(hashes, LAMBDA h : h.pos > new.pos)

CombineKeyHashes(hashes, others) ==
  SortSeq(hashes \o others, LAMBDA g, h : g.pos < h.pos)

\* range is << left, right >>.
ComputeMemberKeys(hashes, range) ==
  SelectSeq(hashes, LAMBDA h : range[1] <= h.pos /\ h.pos <= range[2])

-----------------------------------------------------------------------------
(* Existence of an entry, or of the node at some height above it.          *)

GenerateExistenceProof(key, pos, height, size) ==
  [ i \in 1 .. GetOldDepth(pos, size) - height |->
      LET node == Above(<< 0, pos >>, height + i - 1)
      IN  [ Sibling     |-> nodes[Sibling(node)].hash,
            PrefixProof |-> MembershipProof(nodes[Parent(node)].prefixTree, key) ] ]

CalculateLeftRightRange(shift, height) ==
  IF height = 0 THEN << shift - (shift % 2), shift - (shift % 2) + 1 >>
  ELSE << shift * 2 ^ height, (shift + 1) * 2 ^ height - 1 >>

FirstRange(shift, height) ==
  IF height = 0 THEN CalculateLeftRightRange(shift, height)
  ELSE CalculateLeftRightRange(shift \div 2, height + 1)

\* Slip: the sibling is always taken to be on the right.
WidenedRight(range, shift, size) == << range[1], 2 * range[2] - range[1] + 1 >>

\* The keys under the parent, of which the node with this shift is one child.
Widened(range, shift, size) ==
  LET diff == range[2] - range[1] + 1
  IN  CASE shift % 2 = 1 /\ range[1] # 0 -> << range[1] - diff, range[2] >>
        [] ~ (shift % 2 = 1 /\ range[1] # 0) /\ range[2] # size - 1 -> << range[1], range[2] + diff >>
        [] OTHER -> range

JoinedHash(hash, sibling, shift, prefixHash) ==
  IF shift % 2 = 1 THEN InternalHash(sibling, hash, prefixHash)
  ELSE InternalHash(hash, sibling, prefixHash)

ExistenceStep(s, step, key, oldKeys, size) ==
  [ hash  |-> JoinedHash(s.hash, step.Sibling, s.shift,
                RootHashMembership(key, step.PrefixProof, ComputeMemberKeys(oldKeys, s.range))),
    shift |-> s.shift \div 2,
    range |-> Widened(s.range, s.shift \div 2, size) ]

VerifyExistenceProof(oldDigest, nodeHash, key, pos, height, proof, oldKeys) ==
  LET start == [ hash  |-> nodeHash,
                 shift |-> pos \div 2 ^ height,
                 range |-> FirstRange(pos \div 2 ^ height, height) ]
  IN  FoldLeft(LAMBDA s, step : ExistenceStep(s, step, key, oldKeys, oldDigest.Size), start, proof).hash
        = oldDigest.Roots[GetRootIndex(pos, oldDigest.Size) + 1]

-----------------------------------------------------------------------------
(* Extension of an older digest.                                           *)

FirstDifference(old, new) ==
  { i \in DOMAIN old : (\A j \in 1 .. i - 1 : old[j] = new[j]) /\ old[i] # new[i] }

NoExtensionProof == [Siblings |-> <<>>, PrefixHashes |-> <<>>]

\* path leads from the last old root to a child of the new root above it.
ExtensionAlong(path) ==
  [ Siblings     |-> LET lefts == SelectSeq(path, LAMBDA node : ~ IsRightChild(node))
                     IN  [ i \in DOMAIN lefts |-> nodes[Sibling(lefts[i])].hash ],
    PrefixHashes |-> [ i \in DOMAIN path |-> PrefixHash(nodes[Parent(path[i])].prefixTree) ] ]

ExtensionFrom(node, depth) ==
  ExtensionAlong([ i \in 1 .. depth - DepthOf(node) |-> Above(node, DepthOf(node) + i - 1) ])

GenerateExtensionProof(oldSize, requestedSize) ==
  LET roots == GetOldRoots(requestedSize)
      old   == GetOldRoots(oldSize)
      first == FirstDifference(HashesOf(old), HashesOf(roots))
  IN  IF first = {} THEN NoExtensionProof
      ELSE ExtensionFrom(Last(old), DepthOf(roots[CHOOSE i \in first : TRUE]))

\* Slip: the old roots on the left are joined from the first to the last.
ExtensionStepFromFirst(s, isRight) ==
  IF isRight
  THEN [ s EXCEPT !.hash = InternalHash(Head(s.lefts), @, Head(s.prefixHashes)),
                  !.lefts = Tail(@), !.prefixHashes = Tail(@) ]
  ELSE [ s EXCEPT !.hash = InternalHash(@, Head(s.siblings), Head(s.prefixHashes)),
                  !.siblings = Tail(@), !.prefixHashes = Tail(@) ]

\* lefts are the old roots not yet joined, hash is that of the tree so far.
ExtensionStep(s, isRight) ==
  IF isRight
  THEN [ s EXCEPT !.hash = InternalHash(Last(s.lefts), @, Head(s.prefixHashes)),
                  !.lefts = Front(@), !.prefixHashes = Tail(@) ]
  ELSE [ s EXCEPT !.hash = InternalHash(@, Head(s.siblings), Head(s.prefixHashes)),
                  !.siblings = Tail(@), !.prefixHashes = Tail(@) ]

ExtendedHash(oldDigest, proof, depths) ==
  FoldLeft(LAMBDA s, depth : ExtensionStep(s, Bit(oldDigest.Size - 1, depth) = 1),
           [ hash |-> Last(oldDigest.Roots), lefts |-> Front(oldDigest.Roots),
             siblings |-> proof.Siblings, prefixHashes |-> proof.PrefixHashes ],
           depths).hash

VerifyExtensionProof(oldDigest, newDigest, proof) ==
  \A i \in FirstDifference(oldDigest.Roots, newDigest.Roots) :
    LET last == oldDigest.Size - 1
        low  == GetOldDepth(last, oldDigest.Size)
    IN  newDigest.Roots[i] =
          ExtendedHash(oldDigest, proof,
                       [ j \in 1 .. GetOldDepth(last, newDigest.Size) - low |-> low + j - 1 ])

-----------------------------------------------------------------------------
(* Prefix proofs of whole trees of the forest.                             *)

IsLeaf(root) == DepthOf(root) = 0

InternalRoots(roots) == SelectSeq(roots, LAMBDA root : ~ IsLeaf(root))

PrefixOf(root) == nodes[root].hash[2]
ContentOf(root) == nodes[root].hash[3]

RootProof(root, tree) ==
  [left |-> nodes[LeftChild(root)].hash, right |-> nodes[RightChild(root)].hash, tree |-> tree]

NoProof == [left |-> NilHash, right |-> NilHash, tree |-> <<>>]

NonMembershipProofs(roots) ==
  [ i \in DOMAIN roots |-> RootProof(roots[i], nodes[roots[i]].prefixTree) ]

VerifySingularMembershipProof(rootHash, proof, key, hashes) ==
  rootHash = InternalHash(proof.left, proof.right, RootHashMembership(key, proof.tree, hashes))

VerifySingularNonMembershipProof(rootHash, proof, key) ==
  rootHash = InternalHash(proof.left, proof.right, RootHashNonMembership(key, proof.tree))

RootOf(pos, size) == GetOldRoots(size)[GetRootIndex(pos, size) + 1]
RootsBefore(pos, size) == SubSeq(GetOldRoots(size), 1, GetRootIndex(pos, size))
RootsAfter(pos, size) ==
  SubSeq(GetOldRoots(size), GetRootIndex(pos, size) + 2, Cardinality(Ones(size)))

NoLeafHash == [Prefix |-> NilHash, NodeContentHash |-> NilHash]

LeafHashIn(roots) ==
  IF roots # <<>> /\ IsLeaf(Last(roots))
  THEN [Prefix |-> PrefixOf(Last(roots)), NodeContentHash |-> ContentOf(Last(roots))]
  ELSE NoLeafHash

\* The part of a lookup proof that is about the tree that pos belongs to.
OwnTreeProof(key, pos, root) ==
  IF IsLeaf(root)
  THEN [MembershipProof |-> NoProof, OtherHashes |-> <<>>]
  ELSE [ MembershipProof |-> RootProof(root, MembershipProof(nodes[root].prefixTree, key)),
         OtherHashes     |-> FilterOutKeyHash(Values(nodes[root].prefixTree, key), {pos}) ]
\* For a key that none of the other trees the proof goes through has; a missing
\* non-membership proof is a nil dereference in the code.
ProveFirst(key, pos, size) ==
  [ OwnTree             |-> OwnTreeProof(key, pos, RootOf(pos, size)),
    NonMembershipProofs |-> NonMembershipProofs(RootsBefore(pos, size)),
    LeafHash            |-> [ LeafHashIn(<< RootOf(pos, size) >>) EXCEPT !.Prefix = NilHash ] ]

ProveLatest(key, pos, size) ==
  [ OwnTree             |-> OwnTreeProof(key, pos, RootOf(pos, size)),
    NonMembershipProofs |-> NonMembershipProofs(InternalRoots(RootsAfter(pos, size))),
    LeafHash            |-> LeafHashIn(RootsAfter(pos, size)) ]

VerifyOwnTree(digest, key, pos, own) ==
  VerifySingularMembershipProof(digest.Roots[GetRootIndex(pos, digest.Size) + 1],
    own.MembershipProof, key, AddKeyHash(own.OtherHashes, KeyHash(key, pos)))

VerifyMKProof(digest, key, pos, proof) ==
  LET rootIndex == GetRootIndex(pos, digest.Size)
  IN  /\ Len(proof.NonMembershipProofs) = rootIndex
      /\ \A i \in 1 .. rootIndex :
           VerifySingularNonMembershipProof(digest.Roots[i], proof.NonMembershipProofs[i], key)
      /\ IF GetOldDepth(pos, digest.Size) = 0
         THEN digest.Roots[rootIndex + 1] = LeafNodeHash(key, proof.LeafHash.NodeContentHash)
         ELSE VerifyOwnTree(digest, key, pos, proof.OwnTree)

EndsInLeaf(digest) == GetOldDepth(digest.Size - 1, digest.Size) = 0

\* Slip: the key of the last leaf is not compared.
VerifyAnyLeaf(rootHash, key, leaf) ==
  rootHash = LeafNodeHash(leaf.Prefix, leaf.NodeContentHash)

\* The last root of the digest is a leaf, of another key.
VerifyOtherLeaf(rootHash, key, leaf) ==
  rootHash = LeafNodeHash(leaf.Prefix, leaf.NodeContentHash) /\ leaf.Prefix # key

VerifyPKProof(digest, key, pos, proof) ==
  LET rootIndex == GetRootIndex(pos, digest.Size)
  IN  IF GetOldDepth(pos, digest.Size) = 0
      THEN digest.Roots[rootIndex + 1] = LeafNodeHash(key, ContentHash(key, pos))
      ELSE /\ VerifyOwnTree(digest, key, pos, proof.OwnTree)
           /\ Len(proof.NonMembershipProofs) >= Len(digest.Roots) - rootIndex - 2
           /\ \A i \in rootIndex + 2 .. Len(digest.Roots) :
                IF i = Len(digest.Roots) /\ EndsInLeaf(digest)
                THEN VerifyOtherLeaf(digest.Roots[i], key, proof.LeafHash)
                ELSE VerifySingularNonMembershipProof(digest.Roots[i],
                       proof.NonMembershipProofs[i - rootIndex - 1], key)

ProveNonexistence(mskPos, currSize) ==
  [ NonMembershipProofs |-> NonMembershipProofs(InternalRoots(GetOldRoots(mskPos))),
    LeafHash            |-> LeafHashIn(GetOldRoots(mskPos)),
    ExtensionProof      |-> GenerateExtensionProof(mskPos, currSize) ]

\* The root hashes that the client computes for the old digest.
OldRootHashes(key, proof, endsInLeaf) ==
  LET proofs == proof.NonMembershipProofs
  IN  [ i \in DOMAIN proofs |->
          InternalHash(proofs[i].left, proofs[i].right, RootHashNonMembership(key, proofs[i].tree)) ]
      \o IF endsInLeaf
         THEN << LeafNodeHash(proof.LeafHash.Prefix, proof.LeafHash.NodeContentHash) >>
         ELSE <<>>

VerifyNonexistenceProof(key, mskPos, newDigest, proof) ==
  LET endsInLeaf == mskPos # 0 /\ GetOldDepth(mskPos - 1, mskPos) = 0
  IN  /\ endsInLeaf => proof.LeafHash.Prefix # key
      /\ VerifyExtensionProof([Roots |-> OldRootHashes(key, proof, endsInLeaf), Size |-> mskPos],
                              newDigest, proof.ExtensionProof)

-----------------------------------------------------------------------------
(* Lookups of a key at several positions at once: keyPositions are pairs of *)
(* positions between which the key must not occur.                         *)

BatchedRootProof(root, key) ==
  IF key \in DOMAIN nodes[root].prefixTree
  THEN RootProof(root, MembershipProof(nodes[root].prefixTree, key))
  ELSE RootProof(root, nodes[root].prefixTree)

HashesUnder(root, key) ==
  IF ~ IsLeaf(root) THEN Values(nodes[root].prefixTree, key)
  ELSE IF PrefixOf(root) = key THEN << KeyHash(key, root[2]) >> ELSE <<>>

GenerateBatchedLookupProof(startSize, endSize, key, keyPositions) ==
  LET roots    == << RootOf(startSize, endSize) >> \o RootsAfter(startSize, endSize)
      internal == InternalRoots(roots)
      leaf     == LeafHashIn(roots)
  IN  [ RootProofs      |-> [ i \in DOMAIN internal |-> BatchedRootProof(internal[i], key) ],
        MemProofIndeces |-> { i \in DOMAIN internal : key \in DOMAIN nodes[internal[i]].prefixTree },
        OtherHashes     |-> FlattenSeq([ i \in DOMAIN roots |->
                              FilterOutKeyHash(HashesUnder(roots[i], key), keyPositions) ]),
        LeafHash        |-> IF leaf.Prefix = key THEN NoLeafHash ELSE leaf ]

\* Slip: the ends of one pair and the start of the next are taken for a pair.
CheckNeighbours(lookupHashes, otherHashes) ==
  \A i \in 1 .. Len(lookupHashes) - 1, j \in DOMAIN otherHashes :
    ~ (lookupHashes[i].pos <= otherHashes[j].pos /\ otherHashes[j].pos < lookupHashes[i + 1].pos)

\* No other hash lies between the two of a pair, the first one included.
CheckKeyHashes(lookupHashes, otherHashes) ==
  \A i \in 1 .. Len(lookupHashes) - 1 :
    i % 2 = 1 => \A j \in DOMAIN otherHashes :
      ~ (lookupHashes[i].pos <= otherHashes[j].pos /\ otherHashes[j].pos < lookupHashes[i + 1].pos)

GetRootRange(rootIndex, size) ==
  LET width == 2 ^ RootDepth(rootIndex, size)
      end   == width * (size \div width)
  IN  << end - width, end - 1 >>

VerifyBatchedLeaf(rootHash, key, keyHashes, leaf) ==
  IF leaf.NodeContentHash # NilHash THEN VerifyOtherLeaf(rootHash, key, leaf)
  ELSE rootHash = LeafNodeHash(key, Last(keyHashes).hash)

VerifyBatchedRoot(j, digest, key, keyHashes, proof, i) ==
  IF i \in proof.MemProofIndeces
  THEN VerifySingularMembershipProof(digest.Roots[j + 1], proof.RootProofs[i], key,
         ComputeMemberKeys(keyHashes, GetRootRange(j, digest.Size)))
  ELSE VerifySingularNonMembershipProof(digest.Roots[j + 1], proof.RootProofs[i], key)

VerifyBatchedRoots(nextRoot, digest, key, keyHashes, proof) ==
  \A j \in nextRoot .. Len(digest.Roots) - 1 :
    IF j = Len(digest.Roots) - 1 /\ EndsInLeaf(digest)
    THEN VerifyBatchedLeaf(digest.Roots[j + 1], key, keyHashes, proof.LeafHash)
    ELSE VerifyBatchedRoot(j, digest, key, keyHashes, proof, j - nextRoot + 1)

VerifyBatchedLookupProof(startSize, key, keyHashes, digest, proof) ==
  /\ CheckKeyHashes(keyHashes, proof.OtherHashes)
  /\ VerifyBatchedRoots(GetRootIndex(startSize, digest.Size), digest, key,
                        CombineKeyHashes(keyHashes, proof.OtherHashes), proof)

-----------------------------------------------------------------------------
Occurrences(key, size) == { pos \in 0 .. size - 1 : log[pos + 1] = key }

HashesAt(key, positions) ==
  SelectSeq([ i \in 1 .. Size |-> KeyHash(key, i - 1) ], LAMBDA h : h.pos \in positions)

SameTree(pos, size) ==
  { p \in 0 .. size - 1 : GetRootIndex(p, size) = GetRootIndex(pos, size) }
LaterTrees(pos, size) ==
  { p \in 0 .. size - 1 : GetRootIndex(p, size) > GetRootIndex(pos, size) }
EarlierTrees(pos, size) == (0 .. size - 1) \ (SameTree(pos, size) \cup LaterTrees(pos, size))

\* An owner that asks for an entry of its own, or for a node above one, can verify
\* the answer against any digest since, if and only if it knows all the entries
\* the tree of the digest holds under its key: an entry the owner does not know
\* of is never missed, whatever the position, the height and the size.  Those it
\* knows of that came later do not matter.
ExistenceProofsExact ==
  \A size \in 1 .. Size : \A pos \in 0 .. size - 1 : \A height \in 0 .. GetOldDepth(pos, size) :
    LET key   == log[pos + 1]
        own   == Occurrences(key, Size)
        proof == GenerateExistenceProof(key, pos, height, size)
        Accepts(known) ==
          VerifyExistenceProof(GetOldDigest(size), nodes[Above(<< 0, pos >>, height)].hash,
                               key, pos, height, proof, HashesAt(key, known))
    IN  /\ Accepts(own)
        /\ \A missing \in own :
             Accepts(own \ {missing}) <=> ExistenceProven(own, own \ {missing}, pos, height, size)

\* An auditor's older digest is accepted as extended by a newer one, with the
\* proof a server makes for the two sizes, if and only if it is the digest of a
\* prefix of the log: one of any other log of that size is refused.  A proof made for
\* another new size will do, as long as its path is not too short.
ExtensionProofsExact ==
  /\ \A oldSize \in 0 .. Size : \A size \in oldSize .. Size, target \in oldSize .. Size :
       /\ size = target => ExtensionVerdict(oldSize, size, target) = "accepts"
       /\ ExtensionVerdict(oldSize, size, target) = "accepts" =>
            VerifyExtensionProof(GetOldDigest(oldSize), GetOldDigest(size),
                                 GenerateExtensionProof(oldSize, target))
  /\ \A oldSize \in 1 .. Size :
       LET proof == GenerateExtensionProof(oldSize, Size)
       IN  \A other \in [1 .. oldSize -> Keys] :
             VerifyExtensionProof(DigestOf(other), GetDigest, proof)
               <=> other = SubSeq(log, 1, oldSize)

\* A key proven to be first, or latest, is in the log where it is said to be, and
\* in no earlier, or later, tree of the forest; one proven not to exist is not in
\* the log at all. This also holds for a proof made for another position of the
\* tree or for another key.  A server that can make a proof makes one that verifies,
\* unless a later key is in a last tree that is a leaf.
LookupProofsExact ==
  \A size \in 1 .. Size :
    /\ \A pos \in 0 .. size - 1, p \in 0 .. size - 1, key \in Keys :
         LET other == log[p + 1]
             first  == ProveFirst(other, p, size)
             latest == ProveLatest(other, p, size)
             own    == Occurrences(other, Size)
             same   == p = pos /\ key = other
             entry  == log[pos + 1] = key
         IN  p \in SameTree(pos, size) =>
               /\ ~ FirstPanics(own, p, size) =>
                    /\ same => (VerifyMKProof(GetOldDigest(size), key, pos, first)
                                  <=> MKVerdict(pos, size) = "accepts")
                    /\ VerifyMKProof(GetOldDigest(size), key, pos, first) =>
                         entry /\ \A q \in EarlierTrees(pos, size) : log[q + 1] # key
               /\ ~ LatestPanics(own, p, size) =>
                    /\ same => (VerifyPKProof(GetOldDigest(size), key, pos, latest)
                                  <=> PKVerdict(own, pos, size) = "accepts")
                    /\ VerifyPKProof(GetOldDigest(size), key, pos, latest) =>
                         entry /\ \A q \in LaterTrees(pos, size) : log[q + 1] # key
    /\ \A mskPos \in 0 .. size, key \in Keys :
         VerifyNonexistenceProof(key, mskPos, GetOldDigest(size), ProveNonexistence(mskPos, size))
           <=> Occurrences(key, mskPos) = {}

\* A client that looks a key up at several positions and knows the entries there
\* accepts the answer if and only if no entry in the trees from startSize on lies
\* between the two of a pair.
BatchedLookupsExact ==
  \A startSize \in 0 .. Size - 1, key \in Keys :
    LET own == Occurrences(key, Size)
        seen == SameTree(startSize, Size) \cup LaterTrees(startSize, Size)
        Hidden(known, hashes, i) ==
          \E pos \in (own \cap seen) \ known : hashes[i].pos < pos /\ pos < hashes[i + 1].pos
    IN  \A known \in SUBSET own :
          VerifyBatchedLookupProof(startSize, key, HashesAt(key, known), GetDigest,
              GenerateBatchedLookupProof(startSize, Size, key, known))
            <=> \A i \in 1 .. Cardinality(known) - 1 :
                  i % 2 = 1 => ~ Hidden(known, HashesAt(key, known), i)
=============================================================================
