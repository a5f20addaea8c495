------------------------------- MODULE Verdicts -------------------------------
(***************************************************************************)
(* What becomes of a proof that an honest MerkleSquare server makes, told  *)
(* from positions alone: own are the positions of the user's entries in    *)
(* the log, size is that of the digest the proof is for.                   *)
(* MerkleSquareClients checks these verdicts against the proofs.           *)
(***************************************************************************)
EXTENDS ForestIndex, SequencesExt

NumRoots(size) == Cardinality(Ones(size))

\* Roots are counted from 0, as by GetRootIndex.
Under(i, size) ==
  LET depth == RootDepth(i, size)
  IN  ShiftOf(size, depth) * 2 ^ depth .. (ShiftOf(size, depth) + 1) * 2 ^ depth - 1

Has(own, i, size) == own \cap Under(i, size) # {}

\* Only the last root can be a leaf.
InternalRootsOf(size) == { i \in 0 .. NumRoots(size) - 1 : RootDepth(i, size) > 0 }

\* generateMembershipProof returns nil for a key that its tree does not have, and
\* generateNonMembershipProof for one that it has; ProveFirst and ProveLatest
\* dereference both.
FirstPanics(own, pos, size) ==
  LET index == GetRootIndex(pos, size)
  IN  \E i \in InternalRootsOf(size) :
        (i < index /\ Has(own, i, size)) \/ (i = index /\ ~ Has(own, i, size))

LatestPanics(own, pos, size) ==
  LET index == GetRootIndex(pos, size)
  IN  \E i \in InternalRootsOf(size) :
        (i > index /\ Has(own, i, size)) \/ (i = index /\ ~ Has(own, i, size))

\* For a position past the last tree the client's GetOldDepth does not return.
Hangs(pos, size) == GetRootIndex(pos, size) = NumRoots(size)

InOwnTree(pos, size) == pos \in Under(GetRootIndex(pos, size), size)

\* A client's VerifyMKProof of what ProveFirst returned.
MKVerdict(pos, size) ==
  IF Hangs(pos, size) THEN "hangs"
  ELSE IF InOwnTree(pos, size) THEN "accepts" ELSE "rejects"

\* VerifyPKProof of what ProveLatest returned.
PKVerdict(own, pos, size) ==
  LET index == GetRootIndex(pos, size)
      last  == NumRoots(size) - 1
  IN  IF Hangs(pos, size) THEN "hangs"
      ELSE IF InOwnTree(pos, size) /\ (last > index => ~ Has(own, last, size))
           THEN "accepts" ELSE "rejects"

\* VerifyExistenceProof of what GenerateExistenceProof returned for the node at the
\* given height above pos.  The path to the root goes through prefix trees in which
\* the client must know all of the user's entries.
ExistenceProven(own, known, pos, height, size) ==
  \/ height = GetOldDepth(pos, size)
  \/ own \cap Under(GetRootIndex(pos, size), size) \subseteq known

\* VerifyExtensionProof of what GenerateExtensionProof returned for oldSize and target,
\* against the digest of another size.  The trees that the old digest has in common
\* with the new one need no proof; to the others leads the path from the last old
\* root, which the proof has up to the root of its own target.
ExtensionVerdict(oldSize, size, target) ==
  LET old == ToSet(GetOldRoots(oldSize))
      Reaches(s) == GetOldDepth(oldSize - 1, s)
  IN  IF old \subseteq ToSet(GetOldRoots(size)) THEN "accepts"
      ELSE IF old \subseteq ToSet(GetOldRoots(target)) \/ Reaches(target) < Reaches(size)
           THEN "panics" ELSE "accepts"
=============================================================================
