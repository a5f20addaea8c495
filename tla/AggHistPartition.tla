-------------------------- MODULE AggHistPartition --------------------------
(***************************************************************************)
(* The partition of a server configured with AggHistory                    *)
(* (core/partition_agghist.go), step by step beside the default one of     *)
(* Partition under the same calls of the same PartitionServer.             *)
(*                                                                         *)
(* Where Partition proves an identifier from one version of its base tree, *)
(* this one does so from one version per tree of a history forest over the *)
(* finished versions.  `p` is the code's receiver.  The field              *)
(* currVerifyPeriodUpdates is only written and left out.  Leaves do not    *)
(* have the update's position, but hashes over a signature that binds it:  *)
(* an update is its position here, too.                                    *)
(***************************************************************************)
EXTENDS Partition, HistoryForest

VARIABLES
  agg,              (* The partition.                                      *)
  aggDigest         (* PublishedDigest of its PartitionServer.             *)

aggVars == << vars, agg, aggDigest >>

NewAggHistPartition ==
  [ baseTree |-> NewPersistentPrefixTree, baseTreeForest |-> NewHistoryForest,
    queryUpdateLog |-> <<>>, queryUpdatePrefixTrees |-> <<>>,
    verifyUpdateLog |-> <<>>, verifyUpdatePrefixTrees |-> <<>>,
    currUpdatePeriodUpdates |-> <<>>, epoch |-> 0, verificationPeriod |-> 0 ]

AggAppend(p, update) ==
  [ p EXCEPT !.currUpdatePeriodUpdates = Append(@, update),
             !.baseTree = Insert(@, update.id, update.pos) ]

AggIncrementUpdateEpoch(p) ==
  LET tree  == PrefixTreeOf(p.currUpdatePeriodUpdates)
      entry == LogEntry(p.epoch + 1, tree)
  IN  [ p EXCEPT !.queryUpdatePrefixTrees = Append(@, tree),
                 !.verifyUpdatePrefixTrees = Append(@, tree),
                 !.currUpdatePeriodUpdates = <<>>,
                 !.epoch = @ + 1,
                 !.queryUpdateLog = Append(@, entry),
                 !.verifyUpdateLog = Append(@, entry) ]

\* Slip: a version enters the forest while it still takes inserts.
AggIncrementToLiveVersion(p) ==
  LET tree    == NextEpoch(p.baseTree)
      version == p.verificationPeriod + 1
  IN  [ p EXCEPT !.verificationPeriod = @ + 1,
                 !.baseTree = tree,
                 !.baseTreeForest = ForestAppend(@, GetHash(tree, version), version),
                 !.queryUpdateLog = p.verifyUpdateLog,
                 !.queryUpdatePrefixTrees = p.verifyUpdatePrefixTrees,
                 !.verifyUpdateLog = <<>>,
                 !.verifyUpdatePrefixTrees = <<>> ]

\* The version of two periods ago enters the forest.
AggIncrementVerificationPeriod(p) ==
  LET tree    == NextEpoch(p.baseTree)
      version == p.verificationPeriod + 1 - 2
  IN  [ p EXCEPT !.verificationPeriod = @ + 1,
                 !.baseTree = tree,
                 !.baseTreeForest = IF version < 0 THEN @
                                    ELSE ForestAppend(@, GetHash(tree, version), version),
                 !.queryUpdateLog = p.verifyUpdateLog,
                 !.queryUpdatePrefixTrees = p.verifyUpdatePrefixTrees,
                 !.verifyUpdateLog = <<>>,
                 !.verifyUpdatePrefixTrees = <<>> ]

RootsOf(p) ==
  [ i \in DOMAIN p.baseTreeForest.Roots |-> p.baseTreeForest.nodes[p.baseTreeForest.Roots[i]] ]

\* Slip: the roots are those of the forest's trees, not of their newest versions.
AggGetDigestOfTrees(p) ==
  [ BaseTreeRoots  |-> [ i \in DOMAIN RootsOf(p) |-> RootsOf(p)[i].hash ],
    UpdateLogRoot  |-> p.verifyUpdateLog,
    UpdateSetRoots |-> p.queryUpdatePrefixTrees \o p.verifyUpdatePrefixTrees ]

AggGetDigest(p) ==
  [ BaseTreeRoots  |-> [ i \in DOMAIN RootsOf(p) |-> RootsOf(p)[i].newestLeafHash ],
    UpdateLogRoot  |-> p.verifyUpdateLog,
    UpdateSetRoots |-> p.queryUpdatePrefixTrees \o p.verifyUpdatePrefixTrees ]

-----------------------------------------------------------------------------
AggInit ==
  /\ Init
  /\ agg = NewAggHistPartition
  /\ aggDigest = AggGetDigest(agg)

AggAppendUpdate(id) ==
  /\ AppendUpdate(id)
  /\ agg' = AggAppend(agg, NewUpdate(id))
  /\ UNCHANGED aggDigest

AggEndUpdateEpoch ==
  /\ IncrementUpdateEpoch
  /\ agg' = AggIncrementUpdateEpoch(agg)
  /\ aggDigest' = AggGetDigest(agg')

AggEndVerificationPeriod ==
  /\ IncrementVerificationPeriod
  /\ agg' = AggIncrementVerificationPeriod(agg)
  /\ aggDigest' = AggGetDigest(agg')

AggNext ==
  \/ \E id \in Ids : AggAppendUpdate(id)
  \/ AggEndUpdateEpoch
  \/ AggEndVerificationPeriod

AggSpec == AggInit /\ [][AggNext]_aggVars

-----------------------------------------------------------------------------
(* Lookups: GenerateExistenceProof, and AggHistVerifier's checks of it.    *)

\* The proof from one version: the leaf's values, if it has the identifier, and
\* the root that a client computes from the copath.
ProofAt(tree, id, version) ==
  LET exists == GetLeaf(tree, id, version) # Nil
  IN  [ exists |-> exists, values |-> ToSet(ValuesAt(tree, id, version)),
        root |-> IF exists THEN MembershipRoot(tree, id, version)
                 ELSE NonMembershipRoot(tree, id, version) ]

\* The proof from an update set: the set is its own root.
ProofIn(set, id) ==
  LET values == { u.pos : u \in { v \in set : v.id = id } }
  IN  [exists |-> values # {}, values |-> values, root |-> set]

AggGenerateExistenceProof(p, id) ==
  [ BaseTreeProofs  |-> [ i \in DOMAIN RootsOf(p) |->
                            ProofAt(p.baseTree, id, RootsOf(p)[i].verificationPeriod) ],
    UpdateLogProofs |-> [ i \in DOMAIN p.queryUpdatePrefixTrees |->
                            ProofIn(p.queryUpdatePrefixTrees[i], id) ] ]

Existing(proofs) == { i \in DOMAIN proofs : proofs[i].exists }

\* validateNonMembershipProof: the root of an empty tree is nil and proves any.
Disproves(proof, root, empty) == root = empty \/ proof.root = root

\* The loop over the base trees, which ValidatePKProof and its variant for
\* monitoring share: no version lacks what an earlier one has, and absence is proven.
BaseTreesAgree(proofs, roots) ==
  /\ \A i, j \in DOMAIN proofs : i < j /\ proofs[i].exists => proofs[j].exists
  /\ \A i \in DOMAIN proofs \ Existing(proofs) : Disproves(proofs[i], roots[i], NilHash)

\* validateExistenceProof
Proves(proof, root, value) == value \in proof.values /\ proof.root = root

ValidatePKProofMonitoring(digest, proof) ==
  /\ BaseTreesAgree(proof.BaseTreeProofs, digest.BaseTreeRoots)
  /\ Existing(proof.BaseTreeProofs) # {}

\* Slip: the first proof that has the identifier decides.
First(proofs) == Min(Existing(proofs))

Latest(proofs) == Max(Existing(proofs))

AggValidatePKProof(digest, proof, value) ==
  LET base == Existing(proof.BaseTreeProofs)
      sets == Existing(proof.UpdateLogProofs)
  IN  /\ BaseTreesAgree(proof.BaseTreeProofs, digest.BaseTreeRoots)
      /\ \A i \in DOMAIN proof.UpdateLogProofs \ sets :
           Disproves(proof.UpdateLogProofs[i], digest.UpdateSetRoots[i], {})
      /\ \/ /\ sets # {}
            /\ LET i == Latest(proof.UpdateLogProofs)
               IN  Proves(proof.UpdateLogProofs[i], digest.UpdateSetRoots[i], value)
         \/ /\ sets = {} /\ base # {}
            /\ LET i == Latest(proof.BaseTreeProofs)
               IN  Proves(proof.BaseTreeProofs[i], digest.BaseTreeRoots[i], value)

\* Slip: the base trees are not asked.
AggValidateMKProofOfSets(digest, proof, value) ==
  LET sets == proof.UpdateLogProofs
  IN  CASE sets = <<>> -> "rejects"
        [] sets # <<>> /\ ~ sets[1].exists -> "panics"
        [] OTHER -> IF Proves(sets[1], digest.UpdateSetRoots[1], value) /\ Len(sets) = 1
                    THEN "accepts" ELSE "rejects"

\* The sets are gone through up to one that lacks the identifier: for that,
\* validateNonExistenceProof is given a NonMembershipProof and dereferences the nil
\* MembershipProof beside it.  After the set that proves the value none may have it.
AggValidateMKProof(digest, proof, value) ==
  LET sets == proof.UpdateLogProofs
      InBaseTrees == \E i \in DOMAIN proof.BaseTreeProofs :
                       \/ proof.BaseTreeProofs[i].exists
                       \/ ~ Disproves(proof.BaseTreeProofs[i], digest.BaseTreeRoots[i], NilHash)
  IN  CASE InBaseTrees \/ sets = <<>> -> "rejects"
        [] ~ InBaseTrees /\ sets # <<>> /\ ~ sets[1].exists -> "panics"
        [] OTHER -> IF ~ Proves(sets[1], digest.UpdateSetRoots[1], value) THEN "rejects"
                    ELSE IF Len(sets) = 1 THEN "accepts"
                    ELSE IF sets[2].exists THEN "rejects" ELSE "panics"

-----------------------------------------------------------------------------
(* Properties.                                                             *)

\* The versions that have been given to the forest.
FinishedVersions == Max({agg.verificationPeriod - 1, 0})

Overflowed == FinishedVersions > 2 ^ Depth

\* However appends, update epochs and verification periods alternate, the digest
\* lines up with the proofs made under it: its i-th base tree root is that of the
\* version which the i-th base tree proof is made from, although later versions
\* were edited since, and the update sets of proofs are a prefix of its.
DigestFitsProofs ==
  /\ Len(aggDigest.BaseTreeRoots) = Len(RootsOf(agg))
  /\ \A i \in DOMAIN RootsOf(agg) :
       aggDigest.BaseTreeRoots[i] = GetHash(agg.baseTree, RootsOf(agg)[i].verificationPeriod)
  /\ IsPrefix(agg.queryUpdatePrefixTrees, aggDigest.UpdateSetRoots)
  /\ CurrentHashes(agg.baseTreeForest) = OldHashes(agg.baseTreeForest, agg.baseTreeForest.Size)

\* The updates in an update set that proofs cover, or given to the newest version
\* in the forest.  Version v began with period v + 2 of Partition.
AggProvable ==
  (UNION ToSet(agg.queryUpdatePrefixTrees))
    \cup IF RootsOf(agg) = <<>> THEN {}
         ELSE GivenToBaseTree(Last(RootsOf(agg)).verificationPeriod + 2)

\* Both kinds of partition can prove the same updates at any time, and so this one
\* forgets none either.  It ends when the forest is full: later versions are
\* dropped without an error.
AgreesWithPartition == ~ Overflowed => AggProvable = Provable

FreshVerdict(id, value) == AggValidatePKProof(aggDigest, AggGenerateExistenceProof(agg, id), value)

AggAccepted(id) == { value \in 0 .. MaxUpdates - 1 : FreshVerdict(id, value) }

IdBits == Len(CHOOSE id \in Ids : TRUE)

\* Every stored hash of a version is that of what the node holds.  BaseTree is
\* about the inserts that keep it so.
SoundVersion(version) ==
  \A node \in Version(agg.baseTree, version, IdBits) :
    agg.baseTree.heap[node].hash \in {NilHash, ComputedHash(agg.baseTree.heap, node)}

\* A fresh lookup in an aggregated-history partition is accepted with the newest
\* update of an identifier in the published update sets, or else in the newest
\* version, if the versions that proofs are made from are sound: roots and proofs
\* line up, and no version contradicts a later one.
NewestIsAccepted ==
  \A id \in Ids :
    LET inSets == { u.pos : u \in { v \in UNION ToSet(agg.queryUpdatePrefixTrees) : v.id = id } }
        values == IF inSets # {} \/ RootsOf(agg) = <<>> THEN inSets
                  ELSE ToSet(ValuesAt(agg.baseTree, id, Last(RootsOf(agg)).verificationPeriod))
    IN  /\ values # {}
        /\ \A i \in DOMAIN RootsOf(agg) : SoundVersion(RootsOf(agg)[i].verificationPeriod)
        => Max(values) \in AggAccepted(id)

\* The identifier's updates that a base tree version of the forest has.
KeptInForest(id) ==
  UNION { ToSet(ValuesAt(agg.baseTree, id, RootsOf(agg)[i].verificationPeriod)) : i \in DOMAIN RootsOf(agg) }

\* A master key that a fresh lookup accepts is the first update ever made of its
\* identifier or in one update set with it, wherever the updates of that identifier
\* have got to since: no later registration takes its place while the forest
\* keeps all versions and the base tree what it was given.
AcceptedMasterKeyIsFirst ==
  \A h \in history :
    AggValidateMKProof(aggDigest, AggGenerateExistenceProof(agg, h.update.id), h.update.pos) = "accepts"
      => \A other \in history :
           other.update.id = h.update.id /\ other.update.pos < h.update.pos =>
             \/ { h.update, other.update } \subseteq agg.queryUpdatePrefixTrees[1]
             \/ Overflowed
             \/ other.update \in AggProvable /\ KeptInForest(h.update.id) = {}

\* Monitoring when the forest had the given size.
Monitored(id, size) ==
  LET roots == GetOldRootNodes(agg.baseTreeForest, size)
  IN  ValidatePKProofMonitoring(
        [BaseTreeRoots |-> [ i \in DOMAIN roots |-> roots[i].newestLeafHash ]],
        [BaseTreeProofs |-> [ i \in DOMAIN roots |->
                                ProofAt(agg.baseTree, id, roots[i].verificationPeriod) ]])

\* Monitoring looks at base trees alone: it never succeeds for an identifier without
\* an update of at least two periods ago, and once it does it always will, however
\* the forest merges trees and whichever version is the newest of each.
MonitoringIsStable ==
  \A id \in Ids : \A size \in 1 .. agg.baseTreeForest.Size :
    Monitored(id, size) =>
      /\ Monitored(id, agg.baseTreeForest.Size)
      /\ \E h \in history : h.update.id = id /\ h.period <= size + 1
=============================================================================
