-------------------------------- MODULE Lookup --------------------------------
(***************************************************************************)
(* A lookup from end to end: the auditor that polls a partition's          *)
(* published digest (legolog/auditor/auditorsrv), the server's             *)
(* LookUpPKVerify and LookUpMKVerify (legolog/server/grpc_handler.go), and *)
(* the client that checks the proof it is sent against the auditor's       *)
(* checkpoint (ValidatePKProof and ValidateMKProof in core/partition.go,   *)
(* and in core/partition_agghist.go the ValidatePKProof that               *)
(* legolog/cmd/client uses).  Nothing ties these three to the same update  *)
(* epoch, and no read takes a lock.                                        *)
(*                                                                         *)
(* There is one partition: partitions share nothing, and the auditor polls *)
(* one after the other.  Calls of Append for the same identifier do not    *)
(* overlap here; LegologServer is about what happens when they do.         *)
(***************************************************************************)
EXTENDS Partition

CONSTANT None   (* No record, no poll under way.                           *)

ASSUME NoneAssumption == None \notin 0 .. MaxUpdates

VARIABLES
  storage,          (* Per identifier: the position of its newest record.  *)
  previousDigest,   (* What PublishedDigest was before it is what it is.   *)
  poll,             (* The digest that the auditor's RPC has read.         *)
  checkpoint,       (* The auditor's UpdateDigests and UpdateCheckpoints.  *)
  proven,           (* What isConsistencyProofValid said of it.            *)
  lookup            (* The client's call.                                  *)

serverVars == << storage, previousDigest >>
auditVars  == << poll, checkpoint, proven >>
lookupVars == << vars, serverVars, auditVars, lookup >>

-----------------------------------------------------------------------------
\* The updates that an update epoch has published.
Published == { h.update : h \in history } \ ToSet(latestUpdates)

\* Whether the base tree has the identifier, the values in its leaf, and the root
\* that a client computes from the copath; None if the server sends no copath.
NoProof == [exists |-> FALSE, values |-> <<>>, root |-> None]

\* A client that has not called.  began, seen and known are history: the period in
\* which the client got its checkpoint, what was published then, and what was
\* published when the server answered.
NoLookup == [ pc |-> "idle", id |-> None, master |-> FALSE, digest |-> NoDigest, value |-> None,
              baseTreeProof |-> NoProof, updateSets |-> <<>>,
              began |-> 0, seen |-> {}, known |-> {} ]

LookupInit ==
  /\ Init
  /\ storage = [id \in Ids |-> None]
  /\ previousDigest = NoDigest
  /\ poll = None
  /\ checkpoint = NoDigest
  /\ proven = TRUE
  /\ lookup = NoLookup

-----------------------------------------------------------------------------
(* The server.                                                             *)

\* The identifier's newest accepted update, by position.
Newest(id) ==
  LET positions == { h.update.pos : h \in { g \in history : g.update.id = id } }
  IN  IF positions = {} THEN None ELSE Max(positions)

\* The record of that update has been stored.
StorageIsCurrent(id) == storage[id] = Newest(id)

\* An identifier that is looked up as a master key is one that is registered once.
RegisteredOnce(id) == lookup.master /\ lookup.id = id => Newest(id) = None

\* Append, or RegisterUserKey, up to its Partition.Append.
AcceptUpdate(id) ==
  /\ RegisteredOnce(id)
  /\ StorageIsCurrent(id)
  /\ AppendUpdate(id)
  /\ UNCHANGED << serverVars, auditVars, lookup >>

\* The rest of Append: the record is stored after the locks were released.
PutValue(id) ==
  /\ ~ StorageIsCurrent(id)
  /\ storage' = [storage EXCEPT ![id] = Newest(id)]
  /\ UNCHANGED << vars, previousDigest, auditVars, lookup >>

EpochLoop ==
  /\ IncrementUpdateEpoch \/ IncrementVerificationPeriod
  /\ previousDigest' = publishedDigest
  /\ UNCHANGED << storage, auditVars, lookup >>

-----------------------------------------------------------------------------
(* The auditor.                                                            *)

\* A slice whose pointer and length were read at different times; what lies
\* beyond the array reads as nil.
Slice(array, length) == [i \in 1 .. length |-> IF i \in DOMAIN array THEN array[i] ELSE {}]

\* What the copy of PublishedDigest that GetNewCheckPoint, GetNewUpdateCheckPoint and
\* GetNewVerifyCheckPoint make can be while it is being assigned: each field
\* is of the old digest or of the new one, and a slice of several roots may be
\* half of each.  The fields that nobody reads afterwards are left as they are.
TornDigest(base, size, array, header, log, length) ==
  [ publishedDigest EXCEPT
      !.BaseTreeRoots  = base.BaseTreeRoots,
      !.BaseTreeSize   = size.BaseTreeSize,
      !.UpdateSetRoots = Slice(array.UpdateSetRoots, Len(header.UpdateSetRoots)),
      !.UpdateLogRoot  = log.UpdateLogRoot,
      !.UpdateLogSize  = length.UpdateLogSize ]

TornDigests ==
  { TornDigest(base, size, array, header, log, length) :
      base, size, array, header, log, length \in {previousDigest, publishedDigest} }

\* GetNewUpdateCheckPoint reads the published digest ...
ReadDigest ==
  /\ poll = None
  /\ poll' \in TornDigests
  /\ UNCHANGED << vars, serverVars, checkpoint, proven, lookup >>

\* ... and then asks for GetUpdateEpochConsistencyProof, from the size that the
\* auditor sent along.  Nothing is proved from an empty log, nor from a size
\* that the log does not exceed.
ConsistencyProof(oldSize) ==
  [from |-> oldSize, log |-> IF oldSize \in 1 .. Len(verificationUpdateLog) - 1
                             THEN verificationUpdateLog ELSE NilRoot]

\* VerifyConsistencyProof of two digests, as ChronTree finds it to be: besides
\* trivial ones only the proof from exactly the old log to exactly the new one.
VerifyConsistencyProof(old, new, proof) ==
  \/ old.UpdateLogSize = 0
  \/ old.UpdateLogSize = new.UpdateLogSize /\ old.UpdateLogRoot = new.UpdateLogRoot
  \/ /\ old.UpdateLogSize # new.UpdateLogSize
     /\ proof.log # NilRoot
     /\ proof.log = new.UpdateLogRoot /\ Len(proof.log) = new.UpdateLogSize
     /\ proof.from = old.UpdateLogSize
     /\ old.UpdateLogRoot = SubSeq(proof.log, 1, proof.from)

IsConsistencyProofValid(digest, oldSize) ==
  VerifyConsistencyProof(checkpoint, digest, ConsistencyProof(oldSize))

\* queryServerUpdatePeriod asks for a proof from the size of its base tree.
OldSize == checkpoint.BaseTreeSize

\* QueryServerUpdatePeriod: the new digest replaces the old one whether or not
\* the proof verifies.
AdoptCheckpoint ==
  /\ poll # None
  /\ proven' = IsConsistencyProofValid(poll, OldSize)
  /\ checkpoint' = poll
  /\ poll' = None
  /\ UNCHANGED << vars, serverVars, lookup >>

\* QueryLoop: its timers and the server's are not in step.  The poll of the other
\* timer stores what it is sent where nobody reads it, and is left out.
QueryLoop == ReadDigest \/ AdoptCheckpoint

-----------------------------------------------------------------------------
(* The lookup.                                                             *)

LookupStep(from, next) ==
  /\ lookup.pc = from
  /\ lookup' = next
  /\ UNCHANGED << vars, serverVars, auditVars >>

\* The client asks the auditor for its checkpoint.
GetEpochUpdate(id, master) ==
  /\ master => Cardinality({ h \in history : h.update.id = id }) <= 1
  /\ LookupStep("idle", [ lookup EXCEPT
                            !.pc = "storage", !.id = id, !.master = master, !.digest = checkpoint,
                            !.began = verificationEpoch, !.seen = Published ])

\* LookUpMK within LookUpMKVerify: the user's record, and with a store in memory
\* an empty one if there is none.
LookUpMK ==
  /\ lookup.master
  /\ LookupStep("storage", [lookup EXCEPT !.pc = "leaf", !.value = storage[lookup.id]])

\* LookUpPK within LookUpPKVerify: the identifier's newest record.
LookUpPK ==
  /\ ~ lookup.master
  /\ lookup.pc = "storage" /\ storage[lookup.id] # None
  /\ LookupStep("storage", [lookup EXCEPT !.pc = "leaf", !.value = storage[lookup.id]])

\* Without a record LookUpPK, and with a store on disk LookUpMK too, returns a nil
\* response and an error, and the fields of the response are read before the error
\* is looked at: the server panics.
LookUpUnknown ==
  /\ lookup.pc = "storage" /\ storage[lookup.id] = None
  /\ LookupStep("storage", [lookup EXCEPT !.pc = "serverPanicked"])

\* Slip: the proof is made from the version that the last period finished.
NewestFinished(period) == period - 1

QueryVersion(period) == period - 2

\* GenerateExistenceProof: the leaf in the version that lookups use ...
FindLeaf ==
  LET version == QueryVersion(verificationEpoch)
      proof == [ exists |-> GetLeaf(baseTree, lookup.id, version) # Nil,
                 values |-> ValuesAt(baseTree, lookup.id, version), root |-> None ]
  IN  LookupStep("leaf", [lookup EXCEPT !.pc = "copath", !.baseTreeProof = proof])

\* The root over the copath in a version, for the values of the leaf found before.
\* There is no copath to prove a leaf that this version lacks, or to disprove one
\* that it has.
ComputedRoot(id, version, found) ==
  LET leaf == GetLeaf(baseTree, id, version)
      path == PathTo(baseTree, id, version).path
  IN  CASE found.exists # (leaf # Nil) -> None
        [] found.exists /\ leaf # Nil ->
             RootOverCopath(baseTree.heap, Front(path),
                            LeafHash(baseTree.heap[leaf].prefix, found.values),
                            baseTree.heap[leaf].prefix)
        [] ~ found.exists /\ leaf = Nil -> NonMembershipRoot(baseTree, id, version)

\* ... then, as verificationEpoch is read again, the copath in that version ...
ProveBaseTree ==
  LET root == ComputedRoot(lookup.id, QueryVersion(verificationEpoch), lookup.baseTreeProof)
  IN  LookupStep("copath",
        [lookup EXCEPT !.pc = "updateSets", !.baseTreeProof.root = root])

\* The roll-over counts the new period before it hands over the update sets: a
\* lookup that overlaps it may be in the new period and find the old sets.
ReadableSets ==
  {queryUpdatePrefixTrees} \cup
    IF ~ needToRollUp /\ lookup.began < verificationEpoch
    THEN {previousDigest.UpdateSetRoots} ELSE {}

\* ... and last the proofs from the update sets.  The answer is sent.
ReadUpdateSets ==
  \E sets \in ReadableSets :
    LookupStep("updateSets",
      [lookup EXCEPT !.pc = "answered", !.updateSets = sets, !.known = Published])

ServerUp == lookup.pc # "serverPanicked"

LookupNext ==
  /\ ServerUp
  /\ \/ \E id \in Ids : AcceptUpdate(id) \/ PutValue(id)
     \/ \E id \in Ids, master \in BOOLEAN : GetEpochUpdate(id, master)
     \/ EpochLoop
     \/ QueryLoop
     \/ LookUpPK
     \/ LookUpMK
     \/ LookUpUnknown
     \/ FindLeaf
     \/ ProveBaseTree
     \/ ReadUpdateSets

LookupSpec == LookupInit /\ [][LookupNext]_lookupVars

-----------------------------------------------------------------------------
(* The client's checks of the answer.  Signatures are good: what the       *)
(* server stores and proves is what clients signed.                        *)

\* The update sets that have updates of the identifier.
SetsWith(l) == { i \in DOMAIN l.updateSets : \E u \in l.updateSets[i] : u.id = l.id }

\* Slip: the first update set that has the identifier decides.
FirstSet(l) == Min(SetsWith(l))

LatestSet(l) == Max(SetsWith(l))

Looked(l) == [id |-> l.id, pos |-> l.value]

\* Slip: the root of the update set is not compared with the digest's.
ValueFound(l, i) == Looked(l) \in l.updateSets[i]

\* validateExistenceProof in an update set: the value is in the leaf, and the
\* leaf leads to the root that the digest has at that place.
ExistsInSet(l, i) ==
  Looked(l) \in l.updateSets[i] /\ l.updateSets[i] = l.digest.UpdateSetRoots[i]

Has(roots, i) == i \in DOMAIN roots

\* core.ValidatePKProof.  An index that is out of range panics; that of the
\* digest's root is -1 when only the base tree proves the identifier.
ValidatePKProof(l) ==
  LET latest == LatestSet(l)
  IN  CASE l.baseTreeProof.root = None -> "rejects"
        [] l.baseTreeProof.root # None /\ SetsWith(l) = {} ->
             IF l.baseTreeProof.exists THEN "panics" ELSE "rejects"
        [] OTHER ->
             IF ~ Has(l.digest.UpdateSetRoots, latest) THEN "panics"
             ELSE IF ExistsInSet(l, latest) THEN "accepts" ELSE "rejects"

\* validateNonExistenceProof expects of an absent identifier a membership proof of
\* a leaf in its place.  The server sends a nonmembership proof: a nil pointer.
AbsentFromSet == "panics"

\* core.ValidateMKProof: the first update set with the user's key decides, and the
\* key must be proven absent from those before it.
ValidateMKProof(l) ==
  CASE l.baseTreeProof.root = None -> "rejects"
    [] l.baseTreeProof.root # None /\ l.updateSets = <<>> -> "rejects"
    [] OTHER ->
         IF 1 \notin SetsWith(l) THEN AbsentFromSet
         ELSE IF ~ Has(l.digest.UpdateSetRoots, 1) THEN "panics"
         ELSE IF ExistsInSet(l, 1) THEN "accepts" ELSE "rejects"

\* validateNonMembershipProof: a nil root, of an empty tree, proves anything.
AbsentFrom(root, computed, empty) == root = empty \/ computed = root

\* The base tree's part of the client's check: a copath that was not sent panics
\* where it is needed, and presence is looked into later only.
BaseTreeVerdict(l, root) ==
  LET base == l.baseTreeProof
  IN  CASE base.exists   -> IF base.root = None THEN "panics" ELSE "continues"
        [] ~ base.exists -> IF root # NilHash /\ base.root = None THEN "panics"
                            ELSE IF AbsentFrom(root, base.root, NilHash) THEN "continues"
                            ELSE "rejects"

\* The update sets at which the client's loop over them ends early.
Obstacles(l) ==
  { i \in DOMAIN l.updateSets :
      \/ ~ Has(l.digest.UpdateSetRoots, i)
      \/ /\ i \notin SetsWith(l)
         /\ ~ AbsentFrom(l.digest.UpdateSetRoots[i], l.updateSets[i], {}) }

ExistsInBaseTree(l) ==
  LET base == l.baseTreeProof
  IN  base.exists /\ l.value \in ToSet(base.values) /\ base.root = l.digest.BaseTreeRoots[1]

\* AggHistVerifier.ValidatePKProof: also checks that the identifier is absent
\* where the server says so, and falls back on the base tree.
AggHistValidatePKProof(l) ==
  IF ~ Has(l.digest.BaseTreeRoots, 1) THEN "panics"
  ELSE LET verdict == BaseTreeVerdict(l, l.digest.BaseTreeRoots[1])
       IN  CASE verdict # "continues" -> verdict
             [] verdict = "continues" /\ Obstacles(l) # {} ->
                  IF Has(l.digest.UpdateSetRoots, Min(Obstacles(l))) THEN "rejects" ELSE "panics"
             [] OTHER ->
                  IF IF SetsWith(l) # {} THEN ExistsInSet(l, LatestSet(l)) ELSE ExistsInBaseTree(l)
                  THEN "accepts" ELSE "rejects"

Verdicts(l) ==
  IF l.master THEN { ValidateMKProof(l) } ELSE { ValidatePKProof(l), AggHistValidatePKProof(l) }

\* The library's LookUpPKVerify and LookUpMKVerify return the server's answer as it
\* is.
LookUpPKVerifyReturns(l) == l.pc = "answered" /\ ~ l.master
LookUpMKVerifyReturns(l) == l.pc = "answered" /\ l.master

Returns(l) == LookUpPKVerifyReturns(l) \/ LookUpMKVerifyReturns(l)

Accepted(l) == Returns(l) /\ "accepts" \in Verdicts(l)

-----------------------------------------------------------------------------
\* However many update epochs and verification periods end between the auditor's
\* poll, the client's call, and the reads of the server, and whatever the
\* auditor read of a digest under assignment: a value that a client accepts had
\* been published when the client got its checkpoint.
AcceptedWasPublished ==
  Accepted(lookup) => Looked(lookup) \in lookup.seen

\* A client that accepts a value by the update sets accepts nothing older than
\* the identifier's newest update epoch: an update published by the time of the
\* answer is newer only if it is in the same update set.
AcceptedIsFromNewestSet ==
  Accepted(lookup) /\ SetsWith(lookup) # {} =>
    \A newer \in lookup.known :
      newer.id = lookup.id /\ newer.pos > lookup.value =>
        \E i \in DOMAIN lookup.updateSets :
          {newer, Looked(lookup)} \subseteq lookup.updateSets[i]

\* If the checkpoint is still the published digest when the server answers, and
\* the value is the newest published one and in an update set, then all verifiers
\* accept the answer: what a lookup reads without a lock fits one digest.  For a
\* master key that must be the first update set.
FreshLookupsSucceed ==
  /\ Returns(lookup)
  /\ lookup.digest = publishedDigest
  /\ Looked(lookup) \in UNION ToSet(lookup.updateSets)
  /\ \A u \in lookup.known : u.id = lookup.id => u.pos <= lookup.value
  /\ lookup.master => 1 \in SetsWith(lookup)
  => Verdicts(lookup) = {"accepts"}

\* How far the auditor's polls can be verified, even if they ask for the proof from
\* the size of the update log, as the benchmark's do, no epoch ends between their
\* reads, and no digest is torn: as long as the first period lasts every poll
\* verifies.  Once a period has ended, the log that the server proves from is no
\* longer the log of its digest, and a poll verifies only if the auditor has no
\* log yet or has the same one.
WholeDigest(digest) == digest.UpdateLogSize = Len(digest.UpdateLogRoot)
QueryServerUpdatePeriodWithoutClient ==
  IsConsistencyProofValid(publishedDigest, checkpoint.UpdateLogSize)
PollsVerifyInFirstPeriod ==
  WholeDigest(checkpoint) =>
    QueryServerUpdatePeriodWithoutClient =
      \/ Len(hashChain) = 1
      \/ checkpoint.UpdateLogRoot \in { NilRoot, publishedDigest.UpdateLogRoot }

\* "GetEpochUpdate fetches latest verified checkpoint from the auditor": what
\* the auditor hands out, it has proved to extend the checkpoint before.
CheckpointsAreVerified == proven
=============================================================================
