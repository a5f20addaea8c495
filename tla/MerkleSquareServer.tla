-------------------------- MODULE MerkleSquareServer --------------------------
(***************************************************************************)
(* The MerkleSquare server (merkleserver/merklesrv): the goroutines of its *)
(* calls, the key-value store, the epoch loop and the cache of extension   *)
(* proofs.                                                                 *)
(*                                                                         *)
(* MerkleSquare shows that a digest is that of a prefix of the log and     *)
(* stays so, and which proofs verify; so the tree is its log, a digest the *)
(* length of the prefix, and a proof the sizes and position it is for.     *)
(* Writers are the calls of Register and Append, readers all others.       *)
(* LastPosLock stands for appendLock too, which is taken and released with *)
(* it.  epochLock is held by the epoch loop only; a reader holds it for    *)
(* the moment of its read.  The checks of a call run in one step with its  *)
(* first access to shared state.                                           *)
(***************************************************************************)
EXTENDS Verdicts, Sequences, SequencesExt

CONSTANTS
  Users,
  Writers,      (* The calls that write, each the goroutine of one RPC.    *)
  Readers,      (* The calls that read.                                    *)
  Faulty,       (* Writers whose client may hang up or sign badly.         *)
  None          (* No call, no size.                                       *)

ASSUME CallsAssumption ==
  /\ Faulty \subseteq Writers
  /\ Writers \cap Readers = {}
  /\ None \notin Writers \cup Readers \cup Int

\* The calls do not fill the tree: what Append then does is in MerkleSquare.
ASSUME CapacityAssumption ==
  /\ IsFiniteSet(Writers)
  /\ Cardinality(Writers) <= 2 ^ Depth

VARIABLES
  pc,             (* Where each call is.                                   *)
  request,        (* What each call asks for.                              *)
  position,       (* The position it was given, or the one it found.       *)
  original,       (* What it read from the store.                          *)
  reply,          (* What a checkpoint call has put together so far.       *)
  masterKeys,     (* The store: per user, the records of its master key, *)
  publicKeys,     (* and of its keys, newest first; only the positions.    *)
  log,            (* The entries of the MerkleSquare, as in KeyLog.        *)
  LastPos,
  LastPosLock,    (* The writer that holds the lock.                       *)
  PublishedPos,
  PublishedDigest,
  epochLock,      (* Whether the epoch loop holds it.                      *)
  loop,           (* Where the epoch loop is.                              *)
  extensionProofCache,
  digests         (* History: the sizes of all digests published.          *)

callVars  == << pc, request, position, original, reply >>
storeVars == << masterKeys, publicKeys >>
treeVars  == << log, LastPos, LastPosLock >>
epochVars == << PublishedPos, PublishedDigest, digests, epochLock, loop >>
vars      == << callVars, storeVars, treeVars, epochVars, extensionProofCache >>

Handlers == Writers \cup Readers

GoTo(h, label) == pc' = [pc EXCEPT ![h] = label]
StandStill(h) == pc[h] \in {"done", "failed"}

-----------------------------------------------------------------------------
Init ==
  /\ pc = [h \in Handlers |-> "idle"]
  /\ request = [h \in Handlers |-> None]
  /\ position = [h \in Handlers |-> None]
  /\ original = [h \in Handlers |-> <<>>]
  /\ reply = [h \in Readers |-> None]
  /\ masterKeys = [user \in Users |-> <<>>]
  /\ publicKeys = [user \in Users |-> <<>>]
  /\ log = <<>>
  /\ LastPos = 0
  /\ LastPosLock = None
  /\ PublishedPos = 0
  /\ PublishedDigest = 0
  /\ digests = {}
  /\ epochLock = FALSE
  /\ loop = "wait"
  /\ extensionProofCache = {}

\* Readers are used again: nothing is left of an earlier call but its effects.
Begin(h, asked) ==
  /\ pc[h] = "idle" \/ (h \in Readers /\ StandStill(h))
  /\ request' = [request EXCEPT ![h] = asked]
  /\ position' = [position EXCEPT ![h] = None]
  /\ original' = [original EXCEPT ![h] = <<>>]
  /\ UNCHANGED << storeVars, treeVars, epochVars, extensionProofCache >>

-----------------------------------------------------------------------------
(* Register and Append.                                                    *)

Unregistered(user) == masterKeys[user] = <<>>

\* A user has one client, which registers it once.
Registers(user) ==
  \E h \in Writers : pc[h] # "idle" /\ request[h].user = user /\ request[h].master

Register(h, user) ==
  /\ ~ Registers(user)
  /\ Begin(h, [user |-> user, master |-> TRUE])
  /\ IF Unregistered(user) THEN GoTo(h, "register") ELSE GoTo(h, "failed")
  /\ UNCHANGED reply

\* MerkleSquare.Append.
AppendToTree(user) == log' = Append(log, user)

\* The locked part of RegisterUserKey.
RegisterKey(h) ==
  /\ pc[h] = "register"
  /\ LastPosLock = None
  /\ position' = [position EXCEPT ![h] = LastPos]
  /\ LastPos' = LastPos + 1
  /\ AppendToTree(request[h].user)
  /\ GoTo(h, "putKey")
  /\ UNCHANGED << request, original, reply, storeVars, LastPosLock, epochVars,
                  extensionProofCache >>

PutMasterKey(h) ==
  /\ pc[h] = "putKey"
  /\ masterKeys' = [masterKeys EXCEPT ![request[h].user] = << position[h] >>]
  /\ GoTo(h, "done")
  /\ UNCHANGED << request, position, original, reply, publicKeys, treeVars, epochVars,
                  extensionProofCache >>

StartAppend(h, user) ==
  /\ Begin(h, [user |-> user, master |-> FALSE])
  /\ IF Unregistered(user) THEN GoTo(h, "failed") ELSE GoTo(h, "lock")
  /\ UNCHANGED reply

\* AppendUserKey, by which a server is filled in its own process: it has the user's
\* secret key and signs the position itself, in the locked part.
StartAppendUserKey(h, user) ==
  /\ ~ Unregistered(user)
  /\ Begin(h, [user |-> user, master |-> FALSE])
  /\ GoTo(h, "appendKey")
  /\ UNCHANGED reply

AppendUserKey(h) ==
  /\ pc[h] = "appendKey"
  /\ LastPosLock = None
  /\ position' = [position EXCEPT ![h] = LastPos]
  /\ LastPos' = LastPos + 1
  /\ AppendToTree(request[h].user)
  /\ GoTo(h, "getKeys")
  /\ UNCHANGED << request, original, reply, storeVars, LastPosLock, epochVars,
                  extensionProofCache >>

\* Slip: the locks are released before the signature is awaited.
SendPositionUnlocked(h) ==
  /\ pc[h] = "lock"
  /\ LastPosLock = None
  /\ position' = [position EXCEPT ![h] = LastPos]
  /\ LastPos' = LastPos + 1
  /\ GoTo(h, "signature")
  /\ UNCHANGED << request, original, reply, storeVars, log, LastPosLock, epochVars,
                  extensionProofCache >>

SendPosition(h) ==
  /\ pc[h] = "lock"
  /\ LastPosLock = None
  /\ LastPosLock' = h
  /\ position' = [position EXCEPT ![h] = LastPos]
  /\ LastPos' = LastPos + 1
  /\ GoTo(h, "signature")
  /\ UNCHANGED << request, original, reply, storeVars, log, epochVars,
                  extensionProofCache >>

AcceptSignature(h) ==
  /\ pc[h] = "signature"
  /\ AppendToTree(request[h].user)
  /\ LastPosLock' = None
  /\ GoTo(h, "getKeys")
  /\ UNCHANGED << request, position, original, reply, storeVars, LastPos, epochVars,
                  extensionProofCache >>

\* The stream breaks or the signature is bad: both error returns come before
\* the unlocks.
FailAppend(h) ==
  /\ pc[h] = "signature"
  /\ h \in Faulty
  /\ GoTo(h, "failed")
  /\ UNCHANGED << request, position, original, reply, storeVars, treeVars, epochVars,
                  extensionProofCache >>

GetKeys(h) ==
  /\ pc[h] = "getKeys"
  /\ original' = [original EXCEPT ![h] = publicKeys[request[h].user]]
  /\ GoTo(h, "putKeys")
  /\ UNCHANGED << request, position, reply, storeVars, treeVars, epochVars,
                  extensionProofCache >>

PutKeys(h) ==
  /\ pc[h] = "putKeys"
  /\ publicKeys' = [publicKeys EXCEPT ![request[h].user] = << position[h] >> \o original[h]]
  /\ original' = [original EXCEPT ![h] = <<>>]
  /\ GoTo(h, "done")
  /\ UNCHANGED << request, position, reply, masterKeys, treeVars, epochVars,
                  extensionProofCache >>

-----------------------------------------------------------------------------
(* The epoch loop.                                                         *)

\* The loop takes epochLock whenever it is free: a reader has it for a moment only.
StartEpoch ==
  /\ loop = "wait"
  /\ loop' = "publish"
  /\ epochLock' = TRUE
  /\ UNCHANGED << callVars, storeVars, treeVars, PublishedPos, PublishedDigest,
                  digests, extensionProofCache >>

\* Slip: the early return leaves epochLock taken.
PublishPosKeepingLock ==
  /\ loop = "publish"
  /\ LastPosLock = None
  /\ PublishedPos' = LastPos
  /\ loop' = IF PublishedPos = LastPos THEN "wait" ELSE "digest"
  /\ UNCHANGED << callVars, storeVars, treeVars, PublishedDigest, digests, epochLock,
                  extensionProofCache >>

PublishPos ==
  /\ loop = "publish"
  /\ LastPosLock = None
  /\ PublishedPos' = LastPos
  /\ IF PublishedPos = LastPos THEN loop' = "wait" /\ epochLock' = FALSE
                               ELSE loop' = "digest" /\ UNCHANGED epochLock
  /\ UNCHANGED << callVars, storeVars, treeVars, PublishedDigest, digests, extensionProofCache >>

PublishDigest ==
  /\ loop = "digest"
  /\ PublishedDigest' = PublishedPos
  /\ digests' = digests \cup {PublishedPos}
  /\ epochLock' = FALSE
  /\ loop' = "dump"
  /\ UNCHANGED << callVars, storeVars, treeVars, PublishedPos, extensionProofCache >>

\* After epochLock was released.
DumpProofs ==
  /\ loop = "dump"
  /\ extensionProofCache' = {}
  /\ loop' = "wait"
  /\ UNCHANGED << callVars, storeVars, treeVars, PublishedPos, PublishedDigest, digests,
                  epochLock >>

-----------------------------------------------------------------------------
(* Lookups: LookUpMK, LookUpPK, LookUpMKVerify and LookUpPKVerify.  The     *)
(* proofs of the latter are made from the tree of a past size.             *)

\* Clients ask for the NumLeaves of a checkpoint, or for what is published now.
Sizes == digests \cup {PublishedPos}

LookUp(h, user, master, size) ==
  /\ Begin(h, [user |-> user, master |-> master, size |-> size])
  /\ GoTo(h, IF size = None THEN "size" ELSE "records")
  /\ reply' = [reply EXCEPT ![h] = None]

\* Only LookUpMK, which has no use for it, does without.
ReadSize(h) ==
  /\ pc[h] = "size"
  /\ ~ epochLock
  /\ request' = [request EXCEPT ![h].size = PublishedPos]
  /\ GoTo(h, "records")
  /\ UNCHANGED << position, original, reply, storeVars, treeVars, epochVars,
                  extensionProofCache >>

GetRecords(h) ==
  /\ pc[h] = "records"
  /\ LET user    == request[h].user
         records == IF request[h].master THEN masterKeys[user] ELSE publicKeys[user]
     IN  /\ original' = [original EXCEPT ![h] = records]
         /\ GoTo(h, IF records = <<>> THEN "failed" ELSE "pick")
  /\ UNCHANGED << request, position, reply, storeVars, treeVars, epochVars,
                  extensionProofCache >>

\* The records that GetUserKey may return, the one it returns first.
Eligible(h) ==
  SelectSeq(original[h], LAMBDA pos :
    request[h].master \/ (pos <= request[h].size /\ pos <= PublishedPos))

\* The end of GetUserKey, which takes epochLock for master keys, too.
PickRecord(h) ==
  /\ pc[h] = "pick"
  /\ ~ epochLock
  /\ IF Eligible(h) = <<>>
       THEN GoTo(h, "failed") /\ UNCHANGED position
       ELSE position' = [position EXCEPT ![h] = Eligible(h)[1]] /\ GoTo(h, "done")
  /\ original' = [original EXCEPT ![h] = <<>>]
  /\ UNCHANGED << request, reply, storeVars, treeVars, epochVars,
                  extensionProofCache >>

-----------------------------------------------------------------------------
(* GetNewCheckPoint, which takes no lock.                                  *)

CacheKey(h) == << request[h].size, PublishedPos >>
Cached(h) == { entry \in extensionProofCache : entry.key = CacheKey(h) }

\* An extension proof is for the old size and the size it leads to.
ExtensionProof(oldSize, size) == [old |-> oldSize, target |-> size]

\* What is to be the answer so far; None is what it does not have yet.
Reply(h, answer) == reply' = [reply EXCEPT ![h] = answer]

\* The check of the size, and the digest. An auditor asks from the size of a digest
\* that it was given at some time.
GetNewCheckPoint(h, oldSize) ==
  /\ oldSize <= PublishedPos
  /\ Begin(h, [size |-> oldSize])
  /\ Reply(h, [digest |-> PublishedDigest, proof |-> None, cachedFor |-> None, NumLeaves |-> None])
  /\ GoTo(h, "cache")

LookInCache(h) ==
  /\ pc[h] = "cache"
  /\ IF Cached(h) = {}
       THEN GoTo(h, "prove") /\ UNCHANGED reply
       ELSE \E entry \in Cached(h) :
              /\ Reply(h, [reply[h] EXCEPT !.proof = entry.proof, !.cachedFor = PublishedPos])
              /\ GoTo(h, "answer")
  /\ UNCHANGED << request, position, original, storeVars, treeVars, epochVars,
                  extensionProofCache >>

\* PublishedPos is read again for the proof, ...
ProveExtension(h) ==
  /\ pc[h] = "prove"
  /\ Reply(h, [reply[h] EXCEPT !.proof = ExtensionProof(request[h].size, PublishedPos)])
  /\ GoTo(h, "fill")
  /\ UNCHANGED << request, position, original, storeVars, treeVars, epochVars,
                  extensionProofCache >>

\* ... again for the cache, ...
FillCache(h) ==
  /\ pc[h] = "fill"
  /\ extensionProofCache' =
       (extensionProofCache \ Cached(h)) \cup { [key |-> CacheKey(h), proof |-> reply[h].proof] }
  /\ GoTo(h, "answer")
  /\ UNCHANGED << request, position, original, reply, storeVars, treeVars, epochVars >>

\* Slip: the digest, too, is read for the answer.
AnswerWithDigest(h) ==
  /\ pc[h] = "answer"
  /\ Reply(h, [reply[h] EXCEPT !.NumLeaves = PublishedPos, !.digest = PublishedDigest])
  /\ GoTo(h, "done")
  /\ UNCHANGED << request, position, original, storeVars, treeVars, epochVars,
                  extensionProofCache >>

\* ... and again for the answer.
AnswerCheckPoint(h) ==
  /\ pc[h] = "answer"
  /\ Reply(h, [reply[h] EXCEPT !.NumLeaves = PublishedPos])
  /\ GoTo(h, "done")
  /\ UNCHANGED << request, position, original, storeVars, treeVars, epochVars,
                  extensionProofCache >>

\* The calls that were answered with a checkpoint.
Checkpoints == { h \in Readers : reply[h] # None /\ pc[h] = "done" }

-----------------------------------------------------------------------------
\* The steps that wait for neither a client nor a timer.
WriterStep(h) ==
  \/ RegisterKey(h) \/ PutMasterKey(h)
  \/ AppendUserKey(h) \/ SendPosition(h) \/ GetKeys(h) \/ PutKeys(h)

LookUpStep(h) == ReadSize(h) \/ GetRecords(h) \/ PickRecord(h)

CheckPointStep(h) == LookInCache(h) \/ ProveExtension(h) \/ FillCache(h) \/ AnswerCheckPoint(h)

EpochStep == PublishPos \/ PublishDigest \/ DumpProofs

Next ==
  \/ \E h \in Writers :
       \/ \E user \in Users : Register(h, user) \/ StartAppend(h, user) \/ StartAppendUserKey(h, user)
       \/ AcceptSignature(h)
       \/ FailAppend(h)
       \/ WriterStep(h)
  \/ \E h \in Readers :
       \/ \E user \in Users, master \in BOOLEAN, size \in Sizes \cup {None} :
            LookUp(h, user, master, size)
       \/ \E oldSize \in digests : GetNewCheckPoint(h, oldSize)
       \/ LookUpStep(h)
       \/ CheckPointStep(h)
  \/ StartEpoch
  \/ EpochStep

Spec == Init /\ [][Next]_vars

\* Goroutines run, clients that are not faulty answer, and the epoch timer fires
\* again and again.  A call waits for LastPosLock behind finitely many others; a
\* reader waits for epochLock while the loop has it, again and again at worst.
Fairness ==
  /\ \A h \in Writers : WF_vars(WriterStep(h))
  /\ \A h \in Writers \ Faulty : WF_vars(AcceptSignature(h))
  /\ \A h \in Readers : SF_vars(LookUpStep(h))
  /\ WF_vars(StartEpoch)
  /\ WF_vars(EpochStep)

FairSpec == Spec /\ Fairness

-----------------------------------------------------------------------------
\* The answer to a checkpoint call verifies for the auditor whatever epochs end
\* while it is made, as long as its proof is not from the cache, or the cache has
\* it under the size it was made for.  PublishedPos is read again for each use, so
\* an entry may be stored for a later size than it was made for; the auditor that
\* is given it then panics.
CheckpointsVerify ==
  \A h \in Checkpoints :
    LET answer == reply[h]
    IN  \/ ExtensionVerdict(request[h].size, answer.digest, answer.proof.target) = "accepts"
        \/ answer.cachedFor \notin {None, answer.proof.target}

\* The server keeps the promise of KeyLog, with what its digest covers as the
\* published part.
KeyLogOf == INSTANCE KeyLog WITH published <- PublishedDigest
ImplementsKeyLog == KeyLogOf!LogSpec

\* Every entry is published, and every lookup ends, unless a faulty client keeps
\* the locks of the tree for ever: a lookup needs epochLock, which the epoch loop
\* holds while it waits for those locks.
EntriesArePublishedLookupsEnd ==
  []<>(LastPosLock \notin Faulty) =>
    /\ \A n \in 1 .. Cardinality(Writers) : Len(log) >= n ~> PublishedDigest >= n
    /\ \A h \in Readers : pc[h] \in {"size", "records", "pick"} ~> StandStill(h)
=============================================================================
