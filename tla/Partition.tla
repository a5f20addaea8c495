------------------------------ MODULE Partition ------------------------------
(***************************************************************************)
(* One partition of the Legolog server (core/partition.go) under the two   *)
(* epoch calls of its PartitionServer (legolog/server/server.go).          *)
(*                                                                         *)
(* Updates go into the base tree at once and into the update set of the    *)
(* next update epoch.  A lookup is proved from the base tree as it was two *)
(* verification periods ago and from the update sets of the last and the   *)
(* current period, which is why there are two update logs: the query log   *)
(* covers both periods, the verification log only the current one.         *)
(*                                                                         *)
(* An update is its identifier and its position, which the signature binds *)
(* to the value.  The prefix tree of an update epoch is the set of its     *)
(* updates, a ChronTree the sequence of its leaves; each is also its own   *)
(* root hash, as the hash commits to exactly that.  A hash chain is the    *)
(* sequence of what was hashed into it.                                    *)
(***************************************************************************)
EXTENDS PersistentPrefixTree, FiniteSets

CONSTANTS
  Ids,          (* The hashed identifiers: bit sequences of one length.    *)
  MaxUpdates,   (* Bound on the number of appends.                         *)
  MaxEpoch,     (* Bound on the number of update epochs.                   *)
  MaxPeriod     (* Bound on the number of verification periods.            *)

ASSUME IdsAssumption ==
  \A id \in Ids : /\ id \in Seq({0, 1}) \ { <<>> }
                  /\ \A other \in Ids : Len(other) = Len(id)

ASSUME BoundsAssumption == MaxUpdates \in Nat /\ MaxEpoch \in Nat /\ MaxPeriod \in Nat

VARIABLES
  baseTree,
  queryUpdateLog,
  queryUpdatePrefixTrees,
  verificationUpdateLog,
  verificationUpdatePrefixTrees,
  latestUpdates,
  epoch,
  verificationEpoch,
  pos,
  hashChain,
  needToRollUp,     (* NeedToRollUp of the PartitionServer.                *)
  publishedDigest,  (* PublishedDigest of the PartitionServer.             *)
  history           (* History variable: every update appended, with the   *)
                    (* verification period of its append.                  *)

logVars  == << queryUpdateLog, queryUpdatePrefixTrees,
               verificationUpdateLog, verificationUpdatePrefixTrees >>
vars     == << baseTree, logVars, latestUpdates, epoch, verificationEpoch, pos,
               hashChain, needToRollUp, publishedDigest, history >>

-----------------------------------------------------------------------------
Update == [id : Ids, pos : 0 .. MaxUpdates - 1]

\* The prefix tree built from the updates of one epoch.
PrefixTreeOf(updates) == ToSet(updates)

LogEntry(number, tree) == [epoch |-> number, root |-> tree]

\* The root of a log without leaves, whose hash the code cannot ask for: it
\* would dereference a nil interface.
NilRoot == <<>>

NoDigest == [ BaseTreeRoots |-> <<>>, BaseTreeSize |-> 0, UpdateLogRoot |-> NilRoot,
              UpdateSetRoots |-> <<>>, UpdateLogSize |-> 0, Epoch |-> 0,
              HashChain |-> <<>> ]

Digest(tree, period, log, trees, number, chain) ==
  [ BaseTreeRoots  |-> << GetHash(tree, period - 2), GetHash(tree, period - 1) >>,
    BaseTreeSize   |-> GetSize(tree, period - 2),
    UpdateLogRoot  |-> log,
    UpdateSetRoots |-> trees,
    UpdateLogSize  |-> Len(log),
    Epoch          |-> number,
    HashChain      |-> chain ]

\* GetDigest of the partition's next state.
NextDigest ==
  Digest(baseTree', verificationEpoch', queryUpdateLog', queryUpdatePrefixTrees',
         epoch', hashChain')

ChainLink(tree, period, number) ==
  [ older |-> GetHash(tree, period - 2), newer |-> GetHash(tree, period - 1),
    epoch |-> number ]

-----------------------------------------------------------------------------
\* NewPartition starts its first two verification periods, the second of
\* which begins the hash chain.
Init ==
  /\ baseTree = NextEpoch(NextEpoch(NewPersistentPrefixTree))
  /\ queryUpdateLog = <<>>
  /\ queryUpdatePrefixTrees = <<>>
  /\ verificationUpdateLog = <<>>
  /\ verificationUpdatePrefixTrees = <<>>
  /\ latestUpdates = <<>>
  /\ epoch = 0
  /\ verificationEpoch = 2
  /\ pos = 0
  /\ hashChain = << ChainLink(baseTree, 2, 0) >>
  /\ needToRollUp = FALSE
  /\ publishedDigest = NoDigest
  /\ history = {}

NewUpdate(id) == [id |-> id, pos |-> pos]

AppendUpdate(id) ==
  /\ pos < MaxUpdates
  /\ latestUpdates' = Append(latestUpdates, NewUpdate(id))
  /\ baseTree' = Insert(baseTree, id, pos)
  /\ pos' = pos + 1
  /\ history' = history \cup { [update |-> NewUpdate(id), period |-> verificationEpoch] }
  /\ UNCHANGED << logVars, epoch, verificationEpoch, hashChain, needToRollUp,
                  publishedDigest >>

\* Slip: only the query log and sets get the new update set.
LogUpdateSetForQueries(tree, number) ==
  /\ queryUpdatePrefixTrees' = Append(queryUpdatePrefixTrees, tree)
  /\ queryUpdateLog' = Append(queryUpdateLog, LogEntry(number, tree))
  /\ UNCHANGED << verificationUpdatePrefixTrees, verificationUpdateLog >>

\* Slip: the verification log misses the epochs without updates.
LogUpdateSetUnlessEmpty(tree, number) ==
  /\ queryUpdatePrefixTrees' = Append(queryUpdatePrefixTrees, tree)
  /\ verificationUpdatePrefixTrees' = Append(verificationUpdatePrefixTrees, tree)
  /\ queryUpdateLog' = Append(queryUpdateLog, LogEntry(number, tree))
  /\ verificationUpdateLog' = IF tree = {} THEN verificationUpdateLog
                              ELSE Append(verificationUpdateLog, LogEntry(number, tree))

\* Both logs and both lists of update sets get the set of the new epoch.
LogUpdateSet(tree, number) ==
  /\ queryUpdatePrefixTrees' = Append(queryUpdatePrefixTrees, tree)
  /\ verificationUpdatePrefixTrees' = Append(verificationUpdatePrefixTrees, tree)
  /\ queryUpdateLog' = Append(queryUpdateLog, LogEntry(number, tree))
  /\ verificationUpdateLog' = Append(verificationUpdateLog, LogEntry(number, tree))

ClearLatestUpdates == latestUpdates' = <<>>

IncrementUpdateEpoch ==
  /\ epoch < MaxEpoch
  /\ LogUpdateSet(PrefixTreeOf(latestUpdates), epoch + 1)
  /\ ClearLatestUpdates
  /\ epoch' = epoch + 1
  /\ needToRollUp' = TRUE
  /\ UNCHANGED << baseTree, verificationEpoch, pos, hashChain, history >>
  /\ publishedDigest' = NextDigest

\* Slip: the verification log is reset before it is handed over.
RollOverResetFirst ==
  /\ queryUpdateLog' = <<>>
  /\ queryUpdatePrefixTrees' = <<>>
  /\ verificationUpdateLog' = <<>>
  /\ verificationUpdatePrefixTrees' = <<>>

\* The log of the period that ends serves queries; a new one is begun.
RollOverLogs ==
  /\ queryUpdateLog' = verificationUpdateLog
  /\ queryUpdatePrefixTrees' = verificationUpdatePrefixTrees
  /\ verificationUpdateLog' = <<>>
  /\ verificationUpdatePrefixTrees' = <<>>

\* Slip: a verification period needs no update epoch before it.
AlwaysRollUp == TRUE

MayRollUp == needToRollUp

IncrementVerificationPeriod ==
  /\ verificationEpoch < MaxPeriod
  /\ MayRollUp
  /\ baseTree' = NextEpoch(baseTree)
  /\ verificationEpoch' = verificationEpoch + 1
  /\ RollOverLogs
  /\ hashChain' = Append(hashChain, ChainLink(baseTree', verificationEpoch', epoch))
  /\ needToRollUp' = FALSE
  /\ UNCHANGED << latestUpdates, epoch, pos, history >>
  /\ publishedDigest' = NextDigest

Next ==
  \/ \E id \in Ids : AppendUpdate(id)
  \/ IncrementUpdateEpoch
  \/ IncrementVerificationPeriod

Spec == Init /\ [][Next]_vars

-----------------------------------------------------------------------------
(* What lookups can prove.                                                 *)

\* GenerateExistenceProof of an identifier: the values in the base tree of two
\* periods ago, and for each update set of the query log those in it.
GenerateExistenceProof(id) ==
  [ BaseTreeProof   |-> ToSet(ValuesAt(baseTree, id, verificationEpoch - 2)),
    UpdateLogProofs |-> [ i \in DOMAIN queryUpdatePrefixTrees |->
                            { u.pos : u \in { v \in queryUpdatePrefixTrees[i] : v.id = id } } ] ]

InQuerySets == UNION ToSet(queryUpdatePrefixTrees)

\* The updates given to the base tree by the end of a period.
GivenToBaseTree(period) == { h.update : h \in { g \in history : g.period <= period } }

\* The updates in the part of the state that existence proofs are made from: in
\* an update set of the query log, or given to the version of the base tree that
\* lookups use.  Whether that version kept what it was given is not a matter of
\* the roll-over; BaseTree is about that.
Provable == InQuerySets \cup GivenToBaseTree(verificationEpoch - 2)

-----------------------------------------------------------------------------
TypeOK ==
  /\ queryUpdatePrefixTrees \in Seq(SUBSET Update)
  /\ verificationUpdatePrefixTrees \in Seq(SUBSET Update)
  /\ queryUpdateLog \in Seq([epoch : Nat, root : SUBSET Update])
  /\ verificationUpdateLog \in Seq([epoch : Nat, root : SUBSET Update])
  /\ latestUpdates \in Seq(Update)
  /\ epoch \in Nat
  /\ verificationEpoch \in Nat
  /\ pos \in 0 .. MaxUpdates
  /\ needToRollUp \in BOOLEAN
  /\ history \in SUBSET [update : Update, period : Nat]

\* No accepted update is out of reach of lookups: it waits for the next update
\* epoch, or is in an update set of the query log, or was given to the version
\* of the base tree that lookups use, however update epochs and verification
\* periods alternate and however an append falls between them.
NothingForgotten ==
  \A h \in history : h.update \in ToSet(latestUpdates) \cup Provable

\* An update waits no longer than its own period and the one after it before an
\* update epoch takes it: when a period ends that has had an update epoch, what
\* still waits was appended in that period.
PendingIsRecent ==
  \A h \in history : h.update \in ToSet(latestUpdates) =>
    h.period >= verificationEpoch - (IF needToRollUp THEN 0 ELSE 1)

\* The verification sets are what the next roll-over must keep: they lie within
\* the query sets, hold every published update of the current period, and the
\* query sets that the roll-over drops hold older updates only, which the base
\* tree of that period covers.
RollOverKeepsWhatItMust ==
  LET kept == UNION ToSet(verificationUpdatePrefixTrees)
  IN  /\ kept \subseteq InQuerySets
      /\ InQuerySets \ kept \subseteq GivenToBaseTree(verificationEpoch - 1)
      /\ \A h \in history :
           /\ h.period <= verificationEpoch
           /\ h.period = verificationEpoch => h.update \in kept \cup ToSet(latestUpdates)
           /\ h.period = verificationEpoch - 1 => h.update \in InQuerySets \cup ToSet(latestUpdates)

\* A log's leaves are the roots of the given sets, numbered by consecutive
\* epochs up to the given one.
Commits(log, trees, number) ==
  /\ Len(log) = Len(trees)
  /\ \A i \in DOMAIN log : log[i] = LogEntry(number - Len(log) + i, trees[i])

\* The leaves of an update log are the roots of the update sets kept with it,
\* numbered by consecutive update epochs of which the last is the current one:
\* the digest's UpdateSetRoots are what its UpdateLogRoot commits to.
LogsMatchSets ==
  /\ Commits(queryUpdateLog, queryUpdatePrefixTrees, epoch)
  /\ Commits(verificationUpdateLog, verificationUpdatePrefixTrees, epoch)

\* GetDigest never meets an update log without a root: the server takes a digest
\* only where the query log has a leaf, so it does not dereference nil.
DigestHasRoot ==
  /\ epoch > 0 => publishedDigest.UpdateLogRoot # NilRoot
  /\ epoch > 0 => queryUpdateLog # <<>>
  /\ needToRollUp => verificationUpdateLog # <<>>

\* The partition keeps the promise of UpdateDirectory: an update epoch publishes
\* everything pending at once and a verification period shows nothing.
Directory == INSTANCE UpdateDirectory WITH pending <- latestUpdates, provable <- Provable
ImplementsDirectory == Directory!Spec

\* "inc verification period twice to move preloaded data to query copy": after
\* two verification periods the base tree that lookups use has the update.
TwoPeriodsMoveToQueryCopy ==
  \A update \in GivenToBaseTree(verificationEpoch - 2) :
    update.pos \in GenerateExistenceProof(update.id).BaseTreeProof
=============================================================================
