--------------------------- MODULE PartitionProofs ---------------------------
(***************************************************************************)
(* Theorems about Partition and the two modules that build on it,          *)
(* AggHistPartition and Lookup, for every set of identifiers, all bounds   *)
(* and every depth of the forest.                                          *)
(*                                                                         *)
(* The base tree takes part through history alone, so nothing here depends *)
(* on what Insert and NextEpoch do; BaseTreeProofs is about that.          *)
(***************************************************************************)
EXTENDS AggHistPartition, Lookup, SequenceLemmas, TLAPS

\* A list of update sets with one more covers that set's updates too.
LEMMA UnionAppend ==
  ASSUME NEW s \in Seq(SUBSET Update), NEW e \in SUBSET Update
  PROVE  UNION ToSet(Append(s, e)) = (UNION ToSet(s)) \cup e
  BY ToSetAppend

-----------------------------------------------------------------------------
(* Type correctness.                                                       *)

\* A new partition is well typed.
LEMMA InitTypeOK == Init => TypeOK
<1> SUFFICES ASSUME Init PROVE TypeOK
  OBVIOUS
<1>1. /\ queryUpdatePrefixTrees \in Seq(SUBSET Update)
      /\ verificationUpdatePrefixTrees \in Seq(SUBSET Update)
      /\ latestUpdates \in Seq(Update)
  BY DEF Init
<1>2. /\ queryUpdateLog \in Seq([epoch : Nat, root : SUBSET Update])
      /\ verificationUpdateLog \in Seq([epoch : Nat, root : SUBSET Update])
  BY DEF Init
<1>3. epoch \in Nat /\ verificationEpoch \in Nat /\ pos \in 0 .. MaxUpdates
  BY BoundsAssumption DEF Init
<1>4. needToRollUp \in BOOLEAN /\ history \in SUBSET [update : Update, period : Nat]
  BY DEF Init
<1> QED
  BY <1>1, <1>2, <1>3, <1>4 DEF TypeOK

\* Every state that Append, IncrementUpdateEpoch and
\* IncrementVerificationPeriod reach is well typed; in particular no update's
\* position passes the bound and both logs hold sets of updates.
THEOREM TypeCorrect == Spec => []TypeOK
<1>1. Init => TypeOK
  BY InitTypeOK
<1>2. TypeOK /\ [Next]_vars => TypeOK'
  <2> SUFFICES ASSUME TypeOK, [Next]_vars PROVE TypeOK'
    OBVIOUS
  <2>1. ASSUME NEW id \in Ids, AppendUpdate(id) PROVE TypeOK'
    <3>1. NewUpdate(id) \in Update /\ pos + 1 \in 0 .. MaxUpdates
      BY <2>1, BoundsAssumption DEF AppendUpdate, NewUpdate, Update, TypeOK
    <3>2. latestUpdates' \in Seq(Update) /\ pos' \in 0 .. MaxUpdates
      BY <2>1, <3>1 DEF AppendUpdate, TypeOK
    <3>3. history' \in SUBSET [update : Update, period : Nat]
      BY <2>1, <3>1 DEF AppendUpdate, TypeOK
    <3> QED
      BY <2>1, <3>2, <3>3 DEF AppendUpdate, TypeOK, logVars
  <2>2. CASE IncrementUpdateEpoch
    <3>1. ToSet(latestUpdates) \in SUBSET Update
      BY ToSetType DEF TypeOK
    <3>2. LogEntry(epoch + 1, ToSet(latestUpdates)) \in [epoch : Nat, root : SUBSET Update]
      BY <3>1 DEF LogEntry, TypeOK
    <3>3. /\ queryUpdatePrefixTrees' \in Seq(SUBSET Update)
          /\ verificationUpdatePrefixTrees' \in Seq(SUBSET Update)
      BY <2>2, <3>1 DEF IncrementUpdateEpoch, LogUpdateSet, PrefixTreeOf, TypeOK
    <3>4. /\ queryUpdateLog' \in Seq([epoch : Nat, root : SUBSET Update])
          /\ verificationUpdateLog' \in Seq([epoch : Nat, root : SUBSET Update])
      BY <2>2, <3>2 DEF IncrementUpdateEpoch, LogUpdateSet, PrefixTreeOf, TypeOK
    <3>5. latestUpdates' \in Seq(Update) /\ epoch' \in Nat /\ needToRollUp' \in BOOLEAN
      BY <2>2 DEF IncrementUpdateEpoch, ClearLatestUpdates, TypeOK
    <3>6. UNCHANGED << verificationEpoch, pos, history >>
      BY <2>2 DEF IncrementUpdateEpoch
    <3> QED
      BY <3>3, <3>4, <3>5, <3>6 DEF TypeOK
  <2>3. CASE IncrementVerificationPeriod
    <3>1. /\ queryUpdatePrefixTrees' \in Seq(SUBSET Update)
          /\ verificationUpdatePrefixTrees' \in Seq(SUBSET Update)
          /\ queryUpdateLog' \in Seq([epoch : Nat, root : SUBSET Update])
          /\ verificationUpdateLog' \in Seq([epoch : Nat, root : SUBSET Update])
      BY <2>3 DEF IncrementVerificationPeriod, RollOverLogs, TypeOK
    <3>2. verificationEpoch' = verificationEpoch + 1 /\ needToRollUp' = FALSE
      BY <2>3, Zenon DEF IncrementVerificationPeriod
    <3>3. UNCHANGED << latestUpdates, epoch, pos, history >>
      BY <2>3 DEF IncrementVerificationPeriod
    <3>4. verificationEpoch' \in Nat
      BY <3>2 DEF TypeOK
    <3>5. needToRollUp' \in BOOLEAN
      BY <3>2
    <3> QED
      BY <3>1, <3>3, <3>4, <3>5 DEF TypeOK
  <2>4. CASE UNCHANGED vars
    BY <2>4 DEF vars, logVars, TypeOK
  <2> QED
    BY <2>1, <2>2, <2>3, <2>4 DEF Next
<1> QED
  BY <1>1, <1>2, PTL DEF Spec

-----------------------------------------------------------------------------
(* Update logs and digests.                                                *)

\* The log and the list of update sets, each one longer, still match.
LEMMA CommitsAppend ==
  ASSUME NEW log \in Seq([epoch : Nat, root : SUBSET Update]),
         NEW trees \in Seq(SUBSET Update), NEW tree \in SUBSET Update,
         NEW number \in Nat,
         Commits(log, trees, number)
  PROVE  Commits(Append(log, LogEntry(number + 1, tree)), Append(trees, tree), number + 1)
<1> DEFINE entry == LogEntry(number + 1, tree)
           log2   == Append(log, entry)
           trees2 == Append(trees, tree)
<1>1. entry \in [epoch : Nat, root : SUBSET Update] /\ Len(log) = Len(trees)
  BY DEF LogEntry, Commits
<1>2. Len(log2) = Len(log) + 1 /\ Len(trees2) = Len(trees) + 1
  BY <1>1
<1>3. ASSUME NEW i \in DOMAIN log2
      PROVE  log2[i] = LogEntry(number + 1 - Len(log2) + i, trees2[i])
  <2>1. i \in 1 .. Len(log) + 1 /\ Len(log) \in Nat
    BY <1>1, <1>2
  <2>2. CASE i = Len(log) + 1
    <3>1. log2[i] = entry /\ trees2[i] = tree
      BY <2>2, <1>1
    <3> HIDE DEF log2, trees2
    <3>2. number + 1 - Len(log2) + i = number + 1
      BY <2>1, <2>2, <1>2
    <3> QED
      BY <3>1, <3>2
  <2>3. CASE i \in 1 .. Len(log)
    <3>1. log2[i] = log[i] /\ trees2[i] = trees[i]
      BY <2>3, <1>1
    <3>2. i \in DOMAIN log
      BY <2>3
    <3> HIDE DEF log2, trees2
    <3>3. number + 1 - Len(log2) + i = number - Len(log) + i
      BY <2>1, <1>2
    <3> QED
      BY <3>1, <3>2, <3>3 DEF Commits
  <2> HIDE DEF log2, trees2
  <2> QED
    BY <2>1, <2>2, <2>3
<1> QED
  BY <1>2, <1>3 DEF Commits

\* In every state the leaves of both update logs are the roots of the update
\* sets kept with them, numbered by consecutive epochs up to the current one,
\* so a digest's UpdateSetRoots are what its UpdateLogRoot commits to.
THEOREM LogsAlwaysMatchSets == Spec => []LogsMatchSets
<1>1. Init => LogsMatchSets
  BY DEF Init, LogsMatchSets, Commits
<1>2. TypeOK /\ LogsMatchSets /\ [Next]_vars => LogsMatchSets'
  <2> SUFFICES ASSUME TypeOK, LogsMatchSets, [Next]_vars PROVE LogsMatchSets'
    OBVIOUS
  <2>1. ASSUME NEW id \in Ids, AppendUpdate(id) PROVE LogsMatchSets'
    BY <2>1 DEF AppendUpdate, logVars, LogsMatchSets
  <2>2. CASE IncrementUpdateEpoch
    <3> DEFINE tree == PrefixTreeOf(latestUpdates)
    <3>1. tree \in SUBSET Update /\ epoch \in Nat
      BY ToSetType DEF TypeOK, PrefixTreeOf
    <3>2. /\ queryUpdateLog' = Append(queryUpdateLog, LogEntry(epoch + 1, tree))
          /\ queryUpdatePrefixTrees' = Append(queryUpdatePrefixTrees, tree)
          /\ verificationUpdateLog' = Append(verificationUpdateLog, LogEntry(epoch + 1, tree))
          /\ verificationUpdatePrefixTrees' = Append(verificationUpdatePrefixTrees, tree)
          /\ epoch' = epoch + 1
      BY <2>2 DEF IncrementUpdateEpoch, LogUpdateSet
    <3>3. Commits(queryUpdateLog', queryUpdatePrefixTrees', epoch')
      BY <3>1, <3>2, CommitsAppend DEF TypeOK, LogsMatchSets
    <3>4. Commits(verificationUpdateLog', verificationUpdatePrefixTrees', epoch')
      BY <3>1, <3>2, CommitsAppend DEF TypeOK, LogsMatchSets
    <3> QED
      BY <3>3, <3>4 DEF LogsMatchSets
  <2>3. CASE IncrementVerificationPeriod
    BY <2>3 DEF IncrementVerificationPeriod, RollOverLogs, LogsMatchSets, Commits
  <2>4. CASE UNCHANGED vars
    BY <2>4 DEF vars, logVars, LogsMatchSets
  <2> QED
    BY <2>1, <2>2, <2>3, <2>4 DEF Next
<1> QED
  BY <1>1, <1>2, TypeCorrect, PTL DEF Spec

\* No digest is ever taken of an update log without a root: GetDigest never
\* dereferences nil under the calls the server makes.
THEOREM DigestAlwaysHasRoot == Spec => []DigestHasRoot
<1>1. Init => DigestHasRoot
  BY DEF Init, DigestHasRoot
<1>2. TypeOK /\ DigestHasRoot /\ [Next]_vars => DigestHasRoot'
  <2> SUFFICES ASSUME TypeOK, DigestHasRoot, [Next]_vars PROVE DigestHasRoot'
    OBVIOUS
  <2>1. ASSUME NEW id \in Ids, AppendUpdate(id) PROVE DigestHasRoot'
    BY <2>1 DEF AppendUpdate, logVars, DigestHasRoot
  <2>2. CASE IncrementUpdateEpoch
    <3> DEFINE entry == LogEntry(epoch + 1, PrefixTreeOf(latestUpdates))
               Entries == [epoch : Nat, root : SUBSET Update]
    <3>1. entry \in Entries
      BY ToSetType DEF LogEntry, PrefixTreeOf, TypeOK
    <3>2. /\ queryUpdateLog' = Append(queryUpdateLog, entry)
          /\ verificationUpdateLog' = Append(verificationUpdateLog, entry)
      BY <2>2 DEF IncrementUpdateEpoch, LogUpdateSet
    <3>3. queryUpdateLog \in Seq(Entries) /\ verificationUpdateLog \in Seq(Entries)
      BY DEF TypeOK
    <3> HIDE DEF entry, Entries
    <3>4. queryUpdateLog' # <<>> /\ verificationUpdateLog' # <<>>
      BY <3>1, <3>2, <3>3
    <3>5. publishedDigest'.UpdateLogRoot = queryUpdateLog'
      BY <2>2 DEF IncrementUpdateEpoch, NextDigest, Digest
    <3> QED
      BY <3>4, <3>5 DEF DigestHasRoot, NilRoot
  <2>3. CASE IncrementVerificationPeriod
    <3>1. queryUpdateLog' # <<>> /\ ~ needToRollUp'
      BY <2>3 DEF IncrementVerificationPeriod, MayRollUp, RollOverLogs, DigestHasRoot
    <3>2. publishedDigest'.UpdateLogRoot = queryUpdateLog'
      BY <2>3 DEF IncrementVerificationPeriod, NextDigest, Digest
    <3> QED
      BY <3>1, <3>2 DEF DigestHasRoot, NilRoot
  <2>4. CASE UNCHANGED vars
    BY <2>4 DEF vars, logVars, DigestHasRoot
  <2> QED
    BY <2>1, <2>2, <2>3, <2>4 DEF Next
<1> QED
  BY <1>1, <1>2, TypeCorrect, PTL DEF Spec
-----------------------------------------------------------------------------
(* Nothing is forgotten.                                                   *)

\* What makes the safety invariants inductive: positions are fresh, and what is
\* pending or in a verification set was appended by now.
PositionsAndSources ==
  /\ \A h \in history : h.update.pos < pos
  /\ ToSet(latestUpdates) \subseteq GivenToBaseTree(verificationEpoch)
  /\ UNION ToSet(verificationUpdatePrefixTrees) \subseteq GivenToBaseTree(verificationEpoch)

IInv ==
  /\ TypeOK
  /\ PositionsAndSources
  /\ NothingForgotten
  /\ PendingIsRecent
  /\ RollOverKeepsWhatItMust

\* The inductive invariant holds of a new partition.
LEMMA InitIInv == Init => IInv
<1> SUFFICES ASSUME Init PROVE IInv
  OBVIOUS
<1>1. TypeOK
  BY InitTypeOK
<1>2. /\ ToSet(latestUpdates) = {} /\ ToSet(verificationUpdatePrefixTrees) = {}
      /\ ToSet(queryUpdatePrefixTrees) = {} /\ history = {}
  BY ToSetEmpty DEF Init
<1>3. PositionsAndSources
  BY <1>2 DEF PositionsAndSources
<1>4. NothingForgotten /\ PendingIsRecent
  BY <1>2 DEF NothingForgotten, PendingIsRecent
<1>5. RollOverKeepsWhatItMust
  BY <1>2 DEF RollOverKeepsWhatItMust, InQuerySets
<1> QED
  BY <1>1, <1>3, <1>4, <1>5 DEF IInv

\* An append keeps the invariant: the new update is pending, is of the current
\* period and, its position being fresh, is none of the earlier ones.
LEMMA AppendIInv ==
  ASSUME IInv, TypeOK', NEW id \in Ids, AppendUpdate(id)
  PROVE  IInv'
<1> DEFINE u == NewUpdate(id)
<1>1. /\ history' = history \cup { [update |-> u, period |-> verificationEpoch] }
      /\ pos' = pos + 1
      /\ UNCHANGED << logVars, verificationEpoch, needToRollUp >>
  BY DEF AppendUpdate
<1>2. u \in Update /\ u.pos = pos
  BY BoundsAssumption DEF AppendUpdate, NewUpdate, Update, IInv, TypeOK
<1>3. ToSet(latestUpdates') = ToSet(latestUpdates) \cup {u}
  BY <1>2, ToSetAppend DEF AppendUpdate, IInv, TypeOK
<1>4. /\ UNCHANGED InQuerySets
      /\ UNCHANGED ToSet(verificationUpdatePrefixTrees)
  BY <1>1 DEF logVars, InQuerySets
<1>5. /\ pos \in Int /\ verificationEpoch \in Nat
      /\ \A h \in history : h.period \in Nat
      /\ \A h \in history : h.update.pos < pos /\ h.update # u
  <2>1. pos \in Int /\ verificationEpoch \in Nat
    BY BoundsAssumption DEF IInv, TypeOK
  <2>2. \A h \in history : h.period \in Nat
    BY DEF IInv, TypeOK
  <2>3. \A h \in history : h.update.pos < pos
    BY DEF IInv, PositionsAndSources
  <2>4. \A h \in history : h.update # u
    BY <1>2, <2>1, <2>3
  <2> QED
    BY <2>1, <2>2, <2>3, <2>4
<1> HIDE DEF u
<1>6. /\ GivenToBaseTree(verificationEpoch)' = GivenToBaseTree(verificationEpoch) \cup {u}
      /\ GivenToBaseTree(verificationEpoch - 1)' = GivenToBaseTree(verificationEpoch - 1)
      /\ GivenToBaseTree(verificationEpoch - 2)' = GivenToBaseTree(verificationEpoch - 2)
  <2> DEFINE new == [update |-> u, period |-> verificationEpoch]
  <2>1. \A period \in {verificationEpoch - 1, verificationEpoch - 2} : ~ new.period <= period
    BY <1>5
  <2>2. new.period <= verificationEpoch
    BY <1>5
  <2>3. new.update = u
    OBVIOUS
  <2>4. history' = history \cup {new} /\ verificationEpoch' = verificationEpoch
    BY <1>1
  <2> HIDE DEF new
  <2> QED
    BY <2>1, <2>2, <2>3, <2>4 DEF GivenToBaseTree
<1>7. PositionsAndSources'
  <2>1. \A h \in history : h.update.pos \in Int
    BY DEF IInv, TypeOK, Update
  <2>2. \A h \in history' : h.update.pos < pos'
    BY <1>1, <1>2, <1>5, <2>1
  <2> QED
    BY <2>2, <1>3, <1>4, <1>6 DEF PositionsAndSources, IInv
<1>8. NothingForgotten'
  BY <1>1, <1>3, <1>4, <1>6 DEF NothingForgotten, Provable, IInv
<1>9. PendingIsRecent'
  <2> SUFFICES ASSUME NEW h \in history', h.update \in ToSet(latestUpdates')
               PROVE  h.period >= verificationEpoch - (IF needToRollUp THEN 0 ELSE 1)
    BY <1>1 DEF PendingIsRecent
  <2>1. CASE h \in history
    BY <2>1, <1>3, <1>5 DEF PendingIsRecent, IInv
  <2>2. CASE h = [update |-> u, period |-> verificationEpoch]
    BY <2>2, <1>5
  <2> QED
    BY <2>1, <2>2, <1>1
<1>10. RollOverKeepsWhatItMust'
  <2>1. \A h \in history' :
          /\ h.period <= verificationEpoch
          /\ h.period = verificationEpoch =>
               h.update \in (UNION ToSet(verificationUpdatePrefixTrees)) \cup ToSet(latestUpdates')
          /\ h.period = verificationEpoch - 1 =>
               h.update \in InQuerySets \cup ToSet(latestUpdates')
    <3> SUFFICES ASSUME NEW h \in history'
                 PROVE  /\ h.period <= verificationEpoch
                        /\ h.period = verificationEpoch =>
                             h.update \in (UNION ToSet(verificationUpdatePrefixTrees))
                                            \cup ToSet(latestUpdates')
                        /\ h.period = verificationEpoch - 1 =>
                             h.update \in InQuerySets \cup ToSet(latestUpdates')
      OBVIOUS
    <3>1. CASE h \in history
      <4>1. RollOverKeepsWhatItMust
        BY DEF IInv
      <4> QED
        BY <3>1, <4>1, <1>3 DEF RollOverKeepsWhatItMust
    <3>2. CASE h = [update |-> u, period |-> verificationEpoch]
      <4>1. h.period = verificationEpoch /\ h.update = u
        BY <3>2
      <4>2. h.period # verificationEpoch - 1 /\ h.period <= verificationEpoch
        BY <4>1, <1>5
      <4> QED
        BY <4>1, <4>2, <1>3
    <3> QED
      BY <3>1, <3>2, <1>1
  <2>2. UNION ToSet(verificationUpdatePrefixTrees') = UNION ToSet(verificationUpdatePrefixTrees)
    BY <1>4
  <2>3. verificationEpoch' = verificationEpoch
    BY <1>1
  <2>4. RollOverKeepsWhatItMust
    BY DEF IInv
  <2> QED
    BY <2>1, <2>2, <2>3, <2>4, <1>4, <1>6 DEF RollOverKeepsWhatItMust
<1> QED
  BY <1>7, <1>8, <1>9, <1>10 DEF IInv

\* What an update epoch does to the sets: the pending updates join both lists.
LEMMA PublishSets ==
  ASSUME TypeOK, IncrementUpdateEpoch
  PROVE  /\ ToSet(latestUpdates') = {}
         /\ InQuerySets' = InQuerySets \cup ToSet(latestUpdates)
         /\ UNION ToSet(verificationUpdatePrefixTrees') =
              (UNION ToSet(verificationUpdatePrefixTrees)) \cup ToSet(latestUpdates)
         /\ UNCHANGED << history, verificationEpoch, pos >>
<1> DEFINE tree == ToSet(latestUpdates)
<1>1. tree \in SUBSET Update
  BY ToSetType DEF TypeOK
<1>2. /\ latestUpdates' = <<>>
      /\ queryUpdatePrefixTrees' = Append(queryUpdatePrefixTrees, tree)
      /\ verificationUpdatePrefixTrees' = Append(verificationUpdatePrefixTrees, tree)
      /\ UNCHANGED << history, verificationEpoch, pos >>
  BY DEF IncrementUpdateEpoch, LogUpdateSet, ClearLatestUpdates, PrefixTreeOf
<1>3. /\ UNION ToSet(queryUpdatePrefixTrees') = (UNION ToSet(queryUpdatePrefixTrees)) \cup tree
      /\ UNION ToSet(verificationUpdatePrefixTrees') =
           (UNION ToSet(verificationUpdatePrefixTrees)) \cup tree
  <2>1. /\ queryUpdatePrefixTrees \in Seq(SUBSET Update)
        /\ verificationUpdatePrefixTrees \in Seq(SUBSET Update)
    BY DEF TypeOK
  <2> HIDE DEF tree
  <2>2. \A s \in Seq(SUBSET Update) : UNION ToSet(Append(s, tree)) = (UNION ToSet(s)) \cup tree
    BY <1>1, UnionAppend
  <2> QED
    BY <1>2, <2>1, <2>2
<1> QED
  BY <1>2, <1>3, ToSetEmpty DEF InQuerySets

\* An update epoch keeps the invariant: what was pending is now in the query
\* and in the verification sets.
LEMMA UpdateEpochIInv ==
  ASSUME IInv, TypeOK', IncrementUpdateEpoch
  PROVE  IInv'
<1>1. TypeOK
  BY DEF IInv
<1>2. /\ GivenToBaseTree(verificationEpoch)' = GivenToBaseTree(verificationEpoch)
      /\ GivenToBaseTree(verificationEpoch - 1)' = GivenToBaseTree(verificationEpoch - 1)
      /\ GivenToBaseTree(verificationEpoch - 2)' = GivenToBaseTree(verificationEpoch - 2)
  BY <1>1, PublishSets DEF GivenToBaseTree
<1>3. PositionsAndSources'
  BY <1>1, <1>2, PublishSets DEF PositionsAndSources, IInv
<1>4. NothingForgotten'
  BY <1>1, <1>2, PublishSets DEF NothingForgotten, Provable, IInv
<1>5. PendingIsRecent'
  BY <1>1, PublishSets DEF PendingIsRecent
<1>6. RollOverKeepsWhatItMust'
  BY <1>1, <1>2, PublishSets DEF RollOverKeepsWhatItMust, IInv
<1> QED
  BY <1>3, <1>4, <1>5, <1>6 DEF IInv

\* What a verification period does to the sets: the verification sets become
\* the query sets, and the base tree that lookups use moves on by one period.
LEMMA RollOverSets ==
  ASSUME TypeOK, IncrementVerificationPeriod
  PROVE  /\ InQuerySets' = UNION ToSet(verificationUpdatePrefixTrees)
         /\ ToSet(verificationUpdatePrefixTrees') = {}
         /\ verificationEpoch' = verificationEpoch + 1
         /\ verificationEpoch' - 2 = verificationEpoch - 1
         /\ verificationEpoch' - 1 = verificationEpoch
         /\ UNCHANGED << history, latestUpdates, pos >>
         /\ needToRollUp /\ ~ needToRollUp'
<1>1. needToRollUp /\ ~ needToRollUp'
  BY Zenon DEF IncrementVerificationPeriod, MayRollUp
<1>2. verificationEpoch' = verificationEpoch + 1 /\ verificationEpoch \in Nat
  BY DEF IncrementVerificationPeriod, TypeOK
<1>3. verificationEpoch' - 2 = verificationEpoch - 1 /\ verificationEpoch' - 1 = verificationEpoch
  BY <1>2
<1> QED
  BY <1>1, <1>2, <1>3, ToSetEmpty DEF IncrementVerificationPeriod, RollOverLogs, InQuerySets

\* A verification period loses nothing and shows nothing: every query set
\* element it drops is in the base tree version that lookups turn to.
LEMMA RollOverKeepsProvable ==
  ASSUME IInv, IncrementVerificationPeriod
  PROVE  Provable' = Provable
<1> DEFINE kept == UNION ToSet(verificationUpdatePrefixTrees)
<1>1. TypeOK /\ verificationEpoch \in Nat /\ \A h \in history : h.period \in Nat
  BY DEF IInv, TypeOK
<1>2. Provable' = kept \cup GivenToBaseTree(verificationEpoch - 1)
  <2>1. GivenToBaseTree(verificationEpoch - 2)' = GivenToBaseTree(verificationEpoch - 1)
    BY <1>1, RollOverSets DEF GivenToBaseTree
  <2> QED
    BY <1>1, <2>1, RollOverSets DEF Provable
<1>3. Provable' \subseteq Provable
  <2>1. kept \subseteq Provable
    BY DEF IInv, RollOverKeepsWhatItMust, Provable
  <2>2. ASSUME NEW h \in history, h.period <= verificationEpoch - 1
        PROVE  h.update \in Provable
    <3>1. CASE h.period <= verificationEpoch - 2
      BY <3>1 DEF Provable, GivenToBaseTree
    <3>2. CASE h.period = verificationEpoch - 1
      <4>1. h.update \notin ToSet(latestUpdates)
        BY <1>1, <3>2, RollOverSets DEF IInv, PendingIsRecent
      <4> QED
        BY <3>2, <4>1 DEF IInv, RollOverKeepsWhatItMust, Provable
    <3> QED
      BY <3>1, <3>2, <2>2, <1>1
  <2> QED
    BY <1>2, <2>1, <2>2 DEF GivenToBaseTree
<1>4. Provable \subseteq Provable'
  <2>1. InQuerySets \subseteq kept \cup GivenToBaseTree(verificationEpoch - 1)
    BY DEF IInv, RollOverKeepsWhatItMust
  <2>2. GivenToBaseTree(verificationEpoch - 2) \subseteq GivenToBaseTree(verificationEpoch - 1)
    BY <1>1 DEF GivenToBaseTree
  <2> QED
    BY <1>2, <2>1, <2>2 DEF Provable
<1> QED
  BY <1>3, <1>4

\* A verification period keeps the invariant.
LEMMA RollOverIInv ==
  ASSUME IInv, TypeOK', IncrementVerificationPeriod
  PROVE  IInv'
<1> DEFINE kept == UNION ToSet(verificationUpdatePrefixTrees)
<1>1. TypeOK /\ verificationEpoch \in Nat /\ \A h \in history : h.period \in Nat
  BY DEF IInv, TypeOK
<1>2. \A h \in history : h.period <= verificationEpoch
  BY DEF IInv, RollOverKeepsWhatItMust
<1>3. /\ GivenToBaseTree(verificationEpoch)' = GivenToBaseTree(verificationEpoch)
      /\ GivenToBaseTree(verificationEpoch - 1)' = GivenToBaseTree(verificationEpoch)
  BY <1>1, <1>2, RollOverSets DEF GivenToBaseTree
<1>4. PositionsAndSources'
  BY <1>1, <1>3, RollOverSets DEF PositionsAndSources, IInv
<1>5. NothingForgotten'
  BY <1>1, RollOverSets, RollOverKeepsProvable DEF NothingForgotten, IInv
<1>6. PendingIsRecent'
  BY <1>1, RollOverSets DEF PendingIsRecent, IInv
<1>7. RollOverKeepsWhatItMust'
  <2>1. \A h \in history' :
          /\ h.period <= verificationEpoch' /\ h.period # verificationEpoch'
          /\ h.period = verificationEpoch' - 1 => h.update \in kept \cup ToSet(latestUpdates')
    BY <1>1, <1>2, RollOverSets DEF IInv, RollOverKeepsWhatItMust
  <2>2. InQuerySets' = kept /\ kept \subseteq GivenToBaseTree(verificationEpoch)
    BY <1>1, RollOverSets DEF IInv, PositionsAndSources
  <2> QED
    BY <1>1, <2>1, <2>2, <1>3, RollOverSets DEF RollOverKeepsWhatItMust
<1> QED
  BY <1>4, <1>5, <1>6, <1>7 DEF IInv

\* The invariant holds in every state.
LEMMA Invariance == Spec => []IInv
<1>1. IInv /\ TypeOK' /\ [Next]_vars => IInv'
  <2> SUFFICES ASSUME IInv, TypeOK', [Next]_vars PROVE IInv'
    OBVIOUS
  <2>1. ASSUME NEW id \in Ids, AppendUpdate(id) PROVE IInv'
    BY <2>1, AppendIInv
  <2>2. CASE IncrementUpdateEpoch
    BY <2>2, UpdateEpochIInv
  <2>3. CASE IncrementVerificationPeriod
    BY <2>3, RollOverIInv
  <2>4. CASE UNCHANGED vars
    BY <2>4 DEF vars, logVars, IInv, TypeOK, PositionsAndSources, NothingForgotten,
      PendingIsRecent, RollOverKeepsWhatItMust, Provable, InQuerySets, GivenToBaseTree
  <2> QED
    BY <2>1, <2>2, <2>3, <2>4 DEF Next
<1> QED
  BY InitIInv, <1>1, TypeCorrect, PTL DEF Spec

\* However appends, update epochs and verification periods alternate, every
\* accepted update is pending or is where existence proofs are made from.
THEOREM NeverForgotten == Spec => []NothingForgotten
<1>1. IInv => NothingForgotten
  BY DEF IInv
<1> QED
  BY <1>1, Invariance, PTL

\* No update is pending for longer than its own verification period and the
\* next, as a period may only end after an update epoch.
THEOREM PendingStaysRecent == Spec => []PendingIsRecent
<1>1. IInv => PendingIsRecent
  BY DEF IInv
<1> QED
  BY <1>1, Invariance, PTL

\* In every state the verification sets hold what the next roll-over must keep.
THEOREM RollOverAlwaysSafe == Spec => []RollOverKeepsWhatItMust
<1>1. IInv => RollOverKeepsWhatItMust
  BY DEF IInv
<1> QED
  BY <1>1, Invariance, PTL

-----------------------------------------------------------------------------
(* Refinement.                                                             *)

\* The partition implements UpdateDirectory: an append is accepted, an update
\* epoch publishes all that is pending at once, and a verification period, with
\* its roll-over of logs and base tree, is a stuttering step.
THEOREM PartitionImplementsDirectory == Spec => ImplementsDirectory
<1>1. Init => Directory!Init
  BY ToSetEmpty DEF Init, Directory!Init, Provable, InQuerySets, GivenToBaseTree
<1>2. IInv /\ [Next]_vars => [Directory!Next]_(Directory!vars)
  <2> SUFFICES ASSUME IInv, [Next]_vars
               PROVE  Directory!Next \/ UNCHANGED << latestUpdates, Provable >>
    BY DEF Directory!vars
  <2>0. TypeOK
    BY DEF IInv
  <2>1. ASSUME NEW id \in Ids, AppendUpdate(id)
        PROVE  Directory!Next
    <3>1. /\ history' = history \cup { [update |-> NewUpdate(id), period |-> verificationEpoch] }
          /\ latestUpdates' = Append(latestUpdates, NewUpdate(id))
          /\ UNCHANGED << logVars, verificationEpoch >>
      BY <2>1 DEF AppendUpdate
    <3>2. NewUpdate(id) \in Update
      BY <2>0, <2>1, BoundsAssumption DEF AppendUpdate, NewUpdate, Update, TypeOK
    <3>3. GivenToBaseTree(verificationEpoch - 2)' = GivenToBaseTree(verificationEpoch - 2)
      BY <2>0, <3>1 DEF GivenToBaseTree, TypeOK
    <3>4. UNCHANGED Provable
      BY <3>1, <3>3 DEF Provable, InQuerySets, logVars
    <3> QED
      BY <3>1, <3>2, <3>4 DEF Directory!Next, Directory!Accept
  <2>2. CASE IncrementUpdateEpoch
    <3>1. GivenToBaseTree(verificationEpoch - 2)' = GivenToBaseTree(verificationEpoch - 2)
      BY <2>0, <2>2, PublishSets DEF GivenToBaseTree
    <3>2. Provable' = Provable \cup ToSet(latestUpdates)
      BY <2>0, <2>2, <3>1, PublishSets DEF Provable
    <3>3. latestUpdates' = <<>>
      BY <2>2 DEF IncrementUpdateEpoch, ClearLatestUpdates
    <3> QED
      BY <3>2, <3>3 DEF Directory!Next, Directory!Publish, Directory!ToSet, ToSet
  <2>3. CASE IncrementVerificationPeriod
    <3>1. latestUpdates' = latestUpdates
      BY <2>3 DEF IncrementVerificationPeriod
    <3>2. Provable' = Provable
      BY <2>3, RollOverKeepsProvable
    <3> QED
      BY <3>1, <3>2
  <2>4. CASE UNCHANGED vars
    BY <2>4 DEF vars, logVars, Provable, InQuerySets, GivenToBaseTree
  <2> QED
    BY <2>1, <2>2, <2>3, <2>4 DEF Next
<1> QED
  BY <1>1, <1>2, Invariance, PTL DEF Spec, ImplementsDirectory, Directory!Spec

(***************************************************************************)
(* AggHistPartition can prove the same updates as the default partition.   *)
(*                                                                         *)
(* The argument is about the forest: an append gives it one version more,  *)
(* and the last of its trees, however many it merges, is known by that     *)
(* version.                                                                *)
(***************************************************************************)

FirstRound(forest, leaf) ==
  [ p     |-> forest.next,
    nodes |-> WithNode(forest.nodes, forest.next, leaf),
    Roots |-> forest.Roots ]

Rounds == INSTANCE SequenceLemmas WITH
  LoopBody <- LAMBDA fixed, n, s : CompleteAbove(s), Claim <- LAMBDA fixed, n : TRUE

\* What CompleteFrom defines by recursion is the list of all rounds.
LEMMA RoundsOfAppend ==
  ASSUME NEW forest, NEW leaf
  PROVE  LET round == CompleteFrom(forest, leaf)
         IN  /\ round[0] = FirstRound(forest, leaf)
             /\ \A n \in Nat : round[n + 1] = CompleteAbove(round[n])
<1> DEFINE first == FirstRound(forest, leaf)
<1>1. CompleteFrom(forest, leaf) = Rounds!Loop(0, first)
  BY DEF CompleteFrom, FirstRound, Rounds!Loop, Rounds!IsLoop
<1>2. /\ Rounds!Loop(0, first)[0] = first
      /\ \A n \in Nat : Rounds!Loop(0, first)[n + 1] = CompleteAbove(Rounds!Loop(0, first)[n])
  BY Rounds!LoopRounds
<1> QED
  BY <1>1, <1>2

-----------------------------------------------------------------------------
(* Appends to the forest.                                                  *)

Index == (0 .. Depth) \X Int

\* A node that is known by a version.
IsKnownBy(node, period) ==
  "verificationPeriod" \in DOMAIN node /\ node.verificationPeriod = period

\* In every round the node that has just been completed is known by the
\* version that was appended.
RoundInv(s, period) ==
  /\ s.p \in Index
  /\ s.p \in DOMAIN s.nodes
  /\ s.Roots \in Seq(Index)
  /\ IsKnownBy(s.nodes[s.p], period)

\* The right child of an index.
LEMMA RightChildOf ==
  ASSUME NEW depth, NEW shift
  PROVE  RightChild(<< depth, shift >>) = << depth - 1, 2 * shift + 1 >>
  BY DEF RightChild

\* The right child of a right child's parent is that child.
LEMMA RightChildOfParent ==
  ASSUME NEW p \in Index, IsRightChild(p)
  PROVE  Parent(p) \in Index /\ RightChild(Parent(p)) = p
<1>1. p = << p[1], p[2] >> /\ p[1] \in 0 .. Depth /\ p[2] \in Int /\ Depth \in Nat
  BY DepthAssumption DEF Index
<1>2. p[2] % 2 = 1 /\ p[1] # Depth
  BY DEF IsRightChild, DepthOf
<1> DEFINE depth == p[1] + 1
           shift == p[2] \div 2
<1>3. depth \in 0 .. Depth /\ depth - 1 = p[1]
  BY <1>1, <1>2
<1>4. shift \in Int /\ 2 * shift + 1 = p[2]
  BY <1>1, <1>2
<1>5. Parent(p) = << depth, shift >>
  BY DEF Parent
<1> HIDE DEF depth, shift
<1>6. RightChild(Parent(p)) = << depth - 1, 2 * shift + 1 >>
  BY <1>5, RightChildOf
<1>7. Parent(p) \in Index
  BY <1>3, <1>4, <1>5 DEF Index
<1> QED
  BY <1>1, <1>3, <1>4, <1>6, <1>7

\* A round of the loop merges two trees into one that is known by the right
\* one's version.
LEMMA RoundSteps ==
  ASSUME NEW s, NEW period, RoundInv(s, period)
  PROVE  RoundInv(CompleteAbove(s), period)
<1>1. CASE ~ IsRightChild(s.p)
  BY <1>1 DEF CompleteAbove
<1>2. CASE IsRightChild(s.p)
  <2> DEFINE p     == Parent(s.p)
             node  == Completed(s.nodes[LeftChild(p)], s.nodes[RightChild(p)])
             nodes == WithNode(s.nodes, p, node)
  <2>1. CompleteAbove(s) = [p |-> p, nodes |-> nodes, Roots |-> Front(s.Roots)]
    BY <1>2 DEF CompleteAbove
  <2>2. p \in Index /\ RightChild(p) = s.p
    BY <1>2, RightChildOfParent DEF RoundInv
  <2>3. IsKnownBy(node, period)
    <3>1. node = [s.nodes[s.p] EXCEPT !.hash = << s.nodes[LeftChild(p)].hash, s.nodes[s.p].hash >>]
      BY <2>2 DEF Completed
    <3>2. IsKnownBy(s.nodes[s.p], period)
      BY DEF RoundInv
    <3> HIDE DEF node
    <3> QED
      BY <3>1, <3>2 DEF IsKnownBy
  <2>4. p \in DOMAIN nodes /\ nodes[p] = node
    BY DEF WithNode
  <2>5. Front(s.Roots) \in Seq(Index)
    <3>1. s.Roots \in Seq(Index)
      BY DEF RoundInv
    <3> QED
      BY <3>1 DEF Front
  <2> HIDE DEF p, node, nodes
  <2> QED
    BY <2>1, <2>2, <2>3, <2>4, <2>5 DEF RoundInv
<1> QED
  BY <1>1, <1>2

\* So it is after any number of rounds.
LEMMA RoundsKeep ==
  ASSUME NEW forest, forest.next \in Index, forest.Roots \in Seq(Index),
         NEW hash, NEW period, NEW n \in Nat
  PROVE  RoundInv(CompleteFrom(forest, CompletedLeaf(hash, period))[n], period)
<1> DEFINE leaf  == CompletedLeaf(hash, period)
           round == CompleteFrom(forest, leaf)
           Bad   == { k \in Nat : ~ RoundInv(round[k], period) }
<1>1. round[0] = FirstRound(forest, leaf) /\ \A k \in Nat : round[k + 1] = CompleteAbove(round[k])
  BY RoundsOfAppend
<1>2. RoundInv(round[0], period)
  <2>1. IsKnownBy(leaf, period)
    BY DEF CompletedLeaf, IsKnownBy
  <2> HIDE DEF leaf, round
  <2>2. FirstRound(forest, leaf).p = forest.next /\ FirstRound(forest, leaf).Roots = forest.Roots
    BY DEF FirstRound
  <2>3. /\ forest.next \in DOMAIN FirstRound(forest, leaf).nodes
        /\ FirstRound(forest, leaf).nodes[forest.next] = leaf
    BY DEF FirstRound, WithNode
  <2> QED
    BY <1>1, <2>1, <2>2, <2>3 DEF RoundInv
<1> HIDE DEF leaf, round
<1>3. Bad = {}
  <2> SUFFICES ASSUME Bad # {} PROVE FALSE
    OBVIOUS
  <2>1. PICK k \in Bad : \A j \in Bad : k <= j
    <3>1. Bad \in SUBSET Nat
      OBVIOUS
    <3> QED
      BY <3>1, LeastNumber
  <2>2. k # 0
    BY <1>2
  <2>3. k - 1 \in Nat /\ k - 1 + 1 = k /\ ~ (k <= k - 1)
    BY <2>2
  <2>4. RoundInv(round[k - 1], period)
    BY <2>1, <2>3
  <2>5. RoundInv(round[k - 1 + 1], period)
    BY <1>1, <2>3, <2>4, RoundSteps
  <2> QED
    BY <2>3, <2>5
<1> QED
  BY <1>3 DEF leaf, round

ForestOK(forest) ==
  /\ DOMAIN forest = {"nodes", "Roots", "next", "Size"}
  /\ forest.Size \in Nat
  /\ forest.next \in Index
  /\ forest.Roots \in Seq(Index)

\* An empty forest is well formed.
LEMMA NewForestOK == ForestOK(NewHistoryForest) /\ NewHistoryForest.Size = 0 /\ NewHistoryForest.Roots = <<>>
<1>1. << 0, 0 >> \in Index
  BY DepthAssumption DEF Index
<1> QED
  BY <1>1 DEF ForestOK, NewHistoryForest

\* The leaf after a tree's leaves is one of the tree's right sibling.
LEMMA LeafAfterType ==
  ASSUME NEW p \in Index
  PROVE  LeafAfter(p) \in Index
<1> DEFINE q == RightChild(Parent(p))
<1>1. p[1] \in 0 .. Depth /\ p[2] \in Int /\ Depth \in Nat
  BY DepthAssumption DEF Index
<1>2. q[1] = p[1] /\ q[2] \in Int /\ DepthOf(q) = p[1]
  <2> DEFINE depth == p[1] + 1
             shift == p[2] \div 2
  <2>1. depth \in Int /\ depth - 1 = p[1] /\ shift \in Int /\ 2 * shift + 1 \in Int
    BY <1>1
  <2>2. Parent(p) = << depth, shift >>
    BY DEF Parent
  <2> HIDE DEF depth, shift
  <2>3. q = << depth - 1, 2 * shift + 1 >>
    BY <2>2, RightChildOf
  <2> QED
    BY <2>1, <2>3 DEF DepthOf
<1> HIDE DEF q
<1>3. 0 \in 0 .. DepthOf(q) /\ DepthOf(q) - 0 = p[1] /\ 2 ^ p[1] \in Nat
  BY <1>1, <1>2, PowersAssumption
<1> DEFINE leaf == << 0, q[2] * 2 ^ p[1] >>
<1>4. leaf \in LeftSpine(q) /\ DepthOf(leaf) = 0
  <2>1. leaf = << 0, q[2] * 2 ^ (DepthOf(q) - 0) >>
    BY <1>3
  <2> QED
    BY <1>3, <2>1 DEF LeftSpine, DepthOf
<1>5. LeafAfter(p) \in LeftSpine(q) /\ DepthOf(LeafAfter(p)) = 0
  <2>1. LeafAfter(p) = CHOOSE l \in LeftSpine(q) : DepthOf(l) = 0
    BY DEF LeafAfter, q
  <2> HIDE DEF leaf
  <2> QED
    BY <1>4, <2>1, Zenon
<1>6. PICK d \in 0 .. DepthOf(q) : LeafAfter(p) = << d, q[2] * 2 ^ (DepthOf(q) - d) >>
  BY <1>5 DEF LeftSpine
<1>7. d = 0
  BY <1>5, <1>6 DEF DepthOf
<1>8. LeafAfter(p) = << 0, q[2] * 2 ^ p[1] >>
  BY <1>3, <1>6, <1>7
<1>9. q[2] * 2 ^ p[1] \in Int
  BY <1>2, <1>3
<1> QED
  BY <1>1, <1>8, <1>9 DEF Index

\* An append to a forest that is not full gives it one version more, and the
\* last of its trees is known by that version.
LEMMA ForestAppendSteps ==
  ASSUME NEW forest, ForestOK(forest), ~ IsFull(forest), NEW hash, NEW period
  PROVE  LET new == ForestAppend(forest, hash, period)
         IN  /\ ForestOK(new)
             /\ new.Size = forest.Size + 1
             /\ new.Roots # <<>>
             /\ new.nodes[Last(new.Roots)].verificationPeriod = period
<1> DEFINE end   == CompleteFrom(forest, CompletedLeaf(hash, period))[Depth]
           roots == Append(end.Roots, end.p)
           new   == [forest EXCEPT !.nodes = end.nodes, !.Roots = roots, !.Size = @ + 1]
           more  == [new EXCEPT !.nodes = WithGhostNodes(@, end.p), !.next = LeafAfter(end.p)]
<1>1. ForestAppend(forest, hash, period) = IF IsFull(new) THEN new ELSE more
  BY DEF ForestAppend
<1>2. RoundInv(end, period)
  <2>1. Depth \in Nat /\ forest.next \in Index /\ forest.Roots \in Seq(Index)
    BY DepthAssumption DEF ForestOK
  <2> QED
    BY <2>1, RoundsKeep
<1> HIDE DEF end
<1>3. /\ end.p \in Index /\ end.p \in DOMAIN end.nodes /\ end.Roots \in Seq(Index)
      /\ end.nodes[end.p].verificationPeriod = period
  BY <1>2 DEF RoundInv, IsKnownBy
<1>4. roots \in Seq(Index) /\ roots # <<>> /\ Last(roots) = end.p
  BY <1>3, LastOfAppend
<1> HIDE DEF roots
<1>5. /\ DOMAIN forest = {"nodes", "Roots", "next", "Size"}
      /\ forest.Size + 1 \in Nat /\ forest.next \in Index
  BY DEF ForestOK
<1>6. /\ DOMAIN new = {"nodes", "Roots", "next", "Size"}
      /\ new.nodes = end.nodes /\ new.Roots = roots
      /\ new.next = forest.next /\ new.Size = forest.Size + 1
  BY <1>5
<1> HIDE DEF new
<1>7. /\ DOMAIN more = {"nodes", "Roots", "next", "Size"}
      /\ more.nodes = WithGhostNodes(end.nodes, end.p) /\ more.Roots = roots
      /\ more.next = LeafAfter(end.p) /\ more.Size = forest.Size + 1
  BY <1>6
<1>8. WithGhostNodes(end.nodes, end.p)[end.p] = end.nodes[end.p]
  BY <1>3 DEF WithGhostNodes
<1>9. LeafAfter(end.p) \in Index
  BY <1>3, LeafAfterType
<1> HIDE DEF more
<1>10. /\ ForestOK(new) /\ new.Size = forest.Size + 1 /\ new.Roots # <<>>
       /\ new.nodes[Last(new.Roots)].verificationPeriod = period
  BY <1>3, <1>4, <1>5, <1>6 DEF ForestOK
<1>11. /\ ForestOK(more) /\ more.Size = forest.Size + 1 /\ more.Roots # <<>>
       /\ more.nodes[Last(more.Roots)].verificationPeriod = period
  BY <1>3, <1>4, <1>5, <1>7, <1>8, <1>9 DEF ForestOK
<1> QED
  BY <1>1, <1>10, <1>11 DEF new, more

-----------------------------------------------------------------------------
(* Both partitions hold the same updates.                                  *)

\* The invariant: both partitions have the same update sets, and while the forest
\* has room it holds all finished versions, its last tree known by the newest.
SameUpdates ==
  /\ DOMAIN agg = DOMAIN NewAggHistPartition
  /\ agg.currUpdatePeriodUpdates = latestUpdates
  /\ agg.queryUpdatePrefixTrees = queryUpdatePrefixTrees
  /\ agg.verifyUpdatePrefixTrees = verificationUpdatePrefixTrees
  /\ agg.verificationPeriod \in Nat
  /\ agg.verificationPeriod + 2 = verificationEpoch
  /\ \A h \in history : h.period >= 2

\* The forest has the versions up to that of two periods before the given one.
ForestHolds(forest, period) ==
  /\ forest.Size = IF period = 0 THEN 0 ELSE period - 1
  /\ forest.Size = 0 => forest.Roots = <<>>
  /\ forest.Size > 0 => /\ forest.Roots # <<>>
                        /\ forest.nodes[Last(forest.Roots)].verificationPeriod = period - 2

HasRoom(period) == (IF period = 0 THEN 0 ELSE period - 1) <= 2 ^ Depth

ForestInv ==
  /\ ForestOK(agg.baseTreeForest)
  /\ HasRoom(agg.verificationPeriod) => ForestHolds(agg.baseTreeForest, agg.verificationPeriod)

AggInv == IInv /\ SameUpdates /\ ForestInv

\* What the bound on the number of versions says.
LEMMA OverflowedOr ==
  ASSUME agg.verificationPeriod \in Nat
  PROVE  Overflowed <=> ~ HasRoom(agg.verificationPeriod)
<1> DEFINE v == agg.verificationPeriod
           S == {v - 1, 0}
<1>1. 2 ^ Depth \in Nat
  BY DepthAssumption, PowersAssumption
<1>2. v \in Nat
  OBVIOUS
<1> HIDE DEF v
<1>3. \E x \in S : \A y \in S : x >= y
  <2>1. CASE v = 0
    BY <2>1
  <2>2. CASE v # 0
    BY <2>2, <1>2
  <2> QED
    BY <2>1, <2>2
<1>4. Max(S) \in S /\ \A y \in S : Max(S) >= y
  <2>1. Max(S) = CHOOSE x \in S : \A y \in S : x >= y
    BY DEF Max
  <2> HIDE DEF S
  <2> QED
    BY <1>3, <2>1, Zenon
<1>5. Max(S) = IF v = 0 THEN 0 ELSE v - 1
  BY <1>2, <1>4
<1>6. FinishedVersions = Max(S)
  BY DEF FinishedVersions, v
<1> HIDE DEF S
<1>7. HasRoom(v) <=> ~ (Max(S) > 2 ^ Depth)
  BY <1>1, <1>2, <1>5 DEF HasRoom
<1> QED
  BY <1>6, <1>7 DEF Overflowed, v

\* A new partition holds what a new default one does.
LEMMA AggInitInv == AggInit => AggInv
<1> SUFFICES ASSUME AggInit PROVE AggInv
  OBVIOUS
<1>1. Init /\ agg = NewAggHistPartition
  BY DEF AggInit
<1>2. IInv
  BY <1>1, InitIInv
<1>3. /\ DOMAIN agg = DOMAIN NewAggHistPartition
      /\ agg.currUpdatePeriodUpdates = <<>> /\ agg.queryUpdatePrefixTrees = <<>>
      /\ agg.verifyUpdatePrefixTrees = <<>> /\ agg.verificationPeriod = 0
      /\ agg.baseTreeForest = NewHistoryForest
  BY <1>1 DEF NewAggHistPartition
<1>4. SameUpdates
  BY <1>1, <1>3 DEF SameUpdates, Init
<1>5. ForestInv
  BY <1>3, NewForestOK DEF ForestInv, ForestHolds
<1> QED
  BY <1>2, <1>4, <1>5 DEF AggInv

\* An append leaves the update sets and the forest alone, and is of a period that
\* Partition counts from 2.
LEMMA AggAppendSteps ==
  ASSUME SameUpdates, ForestInv, NEW id \in Ids, AggAppendUpdate(id), verificationEpoch \in Nat
  PROVE  SameUpdates' /\ ForestInv'
<1>1. agg' = AggAppend(agg, NewUpdate(id)) /\ AppendUpdate(id)
  BY DEF AggAppendUpdate
<1>2. /\ DOMAIN agg' = DOMAIN agg
      /\ agg'.currUpdatePeriodUpdates = Append(agg.currUpdatePeriodUpdates, NewUpdate(id))
      /\ agg'.queryUpdatePrefixTrees = agg.queryUpdatePrefixTrees
      /\ agg'.verifyUpdatePrefixTrees = agg.verifyUpdatePrefixTrees
      /\ agg'.verificationPeriod = agg.verificationPeriod
      /\ agg'.baseTreeForest = agg.baseTreeForest
  BY <1>1 DEF AggAppend, SameUpdates, NewAggHistPartition
<1>3. /\ latestUpdates' = Append(latestUpdates, NewUpdate(id))
      /\ UNCHANGED << queryUpdatePrefixTrees, verificationUpdatePrefixTrees, verificationEpoch >>
      /\ history' = history \cup { [update |-> NewUpdate(id), period |-> verificationEpoch] }
  BY <1>1 DEF AppendUpdate, logVars
<1>4. verificationEpoch >= 2
  BY DEF SameUpdates
<1>5. \A h \in history' : h.period >= 2
  BY <1>3, <1>4 DEF SameUpdates
<1>6. SameUpdates'
  BY <1>2, <1>3, <1>5 DEF SameUpdates
<1> QED
  BY <1>2, <1>6 DEF ForestInv

\* An update epoch gives both partitions the same new set.
LEMMA AggUpdateEpochSteps ==
  ASSUME SameUpdates, ForestInv, AggEndUpdateEpoch
  PROVE  SameUpdates' /\ ForestInv'
<1> DEFINE tree == PrefixTreeOf(latestUpdates)
<1>1. agg' = AggIncrementUpdateEpoch(agg) /\ IncrementUpdateEpoch
  BY DEF AggEndUpdateEpoch
<1>2. /\ DOMAIN agg' = DOMAIN agg
      /\ agg'.currUpdatePeriodUpdates = <<>>
      /\ agg'.queryUpdatePrefixTrees = Append(agg.queryUpdatePrefixTrees, tree)
      /\ agg'.verifyUpdatePrefixTrees = Append(agg.verifyUpdatePrefixTrees, tree)
      /\ agg'.verificationPeriod = agg.verificationPeriod
      /\ agg'.baseTreeForest = agg.baseTreeForest
  BY <1>1 DEF AggIncrementUpdateEpoch, SameUpdates, NewAggHistPartition
<1>3. /\ latestUpdates' = <<>>
      /\ queryUpdatePrefixTrees' = Append(queryUpdatePrefixTrees, tree)
      /\ verificationUpdatePrefixTrees' = Append(verificationUpdatePrefixTrees, tree)
      /\ UNCHANGED << verificationEpoch, history >>
  BY <1>1 DEF IncrementUpdateEpoch, LogUpdateSet, ClearLatestUpdates
<1> HIDE DEF tree
<1>4. SameUpdates'
  BY <1>2, <1>3 DEF SameUpdates
<1> QED
  BY <1>2, <1>4 DEF ForestInv

\* A verification period gives the forest, if it has room for it, the version
\* of two periods ago.
LEMMA AggVerificationPeriodSteps ==
  ASSUME SameUpdates, ForestInv, AggEndVerificationPeriod
  PROVE  SameUpdates' /\ ForestInv'
<1> DEFINE forest  == agg.baseTreeForest
           period  == agg.verificationPeriod
           version == period + 1 - 2
           hash    == GetHash(NextEpoch(agg.baseTree), version)
<1>1. agg' = AggIncrementVerificationPeriod(agg) /\ IncrementVerificationPeriod
  BY DEF AggEndVerificationPeriod
<1>2. /\ DOMAIN agg' = DOMAIN agg
      /\ agg'.currUpdatePeriodUpdates = agg.currUpdatePeriodUpdates
      /\ agg'.queryUpdatePrefixTrees = agg.verifyUpdatePrefixTrees
      /\ agg'.verifyUpdatePrefixTrees = <<>>
      /\ agg'.verificationPeriod = period + 1
      /\ agg'.baseTreeForest = IF version < 0 THEN forest ELSE ForestAppend(forest, hash, version)
  BY <1>1 DEF AggIncrementVerificationPeriod, SameUpdates, NewAggHistPartition
<1>3. /\ queryUpdatePrefixTrees' = verificationUpdatePrefixTrees
      /\ verificationUpdatePrefixTrees' = <<>>
      /\ verificationEpoch' = verificationEpoch + 1
      /\ UNCHANGED << latestUpdates, history >>
  BY <1>1 DEF IncrementVerificationPeriod, RollOverLogs
<1>4. period \in Nat /\ period + 2 = verificationEpoch
  BY DEF SameUpdates
<1> HIDE DEF forest, period, hash
<1>5. SameUpdates'
  <2>1. period + 1 \in Nat /\ period + 1 + 2 = verificationEpoch + 1
    BY <1>4
  <2> QED
    BY <1>2, <1>3, <2>1 DEF SameUpdates
<1>6. ForestOK(forest) /\ (HasRoom(period) => ForestHolds(forest, period)) /\ 2 ^ Depth \in Nat
  BY DepthAssumption, PowersAssumption DEF ForestInv, forest, period
<1>7. CASE period = 0
  <2>1. version < 0
    BY <1>7
  <2>2. forest.Size = 0 /\ forest.Roots = <<>>
    BY <1>6, <1>7 DEF HasRoom, ForestHolds
  <2>3. agg'.baseTreeForest = forest /\ agg'.verificationPeriod = 1
    BY <1>2, <1>7, <2>1
  <2>4. ForestHolds(forest, 1)
    BY <2>2 DEF ForestHolds
  <2> QED
    BY <1>5, <1>6, <2>3, <2>4 DEF ForestInv
<1>8. CASE period # 0
  <2> DEFINE new == ForestAppend(forest, hash, version)
  <2>1. ~ (version < 0) /\ version = period - 1
    BY <1>4, <1>8
  <2>2. agg'.baseTreeForest = new /\ agg'.verificationPeriod = period + 1
    BY <1>2, <2>1
  <2>3. ASSUME ~ IsFull(forest)
        PROVE  /\ ForestOK(new) /\ new.Size = forest.Size + 1 /\ new.Roots # <<>>
               /\ new.nodes[Last(new.Roots)].verificationPeriod = version
    BY <1>6, <2>3, ForestAppendSteps
  <2>4. IsFull(forest) => new = forest
    BY DEF ForestAppend
  <2> HIDE DEF new, version
  <2>5. ForestOK(new)
    BY <1>6, <2>3, <2>4
  <2>6. ASSUME HasRoom(period + 1) PROVE ForestHolds(new, period + 1)
    <3>1. period <= 2 ^ Depth
      BY <1>4, <2>6 DEF HasRoom
    <3>2. HasRoom(period)
      BY <1>4, <1>6, <3>1, <1>8 DEF HasRoom
    <3>3. forest.Size = period - 1
      BY <1>6, <1>8, <3>2 DEF ForestHolds
    <3>4. ~ IsFull(forest)
      BY <1>4, <1>6, <3>1, <3>3 DEF IsFull
    <3>5. new.Size = period
      BY <1>4, <2>3, <3>3, <3>4
    <3>6. new.Roots # <<>> /\ new.nodes[Last(new.Roots)].verificationPeriod = period + 1 - 2
      BY <1>4, <2>1, <2>3, <3>4
    <3> QED
      BY <1>4, <1>8, <3>5, <3>6 DEF ForestHolds
  <2> QED
    BY <1>5, <2>2, <2>5, <2>6 DEF ForestInv
<1> QED
  BY <1>7, <1>8

\* The invariant holds in every reachable state.
LEMMA AggInvariance == AggSpec => []AggInv
<1>1. AggInit => AggInv
  BY AggInitInv
<1>2. AggSpec => Spec
  <2>1. AggInit => Init
    BY DEF AggInit
  <2>2. [AggNext]_aggVars => [Next]_vars
    BY DEF AggNext, aggVars, AggAppendUpdate, AggEndUpdateEpoch, AggEndVerificationPeriod, Next
  <2> QED
    BY <2>1, <2>2, PTL DEF AggSpec, Spec
<1>3. IInv /\ IInv' /\ AggInv /\ [AggNext]_aggVars => AggInv'
  <2> SUFFICES ASSUME IInv, IInv', AggInv, [AggNext]_aggVars PROVE AggInv'
    OBVIOUS
  <2>1. SameUpdates /\ ForestInv /\ verificationEpoch \in Nat
    BY DEF AggInv, IInv, TypeOK
  <2>2. SameUpdates' /\ ForestInv'
    <3>1. ASSUME NEW id \in Ids, AggAppendUpdate(id) PROVE SameUpdates' /\ ForestInv'
      BY <2>1, <3>1, AggAppendSteps
    <3>2. CASE AggEndUpdateEpoch
      BY <2>1, <3>2, AggUpdateEpochSteps
    <3>3. CASE AggEndVerificationPeriod
      BY <2>1, <3>3, AggVerificationPeriodSteps
    <3>4. CASE UNCHANGED aggVars
      BY <2>1, <3>4 DEF aggVars, vars, logVars, SameUpdates, ForestInv
    <3> QED
      BY <3>1, <3>2, <3>3, <3>4 DEF AggNext
  <2> QED
    BY <2>2 DEF AggInv
<1> QED
  BY <1>1, <1>2, <1>3, Invariance, PTL DEF AggSpec

\* However appends, update epochs and verification periods alternate, and however
\* the forest merges its trees, an aggregated-history partition can prove exactly
\* the updates that a default one can, until its forest is full.
THEOREM AggAlwaysAgreesWithPartition == AggSpec => []AgreesWithPartition
<1>1. AggInv => AgreesWithPartition
  <2> SUFFICES ASSUME AggInv, ~ Overflowed PROVE AggProvable = Provable
    BY DEF AgreesWithPartition
  <2> DEFINE forest == agg.baseTreeForest
             period == agg.verificationPeriod
             roots  == forest.Roots
             node(i) == forest.nodes[roots[i]]
  <2>1. /\ period \in Nat /\ verificationEpoch - 2 = period
        /\ agg.queryUpdatePrefixTrees = queryUpdatePrefixTrees
        /\ \A h \in history : h.period >= 2
    BY DEF AggInv, SameUpdates
  <2>2. ForestHolds(forest, period)
    BY <2>1, OverflowedOr DEF AggInv, ForestInv
  <2>3. roots \in Seq(Index) /\ forest.Size \in Nat
    BY DEF AggInv, ForestInv, ForestOK
  <2>4. RootsOf(agg) = [i \in DOMAIN roots |-> node(i)]
    BY DEF RootsOf
  <2> HIDE DEF forest, period, roots
  <2>5. CASE forest.Size = 0
    <3>1. RootsOf(agg) = <<>>
      <4>1. roots = <<>>
        BY <2>2, <2>5 DEF ForestHolds, roots
      <4>2. DOMAIN roots = {}
        BY <4>1
      <4>3. RootsOf(agg) = [i \in {} |-> node(i)]
        BY <2>4, <4>2
      <4> HIDE DEF node
      <4> QED
        BY <4>3
    <3>2. period <= 1
      BY <2>1, <2>2, <2>5 DEF ForestHolds
    <3>3. GivenToBaseTree(period) = {}
      <4>1. \A h \in history : ~ (h.period <= period)
        <5>1. \A h \in history : h.period \in Nat
          BY DEF AggInv, IInv, TypeOK
        <5> QED
          BY <2>1, <3>2, <5>1
      <4> QED
        BY <4>1 DEF GivenToBaseTree
    <3> QED
      BY <2>1, <3>1, <3>3 DEF AggProvable, Provable, InQuerySets
  <2>6. CASE forest.Size # 0
    <3>1. roots # <<>> /\ node(Len(roots)).verificationPeriod = period - 2
      <4>1. forest.Size > 0
        BY <2>3, <2>6
      <4>2. roots # <<>> /\ forest.nodes[Last(roots)].verificationPeriod = period - 2
        BY <2>2, <4>1 DEF ForestHolds, roots
      <4> QED
        BY <4>2 DEF Last
    <3>2. Len(roots) \in Nat \ {0} /\ DOMAIN roots = 1 .. Len(roots)
      BY <2>3, <3>1
    <3>3. RootsOf(agg) # <<>> /\ Last(RootsOf(agg)) = node(Len(roots))
      <4> DEFINE n == Len(roots)
                 S == { node(i) : i \in 1 .. n }
                 r == [i \in 1 .. n |-> node(i)]
      <4>1. RootsOf(agg) = r
        BY <2>4, <3>2
      <4> HIDE DEF n, node
      <4>2. n \in Nat \ {0}
        BY <3>2 DEF n
      <4>3. r \in Seq(S) /\ Len(r) = n /\ r[n] = node(n)
        BY <4>2
      <4>4. r # <<>> /\ Last(r) = node(n)
        BY <4>2, <4>3 DEF Last
      <4> QED
        BY <4>1, <4>4 DEF n
    <3>4. Last(RootsOf(agg)).verificationPeriod + 2 = period
      BY <2>1, <3>1, <3>3
    <3> QED
      BY <2>1, <3>3, <3>4 DEF AggProvable, Provable, InQuerySets
  <2> QED
    BY <2>5, <2>6
<1> QED
  BY <1>1, AggInvariance, PTL

(***************************************************************************)
(* Lookup: what the update sets of an answer show, and how far polls       *)
(* verify.                                                                 *)
(***************************************************************************)

Updates == { h.update : h \in history }

Pending == ToSet(latestUpdates)

Entries == [epoch : Nat, root : SUBSET Update]

\* What is newer than an update in one of the sets is in the same set or a later one.
InOrder(sets, updates) ==
  \A i \in DOMAIN sets : \A u \in sets[i], v \in updates :
    v.pos > u.pos => \E j \in DOMAIN sets : j >= i /\ v \in sets[j]

\* Updates are published in the order of their positions; the query sets are the
\* newest of what is published, and so are the sets that a roll-over has replaced as
\* long as no update epoch follows.
SetsInv ==
  /\ IsFiniteSet(history)
  /\ \A u \in Published, v \in Pending : u.pos < v.pos
  /\ InQuerySets \subseteq Published
  /\ InOrder(queryUpdatePrefixTrees, Published)
  /\ InOrder(verificationUpdatePrefixTrees, Published)
  /\ publishedDigest.UpdateSetRoots = queryUpdatePrefixTrees
  /\ ~ needToRollUp => InOrder(previousDigest.UpdateSetRoots, Published)

-----------------------------------------------------------------------------
(* The partition of a lookup.                                              *)

\* The polls and the lookup do not touch the partition.
LEMMA PartitionSteps ==
  ASSUME [LookupNext]_lookupVars
  PROVE  \/ \E id \in Ids : AcceptUpdate(id)
         \/ EpochLoop
         \/ UNCHANGED << vars, previousDigest >>
  BY Zenon DEF LookupNext, lookupVars, serverVars, auditVars, PutValue, GetEpochUpdate, QueryLoop,
     ReadDigest, AdoptCheckpoint, LookUpPK, LookUpMK, LookUpUnknown, FindLeaf, ProveBaseTree,
     ReadUpdateSets, LookupStep

\* What has been shown of Partition holds of the partition of a lookup.
LEMMA PartitionAlwaysSound == LookupSpec => [](IInv /\ DigestHasRoot)
<1>1. LookupInit => Init
  BY DEF LookupInit
<1>2. [LookupNext]_lookupVars => [Next]_vars
  <2> SUFFICES ASSUME [LookupNext]_lookupVars PROVE [Next]_vars
    OBVIOUS
  <2> QED
    BY PartitionSteps DEF AcceptUpdate, EpochLoop, Next
<1> QED
  BY <1>1, <1>2, Invariance, DigestAlwaysHasRoot, PTL DEF LookupSpec, Spec

\* What waits has been accepted, and is not published.
LEMMA PendingAndPublished ==
  ASSUME IInv
  PROVE  /\ Pending \subseteq Updates
         /\ Published = Updates \ Pending
         /\ Updates \subseteq Update
         /\ Published \subseteq Update
<1>1. Updates \subseteq Update
  BY DEF IInv, TypeOK, Updates
<1>2. Pending \subseteq Updates
  BY DEF IInv, PositionsAndSources, GivenToBaseTree, Pending, Updates
<1> QED
  BY <1>1, <1>2 DEF Published, Pending, Updates

\* A new update waits; its position is larger than that of every other.
LEMMA AppendSteps ==
  ASSUME IInv, NEW id \in Ids, AppendUpdate(id)
  PROVE  LET u == NewUpdate(id)
         IN  /\ u \in Update /\ u.id = id
             /\ \A v \in Updates : v.pos < u.pos
             /\ Updates' = Updates \cup {u}
             /\ Pending' = Pending \cup {u}
             /\ Published' = Published
             /\ UNCHANGED << logVars, needToRollUp, publishedDigest, hashChain >>
<1> DEFINE u == NewUpdate(id)
<1>1. /\ history' = history \cup { [update |-> u, period |-> verificationEpoch] }
      /\ latestUpdates' = Append(latestUpdates, u)
      /\ UNCHANGED << logVars, needToRollUp, publishedDigest, hashChain >>
  BY DEF AppendUpdate
<1>2. u \in Update /\ u.pos = pos /\ u.id = id
  BY BoundsAssumption DEF AppendUpdate, NewUpdate, Update, IInv, TypeOK
<1>3. \A v \in Updates : v.pos < pos /\ v # u
  <2>1. \A v \in Updates : v.pos < pos
    BY DEF IInv, PositionsAndSources, Updates
  <2>2. pos \in Int
    BY DEF IInv, TypeOK
  <2> HIDE DEF u
  <2> QED
    BY <2>1, <2>2, <1>2
<1> HIDE DEF u
<1>4. Updates' = Updates \cup {u}
  <2> DEFINE new == [update |-> u, period |-> verificationEpoch]
  <2>1. new.update = u /\ history' = history \cup {new}
    BY <1>1
  <2> HIDE DEF new
  <2> QED
    BY <2>1 DEF Updates
<1>5. Pending' = Pending \cup {u}
  BY <1>1, <1>2, ToSetAppend DEF Pending, IInv, TypeOK
<1>6. Published' = Updates' \ Pending'
  BY DEF Published, Updates, Pending
<1>7. Published' = Published
  BY <1>3, <1>4, <1>5, <1>6, PendingAndPublished
<1> QED
  BY <1>1, <1>2, <1>3, <1>4, <1>5, <1>7 DEF u

\* An update epoch publishes all that waits.
LEMMA UpdateEpochSteps ==
  ASSUME IInv, IncrementUpdateEpoch
  PROVE  /\ history' = history /\ Updates' = Updates
         /\ Pending' = {}
         /\ Published' = Published \cup Pending
         /\ Pending \in SUBSET Update
         /\ queryUpdatePrefixTrees' = Append(queryUpdatePrefixTrees, Pending)
         /\ verificationUpdatePrefixTrees' = Append(verificationUpdatePrefixTrees, Pending)
         /\ publishedDigest'.UpdateSetRoots = queryUpdatePrefixTrees'
         /\ needToRollUp'
<1>1. /\ history' = history /\ latestUpdates' = <<>>
      /\ queryUpdatePrefixTrees' = Append(queryUpdatePrefixTrees, Pending)
      /\ verificationUpdatePrefixTrees' = Append(verificationUpdatePrefixTrees, Pending)
      /\ needToRollUp' = TRUE
  BY DEF IncrementUpdateEpoch, LogUpdateSet, ClearLatestUpdates, PrefixTreeOf, Pending
<1>2. publishedDigest'.UpdateSetRoots = queryUpdatePrefixTrees'
  BY DEF IncrementUpdateEpoch, NextDigest, Digest
<1>3. Pending' = {} /\ Updates' = Updates
  BY <1>1, ToSetEmpty DEF Pending, Updates
<1>4. Published' = Updates' \ Pending'
  BY DEF Published, Updates, Pending
<1>5. Published' = Published \cup Pending /\ Pending \in SUBSET Update
  BY <1>3, <1>4, PendingAndPublished
<1> QED
  BY <1>1, <1>2, <1>3, <1>5

\* A verification period publishes nothing; its sets replace the query sets.
LEMMA VerificationPeriodSteps ==
  ASSUME IInv, IncrementVerificationPeriod
  PROVE  /\ history' = history /\ Updates' = Updates
         /\ Pending' = Pending /\ Published' = Published
         /\ queryUpdatePrefixTrees' = verificationUpdatePrefixTrees
         /\ verificationUpdatePrefixTrees' = <<>>
         /\ publishedDigest'.UpdateSetRoots = queryUpdatePrefixTrees'
         /\ needToRollUp /\ ~ needToRollUp'
<1>1. /\ UNCHANGED << history, latestUpdates >>
      /\ queryUpdatePrefixTrees' = verificationUpdatePrefixTrees
      /\ verificationUpdatePrefixTrees' = <<>>
  BY DEF IncrementVerificationPeriod, RollOverLogs
<1>2. publishedDigest'.UpdateSetRoots = queryUpdatePrefixTrees'
  BY DEF IncrementVerificationPeriod, NextDigest, Digest
<1>3. needToRollUp /\ ~ needToRollUp'
  BY Zenon DEF IncrementVerificationPeriod, MayRollUp
<1> QED
  BY <1>1, <1>2, <1>3 DEF Updates, Pending, Published

-----------------------------------------------------------------------------
(* The order of update sets.                                               *)

\* Sets in order stay so when a set of newer updates follows.
LEMMA InOrderAppend ==
  ASSUME NEW updates \in SUBSET Update, NEW sets \in Seq(SUBSET Update), InOrder(sets, updates),
         NEW set \in SUBSET Update, \A u \in updates, v \in set : u.pos < v.pos
  PROVE  InOrder(Append(sets, set), updates \cup set)
<1> DEFINE more == Append(sets, set)
           n    == Len(sets)
<1>1. /\ n \in Nat /\ DOMAIN sets = 1 .. n /\ DOMAIN more = 1 .. n + 1
      /\ more[n + 1] = set /\ \A i \in 1 .. n : more[i] = sets[i]
  OBVIOUS
<1> HIDE DEF more, n
<1> SUFFICES ASSUME NEW i \in 1 .. n + 1, NEW u \in more[i], NEW v \in updates \cup set, v.pos > u.pos
             PROVE  \E j \in 1 .. n + 1 : j >= i /\ v \in more[j]
  BY <1>1 DEF InOrder, more
<1>2. CASE v \in set
  BY <1>1, <1>2
<1>3. CASE v \in updates
  <2>1. i # n + 1
    <3>1. SUFFICES ASSUME i = n + 1 PROVE FALSE
      OBVIOUS
    <3>2. u \in set /\ v.pos < u.pos
      BY <1>1, <1>3, <3>1
    <3>3. u.pos \in Int /\ v.pos \in Int
      BY <1>3, <3>2 DEF Update
    <3> QED
      BY <3>2, <3>3
  <2>2. i \in 1 .. n /\ u \in sets[i]
    BY <1>1, <2>1
  <2>3. PICK j \in 1 .. n : j >= i /\ v \in sets[j]
    BY <1>1, <1>3, <2>2 DEF InOrder
  <2> QED
    BY <1>1, <2>3
<1> QED
  BY <1>2, <1>3

\* The order holds in a new partition.
LEMMA InitSetsInv == LookupInit => SetsInv
<1> SUFFICES ASSUME LookupInit PROVE SetsInv
  OBVIOUS
<1>1. /\ history = {} /\ queryUpdatePrefixTrees = <<>> /\ verificationUpdatePrefixTrees = <<>>
      /\ publishedDigest.UpdateSetRoots = <<>> /\ previousDigest.UpdateSetRoots = <<>>
  BY DEF LookupInit, Init, NoDigest
<1>2. Published = {}
  BY <1>1 DEF Published
<1>3. \A updates : InOrder(<<>>, updates)
  BY DEF InOrder
<1>4. InQuerySets = {}
  BY <1>1, ToSetEmpty DEF InQuerySets
<1>5. IsFiniteSet(history)
  BY <1>1, FS_EmptySet
<1> QED
  BY <1>1, <1>2, <1>3, <1>4, <1>5 DEF SetsInv

\* Every step keeps the order.
LEMMA NextSetsInv ==
  ASSUME IInv, SetsInv, [LookupNext]_lookupVars
  PROVE  SetsInv'
<1>1. ASSUME NEW id \in Ids, AcceptUpdate(id) PROVE SetsInv'
  <2> DEFINE u == NewUpdate(id)
  <2>1. AppendUpdate(id) /\ previousDigest' = previousDigest
    BY <1>1 DEF AcceptUpdate, serverVars
  <2>2. /\ \A v \in Updates : v.pos < u.pos
        /\ Pending' = Pending \cup {u}
        /\ Published' = Published
        /\ UNCHANGED << logVars, needToRollUp, publishedDigest >>
    BY <2>1, AppendSteps
  <2>3. \A v \in Published', w \in Pending' : v.pos < w.pos
    BY <2>2, PendingAndPublished DEF SetsInv
  <2>4. IsFiniteSet(history')
    BY <2>1, FS_AddElement DEF AppendUpdate, SetsInv
  <2> HIDE DEF u
  <2>5. InQuerySets' = InQuerySets
    BY <2>2 DEF InQuerySets, logVars
  <2> QED
    BY <2>1, <2>2, <2>3, <2>4, <2>5 DEF SetsInv, logVars
<1>2. CASE EpochLoop
  <2>1. previousDigest' = publishedDigest
    BY <1>2 DEF EpochLoop
  <2>2. /\ queryUpdatePrefixTrees \in Seq(SUBSET Update)
        /\ verificationUpdatePrefixTrees \in Seq(SUBSET Update)
        /\ TypeOK
    BY DEF IInv, TypeOK
  <2>3. CASE IncrementUpdateEpoch
    <3>1. ASSUME NEW sets \in Seq(SUBSET Update), InOrder(sets, Published)
          PROVE  InOrder(Append(sets, Pending), Published \cup Pending)
      <4>1. /\ Published \in SUBSET Update /\ Pending \in SUBSET Update
            /\ \A u \in Published, v \in Pending : u.pos < v.pos
        BY PendingAndPublished DEF SetsInv
      <4> QED
        BY <3>1, <4>1, InOrderAppend
    <3>2. /\ InOrder(queryUpdatePrefixTrees', Published')
          /\ InOrder(verificationUpdatePrefixTrees', Published')
      BY <2>2, <2>3, <3>1, UpdateEpochSteps DEF SetsInv
    <3>3. InQuerySets' = InQuerySets \cup Pending
      BY <2>2, <2>3, PublishSets DEF Pending
    <3>4. InQuerySets' \subseteq Published'
      BY <2>3, <3>3, UpdateEpochSteps DEF SetsInv
    <3> QED
      BY <2>3, <3>2, <3>4, UpdateEpochSteps DEF SetsInv
  <2>4. CASE IncrementVerificationPeriod
    <3>1. InOrder(verificationUpdatePrefixTrees', Published')
      BY <2>4, VerificationPeriodSteps DEF InOrder
    <3>2. InQuerySets' \subseteq Published'
      <4>1. InQuerySets' \subseteq InQuerySets
        BY <2>2, <2>4, RollOverSets DEF IInv, RollOverKeepsWhatItMust
      <4> QED
        BY <2>4, <4>1, VerificationPeriodSteps DEF SetsInv
    <3>3. InOrder(previousDigest'.UpdateSetRoots, Published')
      BY <2>1, <2>4, VerificationPeriodSteps DEF SetsInv
    <3> QED
      BY <2>4, <3>1, <3>2, <3>3, VerificationPeriodSteps DEF SetsInv
  <2> QED
    BY <1>2, <2>3, <2>4 DEF EpochLoop
<1>3. CASE UNCHANGED << vars, previousDigest >>
  BY <1>3 DEF vars, logVars, SetsInv, Published, Pending, InQuerySets
<1> QED
  BY <1>1, <1>2, <1>3, PartitionSteps

-----------------------------------------------------------------------------
(* Digests, and those that are read while they are being replaced.         *)

FirstPeriod == Len(hashChain) = 1

\* The server's published digest is of its query log, which the verification log
\* equals in the first period and never again.
LogInv ==
  /\ \E Links : hashChain \in Seq(Links)
  /\ Len(hashChain) > 0
  /\ publishedDigest.UpdateLogRoot = queryUpdateLog
  /\ publishedDigest.UpdateLogSize = Len(queryUpdateLog)
  /\ FirstPeriod => verificationUpdateLog = queryUpdateLog
  /\ ~ FirstPeriod => Len(verificationUpdateLog) < Len(queryUpdateLog)

\* A log is the beginning of another.
Begins(start, log) ==
  Len(start) <= Len(log) /\ \A i \in 1 .. Len(start) : start[i] = log[i]

\* Whatever may have been read of digests: the sets hold published updates, and the
\* log is of the server's in the first period.
Sound(digest, published, log, first) ==
  /\ digest.UpdateSetRoots \in Seq(SUBSET published)
  /\ digest.UpdateLogRoot \in Seq(Entries)
  /\ first => Begins(digest.UpdateLogRoot, log)

DigestInv ==
  /\ DOMAIN publishedDigest = DOMAIN NoDigest
  /\ \A digest \in {previousDigest, publishedDigest, checkpoint} :
       Sound(digest, Published, queryUpdateLog, FirstPeriod)
  /\ poll # None => Sound(poll, Published, queryUpdateLog, FirstPeriod)

\* A list of one more element, whatever its elements are.
LEMMA AppendLength ==
  ASSUME NEW S, NEW s \in Seq(S), NEW e
  PROVE  /\ Append(s, e) \in Seq(S \cup {e})
         /\ Len(Append(s, e)) = Len(s) + 1
         /\ \A i \in 1 .. Len(s) : Append(s, e)[i] = s[i]
<1>1. s \in Seq(S \cup {e}) /\ e \in S \cup {e}
  OBVIOUS
<1> QED
  BY <1>1

\* The logs of a new partition are empty.
LEMMA InitLogInv == LookupInit => LogInv
<1> SUFFICES ASSUME LookupInit PROVE LogInv
  OBVIOUS
<1>1. PICK link : hashChain = << link >>
  BY DEF LookupInit, Init
<1>2. hashChain \in Seq({link}) /\ Len(hashChain) = 1
  BY <1>1
<1>3. /\ publishedDigest.UpdateLogRoot = queryUpdateLog
      /\ publishedDigest.UpdateLogSize = Len(queryUpdateLog)
      /\ verificationUpdateLog = queryUpdateLog
  BY DEF LookupInit, Init, NoDigest, NilRoot
<1> QED
  BY <1>2, <1>3 DEF LogInv, FirstPeriod

\* The logs grow alike until the first roll-over, after which the query log is ahead;
\* published updates stay published.
LEMMA LogSteps ==
  ASSUME IInv, DigestHasRoot, LogInv, [LookupNext]_lookupVars
  PROVE  /\ LogInv'
         /\ Published \subseteq Published'
         /\ FirstPeriod' => FirstPeriod /\ Begins(queryUpdateLog, queryUpdateLog')
<1>0. /\ queryUpdateLog \in Seq(Entries) /\ verificationUpdateLog \in Seq(Entries)
      /\ epoch \in Nat
  BY DEF IInv, TypeOK, Entries
<1>1. ASSUME NEW id \in Ids, AppendUpdate(id)
      PROVE  /\ UNCHANGED << logVars, publishedDigest, hashChain >>
             /\ Published' = Published
  BY <1>1, AppendSteps
<1>2. CASE IncrementUpdateEpoch
  <2> DEFINE entry == LogEntry(epoch + 1, PrefixTreeOf(latestUpdates))
  <2>1. entry \in Entries
    BY <1>0, ToSetType DEF LogEntry, PrefixTreeOf, Entries, IInv, TypeOK
  <2>2. /\ queryUpdateLog' = Append(queryUpdateLog, entry)
        /\ verificationUpdateLog' = Append(verificationUpdateLog, entry)
        /\ hashChain' = hashChain
    BY <1>2 DEF IncrementUpdateEpoch, LogUpdateSet
  <2>3. /\ publishedDigest'.UpdateLogRoot = queryUpdateLog'
        /\ publishedDigest'.UpdateLogSize = Len(queryUpdateLog')
    BY <1>2 DEF IncrementUpdateEpoch, NextDigest, Digest
  <2> HIDE DEF entry
  <2>4. /\ Len(queryUpdateLog') = Len(queryUpdateLog) + 1
        /\ Len(verificationUpdateLog') = Len(verificationUpdateLog) + 1
        /\ \A i \in 1 .. Len(queryUpdateLog) : queryUpdateLog'[i] = queryUpdateLog[i]
        /\ Len(queryUpdateLog) \in Nat /\ Len(verificationUpdateLog) \in Nat
    BY <1>0, <2>1, <2>2
  <2>5. Published \subseteq Published'
    BY <1>2, UpdateEpochSteps
  <2>6. Begins(queryUpdateLog, queryUpdateLog')
    BY <2>4 DEF Begins
  <2>7. FirstPeriod' = FirstPeriod
    BY <2>2 DEF FirstPeriod
  <2> QED
    BY <2>2, <2>3, <2>4, <2>5, <2>6, <2>7 DEF LogInv
<1>3. CASE IncrementVerificationPeriod
  <2>1. PICK Links : hashChain \in Seq(Links)
    BY DEF LogInv
  <2>2. PICK link : hashChain' = Append(hashChain, link)
    BY <1>3 DEF IncrementVerificationPeriod
  <2>3. hashChain' \in Seq(Links \cup {link}) /\ Len(hashChain') = Len(hashChain) + 1
    BY <2>1, <2>2, AppendLength
  <2>4. Len(hashChain) \in Nat /\ Len(hashChain) > 0
    BY <2>1 DEF LogInv
  <2>5. ~ FirstPeriod' /\ Len(hashChain') > 0
    BY <2>3, <2>4 DEF FirstPeriod
  <2>6. /\ queryUpdateLog' = verificationUpdateLog /\ verificationUpdateLog' = <<>>
        /\ needToRollUp
    BY <1>3 DEF IncrementVerificationPeriod, RollOverLogs, MayRollUp
  <2>7. Len(verificationUpdateLog') < Len(queryUpdateLog')
    BY <1>0, <2>6 DEF DigestHasRoot
  <2>8. /\ publishedDigest'.UpdateLogRoot = queryUpdateLog'
        /\ publishedDigest'.UpdateLogSize = Len(queryUpdateLog')
    BY <1>3 DEF IncrementVerificationPeriod, NextDigest, Digest
  <2>9. Published' = Published
    BY <1>3, VerificationPeriodSteps
  <2> QED
    BY <2>3, <2>5, <2>7, <2>8, <2>9 DEF LogInv
<1>4. CASE UNCHANGED << vars, previousDigest >>
  BY <1>0, <1>4 DEF vars, logVars, LogInv, Published, FirstPeriod, Begins
<1>5. CASE UNCHANGED << logVars, publishedDigest, hashChain >> /\ Published' = Published
  BY <1>0, <1>5 DEF logVars, LogInv, FirstPeriod, Begins
<1> QED
  BY <1>1, <1>2, <1>3, <1>4, <1>5, PartitionSteps DEF AcceptUpdate, EpochLoop

\* What was read of a digest stays true.
LEMMA SoundStays ==
  ASSUME IInv, DigestHasRoot, LogInv, [LookupNext]_lookupVars,
         NEW digest, Sound(digest, Published, queryUpdateLog, FirstPeriod)
  PROVE  Sound(digest, Published', queryUpdateLog', FirstPeriod')
<1>1. Published \subseteq Published'
  BY LogSteps
<1>2. digest.UpdateSetRoots \in Seq(SUBSET Published')
  <2>1. SUBSET Published \subseteq SUBSET Published'
    BY <1>1
  <2>2. digest.UpdateSetRoots \in Seq(SUBSET Published)
    BY DEF Sound
  <2> QED
    BY <2>1, <2>2
<1>3. ASSUME FirstPeriod' PROVE Begins(digest.UpdateLogRoot, queryUpdateLog')
  <2>1. FirstPeriod /\ Begins(queryUpdateLog, queryUpdateLog')
    BY <1>3, LogSteps
  <2>2. /\ Len(digest.UpdateLogRoot) \in Nat /\ Len(queryUpdateLog) \in Nat
        /\ Begins(digest.UpdateLogRoot, queryUpdateLog)
    BY <2>1 DEF Sound, IInv, TypeOK
  <2>3. Len(queryUpdateLog') \in Nat
    BY DEF LogInv, IInv, TypeOK
  <2> QED
    BY <2>1, <2>2, <2>3 DEF Begins
<1> QED
  BY <1>2, <1>3 DEF Sound

\* The first digest has no sets and no log.
LEMMA InitDigestInv == LookupInit => DigestInv
<1> SUFFICES ASSUME LookupInit PROVE DigestInv
  OBVIOUS
<1>1. /\ previousDigest = NoDigest /\ publishedDigest = NoDigest /\ checkpoint = NoDigest
      /\ poll = None
  BY DEF LookupInit, Init
<1>2. Sound(NoDigest, Published, queryUpdateLog, FirstPeriod)
  <2>1. NoDigest.UpdateSetRoots = <<>> /\ NoDigest.UpdateLogRoot = <<>>
    BY DEF NoDigest, NilRoot
  <2>2. queryUpdateLog = <<>>
    BY DEF LookupInit, Init
  <2> QED
    BY <2>1, <2>2 DEF Sound, Begins
<1> QED
  BY <1>1, <1>2 DEF DigestInv

\* The digest that the server has published is sound.
LEMMA PublishedIsSound ==
  ASSUME IInv', SetsInv', LogInv'
  PROVE  Sound(publishedDigest', Published', queryUpdateLog', FirstPeriod')
<1>1. queryUpdateLog' \in Seq(Entries) /\ queryUpdatePrefixTrees' \in Seq(SUBSET Update)
  BY DEF IInv, TypeOK, Entries
<1>2. \A i \in DOMAIN queryUpdatePrefixTrees' : queryUpdatePrefixTrees'[i] \subseteq Published'
  BY <1>1 DEF SetsInv, InQuerySets, ToSet
<1>3. queryUpdatePrefixTrees' \in Seq(SUBSET Published')
  BY <1>1, <1>2
<1>4. Begins(queryUpdateLog', queryUpdateLog')
  BY <1>1 DEF Begins
<1> QED
  BY <1>1, <1>3, <1>4 DEF SetsInv, LogInv, Sound

\* A copy of a digest that is being replaced by another is no worse than the two.
LEMMA TornIsSound ==
  ASSUME DigestInv,
         NEW either, either = {previousDigest, publishedDigest},
         NEW base \in either, NEW size \in either, NEW array \in either, NEW header \in either,
         NEW log \in either, NEW length \in either
  PROVE  Sound(TornDigest(base, size, array, header, log, length),
               Published, queryUpdateLog, FirstPeriod)
<1> DEFINE digest == TornDigest(base, size, array, header, log, length)
           roots  == array.UpdateSetRoots
           n      == Len(header.UpdateSetRoots)
<1>1. /\ digest.UpdateSetRoots = Slice(roots, n)
      /\ digest.UpdateLogRoot = log.UpdateLogRoot
  BY DEF TornDigest, DigestInv, NoDigest
<1>2. /\ Sound(array, Published, queryUpdateLog, FirstPeriod)
      /\ Sound(header, Published, queryUpdateLog, FirstPeriod)
      /\ Sound(log, Published, queryUpdateLog, FirstPeriod)
  BY DEF DigestInv
<1>3. roots \in Seq(SUBSET Published) /\ n \in Nat
  BY <1>2 DEF Sound
<1> HIDE DEF digest, roots, n
<1>4. Slice(roots, n) \in Seq(SUBSET Published)
  BY <1>3 DEF Slice
<1>5. Sound(digest, Published, queryUpdateLog, FirstPeriod)
  BY <1>1, <1>2, <1>4 DEF Sound
<1> QED
  BY <1>5 DEF digest

\* Every step keeps digests sound.
LEMMA NextDigestInv ==
  ASSUME IInv, IInv', DigestHasRoot, SetsInv, SetsInv', LogInv, DigestInv, [LookupNext]_lookupVars
  PROVE  DigestInv'
<1>1. DOMAIN publishedDigest' = DOMAIN NoDigest
  <2>1. ASSUME NEW id \in Ids, AppendUpdate(id) PROVE publishedDigest' = publishedDigest
    BY <2>1 DEF AppendUpdate
  <2>2. CASE IncrementUpdateEpoch
    BY <2>2 DEF IncrementUpdateEpoch, NextDigest, Digest, NoDigest
  <2>3. CASE IncrementVerificationPeriod
    BY <2>3 DEF IncrementVerificationPeriod, NextDigest, Digest, NoDigest
  <2>4. CASE UNCHANGED << vars, previousDigest >>
    BY <2>4 DEF vars, DigestInv
  <2> QED
    BY <2>1, <2>2, <2>3, <2>4, PartitionSteps DEF AcceptUpdate, EpochLoop, DigestInv
<1>2. Sound(publishedDigest', Published', queryUpdateLog', FirstPeriod')
  <2>1. LogInv'
    BY LogSteps
  <2> QED
    BY <2>1, PublishedIsSound
<1>3. ASSUME NEW digest, Sound(digest, Published, queryUpdateLog, FirstPeriod)
      PROVE  Sound(digest, Published', queryUpdateLog', FirstPeriod')
  BY <1>3, SoundStays
<1>4. Sound(previousDigest', Published', queryUpdateLog', FirstPeriod')
  <2>1. previousDigest' \in {previousDigest, publishedDigest}
    BY PartitionSteps DEF AcceptUpdate, EpochLoop, serverVars
  <2> QED
    BY <1>3, <2>1 DEF DigestInv
<1>5. /\ checkpoint' = checkpoint \/ (poll # None /\ checkpoint' = poll)
      /\ \/ poll' \in {poll, None}
         \/ \E base, size, array, header, log, length \in {previousDigest, publishedDigest} :
              poll' = TornDigest(base, size, array, header, log, length)
  <2>1. /\ checkpoint' = checkpoint \/ (poll # None /\ checkpoint' = poll)
        /\ poll' \in {poll, None} \/ poll' \in TornDigests
    BY Zenon DEF LookupNext, lookupVars, auditVars, AcceptUpdate, PutValue, EpochLoop,
       GetEpochUpdate, QueryLoop, ReadDigest, AdoptCheckpoint, LookUpPK, LookUpMK, LookUpUnknown,
       FindLeaf, ProveBaseTree, ReadUpdateSets, LookupStep
  <2>2. poll' \in TornDigests =>
          \E base, size, array, header, log, length \in {previousDigest, publishedDigest} :
            poll' = TornDigest(base, size, array, header, log, length)
    BY DEF TornDigests
  <2> QED
    BY <2>1, <2>2
<1>6. Sound(checkpoint', Published', queryUpdateLog', FirstPeriod')
  BY <1>3, <1>5 DEF DigestInv
<1>7. poll' # None => Sound(poll', Published', queryUpdateLog', FirstPeriod')
  <2>1. CASE poll' \in {poll, None}
    BY <1>3, <2>1 DEF DigestInv
  <2>2. CASE poll' \notin {poll, None}
    <3> DEFINE either == {previousDigest, publishedDigest}
    <3>1. PICK base \in either, size \in either, array \in either, header \in either,
               log \in either, length \in either :
            poll' = TornDigest(base, size, array, header, log, length)
      BY <1>5, <2>2, Zenon
    <3>2. Sound(poll', Published, queryUpdateLog, FirstPeriod)
      <4> HIDE DEF either
      <4>1. either = {previousDigest, publishedDigest}
        BY DEF either
      <4> QED
        BY <3>1, <4>1, TornIsSound
    <3> QED
      BY <1>3, <3>2
  <2> QED
    BY <2>1, <2>2
<1> QED
  BY <1>1, <1>2, <1>4, <1>6, <1>7 DEF DigestInv

-----------------------------------------------------------------------------
(* The call.                                                               *)

\* The sets of the client's digest hold what was published when it called; those of
\* the answer hold what was published when the server answered, in order; and there
\* is one update at most of an identifier that is looked up as a master key.
CallInv ==
  /\ DOMAIN lookup = DOMAIN NoLookup
  /\ lookup.pc # "idle" => lookup.digest.UpdateSetRoots \in Seq(SUBSET lookup.seen)
  /\ lookup.pc # "idle" /\ lookup.master =>
       \A u, v \in Updates : u.id = lookup.id /\ v.id = lookup.id => u = v
  /\ lookup.pc = "answered" =>
       /\ lookup.known \subseteq Updates
       /\ lookup.updateSets \in Seq(SUBSET lookup.known)
       /\ InOrder(lookup.updateSets, lookup.known)

\* An identifier without a newest update has no update.
LEMMA NewestExists ==
  ASSUME IInv, NEW id, Newest(id) = None
  PROVE  \A u \in Updates : u.id # id
<1> DEFINE positions == { h.update.pos : h \in { g \in history : g.update.id = id } }
<1>1. positions \in SUBSET (0 .. MaxUpdates)
  BY BoundsAssumption DEF IInv, TypeOK, Update
<1>2. Newest(id) = IF positions = {} THEN None ELSE Max(positions)
  BY DEF Newest
<1>3. positions = {}
  <2> HIDE DEF positions
  <2>1. SUFFICES ASSUME positions # {} PROVE FALSE
    OBVIOUS
  <2>2. positions \in SUBSET Nat /\ \A n \in positions : n <= MaxUpdates
    BY <1>1, BoundsAssumption
  <2>3. Max(positions) \in positions
    BY <2>1, <2>2, LargestNumber, BoundsAssumption
  <2> QED
    BY <1>1, <1>2, <2>1, <2>3, NoneAssumption
<1> QED
  BY <1>3 DEF Updates

\* What a step does to the call.
LEMMA CallSteps ==
  ASSUME [LookupNext]_lookupVars
  PROVE  \/ \E id \in Ids : AcceptUpdate(id) /\ lookup' = lookup
         \/ lookup' = lookup /\ (history' = history \/ EpochLoop)
         \/ \E id \in Ids, master \in BOOLEAN : GetEpochUpdate(id, master)
         \/ LookUpPK \/ LookUpMK \/ LookUpUnknown \/ FindLeaf \/ ProveBaseTree
         \/ ReadUpdateSets
<1>1. CASE LookupNext
  BY <1>1, Zenon DEF LookupNext, AcceptUpdate, PutValue, EpochLoop, QueryLoop, ReadDigest,
     AdoptCheckpoint, vars
<1>2. CASE UNCHANGED lookupVars
  BY <1>2 DEF lookupVars, vars
<1> QED
  BY <1>1, <1>2

\* Up to the reads of the sets, the call goes on with what it has.
LEMMA ReadSteps ==
  ASSUME DOMAIN lookup = DOMAIN NoLookup,
         LookUpPK \/ LookUpMK \/ LookUpUnknown \/ FindLeaf \/ ProveBaseTree
  PROVE  /\ DOMAIN lookup' = DOMAIN NoLookup
         /\ lookup.pc # "idle" /\ lookup'.pc # "answered"
         /\ lookup'.digest = lookup.digest /\ lookup'.seen = lookup.seen
         /\ lookup'.master = lookup.master /\ lookup'.id = lookup.id
         /\ history' = history
<1>1. CASE LookUpPK
  BY <1>1 DEF LookUpPK, LookupStep, NoLookup, vars
<1>2. CASE LookUpMK
  BY <1>2 DEF LookUpMK, LookupStep, NoLookup, vars
<1>3. CASE LookUpUnknown
  BY <1>3 DEF LookUpUnknown, LookupStep, NoLookup, vars
<1>4. CASE FindLeaf
  <2>1. PICK proof : LookupStep("leaf", [lookup EXCEPT !.pc = "copath", !.baseTreeProof = proof])
    BY <1>4, Zenon DEF FindLeaf
  <2> QED
    BY <2>1 DEF LookupStep, NoLookup, vars
<1>5. CASE ProveBaseTree
  <2>1. PICK root :
          LookupStep("copath", [lookup EXCEPT !.pc = "updateSets", !.baseTreeProof.root = root])
    BY <1>5, Zenon DEF ProveBaseTree
  <2> QED
    BY <2>1 DEF LookupStep, NoLookup, vars
<1> QED
  BY <1>1, <1>2, <1>3, <1>4, <1>5

\* No call has been made.
LEMMA InitCallInv == LookupInit => CallInv
  BY DEF LookupInit, CallInv, NoLookup

\* Every step keeps what is known of the call.
LEMMA NextCallInv ==
  ASSUME IInv, SetsInv, DigestInv, CallInv, [LookupNext]_lookupVars
  PROVE  CallInv'
<1>1. ASSUME NEW id \in Ids, AcceptUpdate(id), lookup' = lookup PROVE CallInv'
  <2> DEFINE u == NewUpdate(id)
  <2>1. u.id = id /\ Updates' = Updates \cup {u}
    BY <1>1, AppendSteps DEF AcceptUpdate
  <2> HIDE DEF u
  <2>2. lookup.master /\ lookup.id = id => \A v \in Updates : v.id # id
    BY <1>1, NewestExists DEF AcceptUpdate, RegisteredOnce
  <2> QED
    BY <1>1, <2>1, <2>2 DEF CallInv
<1>2. ASSUME lookup' = lookup, history' = history \/ EpochLoop PROVE CallInv'
  <2>1. history' = history
    BY <1>2, UpdateEpochSteps, VerificationPeriodSteps DEF EpochLoop
  <2>2. Updates' = Updates
    BY <2>1 DEF Updates
  <2> QED
    BY <1>2, <2>2 DEF CallInv
<1>3. ASSUME NEW id \in Ids, NEW master \in BOOLEAN, GetEpochUpdate(id, master) PROVE CallInv'
  <2>1. /\ lookup' = [ lookup EXCEPT !.pc = "storage", !.id = id, !.master = master,
                         !.digest = checkpoint, !.began = verificationEpoch, !.seen = Published ]
        /\ history' = history
        /\ master => Cardinality({ h \in history : h.update.id = id }) <= 1
    BY <1>3 DEF GetEpochUpdate, LookupStep, vars
  <2>2. /\ DOMAIN lookup' = DOMAIN NoLookup /\ lookup'.pc = "storage" /\ lookup'.id = id
        /\ lookup'.master = master /\ lookup'.digest = checkpoint /\ lookup'.seen = Published
    BY <2>1 DEF CallInv, NoLookup
  <2>3. lookup'.digest.UpdateSetRoots \in Seq(SUBSET lookup'.seen)
    BY <2>2 DEF DigestInv, Sound
  <2>4. ASSUME master, NEW u \in Updates, NEW v \in Updates, u.id = id, v.id = id PROVE u = v
    <3> DEFINE records == { h \in history : h.update.id = id }
    <3>1. IsFiniteSet(records)
      BY FS_Subset DEF SetsInv
    <3>2. Cardinality(records) \in Nat /\ Cardinality(records) <= 1
      BY <2>1, <2>4, <3>1, FS_CardinalityType
    <3>3. PICK g \in records, h \in records : g.update = u /\ h.update = v
      BY <2>4 DEF Updates
    <3> HIDE DEF records
    <3>4. g = h
      <4>1. CASE Cardinality(records) = 0
        BY <3>1, <3>3, <4>1, FS_EmptySet
      <4>2. CASE Cardinality(records) = 1
        BY <3>1, <3>3, <4>2, FS_Singleton
      <4> QED
        BY <3>2, <4>1, <4>2
    <3> QED
      BY <3>3, <3>4
  <2>5. Updates' = Updates
    BY <2>1 DEF Updates
  <2> QED
    BY <2>2, <2>3, <2>4, <2>5 DEF CallInv
<1>4. CASE LookUpPK \/ LookUpMK \/ LookUpUnknown \/ FindLeaf \/ ProveBaseTree
  <2>1. /\ DOMAIN lookup' = DOMAIN NoLookup
        /\ lookup.pc # "idle" /\ lookup'.pc # "answered"
        /\ lookup'.digest = lookup.digest /\ lookup'.seen = lookup.seen
        /\ lookup'.master = lookup.master /\ lookup'.id = lookup.id
        /\ history' = history
    BY <1>4, ReadSteps DEF CallInv
  <2>2. Updates' = Updates
    BY <2>1 DEF Updates
  <2> QED
    BY <2>1, <2>2 DEF CallInv
<1>5. CASE ReadUpdateSets
  <2>1. PICK sets \in ReadableSets :
          /\ lookup.pc = "updateSets"
          /\ lookup' = [lookup EXCEPT !.pc = "answered", !.updateSets = sets, !.known = Published]
          /\ UNCHANGED vars
    BY <1>5 DEF ReadUpdateSets, LookupStep
  <2>2. /\ DOMAIN lookup' = DOMAIN NoLookup
        /\ lookup'.digest = lookup.digest /\ lookup'.seen = lookup.seen
        /\ lookup'.master = lookup.master /\ lookup'.id = lookup.id
        /\ lookup'.updateSets = sets /\ lookup'.known = Published
    BY <2>1 DEF CallInv, NoLookup
  <2>3. Updates' = Updates /\ Published \subseteq Updates
    BY <2>1, PendingAndPublished DEF Updates, vars
  <2>4. sets \in Seq(SUBSET Published) /\ InOrder(sets, Published)
    <3>1. \/ sets = publishedDigest.UpdateSetRoots
          \/ ~ needToRollUp /\ sets = previousDigest.UpdateSetRoots
      BY <2>1 DEF ReadableSets, SetsInv
    <3> QED
      BY <3>1 DEF SetsInv, DigestInv, Sound
  <2> QED
    BY <2>1, <2>2, <2>3, <2>4 DEF CallInv
<1> QED
  BY <1>1, <1>2, <1>3, <1>4, <1>5, CallSteps

-----------------------------------------------------------------------------
(* Theorems.                                                               *)

LookupInv ==
  /\ IInv
  /\ DigestHasRoot
  /\ SetsInv
  /\ LogInv
  /\ DigestInv
  /\ CallInv

\* The invariant holds in every state.
LEMMA LookupInvariance == LookupSpec => []LookupInv
<1> DEFINE Others == SetsInv /\ LogInv /\ DigestInv /\ CallInv
<1>1. LookupInit => Others
  BY InitSetsInv, InitLogInv, InitDigestInv, InitCallInv
<1>2. /\ IInv /\ DigestHasRoot /\ IInv' /\ Others /\ [LookupNext]_lookupVars
      => Others'
  BY NextSetsInv, LogSteps, NextDigestInv, NextCallInv
<1>3. IInv /\ DigestHasRoot /\ Others => LookupInv
  BY DEF LookupInv
<1> HIDE DEF Others
<1> QED
  BY <1>1, <1>2, <1>3, PartitionAlwaysSound, PTL DEF LookupSpec

\* A value is accepted by the newest update set that has the identifier, which is the
\* only one there is to accept a master key by, or by the base tree alone.
LEMMA AcceptedBySet ==
  ASSUME LookupInv, Accepted(lookup), SetsWith(lookup) # {}
  PROVE  \E i \in SetsWith(lookup) :
           /\ Looked(lookup) \in lookup.updateSets[i]
           /\ i \in DOMAIN lookup.digest.UpdateSetRoots
           /\ lookup.updateSets[i] = lookup.digest.UpdateSetRoots[i]
           /\ lookup.master \/ \A j \in SetsWith(lookup) : j <= i
<1>1. lookup.pc = "answered" /\ "accepts" \in Verdicts(lookup)
  BY DEF Accepted, Returns, LookUpPKVerifyReturns, LookUpMKVerifyReturns
<1>2. CASE lookup.master
  <2>1. ValidateMKProof(lookup) = "accepts"
    BY <1>1, <1>2 DEF Verdicts
  <2>2. 1 \in SetsWith(lookup) /\ Has(lookup.digest.UpdateSetRoots, 1) /\ ExistsInSet(lookup, 1)
    BY <2>1 DEF ValidateMKProof, AbsentFromSet
  <2> QED
    BY <1>2, <2>2 DEF Has, ExistsInSet
<1>3. CASE ~ lookup.master
  <2> DEFINE latest == LatestSet(lookup)
  <2>1. latest \in SetsWith(lookup) /\ \A j \in SetsWith(lookup) : j <= latest
    <3>1. lookup.updateSets \in Seq(SUBSET lookup.known)
      BY <1>1 DEF LookupInv, CallInv
    <3>2. /\ SetsWith(lookup) \in SUBSET Nat /\ Len(lookup.updateSets) \in Nat
          /\ \A i \in SetsWith(lookup) : i <= Len(lookup.updateSets)
      BY <3>1 DEF SetsWith
    <3> QED
      BY <3>2, LargestNumber DEF LatestSet
  <2> HIDE DEF latest
  <2>2. \/ ValidatePKProof(lookup) = "accepts"
        \/ AggHistValidatePKProof(lookup) = "accepts"
    BY <1>1, <1>3 DEF Verdicts
  <2>3. CASE ValidatePKProof(lookup) = "accepts"
    <3>1. Has(lookup.digest.UpdateSetRoots, latest) /\ ExistsInSet(lookup, latest)
      BY <2>3 DEF ValidatePKProof, latest
    <3> QED
      BY <2>1, <3>1 DEF Has, ExistsInSet
  <2>4. CASE AggHistValidatePKProof(lookup) = "accepts"
    <3>1. Obstacles(lookup) = {} /\ ExistsInSet(lookup, latest)
      <4> DEFINE verdict == BaseTreeVerdict(lookup, lookup.digest.BaseTreeRoots[1])
      <4>1. verdict \in {"panics", "continues", "rejects"}
        BY DEF BaseTreeVerdict
      <4> HIDE DEF verdict
      <4> QED
        BY <2>4, <4>1 DEF AggHistValidatePKProof, latest, verdict
    <3>2. Has(lookup.digest.UpdateSetRoots, latest)
      BY <2>1, <3>1 DEF Obstacles, SetsWith
    <3> QED
      BY <2>1, <3>1, <3>2 DEF Has, ExistsInSet
  <2> QED
    BY <2>2, <2>3, <2>4
<1> QED
  BY <1>2, <1>3

\* Whatever the auditor read of a digest under assignment, and however many epochs
\* and periods end between the poll, the call and the answer: a value that a client
\* accepts by the update sets had been published when the client got its checkpoint.
\* AcceptedWasPublished says so of values accepted by the base tree, too.
THEOREM AcceptedBySetsWasPublished ==
  LookupSpec => [](Accepted(lookup) /\ SetsWith(lookup) # {} => Looked(lookup) \in lookup.seen)
<1>1. ASSUME LookupInv, Accepted(lookup), SetsWith(lookup) # {}
      PROVE  Looked(lookup) \in lookup.seen
  <2>1. PICK i \in DOMAIN lookup.digest.UpdateSetRoots :
               Looked(lookup) \in lookup.digest.UpdateSetRoots[i]
    BY <1>1, AcceptedBySet
  <2>2. lookup.pc # "idle"
    BY <1>1 DEF Accepted, Returns, LookUpPKVerifyReturns, LookUpMKVerifyReturns
  <2>3. lookup.digest.UpdateSetRoots \in Seq(SUBSET lookup.seen)
    BY <1>1, <2>2 DEF LookupInv, CallInv
  <2> QED
    BY <2>1, <2>3
<1> QED
  BY <1>1, LookupInvariance, PTL

\* A client that accepts a value by the update sets accepts nothing older than the
\* identifier's newest update epoch: what was published by the time of the answer and
\* is newer is in the same update set, although the roll-over of the sets and the
\* server's reads interleave in any order.
THEOREM AcceptedAlwaysFromNewestSet == LookupSpec => []AcceptedIsFromNewestSet
<1>1. LookupInv => AcceptedIsFromNewestSet
  <2> SUFFICES ASSUME LookupInv, Accepted(lookup), SetsWith(lookup) # {},
                      NEW newer \in lookup.known,
                      newer.id = lookup.id, newer.pos > lookup.value
               PROVE  \E i \in DOMAIN lookup.updateSets :
                        {newer, Looked(lookup)} \subseteq lookup.updateSets[i]
    BY DEF AcceptedIsFromNewestSet
  <2>1. lookup.pc = "answered"
    BY DEF Accepted, Returns, LookUpPKVerifyReturns, LookUpMKVerifyReturns
  <2>2. /\ lookup.known \subseteq Updates
        /\ lookup.updateSets \in Seq(SUBSET lookup.known)
        /\ InOrder(lookup.updateSets, lookup.known)
    BY <2>1 DEF LookupInv, CallInv
  <2>3. PICK i \in SetsWith(lookup) :
               /\ Looked(lookup) \in lookup.updateSets[i]
               /\ lookup.master \/ \A j \in SetsWith(lookup) : j <= i
    BY AcceptedBySet
  <2>4. i \in DOMAIN lookup.updateSets /\ DOMAIN lookup.updateSets \subseteq Nat
    BY <2>2 DEF SetsWith
  <2>5. Looked(lookup).id = lookup.id /\ Looked(lookup).pos = lookup.value
    BY DEF Looked
  <2>6. Looked(lookup) \in lookup.known
    BY <2>2, <2>3, <2>4
  <2>7. CASE lookup.master
    <3>1. newer = Looked(lookup)
      BY <2>1, <2>2, <2>5, <2>6, <2>7 DEF LookupInv, CallInv
    <3> QED
      BY <2>3, <2>4, <3>1
  <2>8. CASE ~ lookup.master
    <3>1. PICK j \in DOMAIN lookup.updateSets : j >= i /\ newer \in lookup.updateSets[j]
      BY <2>2, <2>3, <2>4, <2>5 DEF InOrder
    <3>2. j \in SetsWith(lookup)
      BY <3>1 DEF SetsWith
    <3>3. j = i
      BY <2>3, <2>4, <2>8, <3>1, <3>2
    <3> QED
      BY <2>3, <2>4, <3>1, <3>3
  <2> QED
    BY <2>7, <2>8
<1> QED
  BY <1>1, LookupInvariance, PTL

\* In the first period every poll of a whole digest verifies.  From the first
\* roll-over on the log that the server proves from is not the log of its digest: then
\* a poll verifies only if the auditor has no log yet, or the same one.
THEOREM PollsAlwaysVerifyInFirstPeriod == LookupSpec => []PollsVerifyInFirstPeriod
<1>1. LookupInv => PollsVerifyInFirstPeriod
  <2> SUFFICES ASSUME LookupInv, WholeDigest(checkpoint)
               PROVE  QueryServerUpdatePeriodWithoutClient <=>
                        \/ FirstPeriod
                        \/ checkpoint.UpdateLogRoot \in {NilRoot, publishedDigest.UpdateLogRoot}
    BY DEF PollsVerifyInFirstPeriod, FirstPeriod, QueryServerUpdatePeriodWithoutClient,
       IsConsistencyProofValid, VerifyConsistencyProof
  <2> DEFINE old  == checkpoint.UpdateLogRoot
             new  == queryUpdateLog
             ours == verificationUpdateLog
             log  == IF Len(old) \in 1 .. Len(ours) - 1 THEN ours ELSE NilRoot
  <2>1. /\ old \in Seq(Entries) /\ new \in Seq(Entries) /\ ours \in Seq(Entries)
        /\ checkpoint.UpdateLogSize = Len(old)
        /\ publishedDigest.UpdateLogRoot = new /\ publishedDigest.UpdateLogSize = Len(new)
    BY DEF LookupInv, DigestInv, LogInv, Sound, WholeDigest, IInv, TypeOK, Entries
  <2>2. QueryServerUpdatePeriodWithoutClient <=>
          \/ Len(old) = 0
          \/ Len(old) = Len(new) /\ old = new
          \/ /\ Len(old) # Len(new)
             /\ log # NilRoot /\ log = new /\ Len(log) = Len(new)
             /\ old = SubSeq(log, 1, Len(old))
    BY <2>1 DEF QueryServerUpdatePeriodWithoutClient, IsConsistencyProofValid,
       VerifyConsistencyProof, ConsistencyProof
  <2>3. /\ FirstPeriod => ours = new /\ Begins(old, new)
        /\ ~ FirstPeriod => Len(ours) < Len(new)
    BY DEF LookupInv, LogInv, DigestInv, Sound
  <2>4. Len(old) \in Nat /\ Len(new) \in Nat /\ Len(ours) \in Nat
    BY <2>1
  <2>5. (Len(old) = 0 <=> old = NilRoot) /\ (Len(new) = 0 <=> new = NilRoot)
    BY <2>1 DEF NilRoot
  <2>6. ASSUME FirstPeriod
        PROVE  \/ Len(old) = 0
               \/ old = new
               \/ /\ Len(old) # Len(new)
                  /\ log = new /\ new # NilRoot
                  /\ old = SubSeq(new, 1, Len(old))
    <3>1. Len(old) <= Len(new) /\ \A i \in 1 .. Len(old) : old[i] = new[i]
      BY <2>3, <2>6 DEF Begins
    <3>2. CASE Len(old) = Len(new)
      BY <2>1, <3>1, <3>2
    <3>3. CASE Len(old) # 0 /\ Len(old) < Len(new)
      <4>1. Len(old) \in 1 .. Len(ours) - 1
        BY <2>3, <2>4, <2>6, <3>3
      <4>2. log = new /\ new # NilRoot
        BY <2>3, <2>4, <2>5, <2>6, <3>3, <4>1
      <4>3. old = SubSeq(new, 1, Len(old))
        BY <2>1, <2>4, <3>1
      <4> QED
        BY <3>3, <4>2, <4>3, <2>4
    <3> QED
      BY <2>4, <3>1, <3>2, <3>3
  <2>7. ASSUME ~ FirstPeriod, log = new PROVE log = NilRoot
    <3>1. ours # new
      BY <2>3, <2>4, <2>7
    <3> QED
      BY <2>7, <3>1
  <2> HIDE DEF old, new, ours, log
  <2>8. CASE FirstPeriod
    BY <2>2, <2>6, <2>8
  <2>9. CASE ~ FirstPeriod
    BY <2>1, <2>2, <2>5, <2>7, <2>9 DEF old
  <2> QED
    BY <2>8, <2>9
<1> QED
  BY <1>1, LookupInvariance, PTL
=============================================================================
