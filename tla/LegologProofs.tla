---------------------------- MODULE LegologProofs ----------------------------
(***************************************************************************)
(* Theorems about LegologServer, for every set of partitions, users,       *)
(* identifiers, calls and client programs; and about the update logs that  *)
(* the server's partitions keep, ChronTree, for every set of values.       *)
(***************************************************************************)
EXTENDS LegologServer, ChronTree, SequenceLemmas, SequenceTheorems, TLAPS

Labels == { "idle", "register", "putKey", "lock", "signature", "getValue", "putValue", "done",
            "failed" }

Call == [client : Clients, user : Users, id : Users \cup Ids, good : BOOLEAN]

Stored == [pos : Nat, call : Handlers \cup {None}]

\* An accepted update, whatever the positions that are in use.
AnyUpdate == [id : Users \cup Ids, pos : Nat, at : Nat, call : Handlers \cup {None}]

HandlersTypeOK ==
  /\ pc \in [Handlers -> Labels]
  /\ request \in [Handlers -> Call \cup {None}]
  /\ \A h \in Handlers : pc[h] # "idle" => request[h] \in Call
  /\ position \in [Handlers -> Nat]
  /\ original \in [Handlers -> Seq(Stored)]
  /\ masterKeys \in [Clients -> [Users -> Handlers \cup {None}]]
  /\ doneBefore \in [Handlers -> SUBSET Handlers]

PartitionsTypeOK ==
  /\ LastPos \in [Partitions -> Nat]
  /\ PublishedPos \in [Partitions -> Nat]
  /\ LastPosLock \in [Partitions -> Handlers \cup {None}]
  /\ pending \in [Partitions -> Seq(AnyUpdate)]
  /\ provable \in [Partitions -> SUBSET AnyUpdate]
  /\ \A p \in Partitions : IsFiniteSet(provable[p])

TypeOK ==
  /\ HandlersTypeOK
  /\ PartitionsTypeOK
  /\ storage \in [Users \cup Ids -> Seq(Stored)]
  /\ overlapped \subseteq Users \cup Ids
  /\ loop \in {"wait", "update", "verify"}
  /\ todo \subseteq Partitions

-----------------------------------------------------------------------------
(* What PreloadServer leaves.                                              *)

\* The preloaded updates of a partition are numbered from zero.
LEMMA PreloadedUpdatesNumbered ==
  ASSUME NEW p \in Partitions
  PROVE  /\ PreloadedUpdates(p) \in Seq(AnyUpdate)
         /\ Len(PreloadedUpdates(p)) = Len(Preloaded[p])
         /\ Len(Preloaded[p]) \in Nat
         /\ \A i \in DOMAIN PreloadedUpdates(p) :
              /\ i \in DOMAIN Preloaded[p]
              /\ PreloadedUpdates(p)[i] =
                   [id |-> Preloaded[p][i], pos |-> i - 1, at |-> i - 1, call |-> None]
<1>1. Preloaded[p] \in Seq(Ids)
  BY PreloadedAssumption
<1>2. DOMAIN Preloaded[p] = 1 .. Len(Preloaded[p]) /\ Len(Preloaded[p]) \in Nat
  BY <1>1
<1>3. ASSUME NEW i \in 1 .. Len(Preloaded[p])
      PROVE  [id |-> Preloaded[p][i], pos |-> i - 1, at |-> i - 1, call |-> None] \in AnyUpdate
  <2>1. Preloaded[p][i] \in Ids /\ i - 1 \in Nat
    BY <1>1, <1>2
  <2> QED
    BY <2>1 DEF AnyUpdate
<1> QED
  BY <1>2, <1>3 DEF PreloadedUpdates

\* The preloaded records of an identifier are those of its preloaded updates; a
\* user has none.
LEMMA PreloadedRecordsExact ==
  ASSUME NEW id \in Users \cup Ids
  PROVE  LET updates == { u \in ToSet(PreloadedUpdates(PartitionOf[id])) : u.id = id }
         IN  /\ PreloadedRecords(id) \in Seq(Stored)
             /\ ToSet(PreloadedRecords(id)) = { RecordOf(u) : u \in updates }
             /\ \A u, v \in updates : u = v
             /\ id \in Users => PreloadedRecords(id) = <<>>
<1> DEFINE p == PartitionOf[id]
           updates == { u \in ToSet(PreloadedUpdates(p)) : u.id = id }
           records == { RecordOf(u) : u \in updates }
<1>1. p \in Partitions
  BY ConstantsAssumption
<1>2. ASSUME NEW u \in updates
      PROVE  \E i \in DOMAIN Preloaded[p] :
               /\ Preloaded[p][i] = id
               /\ u = [id |-> id, pos |-> i - 1, at |-> i - 1, call |-> None]
  <2>1. PICK i \in DOMAIN PreloadedUpdates(p) : u = PreloadedUpdates(p)[i]
    BY DEF ToSet
  <2> HIDE DEF p
  <2>2. i \in DOMAIN Preloaded[p]
    BY <1>1, PreloadedUpdatesNumbered
  <2>3. u = [id |-> Preloaded[p][i], pos |-> i - 1, at |-> i - 1, call |-> None]
    BY <1>1, <2>1, PreloadedUpdatesNumbered
  <2>4. Preloaded[p][i] = id
    BY <2>3
  <2> QED
    BY <2>2, <2>3, <2>4
<1>3. \A u, v \in updates : u = v
  BY <1>1, <1>2, PreloadedAssumption
<1>4. \A u \in updates : u \in AnyUpdate
  BY <1>1, PreloadedUpdatesNumbered, ToSetType
<1>5. PreloadedRecords(id) = SetToSeq(records)
  BY DEF PreloadedRecords
<1>6. id \in Users => updates = {}
  <2>1. ASSUME NEW i \in DOMAIN Preloaded[p] PROVE Preloaded[p][i] \in Ids
    BY <1>1, PreloadedAssumption
  <2> QED
    BY <1>2, <2>1, ConstantsAssumption
<1> HIDE DEF updates
<1>7. CASE updates = {}
  <2>1. records = {} /\ PreloadedRecords(id) = <<>>
    BY <1>5, <1>7, SmallSetToSeq
  <2> QED
    BY <1>3, <2>1, ToSetEmpty DEF updates
<1>8. CASE updates # {}
  <2>1. PICK u \in updates : TRUE
    BY <1>8
  <2>2. updates = {u} /\ records = { RecordOf(u) }
    BY <1>3, <2>1
  <2>3. PreloadedRecords(id) = << RecordOf(u) >>
    BY <1>5, <2>2, SmallSetToSeq
  <2>4. RecordOf(u) \in Stored
    BY <1>4, <2>1 DEF RecordOf, Stored, AnyUpdate
  <2>5. PreloadedRecords(id) \in Seq(Stored)
    BY <2>3, <2>4
  <2> QED
    BY <1>3, <1>6, <1>8, <2>2, <2>3, <2>5, ToSetSingleton DEF updates
<1> QED
  BY <1>7, <1>8

-----------------------------------------------------------------------------
(* Type correctness.                                                       *)

\* A new server is well typed.
LEMMA InitTypeOK == Init => TypeOK
<1> SUFFICES ASSUME Init PROVE TypeOK
  OBVIOUS
<1>1. HandlersTypeOK
  BY DEF Init, HandlersTypeOK, Labels
<1>2. LastPos \in [Partitions -> Nat] /\ pending \in [Partitions -> Seq(AnyUpdate)]
  BY PreloadedUpdatesNumbered DEF Init
<1>3. PartitionsTypeOK
  BY <1>2, FS_EmptySet DEF Init, PartitionsTypeOK
<1>4. storage \in [Users \cup Ids -> Seq(Stored)]
  BY PreloadedRecordsExact DEF Init
<1> QED
  BY <1>1, <1>3, <1>4 DEF Init, TypeOK

\* The identifier of a call that has begun is in some partition.
LEMMA HomeType ==
  ASSUME TypeOK, NEW h \in Handlers, pc[h] # "idle"
  PROVE  request[h] \in Call /\ request[h].id \in Users \cup Ids /\ Home(h) \in Partitions
  BY ConstantsAssumption DEF TypeOK, HandlersTypeOK, Call, Home

\* A call's move to another place in its handler.
LEMMA GoToType ==
  ASSUME HandlersTypeOK, NEW h \in Handlers, pc[h] # "idle", NEW label \in Labels,
         GoTo(h, label), UNCHANGED << request, masterKeys, doneBefore >>,
         position' \in [Handlers -> Nat], original' \in [Handlers -> Seq(Stored)]
  PROVE  HandlersTypeOK'
<1>1. pc' \in [Handlers -> Labels]
  BY DEF HandlersTypeOK, GoTo
<1>2. \A other \in Handlers : pc'[other] # "idle" => pc[other] # "idle"
  BY DEF HandlersTypeOK, GoTo
<1> QED
  BY <1>1, <1>2 DEF HandlersTypeOK

\* A call that comes in.
LEMMA BeginType ==
  ASSUME HandlersTypeOK, NEW h \in Handlers, NEW client \in Clients, NEW user \in Users,
         NEW id \in Users \cup Ids, NEW good \in BOOLEAN, Begin(h, client, user, id, good),
         NEW label \in Labels, GoTo(h, label),
         masterKeys' \in [Clients -> [Users -> Handlers \cup {None}]]
  PROVE  HandlersTypeOK'
<1> DEFINE new == [client |-> client, user |-> user, id |-> id, good |-> good]
<1>1. new \in Call
  BY DEF Call
<1>2. request' = [request EXCEPT ![h] = new] /\ doneBefore' = [doneBefore EXCEPT ![h] = Completed]
      /\ UNCHANGED << position, original >>
  BY DEF Begin
<1> HIDE DEF new
<1>3. pc' \in [Handlers -> Labels]
  BY DEF HandlersTypeOK, GoTo
<1>4. request' \in [Handlers -> Call \cup {None}]
  BY <1>1, <1>2 DEF HandlersTypeOK
<1>5. \A other \in Handlers : pc'[other] # "idle" => request'[other] \in Call
  BY <1>1, <1>2 DEF HandlersTypeOK, GoTo
<1>6. Completed \subseteq Handlers
  BY DEF Completed
<1>7. doneBefore' \in [Handlers -> SUBSET Handlers]
  BY <1>2, <1>6 DEF HandlersTypeOK
<1> QED
  BY <1>2, <1>3, <1>4, <1>5, <1>7 DEF HandlersTypeOK

\* The update that an accepted call leaves in its partition.
LEMMA NewUpdateType ==
  ASSUME TypeOK, NEW h \in Handlers, pc[h] # "idle", NEW n \in Nat
  PROVE  /\ NewUpdate(h, n) \in AnyUpdate
         /\ PartitionPos(Home(h)) \in Nat
<1>1. Home(h) \in Partitions /\ request[h].id \in Users \cup Ids
  BY HomeType
<1>2. Cardinality(provable[Home(h)]) \in Nat
  BY <1>1, FS_CardinalityType DEF TypeOK, PartitionsTypeOK
<1>3. Len(pending[Home(h)]) \in Nat
  BY <1>1 DEF TypeOK, PartitionsTypeOK
<1>4. PartitionPos(Home(h)) \in Nat
  BY <1>2, <1>3 DEF PartitionPos
<1> QED
  BY <1>1, <1>4 DEF NewUpdate, AnyUpdate

\* Every state that the calls and the epoch loop reach is well typed.
LEMMA NextTypeOK == TypeOK /\ [Next]_vars => TypeOK'
<1> SUFFICES ASSUME TypeOK, [Next]_vars PROVE TypeOK'
  OBVIOUS
<1> USE DEF handlerVars, partitionVars, storeVars, loopVars
<1>1. ASSUME NEW h \in Handlers, NEW client \in Callers[h], NEW user \in Users,
             Register(h, client, user)
      PROVE  TypeOK'
  <2>1. client \in Clients
    BY ConstantsAssumption
  <2>2. masterKeys' \in [Clients -> [Users -> Handlers \cup {None}]]
    BY <1>1 DEF Register, KeepKey, TypeOK, HandlersTypeOK
  <2>3. Begin(h, client, user, user, TRUE) /\ (GoTo(h, "register") \/ GoTo(h, "failed"))
    BY <1>1 DEF Register
  <2>4. HandlersTypeOK'
    BY <2>1, <2>2, <2>3, BeginType DEF TypeOK, Labels
  <2> QED
    BY <2>3, <2>4 DEF Begin, TypeOK, PartitionsTypeOK
<1>2. ASSUME NEW h \in Handlers, NEW client \in Callers[h], NEW user \in Users, NEW id \in Ids,
             StartAppend(h, client, user, id)
      PROVE  TypeOK'
  <2>1. client \in Clients
    BY ConstantsAssumption
  <2>2. WillVerify(client, user) \in BOOLEAN
    BY DEF WillVerify
  <2>3. /\ Begin(h, client, user, id, WillVerify(client, user))
        /\ GoTo(h, "lock") \/ GoTo(h, "failed")
        /\ UNCHANGED masterKeys
    BY <1>2 DEF StartAppend
  <2>4. HandlersTypeOK'
    BY <2>1, <2>2, <2>3, BeginType DEF TypeOK, HandlersTypeOK, Labels
  <2> QED
    BY <2>3, <2>4 DEF Begin, TypeOK, PartitionsTypeOK
<1>3. ASSUME NEW h \in Handlers, AcceptSignature(h) PROVE TypeOK'
  <2>1. pc[h] # "idle" /\ GoTo(h, "getValue")
    BY <1>3 DEF AcceptSignature
  <2>2. HandlersTypeOK'
    BY <1>3, <2>1, GoToType DEF AcceptSignature, TypeOK, HandlersTypeOK, Labels
  <2>3. NewUpdate(h, position[h]) \in AnyUpdate /\ Home(h) \in Partitions
    BY <2>1, NewUpdateType, HomeType DEF TypeOK, HandlersTypeOK
  <2>4. pending' \in [Partitions -> Seq(AnyUpdate)]
    BY <1>3, <2>3 DEF AcceptSignature, Accept, TypeOK, PartitionsTypeOK
  <2>5. LastPosLock' \in [Partitions -> Handlers \cup {None}]
    BY <1>3 DEF AcceptSignature, Unlock, TypeOK, PartitionsTypeOK
  <2>6. PartitionsTypeOK'
    BY <1>3, <2>4, <2>5 DEF AcceptSignature, TypeOK, PartitionsTypeOK
  <2>7. overlapped' \subseteq Users \cup Ids
    BY <1>3, <2>1, HomeType DEF AcceptSignature, TypeOK
  <2> QED
    BY <1>3, <2>2, <2>6, <2>7 DEF AcceptSignature, TypeOK
<1>4. ASSUME NEW h \in Handlers, FailAppend(h) PROVE TypeOK'
  <2>1. HandlersTypeOK'
    BY <1>4, GoToType DEF FailAppend, TypeOK, HandlersTypeOK, Labels
  <2> QED
    BY <1>4, <2>1 DEF FailAppend, TypeOK, PartitionsTypeOK
<1>5. ASSUME NEW h \in Handlers, RegisterKey(h) PROVE TypeOK'
  <2>1. pc[h] # "idle" /\ GoTo(h, "putKey")
    BY <1>5 DEF RegisterKey
  <2>2. Home(h) \in Partitions
    BY <2>1, HomeType
  <2>3. LastPos[Home(h)] \in Nat
    BY <2>2 DEF TypeOK, PartitionsTypeOK
  <2>4. HandlersTypeOK'
    BY <1>5, <2>1, <2>3, GoToType DEF RegisterKey, TypeOK, HandlersTypeOK, Labels
  <2>5. NewUpdate(h, LastPos[Home(h)]) \in AnyUpdate
    BY <2>1, <2>3, NewUpdateType
  <2>6. pending' \in [Partitions -> Seq(AnyUpdate)]
    BY <1>5, <2>2, <2>5 DEF RegisterKey, Accept, TypeOK, PartitionsTypeOK
  <2>7. LastPos' \in [Partitions -> Nat] /\ UNCHANGED << PublishedPos, LastPosLock, provable >>
    <3>1. LastPos[Home(h)] + 1 \in Nat
      BY <2>3
    <3>2. /\ LastPos' = [LastPos EXCEPT ![Home(h)] = LastPos[Home(h)] + 1]
          /\ UNCHANGED << PublishedPos, LastPosLock, provable >>
      BY <1>5 DEF RegisterKey
    <3> QED
      BY <3>1, <3>2 DEF TypeOK, PartitionsTypeOK
  <2>8. PartitionsTypeOK'
    BY <2>6, <2>7 DEF TypeOK, PartitionsTypeOK
  <2> QED
    BY <1>5, <2>4, <2>8 DEF RegisterKey, TypeOK
<1>6. ASSUME NEW h \in Handlers, PutKey(h) PROVE TypeOK'
  <2>1. HandlersTypeOK'
    BY <1>6, GoToType DEF PutKey, TypeOK, HandlersTypeOK, Labels
  <2>2. << Record(h) >> \in Seq(Stored)
    BY DEF Record, Stored, TypeOK, HandlersTypeOK
  <2>3. storage' \in [Users \cup Ids -> Seq(Stored)]
    BY <1>6, <2>2 DEF PutKey, Put, TypeOK
  <2> QED
    BY <1>6, <2>1, <2>3 DEF PutKey, TypeOK, PartitionsTypeOK
<1>7. ASSUME NEW h \in Handlers, SendPosition(h) PROVE TypeOK'
  <2>1. pc[h] # "idle" /\ GoTo(h, "signature")
    BY <1>7 DEF SendPosition
  <2>2. LastPos[Home(h)] \in Nat
    BY <2>1, HomeType DEF TypeOK, PartitionsTypeOK
  <2>3. HandlersTypeOK'
    BY <1>7, <2>1, <2>2, GoToType DEF SendPosition, TypeOK, HandlersTypeOK, Labels
  <2>4. /\ LastPos' \in [Partitions -> Nat]
        /\ LastPosLock' \in [Partitions -> Handlers \cup {None}]
        /\ UNCHANGED << PublishedPos, pending, provable >>
    <3>1. LastPos[Home(h)] + 1 \in Nat
      BY <2>2
    <3>2. /\ LastPos' = [LastPos EXCEPT ![Home(h)] = LastPos[Home(h)] + 1]
          /\ LastPosLock' = [LastPosLock EXCEPT ![Home(h)] = h]
          /\ UNCHANGED << PublishedPos, pending, provable >>
      BY <1>7 DEF SendPosition
    <3> QED
      BY <3>1, <3>2 DEF TypeOK, PartitionsTypeOK
  <2>5. PartitionsTypeOK'
    BY <2>4 DEF TypeOK, PartitionsTypeOK
  <2> QED
    BY <1>7, <2>3, <2>5 DEF SendPosition, TypeOK
<1>8. ASSUME NEW h \in Handlers, GetValue(h) PROVE TypeOK'
  <2>1. pc[h] # "idle" /\ GoTo(h, "putValue")
    BY <1>8 DEF GetValue
  <2>2. original' \in [Handlers -> Seq(Stored)]
    BY <1>8, <2>1, HomeType DEF GetValue, Get, TypeOK, HandlersTypeOK
  <2>3. HandlersTypeOK'
    BY <1>8, <2>1, <2>2, GoToType DEF GetValue, TypeOK, HandlersTypeOK, Labels
  <2> QED
    BY <1>8, <2>3 DEF GetValue, TypeOK, PartitionsTypeOK
<1>9. ASSUME NEW h \in Handlers, PutValue(h) PROVE TypeOK'
  <2>1. HandlersTypeOK'
    BY <1>9, GoToType DEF PutValue, TypeOK, HandlersTypeOK, Labels
  <2>2. Record(h) \in Stored /\ original[h] \in Seq(Stored)
    BY DEF Record, Stored, TypeOK, HandlersTypeOK
  <2>3. NewestFirst(Record(h), original[h]) \in Seq(Stored)
    BY <2>2, ToSetPrepend DEF NewestFirst
  <2>4. storage' \in [Users \cup Ids -> Seq(Stored)]
    BY <1>9, <2>3 DEF PutValue, Put, TypeOK
  <2> QED
    BY <1>9, <2>1, <2>4 DEF PutValue, TypeOK, PartitionsTypeOK
<1>10. ASSUME NEW p \in Partitions, PublishPartition(p) PROVE TypeOK'
  <2>1. pending[p] \in Seq(AnyUpdate)
    BY DEF TypeOK, PartitionsTypeOK
  <2>2. ToSet(pending[p]) \subseteq AnyUpdate /\ IsFiniteSet(ToSet(pending[p]))
    BY <2>1, ToSetType, ToSetFinite
  <2>3. /\ IsFiniteSet(provable[p] \cup ToSet(pending[p]))
        /\ provable[p] \cup ToSet(pending[p]) \subseteq AnyUpdate
    BY <2>2, FS_Union DEF TypeOK, PartitionsTypeOK
  <2>4. /\ provable' = [provable EXCEPT ![p] = @ \cup ToSet(pending[p])]
        /\ pending' = [pending EXCEPT ![p] = <<>>]
        /\ PublishedPos' = [PublishedPos EXCEPT ![p] = LastPos[p]]
        /\ UNCHANGED << LastPos, LastPosLock >>
    BY <1>10 DEF PublishPartition, PublishPending
  <2>5. PartitionsTypeOK'
    BY <2>3, <2>4 DEF TypeOK, PartitionsTypeOK
  <2> QED
    BY <1>10, <2>5 DEF PublishPartition, TypeOK, HandlersTypeOK
<1>11. CASE StartUpdateEpoch \/ StartVerificationPeriod
  BY <1>11 DEF StartUpdateEpoch, StartVerificationPeriod, Tick, TypeOK, HandlersTypeOK, PartitionsTypeOK
<1>12. ASSUME NEW p \in Partitions, RollOver(p) PROVE TypeOK'
  BY <1>12 DEF RollOver, TypeOK, HandlersTypeOK, PartitionsTypeOK
<1>13. CASE FinishEpoch
  BY <1>13 DEF FinishEpoch, TypeOK, HandlersTypeOK, PartitionsTypeOK
<1>14. CASE UNCHANGED vars
  BY <1>14 DEF vars, TypeOK, HandlersTypeOK, PartitionsTypeOK
<1> QED
  BY <1>1, <1>2, <1>3, <1>4, <1>5, <1>6, <1>7, <1>8, <1>9, <1>10, <1>11, <1>12, <1>13, <1>14
  DEF Next, ServerStep, EpochStep

\* In every state the server's variables are well typed; in particular no partition
\* ever has infinitely many provable updates to count.
THEOREM TypeCorrect == Spec => []TypeOK
  BY InitTypeOK, NextTypeOK, PTL DEF Spec

-----------------------------------------------------------------------------
(* Positions.                                                              *)

\* A call of Register is for a user, a call of Append for one of the users' values.
CallsKnowTheirIds ==
  \A h \in Handlers :
    /\ pc[h] \in {"register", "putKey"} => request[h].id \in Users
    /\ pc[h] \in {"lock", "signature", "getValue", "putValue"} => request[h].id \in Ids

\* The server's count of a partition's updates is exact while the lock is free; while a
\* call holds it, for good if the call has failed, the count is one ahead, by the
\* position that the call was given.
CountersFitLock ==
  \A p \in Partitions :
    /\ LockFree(p) => LastPos[p] = PublishedPos[p] + Len(pending[p])
    /\ \A h \in Handlers : LastPosLock[p] = h =>
         /\ pc[h] \in {"signature", "failed"}
         /\ Home(h) = p
         /\ position[h] = PublishedPos[p] + Len(pending[p])
         /\ LastPos[p] = position[h] + 1

SignersHoldLocks == \A h \in Handlers : pc[h] = "signature" => LastPosLock[Home(h)] = h

\* The updates of a partition are numbered without a gap as they were accepted,
\* the provable ones first.
NumberedIn(p) ==
  /\ \A i \in DOMAIN pending[p] :
       pending[p][i].pos = PublishedPos[p] + i - 1 /\ pending[p][i].at = pending[p][i].pos
  /\ { u.pos : u \in provable[p] } = 0 .. PublishedPos[p] - 1
  /\ \A u \in provable[p] : u.at = u.pos
  /\ \A u, v \in provable[p] : u.pos = v.pos => u = v
Numbered == \A p \in Partitions : NumberedIn(p)

\* The calls that may have been given a position; each was given one.
Assigned == { h \in Handlers : pc[h] \notin {"idle", "register", "lock"} }
PositionsBounded ==
  \A p \in Partitions : LastPos[p] <= Len(Preloaded[p]) + Cardinality(Assigned)

CounterInv ==
  /\ CallsKnowTheirIds
  /\ CountersFitLock
  /\ SignersHoldLocks
  /\ Numbered
  /\ PositionsBounded

\* Partition.pos, which counts what the partition has accepted.
LEMMA PartitionPosExact ==
  ASSUME TypeOK, NEW p \in Partitions, NumberedIn(p)
  PROVE  PartitionPos(p) = PublishedPos[p] + Len(pending[p])
<1> DEFINE n == PublishedPos[p]
           S == provable[p]
           f == [i \in 0 .. n - 1 |-> CHOOSE u \in S : u.pos = i]
<1>1. n \in Nat /\ Len(pending[p]) \in Nat
  BY DEF TypeOK, PartitionsTypeOK
<1>2. { u.pos : u \in S } = 0 .. n - 1 /\ \A u, v \in S : u.pos = v.pos => u = v
  BY DEF NumberedIn
<1> HIDE DEF n, S
<1>3. \A i \in 0 .. n - 1 : \E u \in S : u.pos = i
  BY <1>2
<1>4. \A i \in 0 .. n - 1 : f[i] \in S /\ f[i].pos = i
  BY <1>3
<1>5. \A u \in S : u.pos \in 0 .. n - 1 /\ f[u.pos] = u
  <2> SUFFICES ASSUME NEW u \in S PROVE u.pos \in 0 .. n - 1 /\ f[u.pos] = u
    OBVIOUS
  <2>1. u.pos \in 0 .. n - 1
    BY <1>2
  <2>2. f[u.pos] \in S /\ f[u.pos].pos = u.pos
    BY <1>4, <2>1
  <2> QED
    BY <1>2, <2>1, <2>2
<1>6. f \in [0 .. n - 1 -> S]
  BY <1>4
<1>7. DOMAIN f = 0 .. n - 1
  OBVIOUS
<1> HIDE DEF f
<1>8. f \in Bijection(0 .. n - 1, S)
  BY <1>4, <1>5, <1>6, <1>7 DEF Bijection, Injection, Surjection, IsInjective
<1>9. ExistsBijection(0 .. n - 1, S)
  BY <1>8 DEF ExistsBijection
<1>10. IsFiniteSet(0 .. n - 1) /\ Cardinality(0 .. n - 1) = n
  <2>1. n - 1 \in Int /\ 0 \in Int /\ (0 > n - 1 <=> n = 0) /\ (n - 1) - 0 + 1 = n
    BY <1>1
  <2>2. IsFiniteSet(0 .. n - 1)
        /\ Cardinality(0 .. n - 1) = IF 0 > n - 1 THEN 0 ELSE (n - 1) - 0 + 1
    BY <2>1, FS_Interval, Zenon
  <2> QED
    BY <2>1, <2>2
<1>11. Cardinality(S) = n
  BY <1>9, <1>10, FS_Bijection
<1> QED
  BY <1>1, <1>11 DEF PartitionPos, n, S

\* An update at the next position, in the server's count and the partition's.
LEMMA AcceptNumbered ==
  ASSUME TypeOK, TypeOK', NEW p \in Partitions, NumberedIn(p), NEW u \in AnyUpdate,
         u.pos = PublishedPos[p] + Len(pending[p]), u.at = u.pos,
         pending'[p] = Append(pending[p], u), UNCHANGED << PublishedPos, provable >>
  PROVE  NumberedIn(p)'
<1>1. pending[p] \in Seq(AnyUpdate) /\ PublishedPos[p] \in Nat
  BY DEF TypeOK, PartitionsTypeOK
<1>2. ASSUME NEW i \in DOMAIN pending'[p]
      PROVE  pending'[p][i].pos = PublishedPos[p] + i - 1 /\ pending'[p][i].at = pending'[p][i].pos
  <2>1. DOMAIN pending'[p] = 1 .. Len(pending[p]) + 1 /\ DOMAIN pending[p] = 1 .. Len(pending[p])
    BY <1>1
  <2>2. CASE i = Len(pending[p]) + 1
    <3>1. pending'[p][i] = u
      BY <1>1, <2>2
    <3>2. Len(pending[p]) = i - 1
      BY <1>1, <2>1, <2>2
    <3> QED
      BY <1>1, <2>1, <3>1, <3>2
  <2>3. CASE i \in 1 .. Len(pending[p])
    BY <1>1, <2>1, <2>3 DEF NumberedIn
  <2> QED
    BY <1>1, <2>1, <2>2, <2>3
<1> QED
  BY <1>2 DEF NumberedIn

\* An update epoch makes provable what is pending, and numbers it no differently.
LEMMA PublishNumbered ==
  ASSUME TypeOK, NEW p \in Partitions, NumberedIn(p),
         provable'[p] = provable[p] \cup ToSet(pending[p]), pending'[p] = <<>>,
         PublishedPos'[p] = PublishedPos[p] + Len(pending[p])
  PROVE  NumberedIn(p)'
<1> DEFINE n == PublishedPos[p]
           k == Len(pending[p])
           s == pending[p]
           S == provable[p]
<1>1. n \in Nat /\ k \in Nat /\ s \in Seq(AnyUpdate) /\ DOMAIN s = 1 .. k /\ S \subseteq AnyUpdate
  BY DEF TypeOK, PartitionsTypeOK
<1>2. \A i \in 1 .. k : s[i].pos = n + i - 1 /\ s[i].at = s[i].pos
  BY <1>1 DEF NumberedIn
<1>3. /\ { u.pos : u \in S } = 0 .. n - 1
      /\ \A u \in S : u.at = u.pos
      /\ \A u, v \in S : u.pos = v.pos => u = v
  BY DEF NumberedIn
<1>4. \A u \in ToSet(s) : \E i \in 1 .. k : u = s[i] /\ u.pos = n + i - 1
  BY <1>1, <1>2 DEF ToSet
<1>5. \A i \in 1 .. k : s[i] \in ToSet(s)
  BY <1>1 DEF ToSet
<1> HIDE DEF n, k, s, S
<1>6. \A u, v \in S \cup ToSet(s) : u.pos = v.pos => u = v
  <2> SUFFICES ASSUME NEW u \in S \cup ToSet(s), NEW v \in S \cup ToSet(s), u.pos = v.pos
               PROVE  u = v
    OBVIOUS
  <2>1. \A w \in S : w.pos \in 0 .. n - 1
    BY <1>3
  <2>2. \A w \in ToSet(s) : w.pos \notin 0 .. n - 1
    BY <1>1, <1>4
  <2>3. CASE u \in S /\ v \in S
    BY <1>3, <2>3
  <2>4. CASE u \in ToSet(s) /\ v \in ToSet(s)
    <3>1. PICK i \in 1 .. k : u = s[i] /\ u.pos = n + i - 1
      BY <1>4, <2>4
    <3>2. PICK j \in 1 .. k : v = s[j] /\ v.pos = n + j - 1
      BY <1>4, <2>4
    <3>3. i = j
      BY <1>1, <3>1, <3>2
    <3> QED
      BY <3>1, <3>2, <3>3
  <2> QED
    BY <2>1, <2>2, <2>3, <2>4
<1>7. { u.pos : u \in S \cup ToSet(s) } = 0 .. (n + k) - 1
  <2>1. ASSUME NEW i \in 0 .. (n + k) - 1
        PROVE  \E u \in S \cup ToSet(s) : u.pos = i
    <3>1. CASE i \in 0 .. n - 1
      BY <1>3, <3>1
    <3>2. CASE i \notin 0 .. n - 1
      <4>1. i - n + 1 \in 1 .. k /\ n + (i - n + 1) - 1 = i
        BY <1>1, <3>2
      <4>2. s[i - n + 1].pos = i
        BY <1>2, <4>1
      <4> QED
        BY <1>5, <4>1, <4>2
    <3> QED
      BY <3>1, <3>2
  <2>2. ASSUME NEW u \in S \cup ToSet(s) PROVE u.pos \in 0 .. (n + k) - 1
    <3>1. CASE u \in S
      <4>1. u.pos \in 0 .. n - 1
        BY <1>3, <3>1
      <4> QED
        BY <1>1, <4>1
    <3>2. CASE u \in ToSet(s)
      BY <1>1, <1>4, <3>2
    <3> QED
      BY <3>1, <3>2
  <2> QED
    BY <2>1, <2>2
<1>8. \A u \in S \cup ToSet(s) : u.at = u.pos
  BY <1>2, <1>3, <1>4
<1>9. provable'[p] = S \cup ToSet(s) /\ PublishedPos'[p] = n + k /\ DOMAIN pending'[p] = {}
  BY DEF n, k, s, S
<1> QED
  BY <1>6, <1>7, <1>8, <1>9 DEF NumberedIn

\* Calls only join those that were given a position.
LEMMA AssignedGrows ==
  ASSUME Assigned \subseteq Assigned'
  PROVE  Cardinality(Assigned) <= Cardinality(Assigned')
         /\ Cardinality(Assigned) \in Nat /\ Cardinality(Assigned') \in Nat
<1>1. Assigned \subseteq Handlers /\ Assigned' \subseteq Handlers
  BY DEF Assigned
<1>2. IsFiniteSet(Assigned')
  BY <1>1, ConstantsAssumption, FS_Subset
<1> QED
  BY <1>1, <1>2, ConstantsAssumption, FS_Subset, FS_CardinalityType

\* A call that is given its position was given none before.
LEMMA AssignedJoins ==
  ASSUME TypeOK, NEW h \in Handlers, pc[h] \in {"register", "lock"},
         GoTo(h, "putKey") \/ GoTo(h, "signature")
  PROVE  Cardinality(Assigned') = Cardinality(Assigned) + 1 /\ Cardinality(Assigned) \in Nat
<1>1. Assigned' = Assigned \cup {h} /\ h \notin Assigned
  BY DEF Assigned, GoTo, TypeOK, HandlersTypeOK
<1>2. IsFiniteSet(Assigned)
  BY ConstantsAssumption, FS_Subset DEF Assigned
<1> QED
  BY <1>1, <1>2, FS_AddElement, FS_CardinalityType

\* There is room for the position of every call.
LEMMA RoomForPosition ==
  ASSUME TypeOK, PositionsBounded, NEW h \in Handlers, h \notin Assigned, NEW p \in Partitions
  PROVE  LastPos[p] \in Position
<1>1. IsFiniteSet(Assigned) /\ Cardinality(Assigned) \in Nat
  BY ConstantsAssumption, FS_Subset, FS_CardinalityType DEF Assigned
<1>2. Cardinality(Assigned \cup {h}) = Cardinality(Assigned) + 1
  BY <1>1, FS_AddElement
<1>3. Assigned \cup {h} \subseteq Handlers
  BY DEF Assigned
<1>4. Cardinality(Assigned) + 1 <= Cardinality(Handlers) /\ Cardinality(Handlers) \in Nat
  BY <1>2, <1>3, ConstantsAssumption, FS_Subset, FS_CardinalityType
<1>5. Len(Preloaded[p]) \in Nat /\ LastPos[p] \in Nat
  BY PreloadedAssumption DEF TypeOK, PartitionsTypeOK
<1>6. LastPos[p] <= Len(Preloaded[p]) + Cardinality(Assigned)
  BY DEF PositionsBounded
<1>7. LastPos[p] \in 0 .. Len(Preloaded[p]) + Cardinality(Handlers) - 1
  BY <1>1, <1>4, <1>5, <1>6
<1> QED
  BY <1>7 DEF Position

\* The counters of a new server.
LEMMA InitCounterInv == Init => CounterInv
<1> SUFFICES ASSUME Init PROVE CounterInv
  OBVIOUS
<1>1. CallsKnowTheirIds /\ SignersHoldLocks
  BY DEF Init, CallsKnowTheirIds, SignersHoldLocks
<1>2. CountersFitLock
  BY PreloadedUpdatesNumbered, ConstantsAssumption DEF Init, CountersFitLock
<1>3. Numbered
  BY PreloadedUpdatesNumbered DEF Init, Numbered, NumberedIn
<1>4. PositionsBounded
  <2>1. Cardinality(Assigned) = 0
    BY FS_EmptySet DEF Init, Assigned
  <2> QED
    BY <2>1, PreloadedUpdatesNumbered DEF Init, PositionsBounded
<1> QED
  BY <1>1, <1>2, <1>3, <1>4 DEF CounterInv

\* A call comes in: it has no position, and no lock.
LEMMA BeginCounterInv ==
  ASSUME TypeOK, TypeOK', CounterInv, NEW h \in Handlers, pc[h] = "idle",
         NEW label \in {"register", "lock", "failed"}, GoTo(h, label),
         \A other \in Handlers \ {h} : request'[other] = request[other],
         label = "register" => request'[h].id \in Users,
         label = "lock" => request'[h].id \in Ids,
         UNCHANGED << position, partitionVars >>
  PROVE  CounterInv'
<1>1. \A other \in Handlers : pc'[other] = IF other = h THEN label ELSE pc[other]
  BY DEF GoTo, TypeOK, HandlersTypeOK
<1>2. \A other \in Handlers \ {h} : Home(other)' = Home(other)
  BY DEF Home
<1>3. UNCHANGED << LastPos, LastPosLock, pending, PublishedPos, provable >>
  BY DEF partitionVars
<1>4. CallsKnowTheirIds'
  BY <1>1 DEF CounterInv, CallsKnowTheirIds
<1>5. CountersFitLock'
  <2>1. \A p \in Partitions : LastPosLock[p] # h
    BY DEF CounterInv, CountersFitLock
  <2> QED
    BY <1>1, <1>2, <1>3, <2>1 DEF CounterInv, CountersFitLock, LockFree
<1>6. SignersHoldLocks'
  BY <1>1, <1>2, <1>3 DEF CounterInv, SignersHoldLocks
<1>7. Numbered'
  BY <1>3 DEF CounterInv, Numbered, NumberedIn
<1>8. PositionsBounded'
  <2>1. Assigned \subseteq Assigned'
    BY <1>1 DEF Assigned
  <2>2. \A p \in Partitions : LastPos[p] \in Nat /\ Len(Preloaded[p]) \in Nat
    BY PreloadedAssumption DEF TypeOK, PartitionsTypeOK
  <2> QED
    BY <1>3, <2>1, <2>2, AssignedGrows DEF CounterInv, PositionsBounded
<1> QED
  BY <1>4, <1>5, <1>6, <1>7, <1>8 DEF CounterInv

\* The steps of a call that leave its partition alone.
LEMMA MoveCounterInv ==
  ASSUME TypeOK, TypeOK', CounterInv, NEW h \in Handlers, NEW label, GoTo(h, label),
         \/ pc[h] = "signature" /\ label = "failed"
         \/ pc[h] = "getValue" /\ label = "putValue"
         \/ pc[h] \in {"putKey", "putValue"} /\ label = "done",
         UNCHANGED << request, position, partitionVars >>
  PROVE  CounterInv'
<1>1. \A other \in Handlers : pc'[other] = IF other = h THEN label ELSE pc[other]
  BY DEF GoTo, TypeOK, HandlersTypeOK
<1>2. \A other \in Handlers : Home(other)' = Home(other)
  BY DEF Home
<1>3. UNCHANGED << LastPos, LastPosLock, pending, PublishedPos, provable >>
  BY DEF partitionVars
<1>4. CallsKnowTheirIds'
  BY <1>1 DEF CounterInv, CallsKnowTheirIds
<1>5. CountersFitLock'
  BY <1>1, <1>2, <1>3 DEF CounterInv, CountersFitLock, LockFree
<1>6. SignersHoldLocks'
  BY <1>1, <1>2, <1>3 DEF CounterInv, SignersHoldLocks
<1>7. Numbered'
  BY <1>3 DEF CounterInv, Numbered, NumberedIn
<1>8. PositionsBounded'
  <2>1. Assigned = Assigned'
    BY <1>1 DEF Assigned
  <2> QED
    BY <1>3, <2>1 DEF CounterInv, PositionsBounded
<1> QED
  BY <1>4, <1>5, <1>6, <1>7, <1>8 DEF CounterInv

\* Registering takes a position and uses it in one step.
LEMMA RegisterKeyCounterInv ==
  ASSUME TypeOK, TypeOK', CounterInv, NEW h \in Handlers, RegisterKey(h)
  PROVE  CounterInv'
<1> DEFINE p == Home(h)
           u == NewUpdate(h, LastPos[Home(h)])
<1>1. /\ pc[h] = "register" /\ LockFree(p) /\ GoTo(h, "putKey")
      /\ position' = [position EXCEPT ![h] = LastPos[p]]
      /\ LastPos' = [LastPos EXCEPT ![p] = LastPos[p] + 1]
      /\ pending' = [pending EXCEPT ![p] = Append(pending[p], u)]
      /\ UNCHANGED << request, LastPosLock, PublishedPos, provable >>
  BY DEF RegisterKey, Accept
<1>2. p \in Partitions
  BY <1>1, HomeType
<1>3. \A other \in Handlers : pc'[other] = IF other = h THEN "putKey" ELSE pc[other]
  BY <1>1 DEF GoTo, TypeOK, HandlersTypeOK
<1>4. \A other \in Handlers : Home(other)' = Home(other)
  BY <1>1 DEF Home
<1>5. LastPos[p] \in Nat /\ PublishedPos[p] \in Nat /\ pending[p] \in Seq(AnyUpdate)
  BY <1>2 DEF TypeOK, PartitionsTypeOK
<1>6. LastPos[p] = PublishedPos[p] + Len(pending[p])
  BY <1>1, <1>2 DEF CounterInv, CountersFitLock
<1>7. u \in AnyUpdate /\ u.pos = LastPos[p] /\ u.at = u.pos
  <2>1. u \in AnyUpdate
    BY <1>1, <1>5, NewUpdateType
  <2>2. PartitionPos(p) = LastPos[p]
    BY <1>2, <1>6, PartitionPosExact DEF CounterInv, Numbered
  <2> QED
    BY <2>1, <2>2 DEF NewUpdate
<1> HIDE DEF p, u
<1>8. /\ \A other \in Handlers \ {h} : position'[other] = position[other]
      /\ position'[h] = LastPos[p]
      /\ \A q \in Partitions \ {p} : LastPos'[q] = LastPos[q] /\ pending'[q] = pending[q]
      /\ LastPos'[p] = LastPos[p] + 1
      /\ pending'[p] = Append(pending[p], u)
  BY <1>1, <1>2 DEF TypeOK, HandlersTypeOK, PartitionsTypeOK
<1>9. CallsKnowTheirIds'
  BY <1>1, <1>3 DEF CounterInv, CallsKnowTheirIds
<1>10. CountersFitLock'
  <2> SUFFICES ASSUME NEW q \in Partitions
               PROVE  /\ LockFree(q)' => LastPos'[q] = PublishedPos'[q] + Len(pending'[q])
                      /\ \A other \in Handlers : LastPosLock'[q] = other =>
                           /\ pc'[other] \in {"signature", "failed"}
                           /\ Home(other)' = q
                           /\ position'[other] = PublishedPos'[q] + Len(pending'[q])
                           /\ LastPos'[q] = position'[other] + 1
    BY DEF CountersFitLock
  <2>1. \A other \in Handlers : LastPosLock[q] = other => other # h /\ q # p
    BY <1>1, <1>2, ConstantsAssumption DEF CounterInv, CountersFitLock, LockFree
  <2>2. CASE q = p
    <3>1. Len(pending'[p]) = Len(pending[p]) + 1
      BY <1>5, <1>7, <1>8
    <3>2. LastPos'[q] = PublishedPos'[q] + Len(pending'[q])
      BY <1>1, <1>5, <1>6, <1>8, <2>2, <3>1
    <3> QED
      BY <1>1, <2>1, <2>2, <3>2
  <2>3. CASE q # p
    BY <1>1, <1>3, <1>4, <1>8, <2>1, <2>3 DEF CounterInv, CountersFitLock, LockFree
  <2> QED
    BY <2>2, <2>3
<1>11. SignersHoldLocks'
  BY <1>1, <1>3, <1>4 DEF CounterInv, SignersHoldLocks
<1>12. Numbered'
  <2> SUFFICES ASSUME NEW q \in Partitions PROVE NumberedIn(q)'
    BY DEF Numbered
  <2>1. NumberedIn(q)
    BY DEF CounterInv, Numbered
  <2>2. CASE q = p
    BY <1>1, <1>6, <1>7, <1>8, <2>1, <2>2, AcceptNumbered
  <2>3. CASE q # p
    BY <1>1, <1>8, <2>1, <2>3 DEF NumberedIn
  <2> QED
    BY <2>2, <2>3
<1>13. PositionsBounded'
  <2>1. Cardinality(Assigned') = Cardinality(Assigned) + 1 /\ Cardinality(Assigned) \in Nat
    BY <1>1, AssignedJoins
  <2>2. \A q \in Partitions : LastPos[q] \in Nat /\ Len(Preloaded[q]) \in Nat
    BY PreloadedAssumption DEF TypeOK, PartitionsTypeOK
  <2>3. \A q \in Partitions : LastPos'[q] <= LastPos[q] + 1
    BY <1>8, <2>2
  <2>4. \A q \in Partitions : LastPos'[q] \in Nat
    BY DEF TypeOK, PartitionsTypeOK
  <2> QED
    BY <2>1, <2>2, <2>3, <2>4 DEF CounterInv, PositionsBounded
<1> QED
  BY <1>9, <1>10, <1>11, <1>12, <1>13 DEF CounterInv

\* Sending a position takes it, and the lock.
LEMMA SendPositionCounterInv ==
  ASSUME TypeOK, TypeOK', CounterInv, NEW h \in Handlers, SendPosition(h)
  PROVE  CounterInv'
<1> DEFINE p == Home(h)
<1>1. /\ pc[h] = "lock" /\ LockFree(p) /\ GoTo(h, "signature")
      /\ position' = [position EXCEPT ![h] = LastPos[p]]
      /\ LastPos' = [LastPos EXCEPT ![p] = LastPos[p] + 1]
      /\ LastPosLock' = [LastPosLock EXCEPT ![p] = h]
      /\ UNCHANGED << request, pending, PublishedPos, provable >>
  BY DEF SendPosition
<1>2. p \in Partitions
  BY <1>1, HomeType
<1>3. \A other \in Handlers : pc'[other] = IF other = h THEN "signature" ELSE pc[other]
  BY <1>1 DEF GoTo, TypeOK, HandlersTypeOK
<1>4. \A other \in Handlers : Home(other)' = Home(other)
  BY <1>1 DEF Home
<1>5. LastPos[p] \in Nat /\ PublishedPos[p] \in Nat /\ pending[p] \in Seq(AnyUpdate)
  BY <1>2 DEF TypeOK, PartitionsTypeOK
<1>6. LastPos[p] = PublishedPos[p] + Len(pending[p])
  BY <1>1, <1>2 DEF CounterInv, CountersFitLock
<1>7. Home(h)' = p
  BY <1>4
<1> HIDE DEF p
<1>8. /\ \A other \in Handlers \ {h} : position'[other] = position[other]
      /\ position'[h] = LastPos[p]
      /\ \A q \in Partitions \ {p} : LastPos'[q] = LastPos[q] /\ LastPosLock'[q] = LastPosLock[q]
      /\ LastPos'[p] = LastPos[p] + 1
      /\ LastPosLock'[p] = h
  BY <1>1, <1>2 DEF TypeOK, HandlersTypeOK, PartitionsTypeOK
<1>9. CallsKnowTheirIds'
  BY <1>1, <1>3 DEF CounterInv, CallsKnowTheirIds
<1>10. CountersFitLock'
  <2> SUFFICES ASSUME NEW q \in Partitions
               PROVE  /\ LockFree(q)' => LastPos'[q] = PublishedPos'[q] + Len(pending'[q])
                      /\ \A other \in Handlers : LastPosLock'[q] = other =>
                           /\ pc'[other] \in {"signature", "failed"}
                           /\ Home(other)' = q
                           /\ position'[other] = PublishedPos'[q] + Len(pending'[q])
                           /\ LastPos'[q] = position'[other] + 1
    BY DEF CountersFitLock
  <2>1. CASE q = p
    BY <1>1, <1>3, <1>6, <1>7, <1>8, <2>1, ConstantsAssumption DEF LockFree
  <2>2. CASE q # p
    <3>1. \A other \in Handlers : LastPosLock[q] = other => other # h
      BY <1>1 DEF CounterInv, CountersFitLock
    <3> QED
      BY <1>1, <1>3, <1>4, <1>8, <2>2, <3>1 DEF CounterInv, CountersFitLock, LockFree
  <2> QED
    BY <2>1, <2>2
<1>11. SignersHoldLocks'
  <2>1. ASSUME NEW other \in Handlers, other # h, pc[other] = "signature"
        PROVE  Home(other) # p /\ Home(other) \in Partitions
    <3>1. LastPosLock[Home(other)] = other
      BY <2>1 DEF CounterInv, SignersHoldLocks
    <3> QED
      BY <1>1, <2>1, <3>1, ConstantsAssumption, HomeType DEF LockFree
  <2> QED
    BY <1>3, <1>4, <1>7, <1>8, <2>1 DEF CounterInv, SignersHoldLocks
<1>12. Numbered'
  BY <1>1 DEF CounterInv, Numbered, NumberedIn
<1>13. PositionsBounded'
  <2>1. Cardinality(Assigned') = Cardinality(Assigned) + 1 /\ Cardinality(Assigned) \in Nat
    BY <1>1, AssignedJoins
  <2>2. \A q \in Partitions : LastPos[q] \in Nat /\ Len(Preloaded[q]) \in Nat
    BY PreloadedAssumption DEF TypeOK, PartitionsTypeOK
  <2>3. \A q \in Partitions : LastPos'[q] <= LastPos[q] + 1
    BY <1>8, <2>2
  <2>4. \A q \in Partitions : LastPos'[q] \in Nat
    BY DEF TypeOK, PartitionsTypeOK
  <2> QED
    BY <2>1, <2>2, <2>3, <2>4 DEF CounterInv, PositionsBounded
<1> QED
  BY <1>9, <1>10, <1>11, <1>12, <1>13 DEF CounterInv

\* A good signature: the position is used, and the lock is given back.
LEMMA AcceptSignatureCounterInv ==
  ASSUME TypeOK, TypeOK', CounterInv, NEW h \in Handlers, AcceptSignature(h)
  PROVE  CounterInv'
<1> DEFINE p == Home(h)
           u == NewUpdate(h, position[h])
<1>1. /\ pc[h] = "signature" /\ GoTo(h, "getValue")
      /\ pending' = [pending EXCEPT ![p] = Append(pending[p], u)]
      /\ LastPosLock' = [LastPosLock EXCEPT ![p] = None]
      /\ UNCHANGED << request, position, LastPos, PublishedPos, provable >>
  BY DEF AcceptSignature, Accept, Unlock
<1>2. p \in Partitions
  BY <1>1, HomeType
<1>3. \A other \in Handlers : pc'[other] = IF other = h THEN "getValue" ELSE pc[other]
  BY <1>1 DEF GoTo, TypeOK, HandlersTypeOK
<1>4. \A other \in Handlers : Home(other)' = Home(other)
  BY <1>1 DEF Home
<1>5. /\ LastPos[p] \in Nat /\ PublishedPos[p] \in Nat /\ pending[p] \in Seq(AnyUpdate)
      /\ position[h] \in Nat
  BY <1>2 DEF TypeOK, PartitionsTypeOK, HandlersTypeOK
<1>6. LastPosLock[p] = h
  BY <1>1 DEF CounterInv, SignersHoldLocks
<1>7. position[h] = PublishedPos[p] + Len(pending[p]) /\ LastPos[p] = position[h] + 1
  BY <1>2, <1>6 DEF CounterInv, CountersFitLock
<1>8. u \in AnyUpdate /\ u.pos = position[h] /\ u.at = u.pos
  <2>1. u \in AnyUpdate
    BY <1>1, <1>5, NewUpdateType
  <2>2. PartitionPos(p) = position[h]
    BY <1>2, <1>7, PartitionPosExact DEF CounterInv, Numbered
  <2> QED
    BY <2>1, <2>2 DEF NewUpdate
<1>9. \A other \in Handlers : pc[other] = "signature" /\ other # h => Home(other) # p /\ Home(other) \in Partitions
  BY <1>6, HomeType DEF CounterInv, SignersHoldLocks
<1> HIDE DEF p, u
<1>10. /\ \A q \in Partitions \ {p} : pending'[q] = pending[q] /\ LastPosLock'[q] = LastPosLock[q]
       /\ LastPosLock'[p] = None
       /\ pending'[p] = Append(pending[p], u)
  BY <1>1, <1>2 DEF TypeOK, PartitionsTypeOK
<1>11. CallsKnowTheirIds'
  BY <1>1, <1>3 DEF CounterInv, CallsKnowTheirIds
<1>12. CountersFitLock'
  <2> SUFFICES ASSUME NEW q \in Partitions
               PROVE  /\ LockFree(q)' => LastPos'[q] = PublishedPos'[q] + Len(pending'[q])
                      /\ \A other \in Handlers : LastPosLock'[q] = other =>
                           /\ pc'[other] \in {"signature", "failed"}
                           /\ Home(other)' = q
                           /\ position'[other] = PublishedPos'[q] + Len(pending'[q])
                           /\ LastPos'[q] = position'[other] + 1
    BY DEF CountersFitLock
  <2>1. CASE q = p
    <3>1. Len(pending'[p]) = Len(pending[p]) + 1
      BY <1>5, <1>8, <1>10
    <3>2. LastPos'[q] = PublishedPos'[q] + Len(pending'[q])
      BY <1>1, <1>5, <1>7, <2>1, <3>1
    <3> QED
      BY <1>10, <2>1, <3>2, ConstantsAssumption
  <2>2. CASE q # p
    <3>1. \A other \in Handlers : LastPosLock[q] = other => other # h
      BY <2>2 DEF CounterInv, CountersFitLock, p
    <3> QED
      BY <1>1, <1>3, <1>4, <1>10, <2>2, <3>1 DEF CounterInv, CountersFitLock, LockFree
  <2> QED
    BY <2>1, <2>2
<1>13. SignersHoldLocks'
  BY <1>3, <1>4, <1>9, <1>10 DEF CounterInv, SignersHoldLocks
<1>14. Numbered'
  <2> SUFFICES ASSUME NEW q \in Partitions PROVE NumberedIn(q)'
    BY DEF Numbered
  <2>1. NumberedIn(q)
    BY DEF CounterInv, Numbered
  <2>2. CASE q = p
    BY <1>1, <1>7, <1>8, <1>10, <2>1, <2>2, AcceptNumbered
  <2>3. CASE q # p
    BY <1>1, <1>10, <2>1, <2>3 DEF NumberedIn
  <2> QED
    BY <2>2, <2>3
<1>15. PositionsBounded'
  <2>1. Assigned' = Assigned
    BY <1>1, <1>3 DEF Assigned
  <2> QED
    BY <1>1, <2>1 DEF CounterInv, PositionsBounded
<1> QED
  BY <1>11, <1>12, <1>13, <1>14, <1>15 DEF CounterInv

\* The end of a partition's update epoch: no call holds the lock.
LEMMA PublishCounterInv ==
  ASSUME TypeOK, TypeOK', CounterInv, NEW p \in Partitions, PublishPartition(p)
  PROVE  CounterInv'
<1>1. /\ LockFree(p)
      /\ PublishedPos' = [PublishedPos EXCEPT ![p] = LastPos[p]]
      /\ provable' = [provable EXCEPT ![p] = provable[p] \cup ToSet(pending[p])]
      /\ pending' = [pending EXCEPT ![p] = <<>>]
      /\ UNCHANGED << pc, request, position, LastPos, LastPosLock >>
  BY DEF PublishPartition, PublishPending, MayPublish, handlerVars
<1>2. LastPos[p] \in Nat /\ PublishedPos[p] \in Nat /\ pending[p] \in Seq(AnyUpdate)
  BY DEF TypeOK, PartitionsTypeOK
<1>3. LastPos[p] = PublishedPos[p] + Len(pending[p])
  BY <1>1 DEF CounterInv, CountersFitLock
<1>4. /\ \A q \in Partitions \ {p} :
           PublishedPos'[q] = PublishedPos[q] /\ provable'[q] = provable[q] /\ pending'[q] = pending[q]
      /\ PublishedPos'[p] = PublishedPos[p] + Len(pending[p])
      /\ provable'[p] = provable[p] \cup ToSet(pending[p])
      /\ pending'[p] = <<>>
  BY <1>1, <1>3 DEF TypeOK, PartitionsTypeOK
<1>5. CallsKnowTheirIds'
  BY <1>1 DEF CounterInv, CallsKnowTheirIds
<1>6. CountersFitLock'
  <2>1. LastPos'[p] = PublishedPos'[p] + Len(pending'[p])
    BY <1>1, <1>2, <1>3, <1>4
  <2>2. \A h \in Handlers : LastPosLock[p] # h
    BY <1>1, ConstantsAssumption DEF LockFree
  <2>3. \A q \in Partitions \ {p} :
          /\ PublishedPos'[q] + Len(pending'[q]) = PublishedPos[q] + Len(pending[q])
          /\ LastPos'[q] = LastPos[q] /\ LastPosLock'[q] = LastPosLock[q]
    BY <1>1, <1>4
  <2> QED
    BY <1>1, <2>1, <2>2, <2>3 DEF CounterInv, CountersFitLock, LockFree, Home
<1>7. SignersHoldLocks'
  BY <1>1 DEF CounterInv, SignersHoldLocks, Home
<1>8. Numbered'
  <2> SUFFICES ASSUME NEW q \in Partitions PROVE NumberedIn(q)'
    BY DEF Numbered
  <2>1. NumberedIn(q)
    BY DEF CounterInv, Numbered
  <2>2. CASE q = p
    BY <1>4, <2>1, <2>2, PublishNumbered
  <2>3. CASE q # p
    BY <1>4, <2>1, <2>3 DEF NumberedIn
  <2> QED
    BY <2>2, <2>3
<1>9. PositionsBounded'
  BY <1>1 DEF CounterInv, PositionsBounded, Assigned
<1> QED
  BY <1>5, <1>6, <1>7, <1>8, <1>9 DEF CounterInv

\* Calls and epoch loop keep the counters together.
LEMMA NextCounterInv == TypeOK /\ TypeOK' /\ CounterInv /\ [Next]_vars => CounterInv'
<1> SUFFICES ASSUME TypeOK, TypeOK', CounterInv, [Next]_vars PROVE CounterInv'
  OBVIOUS
<1> USE DEF partitionVars
<1>1. ASSUME NEW h \in Handlers, NEW client \in Callers[h], NEW user \in Users,
             Register(h, client, user)
      PROVE  CounterInv'
  <2>1. /\ pc[h] = "idle" /\ (GoTo(h, "register") \/ GoTo(h, "failed"))
        /\ request' = [request EXCEPT ![h] = [client |-> client, user |-> user, id |-> user, good |-> TRUE]]
        /\ UNCHANGED << position, partitionVars >>
    BY <1>1 DEF Register, Begin
  <2>2. request'[h].id = user /\ \A other \in Handlers \ {h} : request'[other] = request[other]
    BY <2>1 DEF TypeOK, HandlersTypeOK
  <2> QED
    BY <2>1, <2>2, BeginCounterInv
<1>2. ASSUME NEW h \in Handlers, NEW client \in Callers[h], NEW user \in Users, NEW id \in Ids,
             StartAppend(h, client, user, id)
      PROVE  CounterInv'
  <2>1. /\ pc[h] = "idle" /\ (GoTo(h, "lock") \/ GoTo(h, "failed"))
        /\ request' = [request EXCEPT ![h] =
             [client |-> client, user |-> user, id |-> id, good |-> WillVerify(client, user)]]
        /\ UNCHANGED << position, partitionVars >>
    BY <1>2 DEF StartAppend, Begin
  <2>2. request'[h].id = id /\ \A other \in Handlers \ {h} : request'[other] = request[other]
    BY <2>1 DEF TypeOK, HandlersTypeOK
  <2> QED
    BY <2>1, <2>2, BeginCounterInv
<1>3. ASSUME NEW h \in Handlers, PutKey(h) \/ FailAppend(h) \/ GetValue(h) \/ PutValue(h)
      PROVE  CounterInv'
  BY <1>3, MoveCounterInv DEF PutKey, FailAppend, GetValue, PutValue
<1>4. CASE StartUpdateEpoch \/ StartVerificationPeriod \/ FinishEpoch \/ UNCHANGED vars
           \/ \E p \in Partitions : RollOver(p)
  <2>1. UNCHANGED << handlerVars, partitionVars >>
    BY <1>4 DEF StartUpdateEpoch, StartVerificationPeriod, Tick, FinishEpoch, RollOver, vars
  <2> QED
    BY <2>1 DEF handlerVars, CounterInv, CallsKnowTheirIds, CountersFitLock, LockFree, Home,
                SignersHoldLocks, Numbered, NumberedIn, PositionsBounded, Assigned
<1> QED
  BY <1>1, <1>2, <1>3, <1>4, RegisterKeyCounterInv, SendPositionCounterInv,
     AcceptSignatureCounterInv, PublishCounterInv DEF Next, ServerStep, EpochStep

\* The server's counter of a partition is the number of its updates, plus one while a call
\* has the lock; the updates are numbered without a gap; and there are no more positions
\* than calls.
THEOREM CountersCorrect == Spec => []CounterInv
  BY InitCounterInv, NextCounterInv, TypeCorrect, PTL DEF Spec

\* The position that a client is promised, and signs, is the one its update has in the
\* partition, whatever calls have failed.
THEOREM PositionsAlwaysAgree == Spec => []PositionsAgree
<1>1. TypeOK /\ CounterInv => PositionsAgree
  <2> SUFFICES ASSUME TypeOK, CounterInv, NEW p \in Partitions, NEW u \in AcceptedBy(p)
               PROVE  u.pos = u.at
    BY DEF PositionsAgree
  <2> QED
    BY DEF CounterInv, Numbered, NumberedIn, AcceptedBy, ToSet
<1> QED
  BY <1>1, TypeCorrect, CountersCorrect, PTL

\* PublishedPos is exact whatever calls are under way when an update epoch ends.
THEOREM PublishedPosAlwaysExact == Spec => []PublishedPosIsExact
<1>1. TypeOK /\ CounterInv => PublishedPosIsExact
  <2> SUFFICES ASSUME TypeOK, CounterInv, NEW p \in Partitions
               PROVE  /\ { u.pos : u \in provable[p] } = 0 .. PublishedPos[p] - 1
                      /\ \A u \in ToSet(pending[p]) : u.pos >= PublishedPos[p]
    BY DEF PublishedPosIsExact
  <2>1. NumberedIn(p)
    BY DEF CounterInv, Numbered
  <2>2. \A i \in DOMAIN pending[p] : i \in Nat /\ i >= 1
    BY DEF TypeOK, PartitionsTypeOK
  <2>3. PublishedPos[p] \in Nat
    BY DEF TypeOK, PartitionsTypeOK
  <2> QED
    BY <2>1, <2>2, <2>3 DEF NumberedIn, ToSet
<1> QED
  BY <1>1, TypeCorrect, CountersCorrect, PTL

-----------------------------------------------------------------------------
(* The partitions as directories.                                          *)

\* What PreloadServer leaves pending is within the bound on positions.
LEMMA PreloadedUpdatesBounded ==
  ASSUME NEW p \in Partitions
  PROVE  PreloadedUpdates(p) \in Seq(Update)
<1> DEFINE s == PreloadedUpdates(p)
<1>1. s \in Seq(AnyUpdate) /\ Len(s) = Len(Preloaded[p]) /\ Len(s) \in Nat
  BY PreloadedUpdatesNumbered
<1>2. Cardinality(Handlers) \in Nat
  BY ConstantsAssumption, FS_CardinalityType
<1>3. ASSUME NEW i \in 1 .. Len(s) PROVE s[i] \in Update
  <2>1. i \in DOMAIN Preloaded[p] /\ i \in DOMAIN s
    BY <1>1, PreloadedUpdatesNumbered, PreloadedAssumption
  <2>2. s[i] = [id |-> Preloaded[p][i], pos |-> i - 1, at |-> i - 1, call |-> None]
    BY <2>1, PreloadedUpdatesNumbered
  <2>3. i - 1 \in 0 .. Len(Preloaded[p]) + Cardinality(Handlers) - 1
    BY <1>1, <1>2
  <2>4. i - 1 \in Position
    BY <2>3 DEF Position
  <2>5. Preloaded[p][i] \in Ids
    BY <2>1, PreloadedAssumption
  <2> QED
    BY <2>2, <2>4, <2>5 DEF Update
<1> QED
  BY <1>1, <1>3

\* The update of an accepted call is one of the bounded set, too.
LEMMA NewUpdateBounded ==
  ASSUME TypeOK, CounterInv, NEW h \in Handlers, NEW n \in Nat,
         \/ pc[h] = "register" /\ LockFree(Home(h)) /\ n = LastPos[Home(h)]
         \/ pc[h] = "signature" /\ n = position[h]
  PROVE  NewUpdate(h, n) \in Update
<1> DEFINE p == Home(h)
<1>1. pc[h] # "idle" /\ p \in Partitions /\ request[h].id \in Users \cup Ids
  BY HomeType
<1>2. LastPos[p] \in Nat /\ Len(Preloaded[p]) \in Nat /\ NumberedIn(p)
  BY <1>1, PreloadedAssumption DEF TypeOK, PartitionsTypeOK, CounterInv, Numbered
<1>3. n \in Position
  <2>1. CASE pc[h] = "register"
    <3>1. h \notin Assigned /\ PositionsBounded
      BY <2>1 DEF Assigned, CounterInv
    <3> QED
      BY <1>1, <2>1, <3>1, RoomForPosition
  <2>2. CASE pc[h] = "signature"
    <3>1. n + 1 = LastPos[p]
      BY <1>1, <2>2 DEF CounterInv, SignersHoldLocks, CountersFitLock
    <3>2. Cardinality(Assigned) <= Cardinality(Handlers) /\ Cardinality(Assigned) \in Nat
          /\ Cardinality(Handlers) \in Nat
      BY ConstantsAssumption, FS_Subset, FS_CardinalityType DEF Assigned
    <3>3. LastPos[p] <= Len(Preloaded[p]) + Cardinality(Assigned)
      BY <1>1 DEF CounterInv, PositionsBounded
    <3>4. n \in 0 .. Len(Preloaded[p]) + Cardinality(Handlers) - 1
      BY <1>2, <3>1, <3>2, <3>3
    <3> QED
      BY <1>1, <3>4 DEF Position
  <2> QED
    BY <2>1, <2>2
<1>4. PartitionPos(p) = n
  <2>1. PartitionPos(p) = PublishedPos[p] + Len(pending[p])
    BY <1>1, <1>2, PartitionPosExact
  <2> QED
    BY <1>1, <2>1 DEF CounterInv, SignersHoldLocks, CountersFitLock
<1> QED
  BY <1>1, <1>3, <1>4 DEF NewUpdate, Update

\* Every step of the server is an accepted update or an update epoch of one
\* directory, or leaves the directories alone.
LEMMA StepOfDirectories ==
  ASSUME TypeOK, CounterInv, [Next]_vars
  PROVE  [Directories!Next]_(Directories!vars)
<1> USE DEF Directories!vars
<1>1. ASSUME NEW h \in Handlers, NEW n \in Nat, Accept(h, n), UNCHANGED provable, pc[h] # "idle",
             NewUpdate(h, n) \in Update
      PROVE  Directories!Next
  <2>1. Home(h) \in Partitions
    BY <1>1, HomeType
  <2> QED
    BY <1>1, <2>1 DEF Accept, Directories!Next, Directories!Accept
<1>2. ASSUME NEW h \in Handlers, RegisterKey(h) PROVE Directories!Next
  <2>1. /\ pc[h] = "register" /\ LockFree(Home(h))
        /\ Accept(h, LastPos[Home(h)]) /\ UNCHANGED provable
    BY <1>2 DEF RegisterKey
  <2>2. LastPos[Home(h)] \in Nat
    BY <2>1, HomeType DEF TypeOK, PartitionsTypeOK
  <2> QED
    BY <1>1, <2>1, <2>2, NewUpdateBounded
<1>3. ASSUME NEW h \in Handlers, AcceptSignature(h) PROVE Directories!Next
  <2>1. pc[h] = "signature" /\ Accept(h, position[h]) /\ UNCHANGED provable
    BY <1>3 DEF AcceptSignature
  <2>2. position[h] \in Nat
    BY DEF TypeOK, HandlersTypeOK
  <2> QED
    BY <1>1, <2>1, <2>2, NewUpdateBounded
<1>4. ASSUME NEW p \in Partitions, PublishPartition(p) PROVE Directories!Next
  BY <1>4 DEF PublishPartition, PublishPending, Directories!Next, Directories!Publish, ToSet,
              Directories!ToSet
<1>5. ASSUME NEW h \in Handlers,
             \/ PutKey(h) \/ SendPosition(h) \/ FailAppend(h) \/ GetValue(h) \/ PutValue(h)
             \/ \E client \in Callers[h], user \in Users :
                  Register(h, client, user) \/ \E id \in Ids : StartAppend(h, client, user, id)
      PROVE  UNCHANGED << pending, provable >>
  BY <1>5 DEF PutKey, SendPosition, FailAppend, GetValue, PutValue, Register, StartAppend, Begin,
              partitionVars
<1>6. CASE StartUpdateEpoch \/ StartVerificationPeriod \/ FinishEpoch \/ UNCHANGED vars
           \/ \E p \in Partitions : RollOver(p)
  BY <1>6 DEF StartUpdateEpoch, StartVerificationPeriod, Tick, FinishEpoch, RollOver, vars,
              partitionVars
<1> QED
  BY <1>2, <1>3, <1>4, <1>5, <1>6 DEF Next, ServerStep, EpochStep

\* Handlers and epoch loop together implement the directories: no update is lost,
\* reordered or published by halves, whatever calls fail and whenever epochs end.
THEOREM ServerImplementsDirectories == Spec => PartitionsAreDirectories
<1>1. Init => Directories!Init
  <2> SUFFICES ASSUME Init PROVE Directories!Init
    OBVIOUS
  <2>1. pending = [p \in Partitions |-> PreloadedUpdates(p)] /\ provable = [p \in Partitions |-> {}]
    BY DEF Init
  <2>2. pending \in [Partitions -> Seq(Update)]
    BY <2>1, PreloadedUpdatesBounded
  <2> QED
    BY <2>1, <2>2 DEF Directories!Init
<1>2. TypeOK /\ CounterInv /\ [Next]_vars => [Directories!Next]_(Directories!vars)
  BY StepOfDirectories
<1> QED
  BY <1>1, <1>2, TypeCorrect, CountersCorrect, PTL
  DEF Spec, PartitionsAreDirectories, Directories!Spec

-----------------------------------------------------------------------------
(* Store and partition.                                                    *)

AcceptedFor(id) == { u \in AcceptedBy(PartitionOf[id]) : u.id = id }
RecordsFor(id)  == { RecordOf(u) : u \in AcceptedFor(id) }

\* As long as the store accesses for an identifier have not overlapped, its records
\* are those of its updates, but for the call that has had its update accepted and not
\* put its record; that call's is the highest position, and what it read is current.
StoreIsExact(id) ==
  /\ \A h, other \in Storing(id) : h = other
  /\ Storing(id) = {} =>
       /\ ToSet(storage[id]) = RecordsFor(id)
       /\ storage[id] # <<>> => \A u \in AcceptedFor(id) : u.pos <= storage[id][1].pos
  /\ \A h \in Storing(id) :
       /\ RecordsFor(id) = ToSet(storage[id]) \cup { Record(h) }
       /\ \A u \in AcceptedFor(id) : u.pos <= position[h]
       /\ pc[h] = "putValue" => original[h] = storage[id]
StoreInv == \A id \in Ids \ overlapped : StoreIsExact(id)

\* The positions of a partition's updates.
LEMMA AcceptedPositions ==
  ASSUME TypeOK, CounterInv, NEW p \in Partitions
  PROVE  /\ AcceptedBy(p) \subseteq AnyUpdate
         /\ \A u \in AcceptedBy(p) : u.pos < PublishedPos[p] + Len(pending[p])
         /\ \A u, v \in AcceptedBy(p) : u.pos = v.pos => u = v
<1> DEFINE n == PublishedPos[p]
           k == Len(pending[p])
           s == pending[p]
           S == provable[p]
<1>1. n \in Nat /\ k \in Nat /\ s \in Seq(AnyUpdate) /\ DOMAIN s = 1 .. k /\ S \subseteq AnyUpdate
  BY DEF TypeOK, PartitionsTypeOK
<1>2. NumberedIn(p)
  BY DEF CounterInv, Numbered
<1>3. \A i \in 1 .. k : s[i].pos = n + i - 1
  BY <1>1, <1>2 DEF NumberedIn
<1>4. { u.pos : u \in S } = 0 .. n - 1 /\ \A u, v \in S : u.pos = v.pos => u = v
  BY <1>2 DEF NumberedIn
<1>5. AcceptedBy(p) = ToSet(s) \cup S
  BY DEF AcceptedBy
<1>6. \A u \in ToSet(s) : u \in AnyUpdate /\ \E i \in 1 .. k : u = s[i] /\ u.pos = n + i - 1
  BY <1>1, <1>3 DEF ToSet
<1> HIDE DEF n, k, s, S
<1>7. \A u \in S : u.pos \in 0 .. n - 1
  BY <1>4
<1>8. AcceptedBy(p) \subseteq AnyUpdate
  BY <1>1, <1>5, <1>6
<1>9. \A u \in AcceptedBy(p) : u.pos < n + k
  BY <1>1, <1>5, <1>6, <1>7
<1>10. ASSUME NEW u \in AcceptedBy(p), NEW v \in AcceptedBy(p), u.pos = v.pos PROVE u = v
  <2>1. CASE u \in S /\ v \in S
    BY <1>4, <1>10, <2>1
  <2>2. CASE u \in ToSet(s) /\ v \in ToSet(s)
    <3>1. PICK i \in 1 .. k : u = s[i] /\ u.pos = n + i - 1
      BY <1>6, <2>2
    <3>2. PICK j \in 1 .. k : v = s[j] /\ v.pos = n + j - 1
      BY <1>6, <2>2
    <3>3. i = j
      BY <1>1, <1>10, <3>1, <3>2
    <3> QED
      BY <3>1, <3>2, <3>3
  <2>3. \A w \in ToSet(s) : w.pos \notin 0 .. n - 1
    BY <1>1, <1>6
  <2> QED
    BY <1>5, <1>7, <1>10, <2>1, <2>2, <2>3
<1> QED
  BY <1>8, <1>9, <1>10 DEF n, k

\* The store of a new server is that of PreloadServer.
LEMMA InitStoreInv == Init => StoreInv
<1> SUFFICES ASSUME Init, NEW id \in Ids PROVE StoreIsExact(id)
  BY DEF StoreInv
<1> DEFINE p == PartitionOf[id]
           updates == { u \in ToSet(PreloadedUpdates(p)) : u.id = id }
<1>1. p \in Partitions
  BY ConstantsAssumption
<1>2. Storing(id) = {}
  BY DEF Init, Storing
<1>3. pending[p] = PreloadedUpdates(p) /\ provable[p] = {} /\ storage[id] = PreloadedRecords(id)
  BY <1>1 DEF Init
<1>4. AcceptedFor(id) = updates
  BY <1>3 DEF AcceptedFor, AcceptedBy
<1>5. /\ PreloadedRecords(id) \in Seq(Stored)
      /\ ToSet(PreloadedRecords(id)) = { RecordOf(u) : u \in updates }
      /\ \A u, v \in updates : u = v
  BY PreloadedRecordsExact
<1>6. \A u \in updates : u \in AnyUpdate
  BY <1>1, PreloadedUpdatesNumbered, ToSetType
<1> HIDE DEF updates
<1>7. ToSet(storage[id]) = RecordsFor(id)
  BY <1>3, <1>4, <1>5 DEF RecordsFor
<1>8. ASSUME storage[id] # <<>>, NEW u \in updates PROVE u.pos <= storage[id][1].pos
  <2>1. storage[id][1] \in ToSet(storage[id])
    BY <1>3, <1>5, <1>8 DEF ToSet
  <2>2. PICK v \in updates : storage[id][1] = RecordOf(v)
    BY <1>3, <1>5, <2>1
  <2>3. v = u /\ u.pos \in Nat
    BY <1>5, <1>6 DEF AnyUpdate
  <2> QED
    BY <2>2, <2>3 DEF RecordOf
<1> QED
  BY <1>2, <1>4, <1>7, <1>8 DEF StoreIsExact

\* A step that neither accepts an update for an identifier nor touches its records.
LEMMA SameStoreIsExact ==
  ASSUME NEW id \in Ids, StoreIsExact(id), AcceptedFor(id)' = AcceptedFor(id),
         Storing(id)' = Storing(id), storage'[id] = storage[id],
         \A h \in Storing(id) :
           /\ position'[h] = position[h]
           /\ pc'[h] = "putValue" =>
                \/ pc[h] = "putValue" /\ original'[h] = original[h]
                \/ original'[h] = storage[id]
  PROVE  StoreIsExact(id)'
<1>1. RecordsFor(id)' = RecordsFor(id)
  BY DEF RecordsFor
<1>2. \A h \in Storing(id) : Record(h)' = Record(h)
  BY DEF Record
<1>3. \A h, other \in Storing(id)' : h = other
  BY DEF StoreIsExact
<1>4. Storing(id)' = {} =>
        /\ ToSet(storage'[id]) = RecordsFor(id)'
        /\ storage'[id] # <<>> => \A u \in AcceptedFor(id)' : u.pos <= storage'[id][1].pos
  BY <1>1 DEF StoreIsExact
<1>5. \A h \in Storing(id)' :
        /\ RecordsFor(id)' = ToSet(storage'[id]) \cup { Record(h)' }
        /\ \A u \in AcceptedFor(id)' : u.pos <= position'[h]
        /\ pc'[h] = "putValue" => original'[h] = storage'[id]
  BY <1>1, <1>2 DEF StoreIsExact
<1> QED
  BY <1>3, <1>4, <1>5 DEF StoreIsExact

\* Accepting an update adds it to those of its identifier and to no other's.
LEMMA AcceptedGrows ==
  ASSUME TypeOK, NEW h \in Handlers, pc[h] # "idle", NEW n \in Nat, Accept(h, n),
         UNCHANGED provable
  PROVE  \A id \in Users \cup Ids :
           AcceptedFor(id)' =
             IF id = request[h].id THEN AcceptedFor(id) \cup { NewUpdate(h, n) } ELSE AcceptedFor(id)
<1> DEFINE u == NewUpdate(h, n)
<1>1. Home(h) \in Partitions /\ u \in AnyUpdate
  BY HomeType, NewUpdateType
<1>2. /\ pending'[Home(h)] = Append(pending[Home(h)], u)
      /\ \A p \in Partitions \ {Home(h)} : pending'[p] = pending[p]
  BY <1>1 DEF Accept, TypeOK, PartitionsTypeOK
<1>3. u.id = request[h].id
  BY DEF NewUpdate
<1> HIDE DEF u
<1>4. \A p \in Partitions :
        AcceptedBy(p)' = IF p = Home(h) THEN AcceptedBy(p) \cup {u} ELSE AcceptedBy(p)
  <2> SUFFICES ASSUME NEW p \in Partitions
               PROVE  AcceptedBy(p)' = IF p = Home(h) THEN AcceptedBy(p) \cup {u} ELSE AcceptedBy(p)
    OBVIOUS
  <2>1. CASE p = Home(h)
    <3>1. pending[p] \in Seq(AnyUpdate) /\ pending'[p] = Append(pending[p], u)
      BY <1>2, <2>1 DEF TypeOK, PartitionsTypeOK
    <3>2. ToSet(pending'[p]) = ToSet(pending[p]) \cup {u}
      BY <1>1, <3>1, ToSetAppend
    <3> QED
      BY <2>1, <3>2 DEF AcceptedBy
  <2>2. CASE p # Home(h)
    BY <1>2, <2>2 DEF AcceptedBy
  <2> QED
    BY <2>1, <2>2
<1> SUFFICES ASSUME NEW id \in Users \cup Ids
             PROVE  AcceptedFor(id)' =
                      IF id = request[h].id THEN AcceptedFor(id) \cup {u} ELSE AcceptedFor(id)
  BY DEF u
<1>5. PartitionOf[id] \in Partitions
  BY ConstantsAssumption
<1>6. CASE id = request[h].id
  <2>1. PartitionOf[id] = Home(h)
    BY <1>6 DEF Home
  <2> QED
    BY <1>3, <1>4, <1>5, <1>6, <2>1 DEF AcceptedFor
<1>7. CASE id # request[h].id
  BY <1>3, <1>4, <1>5, <1>7 DEF AcceptedFor
<1> QED
  BY <1>6, <1>7

\* Where the calls that are storing are, after one of them has moved.
LEMMA StoringAfterMove ==
  ASSUME TypeOK, NEW h \in Handlers, NEW label, GoTo(h, label),
         \A other \in Handlers \ {h} : request'[other] = request[other]
  PROVE  /\ \A other \in Handlers : pc'[other] = IF other = h THEN label ELSE pc[other]
         /\ \A id \in Ids : Storing(id)' =
              (Storing(id) \ {h}) \cup
                (IF label \in {"getValue", "putValue"} /\ request'[h].id = id THEN {h} ELSE {})
<1>1. \A other \in Handlers : pc'[other] = IF other = h THEN label ELSE pc[other]
  BY DEF GoTo, TypeOK, HandlersTypeOK
<1> QED
  BY <1>1 DEF Storing

\* A good signature, for an identifier whose store accesses have not overlapped by then.
LEMMA AcceptSignatureStore ==
  ASSUME TypeOK, CounterInv, StoreInv, NEW h \in Handlers, AcceptSignature(h),
         NEW id \in Ids, id \notin overlapped'
  PROVE  StoreIsExact(id)'
<1> DEFINE u == NewUpdate(h, position[h])
<1>1. /\ pc[h] = "signature" /\ GoTo(h, "getValue") /\ Accept(h, position[h])
      /\ UNCHANGED << request, position, original, provable, storage >>
      /\ overlapped' = IF Storing(request[h].id) = {} THEN overlapped
                       ELSE overlapped \cup { request[h].id }
  BY DEF AcceptSignature
<1>2. StoreIsExact(id) /\ (request[h].id = id => Storing(id) = {})
  BY <1>1 DEF StoreInv
<1>3. position[h] \in Nat /\ pc[h] # "idle"
  BY <1>1 DEF TypeOK, HandlersTypeOK
<1>4. /\ \A other \in Handlers : pc'[other] = IF other = h THEN "getValue" ELSE pc[other]
      /\ Storing(id)' = (Storing(id) \ {h}) \cup (IF request[h].id = id THEN {h} ELSE {})
  BY <1>1, StoringAfterMove
<1>5. h \notin Storing(id)
  BY <1>1 DEF Storing
<1>6. AcceptedFor(id)' =
        IF id = request[h].id THEN AcceptedFor(id) \cup {u} ELSE AcceptedFor(id)
  BY <1>1, <1>3, AcceptedGrows
<1>7. CASE request[h].id # id
  <2>1. Storing(id)' = Storing(id) /\ AcceptedFor(id)' = AcceptedFor(id)
    BY <1>4, <1>5, <1>6, <1>7
  <2>2. \A other \in Storing(id) : other \in Handlers /\ pc'[other] = pc[other]
    BY <1>4, <1>5 DEF Storing
  <2> QED
    BY <1>1, <1>2, <2>1, <2>2, SameStoreIsExact
<1>8. CASE request[h].id = id
  <2>1. Storing(id) = {} /\ Storing(id)' = {h} /\ pc'[h] = "getValue"
    BY <1>2, <1>4, <1>8
  <2>2. RecordOf(u) = Record(h)' /\ u.pos = position[h]
    BY <1>1 DEF NewUpdate, RecordOf, Record
  <2> HIDE DEF u
  <2>3. RecordsFor(id)' = RecordsFor(id) \cup { Record(h)' }
    BY <1>6, <1>8, <2>2 DEF RecordsFor
  <2>4. \A v \in AcceptedFor(id) : v.pos <= position[h]
    <3>1. Home(h) = PartitionOf[id] /\ Home(h) \in Partitions
      BY <1>3, <1>8, HomeType DEF Home
    <3>2. position[h] = PublishedPos[Home(h)] + Len(pending[Home(h)])
      BY <1>1, <3>1 DEF CounterInv, SignersHoldLocks, CountersFitLock
    <3>3. \A v \in AcceptedFor(id) : v.pos < position[h] /\ v.pos \in Nat
      BY <3>1, <3>2, AcceptedPositions DEF AcceptedFor, AnyUpdate
    <3> QED
      BY <1>3, <3>3
  <2>5. \A v \in AcceptedFor(id)' : v.pos <= position'[h]
    BY <1>1, <1>3, <1>6, <1>8, <2>2, <2>4
  <2>6. RecordsFor(id)' = ToSet(storage'[id]) \cup { Record(h)' }
    BY <1>1, <1>2, <2>1, <2>3 DEF StoreIsExact
  <2> QED
    BY <2>1, <2>5, <2>6 DEF StoreIsExact
<1> QED
  BY <1>7, <1>8

\* A call that has read the records puts them back behind its own.
LEMMA PutValueStore ==
  ASSUME TypeOK, CounterInv, StoreInv, NEW h \in Handlers, PutValue(h),
         NEW id \in Ids, id \notin overlapped'
  PROVE  StoreIsExact(id)'
<1>1. /\ pc[h] = "putValue" /\ GoTo(h, "done")
      /\ storage' = [storage EXCEPT ![request[h].id] = << Record(h) >> \o original[h]]
      /\ UNCHANGED << request, position, original, overlapped, pending, provable >>
  BY DEF PutValue, Put, NewestFirst, partitionVars
<1>2. StoreIsExact(id) /\ request[h].id \in Ids
  BY <1>1 DEF StoreInv, CounterInv, CallsKnowTheirIds
<1>3. /\ \A other \in Handlers : pc'[other] = IF other = h THEN "done" ELSE pc[other]
      /\ Storing(id)' = Storing(id) \ {h}
  BY <1>1, StoringAfterMove
<1>4. AcceptedFor(id)' = AcceptedFor(id)
  BY <1>1 DEF AcceptedFor, AcceptedBy
<1>5. CASE request[h].id # id
  <2>1. h \notin Storing(id) /\ storage'[id] = storage[id]
    BY <1>1, <1>2, <1>5 DEF Storing, TypeOK
  <2>2. \A other \in Storing(id) : other \in Handlers /\ pc'[other] = pc[other]
    BY <1>3, <2>1 DEF Storing
  <2> QED
    BY <1>1, <1>2, <1>3, <1>4, <2>1, <2>2, SameStoreIsExact
<1>6. CASE request[h].id = id
  <2>1. h \in Storing(id)
    BY <1>1, <1>6 DEF Storing
  <2>2. Storing(id)' = {}
    BY <1>2, <1>3, <2>1 DEF StoreIsExact
  <2>3. /\ RecordsFor(id) = ToSet(storage[id]) \cup { Record(h) }
        /\ \A u \in AcceptedFor(id) : u.pos <= position[h]
        /\ original[h] = storage[id]
    BY <1>1, <1>2, <2>1 DEF StoreIsExact
  <2>4. storage'[id] = << Record(h) >> \o storage[id]
    BY <1>1, <1>6, <2>3 DEF TypeOK
  <2>5. Record(h) \in Stored /\ storage[id] \in Seq(Stored)
    BY DEF Record, Stored, TypeOK, HandlersTypeOK
  <2>6. ToSet(storage'[id]) = ToSet(storage[id]) \cup { Record(h) } /\ storage'[id][1] = Record(h)
    BY <2>4, <2>5, ToSetPrepend
  <2>7. storage'[id][1].pos = position[h]
    BY <2>6 DEF Record
  <2>8. RecordsFor(id)' = RecordsFor(id)
    BY <1>4 DEF RecordsFor
  <2> QED
    BY <1>4, <2>2, <2>3, <2>6, <2>7, <2>8 DEF StoreIsExact
<1> QED
  BY <1>5, <1>6

\* Every step keeps the store exact for identifiers without overlapping accesses.
LEMMA NextStoreInv == TypeOK /\ CounterInv /\ StoreInv /\ [Next]_vars => StoreInv'
<1> SUFFICES ASSUME TypeOK, CounterInv, StoreInv, [Next]_vars, NEW id \in Ids, id \notin overlapped'
             PROVE  StoreIsExact(id)'
  BY DEF StoreInv
<1>1. ASSUME id \notin overlapped,
             Storing(id)' = Storing(id), storage'[id] = storage[id],
             AcceptedFor(id)' = AcceptedFor(id),
             \A h \in Storing(id) : position'[h] = position[h] /\ original'[h] = original[h]
                                      /\ pc'[h] = pc[h]
      PROVE  StoreIsExact(id)'
  <2>1. StoreIsExact(id)
    BY <1>1 DEF StoreInv
  <2> QED
    BY <1>1, <2>1, SameStoreIsExact
<1>2. UNCHANGED << pending, provable >> => AcceptedFor(id)' = AcceptedFor(id)
  BY DEF AcceptedFor, AcceptedBy
<1>3. ASSUME NEW h \in Handlers, pc[h] = "idle", NEW label \in {"register", "lock", "failed"},
             GoTo(h, label), \A other \in Handlers \ {h} : request'[other] = request[other],
             UNCHANGED << position, original, partitionVars, storeVars >>
      PROVE  StoreIsExact(id)'
  <2>1. /\ \A other \in Handlers : pc'[other] = IF other = h THEN label ELSE pc[other]
        /\ Storing(id)' = Storing(id) \ {h}
    BY <1>3, StoringAfterMove
  <2>2. h \notin Storing(id)
    BY <1>3 DEF Storing
  <2>3. \A other \in Storing(id) : other \in Handlers
    BY DEF Storing
  <2> QED
    BY <1>1, <1>2, <1>3, <2>1, <2>2, <2>3 DEF partitionVars, storeVars
<1>4. ASSUME NEW h \in Handlers, NEW client \in Callers[h], NEW user \in Users,
             Register(h, client, user)
      PROVE  StoreIsExact(id)'
  <2>1. /\ pc[h] = "idle" /\ (GoTo(h, "register") \/ GoTo(h, "failed"))
        /\ request' = [request EXCEPT ![h] = [client |-> client, user |-> user, id |-> user, good |-> TRUE]]
        /\ UNCHANGED << position, original, partitionVars, storeVars >>
    BY <1>4 DEF Register, Begin
  <2>2. \A other \in Handlers \ {h} : request'[other] = request[other]
    BY <2>1 DEF TypeOK, HandlersTypeOK
  <2> QED
    BY <1>3, <2>1, <2>2
<1>5. ASSUME NEW h \in Handlers, NEW client \in Callers[h], NEW user \in Users, NEW other \in Ids,
             StartAppend(h, client, user, other)
      PROVE  StoreIsExact(id)'
  <2>1. /\ pc[h] = "idle" /\ (GoTo(h, "lock") \/ GoTo(h, "failed"))
        /\ request' = [request EXCEPT ![h] =
             [client |-> client, user |-> user, id |-> other, good |-> WillVerify(client, user)]]
        /\ UNCHANGED << position, original, partitionVars, storeVars >>
    BY <1>5 DEF StartAppend, Begin
  <2>2. \A call \in Handlers \ {h} : request'[call] = request[call]
    BY <2>1 DEF TypeOK, HandlersTypeOK
  <2> QED
    BY <1>3, <2>1, <2>2
<1>6. ASSUME NEW h \in Handlers, RegisterKey(h) PROVE StoreIsExact(id)'
  <2>1. /\ pc[h] = "register" /\ GoTo(h, "putKey") /\ Accept(h, LastPos[Home(h)])
        /\ position' = [position EXCEPT ![h] = LastPos[Home(h)]]
        /\ UNCHANGED << request, original, provable, storeVars >>
    BY <1>6 DEF RegisterKey
  <2>2. /\ \A other \in Handlers : pc'[other] = IF other = h THEN "putKey" ELSE pc[other]
        /\ Storing(id)' = Storing(id) \ {h}
    BY <2>1, StoringAfterMove
  <2>3. h \notin Storing(id) /\ \A other \in Storing(id) : other \in Handlers
    BY <2>1 DEF Storing
  <2>4. LastPos[Home(h)] \in Nat /\ request[h].id # id
    BY <2>1, HomeType, ConstantsAssumption
    DEF TypeOK, PartitionsTypeOK, CounterInv, CallsKnowTheirIds
  <2>5. AcceptedFor(id)' = AcceptedFor(id)
    BY <2>1, <2>4, AcceptedGrows
  <2>6. \A other \in Storing(id) : position'[other] = position[other]
    BY <2>1, <2>3 DEF TypeOK, HandlersTypeOK
  <2> QED
    BY <1>1, <2>1, <2>2, <2>3, <2>5, <2>6 DEF storeVars
<1>7. ASSUME NEW h \in Handlers, PutKey(h) PROVE StoreIsExact(id)'
  <2>1. /\ pc[h] = "putKey" /\ GoTo(h, "done")
        /\ storage' = [storage EXCEPT ![request[h].id] = << Record(h) >>]
        /\ UNCHANGED << request, position, original, partitionVars, overlapped >>
    BY <1>7 DEF PutKey, Put
  <2>2. /\ \A other \in Handlers : pc'[other] = IF other = h THEN "done" ELSE pc[other]
        /\ Storing(id)' = Storing(id) \ {h}
    BY <2>1, StoringAfterMove
  <2>3. h \notin Storing(id) /\ \A other \in Storing(id) : other \in Handlers
    BY <2>1 DEF Storing
  <2>4. request[h].id # id
    BY <2>1, ConstantsAssumption DEF CounterInv, CallsKnowTheirIds
  <2>5. storage'[id] = storage[id]
    BY <2>1, <2>4 DEF TypeOK
  <2> QED
    BY <1>1, <1>2, <2>1, <2>2, <2>3, <2>5 DEF partitionVars
<1>8. ASSUME NEW h \in Handlers, SendPosition(h) PROVE StoreIsExact(id)'
  <2>1. /\ pc[h] = "lock" /\ GoTo(h, "signature")
        /\ position' = [position EXCEPT ![h] = LastPos[Home(h)]]
        /\ UNCHANGED << request, original, pending, provable, storeVars >>
    BY <1>8 DEF SendPosition
  <2>2. /\ \A other \in Handlers : pc'[other] = IF other = h THEN "signature" ELSE pc[other]
        /\ Storing(id)' = Storing(id) \ {h}
    BY <2>1, StoringAfterMove
  <2>3. h \notin Storing(id) /\ \A other \in Storing(id) : other \in Handlers
    BY <2>1 DEF Storing
  <2>4. \A other \in Storing(id) : position'[other] = position[other]
    BY <2>1, <2>3 DEF TypeOK, HandlersTypeOK
  <2> QED
    BY <1>1, <1>2, <2>1, <2>2, <2>3, <2>4 DEF storeVars
<1>9. ASSUME NEW h \in Handlers, FailAppend(h) PROVE StoreIsExact(id)'
  <2>1. /\ pc[h] = "signature" /\ GoTo(h, "failed")
        /\ UNCHANGED << request, position, original, partitionVars, storeVars >>
    BY <1>9 DEF FailAppend
  <2>2. /\ \A other \in Handlers : pc'[other] = IF other = h THEN "failed" ELSE pc[other]
        /\ Storing(id)' = Storing(id) \ {h}
    BY <2>1, StoringAfterMove
  <2>3. h \notin Storing(id) /\ \A other \in Storing(id) : other \in Handlers
    BY <2>1 DEF Storing
  <2> QED
    BY <1>1, <1>2, <2>1, <2>2, <2>3 DEF storeVars, partitionVars
<1>10. ASSUME NEW h \in Handlers, GetValue(h) PROVE StoreIsExact(id)'
  <2>1. /\ pc[h] = "getValue" /\ GoTo(h, "putValue")
        /\ original' = [original EXCEPT ![h] = storage[request[h].id]]
        /\ UNCHANGED << request, position, partitionVars, storeVars >>
    BY <1>10 DEF GetValue, Get
  <2>2. /\ \A other \in Handlers : pc'[other] = IF other = h THEN "putValue" ELSE pc[other]
        /\ Storing(id)' = (Storing(id) \ {h}) \cup (IF request[h].id = id THEN {h} ELSE {})
    BY <2>1, StoringAfterMove
  <2>3. Storing(id)' = Storing(id) /\ \A other \in Storing(id) : other \in Handlers
    BY <2>1, <2>2 DEF Storing
  <2>4. \A other \in Storing(id) :
          \/ other = h /\ original'[other] = storage[id]
          \/ other # h /\ original'[other] = original[other] /\ pc'[other] = pc[other]
    BY <2>1, <2>2, <2>3 DEF Storing, TypeOK, HandlersTypeOK
  <2>5. StoreIsExact(id)
    BY <2>1 DEF StoreInv, storeVars
  <2> QED
    BY <1>2, <2>1, <2>3, <2>4, <2>5, SameStoreIsExact DEF storeVars, partitionVars
<1>11. ASSUME NEW p \in Partitions, PublishPartition(p) PROVE StoreIsExact(id)'
  <2>1. /\ provable' = [provable EXCEPT ![p] = provable[p] \cup ToSet(pending[p])]
        /\ pending' = [pending EXCEPT ![p] = <<>>]
        /\ UNCHANGED << handlerVars, storeVars >>
    BY <1>11 DEF PublishPartition, PublishPending
  <2>2. \A q \in Partitions : AcceptedBy(q)' = AcceptedBy(q)
    <3>1. AcceptedBy(p)' = AcceptedBy(p)
      BY <2>1, ToSetEmpty DEF AcceptedBy, TypeOK, PartitionsTypeOK
    <3>2. \A q \in Partitions \ {p} : AcceptedBy(q)' = AcceptedBy(q)
      BY <2>1 DEF AcceptedBy, TypeOK, PartitionsTypeOK
    <3> QED
      BY <3>1, <3>2
  <2>3. PartitionOf[id] \in Partitions
    BY ConstantsAssumption
  <2>4. AcceptedFor(id)' = AcceptedFor(id)
    BY <2>2, <2>3 DEF AcceptedFor
  <2>5. Storing(id)' = Storing(id)
    BY <2>1 DEF Storing, handlerVars
  <2> QED
    BY <1>1, <2>1, <2>4, <2>5 DEF handlerVars, storeVars
<1>12. CASE StartUpdateEpoch \/ StartVerificationPeriod \/ FinishEpoch \/ UNCHANGED vars
           \/ \E p \in Partitions : RollOver(p)
  <2>1. UNCHANGED << handlerVars, partitionVars, storeVars >>
    BY <1>12 DEF StartUpdateEpoch, StartVerificationPeriod, Tick, FinishEpoch, RollOver, vars
  <2>2. Storing(id)' = Storing(id)
    BY <2>1 DEF Storing, handlerVars
  <2> QED
    BY <1>1, <1>2, <2>1, <2>2 DEF handlerVars, partitionVars, storeVars
<1> QED
  BY <1>4, <1>5, <1>6, <1>7, <1>8, <1>9, <1>10, <1>11, <1>12, AcceptSignatureStore, PutValueStore
  DEF Next, ServerStep, EpochStep

\* Once no store access for an identifier is under way, and if none have overlapped, the
\* store has exactly the updates that its partition accepted for it, the one at the
\* highest position first.
THEOREM SequentialStoreAlwaysExact == Spec => []SequentialStoreIsExact
<1>1. TypeOK /\ CounterInv /\ StoreInv => SequentialStoreIsExact
  <2> SUFFICES ASSUME TypeOK, CounterInv, StoreInv, NEW id \in Ids \ overlapped, Storing(id) = {}
               PROVE  /\ ToSet(storage[id]) = RecordsFor(id)
                      /\ \A u \in AcceptedFor(id) :
                           (\A other \in AcceptedFor(id) : other.pos <= u.pos) => LookUpPK(id) = u.call
    BY DEF SequentialStoreIsExact, RecordsFor, AcceptedFor
  <2>1. /\ ToSet(storage[id]) = RecordsFor(id)
        /\ storage[id] # <<>> => \A u \in AcceptedFor(id) : u.pos <= storage[id][1].pos
    BY DEF StoreInv, StoreIsExact
  <2>2. ASSUME NEW u \in AcceptedFor(id), \A other \in AcceptedFor(id) : other.pos <= u.pos
        PROVE  LookUpPK(id) = u.call
    <3>1. PartitionOf[id] \in Partitions /\ storage[id] \in Seq(Stored)
      BY ConstantsAssumption DEF TypeOK
    <3>2. storage[id] # <<>>
      BY <2>1, <2>2, <3>1, ToSetEmpty DEF RecordsFor
    <3>3. storage[id][1] \in ToSet(storage[id])
      BY <3>1, <3>2 DEF ToSet
    <3>4. PICK v \in AcceptedFor(id) : storage[id][1] = RecordOf(v)
      BY <2>1, <3>3 DEF RecordsFor
    <3>5. u.pos <= v.pos /\ v.pos <= u.pos /\ u \in AnyUpdate /\ v \in AnyUpdate
      BY <2>1, <2>2, <3>1, <3>2, <3>4, AcceptedPositions DEF RecordOf, AcceptedFor
    <3>6. u.pos = v.pos
      BY <3>5 DEF AnyUpdate
    <3>7. u = v
      BY <3>1, <3>6, AcceptedPositions DEF AcceptedFor
    <3>8. FirstRecord(id) = { storage[id][1] }
      BY <3>2 DEF FirstRecord, Get
    <3>9. LookUpPK(id) = storage[id][1].call
      BY <3>8 DEF LookUpPK
    <3> QED
      BY <3>4, <3>7, <3>9 DEF RecordOf
  <2> QED
    BY <2>1, <2>2
<1> QED
  BY <1>1, InitStoreInv, NextStoreInv, TypeCorrect, CountersCorrect, PTL DEF Spec

-----------------------------------------------------------------------------
(* Registrations.                                                          *)

\* A call knows of completed ones, from the moment it comes in.
CompletedBefore ==
  \A h \in Handlers : doneBefore[h] \subseteq Completed /\ (pc[h] = "idle" => doneBefore[h] = {})

\* Where a call of Register may be; it has no signature to verify with a master key.
RegistrationsRun ==
  \A h \in Handlers : pc[h] # "idle" /\ request[h].id \in Users =>
    pc[h] \in {"register", "putKey", "done", "failed"} /\ request[h].good

\* A completed registration is in the store, ...
DoneIsStored ==
  \A user \in Users : \A h \in Completed : Registers(h, user) => storage[user] # <<>>

\* ... and what the store has is one completed registration.
StoredIsDone ==
  \A user \in Users : storage[user] # <<>> =>
    /\ Len(storage[user]) = 1
    /\ storage[user][1].call \in Completed
    /\ Registers(storage[user][1].call, user)

\* A registration that comes in after a completed one fails.
LaterFail ==
  \A user \in Users : \A h, later \in Handlers :
    Registers(h, user) /\ Registers(later, user) /\ h \in doneBefore[later] => pc[later] = "failed"

\* A client has a key for the users it has registered, by one of those calls.
KeysAreRegistrations ==
  \A user \in Users : \A client \in Clients :
    /\ masterKeys[client][user] # None =>
         LET h == masterKeys[client][user]
         IN  h \in Handlers /\ Registers(h, user) /\ request[h].client = client
    /\ \A h \in Handlers : Registers(h, user) /\ request[h].client = client =>
         masterKeys[client][user] # None

\* Another call of the same client registered the user, or one that was under way at
\* the same time and was not refused.
Disturbed(h, user) ==
  \E other \in Handlers \ {h} :
    /\ Registers(other, user)
    /\ \/ request[other].client = request[h].client
       \/ pc[other] # "failed" /\ Overlap(h, other)

\* A client's key that does not verify was disturbed after the client registered it.
BadMeansDisturbed ==
  \A user \in Users : \A h, later \in Handlers :
    Registers(h, user) /\ h \in doneBefore[later] /\ ~ request[later].good
        /\ request[later].user = user /\ request[later].client = request[h].client =>
      Disturbed(h, user)

RegistrationInv ==
  /\ CompletedBefore
  /\ RegistrationsRun
  /\ DoneIsStored
  /\ StoredIsDone
  /\ LaterFail
  /\ KeysAreRegistrations
  /\ BadMeansDisturbed

\* Nobody is registered at first.
LEMMA InitRegistrationInv == Init => RegistrationInv
<1> SUFFICES ASSUME Init PROVE RegistrationInv
  OBVIOUS
<1>1. \A h \in Handlers : pc[h] = "idle" /\ doneBefore[h] = {}
  BY DEF Init
<1>2. Completed = {} /\ \A h \in Handlers : \A user : ~ Registers(h, user)
  BY <1>1 DEF Completed, Registers
<1>3. \A user \in Users : storage[user] = <<>>
  BY PreloadedRecordsExact DEF Init
<1>4. \A client \in Clients : \A user \in Users : masterKeys[client][user] = None
  BY DEF Init
<1>5. CompletedBefore /\ RegistrationsRun /\ DoneIsStored /\ StoredIsDone
  BY <1>1, <1>2, <1>3 DEF CompletedBefore, RegistrationsRun, DoneIsStored, StoredIsDone
<1>6. LaterFail /\ KeysAreRegistrations /\ BadMeansDisturbed
  BY <1>2, <1>4 DEF LaterFail, KeysAreRegistrations, BadMeansDisturbed
<1> QED
  BY <1>5, <1>6 DEF RegistrationInv

\* A call under way moves on and registers nobody by that.
LEMMA MoveRegistrationInv ==
  ASSUME TypeOK, RegistrationInv, NEW h \in Handlers, NEW label \in Labels, GoTo(h, label),
         pc[h] \notin {"idle", "done", "failed"}, label # "idle",
         request[h].id \in Users => label = "putKey",
         \A user \in Users : storage'[user] = storage[user],
         UNCHANGED << request, doneBefore, masterKeys >>
  PROVE  RegistrationInv'
<1>1. \A other \in Handlers : pc'[other] = IF other = h THEN label ELSE pc[other]
  BY DEF GoTo, TypeOK, HandlersTypeOK
<1>2. \A other \in Handlers : \A user : Registers(other, user)' = Registers(other, user)
  BY <1>1, Zenon DEF Registers
<1>3. Completed' = IF label = "done" THEN Completed \cup {h} ELSE Completed
  BY <1>1 DEF Completed
<1>4. \A user \in Users : label = "done" => ~ Registers(h, user)
  BY DEF Registers
<1>5. CompletedBefore'
  BY <1>1, <1>3 DEF RegistrationInv, CompletedBefore
<1>6. RegistrationsRun'
  BY <1>1 DEF RegistrationInv, RegistrationsRun
<1>7. DoneIsStored'
  BY <1>2, <1>3, <1>4 DEF RegistrationInv, DoneIsStored, Completed
<1>8. StoredIsDone'
  BY <1>2, <1>3 DEF RegistrationInv, StoredIsDone, Completed
<1>9. LaterFail'
  <2>1. \A user \in Users : \A other \in Handlers :
          Registers(other, user) /\ pc[other] = "failed" => pc'[other] = "failed"
    BY <1>1
  <2> QED
    BY <1>2, <2>1 DEF RegistrationInv, LaterFail
<1>10. KeysAreRegistrations'
  BY <1>2 DEF RegistrationInv, KeysAreRegistrations
<1>11. BadMeansDisturbed'
  <2>1. \A user \in Users : \A other \in Handlers :
          Registers(other, user) /\ pc[other] # "failed" => pc'[other] # "failed"
    BY <1>1 DEF Registers
  <2>2. \A user \in Users : \A call \in Handlers : Disturbed(call, user) => Disturbed(call, user)'
    BY <1>2, <2>1 DEF Disturbed, Overlap
  <2> QED
    BY <1>2, <2>2 DEF RegistrationInv, BadMeansDisturbed
<1> QED
  BY <1>5, <1>6, <1>7, <1>8, <1>9, <1>10, <1>11 DEF RegistrationInv

\* A registration completes: it is what the store has.
LEMMA PutKeyRegistrationInv ==
  ASSUME TypeOK, CounterInv, RegistrationInv, NEW h \in Handlers, PutKey(h)
  PROVE  RegistrationInv'
<1>1. /\ pc[h] = "putKey" /\ GoTo(h, "done")
      /\ storage' = [storage EXCEPT ![request[h].id] = << Record(h) >>]
      /\ UNCHANGED << request, doneBefore, masterKeys >>
  BY DEF PutKey, Put
<1>2. \A other \in Handlers : pc'[other] = IF other = h THEN "done" ELSE pc[other]
  BY <1>1 DEF GoTo, TypeOK, HandlersTypeOK
<1>3. \A other \in Handlers : \A user : Registers(other, user)' = Registers(other, user)
  BY <1>1, <1>2, Zenon DEF Registers
<1>4. Completed' = Completed \cup {h}
  BY <1>2 DEF Completed
<1>5. request[h].id \in Users /\ Registers(h, request[h].id)
  BY <1>1 DEF CounterInv, CallsKnowTheirIds, Registers
<1>6. \A user \in Users : storage'[user] =
        IF user = request[h].id THEN << Record(h) >> ELSE storage[user]
  BY <1>1, <1>5 DEF TypeOK
<1>7. Len(<< Record(h) >>) = 1 /\ << Record(h) >>[1].call = h /\ << Record(h) >> # <<>>
  BY DEF Record
<1>8. CompletedBefore'
  BY <1>1, <1>2, <1>4 DEF RegistrationInv, CompletedBefore
<1>9. RegistrationsRun'
  BY <1>1, <1>2 DEF RegistrationInv, RegistrationsRun
<1>10. DoneIsStored'
  <2>1. \A user \in Users : Registers(h, user) => user = request[h].id
    BY DEF Registers
  <2> QED
    BY <1>3, <1>4, <1>6, <1>7, <2>1 DEF RegistrationInv, DoneIsStored, Completed
<1>11. StoredIsDone'
  <2> SUFFICES ASSUME NEW user \in Users, storage'[user] # <<>>
               PROVE  /\ Len(storage'[user]) = 1
                      /\ storage'[user][1].call \in Completed'
                      /\ Registers(storage[user][1].call, user)'
    BY DEF StoredIsDone
  <2>1. CASE user = request[h].id
    <3>1. storage'[user] = << Record(h) >>
      BY <1>6, <2>1
    <3>2. storage'[user][1].call = h /\ Len(storage'[user]) = 1
      BY <1>7, <3>1
    <3>3. request'[h].id = user /\ pc'[h] # "idle"
      BY <1>1, <1>2, <2>1
    <3> QED
      BY <1>4, <3>2, <3>3 DEF Registers
  <2>2. CASE user # request[h].id
    <3>1. storage'[user] = storage[user]
      BY <1>6, <2>2
    <3>2. storage[user][1].call \in Completed /\ Len(storage[user]) = 1
          /\ Registers(storage[user][1].call, user)
      BY <2>2, <3>1 DEF RegistrationInv, StoredIsDone
    <3> QED
      BY <1>1, <1>2, <1>4, <3>1, <3>2 DEF Completed, Registers
  <2> QED
    BY <2>1, <2>2
<1>12. LaterFail'
  BY <1>1, <1>2, <1>3 DEF RegistrationInv, LaterFail
<1>13. KeysAreRegistrations'
  BY <1>1, <1>3 DEF RegistrationInv, KeysAreRegistrations
<1>14. BadMeansDisturbed'
  <2>1. \A user \in Users : \A call \in Handlers : Disturbed(call, user) => Disturbed(call, user)'
    BY <1>1, <1>2, <1>3 DEF Disturbed, Overlap
  <2> QED
    BY <1>1, <1>3, <2>1 DEF RegistrationInv, BadMeansDisturbed
<1> QED
  BY <1>8, <1>9, <1>10, <1>11, <1>12, <1>13, <1>14 DEF RegistrationInv

\* When a user's store is another call's than the one that registered the user for a
\* client, that other call was under way at the same time.
LEMMA StoredElsewhere ==
  ASSUME RegistrationInv, NEW user \in Users, NEW h \in Completed, Registers(h, user)
  PROVE  /\ LookUpMK(user) \in Completed
         /\ Registers(LookUpMK(user), user)
         /\ LookUpMK(user) # h => Overlap(h, LookUpMK(user))
<1>1. storage[user] # <<>>
  BY DEF RegistrationInv, DoneIsStored
<1>2. LookUpMK(user) = storage[user][1].call
  <2>1. MasterRecord(user) = { storage[user][1] }
    BY <1>1 DEF MasterRecord, Get
  <2> QED
    BY <2>1 DEF LookUpMK
<1>3. LookUpMK(user) \in Completed /\ Registers(LookUpMK(user), user)
  BY <1>1, <1>2 DEF RegistrationInv, StoredIsDone
<1>4. \A x, y \in Completed :
        Registers(x, user) /\ Registers(y, user) => x \notin doneBefore[y]
  BY DEF RegistrationInv, LaterFail, Completed
<1> QED
  BY <1>3, <1>4 DEF Overlap

\* A call comes in: one of Register fails if it finds a completed registration, and one
\* of Append has a bad key only if the registration of its client was disturbed.
LEMMA BeginRegistrationInv ==
  ASSUME TypeOK, RegistrationInv, NEW h \in Handlers, NEW client \in Clients, NEW user \in Users,
         NEW id \in Users \cup Ids, NEW good \in BOOLEAN, Begin(h, client, user, id, good),
         NEW label \in {"register", "lock", "failed"}, GoTo(h, label),
         \/ /\ id = user /\ good
            /\ label = "failed" \/ (label = "register" /\ Unregistered(user))
            /\ KeepKey(h, client, user)
         \/ /\ id \in Ids /\ good = WillVerify(client, user)
            /\ HasKey(client, user)
            /\ UNCHANGED masterKeys
  PROVE  RegistrationInv'
<1> DEFINE new == [client |-> client, user |-> user, id |-> id, good |-> good]
<1>1. /\ pc[h] = "idle"
      /\ request' = [request EXCEPT ![h] = new]
      /\ doneBefore' = [doneBefore EXCEPT ![h] = Completed]
      /\ UNCHANGED storage
  BY DEF Begin, storeVars
<1>2. \A other \in Handlers : pc'[other] = IF other = h THEN label ELSE pc[other]
  BY DEF GoTo, TypeOK, HandlersTypeOK
<1>3. /\ request'[h].client = client /\ request'[h].user = user
      /\ request'[h].id = id /\ request'[h].good = good
      /\ \A other \in Handlers \ {h} : request'[other] = request[other]
  BY <1>1 DEF TypeOK, HandlersTypeOK
<1>4. doneBefore'[h] = Completed /\ \A other \in Handlers \ {h} : doneBefore'[other] = doneBefore[other]
  BY <1>1 DEF TypeOK, HandlersTypeOK
<1>5. Completed' = Completed /\ h \notin Completed /\ Completed \subseteq Handlers
  BY <1>1, <1>2 DEF Completed
<1>6. \A other \in Handlers \ {h} : \A u \in Users : Registers(other, u)' <=> Registers(other, u)
  BY <1>2, <1>3 DEF Registers
<1>7. \A u \in Users : ~ Registers(h, u) /\ (Registers(h, u)' <=> u = id)
  BY <1>1, <1>2, <1>3 DEF Registers
<1>8. \A other \in Handlers : h \notin doneBefore[other]
  BY <1>5 DEF RegistrationInv, CompletedBefore
<1>9. CompletedBefore'
  BY <1>2, <1>4, <1>5 DEF RegistrationInv, CompletedBefore
<1>10. RegistrationsRun'
  <2>1. id \in Users => label \in {"register", "failed"} /\ good
    BY ConstantsAssumption
  <2> QED
    BY <1>2, <1>3, <2>1 DEF RegistrationInv, RegistrationsRun
<1>11. DoneIsStored'
  BY <1>1, <1>5, <1>6 DEF RegistrationInv, DoneIsStored
<1>12. StoredIsDone'
  <2> SUFFICES ASSUME NEW u \in Users, storage[u] # <<>>
               PROVE  /\ Len(storage'[u]) = 1
                      /\ storage'[u][1].call \in Completed'
                      /\ Registers(storage[u][1].call, u)'
    BY <1>1 DEF StoredIsDone
  <2>1. /\ Len(storage[u]) = 1 /\ storage[u][1].call \in Completed
        /\ Registers(storage[u][1].call, u)
    BY DEF RegistrationInv, StoredIsDone
  <2> QED
    BY <1>1, <1>2, <1>3, <1>5, <2>1 DEF Registers
<1>13. LaterFail'
  <2> SUFFICES ASSUME NEW u \in Users, NEW x \in Handlers, NEW later \in Handlers,
                      Registers(x, u)', Registers(later, u)', x \in doneBefore'[later]
               PROVE  pc'[later] = "failed"
    BY DEF LaterFail
  <2>1. CASE later = h
    <3>1. x \in Completed /\ x # h /\ u = id
      BY <1>4, <1>5, <1>7, <2>1
    <3>2. storage[u] # <<>>
      BY <1>6, <3>1 DEF RegistrationInv, DoneIsStored
    <3>3. u = user
      BY <3>1, ConstantsAssumption
    <3>4. label = "failed"
      BY <3>1, <3>2, <3>3, ConstantsAssumption DEF Unregistered, Get
    <3> QED
      BY <1>2, <2>1, <3>4
  <2>2. CASE later # h
    <3>1. x # h /\ x \in doneBefore[later]
      BY <1>4, <1>8, <2>2
    <3>2. pc[later] = "failed"
      BY <1>6, <2>2, <3>1 DEF RegistrationInv, LaterFail
    <3> QED
      BY <1>2, <2>2, <3>2
  <2> QED
    BY <2>1, <2>2
<1>14. KeysAreRegistrations'
  <2> SUFFICES ASSUME NEW u \in Users, NEW c \in Clients
               PROVE  /\ masterKeys'[c][u] # None =>
                           /\ masterKeys'[c][u] \in Handlers
                           /\ Registers(masterKeys[c][u], u)'
                           /\ request'[masterKeys'[c][u]].client = c
                      /\ \A x \in Handlers : Registers(x, u)' /\ request'[x].client = c =>
                           masterKeys'[c][u] # None
    BY DEF KeysAreRegistrations
  <2>1. CASE u = id /\ c = client
    <3>1. u = user /\ KeepKey(h, client, user)
      BY <2>1, ConstantsAssumption
    <3>2. masterKeys'[c][u] = h
      BY <2>1, <3>1 DEF KeepKey, TypeOK, HandlersTypeOK
    <3> QED
      BY <1>2, <1>3, <2>1, <3>2, ConstantsAssumption DEF Registers
  <2>2. CASE ~ (u = id /\ c = client)
    <3>1. masterKeys'[c][u] = masterKeys[c][u]
      BY <2>2 DEF KeepKey, TypeOK, HandlersTypeOK
    <3>2. masterKeys[c][u] # None =>
            /\ masterKeys[c][u] \in Handlers
            /\ Registers(masterKeys[c][u], u) /\ request[masterKeys[c][u]].client = c
      BY DEF RegistrationInv, KeysAreRegistrations
    <3>3. \A x \in Handlers : Registers(x, u) /\ request[x].client = c => masterKeys[c][u] # None
      BY DEF RegistrationInv, KeysAreRegistrations
    <3>4. masterKeys[c][u] # h \/ masterKeys[c][u] = None
      BY <1>7, <3>2
    <3>5. \A x \in Handlers : Registers(x, u)' /\ request'[x].client = c =>
            Registers(x, u) /\ request[x].client = c
      BY <1>3, <1>6, <1>7, <2>2
    <3>6. masterKeys'[c][u] # None =>
            /\ masterKeys'[c][u] \in Handlers
            /\ Registers(masterKeys[c][u], u)'
            /\ request'[masterKeys'[c][u]].client = c
      BY <1>2, <1>3, <3>1, <3>2, <3>4 DEF Registers
    <3> QED
      BY <3>1, <3>3, <3>5, <3>6
  <2> QED
    BY <2>1, <2>2
<1>15. ASSUME NEW x \in Handlers, x # h, NEW u \in Users, Disturbed(x, u)
       PROVE  Disturbed(x, u)'
  <2>1. PICK other \in Handlers \ {x} :
          /\ Registers(other, u)
          /\ request[other].client = request[x].client \/ (pc[other] # "failed" /\ Overlap(x, other))
    BY <1>15 DEF Disturbed
  <2>2. other # h
    BY <1>7, <2>1
  <2>3. /\ Registers(other, u)'
        /\ \/ request'[other].client = request'[x].client
           \/ pc'[other] # "failed" /\ Overlap(x, other)'
    BY <1>2, <1>3, <1>4, <1>6, <1>15, <2>1, <2>2 DEF Overlap
  <2> QED
    BY <2>1, <2>3 DEF Disturbed
<1>16. BadMeansDisturbed'
  <2> SUFFICES ASSUME NEW u \in Users, NEW x \in Handlers, NEW later \in Handlers,
                      Registers(x, u)', x \in doneBefore'[later], ~ request'[later].good,
                      request'[later].user = u, request'[later].client = request'[x].client
               PROVE  Disturbed(x, u)'
    BY DEF BadMeansDisturbed
  <2>1. CASE later # h
    <3>1. x # h /\ x \in doneBefore[later]
      BY <1>4, <1>8, <2>1
    <3>2. Disturbed(x, u)
      BY <1>3, <1>6, <2>1, <3>1 DEF RegistrationInv, BadMeansDisturbed
    <3> QED
      BY <1>15, <3>1, <3>2
  <2>2. CASE later = h
    <3>1. x \in Completed /\ x # h /\ u = user /\ request[x].client = client /\ ~ good
      BY <1>3, <1>4, <1>5, <2>2
    <3>2. Registers(x, u) /\ masterKeys[client][user] # LookUpMK(user)
      BY <1>6, <3>1 DEF WillVerify
    <3>3. Disturbed(x, u)
      <4>1. masterKeys[client][user] \in Handlers /\ Registers(masterKeys[client][user], user)
            /\ request[masterKeys[client][user]].client = client
        BY <3>1, <3>2 DEF RegistrationInv, KeysAreRegistrations
      <4>2. CASE masterKeys[client][user] # x
        BY <3>1, <4>1, <4>2 DEF Disturbed
      <4>3. CASE masterKeys[client][user] = x
        <5>1. LookUpMK(user) # x
          BY <3>2, <4>3
        <5>2. /\ LookUpMK(user) \in Completed /\ Registers(LookUpMK(user), user)
              /\ Overlap(x, LookUpMK(user))
          BY <3>1, <3>2, <5>1, StoredElsewhere
        <5>3. pc[LookUpMK(user)] # "failed" /\ LookUpMK(user) \in Handlers
          BY <5>2 DEF Completed
        <5> QED
          BY <3>1, <5>1, <5>2, <5>3 DEF Disturbed
      <4> QED
        BY <4>2, <4>3
    <3> QED
      BY <1>15, <3>1, <3>3
  <2> QED
    BY <2>1, <2>2
<1> QED
  BY <1>9, <1>10, <1>11, <1>12, <1>13, <1>14, <1>16 DEF RegistrationInv

\* Every step keeps what is known of registrations.
LEMMA NextRegistrationInv ==
  TypeOK /\ CounterInv /\ RegistrationInv /\ [Next]_vars => RegistrationInv'
<1> SUFFICES ASSUME TypeOK, CounterInv, RegistrationInv, [Next]_vars PROVE RegistrationInv'
  OBVIOUS
<1>1. ASSUME NEW h \in Handlers, NEW client \in Callers[h], NEW user \in Users,
             Register(h, client, user)
      PROVE  RegistrationInv'
  <2>1. client \in Clients
    BY ConstantsAssumption
  <2> QED
    BY <1>1, <2>1, BeginRegistrationInv DEF Register
<1>2. ASSUME NEW h \in Handlers, NEW client \in Callers[h], NEW user \in Users, NEW id \in Ids,
             StartAppend(h, client, user, id)
      PROVE  RegistrationInv'
  <2>1. client \in Clients /\ WillVerify(client, user) \in BOOLEAN
    BY ConstantsAssumption DEF WillVerify
  <2> QED
    BY <1>2, <2>1, BeginRegistrationInv DEF StartAppend
<1>3. ASSUME NEW h \in Handlers, RegisterKey(h) PROVE RegistrationInv'
  BY <1>3, MoveRegistrationInv DEF RegisterKey, storeVars, Labels
<1>4. ASSUME NEW h \in Handlers, SendPosition(h) \/ FailAppend(h) \/ AcceptSignature(h) \/ GetValue(h)
      PROVE  RegistrationInv'
  <2>1. /\ pc[h] \in {"lock", "signature", "getValue"}
        /\ GoTo(h, "signature") \/ GoTo(h, "failed") \/ GoTo(h, "getValue") \/ GoTo(h, "putValue")
        /\ UNCHANGED << request, doneBefore, masterKeys, storage >>
    BY <1>4 DEF SendPosition, FailAppend, AcceptSignature, GetValue, storeVars
  <2>2. request[h].id \notin Users
    BY <2>1, ConstantsAssumption DEF CounterInv, CallsKnowTheirIds
  <2> QED
    BY <2>1, <2>2, MoveRegistrationInv DEF Labels
<1>5. ASSUME NEW h \in Handlers, PutValue(h) PROVE RegistrationInv'
  <2>1. /\ pc[h] = "putValue" /\ GoTo(h, "done")
        /\ storage' = [storage EXCEPT ![request[h].id] = NewestFirst(Record(h), original[h])]
        /\ UNCHANGED << request, doneBefore, masterKeys >>
    BY <1>5 DEF PutValue, Put
  <2>2. request[h].id \notin Users
    BY <2>1, ConstantsAssumption DEF CounterInv, CallsKnowTheirIds
  <2>3. \A user \in Users : storage'[user] = storage[user]
    BY <2>1, <2>2 DEF TypeOK
  <2> QED
    BY <2>1, <2>2, <2>3, MoveRegistrationInv DEF Labels
<1>6. CASE StartUpdateEpoch \/ StartVerificationPeriod \/ FinishEpoch \/ UNCHANGED vars
           \/ \E p \in Partitions : RollOver(p) \/ PublishPartition(p)
  <2>1. UNCHANGED << handlerVars, storage >>
    BY <1>6 DEF StartUpdateEpoch, StartVerificationPeriod, Tick, FinishEpoch, RollOver,
                PublishPartition, vars, storeVars
  <2> QED
    BY <2>1 DEF handlerVars, RegistrationInv, CompletedBefore, RegistrationsRun, DoneIsStored,
                StoredIsDone, LaterFail, KeysAreRegistrations, BadMeansDisturbed, Disturbed,
                Registers, Overlap, Completed
<1> QED
  BY <1>1, <1>2, <1>3, <1>4, <1>5, <1>6, PutKeyRegistrationInv DEF Next, ServerStep, EpochStep

\* A registration without another one under way at the same time lasts, and what its
\* client signs afterwards is verified with its key.
THEOREM LoneRegistrationAlwaysLasts == Spec => []LoneRegistrationLasts
<1>1. TypeOK /\ RegistrationInv => LoneRegistrationLasts
  <2> SUFFICES ASSUME TypeOK, RegistrationInv, NEW user \in Users, NEW h \in Completed,
                      Registers(h, user),
                      \A other \in Handlers \ {h} : Registers(other, user) =>
                        (pc[other] # "failed" => ~ Overlap(h, other))
               PROVE  /\ LookUpMK(user) = h
                      /\ (\A other \in Handlers \ {h} : Registers(other, user) =>
                            request[other].client # request[h].client) =>
                           \A later \in Handlers :
                             h \in doneBefore[later] /\ request[later].user = user
                                 /\ request[later].client = request[h].client => request[later].good
    BY DEF LoneRegistrationLasts
  <2>1. LookUpMK(user) = h
    BY StoredElsewhere DEF Completed
  <2>2. ASSUME \A other \in Handlers \ {h} : Registers(other, user) =>
                 request[other].client # request[h].client,
               NEW later \in Handlers, h \in doneBefore[later], request[later].user = user,
               request[later].client = request[h].client
        PROVE  request[later].good
    <3>1. ~ Disturbed(h, user)
      BY <2>2 DEF Disturbed
    <3> QED
      BY <2>2, <3>1 DEF RegistrationInv, BadMeansDisturbed, Completed
  <2> QED
    BY <2>1, <2>2
<1> QED
  BY <1>1, InitRegistrationInv, NextRegistrationInv, TypeCorrect, CountersCorrect, PTL DEF Spec

-----------------------------------------------------------------------------
CONSTANT partition

Directory == INSTANCE UpdateDirectory WITH
  pending <- pending[partition], provable <- provable[partition]

\* Any one of the partitions takes the steps of UpdateDirectory, which Partition is
\* proved to implement: the server uses its partitions as they promise to work.
THEOREM EachPartitionIsADirectory ==
  ASSUME partition \in Partitions
  PROVE  Spec => [][Directory!Next]_(Directory!vars)
<1>1. TypeOK /\ [Directories!Next]_(Directories!vars) => [Directory!Next]_(Directory!vars)
  <2> SUFFICES ASSUME TypeOK, [Directories!Next]_(Directories!vars)
               PROVE  [Directory!Next]_(Directory!vars)
    OBVIOUS
  <2>1. pending \in [Partitions -> Seq(AnyUpdate)] /\ provable \in [Partitions -> SUBSET AnyUpdate]
    BY DEF TypeOK, PartitionsTypeOK
  <2>2. ASSUME NEW p \in Partitions, NEW u \in Update, Directories!Accept(p, u)
        PROVE  [Directory!Next]_(Directory!vars)
    BY <2>1, <2>2 DEF Directories!Accept, Directory!Next, Directory!Accept, Directory!vars
  <2>3. ASSUME NEW p \in Partitions, Directories!Publish(p)
        PROVE  [Directory!Next]_(Directory!vars)
    BY <2>1, <2>3 DEF Directories!Publish, Directory!Next, Directory!Publish, Directory!vars,
                      Directory!ToSet, Directories!ToSet
  <2> QED
    BY <2>2, <2>3 DEF Directories!Next, Directories!vars, Directory!vars
<1>2. TypeOK /\ CounterInv /\ [Next]_vars => [Directories!Next]_(Directories!vars)
  BY StepOfDirectories
<1>3. TypeOK /\ CounterInv /\ [Next]_vars => [Directory!Next]_(Directory!vars)
  BY <1>1, <1>2
<1> QED
  BY <1>3, TypeCorrect, CountersCorrect, PTL DEF Spec

-----------------------------------------------------------------------------
(***************************************************************************)
(* Trees of a log.  lo is the number of the first value below a node, size *)
(* how many there are.                                                     *)
(***************************************************************************)

NodeFields == { "hash", "parent", "depth", "leftChild", "rightChild" }

\* The pointers to a tree's nodes.
Ptr(tree) == 1 .. Len(tree)

\* A sequence of nodes.
IsTree(tree) ==
  /\ tree \in Seq(ToSet(tree))
  /\ \A a \in Ptr(tree) : DOMAIN tree[a] = NodeFields

\* The node's last value is the last of all.
OnSpine(lo, size, n, a) == lo[a] + size[a] = n

\* A leaf has no children and one value.
LeafOK(tree, size, a) ==
  tree[a].depth = 0 => tree[a].leftChild = Nil /\ tree[a].rightChild = Nil /\ size[a] = 1

\* On the left of an internal node is a complete tree of one level less, on the right
\* one that is not larger.
InternalOK(tree, lo, size, a) ==
  LET left  == tree[a].leftChild
      right == tree[a].rightChild
  IN  tree[a].depth # 0 =>
        /\ left \in Ptr(tree) /\ right \in Ptr(tree)
        /\ tree[left].parent = a /\ tree[right].parent = a
        /\ tree[left].depth + 1 = tree[a].depth /\ tree[right].depth < tree[a].depth
        /\ size[left] = 2 ^ tree[left].depth /\ size[right] <= size[left]
        /\ size[a] = size[left] + size[right]
        /\ lo[left] = lo[a] /\ lo[right] = lo[a] + size[left]

\* Every node but the root is a child of its parent, and none is above the root.
UpOK(tree, top, a) ==
  LET parent == tree[a].parent
  IN  /\ parent \in Ptr(tree) \cup {Nil}
      /\ parent = Nil <=> a = top
      /\ parent # Nil => /\ tree[parent].depth # 0
                         /\ a \in { tree[parent].leftChild, tree[parent].rightChild }
      /\ tree[a].depth <= tree[top].depth

\* The nodes on the right edge are one below another, and the upper one has place for as
\* many more values as the lower one at least.
SpineOK(tree, lo, size, n) ==
  \A a, b \in Ptr(tree) :
    OnSpine(lo, size, n, a) /\ OnSpine(lo, size, n, b) =>
      /\ tree[a].depth = tree[b].depth => a = b
      /\ tree[b].depth < tree[a].depth =>
           /\ tree[b].depth <= tree[tree[a].rightChild].depth
           /\ size[a] + 2 ^ tree[b].depth <= size[b] + 2 ^ tree[a].depth

\* Every node has values, and more of them than levels below it.
NumbersOK(tree, lo, size, n) ==
  /\ lo \in [Ptr(tree) -> Nat] /\ size \in [Ptr(tree) -> Nat \ {0}]
  /\ \A a \in Ptr(tree) :
       lo[a] + size[a] <= n /\ tree[a].depth \in Nat /\ tree[a].depth < size[a]

\* A tree of n values, with that node as its root.
TreeOK(tree, top, n, lo, size) ==
  /\ IsTree(tree)
  /\ n \in 1 .. MaxLeaves /\ n <= Len(tree)
  /\ top \in Ptr(tree) /\ lo[top] = 0 /\ size[top] = n
  /\ NumbersOK(tree, lo, size, n)
  /\ \A a \in Ptr(tree) :
       LeafOK(tree, size, a) /\ InternalOK(tree, lo, size, a) /\ UpOK(tree, top, a)
  /\ SpineOK(tree, lo, size, n)

\* The node's hash is that of its value, or of its children's hashes.
HashOK(tree, values, lo, a) ==
  tree[a].hash = IF tree[a].depth = 0 THEN LeafHash(values[lo[a] + 1], lo[a])
                 ELSE Hash(tree[tree[a].leftChild].hash, tree[tree[a].rightChild].hash)

-----------------------------------------------------------------------------
(* Powers of two, and where a list of values is split.                     *)

\* The assumption on powers of two, as a fact to cite.
LEMMA Powers ==
  /\ 2 ^ 0 = 1
  /\ \A n \in 0 .. MaxLeaves : 2 ^ n \in Nat \ {0} /\ 2 ^ (n + 1) = 2 * 2 ^ n
BY ChronPowersAssumption

Growing == INSTANCE SequenceLemmas WITH
  LoopBody <- LAMBDA fixed, n, s : s,
  Claim <- LAMBDA fixed, n : n <= MaxLeaves => \A i \in 0 .. n : 2 ^ i <= 2 ^ n

\* A smaller exponent has a smaller power.
LEMMA PowersGrow ==
  ASSUME NEW n \in 0 .. MaxLeaves, NEW i \in 0 .. n
  PROVE  2 ^ i \in Nat \ {0} /\ 2 ^ i <= 2 ^ n
<1> DEFINE C(k) == k <= MaxLeaves => \A j \in 0 .. k : 2 ^ j <= 2 ^ k
<1>1. C(0)
  <2>1. \A j \in 0 .. 0 : j = 0
    OBVIOUS
  <2> QED
    BY <2>1, Powers
<1>2. ASSUME NEW k \in Nat, C(k) PROVE C(k + 1)
  <2> SUFFICES ASSUME k + 1 <= MaxLeaves, NEW j \in 0 .. k + 1 PROVE 2 ^ j <= 2 ^ (k + 1)
    OBVIOUS
  <2> HIDE DEF C
  <2>1. k \in 0 .. MaxLeaves /\ k + 1 \in 0 .. MaxLeaves
    BY MaxLeavesAssumption
  <2>2. 2 ^ k \in Nat /\ 2 ^ (k + 1) = 2 * 2 ^ k
    BY <2>1, Powers
  <2>3. CASE j = k + 1
    <3>1. \A p \in Nat : p <= p
      OBVIOUS
    <3>2. 2 ^ (k + 1) \in Nat
      BY <2>1, Powers
    <3>3. 2 ^ (k + 1) <= 2 ^ (k + 1)
      BY <3>1, <3>2
    <3> QED
      BY <2>3, <3>3
  <2>4. CASE j # k + 1
    <3>1. j \in 0 .. k /\ j \in 0 .. MaxLeaves
      BY <2>1, <2>4, MaxLeavesAssumption
    <3>2. 2 ^ j <= 2 ^ k /\ 2 ^ j \in Nat
      BY <1>2, <2>1, <3>1, Powers DEF C
    <3>3. \A x, y \in Nat : x <= y => x <= 2 * y
      OBVIOUS
    <3>4. 2 ^ j <= 2 * 2 ^ k
      BY <2>2, <3>2, <3>3, Zenon
    <3> QED
      BY <2>2, <3>4, Zenon
  <2> QED
    BY <2>3, <2>4
<1>3. \A k \in Nat : C(k)
  BY <1>1, <1>2, Growing!Induction
<1>4. n \in Nat /\ n <= MaxLeaves /\ i \in 0 .. MaxLeaves
  BY MaxLeavesAssumption
<1> QED
  BY <1>3, <1>4, Powers

\* A list of more than one value is split into two shorter ones.
LEMMA SplitPointSplits ==
  ASSUME NEW n \in 2 .. MaxLeaves
  PROVE  SplitPoint(n) \in 1 .. n - 1
<1> DEFINE S == { k \in { 2 ^ i : i \in 0 .. n } : k < n }
<1>1. S \in SUBSET Nat /\ \A k \in S : k \in 1 .. n - 1
  <2>1. \A i \in 0 .. n : 2 ^ i \in Nat \ {0}
    BY Powers, MaxLeavesAssumption
  <2> QED
    BY <2>1
<1>2. 1 \in S
  <2>1. 2 ^ 0 = 1 /\ 0 \in 0 .. n /\ 1 < n
    BY Powers
  <2>2. 2 ^ 0 \in { 2 ^ i : i \in 0 .. n }
    BY <2>1
  <2>3. 1 \in { 2 ^ i : i \in 0 .. n }
    BY <2>1, <2>2
  <2> QED
    BY <2>1, <2>3
<1> HIDE DEF S
<1>3. Max(S) \in S
  <2>1. n \in Nat /\ \A k \in S : k <= n
    BY <1>1, MaxLeavesAssumption
  <2>2. S \in SUBSET Nat /\ S # {}
    BY <1>1, <1>2
  <2> QED
    BY <2>1, <2>2, LargestNumber
<1> QED
  BY <1>1, <1>3 DEF SplitPoint, S

\* Where it is split: so that the left part is the largest complete tree.
LEMMA SplitPointIs ==
  ASSUME NEW n \in 2 .. MaxLeaves, NEW d \in Nat, d < n, 2 ^ d < n, n <= 2 ^ d + 2 ^ d
  PROVE  SplitPoint(n) = 2 ^ d
<1> DEFINE S == { k \in { 2 ^ i : i \in 0 .. n } : k < n }
<1>1. n \in Nat /\ d \in 0 .. n /\ d + 1 \in 0 .. MaxLeaves /\ d \in 0 .. MaxLeaves
  BY MaxLeavesAssumption
<1>2. 2 ^ d \in S
  BY <1>1
<1>3. ASSUME NEW k \in S PROVE k \in Nat /\ k <= 2 ^ d
  <2>1. PICK i \in 0 .. n : k = 2 ^ i
    OBVIOUS
  <2>2. k < n /\ i \in 0 .. MaxLeaves
    BY MaxLeavesAssumption
  <2>3. i <= d
    <3>1. SUFFICES ASSUME ~ (i <= d) PROVE FALSE
      OBVIOUS
    <3>2. d + 1 \in 0 .. i
      BY <3>1
    <3>3. 2 ^ (d + 1) <= 2 ^ i /\ 2 ^ (d + 1) = 2 * 2 ^ d
      BY <1>1, <2>2, <3>2, PowersGrow, Powers
    <3>4. 2 ^ d \in Nat /\ 2 ^ i \in Nat
      BY <1>1, <2>2, Powers
    <3> QED
      BY <2>1, <2>2, <3>3, <3>4
  <2>4. i \in 0 .. d
    BY <2>3
  <2> QED
    BY <1>1, <2>1, <2>4, PowersGrow
<1> HIDE DEF S
<1>4. S \in SUBSET Nat /\ S # {} /\ 2 ^ d \in Nat
  BY <1>1, <1>2, <1>3, Powers
<1>5. Max(S) \in S /\ 2 ^ d <= Max(S)
  BY <1>2, <1>3, <1>4, LargestNumber
<1>6. Max(S) = 2 ^ d
  <2>1. \A x, y \in Nat : x <= y /\ y <= x => x = y
    OBVIOUS
  <2> QED
    BY <1>3, <1>4, <1>5, <2>1
<1> QED
  BY <1>6 DEF SplitPoint, S

-----------------------------------------------------------------------------
(* The reference definition: there is such a table of hashes.              *)

\* f has the hashes of all lists of up to n of the values.
IsTable(values, f, n) ==
  f = [ m \in 0 .. n |-> [ lo \in Nat |-> TreeHashFrom(values, m, lo, f) ] ]

\* What an entry of the table is.
LEMMA TableRow ==
  ASSUME NEW values, NEW f, NEW n, IsTable(values, f, n), NEW m \in 0 .. n, NEW lo \in Nat
  PROVE  f[m][lo] = TreeHashFrom(values, m, lo, f)
<1> DEFINE Entry(i, j) == TreeHashFrom(values, i, j, f)
           Row(i) == [ j \in Nat |-> Entry(i, j) ]
<1>1. f = [ i \in 0 .. n |-> Row(i) ]
  BY DEF IsTable
<1>2. Row(m)[lo] = Entry(m, lo)
  <2> HIDE DEF Entry
  <2> QED
    OBVIOUS
<1> HIDE DEF Row
<1>3. f[m] = Row(m)
  BY <1>1
<1> QED
  BY <1>2, <1>3

\* A list's hash is known when those of fewer values are.
LEMMA TreeHashFromFewer ==
  ASSUME NEW values, NEW n \in 0 .. MaxLeaves, NEW lo \in Nat, NEW f, NEW g,
         \A m \in 0 .. n - 1 : f[m] = g[m]
  PROVE  TreeHashFrom(values, n, lo, f) = TreeHashFrom(values, n, lo, g)
<1>1. CASE n \in {0, 1}
  BY <1>1 DEF TreeHashFrom
<1>2. CASE n \notin {0, 1}
  <2> DEFINE k == SplitPoint(n)
  <2>1. n \in 2 .. MaxLeaves
    BY <1>2, MaxLeavesAssumption
  <2>2. k \in 1 .. n - 1
    BY <2>1, SplitPointSplits
  <2> HIDE DEF k
  <2>3. k \in 0 .. n - 1 /\ n - k \in 0 .. n - 1
    BY <2>1, <2>2, MaxLeavesAssumption
  <2>4. f[k] = g[k] /\ f[n - k] = g[n - k]
    BY <2>3
  <2> QED
    BY <1>2, <2>4 DEF TreeHashFrom, k
<1> QED
  BY <1>1, <1>2

Tables == INSTANCE SequenceLemmas WITH
  LoopBody <- LAMBDA fixed, n, s : s,
  Claim <- LAMBDA fixed, n : n <= MaxLeaves => \E f : IsTable(fixed, f, n)

\* There is a table, by induction over the number of values.
LEMMA TableExists ==
  ASSUME NEW values, NEW n \in 0 .. MaxLeaves
  PROVE  \E f : IsTable(values, f, n)
<1> DEFINE C(k) == k <= MaxLeaves => \E f : IsTable(values, f, k)
<1>1. C(0)
  <2> DEFINE f == [ m \in 0 .. 0 |-> [ lo \in Nat |-> TreeHashFrom(values, m, lo, <<>>) ] ]
  <2>1. \A m \in 0 .. 0 : m = 0
    OBVIOUS
  <2>2. \A g : \A lo \in Nat : TreeHashFrom(values, 0, lo, g) = EmptyHash
    BY DEF TreeHashFrom
  <2>3. IsTable(values, f, 0)
    BY <2>1, <2>2 DEF IsTable
  <2> QED
    BY <2>3
<1>2. ASSUME NEW k \in Nat, C(k) PROVE C(k + 1)
  <2> SUFFICES ASSUME k + 1 <= MaxLeaves PROVE \E g : IsTable(values, g, k + 1)
    OBVIOUS
  <2>1. k <= MaxLeaves
    BY MaxLeavesAssumption
  <2>2. PICK f : IsTable(values, f, k)
    BY <1>2, <2>1
  <2> DEFINE Row(m) == IF m = k + 1 THEN [ lo \in Nat |-> TreeHashFrom(values, k + 1, lo, f) ] ELSE f[m]
             g == [ m \in 0 .. k + 1 |-> Row(m) ]
  <2>3. \A m \in 0 .. k : g[m] = f[m]
    OBVIOUS
  <2>4. ASSUME NEW m \in 0 .. k + 1
        PROVE  Row(m) = [ lo \in Nat |-> TreeHashFrom(values, m, lo, g) ]
    <3> HIDE DEF g
    <3>1. m \in 0 .. MaxLeaves /\ \A i \in 0 .. m - 1 : i \in 0 .. k
      BY MaxLeavesAssumption
    <3>2. \A i \in 0 .. m - 1 : f[i] = g[i]
      BY <2>3, <3>1
    <3>3. \A lo \in Nat : TreeHashFrom(values, m, lo, f) = TreeHashFrom(values, m, lo, g)
      BY <3>1, <3>2, TreeHashFromFewer
    <3>4. Row(m) = [ lo \in Nat |-> TreeHashFrom(values, m, lo, f) ]
      <4>1. CASE m = k + 1
        BY <4>1
      <4>2. CASE m # k + 1
        <5>1. m \in 0 .. k
          BY <4>2
        <5>2. f[m] = [ lo \in Nat |-> TreeHashFrom(values, m, lo, f) ]
          BY <2>2, <5>1 DEF IsTable
        <5> QED
          BY <4>2, <5>2
      <4> QED
        BY <4>1, <4>2
    <3> HIDE DEF Row
    <3> QED
      BY <3>3, <3>4
  <2>5. g = [ m \in 0 .. k + 1 |-> [ lo \in Nat |-> TreeHashFrom(values, m, lo, g) ] ]
    <3>1. g = [ m \in 0 .. k + 1 |-> Row(m) ]
      OBVIOUS
    <3> HIDE DEF g, Row
    <3> QED
      BY <2>4, <3>1
  <2> HIDE DEF g
  <2> QED
    BY <2>5 DEF IsTable
<1>3. \A k \in Nat : C(k)
  <2> HIDE DEF C
  <2>1. C(0) /\ \A k \in Nat : C(k) => C(k + 1)
    BY <1>1, <1>2
  <2> QED
    BY <2>1, Tables!Induction DEF C
<1>4. n \in Nat /\ n <= MaxLeaves
  BY MaxLeavesAssumption
<1> QED
  BY <1>3, <1>4

\* The reference is the hash of the whole list in a table.
LEMMA MerkleTreeHashIs ==
  ASSUME NEW values, Len(values) \in 0 .. MaxLeaves
  PROVE  \E f : IsTable(values, f, Len(values)) /\ MerkleTreeHash(values) = f[Len(values)][0]
<1> DEFINE f == CHOOSE g : IsTable(values, g, Len(values))
<1>1. IsTable(values, f, Len(values))
  BY TableExists
<1>2. MerkleTreeHash(values) = f[Len(values)][0]
  BY Zenon DEF MerkleTreeHash, IsTable
<1> HIDE DEF f
<1> QED
  BY <1>1, <1>2

-----------------------------------------------------------------------------
(* What the stored hashes are.                                             *)

\* Where the values below an internal node are split.
LEMMA InternalSplit ==
  ASSUME NEW tree, NEW top, NEW n, NEW lo, NEW size, TreeOK(tree, top, n, lo, size),
         NEW a \in Ptr(tree), tree[a].depth # 0
  PROVE  LET left  == tree[a].leftChild
             right == tree[a].rightChild
         IN  /\ left \in Ptr(tree) /\ right \in Ptr(tree)
             /\ SplitPoint(size[a]) = size[left]
             /\ size[a] \in 2 .. MaxLeaves
             /\ size[left] \in 1 .. size[a] - 1 /\ size[right] = size[a] - size[left]
             /\ lo[left] = lo[a] /\ lo[right] = lo[a] + size[left]
<1> DEFINE left  == tree[a].leftChild
           right == tree[a].rightChild
           d     == tree[left].depth
<1>1. InternalOK(tree, lo, size, a)
  BY DEF TreeOK
<1>2. /\ left \in Ptr(tree) /\ right \in Ptr(tree)
      /\ d + 1 = tree[a].depth
      /\ size[left] = 2 ^ d /\ size[right] <= size[left]
      /\ size[a] = size[left] + size[right]
      /\ lo[left] = lo[a] /\ lo[right] = lo[a] + size[left]
  BY <1>1 DEF InternalOK
<1> HIDE DEF left, right, d
<1>3. /\ size[a] \in Nat \ {0} /\ size[left] \in Nat \ {0} /\ size[right] \in Nat \ {0}
      /\ lo[a] \in Nat /\ lo[a] + size[a] <= n /\ n \in Nat /\ n <= MaxLeaves
  BY <1>2, MaxLeavesAssumption DEF TreeOK, NumbersOK
<1>4. d \in Nat /\ d < size[left]
  BY <1>2 DEF TreeOK, NumbersOK, d
<1>5. size[a] \in 2 .. MaxLeaves /\ d < size[a]
  BY <1>2, <1>3, <1>4, MaxLeavesAssumption
<1> DEFINE p == 2 ^ d
<1>6. p = size[left]
  BY <1>2
<1> HIDE DEF p
<1>7. p < size[a] /\ size[a] <= p + p
  BY <1>2, <1>3, <1>6
<1>8. SplitPoint(size[a]) = p
  BY <1>4, <1>5, <1>7, SplitPointIs DEF p
<1>9. size[left] \in 1 .. size[a] - 1 /\ size[right] = size[a] - size[left]
  BY <1>2, <1>3
<1> QED
  BY <1>2, <1>5, <1>6, <1>8, <1>9 DEF left, right

\* Nodes with up to n values have the hash that the table has for their values.
HashesUpTo(k, n) ==
  \A a \in Ptr(k.tree) : k.size[a] <= n => k.tree[a].hash = k.f[k.size[a]][k.lo[a]]

Heights == INSTANCE SequenceLemmas WITH
  LoopBody <- LAMBDA fixed, n, s : s, Claim <- LAMBDA fixed, n : HashesUpTo(fixed, n)

\* When every node has the hash of its children's hashes, then that of its values.
LEMMA RootHasListHash ==
  ASSUME NEW tree, NEW top, NEW n, NEW lo, NEW size, TreeOK(tree, top, n, lo, size),
         NEW values, Len(values) = n, \A a \in Ptr(tree) : HashOK(tree, values, lo, a)
  PROVE  tree[top].hash = MerkleTreeHash(values)
<1>1. n \in 0 .. MaxLeaves /\ n \in Nat
  BY MaxLeavesAssumption DEF TreeOK
<1>2. PICK f : IsTable(values, f, n) /\ MerkleTreeHash(values) = f[n][0]
  BY <1>1, MerkleTreeHashIs
<1> DEFINE k == [tree |-> tree, size |-> size, lo |-> lo, f |-> f]
<1>3. HashesUpTo(k, 0)
  BY DEF HashesUpTo, TreeOK, NumbersOK
<1>4. ASSUME NEW h \in Nat, HashesUpTo(k, h) PROVE HashesUpTo(k, h + 1)
  <2> SUFFICES ASSUME NEW a \in Ptr(tree), size[a] <= h + 1
               PROVE  tree[a].hash = f[size[a]][lo[a]]
    BY DEF HashesUpTo
  <2>1. size[a] \in 1 .. n /\ lo[a] \in Nat /\ size[a] \in 0 .. n
    BY <1>1 DEF TreeOK, NumbersOK
  <2>2. f[size[a]][lo[a]] = TreeHashFrom(values, size[a], lo[a], f)
    BY <1>2, <2>1, TableRow
  <2>3. CASE tree[a].depth = 0
    <3>1. size[a] = 1
      BY <2>3 DEF TreeOK, LeafOK
    <3> QED
      BY <2>2, <2>3, <3>1 DEF HashOK, TreeHashFrom
  <2>4. CASE tree[a].depth # 0
    <3> DEFINE left  == tree[a].leftChild
               right == tree[a].rightChild
    <3>1. /\ left \in Ptr(tree) /\ right \in Ptr(tree)
          /\ SplitPoint(size[a]) = size[left]
          /\ size[a] \in 2 .. MaxLeaves
          /\ size[left] \in 1 .. size[a] - 1 /\ size[right] = size[a] - size[left]
          /\ lo[left] = lo[a] /\ lo[right] = lo[a] + size[left]
      BY <2>4, InternalSplit
    <3> HIDE DEF left, right
    <3>2. size[left] <= h /\ size[right] <= h /\ size[a] # 0 /\ size[a] # 1
      BY <2>1, <3>1, MaxLeavesAssumption
    <3>3. tree[left].hash = f[size[left]][lo[left]] /\ tree[right].hash = f[size[right]][lo[right]]
      BY <1>4, <3>1, <3>2 DEF HashesUpTo
    <3>4. tree[a].hash = Hash(tree[left].hash, tree[right].hash)
      BY <2>4 DEF HashOK, left, right
    <3>5. TreeHashFrom(values, size[a], lo[a], f)
            = Hash(f[size[left]][lo[a]], f[size[a] - size[left]][lo[a] + size[left]])
      BY <3>1, <3>2 DEF TreeHashFrom
    <3> QED
      BY <2>2, <3>1, <3>3, <3>4, <3>5
  <2> QED
    BY <2>3, <2>4
<1> HIDE DEF k
<1>5. HashesUpTo(k, n)
  <2>1. HashesUpTo(k, 0) /\ \A h \in Nat : HashesUpTo(k, h) => HashesUpTo(k, h + 1)
    BY <1>3, <1>4
  <2> QED
    BY <1>1, <2>1, Heights!Induction
<1>6. tree[top].hash = f[size[top]][lo[top]]
  BY <1>1, <1>5 DEF HashesUpTo, TreeOK, NumbersOK, k
<1> QED
  BY <1>2, <1>6 DEF TreeOK

-----------------------------------------------------------------------------
(* Refreshing hashes.                                                      *)

\* Only hashes differ.
SameShape(tree, new) ==
  /\ IsTree(new) /\ Len(new) = Len(tree)
  /\ \A a \in Ptr(tree) :
       /\ new[a].parent = tree[a].parent /\ new[a].depth = tree[a].depth
       /\ new[a].leftChild = tree[a].leftChild /\ new[a].rightChild = tree[a].rightChild

\* Nothing that makes a tree is about hashes.
LEMMA SameShapeIsTree ==
  ASSUME NEW tree, NEW new, SameShape(tree, new),
         NEW top, NEW n, NEW lo, NEW size, TreeOK(tree, top, n, lo, size)
  PROVE  TreeOK(new, top, n, lo, size)
<1>1. Ptr(new) = Ptr(tree)
  BY DEF SameShape, Ptr
<1>2. \A a \in Ptr(tree) :
        /\ new[a].parent = tree[a].parent /\ new[a].depth = tree[a].depth
        /\ new[a].leftChild = tree[a].leftChild /\ new[a].rightChild = tree[a].rightChild
  BY DEF SameShape
<1>3. ASSUME NEW a \in Ptr(tree)
      PROVE  LeafOK(new, size, a) /\ InternalOK(new, lo, size, a) /\ UpOK(new, top, a)
  <2>1. LeafOK(tree, size, a) /\ InternalOK(tree, lo, size, a) /\ UpOK(tree, top, a)
    BY DEF TreeOK
  <2>2. top \in Ptr(tree)
    BY DEF TreeOK
  <2>3. LeafOK(new, size, a)
    BY <1>2, <2>1 DEF LeafOK
  <2>4. InternalOK(new, lo, size, a)
    BY <1>1, <1>2, <2>1 DEF InternalOK
  <2>5. UpOK(new, top, a)
    BY <1>1, <1>2, <2>1, <2>2 DEF UpOK
  <2> QED
    BY <2>3, <2>4, <2>5
<1>4. NumbersOK(new, lo, size, n)
  <2>1. NumbersOK(tree, lo, size, n)
    BY DEF TreeOK
  <2>2. lo \in [Ptr(new) -> Nat] /\ size \in [Ptr(new) -> Nat \ {0}]
    BY <1>1, <2>1, Zenon DEF NumbersOK
  <2>3. \A a \in Ptr(new) :
          lo[a] + size[a] <= n /\ new[a].depth \in Nat /\ new[a].depth < size[a]
    BY <1>1, <1>2, <2>1 DEF NumbersOK
  <2> QED
    BY <2>2, <2>3 DEF NumbersOK
<1>5. SpineOK(new, lo, size, n)
  <2> SUFFICES ASSUME NEW a \in Ptr(tree), NEW b \in Ptr(tree),
                      OnSpine(lo, size, n, a), OnSpine(lo, size, n, b)
               PROVE  /\ new[a].depth = new[b].depth => a = b
                      /\ new[b].depth < new[a].depth =>
                           /\ new[b].depth <= new[new[a].rightChild].depth
                           /\ size[a] + 2 ^ new[b].depth <= size[b] + 2 ^ new[a].depth
    BY <1>1 DEF SpineOK
  <2>1. SpineOK(tree, lo, size, n) /\ InternalOK(tree, lo, size, a)
    BY DEF TreeOK
  <2>2. tree[a].depth \in Nat /\ tree[b].depth \in Nat
    BY DEF TreeOK, NumbersOK
  <2>3. tree[b].depth < tree[a].depth => tree[a].rightChild \in Ptr(tree)
    BY <2>1, <2>2 DEF InternalOK
  <2> QED
    BY <1>2, <2>1, <2>3 DEF SpineOK
<1>6. IsTree(new) /\ Len(new) = Len(tree)
  BY DEF SameShape
<1>7. n \in 1 .. MaxLeaves /\ n <= Len(new) /\ top \in Ptr(new) /\ lo[top] = 0 /\ size[top] = n
  BY <1>1, <1>6 DEF TreeOK
<1>8. \A a \in Ptr(new) : LeafOK(new, size, a) /\ InternalOK(new, lo, size, a) /\ UpOK(new, top, a)
  BY <1>1, <1>3
<1> QED
  BY <1>4, <1>5, <1>6, <1>7, <1>8 DEF TreeOK

Replacing(tree, new, a, node) == new = [tree EXCEPT ![a] = node]

\* A node is replaced, and no other.
LEMMA ReplaceNode ==
  ASSUME NEW tree, IsTree(tree), NEW a \in Ptr(tree), NEW node, DOMAIN node = NodeFields,
         NEW new, Replacing(tree, new, a, node)
  PROVE  /\ IsTree(new) /\ Len(new) = Len(tree)
         /\ new[a] = node /\ \A b \in Ptr(tree) : b # a => new[b] = tree[b]
<1>1. DOMAIN tree = 1 .. Len(tree) /\ Len(tree) \in Nat
  BY DEF IsTree
<1>2. DOMAIN new = 1 .. Len(tree) /\ \A b \in 1 .. Len(tree) : new[b] \in ToSet(new)
  BY <1>1 DEF ToSet, Replacing
<1>3. new \in Seq(ToSet(new)) /\ Len(new) = Len(tree)
  <2> DEFINE n == Len(tree)
             S == ToSet(new)
  <2>1. n \in Nat /\ new = [ b \in 1 .. n |-> new[b] ] /\ \A b \in 1 .. n : new[b] \in S
    <3>1. new = [ b \in DOMAIN new |-> new[b] ]
      BY DEF Replacing
    <3> QED
      BY <1>1, <1>2, <3>1
  <2>2. DOMAIN new = 1 .. n
    BY <1>2
  <2> HIDE DEF n, S
  <2>3. [ b \in 1 .. n |-> new[b] ] \in Seq(S)
    BY <2>1
  <2>4. new \in Seq(S)
    BY <2>1, <2>3
  <2>5. DOMAIN new = 1 .. Len(new) /\ Len(new) \in Nat
    BY <2>4
  <2>6. Len(new) = n
    BY <2>1, <2>2, <2>5
  <2> QED
    BY <2>4, <2>6 DEF n, S
<1>4. new[a] = node /\ \A b \in Ptr(tree) : b # a => new[b] = tree[b]
  BY <1>1 DEF Ptr, Replacing
<1>5. \A b \in Ptr(new) : DOMAIN new[b] = NodeFields
  BY <1>3, <1>4 DEF IsTree, Ptr
<1> QED
  BY <1>3, <1>4, <1>5 DEF IsTree

\* updateHash computes one node's hash from its children's, and changes nothing else.
LEMMA UpdateHashUpdates ==
  ASSUME NEW tree, IsTree(tree), NEW a \in Ptr(tree)
  PROVE  LET new == UpdateHash(tree, a)
         IN  /\ SameShape(tree, new)
             /\ new[a].hash = Hash(tree[tree[a].leftChild].hash, tree[tree[a].rightChild].hash)
             /\ \A b \in Ptr(tree) : b # a => new[b].hash = tree[b].hash
<1> DEFINE hash == Hash(tree[tree[a].leftChild].hash, tree[tree[a].rightChild].hash)
           node == [tree[a] EXCEPT !.hash = hash]
           new  == UpdateHash(tree, a)
<1>1. DOMAIN tree[a] = NodeFields
  BY DEF IsTree
<1>2. Replacing(tree, new, a, node)
  BY DEF Replacing, UpdateHash
<1> HIDE DEF new, hash
<1>3. /\ DOMAIN node = NodeFields /\ node.hash = hash
      /\ node.parent = tree[a].parent /\ node.depth = tree[a].depth
      /\ node.leftChild = tree[a].leftChild /\ node.rightChild = tree[a].rightChild
  BY <1>1 DEF NodeFields
<1> HIDE DEF node
<1>4. /\ IsTree(new) /\ Len(new) = Len(tree)
      /\ new[a] = node /\ \A b \in Ptr(tree) : b # a => new[b] = tree[b]
  BY <1>2, <1>3, ReplaceNode
<1>5. SameShape(tree, new)
  BY <1>3, <1>4 DEF SameShape
<1>6. new[a].hash = hash /\ \A b \in Ptr(tree) : b # a => new[b].hash = tree[b].hash
  BY <1>3, <1>4
<1> QED
  BY <1>5, <1>6 DEF new, hash

\* Above a node on the right edge is another one, of which it is the right child.
LEMMA SpineUp ==
  ASSUME NEW tree, NEW top, NEW n, NEW lo, NEW size, TreeOK(tree, top, n, lo, size),
         NEW a \in Ptr(tree), OnSpine(lo, size, n, a), tree[a].parent # Nil
  PROVE  LET p == tree[a].parent
         IN  /\ p \in Ptr(tree) /\ OnSpine(lo, size, n, p)
             /\ tree[p].rightChild = a /\ tree[p].depth # 0 /\ tree[a].depth < tree[p].depth
<1> DEFINE p == tree[a].parent
<1>1. UpOK(tree, top, a)
  BY DEF TreeOK
<1>2. p \in Ptr(tree) /\ tree[p].depth # 0 /\ a \in { tree[p].leftChild, tree[p].rightChild }
  BY <1>1 DEF UpOK
<1> HIDE DEF p
<1>3. InternalOK(tree, lo, size, p)
  BY <1>2 DEF TreeOK
<1> DEFINE left  == tree[p].leftChild
           right == tree[p].rightChild
<1>4. /\ left \in Ptr(tree) /\ right \in Ptr(tree)
      /\ tree[right].depth < tree[p].depth
      /\ size[p] = size[left] + size[right]
      /\ lo[left] = lo[p] /\ lo[right] = lo[p] + size[left]
  BY <1>2, <1>3 DEF InternalOK
<1>5. /\ lo[p] \in Nat /\ lo[p] + size[p] <= n /\ n \in Nat
      /\ size[left] \in Nat \ {0} /\ size[right] \in Nat \ {0}
  BY <1>2, <1>4, MaxLeavesAssumption DEF TreeOK, NumbersOK
<1>6. a \in {left, right}
  BY <1>2
<1> HIDE DEF left, right
<1>7. a # left
  BY <1>4, <1>5 DEF OnSpine
<1>8. a = right /\ OnSpine(lo, size, n, p)
  BY <1>4, <1>5, <1>6, <1>7 DEF OnSpine
<1> QED
  BY <1>2, <1>4, <1>8 DEF p, right

RefreshLoop == INSTANCE SequenceLemmas WITH
  LoopBody <- LAMBDA fixed, n, s : RefreshStep(s), Claim <- LAMBDA fixed, n : TRUE

\* The node's hash may still be to refresh when the loop has come to that node.
ToRefresh(k, at, a) ==
  at # Nil /\ OnSpine(k.lo, k.size, k.n, a) /\ k.tree[at].depth <= k.tree[a].depth

\* What the loop has done after m rounds.
IsRefreshed(k, m, s) ==
  /\ SameShape(k.tree, s.tree)
  /\ s.at \in Ptr(k.tree) \cup {Nil}
  /\ s.at # Nil => /\ OnSpine(k.lo, k.size, k.n, s.at)
                   /\ k.tree[s.at].depth # 0 /\ m <= k.tree[s.at].depth
  /\ \A a \in Ptr(k.tree) : HashOK(s.tree, k.values, k.lo, a) \/ ToRefresh(k, s.at, a)

Refreshed == INSTANCE SequenceLemmas WITH
  LoopBody <- LAMBDA fixed, n, s : s,
  Claim <- LAMBDA fixed, n : IsRefreshed(fixed, n, RefreshLoop!Loop(fixed, fixed.first)[n])

\* One round of the refresh loop leaves one node less to refresh.
LEMMA RefreshStepRefreshes ==
  ASSUME NEW k, TreeOK(k.tree, k.top, k.n, k.lo, k.size), NEW m \in Nat, NEW s,
         IsRefreshed(k, m, s)
  PROVE  IsRefreshed(k, m + 1, RefreshStep(s))
<1> DEFINE at == s.at
<1>1. CASE at = Nil
  BY <1>1 DEF IsRefreshed, RefreshStep
<1>2. CASE at # Nil
  <2> DEFINE tree == k.tree
             old == s.tree
             new == UpdateHash(old, at)
             p == tree[at].parent
  <2>1. /\ SameShape(tree, old) /\ at \in Ptr(tree) /\ OnSpine(k.lo, k.size, k.n, at)
        /\ tree[at].depth # 0 /\ m <= tree[at].depth
    BY <1>2 DEF IsRefreshed
  <2>2. IsTree(old) /\ Ptr(old) = Ptr(tree)
    BY <2>1 DEF SameShape, Ptr
  <2>3. /\ SameShape(old, new)
        /\ new[at].hash = Hash(old[old[at].leftChild].hash, old[old[at].rightChild].hash)
        /\ \A b \in Ptr(old) : b # at => new[b].hash = old[b].hash
    BY <2>1, <2>2, UpdateHashUpdates
  <2>4. RefreshStep(s).tree = new /\ RefreshStep(s).at = p
    BY <1>2, <2>1 DEF RefreshStep, SameShape
  <2> HIDE DEF new, at, old, tree
  <2>5. SameShape(tree, new)
    BY <2>1, <2>2, <2>3 DEF SameShape
  <2>6. \A a \in Ptr(tree) :
          /\ tree[a].depth \in Nat /\ tree[a].depth <= tree[k.top].depth
          /\ tree[a].parent \in Ptr(tree) \cup {Nil}
          /\ tree[a].parent = Nil <=> a = k.top
    BY DEF TreeOK, NumbersOK, UpOK, tree
  <2>7. p # Nil => /\ p \in Ptr(tree) /\ OnSpine(k.lo, k.size, k.n, p)
                   /\ tree[p].rightChild = at /\ tree[p].depth # 0
                   /\ tree[at].depth < tree[p].depth
    BY <2>1, SpineUp DEF tree
  <2>8. p # Nil => m + 1 <= tree[p].depth
    BY <2>1, <2>6, <2>7
  <2>9. ASSUME NEW a \in Ptr(tree)
        PROVE  HashOK(new, k.values, k.lo, a) \/ ToRefresh(k, p, a)
    <3>1. /\ new[a].depth = tree[a].depth /\ old[a].depth = tree[a].depth
          /\ new[a].leftChild = tree[a].leftChild /\ new[a].rightChild = tree[a].rightChild
          /\ old[a].leftChild = tree[a].leftChild /\ old[a].rightChild = tree[a].rightChild
      BY <2>1, <2>5 DEF SameShape
    <3>2. tree[a].depth # 0 =>
            /\ tree[a].leftChild \in Ptr(tree) /\ tree[a].rightChild \in Ptr(tree)
            /\ tree[tree[a].leftChild].parent = a /\ tree[tree[a].rightChild].parent = a
            /\ tree[tree[a].leftChild].depth # tree[a].depth
            /\ tree[tree[a].rightChild].depth # tree[a].depth
      <4>1. InternalOK(tree, k.lo, k.size, a)
        BY DEF TreeOK, tree
      <4> QED
        BY <2>6, <4>1 DEF InternalOK
    <3>3. CASE a = at
      <4>1. old[at].leftChild # at /\ old[at].rightChild # at
        BY <2>1, <3>1, <3>2, <3>3
      <4>2. /\ new[old[at].leftChild].hash = old[old[at].leftChild].hash
            /\ new[old[at].rightChild].hash = old[old[at].rightChild].hash
        BY <2>1, <2>2, <2>3, <3>1, <3>2, <3>3, <4>1
      <4> QED
        BY <2>1, <2>3, <3>1, <3>3, <4>2 DEF HashOK
    <3>4. CASE a # at /\ a = p /\ p # Nil
      BY <2>6, <2>7, <3>4 DEF ToRefresh, tree
    <3>5. CASE a # at /\ ~ (a = p /\ p # Nil) /\ HashOK(old, k.values, k.lo, a)
      <4>1. a # p
        <5>1. a # Nil
          BY DEF Ptr, Nil
        <5> QED
          BY <3>5, <5>1
      <4>2. tree[a].depth # 0 => tree[a].leftChild # at /\ tree[a].rightChild # at
        BY <3>2, <4>1
      <4>3. new[a].hash = old[a].hash
        BY <2>2, <2>3, <3>5
      <4>4. tree[a].depth # 0 => /\ new[tree[a].leftChild].hash = old[tree[a].leftChild].hash
                                 /\ new[tree[a].rightChild].hash = old[tree[a].rightChild].hash
        BY <2>2, <2>3, <3>2, <4>2
      <4> QED
        BY <3>1, <3>5, <4>3, <4>4 DEF HashOK
    <3>6. CASE a # at /\ ToRefresh(k, at, a)
      <4>1. OnSpine(k.lo, k.size, k.n, a) /\ tree[at].depth <= tree[a].depth
        BY <3>6 DEF ToRefresh, tree
      <4>2. SpineOK(tree, k.lo, k.size, k.n)
        BY DEF TreeOK, tree
      <4>3. tree[at].depth < tree[a].depth
        BY <2>1, <2>6, <3>6, <4>1, <4>2 DEF SpineOK
      <4>4. p # Nil
        <5>1. SUFFICES ASSUME p = Nil PROVE FALSE
          OBVIOUS
        <5>2. at = k.top
          BY <2>1, <2>6, <5>1
        <5> QED
          BY <2>1, <2>6, <4>3, <5>2
      <4>5. ~ (tree[a].depth < tree[p].depth)
        BY <2>1, <2>6, <2>7, <4>1, <4>2, <4>3, <4>4 DEF SpineOK
      <4>6. tree[p].depth <= tree[a].depth
        BY <2>6, <2>7, <4>4, <4>5
      <4> QED
        BY <4>1, <4>4, <4>6 DEF ToRefresh, tree
    <3>7. HashOK(old, k.values, k.lo, a) \/ ToRefresh(k, at, a)
      BY DEF IsRefreshed, tree, old, at
    <3> QED
      BY <3>3, <3>4, <3>5, <3>6, <3>7
  <2>10. p \in Ptr(tree) \cup {Nil}
    BY <2>1, <2>6
  <2> HIDE DEF p
  <2> QED
    BY <2>4, <2>5, <2>7, <2>8, <2>9, <2>10 DEF IsRefreshed, tree
<1> QED
  BY <1>1, <1>2

\* Once it is at the root, all hashes are right.
LEMMA UpdateHashesRefreshes ==
  ASSUME NEW tree, NEW top, NEW n, NEW lo, NEW size, TreeOK(tree, top, n, lo, size),
         NEW node \in Ptr(tree), OnSpine(lo, size, n, node), tree[node].depth # 0,
         NEW values,
         \A a \in Ptr(tree) :
           \/ HashOK(tree, values, lo, a)
           \/ OnSpine(lo, size, n, a) /\ tree[node].depth <= tree[a].depth
  PROVE  LET new == UpdateHashesFrom(tree, node)
         IN  /\ SameShape(tree, new)
             /\ \A a \in Ptr(tree) : HashOK(new, values, lo, a)
<1> DEFINE first == [tree |-> tree, at |-> node]
           k == [tree |-> tree, top |-> top, n |-> n, lo |-> lo, size |-> size,
                 values |-> values, first |-> first]
           rounds == RefreshLoop!Loop(k, first)
           m == Len(tree)
<1>1. UpdateHashesFrom(tree, node) = rounds[m].tree
  BY DEF UpdateHashesFrom, RefreshLoop!Loop, RefreshLoop!IsLoop
<1>2. TreeOK(k.tree, k.top, k.n, k.lo, k.size) /\ k.first = first /\ k.tree = tree
  OBVIOUS
<1>3. rounds[0] = first /\ \A h \in Nat : rounds[h + 1] = RefreshStep(rounds[h])
  BY RefreshLoop!LoopRounds
<1>4. IsRefreshed(k, 0, first)
  <2>1. node # Nil /\ tree[node].depth \in Nat
    BY DEF Ptr, Nil, TreeOK, NumbersOK
  <2>2. SameShape(tree, tree)
    BY DEF SameShape, TreeOK
  <2> QED
    BY <2>1, <2>2 DEF IsRefreshed, ToRefresh
<1> HIDE DEF k, rounds, first
<1>5. \A h \in Nat : IsRefreshed(k, h, rounds[h])
  <2>1. IsRefreshed(k, 0, rounds[0])
    BY <1>3, <1>4
  <2>2. \A h \in Nat : IsRefreshed(k, h, rounds[h]) => IsRefreshed(k, h + 1, rounds[h + 1])
    BY <1>2, <1>3, RefreshStepRefreshes
  <2> QED
    BY <1>2, <2>1, <2>2, Refreshed!Induction DEF rounds
<1>6. m \in Nat
  BY DEF TreeOK, IsTree
<1>7. IsRefreshed(k, m, rounds[m])
  BY <1>5, <1>6
<1>8. rounds[m].at = Nil
  <2>1. SUFFICES ASSUME rounds[m].at # Nil PROVE FALSE
    OBVIOUS
  <2> DEFINE at == rounds[m].at
  <2>2. at \in Ptr(tree) /\ m <= tree[at].depth
    BY <1>2, <1>7, <2>1 DEF IsRefreshed
  <2> HIDE DEF at
  <2>3. /\ tree[at].depth \in Nat /\ tree[at].depth < size[at] /\ size[at] \in Nat
        /\ lo[at] \in Nat /\ lo[at] + size[at] <= n /\ n <= m /\ n \in Nat
    BY <2>2, MaxLeavesAssumption DEF TreeOK, NumbersOK
  <2> QED
    BY <1>6, <2>2, <2>3
<1>9. SameShape(tree, rounds[m].tree)
  BY <1>2, <1>7 DEF IsRefreshed
<1>10. \A a \in Ptr(tree) : HashOK(rounds[m].tree, values, lo, a)
  <2>1. k.values = values /\ k.lo = lo
    BY DEF k
  <2> QED
    BY <1>2, <1>7, <1>8, <2>1 DEF IsRefreshed, ToRefresh
<1> QED
  BY <1>1, <1>9, <1>10

-----------------------------------------------------------------------------
(* Where the path is pushed down.                                          *)

PushDownLoop == INSTANCE SequenceLemmas WITH
  LoopBody <- LAMBDA fixed, n, s : PushDownStep(fixed.tree, fixed.top, s),
  Claim <- LAMBDA fixed, n : TRUE

\* After m rounds the loop has come m levels up, or stopped.
IsClimbed(k, m, curr) ==
  /\ curr \in Ptr(k.tree) /\ OnSpine(k.lo, k.size, k.n, curr)
  /\ k.size[curr] = 2 ^ k.tree[curr].depth
  /\ \/ m <= k.tree[curr].depth
     \/ curr = k.top \/ k.tree[curr].depth + 1 # k.tree[k.tree[curr].parent].depth

Climbed == INSTANCE SequenceLemmas WITH
  LoopBody <- LAMBDA fixed, n, s : s,
  Claim <- LAMBDA fixed, n : IsClimbed(fixed, n, PushDownLoop!Loop(fixed, fixed.first)[n])

\* One round of the search for the push-down point is one level up, or the search is over.
LEMMA PushDownStepClimbs ==
  ASSUME NEW k, TreeOK(k.tree, k.top, k.n, k.lo, k.size), NEW m \in Nat, NEW curr,
         IsClimbed(k, m, curr)
  PROVE  IsClimbed(k, m + 1, PushDownStep(k.tree, k.top, curr))
<1> DEFINE tree == k.tree
           p == tree[curr].parent
<1>1. CASE ~ (curr # k.top /\ tree[curr].depth + 1 = tree[p].depth)
  BY <1>1 DEF IsClimbed, PushDownStep
<1>2. CASE curr # k.top /\ tree[curr].depth + 1 = tree[p].depth
  <2>1. PushDownStep(tree, k.top, curr) = p
    BY <1>2 DEF PushDownStep
  <2>2. curr \in Ptr(tree) /\ OnSpine(k.lo, k.size, k.n, curr) /\ k.size[curr] = 2 ^ tree[curr].depth
    BY DEF IsClimbed
  <2>3. p # Nil
    BY <1>2, <2>2 DEF TreeOK, UpOK
  <2>4. /\ p \in Ptr(tree) /\ OnSpine(k.lo, k.size, k.n, p)
        /\ tree[p].rightChild = curr /\ tree[p].depth # 0
    BY <2>2, <2>3, SpineUp
  <2> HIDE DEF p
  <2> DEFINE left == tree[p].leftChild
  <2>5. InternalOK(tree, k.lo, k.size, p)
    BY <2>4 DEF TreeOK
  <2>6. /\ left \in Ptr(tree) /\ tree[left].depth + 1 = tree[p].depth
        /\ k.size[left] = 2 ^ tree[left].depth /\ k.size[p] = k.size[left] + k.size[curr]
    BY <2>4, <2>5 DEF InternalOK
  <2> HIDE DEF left, tree
  <2>7. \A a \in Ptr(tree) :
          /\ tree[a].depth \in Nat /\ tree[a].depth < k.size[a]
          /\ k.size[a] \in Nat /\ k.size[a] <= k.n /\ k.n \in Nat /\ k.n <= MaxLeaves
    BY MaxLeavesAssumption DEF TreeOK, NumbersOK, tree
  <2> DEFINE d == tree[curr].depth
  <2>8. d \in 0 .. MaxLeaves /\ tree[left].depth = d /\ tree[p].depth = d + 1
    BY <1>2, <2>2, <2>4, <2>6, <2>7, MaxLeavesAssumption DEF p
  <2> HIDE DEF d
  <2>9. k.size[p] = 2 ^ (d + 1)
    <3>1. 2 ^ d \in Nat /\ 2 ^ (d + 1) = 2 * 2 ^ d
      BY <2>8, Powers
    <3>2. k.size[p] = 2 ^ d + 2 ^ d
      BY <2>2, <2>6, <2>8 DEF d
    <3>3. \A x \in Nat : x + x = 2 * x
      OBVIOUS
    <3> QED
      BY <3>1, <3>2, <3>3, Zenon
  <2>10. m <= tree[curr].depth
    BY <1>2 DEF IsClimbed, tree, p
  <2>11. m + 1 <= tree[p].depth
    BY <2>8, <2>10 DEF d
  <2> QED
    BY <2>1, <2>4, <2>8, <2>9, <2>11 DEF IsClimbed, tree
<1> QED
  BY <1>1, <1>2

\* There is a node to push down: a complete tree on the right edge, more than one
\* level below its parent.
LEMMA PushDownPointFound ==
  ASSUME NEW lo, NEW size, NEW n, TreeOK(nodes, root, n, lo, size), n # 2 ^ nodes[root].depth,
         last \in Ptr(nodes), OnSpine(lo, size, n, last), nodes[last].depth = 0
  PROVE  LET curr == PushDownPoint
         IN  /\ curr \in Ptr(nodes) /\ OnSpine(lo, size, n, curr)
             /\ size[curr] = 2 ^ nodes[curr].depth
             /\ curr # root
             /\ nodes[curr].depth + 1 # nodes[nodes[curr].parent].depth
<1> DEFINE k == [tree |-> nodes, top |-> root, n |-> n, lo |-> lo, size |-> size, first |-> last]
           rounds == PushDownLoop!Loop(k, last)
           m == Len(nodes)
           curr == rounds[m]
<1>1. PushDownPoint = curr
  BY DEF PushDownPoint, PushDownLoop!Loop, PushDownLoop!IsLoop
<1>2. /\ TreeOK(k.tree, k.top, k.n, k.lo, k.size) /\ k.first = last
      /\ k.tree = nodes /\ k.top = root /\ k.lo = lo /\ k.size = size /\ k.n = n
  OBVIOUS
<1>3. rounds[0] = last /\ \A h \in Nat : rounds[h + 1] = PushDownStep(k.tree, k.top, rounds[h])
  BY PushDownLoop!LoopRounds
<1>4. IsClimbed(k, 0, last)
  <2>1. size[last] = 1 /\ 2 ^ 0 = 1
    BY Powers DEF TreeOK, LeafOK
  <2> HIDE DEF k
  <2>2. 0 <= nodes[last].depth
    OBVIOUS
  <2> QED
    BY <1>2, <2>1, <2>2 DEF IsClimbed
<1> HIDE DEF k, rounds
<1>5. \A h \in Nat : IsClimbed(k, h, rounds[h])
  <2>1. IsClimbed(k, 0, rounds[0])
    BY <1>3, <1>4
  <2>2. \A h \in Nat : IsClimbed(k, h, rounds[h]) => IsClimbed(k, h + 1, rounds[h + 1])
    BY <1>2, <1>3, PushDownStepClimbs
  <2> QED
    BY <1>2, <2>1, <2>2, Climbed!Induction DEF rounds
<1>6. m \in Nat
  BY DEF TreeOK, IsTree
<1>7. IsClimbed(k, m, curr)
  BY <1>5, <1>6
<1> HIDE DEF curr, m
<1>8. curr \in Ptr(nodes) /\ OnSpine(lo, size, n, curr) /\ size[curr] = 2 ^ nodes[curr].depth
  BY <1>2, <1>7 DEF IsClimbed
<1>9. ~ (m <= nodes[curr].depth)
  <2>1. /\ nodes[curr].depth \in Nat /\ nodes[curr].depth < size[curr] /\ size[curr] \in Nat
        /\ lo[curr] \in Nat /\ lo[curr] + size[curr] <= n /\ n <= m /\ n \in Nat
    BY <1>8, MaxLeavesAssumption DEF TreeOK, NumbersOK, m
  <2> QED
    BY <1>6, <2>1
<1>10. curr # root
  BY <1>8 DEF TreeOK
<1>11. nodes[curr].depth + 1 # nodes[nodes[curr].parent].depth
  BY <1>2, <1>7, <1>9, <1>10 DEF IsClimbed
<1> QED
  BY <1>1, <1>8, <1>10, <1>11

-----------------------------------------------------------------------------
(* Adding two nodes.                                                       *)

Extending(tree, new, leaf, parent) == new = tree \o << leaf, parent >>

\* A leaf and its new parent, behind a tree.
LEMMA TwoMoreNodes ==
  ASSUME NEW tree, IsTree(tree), NEW leaf, NEW parent,
         DOMAIN leaf = NodeFields, DOMAIN parent = NodeFields,
         NEW new, Extending(tree, new, leaf, parent)
  PROVE  /\ IsTree(new) /\ Len(new) = Len(tree) + 2
         /\ new[Len(tree) + 1] = leaf /\ new[Len(tree) + 2] = parent
         /\ \A a \in Ptr(tree) : new[a] = tree[a]
<1> DEFINE S == ToSet(tree) \cup {leaf, parent}
           more == << leaf, parent >>
<1>0. new = tree \o more
  BY DEF Extending
<1>1. tree \in Seq(S) /\ leaf \in S /\ parent \in S /\ Len(tree) \in Nat
  BY DEF IsTree
<1> HIDE DEF S
<1>2. more \in Seq(S) /\ Len(more) = 2 /\ more[1] = leaf /\ more[2] = parent
  BY <1>1
<1> HIDE DEF more
<1>3. /\ new \in Seq(S) /\ Len(new) = Len(tree) + Len(more)
      /\ \A i \in 1 .. Len(tree) + Len(more) :
           new[i] = IF i <= Len(tree) THEN tree[i] ELSE more[i - Len(tree)]
  BY <1>0, <1>1, <1>2, ConcatProperties
<1>4. \A a \in Ptr(tree) : new[a] = tree[a]
  BY <1>1, <1>2, <1>3 DEF Ptr
<1>5. new[Len(tree) + 1] = leaf /\ new[Len(tree) + 2] = parent /\ Len(new) = Len(tree) + 2
  BY <1>1, <1>2, <1>3
<1>6. new \in Seq(ToSet(new))
  <2>1. \A a \in 1 .. Len(new) : new[a] \in ToSet(new)
    BY <1>3 DEF ToSet
  <2>2. new = [ a \in 1 .. Len(new) |-> new[a] ] /\ Len(new) \in Nat
    BY <1>1, <1>3
  <2> QED
    BY <2>1, <2>2
<1>7. \A a \in Ptr(new) : DOMAIN new[a] = NodeFields
  <2>1. \A a \in Ptr(new) : a \in Ptr(tree) \/ a = Len(tree) + 1 \/ a = Len(tree) + 2
    BY <1>1, <1>5 DEF Ptr
  <2> QED
    BY <1>4, <1>5, <2>1 DEF IsTree
<1> QED
  BY <1>3, <1>4, <1>5, <1>6, <1>7 DEF IsTree

-----------------------------------------------------------------------------
(* Pushing down.                                                           *)

\* A node with the number of the n-th value at the end, and between it, curr and its
\* parent so far another one.
PushedDown(old, new, curr, value, n) ==
  LET grand == old[curr].parent
      leaf  == Len(old) + 1
      up    == Len(old) + 2
  IN  /\ IsTree(new) /\ Len(new) = Len(old) + 2
      /\ new[leaf] = Leaf(value, n, up)
      /\ new[up] = Internal(curr, leaf, old[curr].depth + 1, grand)
      /\ \A a \in Ptr(old) :
           /\ new[a].hash = old[a].hash /\ new[a].depth = old[a].depth
           /\ new[a].leftChild = old[a].leftChild
           /\ new[a].rightChild = IF a = grand THEN up ELSE old[a].rightChild
           /\ new[a].parent = IF a = curr THEN up ELSE old[a].parent

\* What PushDown does to the nodes before hashes are refreshed.
LEMMA PushDownPushesDown ==
  ASSUME NEW old, IsTree(old), NEW curr \in Ptr(old), old[curr].parent \in Ptr(old),
         NEW value, NEW n
  PROVE  LET grand == old[curr].parent
             leaf  == Len(old) + 1
             up    == Len(old) + 2
             new   == [old EXCEPT ![grand].rightChild = up, ![curr].parent = up] \o
                      << Leaf(value, n, up), Internal(curr, leaf, old[curr].depth + 1, grand) >>
         IN  PushedDown(old, new, curr, value, n)
<1> DEFINE grand == old[curr].parent
           leaf  == Len(old) + 1
           up    == Len(old) + 2
           right == [old[grand] EXCEPT !.rightChild = up]
           one   == [old EXCEPT ![grand] = right]
           moved == [one[curr] EXCEPT !.parent = up]
           two   == [one EXCEPT ![curr] = moved]
           first == Leaf(value, n, up)
           second == Internal(curr, leaf, old[curr].depth + 1, grand)
           new   == two \o << first, second >>
<1>1. DOMAIN first = NodeFields /\ DOMAIN second = NodeFields
  BY DEF Leaf, Internal, NodeFields
<1>2. \A a \in Ptr(old) : DOMAIN old[a] = NodeFields
  BY DEF IsTree
<1>3. /\ DOMAIN right = NodeFields /\ right.rightChild = up
      /\ right.hash = old[grand].hash /\ right.depth = old[grand].depth
      /\ right.leftChild = old[grand].leftChild /\ right.parent = old[grand].parent
  BY <1>2 DEF NodeFields
<1>4. Replacing(old, one, grand, right)
  BY DEF Replacing
<1> HIDE DEF right, one, first, second
<1>5. /\ IsTree(one) /\ Len(one) = Len(old) /\ one[grand] = right
      /\ \A a \in Ptr(old) : a # grand => one[a] = old[a]
  BY <1>3, <1>4, ReplaceNode
<1>6. Ptr(one) = Ptr(old) /\ DOMAIN one[curr] = NodeFields
  BY <1>5 DEF Ptr, IsTree
<1>7. /\ DOMAIN moved = NodeFields /\ moved.parent = up
      /\ moved.hash = one[curr].hash /\ moved.depth = one[curr].depth
      /\ moved.leftChild = one[curr].leftChild /\ moved.rightChild = one[curr].rightChild
  BY <1>6 DEF NodeFields
<1>8. Replacing(one, two, curr, moved)
  BY DEF Replacing
<1> HIDE DEF moved, two
<1>9. /\ IsTree(two) /\ Len(two) = Len(old) /\ two[curr] = moved
      /\ \A a \in Ptr(old) : a # curr => two[a] = one[a]
  BY <1>5, <1>6, <1>7, <1>8, ReplaceNode
<1>10. /\ IsTree(new) /\ Len(new) = Len(old) + 2
       /\ new[leaf] = first /\ new[up] = second
       /\ \A a \in Ptr(two) : new[a] = two[a]
  <2>1. Extending(two, new, first, second)
    BY DEF Extending
  <2> HIDE DEF new
  <2> QED
    BY <1>1, <1>9, <2>1, TwoMoreNodes
<1> HIDE DEF new
<1>11. Ptr(two) = Ptr(old)
  BY <1>9 DEF Ptr
<1>12. ASSUME NEW a \in Ptr(old)
       PROVE  /\ new[a].hash = old[a].hash /\ new[a].depth = old[a].depth
              /\ new[a].leftChild = old[a].leftChild
              /\ new[a].rightChild = IF a = grand THEN up ELSE old[a].rightChild
              /\ new[a].parent = IF a = curr THEN up ELSE old[a].parent
  <2> HIDE DEF grand, up
  <2>1. new[a] = two[a]
    BY <1>10, <1>11
  <2>2. /\ one[a].hash = old[a].hash /\ one[a].depth = old[a].depth
        /\ one[a].leftChild = old[a].leftChild /\ one[a].parent = old[a].parent
        /\ one[a].rightChild = IF a = grand THEN up ELSE old[a].rightChild
    BY <1>3, <1>5
  <2> QED
    BY <1>7, <1>9, <2>1, <2>2
<1>13. new = [old EXCEPT ![grand].rightChild = up, ![curr].parent = up] \o << first, second >>
  BY DEF new, two, moved, one, right
<1>14. PushedDown(old, new, curr, value, n)
  BY <1>10, <1>12 DEF PushedDown, first, second
<1> QED
  BY <1>13, <1>14 DEF first, second

\* Where the values of the nodes begin then.
PushedLo(old, lo, n, curr) ==
  [ a \in 1 .. Len(old) + 2 |->
      IF a = Len(old) + 1 THEN n ELSE IF a = Len(old) + 2 THEN lo[curr] ELSE lo[a] ]

\* The nodes that get the new value too: those on the right edge above curr.
Gains(old, lo, size, n, curr, a) == OnSpine(lo, size, n, a) /\ old[curr].depth < old[a].depth

\* How many values they have then.
PushedSize(old, lo, size, n, curr) ==
  [ a \in 1 .. Len(old) + 2 |->
      IF a = Len(old) + 1 THEN 1
      ELSE IF a = Len(old) + 2 THEN size[curr] + 1
      ELSE IF Gains(old, lo, size, n, curr, a) THEN size[a] + 1 ELSE size[a] ]

\* A node to push down.
CanPushDown(old, top, n, lo, size, curr) ==
  /\ TreeOK(old, top, n, lo, size) /\ n + 1 <= MaxLeaves
  /\ curr \in Ptr(old) /\ OnSpine(lo, size, n, curr) /\ size[curr] = 2 ^ old[curr].depth
  /\ curr # top /\ old[curr].depth + 1 # old[old[curr].parent].depth

\* The parent so far, and what is above it.
LEMMA AbovePushDownPoint ==
  ASSUME NEW old, NEW top, NEW n, NEW lo, NEW size, NEW curr,
         CanPushDown(old, top, n, lo, size, curr)
  PROVE  LET grand == old[curr].parent
         IN  /\ grand \in Ptr(old) /\ OnSpine(lo, size, n, grand)
             /\ old[grand].rightChild = curr /\ old[curr].depth + 1 < old[grand].depth
             /\ Gains(old, lo, size, n, curr, grand)
             /\ \A a \in Ptr(old) :
                  Gains(old, lo, size, n, curr, a) => old[grand].depth <= old[a].depth
<1> DEFINE grand == old[curr].parent
<1>1. curr \in Ptr(old) /\ TreeOK(old, top, n, lo, size) /\ OnSpine(lo, size, n, curr)
  BY DEF CanPushDown
<1>2. grand # Nil
  BY <1>1 DEF CanPushDown, TreeOK, UpOK
<1>3. /\ grand \in Ptr(old) /\ OnSpine(lo, size, n, grand)
      /\ old[grand].rightChild = curr /\ old[curr].depth < old[grand].depth
  BY <1>1, <1>2, SpineUp
<1>4. \A a \in Ptr(old) : old[a].depth \in Nat
  BY <1>1 DEF TreeOK, NumbersOK
<1>5. old[curr].depth + 1 # old[grand].depth
  BY DEF CanPushDown
<1> HIDE DEF grand
<1>6. old[curr].depth + 1 < old[grand].depth
  BY <1>1, <1>3, <1>4, <1>5
<1>7. SpineOK(old, lo, size, n)
  BY <1>1 DEF TreeOK
<1>8. ASSUME NEW a \in Ptr(old), Gains(old, lo, size, n, curr, a)
      PROVE  old[grand].depth <= old[a].depth
  <2>1. OnSpine(lo, size, n, a) /\ old[curr].depth < old[a].depth
    BY <1>8 DEF Gains
  <2>2. old[a].depth < old[grand].depth => old[a].depth <= old[curr].depth
    BY <1>3, <1>7, <2>1 DEF SpineOK
  <2> QED
    BY <1>1, <1>3, <1>4, <2>1, <2>2
<1> QED
  BY <1>3, <1>6, <1>8 DEF grand, Gains

\* Not all places of the right children above are taken: there is one for the value.
LEMMA PlaceAbove ==
  ASSUME NEW old, NEW top, NEW n, NEW lo, NEW size, NEW curr,
         CanPushDown(old, top, n, lo, size, curr),
         NEW a \in Ptr(old), Gains(old, lo, size, n, curr, a), a # old[curr].parent
  PROVE  LET left  == old[a].leftChild
             right == old[a].rightChild
         IN  /\ right \in Ptr(old) /\ Gains(old, lo, size, n, curr, right)
             /\ size[right] + 1 <= size[left]
<1> DEFINE grand == old[curr].parent
           left  == old[a].leftChild
           right == old[a].rightChild
           d     == old[curr].depth
           e     == old[grand].depth
<1>1. /\ grand \in Ptr(old) /\ OnSpine(lo, size, n, grand)
      /\ old[grand].rightChild = curr /\ d + 1 < e /\ e <= old[a].depth
  BY AbovePushDownPoint
<1>2. OnSpine(lo, size, n, a) /\ d < old[a].depth
  BY DEF Gains
<1>3. TreeOK(old, top, n, lo, size) /\ curr \in Ptr(old) /\ size[curr] = 2 ^ d
  BY DEF CanPushDown
<1> HIDE DEF grand
<1>4. SpineOK(old, lo, size, n) /\ InternalOK(old, lo, size, a) /\ InternalOK(old, lo, size, grand)
  BY <1>1, <1>3 DEF TreeOK
<1>5. \A b \in Ptr(old) : /\ old[b].depth \in Nat /\ old[b].depth < size[b]
                          /\ size[b] \in Nat \ {0} /\ size[b] <= MaxLeaves
                          /\ lo[b] \in Nat
  BY <1>3, MaxLeavesAssumption DEF TreeOK, NumbersOK
<1>6. old[a].depth # 0 /\ e # 0 /\ e < old[a].depth
  <2>1. old[a].depth # e
    BY <1>1, <1>2, <1>4 DEF SpineOK, grand
  <2> QED
    BY <1>1, <1>3, <1>5, <2>1
<1>7. /\ left \in Ptr(old) /\ right \in Ptr(old)
      /\ old[left].depth + 1 = old[a].depth /\ old[right].depth < old[a].depth
      /\ size[left] = 2 ^ old[left].depth
      /\ size[a] = size[left] + size[right] /\ lo[right] = lo[a] + size[left]
  BY <1>4, <1>6 DEF InternalOK
<1>8. OnSpine(lo, size, n, right)
  BY <1>2, <1>5, <1>7 DEF OnSpine
<1>9. e <= old[right].depth
  BY <1>1, <1>2, <1>4, <1>6 DEF SpineOK
<1>10. Gains(old, lo, size, n, curr, right)
  BY <1>1, <1>3, <1>5, <1>7, <1>8, <1>9 DEF Gains
<1> DEFINE p == 2 ^ d
           q == 2 ^ (e - 1)
           r == 2 ^ old[right].depth
           l == 2 ^ old[left].depth
<1>11. size[grand] = q + p /\ 2 ^ e = q + q
  <2> DEFINE side == old[grand].leftChild
  <2>1. /\ side \in Ptr(old) /\ old[side].depth + 1 = e /\ size[side] = 2 ^ old[side].depth
        /\ size[grand] = size[side] + size[curr]
    BY <1>1, <1>4, <1>6 DEF InternalOK
  <2> HIDE DEF side
  <2>2. old[side].depth = e - 1 /\ e - 1 \in 0 .. MaxLeaves
    BY <1>5, <2>1, MaxLeavesAssumption
  <2>3. 2 ^ (e - 1 + 1) = 2 * q /\ q \in Nat
    BY <2>2, Powers
  <2>4. e - 1 + 1 = e /\ 2 * q = q + q
    <3> HIDE DEF q
    <3> QED
      BY <1>1, <1>5, <2>3
  <2> QED
    BY <1>3, <2>1, <2>2, <2>3, <2>4
<1>12. p \in Nat \ {0} /\ q \in Nat /\ r \in Nat /\ l \in Nat /\ p + 1 <= q
  <2>1. /\ d \in 0 .. MaxLeaves /\ e - 1 \in 0 .. MaxLeaves
        /\ old[right].depth \in 0 .. MaxLeaves /\ old[left].depth \in 0 .. MaxLeaves
        /\ d + 1 \in 0 .. e - 1
    BY <1>1, <1>3, <1>5, <1>7, MaxLeavesAssumption
  <2>2. p \in Nat \ {0} /\ q \in Nat /\ r \in Nat /\ l \in Nat /\ 2 ^ (d + 1) = 2 * p
    BY <2>1, Powers
  <2>3. 2 ^ (d + 1) <= q
    BY <2>1, PowersGrow
  <2> DEFINE s == 2 ^ (d + 1)
  <2> HIDE DEF p, q, s
  <2> QED
    BY <2>2, <2>3 DEF s
<1>13. r <= l
  <2>1. old[left].depth \in 0 .. MaxLeaves /\ old[right].depth \in 0 .. old[left].depth
    BY <1>5, <1>7, MaxLeavesAssumption
  <2> QED
    BY <2>1, PowersGrow
<1>14. size[right] + 1 <= r
  <2>1. CASE right = grand
    <3>1. r = 2 ^ e
      BY <2>1
    <3> HIDE DEF p, q, r
    <3> QED
      BY <1>11, <1>12, <2>1, <3>1
  <2>2. CASE right # grand
    <3>1. e # old[right].depth
      BY <1>1, <1>4, <1>7, <1>8, <2>2 DEF SpineOK
    <3>2. e < old[right].depth
      BY <1>1, <1>5, <1>7, <1>9, <3>1
    <3>3. size[right] + 2 ^ e <= size[grand] + r
      BY <1>1, <1>4, <1>7, <1>8, <3>2 DEF SpineOK
    <3>4. size[right] \in Nat
      BY <1>5, <1>7
    <3> HIDE DEF p, q, r
    <3> QED
      BY <1>11, <1>12, <3>3, <3>4
  <2> QED
    BY <2>1, <2>2
<1>15. size[right] + 1 <= size[left]
  <2>1. size[left] = l /\ size[right] \in Nat
    BY <1>5, <1>7
  <2> HIDE DEF l, r, left, right
  <2> QED
    BY <1>12, <1>13, <1>14, <2>1
<1> QED
  BY <1>7, <1>10, <1>15

\* The tree stays in order.
LEMMA PushedDownIsTree ==
  ASSUME NEW old, NEW top, NEW n, NEW lo, NEW size, NEW curr,
         CanPushDown(old, top, n, lo, size, curr),
         NEW new, NEW value, PushedDown(old, new, curr, value, n)
  PROVE  TreeOK(new, top, n + 1, PushedLo(old, lo, n, curr), PushedSize(old, lo, size, n, curr))
<1> DEFINE grand == old[curr].parent
           leaf  == Len(old) + 1
           up    == Len(old) + 2
           d     == old[curr].depth
           lo2   == PushedLo(old, lo, n, curr)
           size2 == PushedSize(old, lo, size, n, curr)
           G(a)  == Gains(old, lo, size, n, curr, a)
<1>1. TreeOK(old, top, n, lo, size) /\ curr \in Ptr(old) /\ size[curr] = 2 ^ d /\ curr # top
  BY DEF CanPushDown
<1>2. /\ grand \in Ptr(old) /\ OnSpine(lo, size, n, grand) /\ old[grand].rightChild = curr
      /\ d + 1 < old[grand].depth /\ G(grand)
      /\ \A a \in Ptr(old) : G(a) => old[grand].depth <= old[a].depth
  BY AbovePushDownPoint
<1>3. /\ n \in Nat \ {0} /\ n + 1 \in 1 .. MaxLeaves /\ n <= Len(old) /\ Len(old) \in Nat
      /\ IsTree(old)
  BY <1>1, MaxLeavesAssumption DEF CanPushDown, TreeOK, IsTree
<1>4. \A a \in Ptr(old) :
        /\ lo[a] \in Nat /\ size[a] \in Nat \ {0} /\ lo[a] + size[a] <= n
        /\ old[a].depth \in Nat /\ old[a].depth < size[a] /\ a \in Nat \ {0}
  <2>1. NumbersOK(old, lo, size, n)
    BY <1>1 DEF TreeOK
  <2>2. Ptr(old) \subseteq Nat \ {0}
    BY <1>3 DEF Ptr
  <2> QED
    BY <2>1, <2>2 DEF NumbersOK
<1>5. /\ Ptr(new) = Ptr(old) \cup {leaf, up} /\ leaf \notin Ptr(old) /\ up \notin Ptr(old)
      /\ leaf # up /\ leaf # Nil /\ up # Nil /\ Len(new) = Len(old) + 2 /\ IsTree(new)
  <2>1. Len(new) = Len(old) + 2 /\ IsTree(new)
    BY DEF PushedDown
  <2> DEFINE m == Len(old)
  <2>2. m \in Nat /\ Ptr(old) = 1 .. m /\ Ptr(new) = 1 .. m + 2
    BY <1>3, <2>1 DEF Ptr
  <2> HIDE DEF m
  <2>3. 1 .. m + 2 = (1 .. m) \cup {m + 1, m + 2}
    BY <2>2
  <2> QED
    BY <2>1, <2>2, <2>3 DEF m, Nil
<1>6. /\ new[leaf].parent = up /\ new[leaf].depth = 0
      /\ new[leaf].leftChild = Nil /\ new[leaf].rightChild = Nil
      /\ new[up].parent = grand /\ new[up].depth = d + 1
      /\ new[up].leftChild = curr /\ new[up].rightChild = leaf
  BY DEF PushedDown, Leaf, Internal
<1>7. \A a \in Ptr(old) :
        /\ new[a].depth = old[a].depth /\ new[a].leftChild = old[a].leftChild
        /\ new[a].rightChild = IF a = grand THEN up ELSE old[a].rightChild
        /\ new[a].parent = IF a = curr THEN up ELSE old[a].parent
  BY DEF PushedDown
<1>8. /\ lo2[leaf] = n /\ size2[leaf] = 1
      /\ lo2[up] = lo[curr] /\ size2[up] = size[curr] + 1
      /\ \A a \in Ptr(old) : /\ lo2[a] = lo[a]
                             /\ G(a) => size2[a] = size[a] + 1
                             /\ ~ G(a) => size2[a] = size[a]
  BY <1>3 DEF PushedLo, PushedSize, Ptr
<1>9. \A a \in Ptr(old) : G(a) <=> OnSpine(lo, size, n, a) /\ d < old[a].depth
  BY DEF Gains
<1> HIDE DEF lo2, size2, leaf, up, G
<1>10. \A a \in Ptr(old) : OnSpine(lo2, size2, n + 1, a) <=> G(a)
  BY <1>3, <1>4, <1>8, <1>9 DEF OnSpine
<1>11. OnSpine(lo2, size2, n + 1, leaf) /\ OnSpine(lo2, size2, n + 1, up)
  <2>1. lo[curr] + size[curr] = n
    BY DEF CanPushDown, OnSpine
  <2>2. lo[curr] \in Nat /\ size[curr] \in Nat /\ n \in Nat
    BY <1>1, <1>3, <1>4
  <2>3. lo[curr] + (size[curr] + 1) = n + 1
    BY <2>1, <2>2
  <2> QED
    BY <1>8, <2>3 DEF OnSpine
<1> HIDE DEF grand, d
<1>12. NumbersOK(new, lo2, size2, n + 1)
  <2>1. lo2 \in [Ptr(new) -> Nat] /\ size2 \in [Ptr(new) -> Nat \ {0}]
    <3>1. ASSUME NEW a \in Ptr(new) PROVE lo2[a] \in Nat /\ size2[a] \in Nat \ {0}
      <4>1. CASE a = leaf
        BY <1>3, <1>8, <4>1
      <4>2. CASE a = up
        <5>1. lo[curr] \in Nat /\ size[curr] + 1 \in Nat \ {0}
          BY <1>1, <1>4
        <5> QED
          BY <1>8, <4>2, <5>1
      <4>3. CASE a \in Ptr(old)
        <5>1. lo[a] \in Nat /\ size[a] \in Nat \ {0} /\ size[a] + 1 \in Nat \ {0}
          BY <1>4, <4>3
        <5> QED
          BY <1>8, <4>3, <5>1
      <4> QED
        BY <1>5, <4>1, <4>2, <4>3
    <3>2. Ptr(new) = 1 .. Len(old) + 2
      BY <1>5 DEF Ptr
    <3>3. /\ lo2 = [ a \in 1 .. Len(old) + 2 |-> lo2[a] ]
          /\ size2 = [ a \in 1 .. Len(old) + 2 |-> size2[a] ]
      BY DEF lo2, size2, PushedLo, PushedSize
    <3> QED
      BY <3>1, <3>2, <3>3
  <2>2. ASSUME NEW a \in Ptr(new)
        PROVE  lo2[a] + size2[a] <= n + 1 /\ new[a].depth \in Nat /\ new[a].depth < size2[a]
    <3>1. CASE a = leaf
      <4>1. lo2[a] = n /\ size2[a] = 1 /\ new[a].depth = 0
        BY <1>6, <1>8, <3>1
      <4> QED
        BY <1>3, <4>1
    <3>2. CASE a = up
      <4>1. lo2[a] = lo[curr] /\ size2[a] = size[curr] + 1 /\ new[a].depth = d + 1
        BY <1>6, <1>8, <3>2
      <4>2. /\ lo[curr] \in Nat /\ size[curr] \in Nat /\ lo[curr] + size[curr] <= n
            /\ d \in Nat /\ d < size[curr]
        BY <1>1, <1>4 DEF d
      <4> QED
        BY <1>3, <4>1, <4>2
    <3>3. CASE a \in Ptr(old)
      BY <1>3, <1>4, <1>7, <1>8, <3>3
    <3> QED
      BY <1>5, <3>1, <3>2, <3>3
  <2> QED
    BY <2>1, <2>2 DEF NumbersOK
<1>13. ASSUME NEW a \in Ptr(new) PROVE LeafOK(new, size2, a)
  <2>1. CASE a = leaf
    BY <1>6, <1>8, <2>1 DEF LeafOK
  <2>2. CASE a = up
    BY <1>1, <1>4, <1>6, <2>2 DEF LeafOK, d
  <2>3. CASE a \in Ptr(old)
    <3>1. LeafOK(old, size, a)
      BY <1>1, <2>3 DEF TreeOK
    <3>2. old[a].depth = 0 => a # grand /\ ~ G(a)
      BY <1>1, <1>2, <1>4, <1>9, <2>3 DEF d
    <3> QED
      BY <1>7, <1>8, <2>3, <3>1, <3>2 DEF LeafOK
  <2> QED
    BY <1>5, <2>1, <2>2, <2>3
<1> DEFINE side == old[grand].leftChild
           p == 2 ^ d
           q == 2 ^ old[side].depth
\* Of the places above, curr and the left child below grand take half and less than half.
<1>14. /\ side \in Ptr(old) /\ p \in Nat \ {0} /\ q \in Nat /\ p + p <= q
       /\ 2 ^ (d + 1) = p + p /\ size[side] = q /\ size[curr] = p
       /\ \A a \in Ptr(old) : G(a) => size[a] + q <= p + 2 ^ old[a].depth
  <2>1. InternalOK(old, lo, size, grand) /\ SpineOK(old, lo, size, n)
    BY <1>1, <1>2 DEF TreeOK
  <2>2. old[grand].depth # 0
    BY <1>1, <1>2, <1>4 DEF d
  <2>3. /\ side \in Ptr(old) /\ old[side].depth + 1 = old[grand].depth
        /\ size[side] = q /\ size[grand] = size[side] + size[curr]
    BY <1>2, <2>1, <2>2 DEF InternalOK
  <2> HIDE DEF side
  <2>4. \A a \in Ptr(old) : old[a].depth \in 0 .. MaxLeaves
    BY <1>3, <1>4, MaxLeavesAssumption
  <2>5. d \in 0 .. MaxLeaves /\ d + 1 \in 0 .. old[side].depth
    BY <1>1, <1>2, <1>4, <2>3, <2>4 DEF d
  <2>6. /\ p \in Nat \ {0} /\ q \in Nat /\ 2 ^ (d + 1) = 2 * p
        /\ 2 ^ (old[side].depth + 1) = 2 * q
    BY <2>3, <2>4, <2>5, Powers
  <2>7. 2 ^ (d + 1) <= q
    BY <2>3, <2>4, <2>5, PowersGrow
  <2> DEFINE pp == 2 ^ (d + 1)
             qq == 2 ^ old[grand].depth
  <2>8. pp = 2 * p /\ qq = 2 * q /\ pp <= q
    BY <2>3, <2>6, <2>7
  <2> HIDE DEF p, q, pp, qq
  <2>9. p + p <= q /\ pp = p + p /\ qq = q + q
    BY <2>6, <2>8
  <2>10. ASSUME NEW a \in Ptr(old), G(a) PROVE size[a] + q <= p + 2 ^ old[a].depth
    <3>1. CASE a = grand
      <4>1. size[a] = q + p /\ 2 ^ old[a].depth = q + q
        BY <1>1, <2>3, <2>9, <3>1 DEF qq, p, d
      <4> QED
        BY <2>6, <4>1
    <3>2. CASE a # grand
      <4>1. OnSpine(lo, size, n, a)
        BY <1>9, <2>10
      <4>2. old[grand].depth # old[a].depth
        BY <1>2, <2>1, <3>2, <4>1 DEF SpineOK
      <4>3. old[grand].depth < old[a].depth
        BY <1>2, <1>4, <2>10, <4>2
      <4>4. size[a] + qq <= size[grand] + 2 ^ old[a].depth
        BY <1>2, <2>1, <4>1, <4>3 DEF SpineOK, qq
      <4> DEFINE r == 2 ^ old[a].depth
      <4>5. r \in Nat /\ size[a] \in Nat /\ size[grand] = q + p
        BY <1>1, <1>4, <2>3, <2>4, Powers DEF p, d
      <4>6. size[a] + (q + q) <= (q + p) + r
        BY <2>9, <4>4, <4>5
      <4> HIDE DEF r
      <4>7. size[a] + q <= p + r
        BY <2>6, <4>5, <4>6
      <4> QED
        BY <4>7 DEF r
    <3> QED
      BY <3>1, <3>2
  <2>11. size[curr] = p
    BY <1>1 DEF p, d
  <2> QED
    BY <2>3, <2>6, <2>9, <2>10, <2>11 DEF pp
<1> HIDE DEF p, q, side
<1>15. ASSUME NEW a \in Ptr(new) PROVE InternalOK(new, lo2, size2, a)
  <2>1. CASE a = leaf
    BY <1>6, <2>1 DEF InternalOK
  <2>2. CASE a = up
    <3>1. ~ G(curr)
      BY <1>1, <1>4, <1>9 DEF d
    <3>2. /\ new[curr].parent = up /\ new[curr].depth = d
          /\ size2[curr] = 2 ^ d /\ lo2[curr] = lo[curr]
      BY <1>1, <1>7, <1>8, <3>1 DEF d
    <3>3. lo2[leaf] = lo[curr] + size[curr]
      BY <1>8 DEF CanPushDown, OnSpine
    <3>4. size[curr] = size2[curr] /\ size[curr] \in Nat \ {0} /\ d \in Nat
      BY <1>1, <1>4, <1>8, <3>1 DEF d
    <3>5. 0 < d + 1 /\ 1 <= size[curr]
      BY <3>4
    <3> QED
      BY <1>1, <1>5, <1>6, <1>8, <2>2, <3>2, <3>3, <3>4, <3>5 DEF InternalOK
  <2>3. CASE a \in Ptr(old)
    <3> SUFFICES ASSUME old[a].depth # 0 PROVE InternalOK(new, lo2, size2, a)
      BY <1>7, <2>3 DEF InternalOK
    <3> DEFINE left  == old[a].leftChild
               right == old[a].rightChild
    <3>1. InternalOK(old, lo, size, a)
      BY <1>1, <2>3 DEF TreeOK
    <3>2. /\ left \in Ptr(old) /\ right \in Ptr(old)
          /\ old[left].parent = a /\ old[right].parent = a
          /\ old[left].depth + 1 = old[a].depth /\ old[right].depth < old[a].depth
          /\ size[left] = 2 ^ old[left].depth /\ size[right] <= size[left]
          /\ size[a] = size[left] + size[right]
          /\ lo[left] = lo[a] /\ lo[right] = lo[a] + size[left]
      BY <3>1 DEF InternalOK
    <3>3. left # curr
      <4>1. lo[left] # lo[right]
        BY <1>4, <2>3, <3>2
      <4>2. left = curr => a = grand
        BY <3>2 DEF grand
      <4>3. a = grand => right = curr
        BY <1>2
      <4> QED
        BY <4>1, <4>2, <4>3
    <3>4. ~ OnSpine(lo, size, n, left)
      <4>1. /\ lo[left] \in Nat /\ size[left] \in Nat /\ lo[right] = lo[left] + size[left]
            /\ lo[right] + size[right] <= n /\ size[right] \in Nat \ {0}
        BY <1>4, <3>2
      <4> HIDE DEF left, right
      <4>2. lo[left] + size[left] # n
        BY <1>3, <4>1
      <4> QED
        BY <4>2 DEF OnSpine
    <3>5. ~ G(left)
      BY <1>9, <3>2, <3>4
    <3>6. right = curr <=> a = grand
      BY <1>2, <3>2 DEF grand
    <3>7. /\ new[a].leftChild = left /\ new[left].parent = a /\ new[left].depth = old[left].depth
          /\ size2[left] = size[left] /\ lo2[left] = lo[a] /\ lo2[a] = lo[a]
          /\ new[a].depth = old[a].depth
      BY <1>7, <1>8, <2>3, <3>2, <3>3, <3>5
    <3>8. CASE a = grand
      <4>1. left = side /\ size[left] = q
        BY <1>14, <3>8 DEF side
      <4>2. right = curr /\ new[a].rightChild = up /\ new[up].parent = a
        BY <1>6, <1>7, <2>3, <3>6, <3>8
      <4>3. new[up].depth < new[a].depth
        BY <1>2, <1>6, <3>7, <3>8
      <4>4. size2[up] <= size2[left]
        BY <1>8, <1>14, <3>7, <4>1
      <4>5. size2[a] = size2[left] + size2[up] /\ lo2[up] = lo2[a] + size2[left]
        BY <1>2, <1>4, <1>8, <3>2, <3>7, <3>8, <4>2
      <4> HIDE DEF left, right
      <4> QED
        BY <1>5, <3>2, <3>7, <4>2, <4>3, <4>4, <4>5 DEF InternalOK
    <3>9. CASE a # grand
      <4>1. right # curr
        BY <3>6, <3>9
      <4>2. /\ new[a].rightChild = right /\ new[right].parent = a
            /\ new[right].depth = old[right].depth /\ lo2[right] = lo[right]
        BY <1>7, <1>8, <2>3, <3>2, <3>9, <4>1
      <4>3. CASE G(a)
        <5>1. G(right) /\ size[right] + 1 <= size[left]
          BY <2>3, <3>9, <4>3, PlaceAbove DEF G, grand
        <5>2. size2[a] = size[a] + 1 /\ size2[right] = size[right] + 1
          BY <1>8, <2>3, <3>2, <4>3, <5>1
        <5>3. size2[a] = size2[left] + size2[right]
          BY <1>4, <3>2, <3>7, <5>2
        <5> HIDE DEF left, right
        <5> QED
          BY <1>5, <3>2, <3>7, <4>2, <5>1, <5>2, <5>3 DEF InternalOK
      <4>4. CASE ~ G(a)
        <5>1. ~ G(right)
          <6>1. SUFFICES ASSUME G(right) PROVE FALSE
            OBVIOUS
          <6>2. OnSpine(lo, size, n, right) /\ d < old[right].depth
            BY <1>9, <3>2, <6>1
          <6>3. OnSpine(lo, size, n, a)
            BY <1>4, <2>3, <3>2, <6>2 DEF OnSpine
          <6>4. d < old[a].depth
            BY <1>1, <1>4, <2>3, <3>2, <6>2 DEF d
          <6> QED
            BY <1>9, <2>3, <4>4, <6>3, <6>4
        <5>2. size2[a] = size[a] /\ size2[right] = size[right]
          BY <1>8, <2>3, <3>2, <4>4, <5>1
        <5> HIDE DEF left, right
        <5> QED
          BY <1>5, <3>2, <3>7, <4>2, <5>2 DEF InternalOK
      <4> QED
        BY <4>3, <4>4
    <3> QED
      BY <3>8, <3>9
  <2> QED
    BY <1>5, <2>1, <2>2, <2>3
<1>16. top \in Ptr(old) /\ \A a \in Ptr(old) : old[a].depth <= old[top].depth
  BY <1>1 DEF TreeOK, UpOK
<1>17. ASSUME NEW a \in Ptr(new) PROVE UpOK(new, top, a)
  <2>1. /\ grand # Nil /\ new[grand].depth # 0 /\ new[grand].rightChild = up
        /\ d + 1 <= old[top].depth /\ new[top].depth = old[top].depth /\ old[top].depth \in Nat
    <3>1. /\ d \in Nat /\ old[grand].depth \in Nat /\ old[top].depth \in Nat
          /\ d + 1 < old[grand].depth /\ old[grand].depth <= old[top].depth
      BY <1>1, <1>2, <1>4, <1>16 DEF d
    <3>2. d + 1 <= old[top].depth /\ old[grand].depth # 0
      BY <3>1
    <3>3. /\ new[grand].depth = old[grand].depth /\ new[grand].rightChild = up
          /\ new[top].depth = old[top].depth
      BY <1>2, <1>7, <1>16
    <3>4. grand # Nil
      BY <1>2, <1>4 DEF Nil
    <3> QED
      BY <3>1, <3>2, <3>3, <3>4
  <2>2. CASE a = leaf
    <3>1. /\ new[a].parent = up /\ up \in Ptr(new) /\ up # Nil
          /\ new[up].depth # 0 /\ new[up].rightChild = leaf /\ new[a].depth = 0
      <4>1. d \in Nat
        BY <1>1, <1>4 DEF d
      <4>2. d + 1 # 0
        BY <4>1
      <4> QED
        BY <1>5, <1>6, <2>2, <4>2
    <3>2. leaf # top
      BY <1>5, <1>16
    <3>3. 0 <= new[top].depth
      BY <2>1
    <3> QED
      BY <2>2, <3>1, <3>2, <3>3 DEF UpOK
  <2>3. CASE a = up
    BY <1>2, <1>5, <1>6, <1>16, <2>1, <2>3 DEF UpOK
  <2>4. CASE a = curr
    BY <1>1, <1>4, <1>5, <1>6, <1>7, <1>16, <2>1, <2>4 DEF UpOK, d
  <2>5. CASE a \in Ptr(old) /\ a # curr
    <3> DEFINE parent == old[a].parent
    <3>1. UpOK(old, top, a)
      BY <1>1, <2>5 DEF TreeOK
    <3>2. /\ new[a].parent = parent /\ new[a].depth = old[a].depth
          /\ parent \in Ptr(old) \cup {Nil} /\ (parent = Nil <=> a = top)
          /\ parent # Nil => /\ old[parent].depth # 0
                             /\ a \in { old[parent].leftChild, old[parent].rightChild }
      BY <1>7, <2>5, <3>1 DEF UpOK
    <3> HIDE DEF parent
    <3>3. parent # Nil => /\ new[parent].depth # 0
                          /\ a \in { new[parent].leftChild, new[parent].rightChild }
      BY <1>2, <1>7, <2>5, <3>2
    <3> QED
      BY <1>5, <1>16, <2>1, <2>5, <3>2, <3>3 DEF UpOK
  <2> QED
    BY <1>5, <2>2, <2>3, <2>4, <2>5
<1>18. SpineOK(new, lo2, size2, n + 1)
  <2> SUFFICES ASSUME NEW a \in Ptr(new), NEW b \in Ptr(new),
                      OnSpine(lo2, size2, n + 1, a), OnSpine(lo2, size2, n + 1, b)
               PROVE  /\ new[a].depth = new[b].depth => a = b
                      /\ new[b].depth < new[a].depth =>
                           /\ new[b].depth <= new[new[a].rightChild].depth
                           /\ size2[a] + 2 ^ new[b].depth <= size2[b] + 2 ^ new[a].depth
    BY DEF SpineOK
  <2>1. SpineOK(old, lo, size, n)
    BY <1>1 DEF TreeOK
  <2>2. \A c \in Ptr(old) : G(c) => /\ new[c].depth = old[c].depth /\ size2[c] = size[c] + 1
                                   /\ d + 1 < old[c].depth /\ OnSpine(lo, size, n, c)
    <3>1. \A c \in Ptr(old) : G(c) => d + 1 < old[c].depth
      BY <1>1, <1>2, <1>4 DEF d
    <3> QED
      BY <1>7, <1>8, <1>9, <3>1
  <2>3. 2 ^ 0 = 1 /\ d \in Nat
    BY <1>1, <1>4, Powers DEF d
  <2>4. (a \in Ptr(old) => G(a)) /\ (b \in Ptr(old) => G(b))
    BY <1>10
  <2>5. CASE a = leaf
    <3>1. new[b].depth \in Nat /\ (b # leaf => new[b].depth # 0)
      BY <1>4, <1>5, <1>6, <2>2, <2>3, <2>4
    <3> QED
      BY <1>6, <2>5, <3>1
  <2>6. CASE a = up
    <3>1. CASE b = leaf
      <4>1. size2[a] + 1 <= size2[b] + 2 ^ (d + 1)
        BY <1>8, <1>14, <2>6, <3>1
      <4>2. new[a].depth = d + 1 /\ new[b].depth = 0 /\ new[new[a].rightChild].depth = 0
        BY <1>6, <2>6, <3>1
      <4>3. 2 ^ new[a].depth = 2 ^ (d + 1) /\ 2 ^ new[b].depth = 1
        BY <2>3, <4>2
      <4>4. new[b].depth <= new[new[a].rightChild].depth /\ new[a].depth # new[b].depth
        BY <2>3, <4>2
      <4> QED
        BY <4>1, <4>3, <4>4, Zenon
    <3>2. CASE b = up
      BY <1>6, <2>3, <2>6, <3>2
    <3>3. CASE b \in Ptr(old)
      BY <1>4, <1>6, <2>2, <2>3, <2>4, <2>6, <3>3
    <3> QED
      BY <1>5, <3>1, <3>2, <3>3
  <2>7. CASE a \in Ptr(old)
    <3>1. /\ new[a].depth = old[a].depth /\ size2[a] = size[a] + 1
          /\ d + 1 < old[a].depth /\ OnSpine(lo, size, n, a) /\ old[a].depth \in Nat
          /\ size[a] \in Nat
      BY <1>4, <2>2, <2>4, <2>7
    <3> DEFINE r == 2 ^ old[a].depth
    <3>2. r \in Nat /\ size[a] + q <= p + r
      <4>1. old[a].depth \in 0 .. MaxLeaves
        BY <1>3, <1>4, <2>7, MaxLeavesAssumption
      <4> QED
        BY <1>14, <2>4, <2>7, <4>1, Powers
    <3>3. d + 1 <= new[new[a].rightChild].depth
      <4>1. CASE a = grand
        BY <1>6, <1>7, <2>3, <2>7, <4>1
      <4>2. CASE a # grand
        <5> DEFINE right == old[a].rightChild
        <5>1. right \in Ptr(old) /\ G(right)
          BY <2>4, <2>7, <4>2, PlaceAbove DEF G, grand
        <5> HIDE DEF right
        <5>2. new[a].rightChild = right
          BY <1>7, <2>7, <4>2 DEF right
        <5>3. new[right].depth = old[right].depth /\ d + 1 < old[right].depth
          BY <2>2, <5>1
        <5> QED
          BY <1>4, <2>3, <5>1, <5>2, <5>3
      <4> QED
        BY <4>1, <4>2
    <3> HIDE DEF r
    <3>4. CASE b = leaf
      <4>1. size2[a] + 1 <= size2[b] + r
        BY <1>8, <1>14, <3>1, <3>2, <3>4
      <4>2. 0 <= new[new[a].rightChild].depth
        <5>1. new[new[a].rightChild].depth \in Nat
          <6>1. new[a].rightChild \in Ptr(new)
            BY <1>15, <2>3, <3>1 DEF InternalOK
          <6> QED
            BY <1>12, <6>1 DEF NumbersOK
        <5> QED
          BY <5>1
      <4>3. new[b].depth = 0 /\ 2 ^ new[b].depth = 1 /\ 2 ^ new[a].depth = r
        BY <1>6, <2>3, <3>1, <3>4 DEF r
      <4>4. new[b].depth <= new[new[a].rightChild].depth /\ new[a].depth # new[b].depth
        BY <2>3, <3>1, <4>2, <4>3
      <4> QED
        BY <4>1, <4>3, <4>4, Zenon
    <3>5. CASE b = up
      <4>1. size2[a] + (p + p) <= size2[b] + r
        BY <1>8, <1>14, <3>1, <3>2, <3>5
      <4>2. size2[a] + 2 ^ (d + 1) <= size2[b] + r
        BY <1>14, <4>1
      <4>3. new[b].depth = d + 1 /\ new[a].depth # new[b].depth
        BY <1>6, <2>3, <3>1, <3>5
      <4> QED
        BY <3>1, <3>3, <4>2, <4>3 DEF r
    <3>6. CASE b \in Ptr(old)
      <4>1. /\ new[b].depth = old[b].depth /\ size2[b] = size[b] + 1
            /\ d + 1 < old[b].depth /\ OnSpine(lo, size, n, b) /\ old[b].depth \in Nat
            /\ size[b] \in Nat
        BY <1>4, <2>2, <2>4, <3>6
      <4>2. new[a].depth = new[b].depth => a = b
        BY <2>1, <2>7, <3>1, <3>6, <4>1 DEF SpineOK
      <4>3. ASSUME old[b].depth < old[a].depth
            PROVE  /\ new[b].depth <= new[new[a].rightChild].depth
                   /\ size2[a] + 2 ^ new[b].depth <= size2[b] + 2 ^ new[a].depth
        <5> DEFINE right == old[a].rightChild
        <5>1. a # grand
          <6>1. old[grand].depth <= old[b].depth
            BY <1>2, <2>4, <3>6
          <6> QED
            BY <1>2, <1>4, <3>6, <4>3, <6>1
        <5>2. right \in Ptr(old) /\ new[a].rightChild = right /\ new[right].depth = old[right].depth
          <6>1. right \in Ptr(old)
            BY <2>4, <2>7, <5>1, PlaceAbove DEF G, grand
          <6> QED
            BY <1>7, <2>7, <5>1, <6>1
        <5> HIDE DEF right
        <5>3. /\ old[b].depth <= old[right].depth
              /\ size[a] + 2 ^ old[b].depth <= size[b] + r
          BY <2>1, <2>7, <3>1, <3>6, <4>1, <4>3 DEF SpineOK, right, r
        <5> DEFINE t == 2 ^ old[b].depth
        <5>4. t \in Nat
          <6>1. old[b].depth \in 0 .. MaxLeaves
            BY <1>3, <1>4, <3>6, MaxLeavesAssumption
          <6> QED
            BY <6>1, Powers
        <5>5. size[a] + t <= size[b] + r
          BY <5>3
        <5> HIDE DEF t
        <5>6. size2[a] + t <= size2[b] + r
          BY <3>1, <3>2, <4>1, <5>4, <5>5
        <5> QED
          BY <3>1, <4>1, <5>2, <5>3, <5>6 DEF t, r
      <4> QED
        BY <3>1, <4>1, <4>2, <4>3
    <3> QED
      BY <1>5, <3>4, <3>5, <3>6
  <2> QED
    BY <1>5, <2>5, <2>6, <2>7
<1>19. top \in Ptr(new) /\ lo2[top] = 0 /\ size2[top] = n + 1
  <2>1. top \in Ptr(old) /\ lo[top] = 0 /\ size[top] = n
    BY <1>1 DEF TreeOK
  <2>2. OnSpine(lo, size, n, top)
    BY <1>3, <2>1 DEF OnSpine
  <2>3. old[grand].depth <= old[top].depth
    BY <1>2, <1>16
  <2>4. d < old[top].depth
    BY <1>1, <1>2, <1>4, <2>1, <2>3 DEF d
  <2>5. G(top)
    BY <1>9, <2>1, <2>2, <2>4
  <2> QED
    BY <1>5, <1>8, <2>1, <2>5
<1>20. n + 1 <= Len(new)
  BY <1>3, <1>5
<1> QED
  BY <1>3, <1>5, <1>12, <1>13, <1>15, <1>17, <1>18, <1>19, <1>20 DEF TreeOK, lo2, size2

-----------------------------------------------------------------------------
(* Growing a root.                                                         *)

\* A root above the one so far and a node with the number of the n-th value.
GrownRoot(old, new, top, value, n) ==
  LET leaf == Len(old) + 1
      up   == Len(old) + 2
  IN  /\ IsTree(new) /\ Len(new) = Len(old) + 2
      /\ new[leaf] = Leaf(value, n, up)
      /\ new[up] = Internal(top, leaf, old[top].depth + 1, Nil)
      /\ \A a \in Ptr(old) :
           /\ new[a].hash = old[a].hash /\ new[a].depth = old[a].depth
           /\ new[a].leftChild = old[a].leftChild /\ new[a].rightChild = old[a].rightChild
           /\ new[a].parent = IF a = top THEN up ELSE old[a].parent

\* What GrowRoot does to the nodes before the root's hash is computed.
LEMMA GrowRootGrows ==
  ASSUME NEW old, IsTree(old), NEW top \in Ptr(old), NEW value, NEW n
  PROVE  LET leaf  == Len(old) + 1
             up    == Len(old) + 2
             new   == [old EXCEPT ![top].parent = up] \o
                      << Leaf(value, n, up), Internal(top, leaf, old[top].depth + 1, Nil) >>
         IN  GrownRoot(old, new, top, value, n)
<1> DEFINE leaf  == Len(old) + 1
           up    == Len(old) + 2
           moved == [old[top] EXCEPT !.parent = up]
           one   == [old EXCEPT ![top] = moved]
           first == Leaf(value, n, up)
           second == Internal(top, leaf, old[top].depth + 1, Nil)
           new   == one \o << first, second >>
<1>1. DOMAIN first = NodeFields /\ DOMAIN second = NodeFields
  BY DEF Leaf, Internal, NodeFields
<1>2. DOMAIN old[top] = NodeFields
  BY DEF IsTree
<1>3. /\ DOMAIN moved = NodeFields /\ moved.parent = up
      /\ moved.hash = old[top].hash /\ moved.depth = old[top].depth
      /\ moved.leftChild = old[top].leftChild /\ moved.rightChild = old[top].rightChild
  BY <1>2 DEF NodeFields
<1>4. Replacing(old, one, top, moved)
  BY DEF Replacing
<1> HIDE DEF moved, one, first, second
<1>5. /\ IsTree(one) /\ Len(one) = Len(old) /\ one[top] = moved
      /\ \A a \in Ptr(old) : a # top => one[a] = old[a]
  BY <1>3, <1>4, ReplaceNode
<1>6. /\ IsTree(new) /\ Len(new) = Len(old) + 2
      /\ new[leaf] = first /\ new[up] = second
      /\ \A a \in Ptr(one) : new[a] = one[a]
  <2>1. Extending(one, new, first, second)
    BY DEF Extending
  <2> HIDE DEF new
  <2> QED
    BY <1>1, <1>5, <2>1, TwoMoreNodes
<1> HIDE DEF new
<1>7. Ptr(one) = Ptr(old)
  BY <1>5 DEF Ptr
<1>8. ASSUME NEW a \in Ptr(old)
      PROVE  /\ new[a].hash = old[a].hash /\ new[a].depth = old[a].depth
             /\ new[a].leftChild = old[a].leftChild /\ new[a].rightChild = old[a].rightChild
             /\ new[a].parent = IF a = top THEN up ELSE old[a].parent
  <2> HIDE DEF up
  <2> QED
    BY <1>3, <1>5, <1>6, <1>7
<1>9. new = [old EXCEPT ![top].parent = up] \o << first, second >>
  BY DEF new, one, moved
<1>10. GrownRoot(old, new, top, value, n)
  BY <1>6, <1>8 DEF GrownRoot, first, second
<1> QED
  BY <1>9, <1>10 DEF first, second

\* Where the values of the nodes begin then.
GrownLo(old, lo, n) ==
  [ a \in 1 .. Len(old) + 2 |->
      IF a = Len(old) + 1 THEN n ELSE IF a = Len(old) + 2 THEN 0 ELSE lo[a] ]

\* How many values they have then.
GrownSize(old, size, n) ==
  [ a \in 1 .. Len(old) + 2 |->
      IF a = Len(old) + 1 THEN 1 ELSE IF a = Len(old) + 2 THEN n + 1 ELSE size[a] ]

\* It is a tree of one value more.
LEMMA GrownRootIsTree ==
  ASSUME NEW old, NEW top, NEW n, NEW lo, NEW size, TreeOK(old, top, n, lo, size),
         n + 1 <= MaxLeaves, n = 2 ^ old[top].depth,
         NEW new, NEW value, GrownRoot(old, new, top, value, n)
  PROVE  TreeOK(new, Len(old) + 2, n + 1, GrownLo(old, lo, n), GrownSize(old, size, n))
<1> DEFINE leaf  == Len(old) + 1
           up    == Len(old) + 2
           d     == old[top].depth
           lo2   == GrownLo(old, lo, n)
           size2 == GrownSize(old, size, n)
<1>1. top \in Ptr(old) /\ lo[top] = 0 /\ size[top] = n
  BY DEF TreeOK
<1>2. /\ n \in Nat \ {0} /\ n + 1 \in 1 .. MaxLeaves /\ n <= Len(old) /\ Len(old) \in Nat
  BY MaxLeavesAssumption DEF TreeOK, IsTree
<1>3. \A a \in Ptr(old) :
        /\ lo[a] \in Nat /\ size[a] \in Nat \ {0} /\ lo[a] + size[a] <= n
        /\ old[a].depth \in Nat /\ old[a].depth < size[a] /\ a \in Nat \ {0}
        /\ old[a].depth <= d
  <2>1. NumbersOK(old, lo, size, n) /\ \A a \in Ptr(old) : UpOK(old, top, a)
    BY DEF TreeOK
  <2>2. Ptr(old) \subseteq Nat \ {0}
    BY <1>2 DEF Ptr
  <2> QED
    BY <2>1, <2>2 DEF NumbersOK, UpOK
<1>4. /\ Ptr(new) = Ptr(old) \cup {leaf, up} /\ leaf \notin Ptr(old) /\ up \notin Ptr(old)
      /\ leaf # up /\ leaf # Nil /\ up # Nil /\ Len(new) = Len(old) + 2 /\ IsTree(new)
  <2>1. Len(new) = Len(old) + 2 /\ IsTree(new)
    BY DEF GrownRoot
  <2> DEFINE m == Len(old)
  <2>2. m \in Nat /\ Ptr(old) = 1 .. m /\ Ptr(new) = 1 .. m + 2
    BY <1>2, <2>1 DEF Ptr
  <2> HIDE DEF m
  <2>3. 1 .. m + 2 = (1 .. m) \cup {m + 1, m + 2}
    BY <2>2
  <2> QED
    BY <2>1, <2>2, <2>3 DEF m, Nil
<1>5. /\ new[leaf].parent = up /\ new[leaf].depth = 0
      /\ new[leaf].leftChild = Nil /\ new[leaf].rightChild = Nil
      /\ new[up].parent = Nil /\ new[up].depth = d + 1
      /\ new[up].leftChild = top /\ new[up].rightChild = leaf
  BY DEF GrownRoot, Leaf, Internal
<1>6. \A a \in Ptr(old) :
        /\ new[a].depth = old[a].depth
        /\ new[a].leftChild = old[a].leftChild /\ new[a].rightChild = old[a].rightChild
        /\ new[a].parent = IF a = top THEN up ELSE old[a].parent
  BY DEF GrownRoot
<1>7. /\ lo2[leaf] = n /\ size2[leaf] = 1 /\ lo2[up] = 0 /\ size2[up] = n + 1
      /\ \A a \in Ptr(old) : lo2[a] = lo[a] /\ size2[a] = size[a]
  BY <1>2 DEF GrownLo, GrownSize, Ptr
<1> HIDE DEF lo2, size2, leaf, up, d
<1>8. d \in Nat /\ d < n /\ n = 2 ^ d
  BY <1>1, <1>3 DEF d
<1>9. \A a \in Ptr(new) : OnSpine(lo2, size2, n + 1, a) <=> a \in {leaf, up}
  BY <1>2, <1>3, <1>4, <1>7 DEF OnSpine
<1>10. NumbersOK(new, lo2, size2, n + 1)
  <2>1. ASSUME NEW a \in Ptr(new) PROVE lo2[a] \in Nat /\ size2[a] \in Nat \ {0}
    <3>1. CASE a = leaf
      BY <1>2, <1>7, <3>1
    <3>2. CASE a = up
      BY <1>2, <1>7, <3>2
    <3>3. CASE a \in Ptr(old)
      BY <1>3, <1>7, <3>3
    <3> QED
      BY <1>4, <3>1, <3>2, <3>3
  <2>2. Ptr(new) = 1 .. Len(old) + 2
    BY <1>4 DEF Ptr
  <2>3. /\ lo2 = [ a \in 1 .. Len(old) + 2 |-> lo2[a] ]
        /\ size2 = [ a \in 1 .. Len(old) + 2 |-> size2[a] ]
    BY DEF lo2, size2, GrownLo, GrownSize
  <2>4. lo2 \in [Ptr(new) -> Nat] /\ size2 \in [Ptr(new) -> Nat \ {0}]
    BY <2>1, <2>2, <2>3
  <2>5. ASSUME NEW a \in Ptr(new)
        PROVE  lo2[a] + size2[a] <= n + 1 /\ new[a].depth \in Nat /\ new[a].depth < size2[a]
    <3>1. CASE a = leaf
      <4>1. lo2[a] = n /\ size2[a] = 1 /\ new[a].depth = 0
        BY <1>5, <1>7, <3>1
      <4> QED
        BY <1>2, <4>1
    <3>2. CASE a = up
      <4>1. lo2[a] = 0 /\ size2[a] = n + 1 /\ new[a].depth = d + 1
        BY <1>5, <1>7, <3>2
      <4> QED
        BY <1>2, <1>8, <4>1
    <3>3. CASE a \in Ptr(old)
      <4>1. /\ lo2[a] = lo[a] /\ size2[a] = size[a] /\ new[a].depth = old[a].depth
        BY <1>6, <1>7, <3>3
      <4>2. /\ lo[a] \in Nat /\ size[a] \in Nat /\ lo[a] + size[a] <= n
            /\ old[a].depth \in Nat /\ old[a].depth < size[a] /\ n \in Nat
        BY <1>2, <1>3, <3>3
      <4>3. lo[a] + size[a] <= n + 1
        BY <4>2
      <4> QED
        BY <4>1, <4>2, <4>3
    <3> QED
      BY <1>4, <3>1, <3>2, <3>3
  <2> QED
    BY <2>4, <2>5 DEF NumbersOK
<1>11. ASSUME NEW a \in Ptr(new) PROVE LeafOK(new, size2, a)
  <2>1. CASE a = leaf
    BY <1>5, <1>7, <2>1 DEF LeafOK
  <2>2. CASE a = up
    BY <1>5, <1>8, <2>2 DEF LeafOK
  <2>3. CASE a \in Ptr(old)
    <3>1. LeafOK(old, size, a)
      BY <2>3 DEF TreeOK
    <3> QED
      BY <1>6, <1>7, <2>3, <3>1 DEF LeafOK
  <2> QED
    BY <1>4, <2>1, <2>2, <2>3
<1>12. ASSUME NEW a \in Ptr(new) PROVE InternalOK(new, lo2, size2, a)
  <2>1. CASE a = leaf
    BY <1>5, <2>1 DEF InternalOK
  <2>2. CASE a = up
    <3>1. /\ new[top].parent = up /\ new[top].depth = d
          /\ size2[top] = n /\ lo2[top] = 0
      BY <1>1, <1>6, <1>7 DEF d
    <3>2. 0 < d + 1 /\ 1 <= n /\ 0 + n = n
      <4>1. d \in Nat /\ n \in Nat \ {0}
        BY <1>2, <1>8
      <4> QED
        BY <4>1
    <3>3. /\ new[a].leftChild = top /\ new[a].rightChild = leaf /\ new[a].depth = d + 1
          /\ top \in Ptr(new) /\ leaf \in Ptr(new)
          /\ new[leaf].parent = a /\ new[top].parent = a /\ new[leaf].depth = 0
      BY <1>1, <1>4, <1>5, <2>2, <3>1
    <3>4. /\ lo2[a] = 0 /\ size2[a] = n + 1 /\ size2[leaf] = 1 /\ lo2[leaf] = n
      BY <1>7, <2>2
    <3>5. size2[top] = 2 ^ new[top].depth
      BY <1>8, <3>1
    <3>6. /\ new[leaf].depth < new[a].depth /\ size2[leaf] <= size2[top]
          /\ lo2[leaf] = lo2[a] + size2[top]
      BY <3>1, <3>2, <3>3, <3>4
    <3>7. new[top].depth + 1 = new[a].depth /\ size2[a] = size2[top] + size2[leaf]
          /\ lo2[top] = lo2[a]
      BY <3>1, <3>3, <3>4
    <3> QED
      BY <3>3, <3>5, <3>6, <3>7 DEF InternalOK
  <2>3. CASE a \in Ptr(old)
    <3> SUFFICES ASSUME old[a].depth # 0 PROVE InternalOK(new, lo2, size2, a)
      BY <1>6, <2>3 DEF InternalOK
    <3> DEFINE left  == old[a].leftChild
               right == old[a].rightChild
    <3>1. InternalOK(old, lo, size, a)
      BY <2>3 DEF TreeOK
    <3>2. /\ left \in Ptr(old) /\ right \in Ptr(old)
          /\ old[left].parent = a /\ old[right].parent = a
          /\ old[left].depth + 1 = old[a].depth /\ old[right].depth < old[a].depth
          /\ size[left] = 2 ^ old[left].depth /\ size[right] <= size[left]
          /\ size[a] = size[left] + size[right]
          /\ lo[left] = lo[a] /\ lo[right] = lo[a] + size[left]
      BY <3>1 DEF InternalOK
    <3>3. left # top /\ right # top
      BY <1>1, <1>3, <2>3, <3>2 DEF d
    <3>4. /\ new[a].leftChild = left /\ new[a].rightChild = right
          /\ new[left].parent = a /\ new[right].parent = a
          /\ new[left].depth = old[left].depth /\ new[right].depth = old[right].depth
          /\ new[a].depth = old[a].depth
          /\ size2[left] = size[left] /\ size2[right] = size[right] /\ size2[a] = size[a]
          /\ lo2[left] = lo[left] /\ lo2[right] = lo[right] /\ lo2[a] = lo[a]
      BY <1>6, <1>7, <2>3, <3>2, <3>3
    <3> HIDE DEF left, right
    <3> QED
      BY <1>4, <3>2, <3>4 DEF InternalOK
  <2> QED
    BY <1>4, <2>1, <2>2, <2>3
<1>13. ASSUME NEW a \in Ptr(new) PROVE UpOK(new, up, a)
  <2>1. CASE a = leaf
    BY <1>4, <1>5, <1>8, <2>1 DEF UpOK
  <2>2. CASE a = up
    BY <1>4, <1>5, <1>8, <2>2 DEF UpOK
  <2>3. CASE a = top
    BY <1>1, <1>4, <1>5, <1>6, <1>8, <2>3 DEF UpOK, d
  <2>4. CASE a \in Ptr(old) /\ a # top
    <3> DEFINE parent == old[a].parent
    <3>1. UpOK(old, top, a)
      BY <2>4 DEF TreeOK
    <3>2. /\ new[a].parent = parent /\ new[a].depth = old[a].depth
          /\ parent \in Ptr(old) /\ parent # Nil
          /\ old[parent].depth # 0
          /\ a \in { old[parent].leftChild, old[parent].rightChild }
      BY <1>6, <2>4, <3>1 DEF UpOK
    <3> HIDE DEF parent
    <3>3. /\ new[parent].depth # 0
          /\ a \in { new[parent].leftChild, new[parent].rightChild }
      BY <1>6, <3>2
    <3>4. new[a].depth <= new[up].depth /\ a # up
      BY <1>3, <1>4, <1>5, <1>8, <2>4, <3>2
    <3> QED
      BY <1>4, <3>2, <3>3, <3>4 DEF UpOK
  <2> QED
    BY <1>4, <2>1, <2>2, <2>3, <2>4
<1>14. SpineOK(new, lo2, size2, n + 1)
  <2> SUFFICES ASSUME NEW a \in {leaf, up}, NEW b \in {leaf, up}
               PROVE  /\ new[a].depth = new[b].depth => a = b
                      /\ new[b].depth < new[a].depth =>
                           /\ new[b].depth <= new[new[a].rightChild].depth
                           /\ size2[a] + 2 ^ new[b].depth <= size2[b] + 2 ^ new[a].depth
    BY <1>9 DEF SpineOK
  <2>1. CASE a = b
    BY <1>5, <1>8, <2>1
  <2>2. CASE a = leaf /\ b = up
    BY <1>5, <1>8, <2>2
  <2>3. CASE a = up /\ b = leaf
    <3> DEFINE r == 2 ^ (d + 1)
    <3>1. r = 2 * n /\ 2 ^ 0 = 1
      <4>1. d \in 0 .. MaxLeaves
        BY <1>2, <1>8, MaxLeavesAssumption
      <4> QED
        BY <1>8, <4>1, Powers
    <3>2. /\ new[a].depth = d + 1 /\ new[b].depth = 0 /\ new[new[a].rightChild].depth = 0
          /\ size2[a] = n + 1 /\ size2[b] = 1
      BY <1>5, <1>7, <2>3
    <3>3. 2 ^ new[a].depth = r /\ 2 ^ new[b].depth = 1
      BY <3>1, <3>2
    <3> HIDE DEF r
    <3>4. size2[a] + 1 <= size2[b] + r
      <4>1. n \in Nat \ {0} /\ r = 2 * n
        BY <1>2, <3>1
      <4>2. n + 1 + 1 <= 1 + r
        BY <4>1
      <4> QED
        BY <3>2, <4>2, Zenon
    <3>5. new[a].depth # new[b].depth /\ new[b].depth <= new[new[a].rightChild].depth
      BY <1>8, <3>2
    <3> QED
      BY <3>3, <3>4, <3>5, Zenon
  <2> QED
    BY <2>1, <2>2, <2>3
<1>15. up \in Ptr(new) /\ lo2[up] = 0 /\ size2[up] = n + 1 /\ n + 1 <= Len(new)
  BY <1>2, <1>4, <1>7
<1> QED
  BY <1>2, <1>4, <1>10, <1>11, <1>12, <1>13, <1>14, <1>15 DEF TreeOK, lo2, size2, up

-----------------------------------------------------------------------------
(* The hashes after an append.                                             *)

\* An append does not change the hashes of what was there before.
LEMMA HashOfAnotherValue ==
  ASSUME NEW old, NEW top, NEW n, NEW lo, NEW size, TreeOK(old, top, n, lo, size),
         NEW S, NEW values \in Seq(S), Len(values) = n, NEW value \in S,
         NEW a \in Ptr(old), HashOK(old, values, lo, a)
  PROVE  HashOK(old, Append(values, value), lo, a)
<1>1. /\ n \in Nat /\ lo[a] \in Nat /\ size[a] \in Nat \ {0} /\ lo[a] + size[a] <= n
  BY MaxLeavesAssumption DEF TreeOK, NumbersOK
<1>2. lo[a] + 1 \in 1 .. n
  BY <1>1
<1>3. Append(values, value)[lo[a] + 1] = values[lo[a] + 1]
  BY <1>2
<1> QED
  BY <1>3 DEF HashOK

\* Hashes are still to be refreshed from the new parent upwards only.
LEMMA PushedDownHashes ==
  ASSUME NEW old, NEW top, NEW n, NEW lo, NEW size, NEW curr,
         CanPushDown(old, top, n, lo, size, curr),
         NEW new, NEW value, PushedDown(old, new, curr, value, n),
         NEW S, NEW values \in Seq(S), Len(values) = n, value \in S,
         \A a \in Ptr(old) : HashOK(old, values, lo, a)
  PROVE  LET lo2   == PushedLo(old, lo, n, curr)
             size2 == PushedSize(old, lo, size, n, curr)
             leaf  == Len(old) + 1
             up    == Len(old) + 2
         IN  /\ leaf \in Ptr(new) /\ OnSpine(lo2, size2, n + 1, leaf) /\ new[leaf].depth = 0
             /\ up \in Ptr(new) /\ OnSpine(lo2, size2, n + 1, up) /\ new[up].depth # 0
             /\ \A a \in Ptr(new) :
                  \/ HashOK(new, Append(values, value), lo2, a)
                  \/ OnSpine(lo2, size2, n + 1, a) /\ new[up].depth <= new[a].depth
<1> DEFINE grand == old[curr].parent
           leaf  == Len(old) + 1
           up    == Len(old) + 2
           d     == old[curr].depth
           lo2   == PushedLo(old, lo, n, curr)
           size2 == PushedSize(old, lo, size, n, curr)
           values2 == Append(values, value)
           G(a)  == Gains(old, lo, size, n, curr, a)
<1>1. TreeOK(old, top, n, lo, size) /\ curr \in Ptr(old) /\ OnSpine(lo, size, n, curr)
  BY DEF CanPushDown
<1>2. G(grand)
  BY AbovePushDownPoint
<1>3. n \in Nat /\ Len(old) \in Nat
  BY <1>1, MaxLeavesAssumption DEF TreeOK, IsTree
<1>4. \A a \in Ptr(old) :
        lo[a] \in Nat /\ size[a] \in Nat \ {0} /\ old[a].depth \in Nat
  BY <1>1 DEF TreeOK, NumbersOK
<1>5. /\ Ptr(new) = Ptr(old) \cup {leaf, up}
      /\ leaf \notin Ptr(old) /\ up \notin Ptr(old) /\ leaf # up
  <2>1. Len(new) = Len(old) + 2
    BY DEF PushedDown
  <2> DEFINE m == Len(old)
  <2>2. m \in Nat /\ Ptr(old) = 1 .. m /\ Ptr(new) = 1 .. m + 2
    BY <1>3, <2>1 DEF Ptr
  <2> HIDE DEF m
  <2>3. 1 .. m + 2 = (1 .. m) \cup {m + 1, m + 2}
    BY <2>2
  <2> QED
    BY <2>2, <2>3 DEF m
<1>6. /\ new[leaf].depth = 0 /\ new[leaf].hash = LeafHash(value, n)
      /\ new[up].depth = d + 1
  BY DEF PushedDown, Leaf, Internal
<1>7. \A a \in Ptr(old) :
        /\ new[a].depth = old[a].depth /\ new[a].leftChild = old[a].leftChild
        /\ new[a].rightChild = IF a = grand THEN up ELSE old[a].rightChild
        /\ new[a].hash = old[a].hash
  BY DEF PushedDown
<1>8. /\ lo2[leaf] = n /\ size2[leaf] = 1
      /\ lo2[up] = lo[curr] /\ size2[up] = size[curr] + 1
      /\ \A a \in Ptr(old) : /\ lo2[a] = lo[a]
                             /\ G(a) => size2[a] = size[a] + 1
  BY <1>3 DEF PushedLo, PushedSize, Ptr
<1>9. \A a \in Ptr(old) : G(a) <=> OnSpine(lo, size, n, a) /\ d < old[a].depth
  BY DEF Gains
<1>10. values2[n + 1] = value /\ \A a \in Ptr(old) : HashOK(old, values2, lo, a)
  <2>1. values2[n + 1] = value
    OBVIOUS
  <2>2. \A a \in Ptr(old) : HashOK(old, values2, lo, a)
    BY <1>1, HashOfAnotherValue
  <2> QED
    BY <2>1, <2>2
<1> HIDE DEF lo2, size2, G, values2, leaf, up, d, grand
<1>11. OnSpine(lo2, size2, n + 1, leaf)
  BY <1>3, <1>8 DEF OnSpine
<1>12. OnSpine(lo2, size2, n + 1, up) /\ new[up].depth # 0
  <2>1. lo[curr] \in Nat /\ size[curr] \in Nat /\ d \in Nat /\ lo[curr] + size[curr] = n
    BY <1>1, <1>4 DEF OnSpine, d
  <2>2. lo[curr] + (size[curr] + 1) = n + 1 /\ d + 1 # 0
    BY <2>1
  <2> QED
    BY <1>6, <1>8, <2>2 DEF OnSpine
<1>13. ASSUME NEW a \in Ptr(new)
       PROVE  \/ HashOK(new, values2, lo2, a)
              \/ OnSpine(lo2, size2, n + 1, a) /\ new[up].depth <= new[a].depth
  <2>1. CASE a = leaf
    BY <1>6, <1>8, <1>10, <2>1 DEF HashOK
  <2>2. CASE a = up
    <3>1. d + 1 <= d + 1
      BY <1>1, <1>4 DEF d
    <3> QED
      BY <1>6, <1>12, <2>2, <3>1
  <2>3. CASE a \in Ptr(old) /\ G(a)
    <3>1. OnSpine(lo2, size2, n + 1, a)
      <4>1. lo[a] \in Nat /\ size[a] \in Nat /\ lo[a] + size[a] = n
        BY <1>4, <1>9, <2>3 DEF OnSpine
      <4>2. lo[a] + (size[a] + 1) = n + 1
        BY <4>1
      <4> QED
        BY <1>8, <2>3, <4>2 DEF OnSpine
    <3>2. d + 1 <= old[a].depth
      <4>1. d \in Nat /\ old[a].depth \in Nat /\ d < old[a].depth
        BY <1>1, <1>4, <1>9, <2>3 DEF d
      <4> QED
        BY <4>1
    <3> QED
      BY <1>6, <1>7, <2>3, <3>1, <3>2
  <2>4. CASE a \in Ptr(old) /\ ~ G(a)
    <3>1. /\ new[a].depth = old[a].depth /\ new[a].leftChild = old[a].leftChild
          /\ new[a].rightChild = old[a].rightChild /\ new[a].hash = old[a].hash
          /\ lo2[a] = lo[a]
      BY <1>2, <1>7, <1>8, <2>4
    <3>2. HashOK(old, values2, lo, a)
      BY <1>10, <2>4
    <3>3. CASE old[a].depth = 0
      BY <3>1, <3>2, <3>3 DEF HashOK
    <3>4. CASE old[a].depth # 0
      <4>1. old[a].leftChild \in Ptr(old) /\ old[a].rightChild \in Ptr(old)
        BY <1>1, <2>4, <3>4 DEF TreeOK, InternalOK
      <4>2. /\ new[old[a].leftChild].hash = old[old[a].leftChild].hash
            /\ new[old[a].rightChild].hash = old[old[a].rightChild].hash
        BY <1>7, <4>1
      <4> QED
        BY <3>1, <3>2, <3>4, <4>2 DEF HashOK
    <3> QED
      BY <3>3, <3>4
  <2> QED
    BY <1>5, <2>1, <2>2, <2>3, <2>4
<1> QED
  BY <1>5, <1>6, <1>11, <1>12, <1>13 DEF lo2, size2, values2, leaf, up

\* All hashes but the new root's are right.
LEMMA GrownRootHashes ==
  ASSUME NEW old, NEW top, NEW n, NEW lo, NEW size, TreeOK(old, top, n, lo, size),
         NEW new, NEW value, GrownRoot(old, new, top, value, n),
         NEW S, NEW values \in Seq(S), Len(values) = n, value \in S,
         \A a \in Ptr(old) : HashOK(old, values, lo, a)
  PROVE  LET lo2   == GrownLo(old, lo, n)
             size2 == GrownSize(old, size, n)
             leaf  == Len(old) + 1
             up    == Len(old) + 2
         IN  /\ leaf \in Ptr(new) /\ OnSpine(lo2, size2, n + 1, leaf) /\ new[leaf].depth = 0
             /\ up \in Ptr(new) /\ new[up].depth = old[top].depth + 1 /\ new[up].depth # 0
             /\ new[up].leftChild # up /\ new[up].rightChild # up
             /\ \A a \in Ptr(new) : a # up =>
                  /\ HashOK(new, Append(values, value), lo2, a)
                  /\ new[a].depth # 0 => new[a].leftChild # up /\ new[a].rightChild # up
<1> DEFINE leaf  == Len(old) + 1
           up    == Len(old) + 2
           lo2   == GrownLo(old, lo, n)
           size2 == GrownSize(old, size, n)
           values2 == Append(values, value)
<1>1. n \in Nat /\ Len(old) \in Nat /\ top \in Ptr(old) /\ old[top].depth \in Nat
  BY MaxLeavesAssumption DEF TreeOK, NumbersOK, IsTree
<1>2. /\ Ptr(new) = Ptr(old) \cup {leaf, up}
      /\ leaf \notin Ptr(old) /\ up \notin Ptr(old) /\ leaf # up
  <2>1. Len(new) = Len(old) + 2
    BY DEF GrownRoot
  <2> DEFINE m == Len(old)
  <2>2. m \in Nat /\ Ptr(old) = 1 .. m /\ Ptr(new) = 1 .. m + 2
    BY <1>1, <2>1 DEF Ptr
  <2> HIDE DEF m
  <2>3. 1 .. m + 2 = (1 .. m) \cup {m + 1, m + 2}
    BY <2>2
  <2> QED
    BY <2>2, <2>3 DEF m
<1>3. /\ new[leaf].depth = 0 /\ new[leaf].hash = LeafHash(value, n)
      /\ new[up].depth = old[top].depth + 1
      /\ new[up].leftChild = top /\ new[up].rightChild = leaf
  BY DEF GrownRoot, Leaf, Internal
<1>4. \A a \in Ptr(old) :
        /\ new[a].depth = old[a].depth /\ new[a].leftChild = old[a].leftChild
        /\ new[a].rightChild = old[a].rightChild /\ new[a].hash = old[a].hash
  BY DEF GrownRoot
<1>5. lo2[leaf] = n /\ size2[leaf] = 1 /\ \A a \in Ptr(old) : lo2[a] = lo[a]
  BY <1>1 DEF GrownLo, GrownSize, Ptr
<1>6. values2[n + 1] = value /\ \A a \in Ptr(old) : HashOK(old, values2, lo, a)
  <2>1. values2[n + 1] = value
    OBVIOUS
  <2>2. \A a \in Ptr(old) : HashOK(old, values2, lo, a)
    BY HashOfAnotherValue
  <2> QED
    BY <2>1, <2>2
<1> HIDE DEF lo2, size2, values2, leaf, up
<1>7. OnSpine(lo2, size2, n + 1, leaf)
  BY <1>1, <1>5 DEF OnSpine
<1>8. new[up].depth # 0 /\ new[up].leftChild # up /\ new[up].rightChild # up
  BY <1>1, <1>2, <1>3
<1>9. ASSUME NEW a \in Ptr(new), a # up
      PROVE  /\ HashOK(new, values2, lo2, a)
             /\ new[a].depth # 0 => new[a].leftChild # up /\ new[a].rightChild # up
  <2>1. CASE a = leaf
    BY <1>3, <1>5, <1>6, <2>1 DEF HashOK
  <2>2. CASE a \in Ptr(old)
    <3>1. /\ new[a].depth = old[a].depth /\ new[a].leftChild = old[a].leftChild
          /\ new[a].rightChild = old[a].rightChild /\ new[a].hash = old[a].hash
          /\ lo2[a] = lo[a]
      BY <1>4, <1>5, <2>2
    <3>2. HashOK(old, values2, lo, a)
      BY <1>6, <2>2
    <3>3. CASE old[a].depth = 0
      BY <3>1, <3>2, <3>3 DEF HashOK
    <3>4. CASE old[a].depth # 0
      <4>1. old[a].leftChild \in Ptr(old) /\ old[a].rightChild \in Ptr(old)
        BY <2>2, <3>4 DEF TreeOK, InternalOK
      <4>2. /\ new[old[a].leftChild].hash = old[old[a].leftChild].hash
            /\ new[old[a].rightChild].hash = old[old[a].rightChild].hash
        BY <1>4, <4>1
      <4> QED
        BY <1>2, <3>1, <3>2, <3>4, <4>1, <4>2 DEF HashOK
    <3> QED
      BY <3>3, <3>4
  <2> QED
    BY <1>2, <1>9, <2>1, <2>2
<1> QED
  BY <1>2, <1>3, <1>7, <1>8, <1>9 DEF lo2, size2, values2, leaf, up

\* Then the new root's hash is computed.
LEMMA RootHashUpdated ==
  ASSUME NEW tree, IsTree(tree), NEW up \in Ptr(tree), tree[up].depth # 0,
         tree[up].leftChild # up, tree[up].rightChild # up, NEW values, NEW lo,
         \A a \in Ptr(tree) : a # up =>
           /\ HashOK(tree, values, lo, a)
           /\ tree[a].depth # 0 => tree[a].leftChild # up /\ tree[a].rightChild # up,
         \A a \in Ptr(tree) : tree[a].depth # 0 =>
           tree[a].leftChild \in Ptr(tree) /\ tree[a].rightChild \in Ptr(tree)
  PROVE  \A a \in Ptr(tree) : HashOK(UpdateHash(tree, up), values, lo, a)
<1> DEFINE new == UpdateHash(tree, up)
<1>1. /\ SameShape(tree, new)
      /\ new[up].hash = Hash(tree[tree[up].leftChild].hash, tree[tree[up].rightChild].hash)
      /\ \A b \in Ptr(tree) : b # up => new[b].hash = tree[b].hash
  BY UpdateHashUpdates
<1> HIDE DEF new
<1>2. \A a \in Ptr(tree) :
        /\ new[a].depth = tree[a].depth
        /\ new[a].leftChild = tree[a].leftChild /\ new[a].rightChild = tree[a].rightChild
  BY <1>1 DEF SameShape
<1>3. ASSUME NEW a \in Ptr(tree) PROVE HashOK(new, values, lo, a)
  <2>1. CASE a = up
    BY <1>1, <1>2, <2>1 DEF HashOK
  <2>2. CASE a # up
    BY <1>1, <1>2, <2>2 DEF HashOK
  <2> QED
    BY <2>1, <2>2
<1> QED
  BY <1>3 DEF new

-----------------------------------------------------------------------------
(* The log.                                                                *)

\* The log is such a tree, its hashes are right and its last leaf is known.
LogTreeOK(lo, size) ==
  /\ TreeOK(nodes, root, numNodes, lo, size)
  /\ last \in Ptr(nodes) /\ OnSpine(lo, size, numNodes, last) /\ nodes[last].depth = 0
  /\ maxNodes = 2 ^ nodes[root].depth
  /\ \A a \in Ptr(nodes) : HashOK(nodes, appended, lo, a)

\* The inductive invariant: before the first append there is nothing, then such a tree.
ChronInv ==
  /\ appended \in Seq(Values) /\ Len(appended) = numNodes /\ numNodes \in 0 .. MaxLeaves
  /\ numNodes = 0 => nodes = <<>> /\ root = Nil /\ maxNodes = 1
  /\ numNodes # 0 => \E lo, size : LogTreeOK(lo, size)

\* Every append keeps count of the values.
LEMMA PlaceLeafAppends ==
  ASSUME ChronInv, NEW value \in Values, NEW leaf, PlaceLeaf(value, leaf)
  PROVE  /\ appended' \in Seq(Values) /\ Len(appended') = numNodes' /\ numNodes' \in 0 .. MaxLeaves
         /\ numNodes' # 0 /\ numNodes + 1 <= MaxLeaves /\ numNodes \in Nat
<1>1. appended \in Seq(Values) /\ Len(appended) = numNodes /\ numNodes \in 0 .. MaxLeaves
  BY DEF ChronInv
<1>2. numNodes < MaxLeaves /\ numNodes' = numNodes + 1 /\ appended' = Append(appended, value)
  BY DEF PlaceLeaf
<1>3. numNodes \in Nat /\ numNodes + 1 <= MaxLeaves /\ numNodes + 1 \in 0 .. MaxLeaves
      /\ numNodes + 1 # 0
  BY <1>1, <1>2, MaxLeavesAssumption
<1>4. Append(appended, value) \in Seq(Values) /\ Len(Append(appended, value)) = numNodes + 1
  BY <1>1
<1> QED
  BY <1>2, <1>3, <1>4

\* The first leaf is a tree of its own.
LEMMA FirstLeafKeepsInv ==
  ASSUME ChronInv, NEW value \in Values, FirstLeaf(value)
  PROVE  ChronInv'
<1> DEFINE leaf == Leaf(value, 0, Nil)
           tree == << leaf >>
           lo   == [ a \in {1} |-> 0 ]
           size == [ a \in {1} |-> 1 ]
<1>1. /\ numNodes = 0 /\ nodes' = tree /\ root' = 1 /\ last' = 1 /\ numNodes' = numNodes + 1
      /\ maxNodes' = maxNodes /\ appended' = Append(appended, value) /\ PlaceLeaf(value, 1)
  BY DEF FirstLeaf, PlaceLeaf
<1>2. /\ appended' \in Seq(Values) /\ Len(appended') = numNodes' /\ numNodes' \in 0 .. MaxLeaves
      /\ numNodes' # 0 /\ numNodes + 1 <= MaxLeaves
  BY <1>1, PlaceLeafAppends
<1>3. numNodes' = 1 /\ maxNodes' = 1 /\ 1 \in 1 .. MaxLeaves
  BY <1>1, <1>2, MaxLeavesAssumption DEF ChronInv
<1>4. /\ leaf.depth = 0 /\ leaf.leftChild = Nil /\ leaf.rightChild = Nil /\ leaf.parent = Nil
      /\ leaf.hash = LeafHash(value, 0) /\ DOMAIN leaf = NodeFields
  BY DEF Leaf, NodeFields
<1> HIDE DEF leaf
<1>5. Len(tree) = 1 /\ tree[1] = leaf /\ Ptr(tree) = {1} /\ tree \in Seq(ToSet(tree))
  <2>1. Len(tree) = 1 /\ tree[1] = leaf /\ DOMAIN tree = 1 .. 1
    OBVIOUS
  <2>2. 1 .. 1 = {1}
    OBVIOUS
  <2>3. leaf \in ToSet(tree)
    BY <2>1, <2>2 DEF ToSet
  <2>4. \A S : leaf \in S => << leaf >> \in Seq(S)
    OBVIOUS
  <2>5. tree \in Seq(ToSet(tree))
    BY <2>3, <2>4
  <2> QED
    BY <2>1, <2>2, <2>5 DEF Ptr
<1> HIDE DEF tree
<1>6. IsTree(tree)
  BY <1>4, <1>5 DEF IsTree
<1>7. NumbersOK(tree, lo, size, 1)
  BY <1>4, <1>5 DEF NumbersOK
<1>8. \A a \in Ptr(tree) :
        LeafOK(tree, size, a) /\ InternalOK(tree, lo, size, a) /\ UpOK(tree, 1, a)
  BY <1>4, <1>5 DEF LeafOK, InternalOK, UpOK, Nil
<1>9. SpineOK(tree, lo, size, 1)
  BY <1>4, <1>5 DEF SpineOK
<1>10. TreeOK(tree, 1, 1, lo, size)
  BY <1>3, <1>5, <1>6, <1>7, <1>8, <1>9 DEF TreeOK
<1>11. OnSpine(lo, size, 1, 1) /\ 1 \in Ptr(tree) /\ tree[1].depth = 0 /\ 1 = 2 ^ tree[1].depth
  <2>1. lo[1] = 0 /\ size[1] = 1
    OBVIOUS
  <2>2. OnSpine(lo, size, 1, 1)
    BY <2>1 DEF OnSpine
  <2>3. tree[1].depth = 0
    BY <1>4, <1>5
  <2>4. 2 ^ tree[1].depth = 1
    BY <2>3, Powers
  <2> QED
    BY <1>5, <2>2, <2>3, <2>4
<1>12. \A a \in Ptr(tree) : HashOK(tree, appended', lo, a)
  <2>1. Append(appended, value)[1] = value
    BY <1>1 DEF ChronInv
  <2> QED
    BY <1>1, <1>4, <1>5, <2>1 DEF HashOK
<1> HIDE DEF lo, size
<1>13. LogTreeOK(lo, size)'
  BY <1>1, <1>3, <1>10, <1>11, <1>12 DEF LogTreeOK
<1> QED
  BY <1>2, <1>13 DEF ChronInv

\* A full tree gets a root above it.
LEMMA GrowRootKeepsInv ==
  ASSUME ChronInv, NEW value \in Values, GrowRoot(value)
  PROVE  ChronInv'
<1> DEFINE leaf == Len(nodes) + 1
           up   == Len(nodes) + 2
           tree == [nodes EXCEPT ![root].parent = up] \o
                   << Leaf(value, numNodes, up),
                      Internal(root, leaf, nodes[root].depth + 1, Nil) >>
           new  == UpdateHash(tree, up)
<1>1. /\ numNodes # 0 /\ numNodes = maxNodes /\ nodes' = new /\ root' = up /\ last' = leaf
      /\ numNodes' = numNodes + 1 /\ maxNodes' = maxNodes * 2
      /\ appended' = Append(appended, value) /\ PlaceLeaf(value, leaf)
  BY DEF GrowRoot, PlaceLeaf, TwiceAsMany
<1>2. /\ appended' \in Seq(Values) /\ Len(appended') = numNodes' /\ numNodes' \in 0 .. MaxLeaves
      /\ numNodes' # 0 /\ numNodes + 1 <= MaxLeaves /\ numNodes \in Nat
  BY <1>1, PlaceLeafAppends
<1>3. PICK lo, size : LogTreeOK(lo, size)
  BY <1>1 DEF ChronInv
<1>4. TreeOK(nodes, root, numNodes, lo, size) /\ IsTree(nodes) /\ root \in Ptr(nodes)
  BY <1>3 DEF LogTreeOK, TreeOK
<1>5. numNodes = 2 ^ nodes[root].depth
  BY <1>1, <1>3 DEF LogTreeOK
<1>6. GrownRoot(nodes, tree, root, value, numNodes)
  BY <1>4, GrowRootGrows
<1> DEFINE lo2   == GrownLo(nodes, lo, numNodes)
           size2 == GrownSize(nodes, size, numNodes)
           values2 == Append(appended, value)
<1> HIDE DEF tree, new, lo2, size2, values2, leaf, up
<1>7. TreeOK(tree, up, numNodes + 1, lo2, size2)
  BY <1>2, <1>4, <1>5, <1>6, GrownRootIsTree DEF lo2, size2, up
<1>8. appended \in Seq(Values) /\ Len(appended) = numNodes
      /\ \A a \in Ptr(nodes) : HashOK(nodes, appended, lo, a)
  BY <1>3 DEF ChronInv, LogTreeOK
<1>9. /\ leaf \in Ptr(tree) /\ OnSpine(lo2, size2, numNodes + 1, leaf) /\ tree[leaf].depth = 0
      /\ up \in Ptr(tree) /\ tree[up].depth = nodes[root].depth + 1 /\ tree[up].depth # 0
      /\ tree[up].leftChild # up /\ tree[up].rightChild # up
      /\ \A a \in Ptr(tree) : a # up =>
           /\ HashOK(tree, values2, lo2, a)
           /\ tree[a].depth # 0 => tree[a].leftChild # up /\ tree[a].rightChild # up
  BY <1>4, <1>6, <1>8, GrownRootHashes DEF lo2, size2, values2, leaf, up
<1>10. /\ IsTree(tree)
       /\ \A a \in Ptr(tree) : tree[a].depth # 0 =>
            tree[a].leftChild \in Ptr(tree) /\ tree[a].rightChild \in Ptr(tree)
  BY <1>7 DEF TreeOK, InternalOK
<1>11. SameShape(tree, new)
  BY <1>9, <1>10, UpdateHashUpdates DEF new
<1>12. \A a \in Ptr(tree) : HashOK(new, values2, lo2, a)
  BY <1>9, <1>10, RootHashUpdated DEF new
<1>13. TreeOK(new, up, numNodes + 1, lo2, size2)
  BY <1>7, <1>11, SameShapeIsTree
<1>14. Ptr(new) = Ptr(tree) /\ new[leaf].depth = 0 /\ new[up].depth = nodes[root].depth + 1
  BY <1>9, <1>11 DEF SameShape, Ptr
<1>15. maxNodes * 2 = 2 ^ (nodes[root].depth + 1)
  <2>1. nodes[root].depth \in 0 .. MaxLeaves
    BY <1>2, <1>4, MaxLeavesAssumption DEF TreeOK, NumbersOK
  <2>2. 2 ^ (nodes[root].depth + 1) = 2 * 2 ^ nodes[root].depth
    BY <2>1, Powers
  <2>3. numNodes * 2 = 2 * numNodes
    BY <1>2
  <2> QED
    BY <1>1, <1>5, <2>2, <2>3, Zenon
<1>16. (\E l, s : LogTreeOK(l, s))'
  <2>1. PICK l, s : l = lo2 /\ s = size2
    OBVIOUS
  <2>2. TreeOK(nodes', root', numNodes', l, s)
    BY <2>1, <1>1, <1>13
  <2>3. last' \in Ptr(nodes') /\ OnSpine(l, s, numNodes', last') /\ nodes'[last'].depth = 0
    BY <2>1, <1>1, <1>9, <1>14
  <2>4. maxNodes' = 2 ^ nodes'[root'].depth
    BY <1>1, <1>14, <1>15
  <2>5. \A a \in Ptr(nodes') : HashOK(nodes', appended', l, a)
    BY <2>1, <1>1, <1>12, <1>14 DEF values2
  <2>6. LogTreeOK(l, s)'
    BY <2>2, <2>3, <2>4, <2>5 DEF LogTreeOK
  <2> QED
    BY <2>6
<1> QED
  BY <1>2, <1>16 DEF ChronInv

\* In a tree that is not full there is a place along the right edge.
LEMMA PushDownKeepsInv ==
  ASSUME ChronInv, NEW value \in Values, PushDown(value)
  PROVE  ChronInv'
<1> DEFINE curr  == PushDownPoint
           grand == nodes[curr].parent
           leaf  == Len(nodes) + 1
           up    == Len(nodes) + 2
           tree  == [nodes EXCEPT ![grand].rightChild = up, ![curr].parent = up] \o
                    << Leaf(value, numNodes, up),
                       Internal(curr, leaf, nodes[curr].depth + 1, grand) >>
           new   == UpdateHashesFrom(tree, up)
<1>1. /\ numNodes # 0 /\ numNodes # maxNodes /\ nodes' = new /\ root' = root /\ last' = leaf
      /\ numNodes' = numNodes + 1 /\ maxNodes' = maxNodes
      /\ appended' = Append(appended, value) /\ PlaceLeaf(value, leaf)
  BY DEF PushDown, PlaceLeaf, PushDownRehashing
<1>2. /\ appended' \in Seq(Values) /\ Len(appended') = numNodes' /\ numNodes' \in 0 .. MaxLeaves
      /\ numNodes' # 0 /\ numNodes + 1 <= MaxLeaves /\ numNodes \in Nat
  BY <1>1, PlaceLeafAppends
<1>3. PICK lo, size : LogTreeOK(lo, size)
  BY <1>1 DEF ChronInv
<1>4. TreeOK(nodes, root, numNodes, lo, size) /\ IsTree(nodes) /\ root \in Ptr(nodes)
  BY <1>3 DEF LogTreeOK, TreeOK
<1>5. CanPushDown(nodes, root, numNodes, lo, size, curr)
  <2>1. /\ numNodes # 2 ^ nodes[root].depth
        /\ last \in Ptr(nodes) /\ OnSpine(lo, size, numNodes, last) /\ nodes[last].depth = 0
    BY <1>1, <1>3 DEF LogTreeOK
  <2>2. /\ curr \in Ptr(nodes) /\ OnSpine(lo, size, numNodes, curr)
        /\ size[curr] = 2 ^ nodes[curr].depth
        /\ curr # root /\ nodes[curr].depth + 1 # nodes[nodes[curr].parent].depth
    BY <1>4, <2>1, PushDownPointFound
  <2> HIDE DEF curr
  <2> QED
    BY <1>2, <1>4, <2>2 DEF CanPushDown
<1> HIDE DEF curr
<1>6. curr \in Ptr(nodes) /\ nodes[curr].parent \in Ptr(nodes)
  BY <1>5, AbovePushDownPoint DEF CanPushDown
<1>7. PushedDown(nodes, tree, curr, value, numNodes)
  BY <1>4, <1>6, PushDownPushesDown
<1> DEFINE lo2   == PushedLo(nodes, lo, numNodes, curr)
           size2 == PushedSize(nodes, lo, size, numNodes, curr)
           values2 == Append(appended, value)
<1> HIDE DEF tree, new, lo2, size2, values2, leaf, up
<1>8. TreeOK(tree, root, numNodes + 1, lo2, size2)
  BY <1>5, <1>7, PushedDownIsTree DEF lo2, size2
<1>9. appended \in Seq(Values) /\ Len(appended) = numNodes
      /\ \A a \in Ptr(nodes) : HashOK(nodes, appended, lo, a)
  BY <1>3 DEF ChronInv, LogTreeOK
<1>10. /\ leaf \in Ptr(tree) /\ OnSpine(lo2, size2, numNodes + 1, leaf) /\ tree[leaf].depth = 0
       /\ up \in Ptr(tree) /\ OnSpine(lo2, size2, numNodes + 1, up) /\ tree[up].depth # 0
       /\ \A a \in Ptr(tree) :
            \/ HashOK(tree, values2, lo2, a)
            \/ OnSpine(lo2, size2, numNodes + 1, a) /\ tree[up].depth <= tree[a].depth
  BY <1>5, <1>7, <1>9, PushedDownHashes DEF lo2, size2, values2, leaf, up
<1>11. SameShape(tree, new) /\ \A a \in Ptr(tree) : HashOK(new, values2, lo2, a)
  BY <1>8, <1>10, UpdateHashesRefreshes DEF new
<1>12. TreeOK(new, root, numNodes + 1, lo2, size2)
  BY <1>8, <1>11, SameShapeIsTree
<1>13. Ptr(new) = Ptr(tree) /\ new[leaf].depth = 0
  BY <1>10, <1>11 DEF SameShape, Ptr
<1>14. new[root].depth = nodes[root].depth
  <2>1. tree[root].depth = nodes[root].depth
    BY <1>4, <1>7 DEF PushedDown
  <2>2. root \in Ptr(tree)
    BY <1>8 DEF TreeOK
  <2> QED
    BY <1>11, <2>1, <2>2 DEF SameShape
<1>15. (\E l, s : LogTreeOK(l, s))'
  <2>1. PICK l, s : l = lo2 /\ s = size2
    OBVIOUS
  <2>2. TreeOK(nodes', root', numNodes', l, s)
    BY <2>1, <1>1, <1>12
  <2>3. last' \in Ptr(nodes') /\ OnSpine(l, s, numNodes', last') /\ nodes'[last'].depth = 0
    BY <2>1, <1>1, <1>10, <1>13
  <2>4. maxNodes' = 2 ^ nodes'[root'].depth
    BY <1>1, <1>3, <1>14 DEF LogTreeOK
  <2>5. \A a \in Ptr(nodes') : HashOK(nodes', appended', l, a)
    BY <2>1, <1>1, <1>11, <1>13 DEF values2
  <2>6. LogTreeOK(l, s)'
    BY <2>2, <2>3, <2>4, <2>5 DEF LogTreeOK
  <2> QED
    BY <2>6
<1> QED
  BY <1>2, <1>15 DEF ChronInv

\* The invariant holds of every log (ChronTree.Append).
LEMMA ChronInvHolds == ChronSpec => []ChronInv
<1>1. ChronInit => ChronInv
  BY MaxLeavesAssumption DEF ChronInit, ChronInv
<1>2. ChronInv /\ [ChronNext]_chronVars => ChronInv'
  <2> SUFFICES ASSUME ChronInv, [ChronNext]_chronVars PROVE ChronInv'
    OBVIOUS
  <2>1. ASSUME NEW value \in Values, FirstLeaf(value) PROVE ChronInv'
    BY <2>1, FirstLeafKeepsInv
  <2>2. ASSUME NEW value \in Values, GrowRoot(value) PROVE ChronInv'
    BY <2>2, GrowRootKeepsInv
  <2>3. ASSUME NEW value \in Values, PushDown(value) PROVE ChronInv'
    BY <2>3, PushDownKeepsInv
  <2>4. CASE UNCHANGED chronVars
    <3>1. \A lo, size : LogTreeOK(lo, size) <=> LogTreeOK(lo, size)'
      BY <2>4 DEF chronVars, LogTreeOK
    <3> QED
      BY <2>4, <3>1 DEF chronVars, ChronInv
  <2> QED
    BY <2>1, <2>2, <2>3, <2>4 DEF ChronNext
<1> QED
  BY <1>1, <1>2, PTL DEF ChronSpec

\* The stored root of a log is the Merkle tree hash of everything appended to it
\* (RootIsMerkleTreeHash, ChronTree.Append): whatever the values and however many.
THEOREM RootAlwaysMerkleTreeHash == ChronSpec => []RootIsMerkleTreeHash
<1>1. ChronInv => RootIsMerkleTreeHash
  <2> SUFFICES ASSUME ChronInv PROVE GetRootHash = MerkleTreeHash(appended)
    BY DEF RootIsMerkleTreeHash
  <2>1. Len(appended) = numNodes /\ numNodes \in 0 .. MaxLeaves
    BY DEF ChronInv
  <2>2. CASE numNodes = 0
    <3>1. GetRootHash = EmptyHash
      BY <2>2 DEF ChronInv, GetRootHash
    <3>2. PICK f : IsTable(appended, f, 0) /\ MerkleTreeHash(appended) = f[0][0]
      BY <2>1, <2>2, MerkleTreeHashIs
    <3>3. f[0][0] = TreeHashFrom(appended, 0, 0, f)
      BY <3>2, TableRow
    <3> QED
      BY <3>1, <3>2, <3>3 DEF TreeHashFrom
  <2>3. CASE numNodes # 0
    <3>1. PICK lo, size : LogTreeOK(lo, size)
      BY <2>3 DEF ChronInv
    <3>2. /\ TreeOK(nodes, root, numNodes, lo, size)
          /\ \A a \in Ptr(nodes) : HashOK(nodes, appended, lo, a)
      BY <3>1 DEF LogTreeOK
    <3>3. nodes[root].hash = MerkleTreeHash(appended)
      BY <2>1, <3>2, RootHasListHash
    <3>4. root # Nil
      BY <3>2 DEF TreeOK, Ptr, Nil
    <3> QED
      BY <3>3, <3>4 DEF GetRootHash
  <2> QED
    BY <2>2, <2>3
<1> QED
  BY <1>1, ChronInvHolds, PTL

\* In a tree that has room the search for a place to push down ends below the root
\* (ChronTree.Append): the branch for an end at the root is never taken.
THEOREM PushDownPointIsBelowRoot ==
  ChronSpec => [](numNodes \notin {0, maxNodes} => PushDownPoint \in Ptr(nodes) \ {root})
<1>1. ASSUME ChronInv, numNodes \notin {0, maxNodes} PROVE PushDownPoint \in Ptr(nodes) \ {root}
  <2>1. PICK lo, size : LogTreeOK(lo, size)
    BY <1>1 DEF ChronInv
  <2>2. /\ TreeOK(nodes, root, numNodes, lo, size) /\ numNodes # 2 ^ nodes[root].depth
        /\ last \in Ptr(nodes) /\ OnSpine(lo, size, numNodes, last) /\ nodes[last].depth = 0
    BY <1>1, <2>1 DEF LogTreeOK
  <2> QED
    BY <2>2, PushDownPointFound
<1> QED
  BY <1>1, ChronInvHolds, PTL

=============================================================================
