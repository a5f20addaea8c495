---------------------------- MODULE LegologServer ----------------------------
(***************************************************************************)
(* The Legolog server (legolog/server): the goroutines of its Register and *)
(* Append handlers, the key-value store they share, and the epoch loop     *)
(* with one goroutine per partition; and the client programs              *)
(* (legolog/client) that make the calls, each with its own map of master   *)
(* keys.                                                                   *)
(*                                                                         *)
(* A partition is what UpdateDirectory promises, which Partition           *)
(* implements: a list of pending updates and the set of provable ones.     *)
(*                                                                         *)
(* LastPosLock stands for AppendLock too, which is only ever taken and     *)
(* released together with it.  What runs under it without waiting for a    *)
(* client is one step.  The epoch loop is alone in taking epochLock and    *)
(* NeedToRollUpLock, and the server's epoch counters are written only;     *)
(* NeedToRollUp decides whether a verification period keeps or starts      *)
(* over, which UpdateDirectory does not tell apart.  These are left out.   *)
(***************************************************************************)
EXTENDS Integers, Sequences, SequencesExt, FiniteSets

CONSTANTS
  Partitions,   (* The partition servers.                                  *)
  Users,        (* The users; also the identifiers of their master keys.   *)
  Ids,          (* The identifiers of the users' values.                   *)
  PartitionOf,  (* GetPartitionForIdentifier.                              *)
  Handlers,     (* The calls, each the goroutine of one RPC.               *)
  Clients,      (* The client programs.                                    *)
  Callers,      (* Which of them may make each call.                       *)
  Preloaded,    (* The identifiers PreloadServer appends, per partition.   *)
  Faulty,       (* Those whose client may hang up or send a bad signature. *)
  None          (* No handler.                                             *)

ASSUME ConstantsAssumption ==
  /\ PartitionOf \in [Users \cup Ids -> Partitions]
  /\ Users \cap Ids = {}
  /\ Faulty \subseteq Handlers
  /\ None \notin Handlers
  /\ Callers \in [Handlers -> SUBSET Clients]
  /\ IsFiniteSet(Handlers)

\* PreloadServer numbers its identifiers: it appends each of them once.
ASSUME PreloadedAssumption ==
  /\ Preloaded \in [Partitions -> Seq(Ids)]
  /\ \A p \in Partitions : \A i, j \in DOMAIN Preloaded[p] :
       /\ PartitionOf[Preloaded[p][i]] = p
       /\ Preloaded[p][i] = Preloaded[p][j] => i = j

VARIABLES
  pc,             (* Where each handler is.                                *)
  request,        (* The client, user and identifier of each call, and     *)
                  (* whether the client's key is the one the server reads. *)
  position,       (* The position each handler assigned and promised.      *)
  original,       (* What each handler read from the store.                *)
  masterKeys,     (* Per client and user: the call that registered the     *)
                  (* client's key, which names the key.                    *)
  storage,        (* The store: per identifier, newest record first.       *)
  LastPos,        (* Per partition: the next position.                     *)
  LastPosLock,    (* Per partition: the handler that holds the lock.       *)
  PublishedPos,   (* Per partition: LastPos as of the last update epoch.   *)
  pending,        (* Per partition: UpdateDirectory's pending, ...         *)
  provable,       (* ... and provable updates.                             *)
  loop,           (* What the epoch loop does.                             *)
  todo,           (* The partitions whose goroutines it waits for.         *)
  doneBefore,     (* History: the calls completed when a call began.       *)
  overlapped      (* History: identifiers with overlapping store accesses. *)

handlerVars   == << pc, request, position, original, masterKeys, doneBefore >>
partitionVars == << LastPos, LastPosLock, pending, PublishedPos, provable >>
storeVars     == << storage, overlapped >>
loopVars      == << loop, todo >>
vars          == << handlerVars, partitionVars, storeVars, loopVars >>

-----------------------------------------------------------------------------
\* Every call takes one position at most.
Position == UNION { 0 .. Len(Preloaded[p]) + Cardinality(Handlers) - 1 : p \in Partitions }

\* An accepted update: what it is for, the position promised to its client, the
\* partition's own number for it, and the call that made it.
Update == [id : Users \cup Ids, pos : Position, at : Position, call : Handlers \cup {None}]

Record(h) == [pos |-> position[h], call |-> h]

\* What the store keeps of an update.
RecordOf(u) == [pos |-> u.pos, call |-> u.call]

Home(h) == PartitionOf[request[h].id]

Completed == { h \in Handlers : pc[h] = "done" }

\* The number of updates in a partition, which it keeps in its own counter pos.
PartitionPos(p) == Len(pending[p]) + Cardinality(provable[p])

NewUpdate(h, pos) ==
  [id |-> request[h].id, pos |-> pos, at |-> PartitionPos(Home(h)), call |-> h]

\* All updates that a partition has accepted.
AcceptedBy(p) == ToSet(pending[p]) \cup provable[p]

\* The calls between their Partition.Append and the end of their store access.
Storing(id) == { h \in Handlers : pc[h] \in {"getValue", "putValue"} /\ request[h].id = id }

GoTo(h, label) == pc' = [pc EXCEPT ![h] = label]

\* The store, under its lock.
Get(id) == storage[id]
Put(id, records) == storage' = [storage EXCEPT ![id] = records]

\* LookUpPK and LookUpMK of the server: the first record, or none, which is an
\* error for an identifier and a record with the empty key for a user.
FirstRecord(id) == IF Get(id) = <<>> THEN {} ELSE { Get(id)[1] }
MasterRecord(user) == IF Get(user) = <<>> THEN {} ELSE { Get(user)[1] }

\* What a client that looks up gets, unverified: the call that made the record.  The
\* error is a nil response for LookUpPK, which crashes on it.
LookUpPK(id) == IF FirstRecord(id) = {} THEN None ELSE (CHOOSE r \in FirstRecord(id) : TRUE).call
LookUpMK(user) == IF MasterRecord(user) = {} THEN None ELSE (CHOOSE r \in MasterRecord(user) : TRUE).call

LockFree(p) == LastPosLock[p] = None

-----------------------------------------------------------------------------
\* PreloadServer, before the server starts: it makes updates and records as
\* Append does, for one identifier after the other.
PreloadedUpdates(p) ==
  [i \in DOMAIN Preloaded[p] |->
     [id |-> Preloaded[p][i], pos |-> i - 1, at |-> i - 1, call |-> None]]

PreloadedRecords(id) ==
  LET updates == { u \in ToSet(PreloadedUpdates(PartitionOf[id])) : u.id = id }
  IN  SetToSeq({ RecordOf(u) : u \in updates })

Init ==
  /\ pc = [h \in Handlers |-> "idle"]
  /\ request = [h \in Handlers |-> None]
  /\ position = [h \in Handlers |-> 0]
  /\ original = [h \in Handlers |-> <<>>]
  /\ masterKeys = [c \in Clients |-> [user \in Users |-> None]]
  /\ storage = [id \in Users \cup Ids |-> PreloadedRecords(id)]
  /\ LastPos = [p \in Partitions |-> Len(PreloadedUpdates(p))]
  /\ LastPosLock = [p \in Partitions |-> None]
  /\ PublishedPos = [p \in Partitions |-> 0]
  /\ pending = [p \in Partitions |-> PreloadedUpdates(p)]
  /\ provable = [p \in Partitions |-> {}]
  /\ loop = "wait"
  /\ todo = {}
  /\ doneBefore = [h \in Handlers |-> {}]
  /\ overlapped = {}

-----------------------------------------------------------------------------
(* Register.                                                               *)

\* A call comes in.
Begin(h, client, user, id, good) ==
  /\ pc[h] = "idle"
  /\ request' = [request EXCEPT ![h] = [client |-> client, user |-> user, id |-> id, good |-> good]]
  /\ doneBefore' = [doneBefore EXCEPT ![h] = Completed]
  /\ UNCHANGED << position, original, partitionVars, storeVars, loopVars >>

\* Slip: a registered user is not turned down.
UnregisteredUnchecked(user) == TRUE

Unregistered(user) == Get(user) = <<>>

\* The client keeps the key for its later calls whatever becomes of this one.
KeepKey(h, client, user) == masterKeys' = [masterKeys EXCEPT ![client][user] = h]

\* The checks of RegisterUserKey: of the store, and of the self-signature, which
\* only a faulty client gets wrong.
Register(h, client, user) ==
  /\ Begin(h, client, user, user, TRUE)
  /\ KeepKey(h, client, user)
  /\ \/ Unregistered(user) /\ GoTo(h, "register")
     \/ (~ Unregistered(user) \/ h \in Faulty) /\ GoTo(h, "failed")

\* What an accepted update changes in its partition.
Accept(h, pos) ==
  pending' = [pending EXCEPT ![Home(h)] = Append(@, NewUpdate(h, pos))]

\* The locked part of RegisterUserKey.
RegisterKey(h) ==
  /\ pc[h] = "register"
  /\ LockFree(Home(h))
  /\ position' = [position EXCEPT ![h] = LastPos[Home(h)]]
  /\ LastPos' = [LastPos EXCEPT ![Home(h)] = @ + 1]
  /\ Accept(h, LastPos[Home(h)])
  /\ GoTo(h, "putKey")
  /\ UNCHANGED << request, original, masterKeys, doneBefore, LastPosLock, PublishedPos,
                  provable, storeVars, loopVars >>

PutKey(h) ==
  /\ pc[h] = "putKey"
  /\ Put(request[h].id, << Record(h) >>)
  /\ GoTo(h, "done")
  /\ UNCHANGED << request, position, original, masterKeys, doneBefore, partitionVars,
                  overlapped, loopVars >>

-----------------------------------------------------------------------------
(* Append.                                                                 *)

\* The client's lookup in its map.
HasKey(client, user) == masterKeys[client][user] # None

\* The signature that the client will make of the position it is sent verifies
\* with the key that the server read when the call began.
WillVerify(client, user) == masterKeys[client][user] = LookUpMK(user)

\* The first message, from a client with a key for the user, and the server's
\* read of the user's master key.
StartAppend(h, client, user, id) ==
  /\ HasKey(client, user)
  /\ Begin(h, client, user, id, WillVerify(client, user))
  /\ UNCHANGED masterKeys
  /\ IF Unregistered(user) THEN GoTo(h, "failed") ELSE GoTo(h, "lock")

\* The position is assigned and sent to the client under the lock, which is
\* then kept until the client answers.
SendPosition(h) ==
  /\ pc[h] = "lock"
  /\ LockFree(Home(h))
  /\ LastPosLock' = [LastPosLock EXCEPT ![Home(h)] = h]
  /\ position' = [position EXCEPT ![h] = LastPos[Home(h)]]
  /\ LastPos' = [LastPos EXCEPT ![Home(h)] = @ + 1]
  /\ GoTo(h, "signature")
  /\ UNCHANGED << request, original, masterKeys, doneBefore, pending, PublishedPos, provable,
                  storeVars, loopVars >>

\* Slip: the lock is kept although the update is accepted.
KeepLock(h) == UNCHANGED LastPosLock

Unlock(h) == LastPosLock' = [LastPosLock EXCEPT ![Home(h)] = None]

\* The client's signature arrives and is good: Partition.Append.
AcceptSignature(h) ==
  /\ pc[h] = "signature"
  /\ request[h].good
  /\ Accept(h, position[h])
  /\ Unlock(h)
  /\ GoTo(h, "getValue")
  /\ overlapped' = IF Storing(request[h].id) = {} THEN overlapped
                   ELSE overlapped \cup { request[h].id }
  /\ UNCHANGED << request, position, original, masterKeys, doneBefore, LastPos, PublishedPos,
                  provable, storage, loopVars >>

\* A call whose signature the server may never get or verify.
MayFail(h) == h \in Faulty \/ ~ request[h].good

\* Slip: the error returns unlock, but do not give the position back.
FailUnlocking(h) ==
  /\ pc[h] = "signature"
  /\ MayFail(h)
  /\ GoTo(h, "failed")
  /\ LastPosLock' = [LastPosLock EXCEPT ![Home(h)] = None]
  /\ UNCHANGED << request, position, original, masterKeys, doneBefore, LastPos, PublishedPos,
                  pending, provable, storeVars, loopVars >>

\* The stream breaks or the signature is bad: both error returns come before
\* the unlocks.
FailAppend(h) ==
  /\ pc[h] = "signature"
  /\ MayFail(h)
  /\ GoTo(h, "failed")
  /\ UNCHANGED << request, position, original, masterKeys, doneBefore, partitionVars, storeVars,
                  loopVars >>

GetValue(h) ==
  /\ pc[h] = "getValue"
  /\ original' = [original EXCEPT ![h] = Get(request[h].id)]
  /\ GoTo(h, "putValue")
  /\ UNCHANGED << request, position, masterKeys, doneBefore, partitionVars, storeVars, loopVars >>

\* Slip: the new record goes to the end.
NewestLast(record, records) == Append(records, record)

NewestFirst(record, records) == << record >> \o records

PutValue(h) ==
  /\ pc[h] = "putValue"
  /\ Put(request[h].id, NewestFirst(Record(h), original[h]))
  /\ GoTo(h, "done")
  /\ UNCHANGED << request, position, original, masterKeys, doneBefore, partitionVars,
                  overlapped, loopVars >>

-----------------------------------------------------------------------------
(* The epoch loop.                                                         *)

\* A timer fires: a goroutine is started for every partition.
Tick(label) ==
  /\ loop = "wait"
  /\ loop' = label
  /\ todo' = Partitions
  /\ UNCHANGED << handlerVars, partitionVars, storeVars >>

StartUpdateEpoch == Tick("update")
StartVerificationPeriod == Tick("verify")

\* Slip: the partition is not locked while its epoch ends.
PublishAnyTime(p) == TRUE

MayPublish(p) == LockFree(p)

\* Slip: only the newest pending update is published.
PublishNewest(p) ==
  provable' = [provable EXCEPT ![p] = @ \cup (IF pending[p] = <<>> THEN {} ELSE {Last(pending[p])})]

PublishPending(p) ==
  provable' = [provable EXCEPT ![p] = @ \cup ToSet(pending[p])]

\* PartitionServer.IncrementUpdateEpoch, which holds the lock for reading.
PublishPartition(p) ==
  /\ loop = "update"
  /\ p \in todo
  /\ MayPublish(p)
  /\ PublishedPos' = [PublishedPos EXCEPT ![p] = LastPos[p]]
  /\ PublishPending(p)
  /\ pending' = [pending EXCEPT ![p] = <<>>]
  /\ todo' = todo \ {p}
  /\ UNCHANGED << handlerVars, LastPos, LastPosLock, storeVars, loop >>

\* PartitionServer.IncrementVerificationPeriod: it takes no lock that handlers
\* hold, and changes nothing of what is modelled here.
RollOver(p) ==
  /\ loop = "verify"
  /\ p \in todo
  /\ todo' = todo \ {p}
  /\ UNCHANGED << handlerVars, partitionVars, storeVars, loop >>

\* wg.Wait returns.
FinishEpoch ==
  /\ loop # "wait"
  /\ todo = {}
  /\ loop' = "wait"
  /\ UNCHANGED << handlerVars, partitionVars, storeVars, todo >>

-----------------------------------------------------------------------------
\* The steps of a call that do not wait for its client.
ServerStep(h) == RegisterKey(h) \/ PutKey(h) \/ SendPosition(h) \/ GetValue(h) \/ PutValue(h)

EpochStep == FinishEpoch \/ \E p \in Partitions : PublishPartition(p) \/ RollOver(p)

Next ==
  \/ \E h \in Handlers :
       \/ \E client \in Callers[h], user \in Users :
            Register(h, client, user) \/ \E id \in Ids : StartAppend(h, client, user, id)
       \/ AcceptSignature(h)
       \/ FailAppend(h)
       \/ ServerStep(h)
  \/ StartUpdateEpoch
  \/ StartVerificationPeriod
  \/ EpochStep

Spec == Init /\ [][Next]_vars

\* Goroutines run; the client of a call that is not faulty answers.  A goroutine
\* waits for a lock for as long as the calls before it: there are finitely many.
\* Whenever the loop selects between its timers often enough, each is chosen.
Fairness ==
  /\ \A h \in Handlers : WF_vars(ServerStep(h))
  /\ \A h \in Handlers \ Faulty : WF_vars(AcceptSignature(h))
  /\ \A p \in Partitions : WF_vars(PublishPartition(p)) /\ WF_vars(RollOver(p))
  /\ WF_vars(FinishEpoch)
  /\ SF_vars(StartUpdateEpoch)

FairSpec == Spec /\ Fairness

-----------------------------------------------------------------------------
\* The position a client signed is the one the partition gave the update, in
\* the counter that it keeps for itself: a call that fails after it was given a
\* position leaves the two counters apart, but its lock then keeps later calls
\* from the partition.
PositionsAgree ==
  \A p \in Partitions : \A update \in AcceptedBy(p) : update.pos = update.at

\* PublishedPos is exact whatever calls are under way when the epoch ends: an
\* update is provable if and only if its position is below it, and every
\* position below it was used.
PublishedPosIsExact ==
  \A p \in Partitions :
    { update.pos : update \in provable[p] } = 0 .. PublishedPos[p] - 1
      /\ \A update \in ToSet(pending[p]) : update.pos >= PublishedPos[p]

\* Whatever calls have failed or been refused: when a client has registered a user
\* and no other registration of the user was under way at the same time, its key
\* stays the one that LookUpMK answers with, and the client's calls of Append are
\* verified with it, unless the client itself registers the user again.
Registers(h, user) == pc[h] # "idle" /\ request[h].id = user
Overlap(h, other)  == h \notin doneBefore[other] /\ other \notin doneBefore[h]
LoneRegistrationLasts ==
  \A user \in Users : \A h \in Completed :
    LET others == { other \in Handlers \ {h} : Registers(other, user) }
    IN  Registers(h, user) /\ (\A other \in others : pc[other] # "failed" => ~ Overlap(h, other)) =>
          /\ LookUpMK(user) = h
          /\ (\A other \in others : request[other].client # request[h].client) =>
               \A later \in Handlers :
                 h \in doneBefore[later] /\ request[later].user = user
                     /\ request[later].client = request[h].client => request[later].good

\* The store and the partition agree as long as calls for the same identifier
\* do not overlap in their store accesses: once no access is under way, the
\* store has exactly the identifier's updates, and LookUpPK answers with the one
\* at the highest position.
SequentialStoreIsExact ==
  \A id \in Ids \ overlapped : Storing(id) = {} =>
    LET accepted == { update \in AcceptedBy(PartitionOf[id]) : update.id = id }
    IN  /\ ToSet(storage[id]) = { RecordOf(u) : u \in accepted }
        /\ \A u \in accepted :
             (\A other \in accepted : other.pos <= u.pos) => LookUpPK(id) = u.call

\* Handlers and epoch loop use the partitions as UpdateDirectories has them: an
\* update epoch makes exactly what is pending provable, and nothing is lost.
Directories == INSTANCE UpdateDirectories WITH Directories <- Partitions
PartitionsAreDirectories == Directories!Spec

\* A client that does not answer, or signs with another key than the user's, keeps
\* a partition locked.
Stalled == \E p \in Partitions : \E h \in Handlers : LastPosLock[p] = h /\ MayFail(h)

\* Unless such a client keeps a partition locked, an update that was accepted
\* becomes provable.
AcceptedBecomesProvable ==
  <>[]Stalled \/ \A h \in Handlers :
    pc[h] = "getValue" ~> \E p \in Partitions : \E update \in provable[p] : update.call = h

\* Unless such a client keeps a partition locked, every update epoch ends.
UpdateEpochsEnd ==
  <>[]Stalled \/ (loop = "update" ~> loop = "wait")

\* "Always increment the update epoch, even if we don't have any new updates":
\* an update epoch that was started reaches every partition.
UpdateEpochReachesAll ==
  \A p \in Partitions : (loop = "update" /\ p \in todo) ~> p \notin todo
=============================================================================
