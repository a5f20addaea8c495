----------------------- MODULE MerkleSquareServerProofs -----------------------
(***************************************************************************)
(* Theorems about MerkleSquareServer, for every set of users and calls,    *)
(* whichever writers have a faulty client.                                 *)
(***************************************************************************)
EXTENDS MerkleSquareServer, ForestIndexProofs

WriterLabels == { "idle", "register", "putKey", "lock", "appendKey", "signature", "getKeys",
                  "putKeys", "done", "failed" }

LookUpLabels == { "size", "records", "pick" }

CheckPointLabels == { "cache", "prove", "fill", "answer" }

ReaderLabels == { "idle", "done", "failed" } \cup LookUpLabels \cup CheckPointLabels

WriteCall == [user : Users, master : BOOLEAN]

LookUpCall == [user : Users, master : BOOLEAN, size : Nat \cup {None}]

CheckPointCall == [size : Nat]

\* The entry of the call is in the tree.
Placed(h) == pc[h] \in { "putKey", "getKeys", "putKeys", "done" }

WritersTypeOK ==
  \A h \in Writers :
    /\ pc[h] \in WriterLabels
    /\ IF pc[h] = "idle" THEN request[h] = None ELSE request[h] \in WriteCall
    /\ pc[h] = "signature" \/ Placed(h) => position[h] \in Nat
    /\ original[h] \in Seq(Nat)

ReadersTypeOK ==
  \A h \in Readers :
    /\ pc[h] \in ReaderLabels
    /\ pc[h] \in LookUpLabels => request[h] \in LookUpCall
    /\ pc[h] \in CheckPointLabels => request[h] \in CheckPointCall

\* Whatever record a lookup finds is its position.
CallsAreFunctions ==
  /\ pc = [h \in Handlers |-> pc[h]]
  /\ request = [h \in Handlers |-> request[h]]
  /\ position = [h \in Handlers |-> position[h]]
  /\ original = [h \in Handlers |-> original[h]]
  /\ reply = [h \in Readers |-> reply[h]]

ServerTypeOK ==
  /\ masterKeys \in [Users -> Seq(Nat)]
  /\ publicKeys \in [Users -> Seq(Nat)]
  /\ log \in Seq(Users)
  /\ LastPos \in Nat
  /\ LastPosLock \in Writers \cup {None}
  /\ PublishedPos \in Nat
  /\ PublishedDigest \in Nat
  /\ digests \subseteq Nat
  /\ epochLock \in BOOLEAN
  /\ loop \in { "wait", "publish", "digest", "dump" }

TypeOK == CallsAreFunctions /\ WritersTypeOK /\ ReadersTypeOK /\ ServerTypeOK

-----------------------------------------------------------------------------
(* Who changes what.                                                       *)

WriterAction(h) ==
  \/ \E user \in Users : Register(h, user) \/ StartAppend(h, user) \/ StartAppendUserKey(h, user)
  \/ AcceptSignature(h)
  \/ FailAppend(h)
  \/ WriterStep(h)

ReaderAction(h) ==
  \/ \E user \in Users, master \in BOOLEAN, size \in Sizes \cup {None} :
       LookUp(h, user, master, size)
  \/ \E oldSize \in digests : GetNewCheckPoint(h, oldSize)
  \/ LookUpStep(h)
  \/ CheckPointStep(h)

EpochAction == StartEpoch \/ EpochStep

\* A step is one of a writer, of a reader or of the epoch loop.
LEMMA Actors ==
  ASSUME [Next]_vars
  PROVE  \/ \E h \in Writers : WriterAction(h)
         \/ \E h \in Readers : ReaderAction(h)
         \/ EpochAction
         \/ UNCHANGED vars
  BY DEF Next, WriterAction, ReaderAction, EpochAction

\* What the call of h has of its own stays as it was.
SameCall(h) ==
  /\ pc'[h] = pc[h]
  /\ request'[h] = request[h]
  /\ position'[h] = position[h]
  /\ original'[h] = original[h]

\* A writer leaves the epochs, the cache and all other calls alone.
LEMMA WriterFrame ==
  ASSUME CallsAreFunctions, NEW h \in Writers, WriterAction(h)
  PROVE  /\ UNCHANGED << reply, epochVars, extensionProofCache >>
         /\ CallsAreFunctions'
         /\ \A g \in Handlers \ {h} : SameCall(g)
<1> USE DEF CallsAreFunctions, SameCall, GoTo, epochVars, treeVars, storeVars, Handlers, Begin
<1>1. CASE \E user \in Users : Register(h, user)
  BY <1>1 DEF Register
<1>2. CASE \E user \in Users : StartAppend(h, user)
  BY <1>2 DEF StartAppend
<1>3. CASE \E user \in Users : StartAppendUserKey(h, user)
  BY <1>3 DEF StartAppendUserKey
<1>4. CASE AcceptSignature(h)
  BY <1>4 DEF AcceptSignature
<1>5. CASE FailAppend(h)
  BY <1>5 DEF FailAppend
<1>6. CASE RegisterKey(h)
  BY <1>6 DEF RegisterKey
<1>7. CASE PutMasterKey(h)
  BY <1>7 DEF PutMasterKey
<1>8. CASE AppendUserKey(h)
  BY <1>8 DEF AppendUserKey
<1>9. CASE SendPosition(h)
  BY <1>9 DEF SendPosition
<1>10. CASE GetKeys(h)
  BY <1>10 DEF GetKeys
<1>11. CASE PutKeys(h)
  BY <1>11 DEF PutKeys
<1> QED
  BY <1>1, <1>2, <1>3, <1>4, <1>5, <1>6, <1>7, <1>8, <1>9, <1>10, <1>11
     DEF WriterAction, WriterStep

\* A reader leaves the store, the tree, the epochs and all other calls alone.
LEMMA ReaderFrame ==
  ASSUME CallsAreFunctions, NEW h \in Readers, ReaderAction(h)
  PROVE  /\ UNCHANGED << storeVars, treeVars, epochVars >>
         /\ CallsAreFunctions'
         /\ \A g \in Handlers \ {h} : SameCall(g)
         /\ \A g \in Readers \ {h} : reply'[g] = reply[g]
<1> USE DEF CallsAreFunctions, SameCall, GoTo, epochVars, treeVars, storeVars, Handlers, Begin, Reply
<1>1. CASE \E user \in Users, master \in BOOLEAN, size \in Sizes \cup {None} :
             LookUp(h, user, master, size)
  BY <1>1 DEF LookUp
<1>2. CASE \E oldSize \in digests : GetNewCheckPoint(h, oldSize)
  BY <1>2 DEF GetNewCheckPoint
<1>3. CASE ReadSize(h)
  BY <1>3 DEF ReadSize
<1>4. CASE GetRecords(h)
  BY <1>4 DEF GetRecords
<1>5. CASE PickRecord(h)
  BY <1>5 DEF PickRecord
<1>6. CASE LookInCache(h)
  BY <1>6 DEF LookInCache
<1>7. CASE ProveExtension(h)
  BY <1>7 DEF ProveExtension
<1>8. CASE FillCache(h)
  BY <1>8 DEF FillCache
<1>9. CASE AnswerCheckPoint(h)
  BY <1>9 DEF AnswerCheckPoint
<1> QED
  BY <1>1, <1>2, <1>3, <1>4, <1>5, <1>6, <1>7, <1>8, <1>9
     DEF ReaderAction, LookUpStep, CheckPointStep

\* The epoch loop leaves the calls, the store and the tree alone.
LEMMA EpochFrame ==
  ASSUME EpochAction
  PROVE  UNCHANGED << callVars, storeVars, treeVars >>
  BY DEF EpochAction, EpochStep, StartEpoch, PublishPos, PublishDigest, DumpProofs

-----------------------------------------------------------------------------
(* Types.                                                                  *)

LEMMA WriterTypes ==
  ASSUME TypeOK, NEW h \in Writers, WriterAction(h)
  PROVE  TypeOK'
<1>1. /\ UNCHANGED << reply, epochVars, extensionProofCache >>
      /\ CallsAreFunctions'
      /\ \A g \in Handlers \ {h} : SameCall(g)
  BY WriterFrame DEF TypeOK
<1>2. h \notin Readers /\ h \in Handlers /\ None \notin Nat
  BY CallsAssumption DEF Handlers
<1>3. ReadersTypeOK'
  BY <1>1, <1>2 DEF TypeOK, ReadersTypeOK, SameCall, Handlers
<1>4. \A g \in Writers \ {h} :
         /\ pc'[g] \in WriterLabels
         /\ IF pc'[g] = "idle" THEN request'[g] = None ELSE request'[g] \in WriteCall
         /\ pc'[g] = "signature" \/ Placed(g)' => position'[g] \in Nat
         /\ original'[g] \in Seq(Nat)
  BY <1>1 DEF TypeOK, WritersTypeOK, SameCall, Handlers, Placed
<1> DEFINE Fine ==
      /\ pc'[h] \in WriterLabels
      /\ IF pc'[h] = "idle" THEN request'[h] = None ELSE request'[h] \in WriteCall
      /\ pc'[h] = "signature" \/ Placed(h)' => position'[h] \in Nat
      /\ original'[h] \in Seq(Nat)
      /\ masterKeys' \in [Users -> Seq(Nat)]
      /\ publicKeys' \in [Users -> Seq(Nat)]
      /\ log' \in Seq(Users)
      /\ LastPos' \in Nat
      /\ LastPosLock' \in Writers \cup {None}
<1>5. /\ pc[h] \in WriterLabels
      /\ IF pc[h] = "idle" THEN request[h] = None ELSE request[h] \in WriteCall
      /\ pc[h] = "signature" \/ Placed(h) => position[h] \in Nat
      /\ original[h] \in Seq(Nat)
      /\ masterKeys \in [Users -> Seq(Nat)]
      /\ publicKeys \in [Users -> Seq(Nat)]
      /\ log \in Seq(Users)
      /\ LastPos \in Nat
      /\ LastPosLock \in Writers \cup {None}
      /\ CallsAreFunctions
  BY DEF TypeOK, WritersTypeOK, ServerTypeOK
<1>6. Fine
  <2>1. CASE \E user \in Users : Register(h, user)
    <3> USE DEF Begin, GoTo, storeVars, treeVars, WriteCall, WriterLabels, Placed, CallsAreFunctions
    <3> QED
      BY <2>1, <1>2, <1>5 DEF Register
  <2>2. CASE \E user \in Users : StartAppend(h, user)
    BY <2>2, <1>2, <1>5 DEF StartAppend, Begin, GoTo, storeVars, treeVars, WriteCall, WriterLabels,
                            Placed, CallsAreFunctions
  <2>3. CASE \E user \in Users : StartAppendUserKey(h, user)
    BY <2>3, <1>2, <1>5 DEF StartAppendUserKey, Begin, GoTo, storeVars, treeVars, WriteCall,
                            WriterLabels, Placed, CallsAreFunctions
  <2>4. CASE AcceptSignature(h)
    BY <2>4, <1>2, <1>5 DEF AcceptSignature, AppendToTree, GoTo, storeVars, WriterLabels, Placed,
                            CallsAreFunctions, WriteCall
  <2>5. CASE FailAppend(h)
    BY <2>5, <1>2, <1>5 DEF FailAppend, GoTo, storeVars, treeVars, WriterLabels, Placed,
                            CallsAreFunctions
  <2>6. CASE RegisterKey(h)
    BY <2>6, <1>2, <1>5 DEF RegisterKey, AppendToTree, GoTo, storeVars, WriterLabels, Placed,
                            CallsAreFunctions, WriteCall
  <2>7. CASE PutMasterKey(h)
    <3>1. position[h] \in Nat /\ request[h].user \in Users
      BY <2>7, <1>5 DEF PutMasterKey, Placed, WriteCall
    <3>2. << position[h] >> \in Seq(Nat)
      BY <3>1
    <3> QED
      BY <2>7, <1>2, <1>5, <3>1, <3>2 DEF PutMasterKey, GoTo, treeVars, WriterLabels, Placed,
                                          CallsAreFunctions
  <2>8. CASE AppendUserKey(h)
    BY <2>8, <1>2, <1>5 DEF AppendUserKey, AppendToTree, GoTo, storeVars, WriterLabels, Placed,
                            CallsAreFunctions, WriteCall
  <2>9. CASE SendPosition(h)
    BY <2>9, <1>2, <1>5 DEF SendPosition, GoTo, storeVars, WriterLabels, Placed, CallsAreFunctions
  <2>10. CASE GetKeys(h)
    BY <2>10, <1>2, <1>5 DEF GetKeys, GoTo, storeVars, treeVars, WriterLabels, Placed,
                             CallsAreFunctions, WriteCall
  <2>11. CASE PutKeys(h)
    <3>1. position[h] \in Nat /\ request[h].user \in Users
      BY <2>11, <1>5 DEF PutKeys, Placed, WriteCall
    <3>2. << position[h] >> \o original[h] \in Seq(Nat)
      BY <3>1, <1>5, ToSetPrepend
    <3> DEFINE keys == << position[h] >> \o original[h]
    <3>3. publicKeys' = [publicKeys EXCEPT ![request[h].user] = keys]
      BY <2>11 DEF PutKeys
    <3>4. keys \in Seq(Nat)
      BY <3>2
    <3> HIDE DEF keys
    <3>5. publicKeys' \in [Users -> Seq(Nat)]
      BY <1>5, <3>1, <3>3, <3>4
    <3>6. original'[h] \in Seq(Nat)
      <4>1. original'[h] = <<>>
        BY <2>11, <1>2, <1>5 DEF PutKeys, CallsAreFunctions
      <4> QED
        BY <4>1
    <3> QED
      BY <2>11, <1>2, <1>5, <3>1, <3>5, <3>6 DEF PutKeys, GoTo, treeVars, WriterLabels, Placed,
                                           CallsAreFunctions
  <2> HIDE DEF Fine
  <2> QED
    BY <2>1, <2>2, <2>3, <2>4, <2>5, <2>6, <2>7, <2>8, <2>9, <2>10, <2>11
       DEF WriterAction, WriterStep
<1>7. WritersTypeOK'
  BY <1>4, <1>6 DEF WritersTypeOK
<1>8. ServerTypeOK'
  BY <1>1, <1>6 DEF TypeOK, ServerTypeOK, epochVars
<1> QED
  BY <1>1, <1>3, <1>7, <1>8 DEF TypeOK

LEMMA ReaderTypes ==
  ASSUME TypeOK, NEW h \in Readers, ReaderAction(h)
  PROVE  TypeOK'
<1>1. /\ UNCHANGED << storeVars, treeVars, epochVars >>
      /\ CallsAreFunctions'
      /\ \A g \in Handlers \ {h} : SameCall(g)
  BY ReaderFrame DEF TypeOK
<1>2. h \notin Writers /\ h \in Handlers /\ None \notin Nat
  BY CallsAssumption DEF Handlers
<1>3. WritersTypeOK'
  BY <1>1, <1>2 DEF TypeOK, WritersTypeOK, SameCall, Handlers, Placed
<1>4. \A g \in Readers \ {h} :
         /\ pc'[g] \in ReaderLabels
         /\ pc'[g] \in LookUpLabels => request'[g] \in LookUpCall
         /\ pc'[g] \in CheckPointLabels => request'[g] \in CheckPointCall
  BY <1>1 DEF TypeOK, ReadersTypeOK, SameCall, Handlers
<1> DEFINE Fine ==
      /\ pc'[h] \in ReaderLabels
      /\ pc'[h] \in LookUpLabels => request'[h] \in LookUpCall
      /\ pc'[h] \in CheckPointLabels => request'[h] \in CheckPointCall
<1>5. /\ pc[h] \in ReaderLabels
      /\ pc[h] \in LookUpLabels => request[h] \in LookUpCall
      /\ pc[h] \in CheckPointLabels => request[h] \in CheckPointCall
      /\ CallsAreFunctions
      /\ PublishedPos \in Nat
      /\ digests \subseteq Nat
  BY DEF TypeOK, ReadersTypeOK, ServerTypeOK
<1>6. Fine
  <2> USE DEF ReaderLabels, LookUpLabels, CheckPointLabels, GoTo, CallsAreFunctions
  <2>1. CASE \E user \in Users, master \in BOOLEAN, size \in Sizes \cup {None} :
               LookUp(h, user, master, size)
    <3>1. PICK user \in Users, master \in BOOLEAN, size \in Sizes \cup {None} :
            LookUp(h, user, master, size)
      BY <2>1
    <3>2. size \in Nat \cup {None}
      BY <1>5 DEF Sizes
    <3>3. [user |-> user, master |-> master, size |-> size] \in LookUpCall
      BY <3>2 DEF LookUpCall
    <3> QED
      BY <3>1, <3>3, <1>2, <1>5 DEF LookUp, Begin
  <2>2. CASE \E oldSize \in digests : GetNewCheckPoint(h, oldSize)
    BY <2>2, <1>2, <1>5 DEF GetNewCheckPoint, Begin, CheckPointCall
  <2>3. CASE ReadSize(h)
    BY <2>3, <1>2, <1>5 DEF ReadSize, LookUpCall
  <2>4. CASE GetRecords(h)
    BY <2>4, <1>2, <1>5 DEF GetRecords
  <2>5. CASE PickRecord(h)
    BY <2>5, <1>2, <1>5 DEF PickRecord
  <2>6. CASE LookInCache(h)
    BY <2>6, <1>2, <1>5 DEF LookInCache
  <2>7. CASE ProveExtension(h)
    BY <2>7, <1>2, <1>5 DEF ProveExtension
  <2>8. CASE FillCache(h)
    BY <2>8, <1>2, <1>5 DEF FillCache
  <2>9. CASE AnswerCheckPoint(h)
    BY <2>9, <1>2, <1>5 DEF AnswerCheckPoint
  <2> HIDE DEF Fine
  <2> QED
    BY <2>1, <2>2, <2>3, <2>4, <2>5, <2>6, <2>7, <2>8, <2>9
       DEF ReaderAction, LookUpStep, CheckPointStep
<1>7. ReadersTypeOK'
  BY <1>4, <1>6 DEF ReadersTypeOK
<1>8. ServerTypeOK'
  BY <1>1 DEF TypeOK, ServerTypeOK, storeVars, treeVars, epochVars
<1> QED
  BY <1>1, <1>3, <1>7, <1>8 DEF TypeOK

LEMMA EpochTypes ==
  ASSUME TypeOK, EpochAction
  PROVE  TypeOK'
<1>1. UNCHANGED << callVars, storeVars, treeVars >>
  BY EpochFrame
<1>2. CallsAreFunctions' /\ WritersTypeOK' /\ ReadersTypeOK'
  BY <1>1 DEF callVars, TypeOK, CallsAreFunctions, WritersTypeOK, ReadersTypeOK, Placed
<1>3. ServerTypeOK'
  BY <1>1 DEF EpochAction, EpochStep, StartEpoch, PublishPos, PublishDigest, DumpProofs, TypeOK,
              ServerTypeOK, storeVars, treeVars
<1> QED
  BY <1>2, <1>3 DEF TypeOK

LEMMA InitTypeOK == Init => TypeOK
<1> SUFFICES ASSUME Init PROVE TypeOK
  OBVIOUS
<1>1. CallsAreFunctions
  BY DEF Init, CallsAreFunctions
<1>2. WritersTypeOK /\ ReadersTypeOK
  BY DEF Init, WritersTypeOK, ReadersTypeOK, Handlers, WriterLabels, ReaderLabels, LookUpLabels,
         CheckPointLabels, Placed
<1>3. masterKeys \in [Users -> Seq(Nat)] /\ publicKeys \in [Users -> Seq(Nat)] /\ log \in Seq(Users)
  BY DEF Init
<1>4. ServerTypeOK
  BY <1>3 DEF Init, ServerTypeOK
<1> QED
  BY <1>1, <1>2, <1>4 DEF TypeOK

LEMMA NextTypeOK == TypeOK /\ [Next]_vars => TypeOK'
<1> SUFFICES ASSUME TypeOK, [Next]_vars PROVE TypeOK'
  OBVIOUS
<1>1. CASE UNCHANGED vars
  BY <1>1 DEF vars, callVars, storeVars, treeVars, epochVars, TypeOK, CallsAreFunctions,
              WritersTypeOK, ReadersTypeOK, ServerTypeOK, Placed
<1> QED
  BY <1>1, Actors, WriterTypes, ReaderTypes, EpochTypes

\* The types of the state are what TypeOK says.
THEOREM TypeCorrect == Spec => []TypeOK
  BY InitTypeOK, NextTypeOK, PTL DEF Spec

-----------------------------------------------------------------------------
(* The log.                                                                *)

\* LastPos is ahead of the log by the entry whose signature the holder of LastPosLock
\* waits for, or waited for when it failed.
TreeInv ==
  /\ LastPos = Len(log) + (IF LastPosLock = None THEN 0 ELSE 1)
  /\ \A h \in Writers : pc[h] = "signature" => LastPosLock = h /\ position[h] = Len(log)

\* Between PublishPos and PublishDigest the digest is behind.
EpochInv ==
  /\ PublishedPos <= Len(log)
  /\ IF loop = "digest" THEN PublishedDigest < PublishedPos ELSE PublishedDigest = PublishedPos
  /\ \A size \in digests : size <= PublishedDigest

LogInv == TypeOK /\ TreeInv /\ EpochInv

\* An entry at a time is added to the log, by a call that has not one in it.
LEMMA WriterLogSteps ==
  ASSUME LogInv, NEW h \in Writers, WriterAction(h)
  PROVE  /\ TreeInv'
         /\ \/ UNCHANGED log
            \/ /\ request[h].user \in Users
               /\ log' = Append(log, request[h].user)
               /\ request'[h] = request[h]
               /\ pc[h] \in { "register", "appendKey", "signature" }
               /\ Placed(h)'
               /\ position'[h] = Len(log)
<1>1. \A g \in Handlers \ {h} : SameCall(g)
  BY WriterFrame DEF LogInv, TypeOK
<1>2. /\ h \in Handlers
      /\ None \notin Writers
      /\ \A g \in Writers : g \in Handlers
  BY CallsAssumption DEF Handlers
<1>3. CallsAreFunctions /\ (pc[h] # "idle" => request[h].user \in Users)
  BY DEF LogInv, TypeOK, WritersTypeOK, WriteCall
<1>4. log \in Seq(Users) /\ Len(log) \in Nat
  BY DEF LogInv, TypeOK, ServerTypeOK
<1>5. /\ LastPos = Len(log) + (IF LastPosLock = None THEN 0 ELSE 1)
      /\ \A g \in Writers : pc[g] = "signature" => LastPosLock = g /\ position[g] = Len(log)
  BY DEF LogInv, TreeInv
<1>6. \A g \in Writers \ {h} : pc'[g] = pc[g] /\ position'[g] = position[g]
  BY <1>1, <1>2 DEF SameCall
<1>7. \A e \in Users : Len(Append(log, e)) = Len(log) + 1
  BY <1>3, <1>4, <1>5
<1> DEFINE Goal ==
      /\ LastPos' = Len(log') + (IF LastPosLock' = None THEN 0 ELSE 1)
      /\ \A g \in Writers : pc'[g] = "signature" => LastPosLock' = g /\ position'[g] = Len(log')
      /\ \/ UNCHANGED log
         \/ /\ request[h].user \in Users
            /\ log' = Append(log, request[h].user)
            /\ request'[h] = request[h]
            /\ pc[h] \in { "register", "appendKey", "signature" }
            /\ pc'[h] \in { "putKey", "getKeys", "putKeys", "done" }
            /\ position'[h] = Len(log)
<1>8. CASE pc'[h] # "signature" /\ UNCHANGED treeVars
  <2> SUFFICES Goal
    BY DEF TreeInv, Placed
  <2>1. \A g \in Writers : pc'[g] = "signature" => LastPosLock' = g /\ position'[g] = Len(log')
    BY <1>8, <1>5, <1>6 DEF treeVars
  <2> QED
    BY <2>1, <1>8, <1>5 DEF treeVars
<1>9. CASE \E user \in Users :
             Register(h, user) \/ StartAppend(h, user) \/ StartAppendUserKey(h, user)
  <2>1. pc'[h] # "signature" /\ UNCHANGED treeVars
    BY <1>9, <1>2, <1>3 DEF CallsAreFunctions, Register, StartAppend, StartAppendUserKey, Begin, GoTo
  <2> QED
    BY <1>8, <2>1
<1>10. CASE FailAppend(h) \/ PutMasterKey(h) \/ GetKeys(h) \/ PutKeys(h)
  <2>1. pc'[h] # "signature" /\ UNCHANGED treeVars
    BY <1>10, <1>2, <1>3 DEF CallsAreFunctions, FailAppend, PutMasterKey, GetKeys, PutKeys, GoTo
  <2> QED
    BY <1>8, <2>1
<1>11. CASE AcceptSignature(h)
  <2> SUFFICES Goal
    BY DEF TreeInv, Placed
  <2>1. /\ request[h].user \in Users
        /\ log' = Append(log, request[h].user)
        /\ pc[h] = "signature" /\ pc'[h] = "getKeys"
        /\ LastPosLock' = None /\ LastPos' = LastPos
        /\ request'[h] = request[h]
        /\ position'[h] = position[h]
    BY <1>11, <1>2, <1>3 DEF CallsAreFunctions, AcceptSignature, AppendToTree, GoTo
  <2>2. Len(log') = Len(log) + 1 /\ LastPosLock = h /\ position[h] = Len(log)
    BY <2>1, <1>5, <1>7
  <2>3. \A g \in Writers : pc'[g] # "signature"
    BY <2>2, <2>1, <1>5, <1>6
  <2> QED
    BY <2>2, <2>3, <2>1, <1>2, <1>4, <1>5
<1>12. CASE RegisterKey(h) \/ AppendUserKey(h)
  <2> SUFFICES Goal
    BY DEF TreeInv, Placed
  <2>1. /\ request[h].user \in Users
        /\ log' = Append(log, request[h].user)
        /\ pc[h] \in { "register", "appendKey" } /\ pc'[h] \in { "putKey", "getKeys" }
        /\ LastPosLock' = None /\ LastPosLock = None /\ LastPos' = LastPos + 1
        /\ request'[h] = request[h]
        /\ position'[h] = LastPos
    BY <1>12, <1>2, <1>3 DEF CallsAreFunctions, RegisterKey, AppendUserKey, AppendToTree, GoTo
  <2>2. Len(log') = Len(log) + 1
    BY <2>1, <1>7
  <2>3. \A g \in Writers : pc'[g] # "signature"
    BY <2>1, <1>2, <1>5, <1>6
  <2> QED
    BY <2>1, <2>3, <2>2, <1>2, <1>4, <1>5
<1>13. CASE SendPosition(h)
  <2> SUFFICES Goal
    BY DEF TreeInv, Placed
  <2>1. /\ log' = log /\ position'[h] = LastPos /\ LastPos' = LastPos + 1
        /\ LastPosLock = None /\ LastPosLock' = h
    BY <1>13, <1>2, <1>3 DEF CallsAreFunctions, SendPosition
  <2>2. \A g \in Writers \ {h} : pc'[g] # "signature"
    BY <2>1, <1>2, <1>5, <1>6
  <2> QED
    BY <2>1, <2>2, <1>2, <1>4, <1>5
<1> QED
  BY <1>9, <1>10, <1>11, <1>12, <1>13 DEF WriterAction, WriterStep

\* A digest is published when the position is, and never for entries that are not
\* in the log.
LEMMA EpochLogSteps ==
  ASSUME LogInv, EpochAction
  PROVE  /\ EpochInv'
         /\ \/ UNCHANGED PublishedDigest
            \/ /\ PublishedDigest' \in PublishedDigest + 1 .. Len(log)
               /\ UNCHANGED log
<1>1. log' = log /\ Len(log) \in Nat /\ PublishedPos \in Nat /\ PublishedDigest \in Nat
  BY EpochFrame DEF treeVars, LogInv, TypeOK, ServerTypeOK
<1>2. /\ PublishedPos <= Len(log)
      /\ IF loop = "digest" THEN PublishedDigest < PublishedPos ELSE PublishedDigest = PublishedPos
      /\ \A size \in digests : size \in Nat /\ size <= PublishedDigest
  BY DEF LogInv, TypeOK, ServerTypeOK, EpochInv
<1>3. LastPosLock = None => LastPos = Len(log)
  BY <1>1 DEF LogInv, TreeInv
<1>4. CASE StartEpoch \/ DumpProofs
  BY <1>1, <1>2, <1>4 DEF StartEpoch, DumpProofs, EpochInv
<1>5. CASE PublishPos
  BY <1>1, <1>2, <1>5, <1>3 DEF PublishPos, EpochInv
<1>6. CASE PublishDigest
  BY <1>1, <1>2, <1>6 DEF PublishDigest, EpochInv
<1> QED
  BY <1>4, <1>5, <1>6 DEF EpochAction, EpochStep

LEMMA LogInvInit == Init => LogInv
<1> SUFFICES ASSUME Init PROVE LogInv
  OBVIOUS
<1>1. TypeOK
  BY InitTypeOK
<1>2. TreeInv /\ EpochInv
  BY DEF Init, TreeInv, EpochInv, Handlers
<1> QED
  BY <1>1, <1>2 DEF LogInv

LEMMA LogInvNext == LogInv /\ [Next]_vars => LogInv'
<1> SUFFICES ASSUME LogInv, [Next]_vars PROVE LogInv'
  OBVIOUS
<1>1. TypeOK'
  BY NextTypeOK DEF LogInv
<1>2. ASSUME NEW h \in Writers, WriterAction(h) PROVE TreeInv' /\ EpochInv'
  <2>1. TreeInv' /\ (UNCHANGED log \/ \E user \in Users : log' = Append(log, user))
    BY <1>2, WriterLogSteps
  <2>2. UNCHANGED epochVars
    BY <1>2, WriterFrame DEF LogInv, TypeOK
  <2>3. Len(log) <= Len(log') /\ Len(log) \in Nat /\ Len(log') \in Nat /\ PublishedPos \in Nat
    BY <2>1 DEF LogInv, TypeOK, ServerTypeOK
  <2> QED
    BY <2>1, <2>2, <2>3 DEF LogInv, EpochInv, epochVars
<1>3. ASSUME NEW h \in Readers, ReaderAction(h) PROVE TreeInv' /\ EpochInv'
  <2>1. /\ UNCHANGED << storeVars, treeVars, epochVars >>
        /\ \A g \in Handlers \ {h} : SameCall(g)
    BY <1>3, ReaderFrame DEF LogInv, TypeOK
  <2>2. \A g \in Writers : pc'[g] = pc[g] /\ position'[g] = position[g]
    BY <2>1, CallsAssumption DEF SameCall, Handlers
  <2> QED
    BY <2>1, <2>2 DEF LogInv, TreeInv, EpochInv, treeVars, epochVars
<1>4. ASSUME EpochAction PROVE TreeInv' /\ EpochInv'
  <2>1. EpochInv' /\ UNCHANGED << callVars, treeVars >>
    BY <1>4, EpochLogSteps, EpochFrame
  <2> QED
    BY <2>1 DEF LogInv, TreeInv, callVars, treeVars
<1>5. ASSUME UNCHANGED vars PROVE TreeInv' /\ EpochInv'
  BY <1>5 DEF vars, callVars, treeVars, epochVars, LogInv, TreeInv, EpochInv
<1> QED
  BY <1>1, <1>2, <1>3, <1>4, <1>5, Actors DEF LogInv

LEMMA LogAlwaysSound == Spec => []LogInv
  BY LogInvInit, LogInvNext, PTL DEF Spec

\* Behind its locks, cache and goroutines the server is a log that grows by an
\* entry at a time, of which ever longer prefixes are published.
THEOREM ServerImplementsKeyLog == Spec => ImplementsKeyLog
<1>1. Init => KeyLogOf!LogInit
  BY DEF Init, KeyLogOf!LogInit
<1>2. LogInv /\ [Next]_vars => [KeyLogOf!LogNext]_<< log, PublishedDigest >>
  <2> SUFFICES ASSUME LogInv, [Next]_vars
               PROVE  [KeyLogOf!LogNext]_<< log, PublishedDigest >>
    OBVIOUS
  <2>1. ASSUME NEW h \in Writers, WriterAction(h)
        PROVE  [KeyLogOf!LogNext]_<< log, PublishedDigest >>
    <3>1. UNCHANGED log \/ \E user \in Users : log' = Append(log, user)
      BY <2>1, WriterLogSteps
    <3>2. UNCHANGED PublishedDigest
      BY <2>1, WriterFrame DEF LogInv, TypeOK, epochVars
    <3> QED
      BY <3>1, <3>2 DEF KeyLogOf!LogNext, KeyLogOf!Accept
  <2>2. ASSUME NEW h \in Readers, ReaderAction(h)
        PROVE  [KeyLogOf!LogNext]_<< log, PublishedDigest >>
    BY <2>2, ReaderFrame DEF LogInv, TypeOK, treeVars, epochVars
  <2>3. ASSUME EpochAction PROVE [KeyLogOf!LogNext]_<< log, PublishedDigest >>
    <3>1. UNCHANGED log
      BY <2>3, EpochFrame DEF treeVars
    <3>2. \/ UNCHANGED PublishedDigest
          \/ PublishedDigest' \in PublishedDigest + 1 .. Len(log)
      BY <2>3, EpochLogSteps
    <3> QED
      BY <3>1, <3>2 DEF KeyLogOf!LogNext, KeyLogOf!Publish
  <2>4. ASSUME UNCHANGED vars PROVE [KeyLogOf!LogNext]_<< log, PublishedDigest >>
    BY <2>4 DEF vars, treeVars, epochVars
  <2> QED
    BY <2>1, <2>2, <2>3, <2>4, Actors
<1> QED
  BY <1>1, <1>2, LogAlwaysSound, PTL DEF Spec, ImplementsKeyLog, KeyLogOf!LogSpec

-----------------------------------------------------------------------------
(* Entries, calls and the store.                                           *)

\* Every entry is that of one call, of its user, and the other way round.
EntriesAreCalls ==
  /\ \A h \in Writers : Placed(h) => /\ position[h] < Len(log)
                                     /\ log[position[h] + 1] = request[h].user
  /\ \A g, h \in Writers : Placed(g) /\ Placed(h) /\ position[g] = position[h] => g = h
  /\ \A p \in 0 .. Len(log) - 1 : \E h \in Writers : Placed(h) /\ position[h] = p

\* Which calls are registrations, and one for a user.
RegistrationsInv ==
  /\ \A h \in Writers :
       /\ pc[h] \in { "register", "putKey" } => request[h].master
       /\ pc[h] \in { "lock", "appendKey", "signature", "getKeys", "putKeys" } => ~ request[h].master
  /\ \A g, h \in Writers :
       /\ pc[g] # "idle" /\ pc[h] # "idle"
       /\ request[g].user = request[h].user /\ request[g].master /\ request[h].master
       => g = h

\* A key is appended only after the user's master key is stored.
MasterKeysInv ==
  /\ \A h \in Writers :
       pc[h] \notin { "idle", "failed" } /\ ~ request[h].master => masterKeys[request[h].user] # <<>>
  /\ \A user \in Users : masterKeys[user] # <<>> =>
       \E h \in Writers : /\ pc[h] = "done" /\ request[h].user = user /\ request[h].master
                          /\ masterKeys[user] = << position[h] >>
  /\ \A g, h \in Writers :
       /\ Placed(g) /\ Placed(h)
       /\ request[g].user = request[h].user /\ request[g].master /\ ~ request[h].master
       => position[g] < position[h]

\* The positions of the user's keys that are in the log.
Appended(user) ==
  { position[h] : h \in { g \in Writers : /\ Placed(g) /\ request[g].user = user
                                          /\ ~ request[g].master } }

AppendedFor(h) == Appended(request[h].user)

\* What is stored, or about to be, was appended.
PublicKeysInv ==
  /\ \A user \in Users : ToSet(publicKeys[user]) \subseteq Appended(user)
  /\ \A h \in Writers : pc[h] = "putKeys" => ToSet(original[h]) \subseteq AppendedFor(h)

StoreInv == LogInv /\ EntriesAreCalls /\ RegistrationsInv /\ MasterKeysInv /\ PublicKeysInv

\* The store tells of a user's entries as the log has them, and the master key is the first.
StoreMatchesLog ==
  \A user \in Users :
    /\ \A p \in ToSet(publicKeys[user]) : p < Len(log) /\ log[p + 1] = user
    /\ \A p \in ToSet(masterKeys[user]) : /\ p < Len(log) /\ log[p + 1] = user
                                          /\ \A q \in 0 .. p - 1 : log[q + 1] # user
    /\ \A p \in ToSet(masterKeys[user]), q \in ToSet(publicKeys[user]) : p < q

\* A call whose entry is in the log stays so, and a call is given its entry with
\* the position that is the log's length.
LEMMA PlacedCalls ==
  ASSUME LogInv, NEW h \in Writers, WriterAction(h)
  PROVE  /\ \A g \in Writers : Placed(g) =>
              Placed(g)' /\ position'[g] = position[g] /\ request'[g] = request[g]
         /\ \/ /\ UNCHANGED log
               /\ \A g \in Writers : Placed(g)' => Placed(g)
            \/ /\ request[h].user \in Users
               /\ log' = Append(log, request[h].user)
               /\ request'[h] = request[h]
               /\ pc[h] \in { "register", "appendKey", "signature" }
               /\ Placed(h)'
               /\ position'[h] = Len(log)
<1>1. \A g \in Handlers \ {h} : SameCall(g)
  BY WriterFrame DEF LogInv, TypeOK
<1>2. h \in Handlers /\ h \notin Readers /\ \A g \in Writers : g \in Handlers
  BY CallsAssumption DEF Handlers
<1>3. \A g \in Writers \ {h} : /\ position'[g] = position[g] /\ request'[g] = request[g]
                               /\ Placed(g)' = Placed(g)
  BY <1>1, <1>2 DEF SameCall, Placed
<1>4. \/ UNCHANGED log
      \/ /\ request[h].user \in Users
         /\ log' = Append(log, request[h].user)
         /\ request'[h] = request[h]
         /\ pc[h] \in { "register", "appendKey", "signature" }
         /\ Placed(h)'
         /\ position'[h] = Len(log)
  BY WriterLogSteps
<1>5. CallsAreFunctions
  BY DEF LogInv, TypeOK
<1> DEFINE Stays == Placed(h) => Placed(h)' /\ position'[h] = position[h] /\ request'[h] = request[h]
           New   == Placed(h)' => Placed(h) \/ log' = Append(log, request[h].user)
<1>6. CASE \E user \in Users :
             Register(h, user) \/ StartAppend(h, user) \/ StartAppendUserKey(h, user)
  <2>1. pc[h] = "idle" /\ pc'[h] \in { "register", "failed", "lock", "appendKey" }
    BY <1>6, <1>2, <1>5 DEF Register, StartAppend, StartAppendUserKey, Begin, GoTo, CallsAreFunctions
  <2> QED
    BY <2>1, <1>3, <1>4 DEF Placed
<1>7. CASE FailAppend(h) \/ SendPosition(h)
  <2>1. pc[h] \in { "signature", "lock" } /\ pc'[h] \in { "signature", "failed" }
    BY <1>7, <1>2, <1>5 DEF FailAppend, SendPosition, GoTo, CallsAreFunctions
  <2> QED
    BY <2>1, <1>3, <1>4 DEF Placed
<1>8. CASE AcceptSignature(h) \/ RegisterKey(h) \/ AppendUserKey(h)
  <2>1. /\ pc[h] \in { "register", "appendKey", "signature" }
        /\ log' = Append(log, request[h].user)
    BY <1>8 DEF AcceptSignature, RegisterKey, AppendUserKey, AppendToTree
  <2>2. log' # log
    <3>1. request[h].user \in Users /\ log \in Seq(Users)
      BY <2>1, <1>2 DEF LogInv, TypeOK, WritersTypeOK, WriteCall, ServerTypeOK
    <3>2. Len(Append(log, request[h].user)) = Len(log) + 1 /\ Len(log) \in Nat
      BY <3>1
    <3>3. Len(Append(log, request[h].user)) # Len(log)
      BY <3>2
    <3> QED
      BY <2>1, <3>3
  <2> QED
    BY <2>1, <2>2, <1>3, <1>4 DEF Placed
<1>9. CASE PutMasterKey(h) \/ GetKeys(h) \/ PutKeys(h)
  <2>1. /\ pc[h] \in { "putKey", "getKeys", "putKeys" } /\ pc'[h] \in { "done", "putKeys" }
        /\ position'[h] = position[h] /\ request'[h] = request[h]
    BY <1>9, <1>2, <1>5 DEF PutMasterKey, GetKeys, PutKeys, GoTo, CallsAreFunctions
  <2> QED
    BY <2>1, <1>3, <1>4 DEF Placed
<1> QED
  BY <1>6, <1>7, <1>8, <1>9 DEF WriterAction, WriterStep

LEMMA WriterEntries ==
  ASSUME LogInv, EntriesAreCalls, NEW h \in Writers, WriterAction(h)
  PROVE  EntriesAreCalls'
<1>1. /\ \A g \in Writers : Placed(g) => position[g] \in Nat
      /\ log \in Seq(Users)
      /\ Len(log) \in Nat
  BY DEF LogInv, TypeOK, WritersTypeOK, ServerTypeOK
<1>2. \A g \in Writers : Placed(g) =>
        Placed(g)' /\ position'[g] = position[g] /\ request'[g] = request[g]
  BY PlacedCalls
<1>3. CASE UNCHANGED log /\ \A g \in Writers : Placed(g)' => Placed(g)
  BY <1>2, <1>3 DEF EntriesAreCalls
<1>4. ASSUME request[h].user \in Users, log' = Append(log, request[h].user),
             request'[h] = request[h], Placed(h)', ~ Placed(h), position'[h] = Len(log)
      PROVE  EntriesAreCalls'
  <2>1. /\ Len(log') = Len(log) + 1
        /\ log'[Len(log) + 1] = request[h].user
        /\ \A p \in 0 .. Len(log) - 1 : log'[p + 1] = log[p + 1]
    BY <1>1, <1>4
  <2>2. \A g \in Writers \ {h} : /\ Placed(g)' <=> Placed(g)
                                 /\ Placed(g) => position'[g] = position[g] /\ request'[g] = request[g]
    <3>1. \A g \in Handlers \ {h} : SameCall(g)
      BY WriterFrame DEF LogInv, TypeOK
    <3> QED
      BY <3>1 DEF SameCall, Placed, Handlers
  <2>3. \A g \in Writers \ {h} : Placed(g)' =>
          /\ position'[g] \in 0 .. Len(log) - 1
          /\ log'[position'[g] + 1] = request'[g].user
    BY <1>1, <2>1, <2>2 DEF EntriesAreCalls
  <2>4. \A g \in Writers : Placed(g)' => /\ position'[g] < Len(log')
                                         /\ log'[position'[g] + 1] = request'[g].user
    BY <1>1, <1>4, <2>1, <2>3
  <2>5. \A f, g \in Writers : Placed(f)' /\ Placed(g)' /\ position'[f] = position'[g] => f = g
    BY <1>1, <1>4, <2>2, <2>3 DEF EntriesAreCalls
  <2>6. ASSUME NEW p \in 0 .. Len(log') - 1
        PROVE  \E g \in Writers : Placed(g)' /\ position'[g] = p
    <3>1. CASE p = Len(log)
      BY <3>1, <1>4
    <3>2. CASE p # Len(log)
      <4>1. p \in 0 .. Len(log) - 1
        BY <3>2, <2>1, <1>1
      <4> QED
        BY <4>1, <1>2 DEF EntriesAreCalls
    <3> QED
      BY <3>1, <3>2
  <2> QED
    BY <2>4, <2>5, <2>6 DEF EntriesAreCalls
<1>5. pc[h] \in { "register", "appendKey", "signature" } => ~ Placed(h)
  BY DEF Placed
<1> QED
  BY <1>3, <1>4, <1>5, PlacedCalls

\* What a call asks for stays so, once its first step has said it, and goes its way.
LEMMA WriterCalls ==
  ASSUME LogInv, NEW h \in Writers, WriterAction(h)
  PROVE  \/ /\ pc[h] = "idle" /\ pc'[h] \in { "register", "lock", "appendKey", "failed" }
            /\ request'[h] \in WriteCall
            /\ request'[h].master => ~ Registers(request'[h].user)
            /\ pc'[h] = "register" => request'[h].master
            /\ pc'[h] \in { "lock", "appendKey" } =>
                 ~ request'[h].master /\ ~ Unregistered(request'[h].user)
         \/ /\ pc[h] \in { "register", "putKey" } /\ pc'[h] \in { "putKey", "done" }
            /\ request'[h] = request[h]
         \/ /\ pc[h] \in { "lock", "appendKey", "signature", "getKeys", "putKeys" }
            /\ pc'[h] \in { "signature", "getKeys", "putKeys", "done", "failed" }
            /\ request'[h] = request[h]
<1>1. h \in Handlers /\ h \notin Readers /\ CallsAreFunctions
  BY CallsAssumption DEF Handlers, LogInv, TypeOK
<1>2. CASE \E user \in Users : Register(h, user)
  <2>1. PICK user \in Users : Register(h, user)
    BY <1>2
  <2>2. /\ request'[h] = [user |-> user, master |-> TRUE]
        /\ pc[h] = "idle" /\ pc'[h] \in { "register", "failed" }
        /\ ~ Registers(user)
    BY <2>1, <1>1 DEF Register, Begin, GoTo, CallsAreFunctions
  <2>3. request'[h] \in WriteCall /\ request'[h].master /\ request'[h].user = user
    BY <2>2 DEF WriteCall
  <2> QED
    BY <2>2, <2>3
<1>3. CASE \E user \in Users : StartAppend(h, user) \/ StartAppendUserKey(h, user)
  <2>1. PICK user \in Users : StartAppend(h, user) \/ StartAppendUserKey(h, user)
    BY <1>3
  <2>2. /\ request'[h] = [user |-> user, master |-> FALSE]
        /\ pc[h] = "idle" /\ pc'[h] \in { "lock", "appendKey", "failed" }
        /\ pc'[h] # "failed" => ~ Unregistered(user)
    BY <2>1, <1>1 DEF StartAppend, StartAppendUserKey, Begin, GoTo, CallsAreFunctions
  <2>3. request'[h] \in WriteCall /\ ~ request'[h].master /\ request'[h].user = user
    BY <2>2 DEF WriteCall
  <2> QED
    BY <2>2, <2>3
<1>4. CASE RegisterKey(h) \/ PutMasterKey(h)
  BY <1>1, <1>4 DEF RegisterKey, PutMasterKey, GoTo, CallsAreFunctions
<1>5. CASE FailAppend(h) \/ SendPosition(h) \/ AcceptSignature(h)
  BY <1>1, <1>5 DEF FailAppend, SendPosition, AcceptSignature, GoTo, CallsAreFunctions
<1>6. CASE AppendUserKey(h) \/ GetKeys(h) \/ PutKeys(h)
  BY <1>1, <1>6 DEF AppendUserKey, GetKeys, PutKeys, GoTo, CallsAreFunctions
<1> QED
  BY <1>2, <1>3, <1>4, <1>5, <1>6 DEF WriterAction, WriterStep

\* The other writers do as before.
LEMMA OtherWriters ==
  ASSUME LogInv, NEW h \in Writers, WriterAction(h)
  PROVE  \A g \in Writers \ {h} :
           /\ pc'[g] = pc[g] /\ request'[g] = request[g] /\ position'[g] = position[g]
           /\ original'[g] = original[g]
  BY WriterFrame DEF LogInv, TypeOK, SameCall, Handlers

LEMMA WriterRegistrations ==
  ASSUME LogInv, RegistrationsInv, NEW h \in Writers, WriterAction(h)
  PROVE  RegistrationsInv'
<1>1. \A g \in Writers :
        /\ pc'[g] \in { "register", "putKey" } => request'[g].master
        /\ pc'[g] \in { "lock", "appendKey", "signature", "getKeys", "putKeys" } => ~ request'[g].master
  BY WriterCalls, OtherWriters DEF RegistrationsInv
<1>2. \A f, g \in Writers :
        /\ pc'[f] # "idle" /\ pc'[g] # "idle"
        /\ request'[f].user = request'[g].user /\ request'[f].master /\ request'[g].master
        => f = g
  BY WriterCalls, OtherWriters DEF RegistrationsInv, Registers
<1> QED
  BY <1>1, <1>2 DEF RegistrationsInv

\* Only the end of a registration changes a master key.
LEMMA MasterKeySteps ==
  ASSUME LogInv, NEW h \in Writers, WriterAction(h)
  PROVE  \/ UNCHANGED masterKeys
         \/ /\ pc[h] = "putKey" /\ pc'[h] = "done" /\ request[h].user \in Users
            /\ masterKeys' = [masterKeys EXCEPT ![request[h].user] = << position[h] >>]
<1>1. h \in Handlers /\ CallsAreFunctions
  BY DEF Handlers, LogInv, TypeOK
<1>2. CASE PutMasterKey(h)
  <2>1. request[h].user \in Users
    BY <1>2 DEF PutMasterKey, LogInv, TypeOK, WritersTypeOK, WriteCall
  <2> QED
    BY <1>1, <1>2, <2>1 DEF PutMasterKey, GoTo, CallsAreFunctions
<1> QED
  BY <1>2 DEF WriterAction, WriterStep, Register, StartAppend, StartAppendUserKey, Begin, storeVars,
              AcceptSignature, FailAppend, RegisterKey, AppendUserKey, SendPosition, GetKeys, PutKeys

LEMMA WriterMasterKeys ==
  ASSUME LogInv, EntriesAreCalls, RegistrationsInv, MasterKeysInv, NEW h \in Writers, WriterAction(h)
  PROVE  MasterKeysInv'
<1>1. /\ \A g \in Writers : Placed(g) => position[g] \in Nat /\ position[g] < Len(log)
      /\ \A g \in Writers : pc[g] # "idle" => request[g].user \in Users
      /\ masterKeys \in [Users -> Seq(Nat)]
      /\ Len(log) \in Nat
  BY DEF LogInv, TypeOK, WritersTypeOK, ServerTypeOK, EntriesAreCalls, WriteCall
<1>2. \A user \in Users : masterKeys[user] # <<>> => masterKeys'[user] # <<>>
  <2>1. << position[h] >> # <<>>
    OBVIOUS
  <2> QED
    BY <1>1, <2>1, MasterKeySteps
<1>3. ASSUME NEW g \in Writers, pc'[g] \notin { "idle", "failed" }, ~ request'[g].master
      PROVE  masterKeys'[request'[g].user] # <<>>
  <2>1. CASE g # h
    BY <2>1, <1>1, <1>2, <1>3, OtherWriters DEF MasterKeysInv
  <2>2. CASE g = h
    <3>1. \/ request'[h].user \in Users /\ ~ Unregistered(request'[h].user)
          \/ pc[h] \notin { "idle", "failed" } /\ request'[h] = request[h]
      BY <2>2, <1>3, WriterCalls DEF WriteCall
    <3> QED
      BY <3>1, <2>2, <1>1, <1>2, <1>3 DEF MasterKeysInv, Unregistered
  <2> QED
    BY <2>1, <2>2
<1>4. ASSUME NEW user \in Users, masterKeys'[user] # <<>>
      PROVE  \E g \in Writers : /\ pc'[g] = "done" /\ request'[g].user = user /\ request'[g].master
                                /\ masterKeys'[user] = << position'[g] >>
  <2>1. CASE masterKeys'[user] = masterKeys[user]
    <3>1. PICK g \in Writers : /\ pc[g] = "done" /\ request[g].user = user /\ request[g].master
                               /\ masterKeys[user] = << position[g] >>
      BY <2>1, <1>4 DEF MasterKeysInv
    <3>2. g # h
      BY <3>1, WriterCalls
    <3> QED
      BY <2>1, <3>1, <3>2, OtherWriters
  <2>2. CASE masterKeys'[user] # masterKeys[user]
    <3>1. /\ pc[h] = "putKey" /\ pc'[h] = "done" /\ request[h].user = user
          /\ masterKeys'[user] = << position[h] >>
      BY <2>2, <1>1, MasterKeySteps
    <3>2. request[h].master /\ request'[h] = request[h]
      BY <3>1, WriterCalls DEF RegistrationsInv
    <3>3. position'[h] = position[h]
      BY <3>1, PlacedCalls DEF Placed
    <3> QED
      BY <3>1, <3>2, <3>3
  <2> QED
    BY <2>1, <2>2
<1>5. ASSUME NEW f \in Writers, NEW g \in Writers, Placed(f)', Placed(g)',
             request'[f].user = request'[g].user, request'[f].master, ~ request'[g].master
      PROVE  position'[f] < position'[g]
  <2>1. CASE Placed(f) /\ Placed(g)
    <3>1. /\ position'[f] = position[f] /\ request'[f] = request[f]
          /\ position'[g] = position[g] /\ request'[g] = request[g]
      BY <2>1, PlacedCalls
    <3> QED
      BY <2>1, <3>1, <1>5 DEF MasterKeysInv
  <2>2. ASSUME Placed(f), ~ Placed(g) PROVE position'[f] < position'[g]
    <3>1. g = h
      BY <2>2, <1>5, OtherWriters DEF Placed
    <3>2. position'[g] = Len(log) /\ position'[f] = position[f]
      BY <2>2, <1>5, <3>1, PlacedCalls
    <3> QED
      BY <2>2, <3>2, <1>1
  <2>3. ASSUME ~ Placed(f) PROVE FALSE
    <3>1. f = h
      BY <2>3, <1>5, OtherWriters DEF Placed
    <3>2. pc[h] = "register" /\ request'[h] = request[h] /\ request[h].master
      <4>1. pc[h] \in { "register", "appendKey", "signature" } /\ request'[h] = request[h]
        BY <2>3, <1>5, <3>1, PlacedCalls
      <4> QED
        BY <4>1, <1>5, <3>1 DEF RegistrationsInv
    <3>3. g # h /\ Placed(g) /\ request'[g] = request[g]
      BY <1>5, <3>1, OtherWriters DEF Placed
    <3>4. masterKeys[request[g].user] # <<>> /\ request[g].user \in Users
      BY <1>1, <1>5, <3>3 DEF Placed, MasterKeysInv
    <3>5. PICK k \in Writers : pc[k] = "done" /\ request[k].user = request[g].user /\ request[k].master
      BY <3>4 DEF MasterKeysInv
    <3>6. k = h
      BY <3>1, <3>2, <3>3, <3>5, <1>5 DEF RegistrationsInv
    <3> QED
      BY <3>2, <3>5, <3>6
  <2> QED
    BY <2>1, <2>2, <2>3
<1> QED
  BY <1>3, <1>4, <1>5 DEF MasterKeysInv

\* What a step appends to the log stays appended.
LEMMA AppendedStays ==
  ASSUME LogInv, NEW h \in Writers, WriterAction(h), NEW user \in Users
  PROVE  Appended(user) \subseteq Appended(user)'
  BY PlacedCalls DEF Appended

\* Only the end of an append changes a user's keys, and puts its own in front of those
\* it has read.
LEMMA PublicKeySteps ==
  ASSUME LogInv, NEW h \in Writers, WriterAction(h)
  PROVE  /\ \/ UNCHANGED publicKeys
            \/ /\ pc[h] = "putKeys" /\ request[h].user \in Users
               /\ publicKeys' = [publicKeys EXCEPT ![request[h].user] = << position[h] >> \o original[h]]
         /\ pc'[h] = "putKeys" =>
              /\ pc[h] = "getKeys" /\ request[h].user \in Users
              /\ request'[h] = request[h] /\ original'[h] = publicKeys[request[h].user]
<1>1. h \in Handlers /\ CallsAreFunctions
  BY DEF Handlers, LogInv, TypeOK
<1>2. pc[h] # "idle" => request[h].user \in Users
  BY DEF LogInv, TypeOK, WritersTypeOK, WriteCall
<1>3. CASE PutKeys(h)
  BY <1>1, <1>2, <1>3 DEF PutKeys, GoTo, CallsAreFunctions
<1>4. CASE GetKeys(h)
  BY <1>1, <1>2, <1>4 DEF GetKeys, GoTo, CallsAreFunctions, storeVars
<1>5. CASE PutMasterKey(h) \/ AcceptSignature(h) \/ FailAppend(h) \/ RegisterKey(h)
  BY <1>1, <1>5 DEF PutMasterKey, AcceptSignature, FailAppend, RegisterKey, GoTo, CallsAreFunctions,
                    storeVars
<1>6. CASE AppendUserKey(h) \/ SendPosition(h)
  BY <1>1, <1>6 DEF AppendUserKey, SendPosition, GoTo, CallsAreFunctions, storeVars
<1>7. CASE \E user \in Users :
             Register(h, user) \/ StartAppend(h, user) \/ StartAppendUserKey(h, user)
  BY <1>1, <1>7 DEF Register, StartAppend, StartAppendUserKey, Begin, GoTo, CallsAreFunctions,
                    storeVars
<1> QED
  BY <1>3, <1>4, <1>5, <1>6, <1>7 DEF WriterAction, WriterStep

LEMMA WriterPublicKeys ==
  ASSUME LogInv, RegistrationsInv, PublicKeysInv, NEW h \in Writers, WriterAction(h)
  PROVE  PublicKeysInv'
<1>1. publicKeys \in [Users -> Seq(Nat)]
  BY DEF LogInv, TypeOK, ServerTypeOK
<1>2. ASSUME NEW user \in Users PROVE ToSet(publicKeys'[user]) \subseteq Appended(user)'
  <2>1. CASE publicKeys'[user] = publicKeys[user]
    BY <2>1, AppendedStays DEF PublicKeysInv
  <2>2. CASE publicKeys'[user] # publicKeys[user]
    <3>1. /\ pc[h] = "putKeys" /\ request[h].user = user
          /\ publicKeys'[user] = << position[h] >> \o original[h]
      BY <2>2, <1>1, PublicKeySteps
    <3>2. position[h] \in Nat /\ original[h] \in Seq(Nat)
      BY <3>1 DEF LogInv, TypeOK, WritersTypeOK, Placed
    <3>3. ToSet(publicKeys'[user]) = ToSet(original[h]) \cup { position[h] }
      BY <3>1, <3>2, ToSetPrepend
    <3>4. ToSet(original[h]) \subseteq Appended(user)
      BY <3>1 DEF PublicKeysInv, AppendedFor
    <3>5. position[h] \in Appended(user)
      BY <3>1 DEF Appended, Placed, RegistrationsInv
    <3> QED
      BY <3>3, <3>4, <3>5, AppendedStays
  <2> QED
    BY <2>1, <2>2
<1>3. ASSUME NEW g \in Writers, pc'[g] = "putKeys"
      PROVE  ToSet(original'[g]) \subseteq AppendedFor(g)'
  <2>1. CASE g = h
    <3>1. /\ request'[h].user \in Users
          /\ original'[h] = publicKeys[request'[h].user]
      BY <2>1, <1>3, PublicKeySteps
    <3>2. ToSet(original'[h]) \subseteq Appended(request'[h].user)
      BY <3>1 DEF PublicKeysInv
    <3>3. PICK user \in Users : user = request'[h].user
      BY <3>1
    <3>4. Appended(user) \subseteq Appended(user)'
      BY AppendedStays
    <3> QED
      BY <2>1, <3>2, <3>3, <3>4 DEF Appended, AppendedFor
  <2>2. CASE g # h
    <3>1. pc[g] = "putKeys" /\ request'[g] = request[g] /\ original'[g] = original[g]
      BY <2>2, <1>3, OtherWriters
    <3>2. request[g].user \in Users
      BY <3>1 DEF LogInv, TypeOK, WritersTypeOK, WriteCall
    <3>3. PICK user \in Users : user = request[g].user
      BY <3>2
    <3>4. Appended(user) \subseteq Appended(user)'
      BY AppendedStays
    <3>5. ToSet(original'[g]) \subseteq Appended(user)
      BY <3>1, <3>3 DEF PublicKeysInv, AppendedFor
    <3> QED
      BY <3>1, <3>3, <3>4, <3>5 DEF Appended, AppendedFor
  <2> QED
    BY <2>1, <2>2
<1> QED
  BY <1>2, <1>3 DEF PublicKeysInv

LEMMA StoreInvInit == Init => StoreInv
<1> SUFFICES ASSUME Init PROVE StoreInv
  OBVIOUS
<1>1. LogInv
  BY LogInvInit
<1>2. \A h \in Writers : pc[h] = "idle" /\ ~ Placed(h)
  BY DEF Init, Handlers, Placed
<1>3. Len(log) = 0
  BY DEF Init
<1>4. EntriesAreCalls
  BY <1>2, <1>3 DEF EntriesAreCalls
<1>5. RegistrationsInv /\ MasterKeysInv
  BY <1>2 DEF Init, RegistrationsInv, MasterKeysInv
<1>6. \A user \in Users : ToSet(publicKeys[user]) = {}
  BY ToSetEmpty DEF Init
<1>7. PublicKeysInv
  BY <1>2, <1>6 DEF PublicKeysInv
<1> QED
  BY <1>1, <1>4, <1>5, <1>7 DEF StoreInv

LEMMA StoreInvNext == StoreInv /\ [Next]_vars => StoreInv'
<1> SUFFICES ASSUME StoreInv, [Next]_vars PROVE StoreInv'
  OBVIOUS
<1>1. LogInv' /\ LogInv
  BY LogInvNext DEF StoreInv
<1> DEFINE Rest == EntriesAreCalls /\ RegistrationsInv /\ MasterKeysInv /\ PublicKeysInv
<1>2. ASSUME NEW h \in Writers, WriterAction(h) PROVE Rest'
  BY <1>1, <1>2, WriterEntries, WriterRegistrations, WriterMasterKeys, WriterPublicKeys DEF StoreInv
<1>3. ASSUME UNCHANGED << storeVars, treeVars >>,
             \A g \in Writers : SameCall(g)
      PROVE  Rest'
  <2>1. \A g \in Writers : Placed(g)' = Placed(g)
    BY <1>3 DEF SameCall, Placed
  <2>2. EntriesAreCalls'
    BY <1>3, <2>1 DEF StoreInv, EntriesAreCalls, SameCall, treeVars
  <2>3. RegistrationsInv'
    BY <1>3 DEF StoreInv, RegistrationsInv, SameCall
  <2>4. MasterKeysInv'
    BY <1>3, <2>1 DEF StoreInv, MasterKeysInv, SameCall, storeVars
  <2>5. \A user \in Users : Appended(user)' = Appended(user)
    BY <1>3, <2>1 DEF SameCall, Appended
  <2>6. \A g \in Writers : pc[g] = "putKeys" => request[g].user \in Users
    BY <1>1 DEF LogInv, TypeOK, WritersTypeOK, WriteCall
  <2>7. PublicKeysInv'
    <3>1. \A user \in Users : ToSet(publicKeys'[user]) \subseteq Appended(user)'
      BY <1>3, <2>5 DEF StoreInv, PublicKeysInv, storeVars
    <3>2. ASSUME NEW g \in Writers, pc'[g] = "putKeys"
          PROVE  ToSet(original'[g]) \subseteq AppendedFor(g)'
      <4>1. pc[g] = "putKeys" /\ request'[g] = request[g] /\ original'[g] = original[g]
        BY <1>3, <3>2 DEF SameCall
      <4>2. PICK user \in Users : user = request[g].user
        BY <4>1, <2>6
      <4>3. ToSet(original'[g]) \subseteq Appended(user)'
        BY <4>1, <4>2, <2>5 DEF StoreInv, PublicKeysInv, AppendedFor
      <4> QED
        BY <4>1, <4>2, <4>3 DEF Appended, AppendedFor
    <3> QED
      BY <3>1, <3>2 DEF PublicKeysInv
  <2> QED
    BY <2>2, <2>3, <2>4, <2>7
<1>4. ASSUME NEW h \in Readers, ReaderAction(h) PROVE Rest'
  <2>1. UNCHANGED << storeVars, treeVars >> /\ \A g \in Handlers \ {h} : SameCall(g)
    BY <1>4, ReaderFrame DEF StoreInv, LogInv, TypeOK
  <2>2. \A g \in Writers : g \in Handlers \ {h}
    BY CallsAssumption DEF Handlers
  <2> QED
    BY <1>3, <2>1, <2>2
<1>5. ASSUME EpochAction PROVE Rest'
  BY <1>3, <1>5, EpochFrame DEF callVars, SameCall
<1>6. ASSUME UNCHANGED vars PROVE Rest'
  BY <1>3, <1>6 DEF vars, callVars, SameCall
<1> HIDE DEF Rest
<1>7. Rest'
  BY <1>2, <1>4, <1>5, <1>6, Actors
<1> QED
  BY <1>1, <1>7 DEF StoreInv, Rest

\* However calls overlap and fail, what the store has of a user are entries of that
\* user in the log, and its master key is its first entry: it comes before every key,
\* which are appended only to users that are registered, and there is one registration.
THEOREM StoreAlwaysMatchesLog == Spec => []StoreMatchesLog
<1>1. StoreInv => StoreMatchesLog
  <2> SUFFICES ASSUME StoreInv, NEW user \in Users
               PROVE  /\ \A p \in ToSet(publicKeys[user]) : p < Len(log) /\ log[p + 1] = user
                      /\ \A p \in ToSet(masterKeys[user]) :
                           /\ p < Len(log) /\ log[p + 1] = user
                           /\ \A q \in 0 .. p - 1 : log[q + 1] # user
                      /\ \A p \in ToSet(masterKeys[user]), q \in ToSet(publicKeys[user]) : p < q
    BY DEF StoreMatchesLog
  <2>1. \A p \in ToSet(publicKeys[user]) :
          \E h \in Writers : /\ Placed(h) /\ position[h] = p /\ request[h].user = user
                             /\ ~ request[h].master
    BY DEF StoreInv, PublicKeysInv, Appended
  <2>2. ASSUME NEW p \in ToSet(masterKeys[user])
        PROVE  \E h \in Writers : /\ Placed(h) /\ position[h] = p /\ request[h].user = user
                                  /\ request[h].master
    <3>1. masterKeys[user] # <<>>
      BY <2>2, ToSetEmpty
    <3>2. PICK h \in Writers : /\ pc[h] = "done" /\ request[h].user = user /\ request[h].master
                               /\ masterKeys[user] = << position[h] >>
      BY <3>1 DEF StoreInv, MasterKeysInv
    <3>3. p = position[h]
      BY <2>2, <3>2, ToSetSingleton
    <3> QED
      BY <3>2, <3>3 DEF Placed
  <2>3. \A h \in Writers : Placed(h) => /\ position[h] \in Nat /\ position[h] < Len(log)
                                        /\ log[position[h] + 1] = request[h].user
    BY DEF StoreInv, LogInv, TypeOK, WritersTypeOK, EntriesAreCalls
  <2>4. ASSUME NEW p \in ToSet(masterKeys[user]), NEW q \in 0 .. p - 1, log[q + 1] = user
        PROVE  FALSE
    <3>1. PICK h \in Writers : /\ Placed(h) /\ position[h] = p /\ request[h].user = user
                               /\ request[h].master
      BY <2>2
    <3>2. p \in Nat /\ p < Len(log) /\ Len(log) \in Nat
      BY <2>3, <3>1 DEF StoreInv, LogInv, TypeOK, ServerTypeOK
    <3>3. q \in 0 .. Len(log) - 1 /\ q < p
      BY <3>2
    <3>4. PICK g \in Writers : Placed(g) /\ position[g] = q
      BY <3>3 DEF StoreInv, EntriesAreCalls
    <3>5. request[g].user = user
      BY <2>3, <2>4, <3>4
    <3>6. CASE request[g].master
      <4>1. g = h
        BY <3>1, <3>4, <3>5, <3>6 DEF StoreInv, RegistrationsInv, Placed
      <4> QED
        BY <4>1, <3>1, <3>3, <3>4
    <3>7. CASE ~ request[g].master
      <4>1. position[h] < position[g]
        BY <3>1, <3>4, <3>5, <3>7 DEF StoreInv, MasterKeysInv
      <4> QED
        BY <4>1, <3>1, <3>2, <3>3, <3>4
    <3> QED
      BY <3>6, <3>7
  <2>5. ASSUME NEW p \in ToSet(masterKeys[user]), NEW q \in ToSet(publicKeys[user])
        PROVE  p < q
    BY <2>1, <2>2 DEF StoreInv, MasterKeysInv
  <2> QED
    BY <2>1, <2>2, <2>3, <2>4, <2>5
<1> QED
  BY <1>1, StoreInvInit, StoreInvNext, PTL DEF Spec

-----------------------------------------------------------------------------
(* Checkpoints.                                                            *)

Answer == [digest : Nat, proof : [old : Nat, target : Nat] \cup {None},
           cachedFor : Nat \cup {None}, NumLeaves : Nat \cup {None}]

Entry == [key : Nat \X Nat, proof : [old : Nat, target : Nat]]

\* The proof is from the size asked for.  Unless the cache had it under a later size
\* than its own it is for all that the digest covers.
ProofInOrder(h) ==
  /\ reply[h].proof \in [old : Nat, target : Nat]
  /\ reply[h].proof.old = request[h].size
  /\ request[h].size <= reply[h].proof.target
  /\ reply[h].cachedFor \in { None, reply[h].proof.target } =>
       reply[h].digest <= reply[h].proof.target

\* Sizes that are read later are not smaller.
AnswerInv(h) ==
  /\ pc[h] \in LookUpLabels => reply[h] = None
  /\ pc[h] \in CheckPointLabels =>
       /\ reply[h] \in Answer
       /\ request[h].size <= reply[h].digest
       /\ reply[h].digest <= PublishedPos
  /\ pc[h] \in { "cache", "prove", "fill" } => reply[h].cachedFor = None
  /\ pc[h] \in { "fill", "answer" } => ProofInOrder(h) /\ reply[h].proof.target <= PublishedPos
  /\ h \in Checkpoints => /\ ProofInOrder(h)
                          /\ request[h].size \in Nat
                          /\ reply[h].digest \in Nat
                          /\ reply[h].NumLeaves \in Nat
                          /\ reply[h].NumLeaves <= PublishedPos
                          /\ request[h].size <= reply[h].digest
                          /\ reply[h].digest <= reply[h].NumLeaves
                          /\ reply[h].proof.target <= reply[h].NumLeaves

EntryInv(entry) ==
  /\ entry.proof.old = entry.key[1]
  /\ entry.key[1] <= entry.proof.target
  /\ entry.proof.target <= entry.key[2]
  /\ entry.key[2] <= PublishedPos

CacheInv == extensionProofCache \subseteq Entry /\ \A entry \in extensionProofCache : EntryInv(entry)

CheckpointInv == LogInv /\ CacheInv /\ \A h \in Readers : AnswerInv(h)

\* Of a checkpoint: the proof is from the size that the auditor has, which the digest
\* covers; its target and what the digest covers are no more than NumLeaves; and the
\* proof is for all that the digest covers, unless the cache had it under another size
\* than its own.
CheckpointsInOrder ==
  \A h \in Checkpoints :
    LET answer == reply[h]
    IN  /\ answer.proof.old = request[h].size
        /\ request[h].size <= answer.digest
        /\ request[h].size <= answer.proof.target
        /\ answer.digest <= answer.NumLeaves
        /\ answer.proof.target <= answer.NumLeaves
        /\ \/ answer.digest <= answer.proof.target
           \/ answer.cachedFor \notin {None, answer.proof.target}

\* What a reader was told stays true while more is published.
LEMMA AnswerStays ==
  ASSUME TypeOK, TypeOK', NEW h \in Readers, AnswerInv(h),
         pc'[h] = pc[h], request'[h] = request[h], reply'[h] = reply[h],
         PublishedPos <= PublishedPos'
  PROVE  AnswerInv(h)'
<1>1. (h \in Checkpoints)' <=> h \in Checkpoints
  BY DEF Checkpoints
<1>2. ProofInOrder(h) => ProofInOrder(h)'
  BY DEF ProofInOrder
<1>3. PublishedPos \in Nat /\ PublishedPos' \in Nat
  BY DEF TypeOK, ServerTypeOK
<1>4. pc[h] \in CheckPointLabels => reply[h].digest \in Nat
  BY DEF AnswerInv, Answer
<1>5. pc[h] \in { "fill", "answer" } => reply[h].proof.target \in Nat
  BY DEF AnswerInv, ProofInOrder
<1>6. h \in Checkpoints =>
        /\ reply[h].NumLeaves \in Nat /\ reply'[h].NumLeaves = reply[h].NumLeaves
        /\ reply[h].NumLeaves <= PublishedPos'
  BY <1>3 DEF AnswerInv
<1>7. pc'[h] \in CheckPointLabels =>
        /\ reply'[h] \in Answer
        /\ request'[h].size <= reply'[h].digest
        /\ reply'[h].digest <= PublishedPos'
  BY <1>3, <1>4 DEF AnswerInv
<1>8. pc'[h] \in { "fill", "answer" } => ProofInOrder(h)' /\ reply'[h].proof.target <= PublishedPos'
  BY <1>2, <1>3, <1>5 DEF AnswerInv
<1> QED
  BY <1>1, <1>2, <1>7, <1>8, <1>6 DEF AnswerInv

LEMMA CacheStays ==
  ASSUME TypeOK, TypeOK', CacheInv, extensionProofCache' \subseteq extensionProofCache,
         PublishedPos <= PublishedPos'
  PROVE  CacheInv'
<1>1. PublishedPos \in Nat /\ PublishedPos' \in Nat
  BY DEF TypeOK, ServerTypeOK
<1>2. \A entry \in extensionProofCache : entry.key[2] \in Nat
  BY DEF CacheInv, Entry
<1> QED
  BY <1>1, <1>2 DEF CacheInv, EntryInv

\* The step of a reader itself.
LEMMA ReaderAnswers ==
  ASSUME CheckpointInv, TypeOK', NEW h \in Readers, ReaderAction(h)
  PROVE  AnswerInv(h)' /\ CacheInv'
<1>1. /\ h \in Handlers /\ CallsAreFunctions
      /\ PublishedPos \in Nat /\ PublishedDigest \in Nat /\ digests \subseteq Nat
      /\ None \notin Nat
  BY CallsAssumption DEF Handlers, CheckpointInv, LogInv, TypeOK, ServerTypeOK
<1>2. PublishedPos' = PublishedPos
  BY ReaderFrame DEF CheckpointInv, LogInv, TypeOK, epochVars
<1>3. AnswerInv(h) /\ CacheInv
  BY DEF CheckpointInv
<1>4. pc[h] \in CheckPointLabels => request[h].size \in Nat
  BY DEF CheckpointInv, LogInv, TypeOK, ReadersTypeOK, CheckPointCall
<1>5. UNCHANGED extensionProofCache => CacheInv'
  BY <1>1, <1>2, <1>3, CacheStays DEF CheckpointInv, LogInv
<1>6. CASE \E user \in Users, master \in BOOLEAN, size \in Sizes \cup {None} :
             LookUp(h, user, master, size)
  <2>1. /\ reply'[h] = None /\ pc'[h] \in { "size", "records" }
        /\ UNCHANGED extensionProofCache
    BY <1>1, <1>6 DEF LookUp, Begin, GoTo, CallsAreFunctions
  <2> QED
    BY <1>5, <2>1 DEF AnswerInv, LookUpLabels, CheckPointLabels, Checkpoints
<1>7. CASE ReadSize(h) \/ GetRecords(h) \/ PickRecord(h)
  <2>1. /\ reply' = reply /\ pc'[h] \in { "records", "pick", "failed", "done" }
        /\ UNCHANGED extensionProofCache
        /\ pc[h] \in LookUpLabels
    BY <1>1, <1>7 DEF ReadSize, GetRecords, PickRecord, GoTo, CallsAreFunctions, LookUpLabels
  <2>2. reply[h] = None
    BY <1>3, <2>1 DEF AnswerInv
  <2> QED
    BY <1>5, <2>1, <2>2 DEF AnswerInv, LookUpLabels, CheckPointLabels, Checkpoints
<1>8. CASE \E oldSize \in digests : GetNewCheckPoint(h, oldSize)
  <2>1. PICK oldSize \in digests : GetNewCheckPoint(h, oldSize)
    BY <1>8
  <2>2. /\ reply'[h] = [digest |-> PublishedDigest, proof |-> None, cachedFor |-> None,
                        NumLeaves |-> None]
        /\ request'[h] = [size |-> oldSize]
        /\ pc'[h] = "cache"
        /\ UNCHANGED extensionProofCache
    BY <1>1, <2>1 DEF GetNewCheckPoint, Begin, Reply, GoTo, CallsAreFunctions
  <2>3. reply'[h] \in Answer /\ reply'[h].digest = PublishedDigest /\ reply'[h].cachedFor = None
    BY <1>1, <2>2 DEF Answer
  <2>4. request'[h].size = oldSize /\ oldSize <= PublishedDigest /\ PublishedDigest <= PublishedPos
    BY <1>1, <2>2 DEF CheckpointInv, LogInv, EpochInv
  <2> QED
    BY <1>2, <1>5, <2>2, <2>3, <2>4 DEF AnswerInv, LookUpLabels, CheckPointLabels, Checkpoints
<1>9. CASE LookInCache(h)
  <2>1. CASE Cached(h) = {}
    <3>1. pc[h] = "cache" /\ pc'[h] = "prove" /\ request'[h] = request[h] /\ reply'[h] = reply[h]
          /\ UNCHANGED extensionProofCache
      BY <1>1, <1>9, <2>1 DEF LookInCache, GoTo, CallsAreFunctions
    <3> QED
      BY <1>2, <1>3, <1>5, <3>1 DEF AnswerInv, LookUpLabels, CheckPointLabels, Checkpoints
  <2>2. CASE Cached(h) # {}
    <3>1. PICK entry \in Cached(h) :
            /\ Reply(h, [reply[h] EXCEPT !.proof = entry.proof, !.cachedFor = PublishedPos])
            /\ GoTo(h, "answer")
      BY <1>9, <2>2 DEF LookInCache
    <3>2. /\ pc[h] = "cache" /\ pc'[h] = "answer" /\ request'[h] = request[h]
          /\ UNCHANGED extensionProofCache
          /\ reply'[h] = [reply[h] EXCEPT !.proof = entry.proof, !.cachedFor = PublishedPos]
      BY <1>1, <1>9, <3>1 DEF LookInCache, GoTo, Reply, CallsAreFunctions
    <3>3. /\ entry \in Entry /\ EntryInv(entry)
          /\ entry.key[1] = request[h].size /\ entry.key[2] = PublishedPos
      BY <1>3 DEF Cached, CacheKey, CacheInv
    <3>4. /\ reply[h] \in Answer
          /\ request[h].size <= reply[h].digest /\ reply[h].digest <= PublishedPos
      BY <1>3, <3>2 DEF AnswerInv, LookUpLabels, CheckPointLabels
    <3>5. entry.proof \in [old : Nat, target : Nat]
      BY <3>3 DEF Entry
    <3>6. /\ reply'[h] \in Answer
          /\ reply'[h].proof = entry.proof
          /\ reply'[h].cachedFor = PublishedPos
          /\ reply'[h].digest = reply[h].digest
      BY <1>1, <3>2, <3>4, <3>5 DEF Answer
    <3>7. ProofInOrder(h)' /\ reply'[h].proof.target <= PublishedPos
      BY <1>1, <3>2, <3>3, <3>4, <3>5, <3>6 DEF ProofInOrder, EntryInv
    <3> QED
      BY <1>2, <1>5, <3>2, <3>4, <3>6, <3>7 DEF AnswerInv, LookUpLabels, CheckPointLabels, Checkpoints
  <2> QED
    BY <2>1, <2>2
<1>10. CASE ProveExtension(h)
  <2> DEFINE proof == [old |-> request[h].size, target |-> PublishedPos]
  <2>1. /\ pc[h] = "prove" /\ pc'[h] = "fill" /\ request'[h] = request[h]
        /\ UNCHANGED extensionProofCache
        /\ reply'[h] = [reply[h] EXCEPT !.proof = proof]
    BY <1>1, <1>10 DEF ProveExtension, ExtensionProof, GoTo, Reply, CallsAreFunctions
  <2>2. /\ reply[h] \in Answer /\ reply[h].cachedFor = None
        /\ request[h].size <= reply[h].digest /\ reply[h].digest <= PublishedPos
    BY <1>3, <2>1 DEF AnswerInv, LookUpLabels, CheckPointLabels
  <2>3. request[h].size \in Nat
    BY <1>4, <2>1 DEF CheckPointLabels
  <2>4. /\ proof \in [old : Nat, target : Nat]
        /\ proof.old = request[h].size /\ proof.target = PublishedPos
    BY <1>1, <2>3
  <2> HIDE DEF proof
  <2>5. /\ reply'[h] \in Answer
        /\ reply'[h].proof = proof
        /\ reply'[h].cachedFor = None
        /\ reply'[h].digest = reply[h].digest
    BY <2>1, <2>2, <2>4 DEF Answer
  <2>6. reply[h].digest \in Nat
    BY <2>2 DEF Answer
  <2>7. ProofInOrder(h)' /\ reply'[h].proof.target <= PublishedPos
    BY <1>1, <2>1, <2>2, <2>3, <2>4, <2>5, <2>6 DEF ProofInOrder
  <2> QED
    BY <1>2, <1>5, <2>1, <2>2, <2>5, <2>7 DEF AnswerInv, LookUpLabels, CheckPointLabels, Checkpoints
<1>11. CASE FillCache(h)
  <2>1. /\ pc[h] = "fill" /\ pc'[h] = "answer" /\ request'[h] = request[h] /\ reply'[h] = reply[h]
        /\ extensionProofCache' \subseteq
             extensionProofCache \cup { [key |-> CacheKey(h), proof |-> reply[h].proof] }
    BY <1>1, <1>11 DEF FillCache, GoTo, CallsAreFunctions
  <2>2. AnswerInv(h)'
    BY <1>2, <1>3, <2>1 DEF AnswerInv, LookUpLabels, CheckPointLabels, Checkpoints, ProofInOrder
  <2> DEFINE entry == [key |-> CacheKey(h), proof |-> reply[h].proof]
  <2>3. request[h].size \in Nat
    BY <1>4, <2>1 DEF CheckPointLabels
  <2>4. ProofInOrder(h) /\ reply[h].proof.target <= PublishedPos
    BY <1>3, <2>1 DEF AnswerInv
  <2>5. /\ entry.key = << request[h].size, PublishedPos >>
        /\ entry.proof = reply[h].proof
        /\ entry \in Entry
    BY <1>1, <2>3, <2>4 DEF CacheKey, Entry, ProofInOrder
  <2> HIDE DEF entry
  <2>6. EntryInv(entry)
    BY <1>1, <2>4, <2>5 DEF EntryInv, ProofInOrder
  <2>7. extensionProofCache' \subseteq extensionProofCache \cup {entry}
    BY <2>1 DEF entry
  <2>8. CacheInv'
    BY <1>2, <1>3, <2>5, <2>6, <2>7 DEF CacheInv, EntryInv
  <2> QED
    BY <2>2, <2>8
<1>12. CASE AnswerCheckPoint(h)
  <2>1. /\ pc[h] = "answer" /\ pc'[h] = "done" /\ request'[h] = request[h]
        /\ UNCHANGED extensionProofCache
        /\ reply'[h] = [reply[h] EXCEPT !.NumLeaves = PublishedPos]
    BY <1>1, <1>12 DEF AnswerCheckPoint, GoTo, Reply, CallsAreFunctions
  <2>2. /\ reply[h] \in Answer
        /\ request[h].size <= reply[h].digest /\ reply[h].digest <= PublishedPos
        /\ ProofInOrder(h) /\ reply[h].proof.target <= PublishedPos
        /\ request'[h].size \in Nat
    BY <1>3, <1>4, <2>1 DEF AnswerInv, LookUpLabels, CheckPointLabels
  <2>3. /\ reply'[h].proof = reply[h].proof /\ reply'[h].cachedFor = reply[h].cachedFor
        /\ reply'[h].digest = reply[h].digest /\ reply'[h].NumLeaves = PublishedPos
    BY <2>1, <2>2 DEF Answer
  <2>4. ProofInOrder(h)'
    BY <2>1, <2>2, <2>3 DEF ProofInOrder
  <2>5. /\ reply'[h].digest \in Nat /\ reply'[h].NumLeaves \in Nat
        /\ reply'[h].NumLeaves <= PublishedPos'
    BY <1>1, <1>2, <2>2, <2>3 DEF Answer
  <2> QED
    BY <1>2, <1>5, <2>1, <2>2, <2>3, <2>4, <2>5 DEF AnswerInv, LookUpLabels, CheckPointLabels
<1> QED
  BY <1>6, <1>7, <1>8, <1>9, <1>10, <1>11, <1>12 DEF ReaderAction, LookUpStep, CheckPointStep

LEMMA CheckpointInvNext == CheckpointInv /\ [Next]_vars => CheckpointInv'
<1> SUFFICES ASSUME CheckpointInv, [Next]_vars PROVE CheckpointInv'
  OBVIOUS
<1>1. LogInv' /\ TypeOK' /\ TypeOK
  BY LogInvNext DEF CheckpointInv, LogInv
<1>2. PublishedPos \in Nat
  BY <1>1 DEF TypeOK, ServerTypeOK
<1>3. ASSUME NEW h \in Writers, WriterAction(h)
      PROVE  CacheInv' /\ \A g \in Readers : AnswerInv(g)'
  <2>1. /\ UNCHANGED << reply, epochVars, extensionProofCache >>
        /\ \A g \in Handlers \ {h} : SameCall(g)
    BY <1>3, WriterFrame DEF CheckpointInv, LogInv, TypeOK
  <2>2. \A g \in Readers : /\ pc'[g] = pc[g] /\ request'[g] = request[g] /\ reply'[g] = reply[g]
    BY <2>1, CallsAssumption DEF SameCall, Handlers
  <2>3. PublishedPos <= PublishedPos' /\ extensionProofCache' \subseteq extensionProofCache
    BY <1>2, <2>1 DEF epochVars
  <2> QED
    BY <1>1, <2>2, <2>3, AnswerStays, CacheStays DEF CheckpointInv
<1>4. ASSUME NEW h \in Readers, ReaderAction(h)
      PROVE  CacheInv' /\ \A g \in Readers : AnswerInv(g)'
  <2>1. /\ UNCHANGED epochVars
        /\ \A g \in Handlers \ {h} : SameCall(g)
        /\ \A g \in Readers \ {h} : reply'[g] = reply[g]
    BY <1>4, ReaderFrame DEF CheckpointInv, LogInv, TypeOK
  <2>2. \A g \in Readers \ {h} : pc'[g] = pc[g] /\ request'[g] = request[g] /\ reply'[g] = reply[g]
    BY <2>1 DEF SameCall, Handlers
  <2>3. PublishedPos <= PublishedPos'
    BY <1>2, <2>1 DEF epochVars
  <2>4. \A g \in Readers \ {h} : AnswerInv(g)'
    BY <1>1, <2>2, <2>3, AnswerStays DEF CheckpointInv
  <2> QED
    BY <1>1, <1>4, <2>4, ReaderAnswers
<1>5. ASSUME EpochAction PROVE CacheInv' /\ \A g \in Readers : AnswerInv(g)'
  <2>1. UNCHANGED callVars /\ LogInv
    BY <1>5, EpochFrame DEF CheckpointInv
  <2>2. PublishedPos <= PublishedPos' /\ extensionProofCache' \subseteq extensionProofCache
    BY <1>2, <1>5, <2>1 DEF EpochAction, EpochStep, StartEpoch, PublishPos, PublishDigest, DumpProofs,
                            LogInv, TreeInv, EpochInv, TypeOK, ServerTypeOK
  <2> QED
    BY <1>1, <2>1, <2>2, AnswerStays, CacheStays DEF CheckpointInv, callVars
<1>6. ASSUME UNCHANGED vars PROVE CacheInv' /\ \A g \in Readers : AnswerInv(g)'
  BY <1>1, <1>2, <1>6, AnswerStays, CacheStays DEF CheckpointInv, vars, callVars, epochVars
<1> QED
  BY <1>1, <1>3, <1>4, <1>5, <1>6, Actors DEF CheckpointInv

LEMMA CheckpointInvInit == Init => CheckpointInv
<1> SUFFICES ASSUME Init PROVE CheckpointInv
  OBVIOUS
<1>1. LogInv
  BY LogInvInit
<1>2. CacheInv
  BY DEF Init, CacheInv
<1>3. \A h \in Readers : AnswerInv(h)
  BY DEF Init, AnswerInv, Handlers, LookUpLabels, CheckPointLabels, Checkpoints
<1> QED
  BY <1>1, <1>2, <1>3 DEF CheckpointInv

\* The answer to a checkpoint call has its sizes in order whatever epochs end between
\* its reads, which take no lock.
THEOREM CheckpointsAlwaysInOrder == Spec => []CheckpointsInOrder
<1>1. CheckpointInv => CheckpointsInOrder
  BY DEF CheckpointInv, AnswerInv, ProofInOrder, CheckpointsInOrder, Checkpoints
<1> QED
  BY <1>1, CheckpointInvInit, CheckpointInvNext, PTL DEF Spec

\* The log is not longer than there are calls, and so a digest of the forest.
LEMMA LogFits ==
  ASSUME StoreInv
  PROVE  \A size \in 0 .. Len(log) : size \in ForestSizes
<1>1. log \in Seq(Users) /\ Len(log) \in Nat
  BY DEF StoreInv, LogInv, TypeOK, ServerTypeOK
<1> DEFINE Positions == 0 .. Len(log) - 1
           Call(p) == CHOOSE h \in Writers : Placed(h) /\ position[h] = p
           f == [ p \in Positions |-> Call(p) ]
<1>2. ASSUME NEW p \in Positions PROVE Call(p) \in Writers /\ position[Call(p)] = p
  <2>1. \E h \in Writers : Placed(h) /\ position[h] = p
    BY DEF StoreInv, EntriesAreCalls
  <2> QED
    BY <2>1
<1> HIDE DEF Call
<1>3. f \in Injection(Positions, Writers)
  <2>1. f \in [Positions -> Writers]
    BY <1>2
  <2>2. ASSUME NEW p \in Positions, NEW q \in Positions, f[p] = f[q] PROVE p = q
    BY <1>2, <2>2
  <2> QED
    BY <2>1, <2>2 DEF Injection, IsInjective
<1>4. Cardinality(Positions) = Len(log)
  <2> DEFINE last == Len(log) - 1
  <2>1. 0 \in Int /\ last \in Int /\ Len(log) = last + 1 /\ ~ (0 > last + 1)
    BY <1>1
  <2> HIDE DEF last
  <2>2. Cardinality(0 .. last) = IF 0 > last THEN 0 ELSE last - 0 + 1
    BY <2>1, FS_Interval
  <2>3. Cardinality(0 .. last) = Len(log)
    BY <2>1, <2>2
  <2> QED
    BY <2>3 DEF last
<1>5. IsFiniteSet(Positions) /\ Cardinality(Positions) <= Cardinality(Writers)
  BY <1>3, CapacityAssumption, FS_Injection
<1>6. Cardinality(Writers) \in Nat
  BY CapacityAssumption, FS_CardinalityType
<1>7. 2 ^ Depth \in Nat \ {0} /\ 2 ^ (Depth + 1) = 2 * 2 ^ Depth
  BY DepthAssumption, PowersAssumption
<1>8. Len(log) < 2 ^ (Depth + 1)
  BY <1>1, <1>4, <1>5, <1>6, <1>7, CapacityAssumption
<1> QED
  BY <1>1, <1>7, <1>8 DEF ForestSizes

\* Every answer to a checkpoint call verifies for the auditor, whatever epochs end
\* while it is made, except for one that the cache has under a size it was not made
\* for: the sizes are in order, the log bounds them, and the forests do the rest.
THEOREM CheckpointsAlwaysVerify == Spec => []CheckpointsVerify
<1>1. StoreInv /\ CheckpointInv => CheckpointsVerify
  <2> SUFFICES ASSUME StoreInv, CheckpointInv, NEW h \in Checkpoints,
                      reply[h].cachedFor \in {None, reply[h].proof.target}
               PROVE  ExtensionVerdict(request[h].size, reply[h].digest, reply[h].proof.target)
                        = "accepts"
    BY DEF CheckpointsVerify
  <2>1. AnswerInv(h)
    BY DEF CheckpointInv, Checkpoints
  <2>2. /\ request[h].size \in Nat /\ reply[h].digest \in Nat /\ reply[h].NumLeaves \in Nat
        /\ reply[h].proof.target \in Nat
        /\ request[h].size <= reply[h].digest
        /\ reply[h].digest <= reply[h].proof.target
        /\ reply[h].proof.target <= reply[h].NumLeaves
        /\ reply[h].NumLeaves <= PublishedPos
    BY <2>1 DEF AnswerInv, ProofInOrder
  <2>3. PublishedPos \in Nat /\ PublishedPos <= Len(log) /\ Len(log) \in Nat
    BY DEF StoreInv, LogInv, EpochInv, TypeOK, ServerTypeOK
  <2>4. request[h].size \in ForestSizes /\ reply[h].digest \in ForestSizes /\ reply[h].proof.target \in ForestSizes
    BY <2>2, <2>3, LogFits
  <2> QED
    BY <2>2, <2>4, ExtensionIsAccepted
<1> QED
  BY <1>1, StoreInvInit, StoreInvNext, CheckpointInvInit, CheckpointInvNext, PTL DEF Spec
=============================================================================
