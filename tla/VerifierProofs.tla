---------------------------- MODULE VerifierProofs ----------------------------
(***************************************************************************)
(* Theorems about Verifier, for every set of users, logs of every length   *)
(* that the tree has room for and epochs that end at any size.             *)
(***************************************************************************)
EXTENDS Verifier, ForestIndexProofs

Stages == { "accepted", "stored", "queued", "known", "lost" }

LogInv ==
  /\ log \in Seq(Users)
  /\ Len(log) <= 2 ^ Depth
  /\ published \in 0 .. Len(log)
  /\ checkpoint \in 0 .. published
  /\ stage \in Seq(Stages)
  /\ Len(stage) = Len(log)

\* Only a master key is registered.
RegisterOK(p) == p \in Positions /\ IsMaster(p)

\* The node of a request is the one it was proven up to.
AppendOK(r) ==
  /\ r \in [pos : Positions, node : Nat, height : Nat, size : Nat]
  /\ r.node = r.height

\* A lookup has the user's master key, or its newest key of those below the size of
\* the digest unless the record of a newer one was missing.
LookUpOK(l) ==
  /\ l \in [pos : Positions, master : BOOLEAN, size : 0 .. Len(log), missed : BOOLEAN]
  /\ IF l.master THEN IsMaster(l.pos)
     ELSE l.missed \/ \A q \in Entries(log[l.pos + 1]) : q <= l.pos \/ q >= l.size

QueuesInv ==
  /\ \A p \in RegisterRequests : RegisterOK(p)
  /\ \A r \in AppendRequests : AppendOK(r)
  /\ \A l \in LookupRequests : LookUpOK(l)

\* What a cycle goes through is still in its queue.
CycleTypeOK ==
  /\ phase \in { "idle", "register", "append", "lookup" }
  /\ digest \in 0 .. published
  /\ phase = "idle" => todo = {} /\ warnings = {}
  /\ phase = "register" => todo \subseteq RegisterRequests
  /\ phase = "append" => todo \subseteq AppendRequests
  /\ phase = "lookup" => todo \subseteq LookupRequests

\* The verifier knows all of the user's keys that the digest covers.
SettledOK(user) == \A p \in Entries(user) : p < digest => p \in keys(user)

WarningOK(w) ==
  \/ w.kind = "append" /\ w.pos \in Positions /\ log[w.pos + 1] \notin settled
  \/ w.kind = "lookup" /\ Outdated(w.lookup, w.digest)

CycleInv ==
  /\ CycleTypeOK
  /\ \A user \in settled : SettledOK(user)
  /\ \A w \in warnings : WarningOK(w)

CrashInv == \A w \in crash : w.kind = "lookup" /\ Outdated(w.lookup, w.digest)

VerifierInv == LogInv /\ QueuesInv /\ CycleInv /\ CrashInv

-----------------------------------------------------------------------------
(* The log.                                                                *)

\* The log grows at its end, and the verifier does not forget a key.
Grows ==
  /\ Len(log) <= Len(log')
  /\ \A p \in Positions : log'[p + 1] = log[p + 1]
  /\ \A p \in Positions : stage[p + 1] = "known" => stage'[p + 1] = "known"
  /\ published <= published'

LEMMA WriteSteps ==
  ASSUME LogInv, NEW user \in Users, Write(user)
  PROVE  LogInv' /\ Grows
<1>1. /\ log' = Append(log, user) /\ published' = published /\ checkpoint' = checkpoint
  BY DEF Write, Accept
<1>2. PICK s \in Stages : stage' = Append(stage, s)
  BY DEF Write, Stages
<1>3. PICK bound \in Logs : IsPrefix(Append(log, user), bound)
  BY DEF Write
<1>4. bound \in Seq(Users) /\ Len(bound) <= 2 ^ Depth
  BY LogsAssumption
<1>5. /\ log \in Seq(Users) /\ stage \in Seq(Stages) /\ Len(log) \in Nat /\ Len(stage) = Len(log)
      /\ published \in 0 .. Len(log) /\ checkpoint \in 0 .. published
  BY DEF LogInv
<1>6. log' \in Seq(Users) /\ Len(log') = Len(log) + 1
  BY <1>1, <1>5
<1>7. stage' \in Seq(Stages) /\ Len(stage') = Len(stage) + 1
  BY <1>2, <1>5
<1>8. Len(log') <= Len(bound)
  BY <1>1, <1>3 DEF IsPrefix
<1>9. 2 ^ Depth \in Nat
  BY DepthAssumption, PowersAssumption
<1>10. Len(log') <= 2 ^ Depth
  BY <1>4, <1>6, <1>8, <1>9
<1>11. \A p \in Positions : p + 1 \in 1 .. Len(log)
  BY <1>5 DEF Positions
<1>12. \A p \in Positions : log'[p + 1] = log[p + 1] /\ stage'[p + 1] = stage[p + 1]
  BY <1>1, <1>2, <1>5, <1>11
<1>13. published' \in 0 .. Len(log') /\ checkpoint' \in 0 .. published'
  BY <1>1, <1>5, <1>6
<1>14. Len(stage') = Len(log')
  BY <1>5, <1>6, <1>7
<1>15. LogInv'
  BY <1>6, <1>7, <1>10, <1>13, <1>14 DEF LogInv
<1>16. Grows
  <2>1. Len(log) <= Len(log') /\ published <= published'
    BY <1>1, <1>5, <1>6
  <2> QED
    BY <1>12, <2>1 DEF Grows
<1> QED
  BY <1>15, <1>16

LEMMA StageSteps ==
  ASSUME LogInv, NEW p, NEW from \in Stages \ {"known"}, NEW to \in Stages,
         SetStage(p, from, to), checkpoint' = checkpoint
  PROVE  LogInv' /\ Grows
<1>1. /\ p \in Positions /\ stage[p + 1] = from /\ stage' = [stage EXCEPT ![p + 1] = to]
      /\ log' = log /\ published' = published
  BY DEF SetStage, In
<1>2. stage \in Seq(Stages) /\ Len(log) \in Nat /\ Len(stage) = Len(log)
  BY DEF LogInv
<1>3. \A q \in Positions : q + 1 \in 1 .. Len(stage)
  BY <1>2 DEF Positions
<1>4. stage' \in Seq(Stages) /\ Len(stage') = Len(stage)
  <2> DEFINE i == p + 1
  <2>1. i \in 1 .. Len(stage) /\ stage' = [stage EXCEPT ![i] = to]
    BY <1>1, <1>3
  <2> HIDE DEF i
  <2> QED
    BY <1>2, <2>1
<1>5. ASSUME NEW q \in Positions, stage[q + 1] = "known" PROVE stage'[q + 1] = "known"
  <2>1. q + 1 # p + 1
    BY <1>1, <1>5
  <2> QED
    BY <1>1, <1>2, <1>3, <1>5, <2>1
<1> QED
  BY <1>1, <1>4, <1>5 DEF LogInv, Grows

LEMMA LogStays ==
  ASSUME LogInv, UNCHANGED << log, published, stage, checkpoint >>
  PROVE  LogInv' /\ Grows
<1>1. published \in Nat /\ Len(log) \in Nat
  BY DEF LogInv
<1> QED
  BY <1>1 DEF LogInv, Grows, Positions

\* Every prefix of the log is a forest.
LEMMA SizesFit ==
  ASSUME LogInv, NEW size \in 0 .. Len(log)
  PROVE  size \in ForestSizes
<1>1. 2 ^ Depth \in Nat \ {0} /\ 2 ^ (Depth + 1) = 2 * 2 ^ Depth
  BY DepthAssumption, PowersAssumption
<1>2. Len(log) \in Nat /\ Len(log) <= 2 ^ Depth
  BY DEF LogInv
<1> QED
  BY <1>1, <1>2 DEF ForestSizes

\* What can happen to the log.
LEMMA LogSteps ==
  ASSUME LogInv, [Next]_vars
  PROVE  LogInv' /\ Grows
<1>1. CASE \E user \in Users : Write(user)
  BY <1>1, WriteSteps
<1>2. CASE \E p \in Positions : Put(p) \/ VerifyAsync(p) \/ AddKey(p) \/ LoseCall(p)
  <2>1. PICK p \in Positions : Put(p) \/ VerifyAsync(p) \/ AddKey(p) \/ LoseCall(p)
    BY <1>2
  <2>2. PICK from \in Stages \ {"known"}, to \in Stages : SetStage(p, from, to)
    BY <2>1 DEF Put, VerifyAsync, AddKey, LoseCall, Stages
  <2> QED
    BY <2>2, StageSteps DEF SetStage
<1>3. CASE \E size \in EpochSizes : EndEpoch(size)
  <2>1. PICK size \in EpochSizes : EndEpoch(size)
    BY <1>3
  <2>2. /\ size \in published + 1 .. Len(log) /\ published' = size /\ log' = log
        /\ stage' = stage /\ checkpoint' = checkpoint
    BY <2>1 DEF EndEpoch, Publish
  <2>3. published \in Nat /\ Len(log) \in Nat /\ checkpoint \in 0 .. published
    BY DEF LogInv
  <2>4. published <= published' /\ published' \in 0 .. Len(log) /\ checkpoint' \in 0 .. published'
    BY <2>2, <2>3
  <2> QED
    BY <2>2, <2>3, <2>4 DEF LogInv, Grows, Positions
<1>4. CASE Poll
  <2>1. checkpoint' = published /\ log' = log /\ stage' = stage /\ published' = published
    BY <1>4 DEF Poll, serverVars
  <2>2. published \in Nat /\ Len(log) \in Nat
    BY DEF LogInv
  <2> QED
    BY <2>1, <2>2 DEF LogInv, Grows, Positions
<1>5. CASE \E user \in Sought : LookUpMK(user) \/ LookUpPK(user) \/ LookUpVerify(user)
  BY <1>5, LogStays DEF LookUpMK, LookUpPK, LookUpVerify, VerifyLookUp, serverVars
<1>6. CASE CycleStep
  BY <1>6, LogStays DEF CycleStep, StartCycle, NextQueue, Skip, Judge, JudgeRegister, JudgeAppend,
                        JudgeLookUp, Attempt, serverVars
<1>7. CASE UNCHANGED vars
  BY <1>7, LogStays DEF vars, serverVars
<1> QED
  BY <1>1, <1>2, <1>3, <1>4, <1>5, <1>6, <1>7 DEF Next

\* The users' entries while the log grows.
LEMMA EntriesGrow ==
  ASSUME LogInv, LogInv', Grows
  PROVE  /\ Positions \subseteq Positions'
         /\ \A user : /\ Entries(user) \subseteq Entries(user)'
                      /\ \A q \in Entries(user)' : q \in Entries(user) \/ q >= Len(log)
                      /\ keys(user) \subseteq keys(user)'
         /\ \A p \in Positions : IsMaster(p) => IsMaster(p)'
<1>1. /\ Len(log) \in Nat /\ Len(log') \in Nat /\ Len(log) <= Len(log')
      /\ \A p \in Positions : log'[p + 1] = log[p + 1]
  BY DEF LogInv, Grows
<1>2. Positions \subseteq Positions' /\ \A q \in Positions' : q \in Positions \/ q >= Len(log)
  BY <1>1 DEF Positions
<1>3. ASSUME NEW user
      PROVE  /\ Entries(user) \subseteq Entries(user)'
             /\ \A q \in Entries(user)' : q \in Entries(user) \/ q >= Len(log)
  BY <1>1, <1>2 DEF Entries
<1>4. ASSUME NEW user PROVE keys(user) \subseteq keys(user)'
  <2>1. ASSUME NEW p \in keys(user) PROVE p \in keys(user)'
    <3>1. p \in Entries(user) /\ p \in Positions /\ stage[p + 1] = "known"
      BY DEF keys, In, Entries
    <3>2. stage'[p + 1] = "known" /\ p \in Entries(user)'
      BY <1>3, <3>1 DEF Grows
    <3> QED
      BY <3>2 DEF keys, In
  <2> QED
    BY <2>1
<1>5. ASSUME NEW p \in Positions, IsMaster(p) PROVE IsMaster(p)'
  <2>1. p < Len(log) /\ p \in Nat
    BY <1>1 DEF Positions
  <2>2. ASSUME NEW q \in Positions', log'[q + 1] = log'[p + 1] PROVE p <= q
    <3>1. CASE q \in Positions
      <4>1. log[q + 1] = log[p + 1]
        BY <1>1, <2>2, <3>1
      <4> QED
        BY <1>5, <3>1, <4>1 DEF IsMaster, Entries
    <3>2. CASE q >= Len(log)
      <4>1. q \in Int
        BY DEF Positions
      <4> QED
        BY <1>1, <2>1, <3>2, <4>1
    <3> QED
      BY <1>2, <3>1, <3>2
  <2> QED
    BY <2>2 DEF IsMaster, Entries
<1> QED
  BY <1>2, <1>3, <1>4, <1>5

-----------------------------------------------------------------------------
(* The queues.                                                             *)

\* A request that is in order stays in order while the log grows.
LEMMA RequestsStay ==
  ASSUME LogInv, LogInv', Grows
  PROVE  /\ \A p : RegisterOK(p) => RegisterOK(p)'
         /\ \A r : AppendOK(r) => AppendOK(r)'
         /\ \A l : LookUpOK(l) => LookUpOK(l)'
<1>1. Positions \subseteq Positions' /\ \A p \in Positions : IsMaster(p) => IsMaster(p)'
  BY EntriesGrow
<1>2. Len(log) \in Nat /\ Len(log') \in Nat /\ Len(log) <= Len(log')
  BY DEF LogInv, Grows
<1>3. ASSUME NEW l, LookUpOK(l) PROVE LookUpOK(l)'
  <2>1. /\ l \in [pos : Positions, master : BOOLEAN, size : 0 .. Len(log), missed : BOOLEAN]
        /\ l.pos \in Positions /\ l.size \in 0 .. Len(log)
    BY <1>3 DEF LookUpOK
  <2>2. 0 .. Len(log) \subseteq 0 .. Len(log')
    BY <1>2
  <2>3. l \in [pos : Positions', master : BOOLEAN, size : 0 .. Len(log'), missed : BOOLEAN]
    BY <1>1, <2>1, <2>2
  <2>4. CASE l.master
    BY <1>1, <1>3, <2>1, <2>3, <2>4 DEF LookUpOK
  <2>5. CASE ~ l.master /\ l.missed
    BY <2>3, <2>5 DEF LookUpOK
  <2>6. CASE ~ l.master /\ ~ l.missed
    <3>1. ASSUME NEW q \in Positions', log'[q + 1] = log'[l.pos + 1] PROVE q <= l.pos \/ q >= l.size
      <4>1. CASE q \in Positions
        <5>1. log[q + 1] = log[l.pos + 1]
          BY <2>1, <3>1, <4>1 DEF Grows
        <5> QED
          BY <1>3, <2>6, <4>1, <5>1 DEF LookUpOK, Entries
      <4>2. CASE q \notin Positions
        <5>1. q \in Nat /\ q >= Len(log)
          BY <1>2, <4>2 DEF Positions
        <5> QED
          BY <1>2, <2>1, <5>1
      <4> QED
        BY <4>1, <4>2
    <3> QED
      BY <2>3, <2>6, <3>1 DEF LookUpOK, Entries
  <2> QED
    BY <2>4, <2>5, <2>6
<1> QED
  BY <1>1, <1>3 DEF RegisterOK, AppendOK

\* A set of positions that is not empty has a newest one.
LEMMA NewestOf ==
  ASSUME LogInv, NEW records \in SUBSET Positions, records # {}
  PROVE  Newest(records) \in records /\ \A q \in records : q <= Newest(records)
<1> DEFINE Bounds == { m \in Nat : \A q \in records : q <= m }
<1>1. Len(log) \in Nat /\ records \subseteq Nat /\ \A q \in records : q <= Len(log)
  BY DEF LogInv, Positions
<1>2. Len(log) \in Bounds
  BY <1>1
<1>3. PICK m \in Bounds : \A n \in Bounds : m <= n
  <2>1. Bounds \in SUBSET Nat /\ Bounds # {}
    BY <1>2
  <2> QED
    BY <2>1, LeastNumber
<1>4. m \in Nat /\ \A q \in records : q <= m
  OBVIOUS
<1>5. m \in records
  <2>1. SUFFICES ASSUME m \notin records PROVE FALSE
    OBVIOUS
  <2>2. \A q \in records : q <= m - 1 /\ q >= 0
    BY <1>1, <1>4, <2>1
  <2>3. m - 1 \in Nat
    <3>1. PICK q \in records : q <= m - 1 /\ q >= 0 /\ q \in Nat
      BY <1>1, <2>2
    <3> QED
      BY <1>4, <3>1
  <2>4. m - 1 \in Bounds
    BY <2>2, <2>3
  <2> QED
    BY <1>3, <1>4, <2>4
<1> QED
  BY <1>4, <1>5 DEF Newest

\* What GetUserKey returns the newest of makes a lookup that is in order: a newer key
\* below the size that is not among the records is without its record.
LEMMA LookUpsInOrder ==
  ASSUME LogInv, NEW user, NEW master \in BOOLEAN, NEW size \in Nat,
         master \/ checkpoint <= size,
         Records(user, master, size) # {}
  PROVE  LookUpOK(LookUpOf(Newest(Records(user, master, size)), master, checkpoint))
<1> DEFINE records == Records(user, master, size)
           p == Newest(records)
           l == LookUpOf(p, master, checkpoint)
<1>1. records \in SUBSET Positions
  BY DEF Records, Entries
<1>2. p \in records /\ \A q \in records : q <= p
  BY <1>1, NewestOf
<1>3. p \in Positions /\ log[p + 1] = user /\ (IsMaster(p) <=> master)
  BY <1>2 DEF Records, Entries
<1> HIDE DEF p
<1>4. /\ Len(log) \in Nat /\ published \in 0 .. Len(log) /\ checkpoint \in 0 .. published
      /\ p \in Nat /\ Positions \subseteq Nat
  BY <1>3 DEF LogInv, Positions
<1>5. /\ l \in [pos : Positions, master : BOOLEAN, size : 0 .. Len(log), missed : BOOLEAN]
      /\ l.pos = p /\ l.master = master /\ l.size = checkpoint /\ l.missed = Missed(p, checkpoint)
  BY <1>3, <1>4 DEF LookUpOf, Missed
<1>6. ASSUME ~ master, ~ Missed(p, checkpoint), NEW q \in Entries(user), p < q, q < checkpoint
      PROVE  FALSE
  <2>1. ~ In(q, {"accepted"})
    BY <1>3, <1>6 DEF Missed
  <2>2. q \in Positions /\ log[q + 1] = user /\ q \in Nat
    BY <1>4, <1>6 DEF Entries
  <2>3. ~ IsMaster(q)
    <3>1. p \in Entries(log[q + 1])
      BY <1>3, <2>2 DEF Entries
    <3> QED
      BY <1>4, <1>6, <2>2, <3>1 DEF IsMaster
  <2>4. q <= size /\ q <= published
    BY <1>4, <1>6, <2>2
  <2>5. q \in records
    BY <1>6, <2>1, <2>3, <2>4 DEF Records
  <2> QED
    BY <1>2, <1>4, <1>6, <2>2, <2>5
<1>7. ~ master => Missed(p, checkpoint) \/ \A q \in Entries(user) : q <= p \/ q >= checkpoint
  <2>1. Entries(user) \subseteq Nat
    BY <1>4 DEF Entries
  <2> QED
    BY <1>4, <1>6, <2>1
<1> QED
  BY <1>3, <1>5, <1>7 DEF LookUpOK, p

\* A lookup that is in order is accepted by every digest it is not outdated for.
LEMMA OnlyOutdatedLookUpsFail ==
  ASSUME LogInv, NEW l, LookUpOK(l), NEW size \in 0 .. Len(log),
         Panics(l, size) \/ Verdict(l, size) # "accepts"
  PROVE  Outdated(l, size)
<1> SUFFICES ASSUME ~ Outdated(l, size) PROVE FALSE
  OBVIOUS
<1> DEFINE user == log[l.pos + 1]
           own == Entries(user)
<1>1. /\ Len(log) \in Nat /\ Len(log) <= 2 ^ Depth /\ Positions \subseteq Nat
      /\ l.pos \in Positions /\ l.pos \in Nat /\ l.size \in Nat
  BY DEF LogInv, Positions, LookUpOK
<1>2. own \in SUBSET Nat /\ l.pos \in own
  BY <1>1 DEF Entries
<1>3. size \in ForestSizes /\ size \in Nat
  BY <1>1, SizesFit
<1>4. CASE l.master
  <2>1. l.pos < size
    BY <1>1, <1>3, <1>4 DEF Outdated
  <2>2. \A q \in own : l.pos <= q
    BY <1>4 DEF LookUpOK, IsMaster
  <2>3. ~ FirstPanics(own, l.pos, size) /\ MKVerdict(l.pos, size) = "accepts"
    BY <1>2, <1>3, <2>1, <2>2, FirstKeyIsAccepted
  <2> QED
    BY <1>4, <2>3 DEF Panics, Verdict
<1>5. CASE ~ l.master
  <2>1. l.pos < size /\ l.size = size /\ ~ l.missed
    BY <1>1, <1>3, <1>5 DEF Outdated
  <2>2. \A q \in own : q <= l.pos \/ q >= size
    BY <1>5, <2>1 DEF LookUpOK
  <2>3. ~ LatestPanics(own, l.pos, size) /\ PKVerdict(own, l.pos, size) = "accepts"
    BY <1>2, <1>3, <2>1, <2>2, NewestKeyIsAccepted
  <2> QED
    BY <1>5, <2>3 DEF Panics, Verdict
<1> QED
  BY <1>4, <1>5

\* The queues stay in order.
LEMMA QueueSteps ==
  ASSUME LogInv, QueuesInv, CycleTypeOK, [Next]_vars
  PROVE  QueuesInv'
<1>1. LogInv' /\ Grows
  BY LogSteps
<1>2. /\ \A p : RegisterOK(p) => RegisterOK(p)'
      /\ \A r : AppendOK(r) => AppendOK(r)'
      /\ \A l : LookUpOK(l) => LookUpOK(l)'
  BY <1>1, RequestsStay
<1>3. ASSUME RegisterRequests' \subseteq RegisterRequests, AppendRequests' \subseteq AppendRequests,
             LookupRequests' \subseteq LookupRequests
      PROVE  QueuesInv'
  BY <1>2, <1>3 DEF QueuesInv
<1>4. ASSUME NEW p \in Positions PROVE AppendOK(AppendRequest(p))
  <2>1. AppendRequest(p) \in [pos : Positions, node : Nat, height : Nat, size : Nat]
    BY DEF AppendRequest
  <2> QED
    BY <2>1 DEF AppendOK, AppendRequest
<1>5. CASE \E user \in Users : Write(user)
  BY <1>3, <1>5 DEF Write, queueVars
<1>6. CASE \E p \in Positions : Put(p) \/ AddKey(p) \/ LoseCall(p)
  BY <1>3, <1>6 DEF Put, AddKey, LoseCall, queueVars
<1>7. CASE \E p \in Positions : VerifyAsync(p)
  <2>1. PICK p \in Positions : Enqueue(p)
    BY <1>7 DEF VerifyAsync
  <2>2. CASE IsMaster(p)
    <3>1. /\ RegisterRequests' = RegisterRequests \cup {p}
          /\ AppendRequests' = AppendRequests /\ LookupRequests' = LookupRequests
      BY <2>1, <2>2 DEF Enqueue
    <3>2. RegisterOK(p)
      BY <2>2 DEF RegisterOK
    <3> QED
      BY <1>2, <3>1, <3>2 DEF QueuesInv
  <2>3. CASE ~ IsMaster(p)
    <3>1. /\ AppendRequests' = AppendRequests \cup {AppendRequest(p)}
          /\ RegisterRequests' = RegisterRequests /\ LookupRequests' = LookupRequests
      BY <2>1, <2>3 DEF Enqueue
    <3> QED
      BY <1>2, <1>4, <3>1 DEF QueuesInv
  <2> QED
    BY <2>2, <2>3
<1>8. CASE (\E size \in EpochSizes : EndEpoch(size)) \/ Poll
  BY <1>3, <1>8 DEF EndEpoch, Poll, queueVars
<1>9. ASSUME NEW user \in Sought, LookUpMK(user) \/ LookUpPK(user) PROVE QueuesInv'
  <2>1. PICK master \in BOOLEAN, size \in Nat :
          (master \/ checkpoint <= size) /\ VerifyLookUp(Records(user, master, size), master)
    <3>1. checkpoint \in Nat /\ checkpoint <= checkpoint
      BY DEF LogInv
    <3> QED
      BY <1>9, <3>1 DEF LookUpMK, LookUpPK
  <2> DEFINE l == LookUpOf(Newest(Records(user, master, size)), master, checkpoint)
  <2>2. /\ Records(user, master, size) # {} /\ LookupRequests' = {l}
        /\ RegisterRequests' = RegisterRequests /\ AppendRequests' = AppendRequests
    BY <2>1 DEF VerifyLookUp
  <2>3. LookUpOK(l)
    BY <2>1, <2>2, LookUpsInOrder
  <2> QED
    BY <1>2, <2>2, <2>3 DEF QueuesInv
<1>10. CASE \E user \in Sought : LookUpVerify(user)
  BY <1>3, <1>10 DEF LookUpVerify, queueVars
<1>11. ASSUME NEW request \in todo, JudgeRegister(request), phase = "register",
              request \in RegisterRequests
       PROVE  QueuesInv'
  <2>1. RegisterOK(request) /\ request \in Positions
    BY <1>11 DEF QueuesInv, RegisterOK
  <2>2. /\ RegisterRequests' \subseteq RegisterRequests /\ LookupRequests' = LookupRequests
        /\ AppendRequests' = AppendRequests \cup {AppendRequest(request)}
    BY <1>11 DEF JudgeRegister
  <2> QED
    BY <1>2, <1>4, <2>1, <2>2 DEF QueuesInv
<1>12. ASSUME NEW r \in AppendRequests, JudgeAppend(r) PROVE QueuesInv'
  <2>1. CASE Proven(r)
    <3>1. AppendOK(r) /\ r.pos \in Positions /\ r.pos \in Nat /\ r.pos < digest
          /\ r \in [pos : Positions, node : Nat, height : Nat, size : Nat]
      BY <1>12 DEF QueuesInv, AppendOK, JudgeAppend, Attempt, PosOf, Positions
    <3>2. digest \in 0 .. Len(log) /\ digest \in Nat
      BY DEF CycleTypeOK, LogInv
    <3>3. digest \in ForestSizes
      BY <3>2, SizesFit
    <3>4. GetOldDepth(r.pos, digest) \in Nat
      <4>1. r.pos \in 0 .. digest - 1
        BY <3>1, <3>2
      <4>2. digest <= digest
        BY <3>2
      <4> QED
        BY <3>3, <4>1, <4>2, DepthsGrow
    <3> HIDE DEF GetOldDepth
    <3>5. Raised(r) \in [pos : Positions, node : Nat, height : Nat, size : Nat]
      BY <3>1, <3>2, <3>4 DEF Raised
    <3>6. Raised(r).node = Raised(r).height
      BY <3>1 DEF Raised
    <3>7. AppendOK(Raised(r))
      BY <3>5, <3>6 DEF AppendOK
    <3>8. /\ AppendRequests' = (AppendRequests \ {r}) \cup { Raised(r) }
          /\ RegisterRequests' = RegisterRequests /\ LookupRequests' = LookupRequests
      BY <1>12, <2>1 DEF JudgeAppend
    <3> QED
      BY <1>2, <3>7, <3>8 DEF QueuesInv
  <2>2. CASE ~ Proven(r)
    BY <1>3, <1>12, <2>2 DEF JudgeAppend
  <2> QED
    BY <2>1, <2>2
<1>13. CASE CycleStep
  <2>1. CASE StartCycle \/ NextQueue \/ \E request \in Foremost : Skip(request)
    BY <1>3, <2>1 DEF StartCycle, NextQueue, Skip, queueVars
  <2>2. ASSUME NEW request \in Foremost, Judge(request) PROVE QueuesInv'
    <3>1. request \in todo
      BY DEF Foremost
    <3>2. CASE JudgeRegister(request)
      BY <1>11, <3>1, <3>2 DEF JudgeRegister, CycleTypeOK
    <3>3. CASE JudgeAppend(request)
      BY <1>12, <3>1, <3>3 DEF JudgeAppend, CycleTypeOK
    <3>4. CASE JudgeLookUp(request)
      BY <1>3, <3>4 DEF JudgeLookUp
    <3> QED
      BY <2>2, <3>2, <3>3, <3>4 DEF Judge
  <2> QED
    BY <1>13, <2>1, <2>2 DEF CycleStep
<1>14. CASE UNCHANGED vars
  BY <1>3, <1>14 DEF vars, queueVars
<1> QED
  BY <1>5, <1>6, <1>7, <1>8, <1>9, <1>10, <1>13, <1>14 DEF Next

-----------------------------------------------------------------------------
(* The cycle.                                                              *)

\* In a cycle in which the verifier knows all of a user's keys, each of them is proven:
\* the tree of a key has no keys but those that the digest covers.
LEMMA SettledKeysAreProven ==
  ASSUME LogInv, CycleTypeOK, NEW r, AppendOK(r), r.pos < digest, SettledOK(log[r.pos + 1])
  PROVE  Proven(r)
<1> DEFINE user == log[r.pos + 1]
           tree == Under(GetRootIndex(r.pos, digest), digest)
<1>1. /\ digest \in 0 .. Len(log) /\ digest \in Nat /\ r.pos \in Nat /\ r.node = r.height
  BY DEF CycleTypeOK, LogInv, AppendOK, Positions
<1>2. digest \in ForestSizes
  BY <1>1, SizesFit
<1>3. tree \subseteq 0 .. digest - 1
  <2>1. r.pos \in 0 .. digest - 1
    BY <1>1
  <2> QED
    BY <1>2, <2>1, EveryPositionHasItsTree
<1>4. ASSUME NEW p \in Entries(user), p \in tree PROVE p \in keys(user)
  <2>1. p < digest
    BY <1>1, <1>3, <1>4
  <2> QED
    BY <2>1 DEF SettledOK
<1> QED
  BY <1>1, <1>4 DEF Proven, ExistenceProven

\* What a cycle has found out stays true while the log grows.
LEMMA CycleStays ==
  ASSUME LogInv, LogInv', Grows, CycleInv, UNCHANGED << phase, digest, settled, warnings >>, CycleTypeOK'
  PROVE  CycleInv'
<1>1. /\ Positions \subseteq Positions'
      /\ \A user : /\ Entries(user) \subseteq Entries(user)'
                   /\ \A q \in Entries(user)' : q \in Entries(user) \/ q >= Len(log)
                   /\ keys(user) \subseteq keys(user)'
  BY EntriesGrow
<1>2. digest \in 0 .. Len(log) /\ Len(log) \in Nat
  BY DEF CycleInv, CycleTypeOK, LogInv
<1>3. ASSUME NEW user \in settled PROVE SettledOK(user)'
  <2>1. ASSUME NEW q \in Entries(user)', q < digest PROVE q \in keys(user)'
    <3>1. q \in Int
      BY DEF Entries, Positions
    <3>2. q \in Entries(user)
      BY <1>1, <1>2, <2>1, <3>1
    <3>3. q \in keys(user)
      BY <2>1, <3>2 DEF CycleInv, SettledOK
    <3> QED
      BY <1>1, <3>3
  <2> QED
    BY <2>1 DEF SettledOK
<1>4. ASSUME NEW w \in warnings, WarningOK(w) PROVE WarningOK(w)'
  BY <1>1, <1>4 DEF WarningOK, Grows
<1> QED
  BY <1>3, <1>4 DEF CycleInv

\* Outside the cycle nothing is taken from a queue.
LEMMA OtherSteps ==
  ASSUME VerifierInv, [Next]_vars, ~ CycleStep
  PROVE  CycleInv' /\ CrashInv'
<1>1. LogInv /\ CycleInv /\ CycleTypeOK /\ LogInv' /\ Grows
  BY LogSteps DEF VerifierInv, CycleInv
<1>2. /\ UNCHANGED cycleVars
      /\ phase = "register" => RegisterRequests \subseteq RegisterRequests'
      /\ phase = "append" => AppendRequests \subseteq AppendRequests'
      /\ phase = "lookup" => LookupRequests \subseteq LookupRequests'
  <2>1. CASE (\E user \in Users : Write(user)) \/ (\E size \in EpochSizes : EndEpoch(size)) \/ Poll
    BY <2>1 DEF Write, EndEpoch, Poll, queueVars
  <2>2. CASE \E p \in Positions : Put(p) \/ AddKey(p) \/ LoseCall(p)
    BY <2>2 DEF Put, AddKey, LoseCall, SetStage, queueVars
  <2>3. CASE \E p \in Positions : VerifyAsync(p)
    <3>1. PICK p \in Positions : Enqueue(p) /\ UNCHANGED cycleVars
      BY <2>3 DEF VerifyAsync, SetStage
    <3> QED
      BY <3>1 DEF Enqueue
  <2>4. CASE \E user \in Sought : LookUpMK(user) \/ LookUpPK(user)
    BY <2>4 DEF LookUpMK, LookUpPK, VerifyLookUp
  <2>5. CASE \E user \in Sought : LookUpVerify(user)
    BY <2>5 DEF LookUpVerify, queueVars
  <2>6. CASE UNCHANGED vars
    BY <2>6 DEF vars, queueVars
  <2> QED
    BY <2>1, <2>2, <2>3, <2>4, <2>5, <2>6 DEF Next
<1>3. published \in Nat /\ published' \in Nat /\ published <= published'
  BY <1>1 DEF LogInv, Grows
<1>4. CycleTypeOK'
  BY <1>1, <1>2, <1>3 DEF CycleTypeOK, cycleVars
<1>5. CycleInv'
  BY <1>1, <1>2, <1>4, CycleStays DEF cycleVars
<1>6. CASE crash' = crash
  BY <1>5, <1>6 DEF VerifierInv, CrashInv
<1>7. ASSUME NEW user \in Sought, LookUpVerify(user) PROVE CrashInv'
  <2> DEFINE size == SizeFor(checkpoint)
  <2>1. ASSUME NEW l \in Answers(user), Panics(l, size) PROVE Outdated(l, size)
    <3>1. size \in 0 .. Len(log) /\ size \in Nat /\ checkpoint <= size
      BY <1>1 DEF SizeFor, LogInv
    <3> HIDE DEF size
    <3>2. PICK master \in BOOLEAN :
            /\ Records(user, master, size) # {}
            /\ l = LookUpOf(Newest(Records(user, master, size)), master, checkpoint)
      BY DEF Answers, size
    <3>3. LookUpOK(l)
      BY <1>1, <3>1, <3>2, LookUpsInOrder
    <3> QED
      BY <1>1, <2>1, <3>1, <3>3, OnlyOutdatedLookUpsFail
  <2>2. crash' = { Failed(l, size) : l \in { a \in Answers(user) : Panics(a, size) } }
    BY <1>7 DEF LookUpVerify
  <2> HIDE DEF size
  <2> QED
    BY <2>1, <2>2 DEF CrashInv, Failed
<1>8. CASE \A user \in Sought : ~ LookUpVerify(user)
  <2>1. crash' = crash
    <3>1. CASE (\E user \in Users : Write(user)) \/ (\E size \in EpochSizes : EndEpoch(size)) \/ Poll
      BY <3>1 DEF Write, EndEpoch, Poll, serverVars
    <3>2. CASE \E p \in Positions : Put(p) \/ AddKey(p) \/ LoseCall(p) \/ VerifyAsync(p)
      BY <3>2 DEF Put, AddKey, LoseCall, VerifyAsync, SetStage
    <3>3. CASE \E user \in Sought : LookUpMK(user) \/ LookUpPK(user)
      BY <3>3 DEF LookUpMK, LookUpPK, VerifyLookUp, serverVars
    <3>4. CASE UNCHANGED vars
      BY <3>4 DEF vars, serverVars
    <3> QED
      BY <1>8, <3>1, <3>2, <3>3, <3>4 DEF Next
  <2> QED
    BY <1>6, <2>1
<1> QED
  BY <1>5, <1>7, <1>8

\* The attempts of the cycle.
LEMMA JudgeSteps ==
  ASSUME VerifierInv, NEW request \in todo, Judge(request), LogInv', Grows
  PROVE  CycleInv' /\ CrashInv'
<1>1. LogInv /\ QueuesInv /\ CycleInv /\ CycleTypeOK
  BY DEF VerifierInv, CycleInv
<1>2. /\ PosOf(request) < digest /\ todo' = todo \ {request}
      /\ UNCHANGED << log, published, stage, checkpoint, phase, digest, settled >>
  BY DEF Judge, JudgeRegister, JudgeAppend, JudgeLookUp, Attempt
<1>3. digest \in 0 .. Len(log) /\ Len(log) \in Nat
  BY <1>1 DEF CycleTypeOK, LogInv
\* A warning that is in order leaves the cycle in order.
<1>4. ASSUME CycleTypeOK', NEW w, WarningOK(w), warnings' \subseteq warnings \cup {w}
      PROVE  CycleInv'
  <2>1. ASSUME NEW user \in settled' PROVE SettledOK(user)'
    BY <1>1, <1>2 DEF CycleInv, SettledOK, Entries, Positions, keys, In
  <2>2. ASSUME NEW v \in warnings' PROVE WarningOK(v)'
    <3>1. WarningOK(v)
      BY <1>1, <1>4, <2>2 DEF CycleInv
    <3> QED
      BY <1>2, <3>1 DEF WarningOK, Positions
  <2> QED
    BY <1>4, <2>1, <2>2 DEF CycleInv
<1>5. ASSUME CycleTypeOK', warnings' \subseteq warnings PROVE CycleInv'
  <2>1. ASSUME NEW user \in settled' PROVE SettledOK(user)'
    BY <1>1, <1>2 DEF CycleInv, SettledOK, Entries, Positions, keys, In
  <2>2. ASSUME NEW v \in warnings' PROVE WarningOK(v)'
    <3>1. WarningOK(v)
      BY <1>1, <1>5, <2>2 DEF CycleInv
    <3> QED
      BY <1>2, <3>1 DEF WarningOK, Positions
  <2> QED
    BY <1>5, <2>1, <2>2 DEF CycleInv
<1>6. CASE JudgeRegister(request)
  <2>1. /\ phase = "register" /\ crash' = crash
        /\ RegisterRequests' = RegisterRequests \ {request}
        /\ Warn(RegisterProven(request), [kind |-> "register", pos |-> request])
    BY <1>6 DEF JudgeRegister
  <2>2. RegisterOK(request)
    BY <1>1, <2>1 DEF CycleTypeOK, QueuesInv
  <2>3. RegisterProven(request)
    BY <2>2 DEF RegisterOK, IsMaster, RegisterProven
  <2>4. warnings' = warnings
    BY <2>1, <2>3 DEF Warn
  <2>5. CycleTypeOK'
    BY <1>1, <1>2, <2>1, <2>4 DEF CycleTypeOK
  <2> QED
    BY <1>5, <2>1, <2>4, <2>5 DEF VerifierInv, CrashInv
<1>7. CASE JudgeAppend(request)
  <2>1. /\ phase = "append" /\ crash' = crash
        /\ AppendRequests' = IF Proven(request) THEN (AppendRequests \ {request}) \cup { Raised(request) }
                                                ELSE AppendRequests
        /\ Warn(Proven(request), [kind |-> "append", pos |-> request.pos])
    BY <1>7 DEF JudgeAppend
  <2>2. AppendOK(request) /\ request.pos \in Positions /\ request.pos < digest
    BY <1>1, <1>2, <2>1 DEF CycleTypeOK, QueuesInv, AppendOK, PosOf
  <2>3. CycleTypeOK'
    <3>1. todo' \subseteq AppendRequests'
      BY <1>1, <1>2, <2>1 DEF CycleTypeOK
    <3> QED
      BY <1>1, <1>2, <2>1, <3>1 DEF CycleTypeOK
  <2>4. CASE Proven(request)
    <3>1. warnings' = warnings
      BY <2>1, <2>4 DEF Warn
    <3> QED
      BY <1>5, <2>1, <2>3, <3>1 DEF VerifierInv, CrashInv
  <2>5. CASE ~ Proven(request)
    <3> DEFINE w == [kind |-> "append", pos |-> request.pos]
    <3>1. log[request.pos + 1] \notin settled
      BY <1>1, <2>2, <2>5, SettledKeysAreProven DEF CycleInv
    <3>2. WarningOK(w)
      BY <2>2, <3>1 DEF WarningOK
    <3>3. warnings' \subseteq warnings \cup {w}
      BY <2>1 DEF Warn
    <3> HIDE DEF w
    <3> QED
      BY <1>4, <2>1, <2>3, <3>2, <3>3 DEF VerifierInv, CrashInv
  <2> QED
    BY <2>4, <2>5
<1>8. CASE JudgeLookUp(request)
  <2>1. /\ phase = "lookup"
        /\ IF Panics(request, digest)
           THEN crash' = { Failed(request, digest) } /\ UNCHANGED << warnings, LookupRequests >>
           ELSE /\ Warn(Verdict(request, digest) = "accepts", Failed(request, digest))
                /\ LookupRequests' = LookupRequests \ {request}
                /\ crash' = crash
    BY <1>8 DEF JudgeLookUp
  <2>2. LookUpOK(request)
    BY <1>1, <2>1 DEF CycleTypeOK, QueuesInv
  <2>3. Panics(request, digest) \/ Verdict(request, digest) # "accepts" => Outdated(request, digest)
    BY <1>1, <1>3, <2>2, OnlyOutdatedLookUpsFail
  <2>4. CycleTypeOK'
    <3>1. todo' \subseteq LookupRequests'
      BY <1>1, <1>2, <2>1 DEF CycleTypeOK
    <3> QED
      BY <1>1, <1>2, <2>1, <3>1 DEF CycleTypeOK
  <2>5. CASE Panics(request, digest)
    <3>1. CrashInv'
      BY <2>1, <2>3, <2>5 DEF CrashInv, Failed
    <3> QED
      BY <1>5, <2>1, <2>4, <2>5, <3>1
  <2>6. CASE ~ Panics(request, digest)
    <3>1. CrashInv'
      BY <2>1, <2>6 DEF VerifierInv, CrashInv
    <3>2. CASE Verdict(request, digest) = "accepts"
      <4>1. warnings' = warnings
        BY <2>1, <2>6, <3>2 DEF Warn
      <4> QED
        BY <1>5, <2>4, <3>1, <4>1
    <3>3. CASE Verdict(request, digest) # "accepts"
      <4> DEFINE w == Failed(request, digest)
      <4>1. WarningOK(w)
        BY <2>3, <3>3 DEF WarningOK, Failed
      <4>2. warnings' \subseteq warnings \cup {w}
        BY <2>1, <2>6 DEF Warn
      <4> HIDE DEF w
      <4> QED
        BY <1>4, <2>4, <3>1, <4>1, <4>2
    <3> QED
      BY <3>2, <3>3
  <2> QED
    BY <2>5, <2>6
<1> QED
  BY <1>6, <1>7, <1>8 DEF Judge

\* The other steps of the cycle.
LEMMA CycleSteps ==
  ASSUME VerifierInv, CycleStep, LogInv', Grows
  PROVE  CycleInv' /\ CrashInv'
<1>1. LogInv /\ QueuesInv /\ CycleInv /\ CycleTypeOK
  BY DEF VerifierInv, CycleInv
<1>2. CASE StartCycle
  <2>1. /\ phase = "idle" /\ phase' = "register" /\ digest' = checkpoint
        /\ todo' = RegisterRequests
        /\ settled' = { user \in Watched : \A p \in Entries(user) : p < checkpoint => p \in keys(user) }
        /\ UNCHANGED << log, published, stage, crash, queueVars, warnings >>
    BY <1>2 DEF StartCycle, serverVars
  <2>2. CycleTypeOK' /\ warnings' = {}
    BY <1>1, <2>1 DEF CycleTypeOK, LogInv, queueVars
  <2>3. ASSUME NEW user \in settled' PROVE SettledOK(user)'
    BY <2>1 DEF SettledOK, Entries, Positions, keys, In
  <2> QED
    BY <2>1, <2>2, <2>3 DEF CycleInv, VerifierInv, CrashInv
<1>3. CASE NextQueue
  <2>1. /\ UNCHANGED << log, published, stage, crash, queueVars >>
        /\ todo = {}
    BY <1>3 DEF NextQueue, serverVars
  <2>2. CASE phase = "lookup"
    <3>1. phase' = "idle" /\ todo' = {} /\ digest' = 0 /\ settled' = {} /\ warnings' = {}
      BY <1>3, <2>1, <2>2 DEF NextQueue
    <3>2. CycleTypeOK'
      BY <1>1, <2>1, <3>1 DEF CycleTypeOK, LogInv
    <3> QED
      BY <2>1, <3>1, <3>2 DEF CycleInv, VerifierInv, CrashInv
  <2>3. CASE phase # "lookup"
    <3>1. /\ UNCHANGED << digest, settled, warnings >>
          /\ \/ phase' = "append" /\ todo' = AppendRequests
             \/ phase' = "lookup" /\ todo' = LookupRequests
      BY <1>3, <2>3 DEF NextQueue
    <3>2. CycleTypeOK'
      BY <1>1, <2>1, <3>1 DEF CycleTypeOK, LogInv, queueVars
    <3>3. ASSUME NEW user \in settled' PROVE SettledOK(user)'
      BY <1>1, <2>1, <3>1 DEF CycleInv, SettledOK, Entries, Positions, keys, In
    <3>4. ASSUME NEW w \in warnings' PROVE WarningOK(w)'
      BY <1>1, <2>1, <3>1 DEF CycleInv, WarningOK, Positions
    <3> QED
      BY <2>1, <3>2, <3>3, <3>4 DEF CycleInv, VerifierInv, CrashInv
  <2> QED
    BY <2>2, <2>3
<1>4. ASSUME NEW request \in Foremost, Skip(request) PROVE CycleInv' /\ CrashInv'
  <2>1. /\ UNCHANGED << log, published, stage, crash, queueVars, phase, digest, settled, warnings >>
        /\ todo' \subseteq todo
    BY <1>4 DEF Skip, serverVars
  <2>2. CycleTypeOK'
    BY <1>1, <2>1 DEF CycleTypeOK, queueVars
  <2> QED
    BY <1>1, <2>1, <2>2, CycleStays DEF VerifierInv, CrashInv
<1>5. ASSUME NEW request \in Foremost, Judge(request) PROVE CycleInv' /\ CrashInv'
  BY <1>5, JudgeSteps DEF Foremost
<1> QED
  BY <1>2, <1>3, <1>4, <1>5 DEF CycleStep

-----------------------------------------------------------------------------
LEMMA VerifierInvInit == Init => VerifierInv
<1> SUFFICES ASSUME Init PROVE VerifierInv
  OBVIOUS
<1>1. log = <<>> /\ stage = <<>> /\ published = 0 /\ checkpoint = 0
  BY DEF Init, LogInit
<1>2. 2 ^ Depth \in Nat
  BY DepthAssumption, PowersAssumption
<1>3. Len(<<>>) = 0 /\ <<>> \in Seq(Users) /\ <<>> \in Seq(Stages)
  OBVIOUS
<1>4. LogInv
  BY <1>1, <1>2, <1>3 DEF LogInv
<1>5. QueuesInv /\ CrashInv
  BY DEF Init, QueuesInv, CrashInv
<1>6. CycleInv
  BY <1>1 DEF Init, CycleInv, CycleTypeOK
<1> QED
  BY <1>4, <1>5, <1>6 DEF VerifierInv

LEMMA VerifierInvNext == VerifierInv /\ [Next]_vars => VerifierInv'
<1> SUFFICES ASSUME VerifierInv, [Next]_vars PROVE VerifierInv'
  OBVIOUS
<1>1. LogInv' /\ Grows
  BY LogSteps DEF VerifierInv
<1>2. QueuesInv'
  BY QueueSteps DEF VerifierInv, CycleInv
<1>3. CycleInv' /\ CrashInv'
  BY <1>1, OtherSteps, CycleSteps
<1> QED
  BY <1>1, <1>2, <1>3 DEF VerifierInv

LEMMA AlwaysInOrder == Spec => []VerifierInv
  BY VerifierInvInit, VerifierInvNext, PTL DEF Spec

\* In a cycle that begins when the verifier has all of a user's published keys it does
\* not warn about any of them, however handlers, epochs and polls come in between.
THEOREM SettledUsersNeverSeeWarnings == Spec => []SettledUsersSeeNoWarning
<1>1. VerifierInv => SettledUsersSeeNoWarning
  BY DEF VerifierInv, CycleInv, WarningOK, SettledUsersSeeNoWarning
<1> QED
  BY <1>1, AlwaysInOrder, PTL

\* A lookup, by a client or by the verifier, fails or makes the server panic only for
\* the reasons that Outdated lists, in logs of every shape.
THEOREM LookUpsAlwaysFailOnlyWhenOutdated == Spec => []LookUpsFailOnlyWhenOutdated
<1>1. VerifierInv => LookUpsFailOnlyWhenOutdated
  <2> SUFFICES ASSUME VerifierInv PROVE LookUpsFailOnlyWhenOutdated
    OBVIOUS
  <2>1. LogInv /\ checkpoint \in 0 .. Len(log) /\ checkpoint \in Nat /\ checkpoint <= checkpoint
    BY DEF VerifierInv, LogInv
  <2>2. ASSUME NEW user \in Sought, NEW l \in Answers(user), checkpoint > 0,
               Verdict(l, checkpoint) # "accepts"
        PROVE  Outdated(l, checkpoint)
    <3>1. SizeFor(checkpoint) = checkpoint
      BY <2>1, <2>2 DEF SizeFor
    <3>2. PICK master \in BOOLEAN :
            /\ Records(user, master, checkpoint) # {}
            /\ l = LookUpOf(Newest(Records(user, master, checkpoint)), master, checkpoint)
      BY <3>1 DEF Answers
    <3>3. LookUpOK(l)
      BY <2>1, <3>2, LookUpsInOrder
    <3> QED
      BY <2>1, <2>2, <3>3, OnlyOutdatedLookUpsFail
  <2>3. \A w \in warnings \cup crash : w.kind = "lookup" => Outdated(w.lookup, w.digest)
    BY DEF VerifierInv, CycleInv, CrashInv, WarningOK
  <2> QED
    BY <2>2, <2>3 DEF LookUpsFailOnlyWhenOutdated
<1> QED
  BY <1>1, AlwaysInOrder, PTL
=============================================================================
