------------------------------- MODULE Verifier -------------------------------
(***************************************************************************)
(* The verifier daemon of MerkleSquare (verifier/verifierd), the client    *)
(* library that reports to it (client, verifier/verifierclt), and the      *)
(* server and auditor they ask.                                            *)
(*                                                                         *)
(* The server is KeyLog, which MerkleSquareServer implements, with the     *)
(* step that puts an entry's record into the store; a digest is its size.  *)
(* What its proofs lead to is told by Verdicts.  The auditor is external.  *)
(*                                                                         *)
(* The calls of the verifier's handlers are told by the stage of the entry *)
(* they are for.  A cycle of the verifier holds the lock of the queue it   *)
(* goes through; the order within a queue makes no difference, and is that *)
(* of the log.  What a cycle knows is forgotten at its end.  The variants  *)
(* of its judgements for a given size judge in the same way.               *)
(***************************************************************************)
EXTENDS KeyLog, Verdicts

CONSTANTS
  Watched,      (* Users whose client is configured with a verifier.       *)
  Sought,       (* Users that others look up.                              *)
  Logs,         (* Bound: the logs of which the log is a prefix.           *)
  EpochSizes    (* Bound: the sizes at which epochs end.                   *)

ASSUME UsersAssumption ==
  /\ Watched \subseteq Users
  /\ Sought \subseteq Users

\* The tree is never full.
ASSUME LogsAssumption ==
  \A bound \in Logs : bound \in Seq(Users) /\ Len(bound) <= 2 ^ Depth

VARIABLES
  stage,            (* How far the call that made each entry has come.     *)
  crash,            (* The lookups the server panicked at: at most one.    *)
  checkpoint,       (* The size of the digest the auditor gives.           *)
  RegisterRequests, (* The queues of the verifier: positions, ...          *)
  AppendRequests,   (* positions with the node last proven, ...            *)
  LookupRequests,   (* and lookups.                                        *)
  phase,            (* The queue the verify cycle goes through.            *)
  digest,           (* The size of the digest it uses.                     *)
  todo,             (* What it has not come to in the queue.               *)
  settled,          (* History: users with nothing open when it began.     *)
  warnings          (* History: what it warned about.                      *)

serverVars == << log, published, stage, crash >>
queueVars  == << RegisterRequests, AppendRequests, LookupRequests >>
cycleVars  == << phase, digest, todo, settled, warnings >>
vars       == << serverVars, checkpoint, queueVars, cycleVars >>

up == crash = {}
Positions == 0 .. Len(log) - 1
Entries(user) == { p \in Positions : log[p + 1] = user }
In(p, stages) == stage[p + 1] \in stages

\* The first entry of a user is its master key.
IsMaster(p) == \A q \in Entries(log[p + 1]) : p <= q

\* The keys map: the hashes of the user's keys that were added to it.
keys(user) == { p \in Entries(user) : In(p, {"known"}) }

Returned(p) == In(p, {"known", "lost"}) \/ (In(p, {"stored"}) /\ log[p + 1] \notin Watched)

Init ==
  /\ LogInit
  /\ stage = <<>>
  /\ crash = {}
  /\ checkpoint = 0
  /\ RegisterRequests = {}
  /\ AppendRequests = {}
  /\ LookupRequests = {}
  /\ phase = "idle"
  /\ digest = 0
  /\ todo = {}
  /\ settled = {}
  /\ warnings = {}

-----------------------------------------------------------------------------
(* The calls that write, up to the answer of the server.                   *)

\* A client appends only after the registration has returned to it: only then does
\* it have the user's master keys.  When the record of a user that nobody looks up is
\* stored makes no difference.
Write(user) ==
  /\ up
  /\ \E bound \in Logs : IsPrefix(Append(log, user), bound)
  /\ \A p \in Entries(user) : IsMaster(p) => Returned(p)
  /\ Accept(user)
  /\ stage' = Append(stage, IF user \in Watched \cup Sought THEN "accepted" ELSE "stored")
  /\ UNCHANGED << crash, checkpoint, queueVars, cycleVars >>

SetStage(p, from, to) ==
  /\ p \in Positions
  /\ In(p, {from})
  /\ stage' = [stage EXCEPT ![p + 1] = to]
  /\ UNCHANGED << log, published, crash, checkpoint, cycleVars >>

Put(p) ==
  /\ up
  /\ SetStage(p, "accepted", "stored")
  /\ UNCHANGED queueVars

EndEpoch(size) ==
  /\ up
  /\ Publish(size)
  /\ UNCHANGED << stage, crash, checkpoint, queueVars, cycleVars >>

\* Another poll of the auditor, external.
Poll ==
  /\ up
  /\ checkpoint' = published
  /\ UNCHANGED << serverVars, queueVars, cycleVars >>

-----------------------------------------------------------------------------
(* The handlers of the verifier.                                           *)

\* With the lock of the queue.  node is the height of the node the request has the
\* hash of, size history: that of the digest it was last proven for.
AppendRequest(p) == [pos |-> p, node |-> 0, height |-> 0, size |-> 0]

Enqueue(p) ==
  IF IsMaster(p)
  THEN /\ phase # "register"
       /\ RegisterRequests' = RegisterRequests \cup {p}
       /\ UNCHANGED << AppendRequests, LookupRequests >>
  ELSE /\ phase # "append"
       /\ AppendRequests' = AppendRequests \cup { AppendRequest(p) }
       /\ UNCHANGED << RegisterRequests, LookupRequests >>

\* VerifyRegisterAsync and VerifyAppendAsync first queue the request, ...
VerifyAsync(p) ==
  /\ p \in Positions /\ log[p + 1] \in Watched
  /\ SetStage(p, "stored", "queued")
  /\ Enqueue(p)

\* ... then add the hash of the key.
AddKey(p) ==
  /\ SetStage(p, "queued", "known")
  /\ UNCHANGED queueVars

\* The call to the verifier fails: the client reports that to its caller, and does
\* not try again.
LoseCall(p) ==
  /\ p \in Positions /\ log[p + 1] \in Watched
  /\ SetStage(p, "stored", "lost")
  /\ UNCHANGED queueVars

-----------------------------------------------------------------------------
(* Lookups.                                                                *)

\* The records that GetUserKey may return.
Records(user, master, size) ==
  { p \in Entries(user) : ~ In(p, {"accepted"}) /\ (IsMaster(p) <=> master)
                            /\ (master \/ (p <= size /\ p <= published)) }

\* Slip: the records are gone through from the oldest.
Oldest(records) == CHOOSE p \in records : \A q \in records : p <= q

Newest(records) == CHOOSE p \in records : \A q \in records : q <= p

\* Whether a newer entry below size was without its record then.
Missed(p, size) == \E q \in Entries(log[p + 1]) : p < q /\ q < size /\ In(q, {"accepted"})

LookUpOf(p, master, size) == [pos |-> p, master |-> master, size |-> size, missed |-> Missed(p, size)]

\* History: a lookup and the size of the digest that it was judged by.
Failed(l, size) == [kind |-> "lookup", lookup |-> l, digest |-> size]

\* The call of VerifyLookUpAsync with the newest of the records.  Lookups do not meet
\* in the verifier: its queue is bounded to one.
VerifyLookUp(records, master) ==
  /\ up
  /\ phase # "lookup"
  /\ records # {}
  /\ LookupRequests = {}
  /\ LookupRequests' = { LookUpOf(Newest(records), master, checkpoint) }
  /\ UNCHANGED << serverVars, checkpoint, RegisterRequests, AppendRequests, cycleVars >>

LookUpMK(user) == VerifyLookUp(Records(user, TRUE, 0), TRUE)

\* The client asks for the size of the digest it has from the auditor.
LookUpPK(user) == VerifyLookUp(Records(user, FALSE, checkpoint), FALSE)

Panics(l, size) ==
  IF l.master THEN FirstPanics(Entries(log[l.pos + 1]), l.pos, size)
              ELSE LatestPanics(Entries(log[l.pos + 1]), l.pos, size)

Verdict(l, size) ==
  IF l.master THEN MKVerdict(l.pos, size)
              ELSE PKVerdict(Entries(log[l.pos + 1]), l.pos, size)

\* What LookUpMKVerify and LookUpPKVerify are about.  A size of 0 asks for whatever is
\* published.
SizeFor(size) == IF size = 0 THEN published ELSE size

Answers(user) ==
  { LookUpOf(Newest(Records(user, master, SizeFor(checkpoint))), master, checkpoint) :
      master \in { m \in BOOLEAN : Records(user, m, SizeFor(checkpoint)) # {} } }

\* A server that makes the proof has its state unchanged.
LookUpVerify(user) ==
  /\ up
  /\ crash' = { Failed(l, SizeFor(checkpoint)) :
                 l \in { a \in Answers(user) : Panics(a, SizeFor(checkpoint)) } }
  /\ crash' # {}
  /\ UNCHANGED << log, published, stage, checkpoint, queueVars, cycleVars >>

-----------------------------------------------------------------------------
(* The verify cycle.                                                       *)

\* Without the auditor the cycle is skipped, and with a digest of size 0 it attempts
\* nothing, which is left out.  The first lock is taken with the digest.
StartCycle ==
  /\ phase = "idle"
  /\ checkpoint > 0
  /\ phase' = "register"
  /\ digest' = checkpoint
  /\ todo' = RegisterRequests
  /\ settled' = { user \in Watched : \A p \in Entries(user) : p < checkpoint => p \in keys(user) }
  /\ UNCHANGED << serverVars, checkpoint, queueVars, warnings >>

NextQueue ==
  /\ phase # "idle"
  /\ todo = {}
  /\ \/ phase = "register" /\ phase' = "append" /\ todo' = AppendRequests
     \/ phase = "append" /\ phase' = "lookup" /\ todo' = LookupRequests
     \/ phase = "lookup" /\ phase' = "idle" /\ UNCHANGED todo
  /\ IF phase = "lookup" THEN digest' = 0 /\ settled' = {} /\ warnings' = {}
                         ELSE UNCHANGED << digest, settled, warnings >>
  /\ UNCHANGED << serverVars, checkpoint, queueVars >>

PosOf(request) == IF phase = "register" THEN request ELSE request.pos

Foremost == { request \in todo : \A other \in todo : PosOf(request) <= PosOf(other) }

\* An attempt that ends early: the digest does not cover the entry, or the server
\* cannot be asked.  The request stays in its queue.
Skip(request) ==
  /\ todo' = todo \ {request}
  /\ UNCHANGED << serverVars, checkpoint, queueVars, phase, digest, settled, warnings >>

Attempt(request) ==
  /\ up
  /\ PosOf(request) < digest
  /\ todo' = todo \ {request}
  /\ UNCHANGED << log, published, stage, checkpoint, phase, digest, settled >>

Warn(proven, warning) == warnings' = IF proven THEN warnings ELSE warnings \cup {warning}

\* VerifyNonexistenceProof: no entry of the user is before its master key.
RegisterProven(p) == \A q \in Entries(log[p + 1]) : p <= q

\* Slip: a registration is done with once it is judged.
JudgeRegisterOnce(p) ==
  /\ phase = "register"
  /\ Attempt(p)
  /\ Warn(RegisterProven(p), [kind |-> "register", pos |-> p])
  /\ RegisterRequests' = RegisterRequests \ {p}
  /\ UNCHANGED << AppendRequests, LookupRequests, crash >>

\* A registration goes on as an append.
JudgeRegister(p) ==
  /\ phase = "register"
  /\ Attempt(p)
  /\ Warn(RegisterProven(p), [kind |-> "register", pos |-> p])
  /\ RegisterRequests' = RegisterRequests \ {p}
  /\ AppendRequests' = AppendRequests \cup { AppendRequest(p) }
  /\ UNCHANGED << LookupRequests, crash >>

\* The keys map is read without its lock.
Proven(r) ==
  LET user == log[r.pos + 1]
  IN  r.node = r.height /\ ExistenceProven(Entries(user), keys(user), r.pos, r.height, digest)

\* The request goes on from the root that it was proven for.
Raised(r) ==
  LET height == GetOldDepth(r.pos, digest)
  IN  [r EXCEPT !.node = height, !.height = height, !.size = digest]

\* Slip: the height is raised whether the key was proven or not.
JudgeAppendRaising(r) ==
  /\ phase = "append"
  /\ Attempt(r)
  /\ Warn(Proven(r), [kind |-> "append", pos |-> r.pos])
  /\ AppendRequests' = (AppendRequests \ {r})
       \cup { IF Proven(r) THEN Raised(r) ELSE [r EXCEPT !.height = Raised(r).height] }
  /\ UNCHANGED << RegisterRequests, LookupRequests, crash >>

JudgeAppend(r) ==
  /\ phase = "append"
  /\ Attempt(r)
  /\ Warn(Proven(r), [kind |-> "append", pos |-> r.pos])
  /\ AppendRequests' = IF Proven(r) THEN (AppendRequests \ {r}) \cup { Raised(r) } ELSE AppendRequests
  /\ UNCHANGED << RegisterRequests, LookupRequests, crash >>

\* A lookup is done with once it is judged.  When the server panics it is not.
JudgeLookUp(l) ==
  /\ phase = "lookup"
  /\ Attempt(l)
  /\ IF Panics(l, digest)
     THEN crash' = { Failed(l, digest) } /\ UNCHANGED << warnings, LookupRequests >>
     ELSE /\ Warn(Verdict(l, digest) = "accepts", Failed(l, digest))
          /\ LookupRequests' = LookupRequests \ {l}
          /\ UNCHANGED crash
  /\ UNCHANGED << RegisterRequests, AppendRequests >>

Judge(request) == JudgeRegister(request) \/ JudgeAppend(request) \/ JudgeLookUp(request)

CycleStep ==
  \/ StartCycle
  \/ NextQueue
  \/ \E request \in Foremost : Skip(request) \/ Judge(request)

-----------------------------------------------------------------------------
Next ==
  \/ \E user \in Users : Write(user)
  \/ \E p \in Positions : Put(p) \/ VerifyAsync(p) \/ AddKey(p) \/ LoseCall(p)
  \/ \E size \in EpochSizes : EndEpoch(size)
  \/ Poll
  \/ \E user \in Sought : LookUpMK(user) \/ LookUpPK(user) \/ LookUpVerify(user)
  \/ CycleStep

Spec == Init /\ [][Next]_vars

JudgeAt(p) == \E request \in Foremost : PosOf(request) = p /\ phase # "lookup" /\ Judge(request)

\* Clients and handlers go on, the verify cycle goes round, and asking the server
\* about an entry does not fail every time.
Fairness ==
  /\ WF_vars(\E p \in Positions : Put(p) \/ AddKey(p))
  /\ SF_vars(\E p \in Positions : VerifyAsync(p) \/ LoseCall(p))
  /\ \A p \in UNION { 0 .. Len(bound) - 1 : bound \in Logs } : SF_vars(JudgeAt(p))
  /\ WF_vars(CycleStep)

FairSpec == Spec /\ Fairness

-----------------------------------------------------------------------------
\* The verifier warns about a key of a user only in a cycle that began while the
\* verifier had not been told of one of the user's published keys yet, be it that
\* the call is still under way or that it was lost.
SettledUsersSeeNoWarning ==
  \A w \in warnings : w.kind # "lookup" => log[w.pos + 1] \notin settled

\* A lookup of a value fails, be it that a client or the verifier cannot verify it
\* or that the server panics, only if it is judged by a newer digest than it was
\* made for, if a newer key was in the log but not in the store when it was made,
\* or if it is of a key at the very end of what was published.  One of a master key fails
\* only if it is not published.
Outdated(l, size) ==
  IF l.master THEN l.pos >= size ELSE l.size # size \/ l.missed \/ l.pos >= l.size

LookUpsFailOnlyWhenOutdated ==
  /\ \A w \in warnings \cup crash : w.kind = "lookup" => Outdated(w.lookup, w.digest)
  /\ \A user \in Sought : \A l \in Answers(user) :
       checkpoint > 0 /\ ~ Panics(l, checkpoint) /\ Verdict(l, checkpoint) # "accepts"
         => Outdated(l, checkpoint)

\* Every published key that the verifier was told of is proven to exist in the digest
\* that the auditor gives, once that stays the same for long enough, unless a call for
\* another key of its user was lost or the server panicked.
KeysAreProven ==
  up => \A user \in Watched : \A p \in keys(user) :
    \/ p >= checkpoint
    \/ \E r \in AppendRequests : r.pos = p /\ r.size = checkpoint
    \/ \E q \in Entries(user) : In(q, {"lost"})

KeysAreProvenAgain == []<>KeysAreProven
=============================================================================
