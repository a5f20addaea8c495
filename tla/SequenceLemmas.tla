--------------------------- MODULE SequenceLemmas ---------------------------
(***************************************************************************)
(* Facts about lists, sets of numbers and loops, which the proofs about    *)
(* several components need.                                                *)
(*                                                                         *)
(* The last section is about any loop and any claim about the rounds of    *)
(* one.  A proof instantiates this module with the loop and the claim that *)
(* it is about, because a prover cannot be given an operator in any other  *)
(* way; who only extends the module leaves both constants open.            *)
(***************************************************************************)
EXTENDS Integers, Sequences, SequencesExt, FiniteSetTheorems,
        NaturalsInduction, WellFoundedInduction, TLAPS

CONSTANTS
  LoopBody(_, _, _),  (* What does not change, the number of the round, and *)
                      (* the state before it: the state after it.           *)
  Claim(_, _)         (* What does not change, and the number of a round.   *)

\* The empty list holds nothing.
LEMMA ToSetEmpty == ToSet(<<>>) = {}
  BY DEF ToSet

\* A list that holds nothing is empty.
LEMMA ToSetNonEmpty ==
  ASSUME NEW S, NEW s \in Seq(S)
  PROVE  ToSet(s) = {} <=> s = <<>>
<1>1. DOMAIN s = 1 .. Len(s) /\ Len(s) \in Nat
  OBVIOUS
<1>2. ASSUME ToSet(s) = {} PROVE s = <<>>
  <2>1. \A i \in 1 .. Len(s) : FALSE
    BY <1>1, <1>2 DEF ToSet
  <2>2. Len(s) = 0
    BY <1>1, <2>1
  <2> QED
    BY <2>2
<1> QED
  BY <1>2, ToSetEmpty

\* Appending to a list adds exactly the appended element.
LEMMA ToSetAppend ==
  ASSUME NEW S, NEW s \in Seq(S), NEW e \in S
  PROVE  ToSet(Append(s, e)) = ToSet(s) \cup {e}
<1>1. DOMAIN Append(s, e) = 1 .. Len(s) + 1 /\ DOMAIN s = 1 .. Len(s)
  OBVIOUS
<1>2. \A i \in 1 .. Len(s) : Append(s, e)[i] = s[i]
  OBVIOUS
<1>3. Append(s, e)[Len(s) + 1] = e
  OBVIOUS
<1>4. 1 .. Len(s) + 1 = (1 .. Len(s)) \cup {Len(s) + 1}
  OBVIOUS
<1> QED
  BY <1>1, <1>2, <1>3, <1>4 DEF ToSet

\* A list with one element more ends with it.
LEMMA LastOfAppend ==
  ASSUME NEW S, NEW s \in Seq(S), NEW e \in S
  PROVE  /\ Append(s, e) \in Seq(S) /\ Append(s, e) # <<>>
         /\ Last(Append(s, e)) = e
<1> DEFINE t == Append(s, e)
<1>1. t \in Seq(S) /\ Len(t) = Len(s) + 1 /\ t[Len(s) + 1] = e
  OBVIOUS
<1> HIDE DEF t
<1>2. t # <<>> /\ t[Len(t)] = e
  BY <1>1
<1> QED
  BY <1>1, <1>2 DEF Last, t

\* An element put before a list joins those of the list, and is the first.
LEMMA ToSetPrepend ==
  ASSUME NEW S, NEW s \in Seq(S), NEW e \in S
  PROVE  /\ << e >> \o s \in Seq(S)
         /\ ToSet(<< e >> \o s) = ToSet(s) \cup {e}
         /\ (<< e >> \o s)[1] = e
         /\ << e >> \o s # <<>>
<1> DEFINE t == << e >> \o s
<1>1. t \in Seq(S) /\ Len(t) = Len(s) + 1 /\ DOMAIN t = 1 .. Len(s) + 1 /\ DOMAIN s = 1 .. Len(s)
  OBVIOUS
<1>2. t[1] = e /\ \A i \in 1 .. Len(s) : t[i + 1] = s[i]
  OBVIOUS
<1>3. \A i \in 1 .. Len(s) + 1 : i = 1 \/ i - 1 \in 1 .. Len(s)
  OBVIOUS
<1>4. \A i \in 1 .. Len(s) + 1 : i = 1 \/ t[i] = s[i - 1]
  BY <1>2, <1>3
<1>5. t # <<>>
  BY <1>1
<1> HIDE DEF t
<1>6. ToSet(t) \subseteq ToSet(s) \cup {e}
  BY <1>1, <1>2, <1>3, <1>4 DEF ToSet
<1>7. ASSUME NEW i \in 1 .. Len(s) PROVE s[i] \in ToSet(t)
  BY <1>1, <1>2 DEF ToSet
<1>8. ToSet(s) \cup {e} \subseteq ToSet(t)
  BY <1>1, <1>2, <1>7 DEF ToSet
<1>9. ToSet(t) = ToSet(s) \cup {e}
  BY <1>6, <1>8
<1> QED
  BY <1>1, <1>2, <1>5, <1>9 DEF t

\* Every element of a list is of the list's element type.
LEMMA ToSetType ==
  ASSUME NEW S, NEW s \in Seq(S)
  PROVE  ToSet(s) \subseteq S
  BY DEF ToSet

\* A list holds finitely many elements.
LEMMA ToSetFinite ==
  ASSUME NEW S, NEW s \in Seq(S)
  PROVE  IsFiniteSet(ToSet(s))
<1>1. DOMAIN s = 1 .. Len(s) /\ Len(s) \in Nat /\ s = [i \in 1 .. Len(s) |-> s[i]]
  OBVIOUS
<1>2. s \in [1 .. Len(s) -> ToSet(s)]
  BY <1>1 DEF ToSet
<1>3. \A e \in ToSet(s) : \E i \in 1 .. Len(s) : s[i] = e
  BY <1>1 DEF ToSet
<1>4. s \in Surjection(1 .. Len(s), ToSet(s))
  BY <1>2, <1>3 DEF Surjection
<1>5. IsFiniteSet(1 .. Len(s))
  <2>1. 1 \in Int /\ Len(s) \in Int
    BY <1>1
  <2> QED
    BY <2>1, FS_Interval, Zenon
<1> QED
  BY <1>4, <1>5, FS_Surjection

\* The list of one element.
LEMMA ToSetSingleton ==
  ASSUME NEW e
  PROVE  ToSet(<< e >>) = {e}
  BY DEF ToSet

\* The list made of a set that has no element or one.
LEMMA SmallSetToSeq ==
  /\ SetToSeq({}) = <<>>
  /\ \A e : SetToSeq({e}) = << e >>
<1>1. SetToSeq({}) = <<>>
  <2>1. Cardinality({}) = 0
    BY FS_EmptySet
  <2>2. \A f \in [1 .. 0 -> {}] : f = <<>>
    OBVIOUS
  <2>3. <<>> \in [1 .. 0 -> {}] /\ IsInjective(<<>>)
    BY DEF IsInjective
  <2>4. SetToSeq({}) = CHOOSE f \in [1 .. 0 -> {}] : IsInjective(f)
    BY <2>1, Zenon DEF SetToSeq
  <2>5. SetToSeq({}) \in [1 .. 0 -> {}]
    BY <2>3, <2>4
  <2> QED
    BY <2>2, <2>5
<1>2. ASSUME NEW e PROVE SetToSeq({e}) = << e >>
  <2>1. Cardinality({e}) = 1
    BY FS_Singleton
  <2>2. \A f \in [1 .. 1 -> {e}] : f = << e >>
    OBVIOUS
  <2>3. << e >> \in [1 .. 1 -> {e}] /\ IsInjective(<< e >>)
    BY DEF IsInjective
  <2>4. SetToSeq({e}) = CHOOSE f \in [1 .. 1 -> {e}] : IsInjective(f)
    BY <2>1, Zenon DEF SetToSeq
  <2>5. SetToSeq({e}) \in [1 .. 1 -> {e}]
    BY <2>3, <2>4
  <2> QED
    BY <2>2, <2>5
<1> QED
  BY <1>1, <1>2

\* A set of numbers that is not empty has a least element.
LEMMA LeastNumber ==
  ASSUME NEW S \in SUBSET Nat, S # {}
  PROVE  \E m \in S : \A n \in S : m <= n
<1>1. PICK m \in S : \A n \in S : << n, m >> \notin OpToRel(<, Nat)
  BY WFMin, NatLessThanWellFounded, Zenon
<1>2. \A n \in S : ~ (n < m)
  BY <1>1, Zenon DEF OpToRel
<1> QED
  BY <1>2

\* A bounded set of numbers that is not empty has a largest element.
LEMMA LargestNumber ==
  ASSUME NEW S \in SUBSET Nat, S # {}, NEW bound \in Nat, \A n \in S : n <= bound
  PROVE  Max(S) \in S /\ \A n \in S : n <= Max(S)
<1> DEFINE Bounds == { b \in Nat : \A n \in S : n <= b }
<1>1. PICK m \in Bounds : \A b \in Bounds : m <= b
  <2>1. Bounds \in SUBSET Nat /\ Bounds # {}
    OBVIOUS
  <2> QED
    BY <2>1, LeastNumber
<1>2. m \in S
  <2>1. SUFFICES ASSUME m \notin S PROVE FALSE
    OBVIOUS
  <2>2. \A n \in S : n < m
    BY <1>1, <2>1
  <2>3. m \in Nat /\ m # 0
    <3>1. PICK n \in S : TRUE
      OBVIOUS
    <3>2. m \in Nat /\ n \in Nat /\ n < m
      BY <2>2
    <3> QED
      BY <3>2
  <2>4. m - 1 \in Nat /\ \A n \in S : n <= m - 1
    BY <2>2, <2>3
  <2> QED
    BY <1>1, <2>3, <2>4
<1>3. \E x \in S : \A y \in S : x >= y
  BY <1>1, <1>2
<1>4. Max(S) \in S /\ \A y \in S : Max(S) >= y
  BY <1>3, Zenon DEF Max
<1> QED
  BY <1>4

(***************************************************************************)
(* Loops.                                                                  *)
(***************************************************************************)

\* A claim that holds at first, and after every round if it held before, holds.
LEMMA Induction ==
  \A fixed : Claim(fixed, 0) /\ (\A n \in Nat : Claim(fixed, n) => Claim(fixed, n + 1))
             => \A n \in Nat : Claim(fixed, n)
<1> SUFFICES ASSUME NEW fixed, Claim(fixed, 0),
                    \A n \in Nat : Claim(fixed, n) => Claim(fixed, n + 1)
             PROVE  \A n \in Nat : Claim(fixed, n)
  OBVIOUS
<1> DEFINE Wrong == { n \in Nat : ~ Claim(fixed, n) }
<1> SUFFICES ASSUME Wrong # {} PROVE FALSE
  OBVIOUS
<1>1. PICK n \in Wrong : \A m \in Wrong : n <= m
  <2>1. Wrong \in SUBSET Nat
    OBVIOUS
  <2> QED
    BY <2>1, LeastNumber
<1>2. n \in Nat /\ ~ Claim(fixed, n)
  OBVIOUS
<1>3. n # 0
  BY <1>2
<1>4. n - 1 \in Nat /\ n - 1 + 1 = n /\ ~ (n <= n - 1)
  BY <1>2, <1>3
<1>5. Claim(fixed, n - 1)
  BY <1>1, <1>4
<1>6. Claim(fixed, n - 1 + 1)
  BY <1>4, <1>5
<1> QED
  BY <1>2, <1>4, <1>6

IsLoop(fixed, first, r) ==
  r = [n \in Nat |-> IF n = 0 THEN first ELSE LoopBody(fixed, n, r[n - 1])]

\* The states after 0, 1, 2, ... rounds, as a recursive function defines them.
Loop(fixed, first) == CHOOSE r : IsLoop(fixed, first, r)

\* f lists the states up to the n-th round.
AreRounds(fixed, first, f, n) ==
  /\ DOMAIN f = 0 .. n
  /\ f[0] = first
  /\ \A k \in 0 .. n - 1 : f[k + 1] = LoopBody(fixed, k + 1, f[k])

\* Two lists of rounds agree as far as both go.
LEMMA RoundsAgree ==
  ASSUME NEW fixed, NEW first, NEW n \in Nat, NEW m \in Nat, n <= m,
         NEW f, AreRounds(fixed, first, f, n), NEW g, AreRounds(fixed, first, g, m)
  PROVE  \A k \in 0 .. n : f[k] = g[k]
<1> DEFINE Different == { k \in 0 .. n : f[k] # g[k] }
<1> SUFFICES ASSUME Different # {} PROVE FALSE
  OBVIOUS
<1>1. PICK k \in Different : \A j \in Different : k <= j
  <2>1. Different \in SUBSET Nat
    OBVIOUS
  <2> QED
    BY <2>1, LeastNumber
<1>2. k \in 0 .. n /\ f[k] # g[k] /\ k # 0
  BY DEF AreRounds
<1>3. k - 1 \in 0 .. n - 1 /\ k - 1 \in 0 .. m - 1 /\ k - 1 + 1 = k /\ ~ (k <= k - 1)
  BY <1>2
<1>4. f[k - 1] = g[k - 1]
  BY <1>1, <1>3
<1>5. /\ f[k - 1 + 1] = LoopBody(fixed, k - 1 + 1, f[k - 1])
      /\ g[k - 1 + 1] = LoopBody(fixed, k - 1 + 1, g[k - 1])
  BY <1>3 DEF AreRounds
<1> QED
  BY <1>2, <1>3, <1>4, <1>5

\* There is a list of any number of rounds.
LEMMA RoundsExist ==
  ASSUME NEW fixed, NEW first, NEW n \in Nat
  PROVE  \E f : AreRounds(fixed, first, f, n)
<1> DEFINE Missing == { k \in Nat : ~ \E f : AreRounds(fixed, first, f, k) }
<1> SUFFICES ASSUME Missing # {} PROVE FALSE
  OBVIOUS
<1>1. PICK k \in Missing : \A j \in Missing : k <= j
  <2>1. Missing \in SUBSET Nat
    OBVIOUS
  <2> QED
    BY <2>1, LeastNumber
<1>2. k # 0
  <2> DEFINE f == [j \in 0 .. 0 |-> first]
  <2>1. AreRounds(fixed, first, f, 0)
    BY DEF AreRounds
  <2> QED
    BY <2>1
<1>3. k - 1 \in Nat /\ ~ (k <= k - 1) /\ k - 1 + 1 = k
  BY <1>2
<1>4. PICK f : AreRounds(fixed, first, f, k - 1)
  BY <1>1, <1>3
<1> DEFINE g == [j \in 0 .. k |-> IF j = k THEN LoopBody(fixed, k, f[k - 1]) ELSE f[j]]
<1>5. g[0] = first
  BY <1>2, <1>4 DEF AreRounds
<1>6. ASSUME NEW j \in 0 .. k - 1 PROVE g[j + 1] = LoopBody(fixed, j + 1, g[j])
  <2>1. g[j] = f[j] /\ j + 1 \in 0 .. k
    OBVIOUS
  <2>2. CASE j = k - 1
    <3>1. j + 1 = k
      BY <2>2
    <3>2. g[k] = LoopBody(fixed, k, f[k - 1])
      OBVIOUS
    <3> HIDE DEF g
    <3> QED
      BY <2>1, <2>2, <3>1, <3>2
  <2>3. CASE j # k - 1
    <3>1. j \in 0 .. k - 1 - 1 /\ j + 1 # k
      BY <2>3
    <3>2. g[j + 1] = f[j + 1]
      BY <2>1, <3>1
    <3>3. f[j + 1] = LoopBody(fixed, j + 1, f[j])
      BY <1>4, <3>1 DEF AreRounds
    <3> HIDE DEF g
    <3> QED
      BY <2>1, <3>2, <3>3
  <2> QED
    BY <2>2, <2>3
<1>7. DOMAIN g = 0 .. k
  OBVIOUS
<1> HIDE DEF g
<1>8. AreRounds(fixed, first, g, k)
  BY <1>5, <1>6, <1>7 DEF AreRounds
<1> QED
  BY <1>8

\* The recursive function exists.
LEMMA LoopIsLoop == \A fixed, first : IsLoop(fixed, first, Loop(fixed, first))
<1> SUFFICES ASSUME NEW fixed, NEW first PROVE IsLoop(fixed, first, Loop(fixed, first))
  OBVIOUS
<1> DEFINE Rounds(n) == CHOOSE f : AreRounds(fixed, first, f, n)
           r == [n \in Nat |-> Rounds(n)[n]]
<1>1. \A n \in Nat : AreRounds(fixed, first, Rounds(n), n)
  BY RoundsExist
<1> HIDE DEF Rounds
<1>2. Rounds(0)[0] = first
  BY <1>1 DEF AreRounds
<1>3. ASSUME NEW n \in Nat, n # 0
      PROVE  Rounds(n)[n] = LoopBody(fixed, n, Rounds(n - 1)[n - 1])
  <2>1. n - 1 \in Nat /\ n - 1 <= n /\ n - 1 \in 0 .. n - 1 /\ n - 1 + 1 = n
    BY <1>3
  <2>2. \A k \in 0 .. n - 1 : Rounds(n - 1)[k] = Rounds(n)[k]
    BY <1>1, <2>1, RoundsAgree
  <2>3. Rounds(n)[n - 1 + 1] = LoopBody(fixed, n - 1 + 1, Rounds(n)[n - 1])
    BY <1>1, <2>1 DEF AreRounds
  <2> QED
    BY <2>1, <2>2, <2>3
<1>4. IsLoop(fixed, first, r)
  <2>1. ASSUME NEW n \in Nat
        PROVE  r[n] = IF n = 0 THEN first ELSE LoopBody(fixed, n, r[n - 1])
    <3>1. CASE n = 0
      BY <3>1, <1>2
    <3>2. CASE n # 0
      <4>1. n - 1 \in Nat
        BY <3>2
      <4>2. r[n] = Rounds(n)[n] /\ r[n - 1] = Rounds(n - 1)[n - 1]
        BY <4>1
      <4> HIDE DEF r
      <4> QED
        BY <3>2, <4>2, <1>3
    <3> QED
      BY <3>1, <3>2
  <2>2. r = [n \in Nat |-> r[n]]
    OBVIOUS
  <2> HIDE DEF r
  <2> QED
    BY <2>1, <2>2 DEF IsLoop
<1> HIDE DEF r
<1> QED
  BY <1>4, Zenon DEF Loop

\* What it is after no round, and after one more.
LEMMA LoopRounds ==
  \A fixed, first :
    /\ Loop(fixed, first)[0] = first
    /\ \A n \in Nat : Loop(fixed, first)[n + 1] = LoopBody(fixed, n + 1, Loop(fixed, first)[n])
<1> SUFFICES ASSUME NEW fixed, NEW first
             PROVE  /\ Loop(fixed, first)[0] = first
                    /\ \A n \in Nat :
                         Loop(fixed, first)[n + 1] = LoopBody(fixed, n + 1, Loop(fixed, first)[n])
  OBVIOUS
<1> DEFINE r == Loop(fixed, first)
<1>1. IsLoop(fixed, first, r)
  BY LoopIsLoop
<1> HIDE DEF r
<1>2. r = [n \in Nat |-> IF n = 0 THEN first ELSE LoopBody(fixed, n, r[n - 1])]
  BY <1>1 DEF IsLoop
<1>3. r[0] = first
  BY <1>2
<1>4. ASSUME NEW n \in Nat PROVE r[n + 1] = LoopBody(fixed, n + 1, r[n])
  <2>1. n + 1 \in Nat /\ n + 1 # 0 /\ n + 1 - 1 = n
    OBVIOUS
  <2>2. r[n + 1] = LoopBody(fixed, n + 1, r[n + 1 - 1])
    BY <1>2, <2>1
  <2> QED
    BY <2>1, <2>2
<1> QED
  BY <1>3, <1>4 DEF r
=============================================================================
