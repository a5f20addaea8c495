----------------------------- MODULE PrefixTrees -----------------------------
(***************************************************************************)
(* A plain prefix tree that is given the same inserts as the base tree.    *)
(***************************************************************************)
EXTENDS BaseTree, PrefixTree

\* The plain tree after the inserts so far.
Plain ==
  FoldLeft(LAMBDA t, i : PrefixAppend(t, inserted[i].key, i), NewPrefixTree,
           [ i \in DOMAIN inserted |-> i ])

Present == { inserted[i].key : i \in DOMAIN inserted }

\* Reference: the hash of the subtree of the keys given, whose first `from` bits
\* are above it.  The label is what they have in common after those.
CanonicalHash(keys) ==
  LET Common(ks) ==
        CHOOSE n \in 1 .. KeyBits :
          /\ \A k, l \in ks : SubSeq(k, 1, n) = SubSeq(l, 1, n)
          /\ n = KeyBits \/ \E k, l \in ks : k[n + 1] # l[n + 1]
      Side(ks, at, bit) == { k \in ks : k[at] = bit }
      node[ks \in SUBSET Keys, from \in Nat] ==
        IF ks = {} THEN NilHash
        ELSE LET to    == Common(ks)
                 label == SubSeq(CHOOSE k \in ks : TRUE, from + 1, to)
             IN  IF to = KeyBits THEN LeafHash(label, Given(CHOOSE k \in ks : TRUE, tree.currEpoch))
                 ELSE InternalHash(label, node[Side(ks, to + 1, 0), to], node[Side(ks, to + 1, 1), to])
  IN  InternalHash(<<>>, node[Side(keys, 1, 0), 0], node[Side(keys, 1, 1), 0])

-----------------------------------------------------------------------------
\* The root hash is a commitment: it depends on the keys and on each key's
\* values in their order and not on the order of the inserts of different keys
\* or on the splits it led to.  A copy made by repeating the appends, which is
\* also how a stored tree is read back, has the same hash.
PlainTreeIsCanonical ==
  inserted # <<>> =>
    /\ RootHash(Plain) = CanonicalHash(Present)
    /\ RootHash(CopyTree(Plain)) = RootHash(Plain)

\* The prover's and the verifier's half of the proofs agree, and no proof is
\* good for another key: the proof of a present key leads to the root hash for
\* that key only, and the proof that a key is absent for absent keys only.
PlainProofsExact ==
  LET t == Plain
      Member(key) == PlainMembershipProof(t, key)
      Values(key) == t.heap[LeafOf(t, key)].values
  IN  inserted # <<>> =>
        \A key, other \in Keys :
          IF key \in Present
          THEN (ComputeRootHashMembership(other, Member(key), Values(key)) = RootHash(t)) <=> key = other
          ELSE LET proof == PlainNonMembershipProof(t, key)
               IN  /\ ComputeRootHashNonMembership(key, proof) = RootHash(t)
                   /\ other \in Present => ComputeRootHashNonMembership(other, proof) = NilHash

\* A fast copy, whose walk leaves the subtree it was asked to copy and copies
\* the first one twice, is a tree like its original, and neither sees what is
\* appended to the other.
FastCopyIsIndependent ==
  LET t == Plain
      c == CopyFast(t)
      In(heap, s) == [s EXCEPT !.heap = heap]
      Appended(s, key) == PrefixAppend(s, key, Len(inserted) + 1)
  IN  /\ RootHash(c) = RootHash(t)
      /\ \A key \in Keys :
           LET grown == RootHash(Appended(t, key))
               first == Appended(c, key)
               then  == Appended(In(c.heap, t), key)
           IN  /\ RootHash(first) = grown
               /\ RootHash(In(first.heap, t)) = RootHash(t)
               /\ RootHash(then) = grown
               /\ RootHash(In(then.heap, c)) = RootHash(t)

\* Two kinds of inserts make a base tree unsound: of another value for a key of an
\* earlier epoch, and under a root of an earlier epoch that lacks the child.
Disturbs(i) ==
  \/ \E j \in 1 .. i - 1 :
       inserted[j].key = inserted[i].key /\ inserted[j].epoch < inserted[i].epoch
  \/ /\ inserted[i].epoch > 0
     /\ \A j \in 1 .. i - 1 : /\ inserted[j].key[1] # inserted[i].key[1]
                              /\ inserted[j].epoch < inserted[i].epoch

\* Two implementations of one tree: until the first such insert the base tree is
\* sound, finds exactly what was inserted, and has the root hash of the plain tree,
\* although it has copied and split its nodes in other steps, over several epochs.
UndisturbedTreeIsThePlainTree ==
  inserted # <<>> /\ (\A i \in DOMAIN inserted : ~ Disturbs(i)) =>
    /\ Sound(tree)
    /\ \A key \in Keys : ValuesAt(tree, key, tree.currEpoch) = Given(key, tree.currEpoch)
    /\ GetHash(tree, tree.currEpoch) = RootHash(Plain)
=============================================================================
