------------------------------- MODULE MCLookup -------------------------------
(* Two identifiers of one bit: a key and one that is absent from its sets.   *)
EXTENDS Lookup

MCIds == { <<0>>, <<1>> }

\* The base tree's size in a digest is that of the older of its two versions.
SizeFits(digest) ==
  digest.BaseTreeRoots # <<>> =>
    \E version \in 0 .. baseTree.currEpoch - 1 :
      /\ digest.BaseTreeRoots = << GetHash(baseTree, version), GetHash(baseTree, version + 1) >>
      /\ digest.BaseTreeSize = GetSize(baseTree, version)

\* Bounds: nothing happens after the answer, and once the client has its
\* checkpoint the auditor, which the client asks only once, rests.  The two
\* identifiers are each other's mirror images, so only one is looked up.  Digests
\* with the log of one and the log size of another, or the roots of one and the
\* tree size of another, are not followed up: lookups do not read those fields.
OneLookup ==
  /\ lookup.pc # "answered"
  /\ poll # None => lookup.pc = "idle" /\ WholeDigest(poll) /\ SizeFits(poll)
  /\ lookup.id # <<1>>
=============================================================================
