-------------------------- MODULE MCLegologServer --------------------------
(* One user with two identifiers, each in another partition; the master    *)
(* key shares the partition of the first.  Two client programs: one makes  *)
(* all calls, or the other makes one of them.                              *)
EXTENDS LegologServer

CONSTANTS p1, p2, alice, mail, site, h1, h2, h3, c1, c2

MCCallers == h1 :> {c1} @@ h2 :> {c1, c2} @@ h3 :> {c1}

MCPreloaded == p1 :> << mail >> @@ p2 :> <<>>

MCCallersOfTwo == h1 :> {c1} @@ h2 :> {c1, c2}

MCPartitionOf == alice :> p1 @@ mail :> p1 @@ site :> p2
=============================================================================
