------------------------- MODULE MCMerkleSquareServer -------------------------
(***************************************************************************)
(* Two calls that write, the second with a faulty client, and a goroutine  *)
(* that serves calls that read, one after the other.                       *)
(***************************************************************************)
EXTENDS MerkleSquareServer
=============================================================================
