--------------------------- MODULE MCMerkleSquare ---------------------------
(***************************************************************************)
(* Every log of up to 2^Depth entries of two keys.  No definition tells    *)
(* one key from another, so they are symmetric.                            *)
(***************************************************************************)
EXTENDS MerkleSquareClients, Serialization, TLC

KeySymmetry == Permutations(Keys)
=============================================================================
