---------------------------- MODULE MCPartition ----------------------------
(* Identifiers of two bits: two share the first bit, one does not.         *)
EXTENDS Partition

MCIds == { <<0, 0>>, <<0, 1>>, <<1, 0>> }
=============================================================================
