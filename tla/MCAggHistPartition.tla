------------------------- MODULE MCAggHistPartition -------------------------
(* Two identifiers of two bits, which differ in the first.                 *)
EXTENDS AggHistPartition

MCIds == { <<0, 0>>, <<1, 0>> }
=============================================================================
