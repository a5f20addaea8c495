----------------------------- MODULE MCBaseTree -----------------------------
(* Three-bit keys: splits above, at and below an existing split.           *)
EXTENDS PrefixTrees

MCKeys == { <<0, 0, 0>>, <<0, 0, 1>>, <<0, 1, 0>>, <<0, 1, 1>>, <<1, 0, 0>>, <<1, 1, 0>> }
=============================================================================
