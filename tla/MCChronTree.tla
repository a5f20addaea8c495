---------------------------- MODULE MCChronTree ----------------------------
(* Two values, so that there are forks; up to four levels of leaves.       *)
EXTENDS ChronTree

CONSTANTS a, b
=============================================================================
