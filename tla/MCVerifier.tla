------------------------------ MODULE MCVerifier ------------------------------
(***************************************************************************)
(* One user with a verifier and others without.  An epoch ends with a      *)
(* forest of one tree, another with one of two, and there are logs in      *)
(* which the user's keys are in one tree, in both, or not published at     *)
(* first while two entries come before them.                               *)
(***************************************************************************)
EXTENDS Verifier

SomeLogs ==
  { << "alice", "alice", "bob", "bob", "alice", "bob" >>,
    << "alice", "bob", "alice", "alice", "bob", "bob" >>,
    << "bob", "bob", "bob", "bob", "alice", "alice" >> }
=============================================================================
