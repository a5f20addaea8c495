-------------------------- MODULE UpdateDirectory --------------------------
(***************************************************************************)
(* What a partition promises its users, whatever trees it keeps: updates   *)
(* are accepted in an order, every update epoch makes all of the pending   *)
(* ones provable at once, and what is provable stays provable.  Rolling    *)
(* the update log over into the base tree is not a step of this promise:   *)
(* a verification period must not show.                                    *)
(***************************************************************************)
EXTENDS Sequences, SequencesExt

CONSTANT Update   (* The set of updates.                                   *)

VARIABLES
  pending,        (* Accepted and not yet provable, in order.              *)
  provable        (* The updates an existence proof can show.              *)

vars == << pending, provable >>

Init == pending = <<>> /\ provable = {}

Accept(update) ==
  /\ pending' = Append(pending, update)
  /\ UNCHANGED provable

Publish ==
  /\ pending' = <<>>
  /\ provable' = provable \cup ToSet(pending)

Next ==
  \/ \E update \in Update : Accept(update)
  \/ Publish

Spec == Init /\ [][Next]_vars
=============================================================================
