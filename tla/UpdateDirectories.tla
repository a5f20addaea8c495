------------------------- MODULE UpdateDirectories -------------------------
(***************************************************************************)
(* The partitions of a server: each of them is what UpdateDirectory        *)
(* promises, and no step is a step of two.  A directory may have been      *)
(* filled before its server starts.                                        *)
(***************************************************************************)
EXTENDS Sequences, SequencesExt

CONSTANTS
  Directories,    (* The partitions.                                       *)
  Update          (* The set of updates.                                   *)

VARIABLES
  pending,        (* Per directory: accepted and not yet provable.         *)
  provable        (* Per directory: what an existence proof can show.      *)

vars == << pending, provable >>

Init ==
  /\ pending \in [Directories -> Seq(Update)]
  /\ provable = [d \in Directories |-> {}]

Accept(d, update) ==
  /\ pending' = [pending EXCEPT ![d] = Append(@, update)]
  /\ UNCHANGED provable

Publish(d) ==
  /\ pending' = [pending EXCEPT ![d] = <<>>]
  /\ provable' = [provable EXCEPT ![d] = @ \cup ToSet(pending[d])]

Next ==
  \E d \in Directories :
    \/ \E update \in Update : Accept(d, update)
    \/ Publish(d)

Spec == Init /\ [][Next]_vars
=============================================================================
