-------------------------------- MODULE KeyLog --------------------------------
(***************************************************************************)
(* What a MerkleSquare server promises: a log of keys that only grows, of  *)
(* which an ever longer prefix is published.  An entry is the user it      *)
(* belongs to; its position tells it from the user's other entries.        *)
(***************************************************************************)
EXTENDS Naturals, Sequences

CONSTANT Users

VARIABLES
  log,          (* The entries in the order they were accepted.            *)
  published     (* The number of entries that are published.               *)

LogInit ==
  /\ log = <<>>
  /\ published = 0

\* The entry's position is the length of the log so far.
Accept(user) ==
  /\ log' = Append(log, user)
  /\ UNCHANGED published

\* Entries are published in order.  Some may have been accepted already that are
\* not published now.
Publish(size) ==
  /\ size \in published + 1 .. Len(log)
  /\ published' = size
  /\ UNCHANGED log

LogNext ==
  \/ \E user \in Users : Accept(user)
  \/ \E size \in published + 1 .. Len(log) : Publish(size)

LogSpec == LogInit /\ [][LogNext]_<< log, published >>
=============================================================================
