--------------------------- MODULE MCOutboxDispatch ---------------------------
(* Instances of OutboxDispatch for TLC. *)
EXTENDS OutboxDispatch

\* Rows 1 and 2 are work; row 3, where present, is a notification.
MCWork == Event \ {3}
=============================================================================
