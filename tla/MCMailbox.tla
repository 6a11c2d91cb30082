----------------------------- MODULE MCMailbox ------------------------------
(* Mailbox on small instances. *)
EXTENDS Mailbox
=============================================================================
