------------------------------ MODULE MCMailbox ------------------------------
(* Mailbox with three arguments: enough for a request that comes while the  *)
(* one before is executed, and one more.                                    *)
EXTENDS Mailbox
=============================================================================
