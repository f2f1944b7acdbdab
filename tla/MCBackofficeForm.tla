-------------------------- MODULE MCBackofficeForm --------------------------
(* Finite instance of BackofficeForm.                                       *)
EXTENDS BackofficeForm
=============================================================================
