------------------------------ MODULE MCPages ------------------------------
(* Finite instance of Pages: three requests after the first of each view.   *)
EXTENDS Pages
=============================================================================
