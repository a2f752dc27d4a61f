------------------------------ MODULE MCDcSend ------------------------------
(* DcSend on small instances.                                              *)
EXTENDS DcSend

=============================================================================
