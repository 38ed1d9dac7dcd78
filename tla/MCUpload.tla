------------------------------ MODULE MCUpload ------------------------------
(* Upload with the outside events a run admits. *)
EXTENDS Upload

AnyEvent == EventKinds

=============================================================================
