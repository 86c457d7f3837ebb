------------------------------ MODULE MCWatch ------------------------------
(* Instances of ActionSetWatch for TLC. *)
EXTENDS ActionSetWatch

=============================================================================
