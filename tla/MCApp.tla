-------------------------------- MODULE MCApp --------------------------------
(* A user with one finger, one pen and a mouse. *)
EXTENDS App
=============================================================================
