------------------------------ MODULE MCEngine ------------------------------
(* Model-checking instances of EngineAudit, whose documents Persistence saves and loads. *)
EXTENDS Persistence
=============================================================================
