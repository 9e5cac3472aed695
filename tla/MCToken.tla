------------------------------- MODULE MCToken -------------------------------
(* Instances of TokenController for TLC. *)
EXTENDS TokenController
===============================================================================
