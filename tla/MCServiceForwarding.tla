-------------------------- MODULE MCServiceForwarding --------------------------
(* Instances of ServiceForwarding for TLC. *)
EXTENDS ServiceForwarding

CONSTANTS s1, s2, p1, p2, n1, n2, a1, a2

TwoServices == <<s1, s2>>
================================================================================
