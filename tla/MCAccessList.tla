----------------------------- MODULE MCAccessList -----------------------------
(* Instances of AccessListUse for TLC. *)
EXTENDS AccessListUse

TwoSpecs == {"s1", "s2"}
===============================================================================
