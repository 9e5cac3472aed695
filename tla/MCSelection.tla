------------------------------ MODULE MCSelection ------------------------------
(* Instances of Selection for TLC. *)
EXTENDS Selection

Apex == <<"example", "com">>
Sub == <<"a", "example", "com">>
Deep == <<"b", "a", "example", "com">>
Star == <<"*", "example", "com">>

DeepNames == {Sub, Deep, Star}
ShortNames == {Apex, Sub}
================================================================================
