------------------------- MODULE MCCustomCertificate -------------------------
(* Instances of CustomCertificateController for TLC. *)
EXTENDS CustomCertificateController

TwoSpecs == {"name", "other"}
TwoPairs == {"p1", "p2"}
===============================================================================
