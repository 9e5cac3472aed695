------------------------------- MODULE MCStream -------------------------------
(* Instances of StreamController for TLC. *)
EXTENDS StreamController

StreamOf(incoming, overwrite) ==
  [incoming |-> incoming, overwrite |-> overwrite, tcp |-> TRUE, udp |-> TRUE]

\* The user's port, or the destination's.
PortSpecs == {StreamOf(1, b) : b \in BOOLEAN}

\* One host, or several behind an upstream block, on another port.
MCDestinations == {[port |-> 2, balanced |-> FALSE], [port |-> 3, balanced |-> TRUE]}
===============================================================================
