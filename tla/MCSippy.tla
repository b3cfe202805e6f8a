------------------------------- MODULE MCSippy -------------------------------
(* Instances of Sippy for TLC. *)
EXTENDS Sippy

CONSTANTS p1, x1, x2, x0

MCOne == {p1}
MCAddress == {x1}
MCAddresses == {x1, x2}

=============================================================================
