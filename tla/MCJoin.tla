------------------------------- MODULE MCJoin -------------------------------
(* Instances of Sparkgap for TLC. *)
EXTENDS Sparkgap

CONSTANTS p1, p2, p3, x1, x2, x0

MCPeers == {p1, p2, p3}
MCAddresses == {x1, x2}

=============================================================================
