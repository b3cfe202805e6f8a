---------------------------- MODULE MCMembership ----------------------------
(* Instances of Membership for TLC: a founder and the hosts that join it. *)
EXTENDS Membership, TLC

CONSTANTS a, b, c, d

Three == {a, b, c}
Four == {a, b, c, d}
Newcomers == Permutations(Hosts \ {Founder})

=============================================================================
