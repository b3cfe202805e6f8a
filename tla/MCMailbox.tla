------------------------------ MODULE MCMailbox ------------------------------
(* Instances of Mailbox for TLC. *)
EXTENDS Mailbox

CONSTANTS s1, s2, s3

MCOne == {s1}
MCTwo == {s1, s2}
MCThree == {s1, s2, s3}

=============================================================================
