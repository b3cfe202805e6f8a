---------------------------- MODULE MCSlaveLink ----------------------------
(* An instance of SlaveLink for TLC. *)
EXTENDS SlaveLink

OneEach == [h \in Hosts |-> 1]
TwoAndOne == [h \in Hosts |-> IF h = a THEN 2 ELSE 1]

=============================================================================
