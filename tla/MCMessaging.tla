---------------------------- MODULE MCMessaging ----------------------------
(* Instances of Messaging for TLC: two messengers. *)
EXTENDS Messaging

CONSTANTS a, b

MCHosts == {a, b}
ContactsOfA == [h \in Hosts |-> IF h = a THEN {b} ELSE {}]
OneEach == [h \in Hosts |-> 1]
OneAndTwo == [h \in Hosts |-> IF h = a THEN 1 ELSE 2]

=============================================================================
