---------------------------- MODULE MCSecureLink ----------------------------
(* An instance of SecureLink for TLC: a sends two packets and quits when it   *)
(* leaves; b sends one, deletes records and begins a second session.          *)
EXTENDS SecureLink

CONSTANTS a, b, c1, c2

MCHosts == {a, b}
MCCookies == {c1, c2}
MCPackets == [h \in Hosts |-> IF h = a THEN 2 ELSE 1]
MCRecords == [h \in Hosts |-> IF h = a THEN 1 ELSE 2]
MCReuse == {b}

=============================================================================
