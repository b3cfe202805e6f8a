---------------------------- MODULE SecureChannel ----------------------------
(***************************************************************************)
(* What the encrypted packet path promises to the code that calls          *)
(* sendEncryptedPacket, with keys, handshakes, records and timers left out. *)
(*                                                                         *)
(* A packet given to the link from h to p is put on the wire at once or    *)
(* kept in an outbox.  An outbox is only ever released whole and in order, *)
(* or dropped whole; nothing goes straight to the wire past a full outbox. *)
(* One step may act on several links: a host that leaves drops them all.   *)
(***************************************************************************)
EXTENDS Naturals, Sequences

CONSTANT Hosts

VARIABLES
    accepted,   \* accepted[h][p]: number of packets given to the link so far
    outbox,     \* outbox[h][p]: packets kept back, in the order of their numbers
    wire        \* wire[h][p]: packets sent, in the order of sending

vars == <<accepted, outbox, wire>>

Init ==
    /\ accepted = [h \in Hosts |-> [p \in Hosts |-> 0]]
    /\ outbox = [h \in Hosts |-> [p \in Hosts |-> <<>>]]
    /\ wire = [h \in Hosts |-> [p \in Hosts |-> <<>>]]

Accept(h, p) ==
    /\ accepted'[h][p] = accepted[h][p] + 1
    /\ \/ /\ outbox'[h][p] = Append(outbox[h][p], accepted[h][p] + 1)
          /\ wire'[h][p] = wire[h][p]
       \/ /\ outbox[h][p] = <<>>
          /\ outbox'[h][p] = <<>>
          /\ wire'[h][p] = Append(wire[h][p], accepted[h][p] + 1)

Release(h, p) ==
    /\ wire'[h][p] = wire[h][p] \o outbox[h][p]
    /\ outbox'[h][p] = <<>>
    /\ accepted'[h][p] = accepted[h][p]

Drop(h, p) ==
    /\ outbox'[h][p] = <<>>
    /\ wire'[h][p] = wire[h][p]
    /\ accepted'[h][p] = accepted[h][p]

Keep(h, p) ==
    /\ outbox'[h][p] = outbox[h][p]
    /\ wire'[h][p] = wire[h][p]
    /\ accepted'[h][p] = accepted[h][p]

\* The three variables stay functions on pairs of hosts.
Shape ==
    /\ accepted \in [Hosts -> [Hosts -> Nat]]
    /\ outbox \in [Hosts -> [Hosts -> Seq(Nat)]]
    /\ wire \in [Hosts -> [Hosts -> Seq(Nat)]]

Next ==
    /\ Shape'
    /\ \A h, p \in Hosts : Accept(h, p) \/ Release(h, p) \/ Drop(h, p) \/ Keep(h, p)

Spec == Init /\ [][Next]_vars

-----------------------------------------------------------------------------
Increasing(s) == \A i, j \in 1 .. Len(s) : i < j => s[i] < s[j]

\* The wire followed by the outbox holds packets in the order in which they were
\* given to the link and each at most once: sendEncryptedPacket neither reorders
\* nor repeats, and no packet overtakes one that is still kept back.
InOrder ==
    \A h, p \in Hosts :
        LET s == wire[h][p] \o outbox[h][p]
        IN  Increasing(s) /\ \A i \in 1 .. Len(s) : s[i] <= accepted[h][p]

=============================================================================
