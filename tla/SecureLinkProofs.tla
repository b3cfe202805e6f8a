-------------------------- MODULE SecureLinkProofs --------------------------
(* Proofs about SecureLink, for all hosts, cookies and bounds. *)
EXTENDS SecureLink, TLAPS

-----------------------------------------------------------------------------
(* Types. *)

\* Replacing the row of one host in a table indexed by two hosts.
LEMMA RowUpdate ==
    ASSUME NEW T, NEW f \in [Hosts -> [Hosts -> T]], NEW h \in Hosts,
           NEW row \in [Hosts -> T]
    PROVE  [f EXCEPT ![h] = row] \in [Hosts -> [Hosts -> T]]
OBVIOUS

\* Replacing one entry of such a table, or of one indexed by one host.
LEMMA CellUpdate ==
    ASSUME NEW T, NEW f \in [Hosts -> [Hosts -> T]], NEW h \in Hosts, NEW p \in Hosts,
           NEW v \in T
    PROVE  [f EXCEPT ![h][p] = v] \in [Hosts -> [Hosts -> T]]
OBVIOUS

LEMMA EntryUpdate ==
    ASSUME NEW T, NEW f \in [Hosts -> T], NEW h \in Hosts, NEW v \in T
    PROVE  [f EXCEPT ![h] = v] \in [Hosts -> T]
OBVIOUS

\* Pointers and datagrams have their types.
LEMMA RecordType ==
    ASSUME TypeOK, NEW h \in Hosts, NEW p \in Hosts
    PROVE  /\ Record(h, p) \in RecordPointer
           /\ mine[h][p] + 1 \in Generation
           /\ [peer |-> p, gen |-> mine[h][p] + 1] \in RecordPointer
<1>1. mine[h][p] \in Generation
  BY DEF TypeOK
<1>2. mine[h][p] + 1 \in Generation
  BY <1>1 DEF Generation
<1> QED BY <1>1, <1>2 DEF Record, RecordPointer

LEMMA DatagramType ==
    ASSUME TypeOK, NEW h \in Hosts, NEW p \in Hosts, NEW need \in BOOLEAN
    PROVE  /\ \A c \in Cookies : PublicKeyExchange(h, p, need, c) \in PublicKeyDatagram
           /\ SessionKeyExchange(h, p, need) \in SessionKeyDatagram
<1>1. mine[h][p] \in Generation
  BY DEF TypeOK
<1> QED BY <1>1 DEF PublicKeyExchange, SessionKeyExchange, PublicKeyDatagram,
                    SessionKeyDatagram

\* Deleting every record of a host keeps the types.
LEMMA CleanupType ==
    ASSUME TypeOK, NEW h \in Hosts, Cleanup(h)
    PROVE  /\ mine' \in [Hosts -> [Hosts -> Generation]]
           /\ his' \in [Hosts -> [Hosts -> Nat]]
           /\ auth' \in [Hosts -> [Hosts -> BOOLEAN]]
           /\ queue' \in [Hosts -> [Hosts -> Seq(Nat)]]
           /\ timer' \in [Hosts -> [Hosts -> BOOLEAN]]
           /\ awaiting' \in [Hosts -> SUBSET RecordPointer]
           /\ cookies' \in [Hosts -> SUBSET CookieEntry]
<1>1. mine' \in [Hosts -> [Hosts -> Generation]]
  <2>1. mine \in [Hosts -> [Hosts -> Generation]]
    BY DEF TypeOK
  <2>2. [p \in Hosts |-> mine[h][p] + 1] \in [Hosts -> Generation]
    BY <2>1 DEF Generation
  <2>3. mine' = [mine EXCEPT ![h] = [p \in Hosts |-> mine[h][p] + 1]]
    BY DEF Cleanup
  <2> QED BY <2>1, <2>2, <2>3, RowUpdate
<1>2. his' \in [Hosts -> [Hosts -> Nat]]
  BY DEF TypeOK, Cleanup
<1>3. auth' \in [Hosts -> [Hosts -> BOOLEAN]]
  BY DEF TypeOK, Cleanup
<1>4. queue' \in [Hosts -> [Hosts -> Seq(Nat)]]
  BY DEF TypeOK, Cleanup
<1>5. timer' \in [Hosts -> [Hosts -> BOOLEAN]]
  BY DEF TypeOK, Cleanup
<1>6. awaiting' \in [Hosts -> SUBSET RecordPointer]
  BY DEF TypeOK, Cleanup
<1>7. cookies' \in [Hosts -> SUBSET CookieEntry]
  BY DEF TypeOK, Cleanup
<1> QED BY <1>1, <1>2, <1>3, <1>4, <1>5, <1>6, <1>7

LEMMA SendToType ==
    ASSUME TypeOK, NEW h \in Hosts, NEW S \in SUBSET Hosts, SendTo(h, S)
    PROVE  /\ queue' \in [Hosts -> [Hosts -> Seq(Nat)]]
           /\ timer' \in [Hosts -> [Hosts -> BOOLEAN]]
           /\ awaiting' \in [Hosts -> SUBSET RecordPointer]
           /\ cookies' \in [Hosts -> SUBSET CookieEntry]
           /\ accepted' \in [Hosts -> [Hosts -> Nat]]
           /\ emitted' \in [Hosts -> [Hosts -> Seq(Nat)]]
           /\ pubkeys' \subseteq PublicKeyDatagram
<1>1. queue' \in [Hosts -> [Hosts -> Seq(Nat)]]
  <2>1. queue \in [Hosts -> [Hosts -> Seq(Nat)]] /\ accepted \in [Hosts -> [Hosts -> Nat]]
    BY DEF TypeOK
  <2> DEFINE row == [p \in Hosts |-> IF p \in S /\ ~Negotiated(h, p)
                                   THEN Append(queue[h][p], accepted[h][p] + 1)
                                   ELSE queue[h][p]]
  <2>2. row \in [Hosts -> Seq(Nat)]
    BY <2>1
  <2>3. queue' = [queue EXCEPT ![h] = row]
    BY DEF SendTo
  <2> HIDE DEF row
  <2> QED BY <2>1, <2>2, <2>3, RowUpdate
<1>2. timer' \in [Hosts -> [Hosts -> BOOLEAN]]
  BY DEF TypeOK, SendTo
<1>3. awaiting' \in [Hosts -> SUBSET RecordPointer]
  <2>1. {Record(h, p) : p \in Opening(h, S)} \subseteq RecordPointer
    BY RecordType DEF Opening
  <2> QED BY <2>1 DEF TypeOK, SendTo
<1>4. accepted' \in [Hosts -> [Hosts -> Nat]]
  <2>1. accepted \in [Hosts -> [Hosts -> Nat]] /\ accepted \in [Hosts -> [Hosts -> Nat]]
    BY DEF TypeOK
  <2> DEFINE row == [p \in Hosts |-> IF p \in S THEN accepted[h][p] + 1 ELSE accepted[h][p]]
  <2>2. row \in [Hosts -> Nat]
    BY <2>1
  <2>3. accepted' = [accepted EXCEPT ![h] = row]
    BY DEF SendTo
  <2> HIDE DEF row
  <2> QED BY <2>1, <2>2, <2>3, RowUpdate
<1>5. emitted' \in [Hosts -> [Hosts -> Seq(Nat)]]
  <2>1. emitted \in [Hosts -> [Hosts -> Seq(Nat)]] /\ accepted \in [Hosts -> [Hosts -> Nat]]
    BY DEF TypeOK
  <2> DEFINE row == [p \in Hosts |-> IF p \in S /\ Negotiated(h, p)
                                   THEN Append(emitted[h][p], accepted[h][p] + 1)
                                   ELSE emitted[h][p]]
  <2>2. row \in [Hosts -> Seq(Nat)]
    BY <2>1
  <2>3. emitted' = [emitted EXCEPT ![h] = row]
    BY DEF SendTo
  <2> HIDE DEF row
  <2> QED BY <2>1, <2>2, <2>3, RowUpdate
<1>6. PICK c \in [Opening(h, S) -> FreshCookies(h)] :
          /\ cookies' = [cookies EXCEPT ![h] =
                 @ \cup {[cookie |-> c[p], peer |-> p, gen |-> mine[h][p]] :
                           p \in Opening(h, S)}]
          /\ pubkeys' = pubkeys \cup
                 {PublicKeyExchange(h, p, TRUE, c[p]) : p \in Opening(h, S)}
  BY DEF SendTo
<1>7. \A p \in Opening(h, S) : p \in Hosts /\ c[p] \in Cookies
  BY DEF Opening, FreshCookies
<1>8. cookies' \in [Hosts -> SUBSET CookieEntry]
  <2>1. {[cookie |-> c[p], peer |-> p, gen |-> mine[h][p]] : p \in Opening(h, S)}
           \subseteq CookieEntry
    BY <1>7 DEF TypeOK, CookieEntry
  <2> QED BY <1>6, <2>1 DEF TypeOK
<1>9. pubkeys' \subseteq PublicKeyDatagram
  <2>1. {PublicKeyExchange(h, p, TRUE, c[p]) : p \in Opening(h, S)}
           \subseteq PublicKeyDatagram
    BY <1>7, DatagramType
  <2> QED BY <1>6, <2>1 DEF TypeOK
<1> QED BY <1>1, <1>2, <1>3, <1>4, <1>5, <1>8, <1>9

LEMMA TypeInit == Init => TypeOK
BY DEF Init, TypeOK, Generation

\* The end of a handshake keeps the types, whether the host stays or leaves.
LEMMA ConcludeType ==
    ASSUME TypeOK, NEW h \in Hosts, NEW p \in Hosts, NEW k \in Nat,
           Conclude(h, p, k) \/ ConcludeLast(h, p)
    PROVE  /\ up' \in [Hosts -> BOOLEAN]
           /\ mine' \in [Hosts -> [Hosts -> Generation]]
           /\ his' \in [Hosts -> [Hosts -> Nat]]
           /\ auth' \in [Hosts -> [Hosts -> BOOLEAN]]
           /\ queue' \in [Hosts -> [Hosts -> Seq(Nat)]]
           /\ timer' \in [Hosts -> [Hosts -> BOOLEAN]]
           /\ awaiting' \in [Hosts -> SUBSET RecordPointer]
           /\ cookies' \in [Hosts -> SUBSET CookieEntry]
           /\ preparing' \in [Hosts -> BOOLEAN]
<1>1. CASE Conclude(h, p, k)
  <2>1. Others(h, p) \in SUBSET RecordPointer
    BY DEF Others, TypeOK
  <2>2. his' \in [Hosts -> [Hosts -> Nat]]
    BY <1>1, CellUpdate DEF Conclude, TypeOK
  <2>3. timer' \in [Hosts -> [Hosts -> BOOLEAN]]
    BY <1>1, CellUpdate DEF Conclude, TypeOK
  <2>4. awaiting' \in [Hosts -> SUBSET RecordPointer]
    BY <1>1, <2>1, EntryUpdate DEF Conclude, TypeOK
  <2>5. queue' \in [Hosts -> [Hosts -> Seq(Nat)]]
    <3>1. queue' = [queue EXCEPT ![h][p] = <<>>]
      BY <1>1 DEF Conclude
    <3>2. queue \in [Hosts -> [Hosts -> Seq(Nat)]] /\ <<>> \in Seq(Nat)
      BY DEF TypeOK
    <3> QED BY <3>1, <3>2, CellUpdate
  <2> QED BY <1>1, <2>2, <2>3, <2>4, <2>5 DEF Conclude, TypeOK
<1>2. CASE ConcludeLast(h, p)
  <2>1. Cleanup(h)
    BY <1>2 DEF ConcludeLast, Leave
  <2>2. up' \in [Hosts -> BOOLEAN] /\ preparing' \in [Hosts -> BOOLEAN]
    BY <1>2 DEF ConcludeLast, Leave, TypeOK
  <2> QED BY <2>1, <2>2, CleanupType
<1> QED BY <1>1, <1>2

LEMMA TypeNext == TypeOK /\ [Next]_vars => TypeOK'
<1> SUFFICES ASSUME TypeOK, [Next]_vars PROVE TypeOK'
  OBVIOUS
<1>1. CASE UNCHANGED vars
  BY <1>1 DEF TypeOK, vars, records, traffic, network
<1>2. ASSUME NEW h \in Hosts, Start(h) PROVE TypeOK'
  BY <1>2 DEF Start, TypeOK, records, traffic, network
<1>3. ASSUME NEW h \in Hosts, NEW m \in pubkeys, HandlePublicKeyRequest(h, m) PROVE TypeOK'
  <2>1. m.from \in Hosts /\ m.cookie \in Cookies
    BY <1>3 DEF TypeOK, PublicKeyDatagram
  <2>2. auth' \in [Hosts -> [Hosts -> BOOLEAN]]
    BY <1>3, <2>1, CellUpdate DEF HandlePublicKeyRequest, TypeOK
  <2>3. pubkeys' \subseteq PublicKeyDatagram
    <3>1. PublicKeyExchange(h, m.from, FALSE, m.cookie) \in PublicKeyDatagram
      BY <2>1, DatagramType
    <3> QED BY <1>3, <3>1 DEF HandlePublicKeyRequest, TypeOK
  <2> QED BY <1>3, <2>2, <2>3 DEF HandlePublicKeyRequest, TypeOK, traffic
<1>4. ASSUME NEW h \in Hosts, NEW m \in pubkeys, HandlePublicKeyReply(h, m) PROVE TypeOK'
  <2>1. m.from \in Hosts
    BY <1>4 DEF TypeOK, PublicKeyDatagram
  <2>2. auth' \in [Hosts -> [Hosts -> BOOLEAN]]
    BY <1>4, <2>1, CellUpdate DEF HandlePublicKeyReply, TypeOK
  <2>3. sesskeys' \subseteq SessionKeyDatagram
    <3>1. SessionKeyExchange(h, m.from, TRUE) \in SessionKeyDatagram
      BY <2>1, DatagramType
    <3> QED BY <1>4, <3>1 DEF HandlePublicKeyReply, TypeOK
  <2>4. cookies' \in [Hosts -> SUBSET CookieEntry]
    <3>1. PICK e \in cookies[h] : cookies' = [cookies EXCEPT ![h] = @ \ {e}]
      BY <1>4 DEF HandlePublicKeyReply
    <3>2. cookies \in [Hosts -> SUBSET CookieEntry]
      BY DEF TypeOK
    <3> QED BY <3>1, <3>2, EntryUpdate
  <2> QED BY <1>4, <2>2, <2>3, <2>4 DEF HandlePublicKeyReply, TypeOK, traffic
<1>5. ASSUME NEW h \in Hosts, NEW m \in sesskeys, HandleSessionKeyExchange(h, m) PROVE TypeOK'
  <2>1. m.from \in Hosts /\ m.key \in Nat
    BY <1>5 DEF TypeOK, SessionKeyDatagram, Generation
  <2>2. /\ sesskeys' \subseteq SessionKeyDatagram
        /\ emitted' \in [Hosts -> [Hosts -> Seq(Nat)]]
        /\ accepted' = accepted /\ pubkeys' = pubkeys
    <3>1. sesskeys' \subseteq SessionKeyDatagram
      BY <1>5, <2>1, DatagramType DEF HandleSessionKeyExchange, TypeOK
    <3>2. emitted[h][m.from] \o queue[h][m.from] \in Seq(Nat)
      <4>1. emitted[h][m.from] \in Seq(Nat) /\ queue[h][m.from] \in Seq(Nat)
        BY <2>1 DEF TypeOK
      <4> QED BY <4>1
    <3>3. emitted' \in [Hosts -> [Hosts -> Seq(Nat)]]
      BY <1>5, <2>1, <3>2, CellUpdate DEF HandleSessionKeyExchange, TypeOK
    <3> QED BY <1>5, <3>1, <3>3 DEF HandleSessionKeyExchange
  <2>3. Conclude(h, m.from, m.key) \/ ConcludeLast(h, m.from)
    BY <1>5 DEF HandleSessionKeyExchange
  <2> QED BY <2>1, <2>2, <2>3, ConcludeType DEF TypeOK
<1>6. ASSUME NEW h \in Hosts, NEW S \in SUBSET Hosts, ExitNow(h, S) PROVE TypeOK'
  <2>1. accepted' \in [Hosts -> [Hosts -> Nat]]
    <3>1. accepted \in [Hosts -> [Hosts -> Nat]] /\ accepted \in [Hosts -> [Hosts -> Nat]]
      BY DEF TypeOK
    <3> DEFINE row == [p \in Hosts |-> IF p \in S THEN accepted[h][p] + 1 ELSE accepted[h][p]]
    <3>2. row \in [Hosts -> Nat]
      BY <3>1
    <3>3. accepted' = [accepted EXCEPT ![h] = row]
      BY <1>6 DEF ExitNow
    <3> HIDE DEF row
    <3> QED BY <3>1, <3>2, <3>3, RowUpdate
  <2>2. emitted' \in [Hosts -> [Hosts -> Seq(Nat)]]
    <3>1. emitted \in [Hosts -> [Hosts -> Seq(Nat)]] /\ accepted \in [Hosts -> [Hosts -> Nat]]
      BY DEF TypeOK
    <3> DEFINE row == [p \in Hosts |-> IF p \in S THEN Append(emitted[h][p], accepted[h][p] + 1)
                                                ELSE emitted[h][p]]
    <3>2. row \in [Hosts -> Seq(Nat)]
      BY <3>1
    <3>3. emitted' = [emitted EXCEPT ![h] = row]
      BY <1>6 DEF ExitNow
    <3> HIDE DEF row
    <3> QED BY <3>1, <3>2, <3>3, RowUpdate
  <2>3. Cleanup(h) /\ up' \in [Hosts -> BOOLEAN] /\ preparing' \in [Hosts -> BOOLEAN]
    BY <1>6 DEF ExitNow, Leave, TypeOK
  <2>4. UNCHANGED network
    BY <1>6 DEF ExitNow
  <2> QED BY <2>1, <2>2, <2>3, <2>4, CleanupType DEF TypeOK, network
<1>7. ASSUME NEW h \in Hosts, NEW S \in SUBSET Hosts, ExitLater(h, S) PROVE TypeOK'
  <2>1. SendTo(h, S)
    BY <1>7 DEF ExitLater
  <2> QED BY <1>7, <2>1, SendToType DEF ExitLater, TypeOK
<1>8. ASSUME NEW h \in Hosts, ExitUnjoined(h) PROVE TypeOK'
  BY <1>8, CleanupType DEF ExitUnjoined, Leave, TypeOK, traffic, network
<1>9. ASSUME NEW h \in Hosts, JoinFailed(h) PROVE TypeOK'
  BY <1>9, CleanupType DEF JoinFailed, TypeOK, traffic, network
<1>10. ASSUME NEW h \in Hosts, Crash(h) PROVE TypeOK'
  BY <1>10, CleanupType DEF Crash, TypeOK, traffic, network
<1>11. ASSUME NEW h \in Hosts, NEW p \in Hosts, SendEncrypted(h, p) PROVE TypeOK'
  <2>1. SendTo(h, {p})
    BY <1>11 DEF SendEncrypted
  <2> QED BY <1>11, <2>1, SendToType DEF SendEncrypted, TypeOK
<1>12. ASSUME NEW h \in Hosts, NEW p \in Hosts, NegotiationTimeout(h, p) PROVE TypeOK'
  <2>1. his[h][p] \in Nat /\ (Conclude(h, p, his[h][p]) \/ ConcludeLast(h, p))
    BY <1>12 DEF NegotiationTimeout, TypeOK
  <2> QED BY <1>12, <2>1, ConcludeType DEF NegotiationTimeout, TypeOK, traffic, network
<1>13. ASSUME NEW h \in Hosts, NEW p \in Hosts, HandleMalformedKey(h, p) PROVE TypeOK'
  BY <1>13 DEF HandleMalformedKey, TypeOK, traffic, network
<1>14. ASSUME NEW h \in Hosts, NEW p \in Hosts, NEW r \in BOOLEAN, Forget(h, p, r) PROVE TypeOK'
  <2>1. awaiting' \in [Hosts -> SUBSET RecordPointer]
    <3>1. Others(h, p) \cup {[peer |-> p, gen |-> mine[h][p] + 1]} \in SUBSET RecordPointer
      BY RecordType DEF Others, TypeOK
    <3> QED BY <1>14, <3>1, EntryUpdate DEF Forget, TypeOK
  <2>2. mine' \in [Hosts -> [Hosts -> Generation]]
    <3>1. mine' = [mine EXCEPT ![h][p] = mine[h][p] + 1]
      BY <1>14 DEF Forget
    <3>2. mine[h][p] + 1 \in Generation /\ mine \in [Hosts -> [Hosts -> Generation]]
      BY RecordType DEF TypeOK
    <3> QED BY <3>1, <3>2, CellUpdate
  <2>3. his' \in [Hosts -> [Hosts -> Nat]]
    BY <1>14, CellUpdate DEF Forget, TypeOK
  <2>4. auth' \in [Hosts -> [Hosts -> BOOLEAN]] /\ timer' \in [Hosts -> [Hosts -> BOOLEAN]]
    BY <1>14, CellUpdate DEF Forget, TypeOK
  <2>5. queue' \in [Hosts -> [Hosts -> Seq(Nat)]]
    <3>1. <<>> \in Seq(Nat) /\ queue \in [Hosts -> [Hosts -> Seq(Nat)]]
      BY DEF TypeOK
    <3> QED BY <1>14, <3>1, CellUpdate DEF Forget
  <2> QED BY <1>14, <2>1, <2>2, <2>3, <2>4, <2>5 DEF Forget, TypeOK, traffic, network
<1> QED BY <1>1, <1>2, <1>3, <1>4, <1>5, <1>6, <1>7, <1>8, <1>9, <1>10, <1>11, <1>12,
           <1>13, <1>14 DEF Next, HandleDatagram

\* Every behaviour of the negotiation keeps the types, the socket's, the
\* records' and the datagrams', for all hosts and bounds.
THEOREM TypeCorrect == Spec => []TypeOK
BY TypeInit, TypeNext, PTL DEF Spec

-----------------------------------------------------------------------------
(* Queues, timers and shutdown: what a host keeps true by itself. *)

\* A record with a session holds nothing back.
SettledAt(h) ==
    \A p \in Hosts : Negotiated(h, p) => /\ queue[h][p] = <<>>
                                         /\ ~timer[h][p]
                                         /\ Record(h, p) \notin awaiting[h]

\* Whatever waits has a timer, or its record was replaced.
AttendedAt(h) ==
    \A p \in Hosts : queue[h][p] # <<>> \/ Record(h, p) \in awaiting[h] =>
                         timer[h][p] \/ Replaced(h, p)

\* No record is older than the session, and awaitingNegotiation points to records
\* of this session only, deleted ones included.
TrackedAt(h) ==
    /\ \A p \in Hosts : mine[h][h] <= mine[h][p]
    /\ \A e \in awaiting[h] : mine[h][h] <= e.gen /\ e.gen <= mine[h][e.peer]

\* The shutdown flag of a process that quits when it leaves.
ArmedAt(h) ==
    h \notin Reuse => /\ ~up[h] => ~preparing[h]
                      /\ up[h] /\ preparing[h] =>
                             \E p \in Hosts : timer[h][p] \/ Replaced(h, p)

HostInv(h) == SettledAt(h) /\ AttendedAt(h) /\ TrackedAt(h) /\ ArmedAt(h)

\* The state of one host.
Unchanged(g) ==
    /\ up'[g] = up[g] /\ preparing'[g] = preparing[g]
    /\ mine'[g] = mine[g] /\ his'[g] = his[g] /\ auth'[g] = auth[g]
    /\ queue'[g] = queue[g] /\ timer'[g] = timer[g]
    /\ awaiting'[g] = awaiting[g] /\ cookies'[g] = cookies[g]
    /\ accepted'[g] = accepted[g] /\ emitted'[g] = emitted[g]

\* The records after cleanup().
LEMMA CleanupEffect ==
    ASSUME TypeOK, NEW h \in Hosts, Cleanup(h)
    PROVE  /\ \A p \in Hosts : /\ mine'[h][p] = mine[h][p] + 1
                               /\ his'[h][p] = 0
                               /\ auth'[h][p] = FALSE
                               /\ queue'[h][p] = <<>>
                               /\ timer'[h][p] = FALSE
           /\ awaiting'[h] = {} /\ cookies'[h] = {}
           /\ \A g \in Hosts \ {h} : /\ mine'[g] = mine[g] /\ his'[g] = his[g]
                                     /\ auth'[g] = auth[g] /\ queue'[g] = queue[g]
                                     /\ timer'[g] = timer[g]
                                     /\ awaiting'[g] = awaiting[g]
                                     /\ cookies'[g] = cookies[g]
BY DEF TypeOK, Cleanup

\* The queues, timers and lists after sendEncryptedPacket.
LEMMA SendToEffect ==
    ASSUME TypeOK, NEW h \in Hosts, NEW S \in SUBSET Hosts, SendTo(h, S)
    PROVE  /\ \A p \in Hosts :
                 /\ queue'[h][p] # <<>> =>
                       queue[h][p] # <<>> \/ (p \in S /\ ~Negotiated(h, p))
                 /\ Negotiated(h, p) => queue'[h][p] = queue[h][p]
                 /\ timer'[h][p] = (p \in Opening(h, S) \/ timer[h][p])
           /\ awaiting'[h] = awaiting[h] \cup {Record(h, p) : p \in Opening(h, S)}
           /\ \A g \in Hosts \ {h} : /\ queue'[g] = queue[g] /\ timer'[g] = timer[g]
                                     /\ awaiting'[g] = awaiting[g]
                                     /\ cookies'[g] = cookies[g]
                                     /\ accepted'[g] = accepted[g]
                                     /\ emitted'[g] = emitted[g]
<1>1. \A p \in Hosts :
         /\ queue'[h][p] # <<>> => queue[h][p] # <<>> \/ (p \in S /\ ~Negotiated(h, p))
         /\ Negotiated(h, p) => queue'[h][p] = queue[h][p]
  BY DEF TypeOK, SendTo
<1>2. \A p \in Hosts : timer'[h][p] = (p \in Opening(h, S) \/ timer[h][p])
  BY DEF TypeOK, SendTo
<1>3. awaiting'[h] = awaiting[h] \cup {Record(h, p) : p \in Opening(h, S)}
  BY DEF TypeOK, SendTo
<1>4. \A g \in Hosts \ {h} : /\ queue'[g] = queue[g] /\ timer'[g] = timer[g]
                             /\ awaiting'[g] = awaiting[g]
                             /\ accepted'[g] = accepted[g]
                             /\ emitted'[g] = emitted[g]
  BY DEF TypeOK, SendTo
<1>5. \A g \in Hosts \ {h} : cookies'[g] = cookies[g]
  BY DEF TypeOK, SendTo
<1> QED BY <1>1, <1>2, <1>3, <1>4, <1>5

LEMMA CleanupKeeps ==
    ASSUME TypeOK, NEW h \in Hosts, HostInv(h), Cleanup(h)
    PROVE  SettledAt(h)' /\ AttendedAt(h)' /\ TrackedAt(h)'
<1>1. SettledAt(h)'
  BY CleanupEffect DEF SettledAt, Negotiated
<1>2. AttendedAt(h)'
  BY CleanupEffect DEF AttendedAt
<1>3. TrackedAt(h)'
  <2>1. \A p \in Hosts : mine[h][p] \in Nat
    BY DEF TypeOK, Generation
  <2>2. /\ \A p \in Hosts : mine'[h][p] = mine[h][p] + 1
        /\ awaiting'[h] = {}
    BY CleanupEffect
  <2>3. \A p \in Hosts : mine[h][h] <= mine[h][p]
    BY DEF TrackedAt, HostInv
  <2> QED BY <2>1, <2>2, <2>3 DEF TrackedAt
<1> QED BY <1>1, <1>2, <1>3

\* A host that has left the network satisfies the whole invariant.
LEMMA LeaveKeeps ==
    ASSUME TypeOK, NEW h \in Hosts, HostInv(h), Leave(h)
    PROVE  HostInv(h)'
<1>1. SettledAt(h)' /\ AttendedAt(h)' /\ TrackedAt(h)'
  BY CleanupKeeps DEF Leave
<1>2. ArmedAt(h)'
  BY DEF Leave, ArmedAt, TypeOK
<1> QED BY <1>1, <1>2 DEF HostInv

LEMMA SendToKeeps ==
    ASSUME TypeOK, NEW h \in Hosts, NEW S \in SUBSET Hosts, HostInv(h), SendTo(h, S),
           UNCHANGED <<mine, his>>
    PROVE  SettledAt(h)' /\ AttendedAt(h)' /\ TrackedAt(h)'
<1> USE DEF HostInv
<1>1. \A p \in Hosts : /\ Record(h, p)' = Record(h, p)
                       /\ Negotiated(h, p)' = Negotiated(h, p)
                       /\ Replaced(h, p)' = Replaced(h, p)
  BY DEF Record, Negotiated, Replaced
<1>2. \A p, q \in Hosts : Record(h, p) = Record(h, q) => p = q
  BY DEF Record
<1>3. Opening(h, S) \subseteq Hosts
  BY DEF Opening
<1>4. \A p \in Hosts : Record(h, p) \in awaiting'[h] <=>
                          Record(h, p) \in awaiting[h] \/ p \in Opening(h, S)
  BY <1>2, <1>3, SendToEffect
<1>5. SettledAt(h)'
  <2> SUFFICES ASSUME NEW p \in Hosts, Negotiated(h, p)
               PROVE  /\ queue'[h][p] = <<>> /\ ~timer'[h][p]
                      /\ Record(h, p) \notin awaiting'[h]
    BY <1>1 DEF SettledAt
  <2>1. p \notin Opening(h, S)
    BY DEF Opening
  <2>2. queue'[h][p] = queue[h][p] /\ timer'[h][p] = (p \in Opening(h, S) \/ timer[h][p])
    BY SendToEffect
  <2>3. queue[h][p] = <<>> /\ ~timer[h][p] /\ Record(h, p) \notin awaiting[h]
    BY DEF SettledAt
  <2> QED BY <1>4, <2>1, <2>2, <2>3
<1>6. AttendedAt(h)'
  <2> SUFFICES ASSUME NEW p \in Hosts,
                      queue'[h][p] # <<>> \/ Record(h, p) \in awaiting'[h]
               PROVE  timer'[h][p] \/ Replaced(h, p)
    BY <1>1 DEF AttendedAt
  <2>1. \/ p \in Opening(h, S)
        \/ queue[h][p] # <<>> \/ Record(h, p) \in awaiting[h]
    BY <1>4, SendToEffect DEF Opening
  <2> QED BY <2>1, SendToEffect DEF AttendedAt
<1>7. TrackedAt(h)'
  <2>1. \A p \in Hosts : mine[h][p] \in Nat /\ mine[h][h] <= mine[h][p]
    BY DEF TypeOK, Generation, TrackedAt
  <2>2. \A e \in awaiting'[h] : e \in awaiting[h] \/ \E p \in Hosts : e = Record(h, p)
    BY <1>3, SendToEffect
  <2>3. \A p \in Hosts : Record(h, p).gen = mine[h][p] /\ Record(h, p).peer = p
    BY DEF Record
  <2> QED BY <2>1, <2>2, <2>3 DEF TrackedAt
<1> QED BY <1>5, <1>6, <1>7

\* A list that is not empty means a timer or a replaced record.
LEMMA AwaitedHasTimer ==
    ASSUME TypeOK, NEW h \in Hosts, HostInv(h), NEW e \in awaiting[h]
    PROVE  /\ e.peer \in Hosts
           /\ timer[h][e.peer] \/ Replaced(h, e.peer)
           /\ e # Record(h, e.peer) => Replaced(h, e.peer)
<1>1. /\ e \in RecordPointer /\ e.peer \in Hosts /\ e.gen \in Nat
      /\ mine[h][e.peer] \in Nat /\ mine[h][h] \in Nat
  <2>1. e \in RecordPointer
    BY DEF TypeOK
  <2>2. e.peer \in Hosts /\ e.gen \in Nat
    BY <2>1 DEF RecordPointer, Generation
  <2> QED BY <2>1, <2>2 DEF TypeOK, Generation
<1>2. mine[h][h] <= e.gen /\ e.gen <= mine[h][e.peer]
  BY DEF HostInv, TrackedAt
<1>3. e # Record(h, e.peer) => e.gen # mine[h][e.peer]
  BY <1>1 DEF Record, RecordPointer
<1>4. e # Record(h, e.peer) => Replaced(h, e.peer)
  BY <1>1, <1>2, <1>3 DEF Replaced
<1>5. e = Record(h, e.peer) => timer[h][e.peer] \/ Replaced(h, e.peer)
  BY <1>1 DEF HostInv, AttendedAt
<1> QED BY <1>1, <1>4, <1>5

\* The host after the end of a handshake that was not the last one waited for.
LEMMA ConcludeEffect ==
    ASSUME TypeOK, NEW h \in Hosts, NEW p \in Hosts, NEW k, Conclude(h, p, k)
    PROVE  /\ up' = up /\ mine' = mine /\ preparing' = preparing
           /\ his'[h][p] = k /\ queue'[h][p] = <<>> /\ timer'[h][p] = FALSE
           /\ awaiting'[h] = awaiting[h] \ {Record(h, p)}
           /\ \A q \in Hosts : q # p => /\ his'[h][q] = his[h][q]
                                        /\ queue'[h][q] = queue[h][q]
                                        /\ timer'[h][q] = timer[h][q]
           /\ \A g \in Hosts \ {h} : /\ his'[g] = his[g] /\ queue'[g] = queue[g]
                                     /\ timer'[g] = timer[g]
                                     /\ awaiting'[g] = awaiting[g]
<1>1. his'[h][p] = k /\ queue'[h][p] = <<>> /\ timer'[h][p] = FALSE
  BY DEF Conclude, TypeOK
<1>2. awaiting'[h] = awaiting[h] \ {Record(h, p)}
  BY DEF Conclude, Others, TypeOK
<1>3. \A q \in Hosts : q # p => /\ his'[h][q] = his[h][q]
                                /\ queue'[h][q] = queue[h][q]
                                /\ timer'[h][q] = timer[h][q]
  BY DEF Conclude, TypeOK
<1>4. \A g \in Hosts \ {h} : /\ his'[g] = his[g] /\ queue'[g] = queue[g]
                             /\ timer'[g] = timer[g] /\ awaiting'[g] = awaiting[g]
  BY DEF Conclude, TypeOK
<1> QED BY <1>1, <1>2, <1>3, <1>4 DEF Conclude

\* Its effect on the queues alone.
LEMMA ConcludeQueue ==
    ASSUME TypeOK, NEW h \in Hosts, NEW p \in Hosts, NEW k, Conclude(h, p, k)
    PROVE  /\ queue'[h][p] = <<>>
           /\ \A q \in Hosts : q # p => queue'[h][q] = queue[h][q]
BY DEF Conclude, TypeOK

LEMMA ConcludeKeeps ==
    ASSUME TypeOK, NEW h \in Hosts, NEW p \in Hosts, NEW k, HostInv(h), Conclude(h, p, k)
    PROVE  HostInv(h)'
<1>a. /\ up' = up /\ mine' = mine /\ preparing' = preparing
      /\ queue'[h][p] = <<>> /\ timer'[h][p] = FALSE
      /\ awaiting'[h] = awaiting[h] \ {Record(h, p)}
  BY ConcludeEffect
<1>b. \A q \in Hosts : q # p => /\ his'[h][q] = his[h][q]
                                /\ queue'[h][q] = queue[h][q]
                                /\ timer'[h][q] = timer[h][q]
  BY DEF Conclude, TypeOK
<1> USE DEF HostInv
<1>1. \A q \in Hosts : /\ Record(h, q)' = Record(h, q)
                       /\ Replaced(h, q)' = Replaced(h, q)
  BY <1>a DEF Record, Replaced
<1>2. \A q \in Hosts : q # p => Negotiated(h, q)' = Negotiated(h, q)
  BY <1>b DEF Negotiated
<1>3. SettledAt(h)'
  <2> SUFFICES ASSUME NEW q \in Hosts, Negotiated(h, q)'
               PROVE  /\ queue'[h][q] = <<>> /\ ~timer'[h][q]
                      /\ Record(h, q) \notin awaiting'[h]
    BY <1>1 DEF SettledAt
  <2>1. CASE q = p
    BY <1>a, <2>1
  <2>2. CASE q # p
    BY <1>a, <1>b, <1>2, <2>2 DEF SettledAt
  <2> QED BY <2>1, <2>2
<1>4. AttendedAt(h)'
  BY <1>a, <1>b, <1>1 DEF AttendedAt
<1>5. TrackedAt(h)'
  BY <1>a DEF TrackedAt
<1>6. ArmedAt(h)'
  <2> SUFFICES ASSUME h \notin Reuse
               PROVE  /\ ~up[h] => ~preparing[h]
                      /\ up[h] /\ preparing[h] =>
                           \E q \in Hosts : timer'[h][q] \/ Replaced(h, q)
    BY <1>a, <1>1 DEF ArmedAt
  <2>1. ~up[h] => ~preparing[h]
    BY DEF ArmedAt
  <2>2. ASSUME preparing[h] PROVE \E q \in Hosts : timer'[h][q] \/ Replaced(h, q)
    <3>1. PICK e \in awaiting[h] : e # Record(h, p)
      BY <2>2 DEF Conclude, Others
    <3>2. /\ e.peer \in Hosts
          /\ timer[h][e.peer] \/ Replaced(h, e.peer)
          /\ e # Record(h, e.peer) => Replaced(h, e.peer)
      BY AwaitedHasTimer
    <3>3. CASE e.peer = p
      BY <3>1, <3>2, <3>3
    <3>4. CASE e.peer # p
      BY <1>b, <3>2, <3>4
    <3> QED BY <3>3, <3>4
  <2> QED BY <2>1, <2>2
<1> QED BY <1>3, <1>4, <1>5, <1>6

\* Deleting one record.
LEMMA ForgetKeeps ==
    ASSUME TypeOK, NEW h \in Hosts, NEW p \in Hosts, NEW r \in BOOLEAN, HostInv(h),
           Forget(h, p, r)
    PROVE  HostInv(h)'
<1> USE DEF HostInv
<1>1. /\ p # h /\ up' = up /\ preparing' = preparing
      /\ mine'[h][p] = mine[h][p] + 1 /\ his'[h][p] = 0
      /\ queue'[h][p] = <<>> /\ timer'[h][p] = FALSE
  BY DEF Forget, TypeOK
<1>2. \A q \in Hosts : q # p => /\ mine'[h][q] = mine[h][q] /\ his'[h][q] = his[h][q]
                                /\ queue'[h][q] = queue[h][q]
                                /\ timer'[h][q] = timer[h][q]
  BY DEF Forget, TypeOK
<1>3. \A e \in awaiting'[h] : \/ e \in awaiting[h]
                              \/ e = [peer |-> p, gen |-> mine[h][p] + 1]
  BY DEF Forget, Others, TypeOK
<1>4. \A q \in Hosts : /\ mine[h][q] \in Nat /\ mine[h][h] <= mine[h][q]
  BY DEF TypeOK, Generation, TrackedAt
<1>5. Replaced(h, p)'
  BY <1>1, <1>2, <1>4 DEF Replaced
<1>6. SettledAt(h)'
  <2> SUFFICES ASSUME NEW q \in Hosts, Negotiated(h, q)'
               PROVE  /\ queue'[h][q] = <<>> /\ ~timer'[h][q]
                      /\ Record(h, q)' \notin awaiting'[h]
    BY DEF SettledAt
  <2>1. q # p /\ Negotiated(h, q) /\ Record(h, q)' = Record(h, q)
    BY <1>1, <1>2 DEF Negotiated, Record
  <2>2. Record(h, q) # [peer |-> p, gen |-> mine[h][p] + 1]
    BY <2>1 DEF Record
  <2> QED BY <1>2, <1>3, <2>1, <2>2 DEF SettledAt
<1>7. AttendedAt(h)'
  <2> SUFFICES ASSUME NEW q \in Hosts, q # p,
                      queue'[h][q] # <<>> \/ Record(h, q)' \in awaiting'[h]
               PROVE  timer'[h][q] \/ Replaced(h, q)'
    BY <1>5 DEF AttendedAt
  <2>1. Record(h, q)' = Record(h, q) /\ Replaced(h, q)' = Replaced(h, q)
    BY <1>1, <1>2 DEF Record, Replaced
  <2>2. Record(h, q) # [peer |-> p, gen |-> mine[h][p] + 1]
    BY DEF Record
  <2>3. queue[h][q] # <<>> \/ Record(h, q) \in awaiting[h]
    BY <1>2, <1>3, <2>1, <2>2
  <2> QED BY <1>2, <2>1, <2>3 DEF AttendedAt
<1>8. TrackedAt(h)'
  <2>1. \A q \in Hosts : mine'[h][h] <= mine'[h][q]
    BY <1>1, <1>2, <1>4
  <2>2. ASSUME NEW e \in awaiting[h]
        PROVE  mine'[h][h] <= e.gen /\ e.gen <= mine'[h][e.peer]
    <3>1. e.peer \in Hosts /\ e.gen \in Nat
      <4>1. e \in RecordPointer
        BY DEF TypeOK
      <4> QED BY <4>1 DEF RecordPointer, Generation
    <3>2. mine[h][h] <= e.gen /\ e.gen <= mine[h][e.peer]
      BY DEF TrackedAt
    <3> QED BY <1>1, <1>2, <1>4, <3>1, <3>2
  <2>3. ASSUME NEW e, e = [peer |-> p, gen |-> mine[h][p] + 1]
        PROVE  mine'[h][h] <= e.gen /\ e.gen <= mine'[h][e.peer]
    BY <1>1, <1>2, <1>4, <2>3
  <2> QED BY <1>3, <2>1, <2>2, <2>3 DEF TrackedAt
<1>9. ArmedAt(h)'
  BY <1>1, <1>5 DEF ArmedAt
<1> QED BY <1>6, <1>7, <1>8, <1>9

\* One host's part of the next-state relation.
HostStep(h) ==
    \/ Start(h)
    \/ HandleDatagram(h)
    \/ \E S \in SUBSET Hosts : ExitNow(h, S) \/ ExitLater(h, S)
    \/ ExitUnjoined(h) \/ JoinFailed(h) \/ Crash(h)
    \/ \E p \in Hosts :
          \/ SendEncrypted(h, p)
          \/ NegotiationTimeout(h, p)
          \/ HandleMalformedKey(h, p)
          \/ \E recycled \in BOOLEAN : Forget(h, p, recycled)

\* A host's invariant holds after each of its own steps.
LEMMA OwnStep ==
    ASSUME TypeOK, NEW h \in Hosts, HostInv(h), HostStep(h)
    PROVE  HostInv(h)'
<1>1. ASSUME Start(h) PROVE HostInv(h)'
  <2>1. SettledAt(h)' /\ AttendedAt(h)' /\ TrackedAt(h)'
    BY <1>1 DEF Start, records, HostInv, SettledAt, AttendedAt, TrackedAt, Record,
                Negotiated, Replaced
  <2>2. ArmedAt(h)'
    BY <1>1 DEF Start, records, HostInv, ArmedAt, TypeOK
  <2> QED BY <2>1, <2>2 DEF HostInv
<1>2. ASSUME NEW m \in pubkeys, HandlePublicKeyRequest(h, m) \/ HandlePublicKeyReply(h, m)
      PROVE  HostInv(h)'
  <2>1. UNCHANGED <<up, mine, his, queue, timer, awaiting, preparing>>
    BY <1>2 DEF HandlePublicKeyRequest, HandlePublicKeyReply
  <2> QED BY <2>1 DEF HostInv, SettledAt, AttendedAt, TrackedAt, ArmedAt, Record,
                      Negotiated, Replaced
<1>3. ASSUME NEW m \in sesskeys, HandleSessionKeyExchange(h, m) PROVE HostInv(h)'
  <2>1. m.from \in Hosts
    BY DEF TypeOK, SessionKeyDatagram
  <2> QED BY <1>3, <2>1, ConcludeKeeps, LeaveKeeps DEF HandleSessionKeyExchange, ConcludeLast
<1>4. ASSUME NEW S \in SUBSET Hosts, ExitNow(h, S) PROVE HostInv(h)'
  BY <1>4, LeaveKeeps DEF ExitNow
<1>5. ASSUME NEW S \in SUBSET Hosts, ExitLater(h, S) PROVE HostInv(h)'
  <2>1. SendTo(h, S) /\ mine' = mine /\ his' = his /\ up' = up
    BY <1>5 DEF ExitLater
  <2>2. SettledAt(h)' /\ AttendedAt(h)' /\ TrackedAt(h)'
    BY <2>1, SendToKeeps
  <2>3. \E p \in Hosts : timer'[h][p] \/ Replaced(h, p)'
    <3>1. CASE Opening(h, S) # {}
      <4>1. PICK p \in Opening(h, S) : TRUE
        BY <3>1
      <4>2. p \in Hosts
        BY DEF Opening
      <4> QED BY <2>1, <4>1, <4>2, SendToEffect
    <3>2. CASE awaiting[h] # {}
      <4>1. PICK e \in awaiting[h] : TRUE
        BY <3>2
      <4>2. e.peer \in Hosts /\ (timer[h][e.peer] \/ Replaced(h, e.peer))
        BY AwaitedHasTimer
      <4>3. timer[h][e.peer] => timer'[h][e.peer]
        BY <2>1, <4>2, SendToEffect
      <4>4. Replaced(h, e.peer)' = Replaced(h, e.peer)
        BY <2>1 DEF Replaced
      <4> QED BY <4>2, <4>3, <4>4
    <3> QED BY <1>5, <3>1, <3>2 DEF ExitLater
  <2>4. up[h]
    BY <1>5 DEF ExitLater
  <2> QED BY <2>1, <2>2, <2>3, <2>4 DEF HostInv, ArmedAt
<1>6. ASSUME ExitUnjoined(h) PROVE HostInv(h)'
  BY <1>6, LeaveKeeps DEF ExitUnjoined
<1>7. ASSUME JoinFailed(h) PROVE HostInv(h)'
  <2>1. SettledAt(h)' /\ AttendedAt(h)' /\ TrackedAt(h)'
    BY <1>7, CleanupKeeps DEF JoinFailed
  <2>2. ArmedAt(h)'
    BY <1>7 DEF JoinFailed, ArmedAt
  <2> QED BY <2>1, <2>2 DEF HostInv
<1>8. ASSUME Crash(h) PROVE HostInv(h)'
  <2>1. SettledAt(h)' /\ AttendedAt(h)' /\ TrackedAt(h)'
    BY <1>8, CleanupKeeps DEF Crash
  <2>2. ArmedAt(h)'
    BY <1>8 DEF Crash, ArmedAt, TypeOK
  <2> QED BY <2>1, <2>2 DEF HostInv
<1>9. ASSUME NEW p \in Hosts, SendEncrypted(h, p) PROVE HostInv(h)'
  <2>1. /\ SendTo(h, {p}) /\ mine' = mine /\ his' = his
        /\ up' = up /\ preparing' = preparing
    BY <1>9 DEF SendEncrypted
  <2>2. SettledAt(h)' /\ AttendedAt(h)' /\ TrackedAt(h)'
    BY <2>1, SendToKeeps
  <2>3. \A q \in Hosts : /\ timer[h][q] => timer'[h][q]
                         /\ Replaced(h, q)' = Replaced(h, q)
    BY <2>1, SendToEffect DEF Replaced
  <2>4. ArmedAt(h)'
    BY <2>1, <2>3 DEF ArmedAt, HostInv
  <2> QED BY <2>2, <2>4 DEF HostInv
<1>10. ASSUME NEW p \in Hosts, NegotiationTimeout(h, p) PROVE HostInv(h)'
  BY <1>10, ConcludeKeeps, LeaveKeeps DEF NegotiationTimeout, ConcludeLast
<1>11. ASSUME NEW p \in Hosts, HandleMalformedKey(h, p) PROVE HostInv(h)'
  <2>1. /\ UNCHANGED <<up, mine, his, queue, timer, preparing>>
        /\ awaiting'[h] \subseteq awaiting[h]
    BY <1>11 DEF HandleMalformedKey, TypeOK
  <2> QED BY <2>1 DEF HostInv, SettledAt, AttendedAt, TrackedAt, ArmedAt, Record,
                      Negotiated, Replaced
<1>12. ASSUME NEW p \in Hosts, NEW r \in BOOLEAN, Forget(h, p, r) PROVE HostInv(h)'
  BY <1>12, ForgetKeeps
<1> QED BY <1>1, <1>2, <1>3, <1>4, <1>5, <1>6, <1>7, <1>8, <1>9, <1>10, <1>11, <1>12
        DEF HostStep, HandleDatagram

\* A step of one host leaves the state of every other host alone.
LEMMA OtherStep ==
    ASSUME TypeOK, NEW h \in Hosts, HostStep(h), NEW g \in Hosts, g # h
    PROVE  Unchanged(g)
<1> USE DEF Unchanged
<1>1. ASSUME Start(h) PROVE Unchanged(g)
  BY <1>1 DEF Start, TypeOK, records, traffic, network
<1>2. ASSUME NEW m \in pubkeys, HandlePublicKeyRequest(h, m) PROVE Unchanged(g)
  BY <1>2 DEF HandlePublicKeyRequest, TypeOK, traffic
<1>3. ASSUME NEW m \in pubkeys, HandlePublicKeyReply(h, m) PROVE Unchanged(g)
  BY <1>3 DEF HandlePublicKeyReply, TypeOK, traffic
<1>4. ASSUME Leave(h)
      PROVE  /\ up'[g] = up[g] /\ preparing'[g] = preparing[g]
             /\ mine'[g] = mine[g] /\ his'[g] = his[g] /\ auth'[g] = auth[g]
             /\ queue'[g] = queue[g] /\ timer'[g] = timer[g]
             /\ awaiting'[g] = awaiting[g] /\ cookies'[g] = cookies[g]
  <2>1. Cleanup(h) /\ up'[g] = up[g] /\ preparing'[g] = preparing[g]
    BY <1>4 DEF Leave, TypeOK
  <2> QED BY <2>1, CleanupEffect
<1>5. ASSUME NEW p \in Hosts, NEW k, Conclude(h, p, k)
      PROVE  /\ up'[g] = up[g] /\ preparing'[g] = preparing[g]
             /\ mine'[g] = mine[g] /\ his'[g] = his[g] /\ auth'[g] = auth[g]
             /\ queue'[g] = queue[g] /\ timer'[g] = timer[g]
             /\ awaiting'[g] = awaiting[g] /\ cookies'[g] = cookies[g]
  <2>1. /\ his'[g] = his[g] /\ queue'[g] = queue[g]
        /\ timer'[g] = timer[g] /\ awaiting'[g] = awaiting[g]
    <3>1. g \in Hosts \ {h}
      OBVIOUS
    <3> QED BY <1>5, <3>1, ConcludeEffect, Zenon
  <2> QED BY <1>5, <2>1 DEF Conclude
<1>6. ASSUME NEW m \in sesskeys, HandleSessionKeyExchange(h, m) PROVE Unchanged(g)
  <2>1. m.from \in Hosts
    BY DEF TypeOK, SessionKeyDatagram
  <2>2. accepted'[g] = accepted[g] /\ emitted'[g] = emitted[g]
    BY <1>6 DEF HandleSessionKeyExchange, TypeOK
  <2>3. CASE Leave(h)
    BY <1>4, <2>2, <2>3
  <2>4. CASE Conclude(h, m.from, m.key)
    BY <1>5, <2>1, <2>2, <2>4
  <2> QED BY <1>6, <2>3, <2>4 DEF HandleSessionKeyExchange, ConcludeLast
<1>7. ASSUME NEW S \in SUBSET Hosts, ExitNow(h, S) PROVE Unchanged(g)
  <2>1. accepted'[g] = accepted[g] /\ emitted'[g] = emitted[g]
    BY <1>7 DEF ExitNow, TypeOK
  <2>2. Leave(h)
    BY <1>7 DEF ExitNow
  <2> QED BY <1>4, <2>1, <2>2
<1>8. ASSUME NEW S \in SUBSET Hosts, ExitLater(h, S) PROVE Unchanged(g)
  <2>1. SendTo(h, S) /\ preparing'[g] = preparing[g]
    BY <1>8 DEF ExitLater, TypeOK
  <2> QED BY <1>8, <2>1, SendToEffect DEF ExitLater
<1>9. ASSUME ExitUnjoined(h) PROVE Unchanged(g)
  BY <1>4, <1>9 DEF ExitUnjoined, traffic
<1>10. ASSUME JoinFailed(h) PROVE Unchanged(g)
  <2>1. Cleanup(h) /\ UNCHANGED <<up, preparing, traffic>>
    BY <1>10 DEF JoinFailed
  <2> QED BY <2>1, CleanupEffect DEF traffic
<1>11. ASSUME Crash(h) PROVE Unchanged(g)
  <2>1. Cleanup(h) /\ up'[g] = up[g] /\ preparing'[g] = preparing[g]
    BY <1>11 DEF Crash, TypeOK
  <2>2. accepted'[g] = accepted[g] /\ emitted'[g] = emitted[g]
    BY <1>11 DEF Crash, traffic
  <2> QED BY <2>1, <2>2, CleanupEffect
<1>12. ASSUME NEW p \in Hosts, SendEncrypted(h, p) PROVE Unchanged(g)
  <2>1. SendTo(h, {p})
    BY <1>12 DEF SendEncrypted
  <2> QED BY <1>12, <2>1, SendToEffect DEF SendEncrypted
<1>13. ASSUME NEW p \in Hosts, NegotiationTimeout(h, p) PROVE Unchanged(g)
  <2>1. CASE Leave(h)
    BY <1>4, <1>13, <2>1 DEF NegotiationTimeout, traffic
  <2>2. CASE Conclude(h, p, his[h][p])
    BY <1>5, <1>13, <2>2 DEF NegotiationTimeout, traffic
  <2> QED BY <1>13, <2>1, <2>2 DEF NegotiationTimeout, ConcludeLast
<1>14. ASSUME NEW p \in Hosts, HandleMalformedKey(h, p) PROVE Unchanged(g)
  BY <1>14 DEF HandleMalformedKey, TypeOK, traffic
<1>15. ASSUME NEW p \in Hosts, NEW r \in BOOLEAN, Forget(h, p, r) PROVE Unchanged(g)
  BY <1>15 DEF Forget, TypeOK, traffic
<1> QED BY <1>1, <1>2, <1>3, <1>6, <1>7, <1>8, <1>9, <1>10, <1>11, <1>12, <1>13, <1>14,
           <1>15 DEF HostStep, HandleDatagram

\* The inductive invariant of the hosts taken one by one.
LocalInv == TypeOK /\ \A h \in Hosts : HostInv(h)

LEMMA LocalInit == Init => LocalInv
<1> SUFFICES ASSUME Init, NEW h \in Hosts PROVE HostInv(h)
  BY TypeInit DEF LocalInv
<1>1. SettledAt(h)
  BY DEF Init, SettledAt, Negotiated
<1>2. AttendedAt(h)
  BY DEF Init, AttendedAt
<1>3. TrackedAt(h)
  BY DEF Init, TrackedAt
<1>4. ArmedAt(h)
  BY DEF Init, ArmedAt
<1> QED BY <1>1, <1>2, <1>3, <1>4 DEF HostInv

LEMMA LocalNext == LocalInv /\ [Next]_vars => LocalInv'
<1> SUFFICES ASSUME LocalInv, [Next]_vars PROVE LocalInv'
  OBVIOUS
<1>1. TypeOK'
  BY TypeNext DEF LocalInv
<1>2. ASSUME NEW g \in Hosts, Unchanged(g) PROVE HostInv(g)'
  <2>1. HostInv(g)
    BY DEF LocalInv
  <2> QED BY <1>2, <2>1 DEF Unchanged, HostInv, SettledAt, AttendedAt, TrackedAt, ArmedAt,
                            Record, Negotiated, Replaced
<1>3. CASE UNCHANGED vars
  BY <1>1, <1>2, <1>3 DEF vars, records, traffic, Unchanged, LocalInv
<1>4. ASSUME NEW h \in Hosts, HostStep(h) PROVE LocalInv'
  <2>1. HostInv(h)'
    BY <1>4, OwnStep DEF LocalInv
  <2>2. ASSUME NEW g \in Hosts, g # h PROVE HostInv(g)'
    BY <1>2, <1>4, <2>2, OtherStep DEF LocalInv
  <2> QED BY <1>1, <2>1, <2>2 DEF LocalInv
<1>5. CASE Next
  BY <1>4, <1>5 DEF Next, HostStep
<1> QED BY <1>3, <1>5

\* A record that holds a session holds nothing back: the drain of
\* handleSessionKeyExchange leaves no packet, timer or shutdown waiting.
THEOREM SettledAlways == Spec => []Settled
<1>1. LocalInv => Settled
  BY DEF LocalInv, HostInv, SettledAt, Settled
<1> QED BY LocalInit, LocalNext, <1>1, PTL DEF Spec

\* Nothing waits without a timer, whatever the order of key exchanges, malformed
\* keys, restarts and crashes, unless the record was deleted in this session.
THEOREM NoStrandingAlways == Spec => []NoStranding
<1>1. LocalInv => NoStranding
  BY DEF LocalInv, HostInv, AttendedAt, NoStranding
<1> QED BY LocalInit, LocalNext, <1>1, PTL DEF Spec

\* A process that is leaving has a timer that leads it out.
THEOREM ShutdownArmedAlways == Spec => []ShutdownArmed
<1>1. LocalInv => ShutdownArmed
  BY DEF LocalInv, HostInv, ArmedAt, ShutdownArmed
<1> QED BY LocalInit, LocalNext, <1>1, PTL DEF Spec

-----------------------------------------------------------------------------
(* The negotiation implements the channel. *)

\* Deleting the records of h drops its outboxes.
LEMMA CleanupDrops ==
    ASSUME TypeOK, NEW h \in Hosts, NEW p \in Hosts, Cleanup(h), UNCHANGED traffic
    PROVE  Channel!Drop(h, p)
BY CleanupEffect DEF Channel!Drop, traffic

\* A step of h acts on each of its links as a step of the channel.
LEMMA LinkStep ==
    ASSUME TypeOK, NEW h \in Hosts, HostInv(h), HostStep(h), NEW p \in Hosts
    PROVE  \/ Channel!Accept(h, p) \/ Channel!Release(h, p)
           \/ Channel!Drop(h, p) \/ Channel!Keep(h, p)
<1> DEFINE Goal == \/ Channel!Accept(h, p) \/ Channel!Release(h, p)
                   \/ Channel!Drop(h, p) \/ Channel!Keep(h, p)
<1> SUFFICES Goal
  OBVIOUS
<1>1. ASSUME Start(h) PROVE Goal
  BY <1>1 DEF Start, records, traffic, Channel!Keep
<1>2. ASSUME NEW m \in pubkeys, HandlePublicKeyRequest(h, m) \/ HandlePublicKeyReply(h, m)
      PROVE  Goal
  BY <1>2 DEF HandlePublicKeyRequest, HandlePublicKeyReply, traffic, Channel!Keep
<1>3. ASSUME NEW m \in sesskeys, HandleSessionKeyExchange(h, m) PROVE Goal
  <2>1. m.from \in Hosts /\ accepted' = accepted
    BY <1>3 DEF HandleSessionKeyExchange, TypeOK, SessionKeyDatagram
  <2>2. /\ emitted'[h][m.from] = emitted[h][m.from] \o queue[h][m.from]
        /\ p # m.from => emitted'[h][p] = emitted[h][p]
    BY <1>3, <2>1 DEF HandleSessionKeyExchange, TypeOK
  <2>3. queue'[h][m.from] = <<>>
    <3>1. CASE Leave(h)
      BY <2>1, <3>1, CleanupEffect DEF Leave
    <3>2. CASE Conclude(h, m.from, m.key)
      BY <2>1, <3>2, ConcludeEffect
    <3> QED BY <1>3, <3>1, <3>2 DEF HandleSessionKeyExchange, ConcludeLast
  <2>4. CASE p = m.from
    BY <2>1, <2>2, <2>3, <2>4 DEF Channel!Release
  <2>5. ASSUME p # m.from PROVE queue'[h][p] = <<>> \/ queue'[h][p] = queue[h][p]
    <3>1. CASE Leave(h)
      BY <3>1, CleanupEffect DEF Leave
    <3>2. CASE Conclude(h, m.from, m.key)
      BY <2>1, <2>5, <3>2, ConcludeQueue
    <3> QED BY <1>3, <3>1, <3>2 DEF HandleSessionKeyExchange, ConcludeLast
  <2>6. CASE p # m.from
    BY <2>1, <2>2, <2>5, <2>6 DEF Channel!Drop, Channel!Keep
  <2> QED BY <2>4, <2>6
<1>4. ASSUME NEW S \in SUBSET Hosts, ExitNow(h, S) PROVE Goal
  <2>1. queue'[h][p] = <<>>
    BY <1>4, CleanupEffect DEF ExitNow, Leave
  <2>2. CASE p \in S
    <3>1. Negotiated(h, p)
      BY <1>4, <2>2 DEF ExitNow, Opening
    <3>2. queue[h][p] = <<>>
      BY <3>1 DEF HostInv, SettledAt
    <3>3. /\ accepted'[h][p] = accepted[h][p] + 1
          /\ emitted'[h][p] = Append(emitted[h][p], accepted[h][p] + 1)
      BY <1>4, <2>2 DEF ExitNow, TypeOK
    <3> QED BY <2>1, <3>2, <3>3 DEF Channel!Accept
  <2>3. CASE p \notin S
    <3>1. accepted'[h][p] = accepted[h][p] /\ emitted'[h][p] = emitted[h][p]
      BY <1>4, <2>3 DEF ExitNow, TypeOK
    <3> QED BY <2>1, <3>1 DEF Channel!Drop
  <2> QED BY <2>2, <2>3
<1>5. ASSUME NEW S \in SUBSET Hosts, SendTo(h, S) PROVE Goal
  <2>q. queue'[h][p] = IF p \in S /\ ~Negotiated(h, p)
                       THEN Append(queue[h][p], accepted[h][p] + 1) ELSE queue[h][p]
    BY <1>5 DEF SendTo, TypeOK
  <2>e. emitted'[h][p] = IF p \in S /\ Negotiated(h, p)
                         THEN Append(emitted[h][p], accepted[h][p] + 1)
                         ELSE emitted[h][p]
    BY <1>5 DEF SendTo, TypeOK
  <2>a. accepted'[h][p] = IF p \in S THEN accepted[h][p] + 1 ELSE accepted[h][p]
    BY <1>5 DEF SendTo, TypeOK
  <2>1. CASE p \notin S
    <3>1. /\ accepted'[h][p] = accepted[h][p] /\ emitted'[h][p] = emitted[h][p]
          /\ queue'[h][p] = queue[h][p]
      BY <2>1, <2>q, <2>e, <2>a
    <3> QED BY <3>1 DEF Channel!Keep
  <2>2. CASE p \in S /\ Negotiated(h, p)
    <3>1. /\ accepted'[h][p] = accepted[h][p] + 1 /\ queue'[h][p] = queue[h][p]
          /\ emitted'[h][p] = Append(emitted[h][p], accepted[h][p] + 1)
      BY <2>2, <2>q, <2>e, <2>a
    <3>2. queue[h][p] = <<>>
      BY <2>2 DEF HostInv, SettledAt
    <3> QED BY <3>1, <3>2 DEF Channel!Accept
  <2>3. CASE p \in S /\ ~Negotiated(h, p)
    <3>1. /\ accepted'[h][p] = accepted[h][p] + 1 /\ emitted'[h][p] = emitted[h][p]
          /\ queue'[h][p] = Append(queue[h][p], accepted[h][p] + 1)
      BY <2>3, <2>q, <2>e, <2>a
    <3> QED BY <3>1 DEF Channel!Accept
  <2> QED BY <2>1, <2>2, <2>3
<1>6. ASSUME NEW S \in SUBSET Hosts, ExitLater(h, S) PROVE Goal
  BY <1>5, <1>6 DEF ExitLater
<1>7. ASSUME ExitUnjoined(h) \/ JoinFailed(h) \/ Crash(h) PROVE Goal
  BY <1>7, CleanupDrops DEF ExitUnjoined, JoinFailed, Crash, Leave
<1>8. ASSUME NEW q \in Hosts, SendEncrypted(h, q) PROVE Goal
  <2>1. SendTo(h, {q})
    BY <1>8 DEF SendEncrypted
  <2> QED BY <1>5, <2>1
<1>9. ASSUME NEW q \in Hosts, NegotiationTimeout(h, q) PROVE Goal
  <2>1. UNCHANGED traffic
    BY <1>9 DEF NegotiationTimeout
  <2>2. CASE Leave(h)
    BY <2>1, <2>2, CleanupDrops DEF Leave
  <2>3. CASE Conclude(h, q, his[h][q])
    <3>1. queue'[h][p] = <<>> \/ queue'[h][p] = queue[h][p]
      BY <2>3, ConcludeQueue
    <3> QED BY <2>1, <3>1 DEF traffic, Channel!Drop, Channel!Keep
  <2> QED BY <1>9, <2>2, <2>3 DEF NegotiationTimeout, ConcludeLast
<1>10. ASSUME NEW q \in Hosts, HandleMalformedKey(h, q) PROVE Goal
  BY <1>10 DEF HandleMalformedKey, traffic, Channel!Keep
<1>11. ASSUME NEW q \in Hosts, NEW r \in BOOLEAN, Forget(h, q, r) PROVE Goal
  <2>1. queue'[h][p] = <<>> \/ queue'[h][p] = queue[h][p]
    BY <1>11 DEF Forget, TypeOK
  <2>2. UNCHANGED traffic
    BY <1>11 DEF Forget
  <2> QED BY <2>1, <2>2 DEF traffic, Channel!Drop, Channel!Keep
<1> HIDE DEF Goal
<1> QED BY <1>1, <1>2, <1>3, <1>4, <1>6, <1>7, <1>8, <1>9, <1>10, <1>11
        DEF HostStep, HandleDatagram

LEMMA ChannelInit == Init => Channel!Init
BY DEF Init, Channel!Init

LEMMA ChannelNext == LocalInv /\ [Next]_vars => [Channel!Next]_Channel!vars
<1> SUFFICES ASSUME LocalInv, [Next]_vars PROVE [Channel!Next]_Channel!vars
  OBVIOUS
<1>1. CASE UNCHANGED vars
  BY <1>1 DEF vars, records, traffic, Channel!vars
<1>2. ASSUME NEW h \in Hosts, HostStep(h) PROVE Channel!Next
  <2>1. Channel!Shape'
    BY LocalNext DEF LocalInv, TypeOK, Channel!Shape
  <2>2. ASSUME NEW g \in Hosts, NEW p \in Hosts
        PROVE  \/ Channel!Accept(g, p) \/ Channel!Release(g, p)
               \/ Channel!Drop(g, p) \/ Channel!Keep(g, p)
    <3>1. CASE g = h
      BY <1>2, <3>1, LinkStep DEF LocalInv
    <3>2. CASE g # h
      <4>1. Unchanged(g)
        BY <1>2, <3>2, OtherStep DEF LocalInv
      <4> QED BY <4>1 DEF Unchanged, Channel!Keep
    <3> QED BY <3>1, <3>2
  <2> QED BY <2>1, <2>2 DEF Channel!Next
<1>3. CASE Next
  BY <1>2, <1>3 DEF Next, HostStep
<1> QED BY <1>1, <1>3

\* The negotiation implements the channel: handshakes, timeouts, shutdowns, crashes
\* and deleted records amount to accepting, releasing or dropping whole outboxes.
THEOREM Refinement == Spec => ImplementsChannel
<1>1. LocalInv /\ [Next]_vars => [Channel!Next]_Channel!vars
  BY ChannelNext
<1> QED BY LocalInit, LocalNext, ChannelInit, <1>1, PTL
        DEF Spec, ImplementsChannel, Channel!Spec

\* What SecureChannelProofs shows of every channel, for this one.
OrderOf == INSTANCE SecureChannelProofs WITH outbox <- queue, wire <- emitted

\* Packets are encrypted and sent in the order in which they were given to
\* sendEncryptedPacket, each at most once: the order of the channel carries over.
THEOREM InOrderAlways == Spec => []InOrder
<1>1. Channel!Init => OrderOf!Init
  BY DEF Channel!Init, OrderOf!Init
<1>2. [Channel!Next]_Channel!vars => [OrderOf!Next]_OrderOf!vars
  BY DEF Channel!Next, Channel!vars, Channel!Shape, Channel!Accept, Channel!Release,
         Channel!Drop, Channel!Keep, OrderOf!Next, OrderOf!vars, OrderOf!Shape,
         OrderOf!Accept, OrderOf!Release, OrderOf!Drop, OrderOf!Keep
<1>3. OrderOf!InOrder => InOrder
  BY DEF OrderOf!InOrder, OrderOf!Increasing, InOrder, Channel!InOrder, Channel!Increasing
<1>4. OrderOf!Init /\ [][OrderOf!Next]_OrderOf!vars => []OrderOf!InOrder
  BY OrderOf!ChannelInOrder DEF OrderOf!Spec
<1> QED BY Refinement, <1>1, <1>2, <1>3, <1>4, PTL DEF ImplementsChannel, Channel!Spec

-----------------------------------------------------------------------------
(* Keys: what the datagrams sent so far say about both ends of a handshake. *)

\* h has the public key of p, or a record of p was deleted at h.
Known(h, p) == auth[h][p] \/ mine[h][p] > 1

\* Who answered a public key request has the key that came with it.
RepliesKnown == \A r \in pubkeys : ~r.need => Known(r.from, r.to)

\* A session key is requested by a host that has the peer's public key, and after the
\* peer answered with it.
RequestsBacked ==
    \A m \in sesskeys :
        m.need => /\ Known(m.from, m.to)
                  /\ \E r \in pubkeys : ~r.need /\ r.from = m.to /\ r.to = m.from

\* A session key sent back answers a request that carried the other one.
AnswersAsked ==
    \A m \in sesskeys :
        ~m.need => \E q \in sesskeys : q.need /\ q.from = m.to /\ q.to = m.from

\* No session key is newer than the record it belongs to.
KeysCurrent == \A m \in sesskeys : m.key <= mine[m.from][m.to]

KeyInv ==
    /\ TypeOK /\ RepliesKnown /\ RequestsBacked /\ AnswersAsked /\ KeysCurrent
    /\ AuthBeforeSession /\ KeyAnnounced

\* The record of p at h stays and keeps its public key, or another one takes its place.
Ages(h, p) ==
    \/ mine'[h][p] = mine[h][p] /\ (auth[h][p] => auth'[h][p])
    \/ mine'[h][p] = mine[h][p] + 1

\* A step that adds no session key, no answer and no session.
NoNewKeys ==
    /\ \A h, p \in Hosts : Ages(h, p)
    /\ sesskeys' = sesskeys
    /\ pubkeys \subseteq pubkeys' /\ \A r \in pubkeys' : r \in pubkeys \/ r.need
    /\ \A h, p \in Hosts : his'[h][p] # 0 => his[h][p] # 0 /\ mine'[h][p] = mine[h][p]

LEMMA AgesKnown ==
    ASSUME TypeOK, NEW h \in Hosts, NEW p \in Hosts, Ages(h, p)
    PROVE  /\ Known(h, p) => Known(h, p)'
           /\ mine[h][p] <= mine'[h][p]
           /\ mine'[h][p] = 1 => mine[h][p] = 1 /\ (auth[h][p] => auth'[h][p])
<1>1. mine[h][p] \in Generation
  BY DEF TypeOK
<1>2. mine[h][p] \in Nat /\ mine[h][p] >= 1
  BY <1>1 DEF Generation
<1> QED BY <1>2 DEF Known, Ages

LEMMA DatagramEnds ==
    ASSUME TypeOK
    PROVE  /\ \A r \in pubkeys : r.from \in Hosts /\ r.to \in Hosts /\ r.need \in BOOLEAN
           /\ \A m \in sesskeys : /\ m.from \in Hosts /\ m.to \in Hosts
                                  /\ m.need \in BOOLEAN
                                  /\ m.key \in Nat /\ m.key >= 1
<1>1. pubkeys \subseteq PublicKeyDatagram /\ sesskeys \subseteq SessionKeyDatagram
  BY DEF TypeOK
<1>2. \A k \in Generation : k \in Nat /\ k >= 1
  BY DEF Generation
<1> QED BY <1>1, <1>2 DEF PublicKeyDatagram, SessionKeyDatagram

\* The history kept in the datagrams survives every step that ages the records.
LEMMA NoNewKeysKeeps ==
    ASSUME KeyInv, NoNewKeys, TypeOK'
    PROVE  KeyInv'
<1>0. TypeOK /\ \A h, p \in Hosts : Ages(h, p)
  BY DEF KeyInv, NoNewKeys
<1>1. \A h, p \in Hosts : Known(h, p) => Known(h, p)'
  BY <1>0, AgesKnown
<1>2. \A h, p \in Hosts : mine[h][p] <= mine'[h][p]
  BY <1>0, AgesKnown
<1>3. RepliesKnown'
  <2> SUFFICES ASSUME NEW r \in pubkeys', ~r.need PROVE Known(r.from, r.to)'
    BY DEF RepliesKnown
  <2>1. r \in pubkeys
    BY DEF NoNewKeys
  <2> QED BY <1>0, <1>1, <2>1, DatagramEnds DEF KeyInv, RepliesKnown
<1>4. RequestsBacked'
  <2> SUFFICES ASSUME NEW m \in sesskeys, m.need
               PROVE  /\ Known(m.from, m.to)'
                      /\ \E r \in pubkeys' : ~r.need /\ r.from = m.to /\ r.to = m.from
    BY DEF RequestsBacked, NoNewKeys
  <2>1. /\ Known(m.from, m.to)
        /\ \E r \in pubkeys : ~r.need /\ r.from = m.to /\ r.to = m.from
    BY DEF KeyInv, RequestsBacked
  <2> QED BY <1>0, <1>1, <2>1, DatagramEnds DEF NoNewKeys
<1>5. AnswersAsked'
  BY DEF KeyInv, AnswersAsked, NoNewKeys
<1>6. KeysCurrent'
  <2> SUFFICES ASSUME NEW m \in sesskeys PROVE m.key <= mine'[m.from][m.to]
    BY DEF KeysCurrent, NoNewKeys
  <2>1. m.key <= mine[m.from][m.to] /\ m.from \in Hosts /\ m.to \in Hosts /\ m.key \in Nat
    BY <1>0, DatagramEnds DEF KeyInv, KeysCurrent
  <2>2. mine[m.from][m.to] \in Nat /\ mine'[m.from][m.to] \in Nat
    <3>1. mine[m.from][m.to] \in Generation /\ mine'[m.from][m.to] \in Generation
      BY <1>0, <2>1 DEF TypeOK
    <3> QED BY <3>1 DEF Generation
  <2> QED BY <1>2, <2>1, <2>2
<1>7. ASSUME NEW h \in Hosts, NEW p \in Hosts, his'[h][p] # 0, mine'[h][p] = 1
      PROVE  Negotiated(h, p) /\ mine[h][p] = 1 /\ (auth[h][p] => auth'[h][p])
  BY <1>0, <1>7, AgesKnown DEF NoNewKeys, Negotiated
<1>8. AuthBeforeSession'
  BY <1>7 DEF KeyInv, AuthBeforeSession, Negotiated
<1>9. KeyAnnounced'
  BY <1>7 DEF KeyInv, KeyAnnounced, Negotiated, NoNewKeys
<1> QED BY <1>3, <1>4, <1>5, <1>6, <1>8, <1>9 DEF KeyInv

\* cleanup() ages every record of the host.
LEMMA CleanupAges ==
    ASSUME TypeOK, NEW h \in Hosts, Cleanup(h), UNCHANGED network
    PROVE  NoNewKeys
<1>1. ASSUME NEW g \in Hosts, NEW p \in Hosts
      PROVE  /\ Ages(g, p)
             /\ his'[g][p] # 0 => his[g][p] # 0 /\ mine'[g][p] = mine[g][p]
  <2>1. CASE g = h
    <3>1. mine'[h][p] = mine[h][p] + 1 /\ his'[h][p] = 0
      BY CleanupEffect
    <3> QED BY <2>1, <3>1 DEF Ages
  <2>2. CASE g # h
    <3>1. mine'[g] = mine[g] /\ his'[g] = his[g] /\ auth'[g] = auth[g]
      BY <2>2, CleanupEffect
    <3> QED BY <3>1 DEF Ages
  <2> QED BY <2>1, <2>2
<1> QED BY <1>1 DEF NoNewKeys, network

\* A handshake ends: at h the record of p gets the key k, or h leaves.
LEMMA ConcludeAges ==
    ASSUME TypeOK, NEW h \in Hosts, NEW p \in Hosts, NEW k,
           Conclude(h, p, k) \/ ConcludeLast(h, p)
    PROVE  \A g, q \in Hosts :
              /\ Ages(g, q)
              /\ his'[g][q] # 0 => /\ mine'[g][q] = mine[g][q]
                                   /\ his[g][q] # 0 \/ (g = h /\ q = p)
              /\ mine'[g][q] = mine[g][q] => auth'[g][q] = auth[g][q]
              /\ Conclude(h, p, k) => his'[h][p] = k
<1> SUFFICES ASSUME NEW g \in Hosts, NEW q \in Hosts
             PROVE  /\ Ages(g, q)
                    /\ his'[g][q] # 0 => /\ mine'[g][q] = mine[g][q]
                                         /\ his[g][q] # 0 \/ (g = h /\ q = p)
                    /\ mine'[g][q] = mine[g][q] => auth'[g][q] = auth[g][q]
                    /\ Conclude(h, p, k) => his'[h][p] = k
  OBVIOUS
<1>1. CASE Conclude(h, p, k)
  <2>1. mine' = mine /\ auth' = auth /\ his' = [his EXCEPT ![h][p] = k]
    BY <1>1 DEF Conclude
  <2>2. his \in [Hosts -> [Hosts -> Nat]]
    BY DEF TypeOK
  <2>3. his'[g][q] = IF g = h /\ q = p THEN k ELSE his[g][q]
    BY <2>1, <2>2
  <2>4. his'[h][p] = k
    BY <2>1, <2>2
  <2> QED BY <2>1, <2>3, <2>4 DEF Ages
<1>2. CASE ~Conclude(h, p, k)
  <2>1. Cleanup(h)
    BY <1>2 DEF ConcludeLast, Leave
  <2>2. CASE g = h
    <3>1. mine'[h][q] = mine[h][q] + 1 /\ his'[h][q] = 0
      BY <2>1, CleanupEffect
    <3>2. mine[h][q] \in Generation
      BY DEF TypeOK
    <3>3. mine[h][q] + 1 # mine[h][q]
      BY <3>2 DEF Generation
    <3> QED BY <1>2, <2>2, <3>1, <3>3 DEF Ages
  <2>3. CASE g # h
    <3>1. mine'[g] = mine[g] /\ his'[g] = his[g] /\ auth'[g] = auth[g]
      BY <2>1, <2>3, CleanupEffect
    <3> QED BY <1>2, <3>1 DEF Ages
  <2> QED BY <2>2, <2>3
<1> QED BY <1>1, <1>2

\* Every step other than those that answer a public key or handle a session key.
LEMMA QuietStep ==
    ASSUME TypeOK, NEW h \in Hosts, HostStep(h),
           ~\E m \in pubkeys : HandlePublicKeyRequest(h, m) \/ HandlePublicKeyReply(h, m),
           ~\E m \in sesskeys : HandleSessionKeyExchange(h, m)
    PROVE  NoNewKeys
<1>0. ASSUME UNCHANGED <<mine, his, auth, network>> PROVE NoNewKeys
  BY <1>0 DEF NoNewKeys, Ages, network
<1>1. CASE Start(h)
  BY <1>0, <1>1 DEF Start, records
<1>2. ASSUME NEW S \in SUBSET Hosts, SendTo(h, S), UNCHANGED <<mine, his, auth, sesskeys>>
      PROVE  NoNewKeys
  <2>1. pubkeys \subseteq pubkeys' /\ \A r \in pubkeys' : r \in pubkeys \/ r.need
    <3>1. PICK c \in [Opening(h, S) -> FreshCookies(h)] :
             pubkeys' = pubkeys \cup
                 {PublicKeyExchange(h, p, TRUE, c[p]) : p \in Opening(h, S)}
      BY <1>2 DEF SendTo
    <3>2. \A p \in Opening(h, S) : PublicKeyExchange(h, p, TRUE, c[p]).need = TRUE
      BY DEF PublicKeyExchange
    <3> QED BY <3>1, <3>2
  <2> QED BY <1>2, <2>1 DEF NoNewKeys, Ages
<1>3. ASSUME NEW S \in SUBSET Hosts, ExitNow(h, S) \/ ExitLater(h, S) PROVE NoNewKeys
  BY <1>2, <1>3, CleanupAges DEF ExitNow, ExitLater, Leave
<1>4. CASE ExitUnjoined(h) \/ JoinFailed(h) \/ Crash(h)
  BY <1>4, CleanupAges DEF ExitUnjoined, JoinFailed, Crash, Leave
<1>5. ASSUME NEW p \in Hosts, SendEncrypted(h, p) PROVE NoNewKeys
  <2>1. SendTo(h, {p}) /\ {p} \in SUBSET Hosts /\ UNCHANGED <<mine, his, auth, sesskeys>>
    BY <1>5 DEF SendEncrypted
  <2> QED BY <1>2, <2>1
<1>6. ASSUME NEW p \in Hosts, NegotiationTimeout(h, p) PROVE NoNewKeys
  <2>1. (Conclude(h, p, his[h][p]) \/ ConcludeLast(h, p)) /\ UNCHANGED network
    BY <1>6 DEF NegotiationTimeout
  <2>2. \A g, q \in Hosts :
           /\ Ages(g, q)
           /\ his'[g][q] # 0 => /\ mine'[g][q] = mine[g][q]
                                /\ his[g][q] # 0 \/ (g = h /\ q = p)
           /\ Conclude(h, p, his[h][p]) => his'[h][p] = his[h][p]
    BY <2>1, ConcludeAges
  <2>3. his'[h][p] # 0 => his[h][p] # 0
    <3>1. CASE Conclude(h, p, his[h][p])
      BY <2>2, <3>1
    <3>2. CASE ConcludeLast(h, p)
      BY <3>2, CleanupEffect DEF ConcludeLast, Leave
    <3> QED BY <2>1, <3>1, <3>2
  <2>4. \A g, q \in Hosts : his'[g][q] # 0 => his[g][q] # 0 /\ mine'[g][q] = mine[g][q]
    BY <2>2, <2>3
  <2> QED BY <2>1, <2>2, <2>4 DEF NoNewKeys, network
<1>7. ASSUME NEW p \in Hosts, HandleMalformedKey(h, p) PROVE NoNewKeys
  BY <1>0, <1>7 DEF HandleMalformedKey
<1>8. ASSUME NEW p \in Hosts, NEW recycled \in BOOLEAN, Forget(h, p, recycled)
      PROVE  NoNewKeys
  <2>1. /\ mine' = [mine EXCEPT ![h][p] = @ + 1] /\ his' = [his EXCEPT ![h][p] = 0]
        /\ auth' = [auth EXCEPT ![h][p] = FALSE] /\ UNCHANGED network
    BY <1>8 DEF Forget
  <2>2. /\ mine \in [Hosts -> [Hosts -> Generation]] /\ his \in [Hosts -> [Hosts -> Nat]]
        /\ auth \in [Hosts -> [Hosts -> BOOLEAN]]
    BY DEF TypeOK
  <2>3. \A g, q \in Hosts :
           /\ mine'[g][q] = IF g = h /\ q = p THEN mine[h][p] + 1 ELSE mine[g][q]
           /\ his'[g][q] = IF g = h /\ q = p THEN 0 ELSE his[g][q]
           /\ auth'[g][q] = IF g = h /\ q = p THEN FALSE ELSE auth[g][q]
    BY <2>1, <2>2
  <2>4. \A g, q \in Hosts : his'[g][q] # 0 => his[g][q] # 0 /\ mine'[g][q] = mine[g][q]
    BY <2>3
  <2>5. \A g, q \in Hosts : Ages(g, q)
    BY <2>3 DEF Ages
  <2> QED BY <2>1, <2>4, <2>5 DEF NoNewKeys, network
<1> QED BY <1>1, <1>3, <1>4, <1>5, <1>6, <1>7, <1>8 DEF HostStep, HandleDatagram

\* A public key is stored: nothing but auth changes in the records.
LEMMA StoreKey ==
    ASSUME TypeOK, NEW h \in Hosts, NEW p \in Hosts, auth' = [auth EXCEPT ![h][p] = TRUE],
           UNCHANGED <<mine, his>>
    PROVE  /\ \A g, q \in Hosts : Ages(g, q) /\ (Known(g, q) => Known(g, q)')
           /\ \A g, q \in Hosts : Negotiated(g, q)' = Negotiated(g, q)
           /\ \A g, q \in Hosts : auth[g][q] => auth'[g][q]
           /\ Known(h, p)'
<1>1. auth \in [Hosts -> [Hosts -> BOOLEAN]]
  BY DEF TypeOK
<1>2. auth'[h][p] = TRUE /\ \A g, q \in Hosts : auth[g][q] => auth'[g][q]
  BY <1>1
<1> QED BY <1>2 DEF Ages, Known, Negotiated

\* An answer is sent by a host that has just stored the other key.
LEMMA RequestKeeps ==
    ASSUME KeyInv, TypeOK', NEW h \in Hosts, NEW m \in pubkeys, HandlePublicKeyRequest(h, m)
    PROVE  KeyInv'
<1>0. TypeOK /\ m.from \in Hosts
  BY DatagramEnds DEF KeyInv
<1>1. /\ auth' = [auth EXCEPT ![h][m.from] = TRUE] /\ UNCHANGED <<mine, his, sesskeys>>
      /\ pubkeys' = pubkeys \cup {PublicKeyExchange(h, m.from, FALSE, m.cookie)}
  BY DEF HandlePublicKeyRequest
<1>2. /\ \A g, q \in Hosts : Ages(g, q) /\ (Known(g, q) => Known(g, q)')
      /\ \A g, q \in Hosts : Negotiated(g, q)' = Negotiated(g, q)
      /\ \A g, q \in Hosts : auth[g][q] => auth'[g][q]
      /\ Known(h, m.from)'
  BY <1>0, <1>1, StoreKey
<1>3. RepliesKnown'
  <2> SUFFICES ASSUME NEW r \in pubkeys', ~r.need PROVE Known(r.from, r.to)'
    BY DEF RepliesKnown
  <2>1. CASE r \in pubkeys
    <3>1. Known(r.from, r.to) /\ r.from \in Hosts /\ r.to \in Hosts
      BY <1>0, <2>1, DatagramEnds DEF KeyInv, RepliesKnown
    <3> QED BY <1>2, <3>1
  <2>2. CASE r \notin pubkeys
    <3>1. r.from = h /\ r.to = m.from
      BY <1>1, <2>2 DEF PublicKeyExchange
    <3> QED BY <1>2, <3>1
  <2> QED BY <2>1, <2>2
<1>4. RequestsBacked'
  <2> SUFFICES ASSUME NEW k \in sesskeys, k.need
               PROVE  /\ Known(k.from, k.to)'
                      /\ \E r \in pubkeys' : ~r.need /\ r.from = k.to /\ r.to = k.from
    BY <1>1 DEF RequestsBacked
  <2>1. /\ Known(k.from, k.to) /\ k.from \in Hosts /\ k.to \in Hosts
        /\ \E r \in pubkeys : ~r.need /\ r.from = k.to /\ r.to = k.from
    BY <1>0, DatagramEnds DEF KeyInv, RequestsBacked
  <2> QED BY <1>1, <1>2, <2>1
<1>5. AnswersAsked' /\ KeysCurrent'
  BY <1>1 DEF KeyInv, AnswersAsked, KeysCurrent
<1>6. AuthBeforeSession' /\ KeyAnnounced'
  BY <1>1, <1>2 DEF KeyInv, AuthBeforeSession, KeyAnnounced
<1> QED BY <1>3, <1>4, <1>5, <1>6 DEF KeyInv

\* A request for the session key goes out on a reply, with this host's own key.
LEMMA ReplyKeeps ==
    ASSUME KeyInv, TypeOK', NEW h \in Hosts, NEW m \in pubkeys, HandlePublicKeyReply(h, m)
    PROVE  KeyInv'
<1> DEFINE new == SessionKeyExchange(h, m.from, TRUE)
<1>0. TypeOK /\ m.from \in Hosts
  BY DatagramEnds DEF KeyInv
<1>1. /\ auth' = [auth EXCEPT ![h][m.from] = TRUE] /\ UNCHANGED <<mine, his, pubkeys>>
      /\ sesskeys' = sesskeys \cup {new} /\ m.to = h /\ ~m.need
  BY DEF HandlePublicKeyReply
<1>2. /\ \A g, q \in Hosts : Ages(g, q) /\ (Known(g, q) => Known(g, q)')
      /\ \A g, q \in Hosts : Negotiated(g, q)' = Negotiated(g, q)
      /\ \A g, q \in Hosts : auth[g][q] => auth'[g][q]
      /\ Known(h, m.from)'
  BY <1>0, <1>1, StoreKey
<1>3. new.from = h /\ new.to = m.from /\ new.need = TRUE /\ new.key = mine[h][m.from]
  BY DEF SessionKeyExchange
<1> HIDE DEF new
<1>4. RepliesKnown'
  <2> SUFFICES ASSUME NEW r \in pubkeys, ~r.need PROVE Known(r.from, r.to)'
    BY <1>1 DEF RepliesKnown
  <2>1. Known(r.from, r.to) /\ r.from \in Hosts /\ r.to \in Hosts
    BY <1>0, DatagramEnds DEF KeyInv, RepliesKnown
  <2> QED BY <1>2, <2>1
<1>5. RequestsBacked'
  <2> SUFFICES ASSUME NEW k \in sesskeys', k.need
               PROVE  /\ Known(k.from, k.to)'
                      /\ \E r \in pubkeys : ~r.need /\ r.from = k.to /\ r.to = k.from
    BY <1>1 DEF RequestsBacked
  <2>1. CASE k \in sesskeys
    <3>1. /\ Known(k.from, k.to) /\ k.from \in Hosts /\ k.to \in Hosts
          /\ \E r \in pubkeys : ~r.need /\ r.from = k.to /\ r.to = k.from
      BY <1>0, <2>1, DatagramEnds DEF KeyInv, RequestsBacked
    <3> QED BY <1>2, <3>1
  <2>2. CASE k = new
    BY <1>1, <1>2, <1>3, <2>2
  <2> QED BY <1>1, <2>1, <2>2
<1>6. AnswersAsked'
  <2> SUFFICES ASSUME NEW k \in sesskeys', ~k.need
               PROVE  \E q \in sesskeys' : q.need /\ q.from = k.to /\ q.to = k.from
    BY DEF AnswersAsked
  <2>1. k \in sesskeys
    BY <1>1, <1>3
  <2> QED BY <1>1, <2>1 DEF KeyInv, AnswersAsked
<1>7. KeysCurrent'
  <2>1. new.key <= mine[h][m.from]
    <3>1. mine[h][m.from] \in Generation
      BY <1>0 DEF TypeOK
    <3> QED BY <1>3, <3>1 DEF Generation
  <2> QED BY <1>1, <1>3, <2>1 DEF KeyInv, KeysCurrent
<1>8. AuthBeforeSession' /\ KeyAnnounced'
  BY <1>1, <1>2 DEF KeyInv, AuthBeforeSession, KeyAnnounced
<1> QED BY <1>4, <1>5, <1>6, <1>7, <1>8 DEF KeyInv

\* A session begins: by the datagram that brought the key, h has the public key of the
\* peer, and its own key was sent before or goes out now.
LEMMA ExchangeKeeps ==
    ASSUME KeyInv, TypeOK', NEW h \in Hosts, NEW m \in sesskeys,
           HandleSessionKeyExchange(h, m)
    PROVE  KeyInv'
<1> DEFINE p == m.from
           new == SessionKeyExchange(h, p, FALSE)
<1>0. TypeOK /\ p \in Hosts /\ m.to = h
  BY DatagramEnds DEF KeyInv, HandleSessionKeyExchange
<1>1. /\ Conclude(h, p, m.key) \/ ConcludeLast(h, p)
      /\ sesskeys' = IF m.need THEN sesskeys \cup {new} ELSE sesskeys
      /\ pubkeys' = pubkeys
  BY DEF HandleSessionKeyExchange
<1>2. new.from = h /\ new.to = p /\ new.need = FALSE /\ new.key = mine[h][p]
  BY DEF SessionKeyExchange
<1> HIDE DEF new, p
<1>3. \A g, q \in Hosts :
         /\ Ages(g, q)
         /\ his'[g][q] # 0 => /\ mine'[g][q] = mine[g][q]
                              /\ his[g][q] # 0 \/ (g = h /\ q = p)
         /\ mine'[g][q] = mine[g][q] => auth'[g][q] = auth[g][q]
  BY <1>0, <1>1, ConcludeAges
<1>4. \A g, q \in Hosts : /\ Known(g, q) => Known(g, q)'
                          /\ mine[g][q] <= mine'[g][q]
  BY <1>0, <1>3, AgesKnown
<1>5. \A k \in sesskeys : k \in sesskeys'
  BY <1>1
<1>6. RepliesKnown'
  <2> SUFFICES ASSUME NEW r \in pubkeys, ~r.need PROVE Known(r.from, r.to)'
    BY <1>1 DEF RepliesKnown
  <2>1. Known(r.from, r.to) /\ r.from \in Hosts /\ r.to \in Hosts
    BY <1>0, DatagramEnds DEF KeyInv, RepliesKnown
  <2> QED BY <1>4, <2>1
<1>7. RequestsBacked'
  <2> SUFFICES ASSUME NEW k \in sesskeys', k.need
               PROVE  /\ Known(k.from, k.to)'
                      /\ \E r \in pubkeys : ~r.need /\ r.from = k.to /\ r.to = k.from
    BY <1>1 DEF RequestsBacked
  <2>1. k \in sesskeys
    BY <1>1, <1>2
  <2>2. /\ Known(k.from, k.to) /\ k.from \in Hosts /\ k.to \in Hosts
        /\ \E r \in pubkeys : ~r.need /\ r.from = k.to /\ r.to = k.from
    BY <1>0, <2>1, DatagramEnds DEF KeyInv, RequestsBacked
  <2> QED BY <1>4, <2>2
<1>8. AnswersAsked'
  <2> SUFFICES ASSUME NEW k \in sesskeys', ~k.need
               PROVE  \E q \in sesskeys' : q.need /\ q.from = k.to /\ q.to = k.from
    BY DEF AnswersAsked
  <2>1. CASE k \in sesskeys
    BY <1>5, <2>1 DEF KeyInv, AnswersAsked
  <2>2. CASE k \notin sesskeys
    <3>1. k = new /\ m.need
      BY <1>1, <2>2
    <3> QED BY <1>0, <1>2, <1>5, <3>1 DEF p
  <2> QED BY <2>1, <2>2
<1>9. KeysCurrent'
  <2> SUFFICES ASSUME NEW k \in sesskeys' PROVE k.key <= mine'[k.from][k.to]
    BY DEF KeysCurrent
  <2>1. k.from \in Hosts /\ k.to \in Hosts /\ k.key \in Nat /\ k.key <= mine[k.from][k.to]
    <3>1. CASE k \in sesskeys
      BY <1>0, <3>1, DatagramEnds DEF KeyInv, KeysCurrent
    <3>2. CASE k = new
      <4>1. mine[h][p] \in Generation
        BY <1>0 DEF TypeOK
      <4>2. mine[h][p] \in Nat /\ mine[h][p] <= mine[h][p]
        BY <4>1 DEF Generation
      <4> QED BY <1>0, <1>2, <3>2, <4>2
    <3> QED BY <1>1, <3>1, <3>2
  <2>2. mine[k.from][k.to] \in Nat /\ mine'[k.from][k.to] \in Nat
    <3>1. mine \in [Hosts -> [Hosts -> Generation]] /\ mine' \in [Hosts -> [Hosts -> Generation]]
      BY <1>0 DEF TypeOK
    <3>2. mine[k.from][k.to] \in Generation /\ mine'[k.from][k.to] \in Generation
      BY <2>1, <3>1
    <3> QED BY <3>2 DEF Generation
  <2> QED BY <1>4, <2>1, <2>2
<1>10. ASSUME mine[h][p] = 1
       PROVE  /\ auth[h][p]
              /\ \E k \in sesskeys' : k.from = h /\ k.to = p /\ k.key = 1
  <2>1. CASE m.need
    <3>1. \E r \in pubkeys : ~r.need /\ r.from = h /\ r.to = p
      BY <1>0, <2>1 DEF KeyInv, RequestsBacked, p
    <3>2. Known(h, p)
      BY <3>1 DEF KeyInv, RepliesKnown
    <3>3. new \in sesskeys'
      BY <1>1, <2>1
    <3> QED BY <1>2, <1>10, <3>2, <3>3 DEF Known
  <2>2. CASE ~m.need
    <3>1. PICK q \in sesskeys : q.need /\ q.from = h /\ q.to = p
      BY <1>0, <2>2 DEF KeyInv, AnswersAsked, p
    <3>2. Known(h, p)
      BY <3>1 DEF KeyInv, RequestsBacked
    <3>3. q.key <= 1
      BY <1>10, <3>1 DEF KeyInv, KeysCurrent
    <3>4. q.key = 1
      BY <1>0, <3>1, <3>3, DatagramEnds
    <3> QED BY <1>5, <1>10, <3>1, <3>2, <3>4 DEF Known
  <2> QED BY <2>1, <2>2
<1>11. ASSUME NEW g \in Hosts, NEW q \in Hosts, Negotiated(g, q)', mine'[g][q] = 1
       PROVE  /\ auth'[g][q]
              /\ \E k \in sesskeys' : k.from = g /\ k.to = q /\ k.key = 1
  <2>1. /\ mine[g][q] = 1 /\ auth'[g][q] = auth[g][q]
        /\ his[g][q] # 0 \/ (g = h /\ q = p)
    BY <1>3, <1>11 DEF Negotiated
  <2>2. CASE his[g][q] # 0
    BY <1>5, <2>1, <2>2 DEF KeyInv, AuthBeforeSession, KeyAnnounced, Negotiated
  <2>3. CASE g = h /\ q = p
    BY <1>10, <2>1, <2>3
  <2> QED BY <2>1, <2>2, <2>3
<1>12. AuthBeforeSession' /\ KeyAnnounced'
  BY <1>11 DEF AuthBeforeSession, KeyAnnounced
<1> QED BY <1>6, <1>7, <1>8, <1>9, <1>12 DEF KeyInv

LEMMA KeyInit == Init => KeyInv
<1> SUFFICES ASSUME Init PROVE KeyInv
  OBVIOUS
<1>1. RepliesKnown /\ RequestsBacked /\ AnswersAsked /\ KeysCurrent
  BY DEF Init, RepliesKnown, RequestsBacked, AnswersAsked, KeysCurrent
<1>2. \A h, p \in Hosts : ~Negotiated(h, p)
  BY DEF Init, Negotiated
<1> QED BY <1>1, <1>2, TypeInit DEF KeyInv, AuthBeforeSession, KeyAnnounced

LEMMA KeyNext == KeyInv /\ [Next]_vars => KeyInv'
<1> SUFFICES ASSUME KeyInv, [Next]_vars PROVE KeyInv'
  OBVIOUS
<1>1. TypeOK /\ TypeOK'
  BY TypeNext DEF KeyInv
<1>2. CASE UNCHANGED vars
  BY <1>1, <1>2, NoNewKeysKeeps DEF vars, records, network, NoNewKeys, Ages
<1>3. ASSUME NEW h \in Hosts, HostStep(h) PROVE KeyInv'
  <2>1. ASSUME NEW m \in pubkeys, HandlePublicKeyRequest(h, m) PROVE KeyInv'
    BY <1>1, <2>1, RequestKeeps
  <2>2. ASSUME NEW m \in pubkeys, HandlePublicKeyReply(h, m) PROVE KeyInv'
    BY <1>1, <2>2, ReplyKeeps
  <2>3. ASSUME NEW m \in sesskeys, HandleSessionKeyExchange(h, m) PROVE KeyInv'
    BY <1>1, <2>3, ExchangeKeeps
  <2>4. CASE NoNewKeys
    BY <1>1, <2>4, NoNewKeysKeeps
  <2> QED BY <1>1, <1>3, <2>1, <2>2, <2>3, <2>4, QuietStep
<1>4. CASE Next
  BY <1>3, <1>4 DEF Next, HostStep
<1> QED BY <1>2, <1>4

\* A host with a session has the peer's public key, in a record that was never deleted:
\* handlers reach handleSessionKeyExchange only after an exchange of public keys, in
\* whichever order datagrams are repeated, delayed or lost.
THEOREM AuthBeforeSessionAlways == Spec => []AuthBeforeSession
<1>1. KeyInv => AuthBeforeSession
  BY DEF KeyInv
<1> QED BY <1>1, KeyInit, KeyNext, PTL DEF Spec

\* A host that may encrypt has sent the key it encrypts with, in a record that was never
\* deleted: a key sent back answers a request that carried this host's own.
THEOREM KeyAnnouncedAlways == Spec => []KeyAnnounced
<1>1. KeyInv => KeyAnnounced
  BY DEF KeyInv
<1> QED BY <1>1, KeyInit, KeyNext, PTL DEF Spec

=============================================================================
