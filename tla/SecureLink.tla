----------------------------- MODULE SecureLink -----------------------------
(***************************************************************************)
(* Key negotiation and the encrypted packet path of Sparkle's link layer   *)
(* (libsparkle/LinkLayer.cpp, libsparkle/SparkleNode.cpp).                  *)
(*                                                                         *)
(* A host keeps one SparkleNode record per peer.  A packet sent through a  *)
(* record without a session waits in the record's queue while a four-      *)
(* message handshake runs: public key request, public key reply (matched   *)
(* by a cookie), session key with a request for the other one, session key *)
(* reply.  A five second timer flushes the queue of a handshake that fails. *)
(* A host that leaves the network waits for the handshakes under way.      *)
(*                                                                         *)
(* Datagrams travel over UDP: a datagram once sent stays available, so it  *)
(* may arrive late, several times, out of order or never.                  *)
(*                                                                         *)
(* Every link here has a master at one end at least; the detour taken by   *)
(* two slaves (BacklinkRedirect) is outside this module.                   *)
(***************************************************************************)
EXTENDS Naturals, Sequences

CONSTANTS
    Hosts,        \* endpoints that run the link layer
    Cookies,      \* values qrand() can give a handshake
    MaxPackets,   \* bound: MaxPackets[h] packets of h per peer
    MaxRecords,   \* bound: h deletes a record while it runs, and starts again, only up
                  \* to its MaxRecords[h]-th record of a peer
    Reuse         \* hosts whose process outlives a session (sippy); the others quit
                  \* on leavedNetwork (sparkgap)

ASSUME ConstantsAssumption ==
    /\ MaxPackets \in [Hosts -> Nat]
    /\ MaxRecords \in [Hosts -> Nat \ {0}]
    /\ Reuse \subseteq Hosts

VARIABLES
    up,         \* up[h]: the UDP socket of h is bound
    mine,       \* mine[h][p]: incarnation of h's record for p; it names mySessionKey,
                \* generated once per record
    his,        \* his[h][p]: incarnation named by hisSessionKey, 0 before keysNegotiated
    auth,       \* auth[h][p]: authKeyPresent
    queue,      \* queue[h][p]: packets held until the session is negotiated
    timer,      \* timer[h][p]: negotiationTimer is running
    awaiting,   \* awaiting[h]: awaitingNegotiation, a list of records
    cookies,    \* cookies[h]: the hash from cookies to records
    preparing,  \* preparing[h]: preparingForShutdown
    accepted,   \* accepted[h][p]: packets given to sendEncryptedPacket so far; the
                \* n-th one is called n
    emitted,    \* emitted[h][p]: packets encrypted and handed to the socket, in order
    pubkeys,    \* PublicKeyExchange datagrams sent
    sesskeys    \* SessionKeyExchange datagrams sent

records == <<mine, his, auth, queue, timer, awaiting, cookies>>
traffic == <<accepted, emitted>>
network == <<pubkeys, sesskeys>>
vars == <<up, records, preparing, traffic, network>>

-----------------------------------------------------------------------------
\* A pointer to h's present record for p, as the lists of h keep it.
Record(h, p) == [peer |-> p, gen |-> mine[h][p]]

PublicKeyExchange(h, p, need, c) ==
    [from |-> h, to |-> p, need |-> need, cookie |-> c]

\* Mutant: the key is sent before it was generated.
SessionKeyExchangeUnset(h, p, need) ==
    [from |-> h, to |-> p, need |-> need, key |-> 0]

SessionKeyExchange(h, p, need) ==
    [from |-> h, to |-> p, need |-> need, key |-> mine[h][p]]

\* Cookies that h has not yet put in a request.  qrand() is taken not to repeat.
FreshCookies(h) ==
    {c \in Cookies : \A m \in pubkeys : m.from = h /\ m.need => m.cookie # c}

\* Mutant: the public key is taken for the session.
NegotiatedByAuth(h, p) == auth[h][p]

Negotiated(h, p) == his[h][p] # 0

\* Peers in S with which sendEncryptedPacket opens a handshake.
Opening(h, S) ==
    {p \in S : ~Negotiated(h, p) /\ Record(h, p) \notin awaiting[h]}

-----------------------------------------------------------------------------
Init ==
    /\ up = [h \in Hosts |-> FALSE]
    /\ mine = [h \in Hosts |-> [p \in Hosts |-> 1]]
    /\ his = [h \in Hosts |-> [p \in Hosts |-> 0]]
    /\ auth = [h \in Hosts |-> [p \in Hosts |-> FALSE]]
    /\ queue = [h \in Hosts |-> [p \in Hosts |-> <<>>]]
    /\ timer = [h \in Hosts |-> [p \in Hosts |-> FALSE]]
    /\ awaiting = [h \in Hosts |-> {}]
    /\ cookies = [h \in Hosts |-> {}]
    /\ preparing = [h \in Hosts |-> FALSE]
    /\ accepted = [h \in Hosts |-> [p \in Hosts |-> 0]]
    /\ emitted = [h \in Hosts |-> [p \in Hosts |-> <<>>]]
    /\ pubkeys = {}
    /\ sesskeys = {}

\* The whole of cleanup(): every record is deleted, both tables are emptied.
\* preparingForShutdown is not touched.
Cleanup(h) ==
    /\ mine' = [mine EXCEPT ![h] = [p \in Hosts |-> mine[h][p] + 1]]
    /\ his' = [his EXCEPT ![h] = [p \in Hosts |-> 0]]
    /\ auth' = [auth EXCEPT ![h] = [p \in Hosts |-> FALSE]]
    /\ queue' = [queue EXCEPT ![h] = [p \in Hosts |-> <<>>]]
    /\ timer' = [timer EXCEPT ![h] = [p \in Hosts |-> FALSE]]
    /\ awaiting' = [awaiting EXCEPT ![h] = {}]
    /\ cookies' = [cookies EXCEPT ![h] = {}]

\* cleanup() followed by leavedNetwork(), which closes the socket.  The flag
\* survives in a process that goes on to its next session.
Leave(h) ==
    /\ Cleanup(h)
    /\ up' = [up EXCEPT ![h] = FALSE]
    /\ preparing' = [preparing EXCEPT ![h] = preparing[h] /\ h \in Reuse]

\* sendEncryptedPacket for one packet to each peer in S: encrypted at once when
\* there is a session, queued otherwise; the first one to queue starts the
\* timer and sends the public key request.
SendTo(h, S) ==
    /\ \A p \in S : accepted[h][p] < MaxPackets[h]
    /\ accepted' = [accepted EXCEPT ![h] =
           [p \in Hosts |-> IF p \in S THEN accepted[h][p] + 1 ELSE accepted[h][p]]]
    /\ emitted' = [emitted EXCEPT ![h] =
           [p \in Hosts |-> IF p \in S /\ Negotiated(h, p)
                            THEN Append(emitted[h][p], accepted[h][p] + 1)
                            ELSE emitted[h][p]]]
    /\ queue' = [queue EXCEPT ![h] =
           [p \in Hosts |-> IF p \in S /\ ~Negotiated(h, p)
                            THEN Append(queue[h][p], accepted[h][p] + 1)
                            ELSE queue[h][p]]]
    /\ timer' = [timer EXCEPT ![h] =
           [p \in Hosts |-> p \in Opening(h, S) \/ timer[h][p]]]
    /\ awaiting' = [awaiting EXCEPT ![h] =
           @ \cup {Record(h, p) : p \in Opening(h, S)}]
    /\ \E c \in [Opening(h, S) -> FreshCookies(h)] :
          /\ \A p, q \in Opening(h, S) : c[p] = c[q] => p = q
          /\ cookies' = [cookies EXCEPT ![h] =
                 @ \cup {[cookie |-> c[p], peer |-> p, gen |-> mine[h][p]] :
                           p \in Opening(h, S)}]
          /\ pubkeys' = pubkeys \cup
                 {PublicKeyExchange(h, p, TRUE, c[p]) : p \in Opening(h, S)}

-----------------------------------------------------------------------------
(* The steps of a host.  Each one is a handler run to its end by the event  *)
(* loop of a single thread.                                                 *)

\* The socket is bound: joinNetwork or createNetwork of a new session.
Start(h) ==
    /\ ~up[h]
    /\ \A p \in Hosts : mine[h][p] <= MaxRecords[h]
    /\ up' = [up EXCEPT ![h] = TRUE]
    /\ UNCHANGED <<records, preparing, traffic, network>>

SendEncrypted(h, p) ==
    /\ up[h]
    /\ p # h
    /\ SendTo(h, {p})
    /\ UNCHANGED <<up, mine, his, auth, preparing, sesskeys>>

\* Mutant: the key in a request is not stored.
HandlePublicKeyRequestForgets(h, m) ==
    /\ up[h] /\ m.to = h /\ m.need
    /\ pubkeys' = pubkeys \cup {PublicKeyExchange(h, m.from, FALSE, m.cookie)}
    /\ UNCHANGED <<up, records, preparing, traffic, sesskeys>>

\* handlePublicKeyExchange of a request: remember the key, send ours back.
HandlePublicKeyRequest(h, m) ==
    /\ up[h] /\ m.to = h /\ m.need
    /\ auth' = [auth EXCEPT ![h][m.from] = TRUE]
    /\ pubkeys' = pubkeys \cup {PublicKeyExchange(h, m.from, FALSE, m.cookie)}
    /\ UNCHANGED <<up, mine, his, queue, timer, awaiting, cookies, preparing,
                   traffic, sesskeys>>

\* handlePublicKeyExchange of a reply to a cookie of ours, consumed here; a
\* reply with any other cookie is dropped.  The record found under the cookie is
\* compared with the sender's by address: without NAT they agree.
HandlePublicKeyReply(h, m) ==
    /\ up[h] /\ m.to = h /\ ~m.need
    /\ \E e \in cookies[h] :
          /\ e.cookie = m.cookie
          /\ cookies' = [cookies EXCEPT ![h] = @ \ {e}]
    /\ auth' = [auth EXCEPT ![h][m.from] = TRUE]
    /\ sesskeys' = sesskeys \cup {SessionKeyExchange(h, m.from, TRUE)}
    /\ UNCHANGED <<up, mine, his, queue, timer, awaiting, preparing, traffic, pubkeys>>

\* Mutant: negotiationFinished() is called for the refused key.
HandleMalformedKeyStopsTimer(h, p) ==
    /\ up[h] /\ p # h
    /\ awaiting' = [awaiting EXCEPT ![h] = @ \ {Record(h, p)}]
    /\ timer' = [timer EXCEPT ![h][p] = FALSE]
    /\ UNCHANGED <<up, mine, his, auth, queue, cookies, preparing, traffic, network>>

\* handlePublicKeyExchange of a request whose key setAuthKey refuses: the peer
\* leaves the list, its timer goes on running and its queue stays.
HandleMalformedKey(h, p) ==
    /\ up[h] /\ p # h
    /\ awaiting' = [awaiting EXCEPT ![h] = @ \ {Record(h, p)}]
    /\ UNCHANGED <<up, mine, his, auth, queue, timer, cookies, preparing,
                   traffic, network>>

\* The other handshakes of h, those that a shutdown has yet to wait for.
Others(h, p) == awaiting[h] \ {Record(h, p)}

\* Mutant: negotiationFinished() is not called.
ConcludeLeavesTimer(h, p, k) ==
    /\ Others(h, p) # {} \/ ~preparing[h]
    /\ his' = [his EXCEPT ![h][p] = k]
    /\ awaiting' = [awaiting EXCEPT ![h] = Others(h, p)]
    /\ queue' = [queue EXCEPT ![h][p] = <<>>]
    /\ UNCHANGED <<up, mine, auth, timer, cookies, preparing>>

\* Mutant: the queue is read and not emptied.
ConcludeKeepsQueue(h, p, k) ==
    /\ Others(h, p) # {} \/ ~preparing[h]
    /\ his' = [his EXCEPT ![h][p] = k]
    /\ timer' = [timer EXCEPT ![h][p] = FALSE]
    /\ awaiting' = [awaiting EXCEPT ![h] = Others(h, p)]
    /\ UNCHANGED <<up, mine, auth, queue, cookies, preparing>>

\* Mutant: the last handshake does not end the shutdown.
ConcludeAlways(h, p, k) ==
    /\ his' = [his EXCEPT ![h][p] = k]
    /\ timer' = [timer EXCEPT ![h][p] = FALSE]
    /\ awaiting' = [awaiting EXCEPT ![h] = Others(h, p)]
    /\ queue' = [queue EXCEPT ![h][p] = <<>>]
    /\ UNCHANGED <<up, mine, auth, cookies, preparing>>

\* The handshake with p is over and h stays: the timer stops, the record leaves the
\* list, nothing is queued.  k is the peer's session key afterwards.
Conclude(h, p, k) ==
    /\ Others(h, p) # {} \/ ~preparing[h]
    /\ his' = [his EXCEPT ![h][p] = k]
    /\ timer' = [timer EXCEPT ![h][p] = FALSE]
    /\ awaiting' = [awaiting EXCEPT ![h] = Others(h, p)]
    /\ queue' = [queue EXCEPT ![h][p] = <<>>]
    /\ UNCHANGED <<up, mine, auth, cookies, preparing>>

\* The handshake with p is over and was the last one a shutdown waited for.
ConcludeLast(h, p) == Others(h, p) = {} /\ preparing[h] /\ Leave(h)

\* Mutant: the request for our key is not answered.
HandleSessionKeyExchangeSilent(h, m) ==
    /\ up[h] /\ m.to = h
    /\ emitted' = [emitted EXCEPT ![h][m.from] = emitted[h][m.from] \o queue[h][m.from]]
    /\ Conclude(h, m.from, m.key) \/ ConcludeLast(h, m.from)
    /\ UNCHANGED <<accepted, network>>

\* handleSessionKeyExchange: store the key, answer with ours if asked to, encrypt
\* and send what is queued.
HandleSessionKeyExchange(h, m) ==
    /\ up[h] /\ m.to = h
    /\ sesskeys' = IF m.need THEN sesskeys \cup {SessionKeyExchange(h, m.from, FALSE)}
                             ELSE sesskeys
    /\ emitted' = [emitted EXCEPT ![h][m.from] = emitted[h][m.from] \o queue[h][m.from]]
    /\ Conclude(h, m.from, m.key) \/ ConcludeLast(h, m.from)
    /\ UNCHANGED <<accepted, pubkeys>>

\* negotiationTimeout: the queue is flushed.
NegotiationTimeout(h, p) ==
    /\ up[h] /\ timer[h][p]
    /\ Conclude(h, p, his[h][p]) \/ ConcludeLast(h, p)
    /\ UNCHANGED <<traffic, network>>

\* exitNetwork of a joined host whose farewells can be sent at once.  They go to
\* the peers in S: one master, or what reincarnateSomeone sends to the peers of
\* the last master, or none.
ExitNow(h, S) ==
    /\ up[h] /\ h \notin S
    /\ Opening(h, S) = {} /\ awaiting[h] = {}
    /\ \A p \in S : accepted[h][p] < MaxPackets[h]
    /\ accepted' = [accepted EXCEPT ![h] =
           [p \in Hosts |-> IF p \in S THEN accepted[h][p] + 1 ELSE accepted[h][p]]]
    /\ emitted' = [emitted EXCEPT ![h] =
           [p \in Hosts |-> IF p \in S THEN Append(emitted[h][p], accepted[h][p] + 1)
                                       ELSE emitted[h][p]]]
    /\ Leave(h)
    /\ UNCHANGED network

\* exitNetwork of a joined host that must first finish a handshake.
ExitLater(h, S) ==
    /\ up[h] /\ h \notin S
    /\ Opening(h, S) # {} \/ awaiting[h] # {}
    /\ SendTo(h, S)
    /\ preparing' = [preparing EXCEPT ![h] = TRUE]
    /\ UNCHANGED <<up, mine, his, auth, sesskeys>>

\* exitNetwork of a host that has not finished joining.
ExitUnjoined(h) ==
    /\ up[h]
    /\ Leave(h)
    /\ UNCHANGED <<traffic, network>>

\* A join attempt fails: cleanup() and joinFailed(), which does not close the
\* socket.  sparkgap answers joinFailed with exitNetwork, that is ExitUnjoined.
JoinFailed(h) ==
    /\ up[h] /\ h \in Reuse
    /\ \A p \in Hosts : mine[h][p] < MaxRecords[h]
    /\ Cleanup(h)
    /\ UNCHANGED <<up, preparing, traffic, network>>

\* handleRouteInvalidate and handleExitNotification delete the record of p and
\* leave the pointers to it in awaitingNegotiation and in cookies.  The next
\* record of p may be allocated where the deleted one was (recycled), and is then
\* taken for a member of the list.
Forget(h, p, recycled) ==
    /\ up[h] /\ p # h
    /\ mine[h][p] < MaxRecords[h]
    /\ recycled => Record(h, p) \in awaiting[h]
    /\ mine' = [mine EXCEPT ![h][p] = @ + 1]
    /\ his' = [his EXCEPT ![h][p] = 0]
    /\ auth' = [auth EXCEPT ![h][p] = FALSE]
    /\ queue' = [queue EXCEPT ![h][p] = <<>>]
    /\ timer' = [timer EXCEPT ![h][p] = FALSE]
    /\ awaiting' = IF recycled
                   THEN [awaiting EXCEPT ![h] =
                            Others(h, p) \cup {[peer |-> p, gen |-> mine[h][p] + 1]}]
                   ELSE awaiting
    /\ UNCHANGED <<up, cookies, preparing, traffic, network>>

\* The process dies; a later Start is a new process.
Crash(h) ==
    /\ up[h]
    /\ Cleanup(h)
    /\ up' = [up EXCEPT ![h] = FALSE]
    /\ preparing' = [preparing EXCEPT ![h] = FALSE]
    /\ UNCHANGED <<traffic, network>>

HandleDatagram(h) ==
    \/ \E m \in pubkeys : HandlePublicKeyRequest(h, m) \/ HandlePublicKeyReply(h, m)
    \/ \E m \in sesskeys : HandleSessionKeyExchange(h, m)

Next ==
    \E h \in Hosts :
        \/ Start(h)
        \/ HandleDatagram(h)
        \/ \E S \in SUBSET Hosts : ExitNow(h, S) \/ ExitLater(h, S)
        \/ ExitUnjoined(h) \/ JoinFailed(h) \/ Crash(h)
        \/ \E p \in Hosts :
              \/ SendEncrypted(h, p)
              \/ NegotiationTimeout(h, p)
              \/ HandleMalformedKey(h, p)
              \/ \E recycled \in BOOLEAN : Forget(h, p, recycled)

\* A started QTimer fires unless it is stopped or destroyed first.
Fairness == \A h, p \in Hosts : WF_vars(NegotiationTimeout(h, p))

Spec == Init /\ [][Next]_vars

FairSpec == Spec /\ Fairness

-----------------------------------------------------------------------------
(* Properties. *)

Generation == Nat \ {0}
RecordPointer == [peer : Hosts, gen : Generation]
CookieEntry == [cookie : Cookies, peer : Hosts, gen : Generation]
PublicKeyDatagram == [from : Hosts, to : Hosts, need : BOOLEAN, cookie : Cookies]
SessionKeyDatagram == [from : Hosts, to : Hosts, need : BOOLEAN, key : Generation]

\* Types of the variables.
TypeOK ==
    /\ up \in [Hosts -> BOOLEAN]
    /\ mine \in [Hosts -> [Hosts -> Generation]]
    /\ his \in [Hosts -> [Hosts -> Nat]]
    /\ auth \in [Hosts -> [Hosts -> BOOLEAN]]
    /\ queue \in [Hosts -> [Hosts -> Seq(Nat)]]
    /\ timer \in [Hosts -> [Hosts -> BOOLEAN]]
    /\ awaiting \in [Hosts -> SUBSET RecordPointer]
    /\ cookies \in [Hosts -> SUBSET CookieEntry]
    /\ preparing \in [Hosts -> BOOLEAN]
    /\ accepted \in [Hosts -> [Hosts -> Nat]]
    /\ emitted \in [Hosts -> [Hosts -> Seq(Nat)]]
    /\ pubkeys \subseteq PublicKeyDatagram
    /\ sesskeys \subseteq SessionKeyDatagram

\* A record that holds a session holds nothing back: its queue is empty, its timer
\* is stopped and no shutdown waits for it, whichever end opened the handshake.
Settled ==
    \A h, p \in Hosts :
        Negotiated(h, p) => /\ queue[h][p] = <<>>
                            /\ ~timer[h][p]
                            /\ Record(h, p) \notin awaiting[h]

\* The record of p was deleted since h started (mine[h][h] counts the sessions).
Replaced(h, p) == mine[h][p] > mine[h][h]

\* A queued packet, and a record a shutdown waits for, always have a running timer
\* that will release them: also after a malformed key took the record off the list,
\* after a handshake was opened twice or by both ends.  The exception is a record
\* that may sit in the place of one deleted while its handshake was under way.
NoStranding ==
    \A h, p \in Hosts :
        queue[h][p] # <<>> \/ Record(h, p) \in awaiting[h] =>
            timer[h][p] \/ Replaced(h, p)

\* The promise of the encrypted path, see SecureChannel.
Channel == INSTANCE SecureChannel WITH outbox <- queue, wire <- emitted

\* Packets reach the socket in the order in which they were given to
\* sendEncryptedPacket and at most once each, whether they went straight through
\* or waited: nothing overtakes a packet that is still queued.
InOrder == Channel!InOrder

\* The negotiation implements the channel: every handler accepts one packet, drains
\* or flushes whole queues, and lets nothing past a queue that is not empty.
ImplementsChannel == Channel!Spec

\* No packet stays queued for ever: it is sent or flushed, at the latest when the
\* timer fires.  The exception is a record that may sit in the place of a deleted one
\* and be taken for a member of awaitingNegotiation: no handshake is opened for it.
QueueResolves ==
    \A h, p \in Hosts : queue[h][p] # <<>> ~> queue[h][p] = <<>> \/ Replaced(h, p)

\* Every host that may use its session key has sent it: a session in a record that
\* was never deleted encrypts with a key that is on its way to the peer.
KeyAnnounced ==
    \A h, p \in Hosts :
        Negotiated(h, p) /\ mine[h][p] = 1 =>
            \E m \in sesskeys : m.from = h /\ m.to = p /\ m.key = 1

\* No session without the peer's public key, from which handleRegisterRequest
\* derives the peer's address, in a record that was never deleted.
AuthBeforeSession ==
    \A h, p \in Hosts : Negotiated(h, p) /\ mine[h][p] = 1 => auth[h][p]

\* A process on its way out has a timer that will bring it back to the check for
\* shutdown, unless a record was deleted since it started: a deletion destroys the
\* timer and leaves the pointer in awaitingNegotiation.
ShutdownArmed ==
    \A h \in Hosts \ Reuse :
        up[h] /\ preparing[h] => \E p \in Hosts : timer[h][p] \/ Replaced(h, p)

\* A host that began to leave leaves, unless one of its records was deleted.
ExitCompletes ==
    \A h \in Hosts \ Reuse :
        (up[h] /\ preparing[h]) ~> (~up[h] \/ \E p \in Hosts : Replaced(h, p))

=============================================================================
