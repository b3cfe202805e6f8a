----------------------------- MODULE SlaveLink -----------------------------
(***************************************************************************)
(* The link between two slaves (libsparkle/LinkLayer.cpp, SparkleNode.cpp). *)
(*                                                                         *)
(* A slave that has a packet for another one opens its NAT with a plain    *)
(* keepalive and asks a master to have the other one begin the handshake   *)
(* (BacklinkRedirect).  Behind one and the same NAT datagrams come from the *)
(* peer's inner endpoint, which no route names: they belong to a record of *)
(* their own until the routed record is rewritten to that endpoint, on one *)
(* side by the public key's cookie, on the other by LocalRewrite.          *)
(*                                                                         *)
(* The two know a master and have sessions with it; what is on the way may *)
(* arrive late, twice, out of order or never.  SecureLink has handshakes   *)
(* with a master, refused keys, shutdown and the deletion of records.      *)
(***************************************************************************)
EXTENDS Naturals

CONSTANTS
    a, b,       \* the two slaves
    MaxCookies, \* bound: MaxCookies[h] handshakes that h begins
    MaxSends,   \* bound: MaxSends[h] packets and keepalives of h
    MaxCopies   \* bound: datagrams that arrive twice

Hosts == {a, b}
Other(h) == IF h = a THEN b ELSE a

ASSUME SlaveAssumption ==
    /\ a # b
    /\ MaxCookies \in [Hosts -> Nat] /\ MaxSends \in [Hosts -> Nat] /\ MaxCopies \in Nat

VARIABLES
    nat,      \* nat[h]: h is behind a NAT; never changes
    same,     \* both are behind the same NAT; never changes
    asked,    \* hosts that have asked for the route to the other; never changes
    knows,    \* knows[h]: the other is in h's router
    hole,     \* hole[h]: h has sent something to the other, so its NAT lets answers in
    rec,      \* rec[h]: h's routed record of the other
    bare,     \* bare[h]: keys in h's record of the other's inner endpoint
    cookies,  \* cookies[h]: cookies of h without an answer; all lead to rec[h]
    drawn,    \* drawn[h]: cookies so far
    sends,    \* sends[h]: packets so far
    expired,  \* history: expired[h] the negotiation timer has fired at h
    net,      \* what is on the way
    copies    \* second copies so far

place == <<nat, same, asked>>
vars == <<place, knows, hole, rec, bare, cookies, drawn, sends, expired, net, copies>>

\* mySessionKey of the routed and of the bare record, and a key not there yet.
Keys == {"routed", "bare"}
NoKey == "none"

\* "packet" stands for data and keepalives, which do nothing to the link.
Loads == {"packet", "rewrite"}

\* phantomIP() is the inner endpoint iff inner holds.
NewRecord ==
    [inner |-> FALSE, auth |-> FALSE, mine |-> "routed", his |-> NoKey,
     queue |-> {}, timer |-> FALSE, awaiting |-> FALSE]
NewBare == [auth |-> FALSE, his |-> NoKey]

Negotiated(r) == r.his # NoKey

-----------------------------------------------------------------------------
(* What is on the way. *)

Datagram(type, h, need, cookie, key) ==
    [type |-> type, from |-> h, need |-> need, cookie |-> cookie, key |-> key]

PublicKeyExchange(h, need, c) == Datagram("PublicKeyExchange", h, need, c, NoKey)
SessionKeyExchange(h, need, key) == Datagram("SessionKeyExchange", h, need, 0, key)
LocalRewrite(h, key) == Datagram("LocalRewrite", h, FALSE, 0, key)
BacklinkRedirect(h) == Datagram("BacklinkRedirect", h, FALSE, 0, NoKey)
\* The master's Route that tells the other of h and asks for a tunnel.
TunnelRoute(h) == Datagram("TunnelRoute", h, FALSE, 0, NoKey)

\* A datagram of the other one gets to h: its NAT has been opened, or there is none.
Arrives(h, p, type) ==
    /\ p.type = type /\ p.from = Other(h)
    /\ nat[h] /\ ~same => hole[h]

\* p has been handled and the datagrams in P are sent; a second copy of p may follow.
Handled(p, P) ==
    \/ net' = (net \ {p}) \cup P /\ UNCHANGED copies
    \/ copies < MaxCopies /\ copies' = copies + 1 /\ net' = net \cup P

\* wrapNode finds the bare record for the source of a datagram.
Unassociated(h) == same /\ ~rec[h].inner

\* negotiationStart, and the entry in awaitingNegotiation.
Started(r) == [r EXCEPT !.timer = TRUE, !.awaiting = TRUE]

\* sendEncryptedPacket opens a handshake.
Opens(r) == ~Negotiated(r) /\ ~r.awaiting

\* The record after sendEncryptedPacket of x.
Pushed(r, x) ==
    LET q == IF Negotiated(r) THEN r ELSE [r EXCEPT !.queue = @ \cup {x}]
    IN  IF Opens(r) THEN Started(q) ELSE q

\* What an opening sends besides the plain keepalive, which only opens the NAT.
Detour(h, r) == IF Opens(r) THEN {BacklinkRedirect(h)} ELSE {}

\* The queue is sent; of data and keepalives nothing is seen here.
Emitted(h, r) == IF "rewrite" \in r.queue THEN {LocalRewrite(h, r.mine)} ELSE {}

-----------------------------------------------------------------------------
Init ==
    /\ nat \in [Hosts -> BOOLEAN]
    /\ same \in BOOLEAN /\ (same => nat[a] /\ nat[b])
    /\ asked \in SUBSET Hosts \ {{}}
    /\ knows = [h \in Hosts |-> h \in asked]
    /\ hole = [h \in Hosts |-> FALSE]
    /\ rec = [h \in Hosts |-> NewRecord]
    /\ bare = [h \in Hosts |-> NewBare]
    /\ cookies = [h \in Hosts |-> {}]
    /\ drawn = [h \in Hosts |-> 0]
    /\ sends = [h \in Hosts |-> 0]
    /\ expired = [h \in Hosts |-> FALSE]
    /\ net = {}
    /\ copies = 0

\* Mutant: the plain keepalive is forgotten.
SendUnopened(h) ==
    /\ knows[h]
    /\ sends[h] < MaxSends[h]
    /\ sends' = [sends EXCEPT ![h] = @ + 1]
    /\ rec' = [rec EXCEPT ![h] = Pushed(@, "packet")]
    /\ net' = net \cup Detour(h, rec[h])
    /\ UNCHANGED <<place, knows, hole, bare, cookies, drawn, expired, copies>>

\* sendDataPacket, or keepNATAlive: the detour over the master if there is no session.
Send(h) ==
    /\ knows[h]
    /\ sends[h] < MaxSends[h]
    /\ sends' = [sends EXCEPT ![h] = @ + 1]
    /\ rec' = [rec EXCEPT ![h] = Pushed(@, "packet")]
    /\ hole' = [hole EXCEPT ![h] = @ \/ Opens(rec[h])]
    /\ net' = net \cup Detour(h, rec[h])
    /\ UNCHANGED <<place, knows, bare, cookies, drawn, expired, copies>>

\* handleBacklinkRedirect of the master.
Redirect(p) ==
    /\ p.type = "BacklinkRedirect"
    /\ Handled(p, {TunnelRoute(p.from)})
    /\ UNCHANGED <<place, knows, hole, rec, bare, cookies, drawn, sends, expired>>

\* A tunnel is answered only between hosts that are both behind a NAT.
Tunnels == nat[a] /\ nat[b]

\* handleRoute with tunnelRequest: an encrypted keepalive that takes no detour.
HandleTunnelRoute(h, p) ==
    /\ p.type = "TunnelRoute" /\ p.from = Other(h)
    /\ knows' = [knows EXCEPT ![h] = TRUE]
    /\ \/ /\ Tunnels /\ Opens(rec[h])
          /\ drawn[h] < MaxCookies[h]
          /\ drawn' = [drawn EXCEPT ![h] = @ + 1]
          /\ cookies' = [cookies EXCEPT ![h] = @ \cup {drawn'[h]}]
          /\ rec' = [rec EXCEPT ![h] = Pushed(@, "packet")]
          /\ hole' = [hole EXCEPT ![h] = TRUE]
          /\ Handled(p, {PublicKeyExchange(h, TRUE, drawn'[h])})
       \/ /\ Tunnels /\ ~Opens(rec[h])
          /\ rec' = [rec EXCEPT ![h] = Pushed(@, "packet")]
          /\ Handled(p, {})
          /\ UNCHANGED <<drawn, cookies, hole>>
       \/ /\ ~Tunnels
          /\ Handled(p, {})
          /\ UNCHANGED <<drawn, cookies, hole, rec>>
    /\ UNCHANGED <<place, bare, sends, expired>>

\* handlePublicKeyExchange of a request: remember the key, send ours back.
HandlePublicKeyRequest(h, p) ==
    /\ Arrives(h, p, "PublicKeyExchange") /\ p.need
    /\ \/ Unassociated(h) /\ bare' = [bare EXCEPT ![h].auth = TRUE] /\ UNCHANGED rec
       \/ ~Unassociated(h) /\ rec' = [rec EXCEPT ![h].auth = TRUE] /\ UNCHANGED bare
    /\ hole' = [hole EXCEPT ![h] = TRUE]
    /\ Handled(p, {PublicKeyExchange(h, FALSE, p.cookie)})
    /\ UNCHANGED <<place, knows, cookies, drawn, sends, expired>>

\* The routed record takes the endpoint and the public key of the bare one.
Rewritten(r) == [r EXCEPT !.inner = TRUE, !.auth = TRUE]

\* handlePublicKeyExchange of a reply: the cookie leads to the routed record.  If the
\* reply came from the inner endpoint the record is rewritten, the bare one deleted
\* and LocalRewrite sent, that is queued while there is no session.
HandlePublicKeyReply(h, p) ==
    /\ Arrives(h, p, "PublicKeyExchange") /\ ~p.need
    /\ p.cookie \in cookies[h]
    /\ cookies' = [cookies EXCEPT ![h] = @ \ {p.cookie}]
    /\ LET r == Rewritten(rec[h])
       IN  \/ /\ Unassociated(h)
              /\ rec' = [rec EXCEPT ![h] = Pushed(r, "rewrite")]
              /\ bare' = [bare EXCEPT ![h] = NewBare]
              /\ Handled(p, Detour(h, r) \cup {SessionKeyExchange(h, TRUE, r.mine)}
                            \cup (IF Negotiated(r) THEN {LocalRewrite(h, r.mine)} ELSE {}))
           \/ /\ ~Unassociated(h)
              /\ rec' = [rec EXCEPT ![h].auth = TRUE]
              /\ Handled(p, {SessionKeyExchange(h, TRUE, rec[h].mine)})
              /\ UNCHANGED bare
    /\ hole' = [hole EXCEPT ![h] = TRUE]
    /\ UNCHANGED <<place, knows, drawn, sends, expired>>

\* handleSessionKeyExchange, through the bare record: nothing waits in it.
HandleSessionKeyBare(h, p) ==
    /\ Arrives(h, p, "SessionKeyExchange") /\ Unassociated(h)
    /\ bare' = [bare EXCEPT ![h].his = p.key]
    /\ Handled(p, IF p.need THEN {SessionKeyExchange(h, FALSE, "bare")} ELSE {})
    /\ UNCHANGED <<place, knows, hole, rec, cookies, drawn, sends, expired>>

\* Through the routed record: the handshake is over and the queue is sent.
HandleSessionKey(h, p) ==
    /\ Arrives(h, p, "SessionKeyExchange") /\ ~Unassociated(h)
    /\ rec' = [rec EXCEPT ![h] = [@ EXCEPT !.his = p.key, !.queue = {}, !.timer = FALSE,
                                           !.awaiting = FALSE]]
    /\ Handled(p, (IF p.need THEN {SessionKeyExchange(h, FALSE, rec[h].mine)} ELSE {})
                  \cup Emitted(h, rec[h]))
    /\ UNCHANGED <<place, knows, hole, bare, cookies, drawn, sends, expired>>

\* Mutant: mySessionKey is not cloned.
AssociatedOwnKey(h) ==
    [rec[h] EXCEPT !.inner = TRUE, !.auth = TRUE, !.his = bare[h].his]

\* Mutant: the session counts as the end of a handshake, its queue is forgotten.
AssociatedFinished(h) ==
    [rec[h] EXCEPT !.inner = TRUE, !.auth = TRUE, !.mine = "bare", !.his = bare[h].his,
                   !.timer = FALSE, !.awaiting = FALSE]

\* The endpoint of the bare record, and cloneKeys.
Associated(h) ==
    [rec[h] EXCEPT !.inner = TRUE, !.auth = TRUE, !.mine = "bare", !.his = bare[h].his]

\* Mutant: the orphan stays in the node spool.
HandleLocalRewriteKeepsOrphan(h, p) ==
    /\ Arrives(h, p, "LocalRewrite")
    /\ Unassociated(h) /\ bare[h].his = p.key /\ bare[h].auth /\ knows[h]
    /\ rec' = [rec EXCEPT ![h] = Associated(h)]
    /\ Handled(p, {})
    /\ UNCHANGED <<place, knows, hole, bare, cookies, drawn, sends, expired>>

\* handleLocalRewritePacket, in a packet that the bare record can decrypt: its session
\* goes to the routed record and it is deleted.  The queue is not sent and the timer
\* goes on.  Through the routed record LocalRewrite changes nothing.
HandleLocalRewrite(h, p) ==
    /\ Arrives(h, p, "LocalRewrite")
    /\ Unassociated(h) /\ bare[h].his = p.key /\ bare[h].auth /\ knows[h]
    /\ rec' = [rec EXCEPT ![h] = Associated(h)]
    /\ bare' = [bare EXCEPT ![h] = NewBare]
    /\ Handled(p, {})
    /\ UNCHANGED <<place, knows, hole, cookies, drawn, sends, expired>>

\* Datagrams that are dropped: a reply to a cookie that is not or no more there,
\* LocalRewrite without the key for it or without anything to do.
HandleUseless(h, p) ==
    /\ \/ Arrives(h, p, "PublicKeyExchange") /\ ~p.need /\ p.cookie \notin cookies[h]
       \/ /\ Arrives(h, p, "LocalRewrite")
          /\ ~(Unassociated(h) /\ bare[h].his = p.key /\ bare[h].auth /\ knows[h])
    /\ Handled(p, {})
    /\ UNCHANGED <<place, knows, hole, rec, bare, cookies, drawn, sends, expired>>

\* negotiationTimeout: the queue is dropped.
NegotiationTimeout(h) ==
    /\ rec[h].timer
    /\ rec' = [rec EXCEPT ![h] = [@ EXCEPT !.queue = {}, !.timer = FALSE, !.awaiting = FALSE]]
    /\ expired' = [expired EXCEPT ![h] = TRUE]
    /\ UNCHANGED <<place, knows, hole, bare, cookies, drawn, sends, net, copies>>

HandlePacket(h, p) ==
    \/ HandleTunnelRoute(h, p)
    \/ HandlePublicKeyRequest(h, p) \/ HandlePublicKeyReply(h, p)
    \/ HandleSessionKeyBare(h, p) \/ HandleSessionKey(h, p)
    \/ HandleLocalRewrite(h, p) \/ HandleUseless(h, p)

Next ==
    \/ \E p \in net : Redirect(p)
    \/ \E h \in Hosts :
          \/ Send(h) \/ NegotiationTimeout(h)
          \/ \E p \in net : HandlePacket(h, p)

Spec == Init /\ [][Next]_vars

\* Nothing is lost in the end: a datagram that can be handled is, and is gone then.
Delivered(h, type) ==
    \E p \in net :
        /\ p.type = type /\ p.from = h
        /\ Redirect(p) \/ HandlePacket(Other(h), p)
        /\ p \notin net'

Types == {"PublicKeyExchange", "SessionKeyExchange", "LocalRewrite", "BacklinkRedirect",
          "TunnelRoute"}

Fairness == \A h \in Hosts : \A type \in Types : WF_vars(Delivered(h, type))

FairSpec == Spec /\ Fairness

-----------------------------------------------------------------------------
(* Properties. *)

Datagrams ==
    [type : {"PublicKeyExchange"}, from : Hosts, need : BOOLEAN,
     cookie : UNION {1 .. MaxCookies[h] : h \in Hosts}, key : {NoKey}]
    \cup [type : {"SessionKeyExchange"}, from : Hosts, need : BOOLEAN, cookie : {0}, key : Keys]
    \cup [type : {"LocalRewrite"}, from : Hosts, need : {FALSE}, cookie : {0}, key : Keys]
    \cup [type : {"BacklinkRedirect", "TunnelRoute"}, from : Hosts, need : {FALSE},
          cookie : {0}, key : {NoKey}]

Records ==
    [inner : BOOLEAN, auth : BOOLEAN, mine : Keys, his : Keys \cup {NoKey},
     queue : SUBSET Loads, timer : BOOLEAN, awaiting : BOOLEAN]
BareRecords == [auth : BOOLEAN, his : Keys \cup {NoKey}]

\* The variables have their types, and there are never two records of one endpoint: once
\* the routed record has the inner endpoint, the bare one is gone.
TypeOK ==
    /\ nat \in [Hosts -> BOOLEAN] /\ same \in BOOLEAN /\ asked \subseteq Hosts
    /\ knows \in [Hosts -> BOOLEAN] /\ hole \in [Hosts -> BOOLEAN]
    /\ rec \in [Hosts -> Records] /\ bare \in [Hosts -> BareRecords]
    /\ cookies \in [Hosts -> SUBSET Nat] /\ drawn \in [Hosts -> Nat] /\ sends \in [Hosts -> Nat]
    /\ expired \in [Hosts -> BOOLEAN]
    /\ net \subseteq Datagrams /\ copies \in 0 .. MaxCopies
    /\ \A h \in Hosts :
          /\ cookies[h] \subseteq 1 .. drawn[h]
          /\ drawn[h] <= MaxCookies[h] /\ sends[h] <= MaxSends[h]
          /\ rec[h].inner => same /\ bare[h] = NewBare

\* Nothing waits for ever: what is queued in a routed record has a timer that will drop
\* it, also after LocalRewrite has given the record a session without sending its queue.
Attended == \A h \in Hosts : rec[h].queue # {} => rec[h].timer

\* Both have a session in the records they send through.
Tunnel == \A h \in Hosts : Negotiated(rec[h])

\* Who has a session is behind a NAT, as is the other (nobody begins a handshake with
\* a slave otherwise), and as long as no negotiation has timed out each end encrypts
\* with the key the other one decrypts with, through whichever record it was agreed on.
TunnelSound ==
    /\ \A h \in Hosts : Negotiated(rec[h]) \/ Negotiated(bare[h]) => Tunnels
    /\ Tunnel /\ (\A h \in Hosts : ~expired[h]) =>
          \A h \in Hosts : rec[h].his = rec[Other(h)].mine

\* A slave that alone asked for the other's route gets its tunnel, through both NATs or
\* around the only one.  In the latter case the other's timer must not fire: it drops
\* the queued LocalRewrite, which is not sent again.  (Two slaves that open at once
\* wait for each other until both time out.)
TunnelArises ==
    \A h \in Hosts :
        asked = {h} /\ Tunnels /\ rec[h].awaiting
            ~> Tunnel \/ (same /\ expired[Other(h)])

=============================================================================
