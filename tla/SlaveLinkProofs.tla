-------------------------- MODULE SlaveLinkProofs --------------------------
(***************************************************************************)
(* Theorems about SlaveLink, for every bound on handshakes, packets and    *)
(* repeated datagrams.                                                     *)
(***************************************************************************)
EXTENDS SlaveLink, TLAPS

-----------------------------------------------------------------------------
(* The inductive invariants. *)

\* A record is in awaitingNegotiation exactly as long as its timer runs.
Tended(r) == /\ r.awaiting = r.timer
             /\ r.queue # {} => r.timer
AttendedInv == \A h \in Hosts : Tended(rec[h])

\* Keys are on the way, and sessions there, only between two hosts behind NAT.
NatInv ==
    /\ \A p \in net : p.type \in {"PublicKeyExchange", "SessionKeyExchange"} => Tunnels
    /\ \A h \in Hosts : Negotiated(rec[h]) \/ Negotiated(bare[h]) => Tunnels

\* No negotiation has timed out.
Quiet == \A h \in Hosts : ~expired[h]

\* h has begun a handshake; h has one under way or a session.
Begun(h) == drawn[h] > 0
Engaged(h) == rec[h].awaiting \/ Negotiated(rec[h])

\* The end that begins uses the key of its routed record, the other one that of the
\* record the datagrams came through.
AnswerKey == IF same THEN "bare" ELSE "routed"

\* What a datagram on the way says of the two ends.
Fits(p) ==
    /\ p.type \in {"BacklinkRedirect", "TunnelRoute"} => ~Begun(p.from) /\ Engaged(p.from)
    /\ p.type = "PublicKeyExchange" =>
          IF p.need THEN Begun(p.from) ELSE Begun(Other(p.from))
    /\ p.type = "SessionKeyExchange" =>
          IF p.need THEN /\ Begun(p.from) /\ p.key = "routed"
                         /\ same => rec[p.from].inner
                    ELSE /\ Begun(Other(p.from)) /\ p.key = AnswerKey
                         /\ same => rec[Other(p.from)].inner
    /\ p.type = "LocalRewrite" => Begun(p.from) /\ p.key = "routed" /\ same

\* Only one end begins, and goes on until it has a session.
SoleOpener(h) == Begun(h) => ~Begun(Other(h)) /\ Engaged(h)

\* The records of an end whose peer has not begun.
BeginnerAt(h) ==
    /\ bare[h] = NewBare /\ rec[h].mine = "routed"
    /\ rec[h].his \in {NoKey, AnswerKey}
    /\ ~Begun(h) => rec[h].his = NoKey /\ ~rec[h].inner

\* The records of an end whose peer has.
AnswererAt(h) ==
    /\ bare[h].his \in {NoKey, "routed"}
    /\ IF same /\ rec[h].inner THEN rec[h].mine = "bare" /\ rec[h].his = "routed"
                               ELSE rec[h].mine = "routed"
    /\ same /\ ~rec[h].inner => rec[h].his = NoKey
    /\ ~same => rec[h].his \in {NoKey, "routed"}

RecordsAt(h) ==
    /\ "rewrite" \in rec[h].queue => Begun(h) /\ same
    /\ IF Begun(Other(h)) THEN AnswererAt(h) ELSE BeginnerAt(h)

Linked == /\ \A p \in net : Fits(p)
          /\ \A h \in Hosts : SoleOpener(h) /\ RecordsAt(h)

KeysInv == Quiet => Linked

-----------------------------------------------------------------------------
(* Facts about the operators. *)

LEMMA OtherHost ==
    \A h \in Hosts : /\ Other(h) \in Hosts /\ Other(h) # h /\ Other(Other(h)) = h
                     /\ \A g \in Hosts : g = h \/ g = Other(h)
  BY SlaveAssumption DEF Hosts, Other

\* What is on the way after a datagram was handled.
LEMMA HandledNet ==
    ASSUME TypeOK, NEW p \in net, NEW P, Handled(p, P)
    PROVE  net' \subseteq net \cup P /\ copies' \in 0 .. MaxCopies
  BY SlaveAssumption DEF Handled, TypeOK

CookieRange == UNION {1 .. MaxCookies[h] : h \in Hosts}

LEMMA MadeDatagrams ==
    ASSUME NEW h \in Hosts
    PROVE  /\ \A n \in BOOLEAN, c \in CookieRange : PublicKeyExchange(h, n, c) \in Datagrams
           /\ \A n \in BOOLEAN, k \in Keys : SessionKeyExchange(h, n, k) \in Datagrams
           /\ \A k \in Keys : LocalRewrite(h, k) \in Datagrams
           /\ BacklinkRedirect(h) \in Datagrams /\ TunnelRoute(h) \in Datagrams
  BY DEF PublicKeyExchange, SessionKeyExchange, LocalRewrite, BacklinkRedirect, TunnelRoute,
         Datagram, Datagrams, CookieRange

LEMMA DatagramFields ==
    ASSUME NEW p \in Datagrams
    PROVE  /\ p.from \in Hosts /\ p.need \in BOOLEAN
           /\ p.type = "PublicKeyExchange" => p.cookie \in CookieRange
           /\ p.type = "SessionKeyExchange" \/ p.type = "LocalRewrite" => p.key \in Keys
  BY DEF Datagrams, CookieRange

\* Records stay records.
LEMMA RecordSteps ==
    ASSUME NEW r \in Records, NEW x \in Loads
    PROVE  /\ Pushed(r, x) \in Records /\ Pushed(r, x).inner = r.inner
           /\ Rewritten(r) \in Records /\ Rewritten(r).inner
  BY DEF Records, Pushed, Started, Opens, Rewritten

LEMMA PushedFields ==
    ASSUME NEW r \in Records, NEW x \in Loads
    PROVE  /\ Pushed(r, x).inner = r.inner /\ Pushed(r, x).mine = r.mine
           /\ Pushed(r, x).his = r.his
           /\ Pushed(r, x).queue \subseteq r.queue \cup {x}
           /\ Negotiated(r) => Pushed(r, x) = r
           /\ Pushed(r, x).awaiting = (r.awaiting \/ ~Negotiated(r))
           /\ Pushed(r, x).timer = (r.timer \/ Opens(r))
<1> DEFINE q == [r EXCEPT !.queue = @ \cup {x}]
<1>1. q \in Records
  BY DEF Records
<1>2. CASE Negotiated(r)
  BY <1>2 DEF Pushed, Opens, Records
<1>3. CASE ~Negotiated(r) /\ r.awaiting
  <2>1. Pushed(r, x) = q /\ ~Opens(r)
    BY <1>3 DEF Pushed, Opens
  <2> QED BY <1>3, <2>1, <1>1 DEF Records
<1>4. CASE ~Negotiated(r) /\ ~r.awaiting
  <2>1. Pushed(r, x) = [q EXCEPT !.timer = TRUE, !.awaiting = TRUE] /\ Opens(r)
    BY <1>4 DEF Pushed, Opens, Started
  <2> QED BY <1>4, <2>1, <1>1 DEF Records
<1> QED BY <1>2, <1>3, <1>4

-----------------------------------------------------------------------------
(* Type correctness. *)

LEMMA InitType == Init => TypeOK
<1> SUFFICES ASSUME Init PROVE TypeOK
  OBVIOUS
<1>1. NewRecord \in Records /\ NewBare \in BareRecords
  BY DEF NewRecord, NewBare, Records, BareRecords, Keys
<1> QED BY <1>1, SlaveAssumption DEF Init, TypeOK, NewRecord

\* What a step of h does to the records and counters of both hosts.
Shaped(h) ==
    /\ UNCHANGED place
    /\ rec' \in [Hosts -> Records] /\ bare' \in [Hosts -> BareRecords]
    /\ drawn' \in [Hosts -> Nat] /\ sends' \in [Hosts -> Nat]
    /\ cookies' \in [Hosts -> SUBSET Nat]
    /\ \A g \in Hosts : g # h =>
          /\ rec'[g] = rec[g] /\ bare'[g] = bare[g]
          /\ drawn'[g] = drawn[g] /\ sends'[g] = sends[g] /\ cookies'[g] = cookies[g]

LEMMA TypeStep ==
    ASSUME TypeOK, NEW h \in Hosts, Shaped(h),
           knows' \in [Hosts -> BOOLEAN], hole' \in [Hosts -> BOOLEAN],
           expired' \in [Hosts -> BOOLEAN],
           rec'[h].inner => same /\ bare'[h] = NewBare,
           cookies'[h] \subseteq 1 .. drawn'[h],
           drawn'[h] <= MaxCookies[h], sends'[h] <= MaxSends[h],
           net' \subseteq Datagrams, copies' \in 0 .. MaxCopies
    PROVE  TypeOK'
<1>1. ASSUME NEW g \in Hosts
      PROVE  /\ cookies'[g] \subseteq 1 .. drawn'[g]
             /\ drawn'[g] <= MaxCookies[g] /\ sends'[g] <= MaxSends[g]
             /\ rec'[g].inner => same /\ bare'[g] = NewBare
  <2>1. CASE g = h
    BY <2>1
  <2>2. CASE g # h
    BY <2>2 DEF TypeOK, Shaped
  <2> QED BY <2>1, <2>2
<1> QED BY <1>1 DEF TypeOK, place, Shaped

LEMMA NextType == TypeOK /\ [Next]_vars => TypeOK'
<1> SUFFICES ASSUME TypeOK, [Next]_vars PROVE TypeOK'
  OBVIOUS
<1>0. ASSUME NEW h \in Hosts
      PROVE  /\ rec[h] \in Records /\ bare[h] \in BareRecords
             /\ rec = [rec EXCEPT ![h] = rec[h]] /\ bare = [bare EXCEPT ![h] = bare[h]]
             /\ drawn = [drawn EXCEPT ![h] = drawn[h]] /\ sends = [sends EXCEPT ![h] = sends[h]]
             /\ cookies = [cookies EXCEPT ![h] = cookies[h]]
             /\ drawn[h] \in 0 .. MaxCookies[h] /\ sends[h] \in 0 .. MaxSends[h]
             /\ cookies[h] \in SUBSET (1 .. drawn[h])
             /\ rec[h].inner => same /\ bare[h] = NewBare
             /\ NewBare \in BareRecords /\ rec[h].mine \in Keys
             /\ drawn[h] \in Nat /\ sends[h] \in Nat
             /\ MaxCookies[h] \in Nat /\ MaxSends[h] \in Nat
  BY SlaveAssumption DEF TypeOK, NewBare, BareRecords, Records
<1>1. CASE UNCHANGED vars
  BY <1>1 DEF vars, place, TypeOK, Tunnels
<1>2. ASSUME NEW p \in net, Redirect(p) PROVE TypeOK'
  <2>1. p.from \in Hosts
    BY DatagramFields DEF TypeOK
  <2>2. net' \subseteq Datagrams /\ copies' \in 0 .. MaxCopies
    BY <1>2, <2>1, HandledNet, MadeDatagrams DEF Redirect, TypeOK
  <2> QED BY <1>2, <2>2 DEF Redirect, TypeOK, place
<1>3. ASSUME NEW h \in Hosts, Send(h) PROVE TypeOK'
  <2>1. Pushed(rec[h], "packet") \in Records /\ Pushed(rec[h], "packet").inner = rec[h].inner
    BY <1>0, RecordSteps DEF Loads
  <2>2. net' \subseteq Datagrams
    BY <1>3, MadeDatagrams DEF Send, Detour, TypeOK
  <2>3. sends[h] + 1 \in 0 .. MaxSends[h]
    BY <1>3, <1>0 DEF Send
  <2>4. hole' \in [Hosts -> BOOLEAN]
    BY <1>3 DEF Send, TypeOK, Opens
  <2>8. Shaped(h)
    BY <1>3, <1>0, <2>1, <2>3, <2>4 DEF Send, TypeOK, place, Shaped
  <2>9. /\ rec'[h].inner => same /\ bare'[h] = NewBare
        /\ cookies'[h] \subseteq 1 .. drawn'[h]
        /\ drawn'[h] <= MaxCookies[h] /\ sends'[h] <= MaxSends[h]
        /\ knows' \in [Hosts -> BOOLEAN] /\ hole' \in [Hosts -> BOOLEAN]
        /\ expired' \in [Hosts -> BOOLEAN]
    BY <1>3, <1>0, <2>1, <2>3, <2>4, SlaveAssumption DEF Send, TypeOK, place
  <2> QED BY <1>3, <2>2, <2>8, <2>9, TypeStep DEF Send, TypeOK
<1>4. ASSUME NEW h \in Hosts, NegotiationTimeout(h) PROVE TypeOK'
  <2> DEFINE r == [rec[h] EXCEPT !.queue = {}, !.timer = FALSE, !.awaiting = FALSE]
  <2>1. r \in Records /\ r.inner = rec[h].inner
    BY <1>0 DEF Records
  <2>8. Shaped(h)
    BY <1>4, <1>0, <2>1 DEF NegotiationTimeout, TypeOK, place, Shaped
  <2>9. /\ rec'[h].inner => same /\ bare'[h] = NewBare
        /\ cookies'[h] \subseteq 1 .. drawn'[h]
        /\ drawn'[h] <= MaxCookies[h] /\ sends'[h] <= MaxSends[h]
        /\ knows' \in [Hosts -> BOOLEAN] /\ hole' \in [Hosts -> BOOLEAN]
        /\ expired' \in [Hosts -> BOOLEAN]
    BY <1>4, <1>0, <2>1, SlaveAssumption DEF NegotiationTimeout, TypeOK, place
  <2> QED BY <1>4, <2>8, <2>9, TypeStep DEF NegotiationTimeout, TypeOK
<1>5. ASSUME NEW h \in Hosts, NEW p \in net, HandlePacket(h, p) PROVE TypeOK'
  <2> p \in Datagrams
    BY DEF TypeOK
  <2>0. ASSUME NEW P, P \subseteq Datagrams, Handled(p, P)
        PROVE  net' \subseteq Datagrams /\ copies' \in 0 .. MaxCopies
    BY <2>0, HandledNet DEF TypeOK
  <2>1. CASE HandleTunnelRoute(h, p)
    <3>1. Pushed(rec[h], "packet") \in Records /\ Pushed(rec[h], "packet").inner = rec[h].inner
      BY <1>0, RecordSteps DEF Loads
    <3>2. knows' \in [Hosts -> BOOLEAN] /\ hole' \in [Hosts -> BOOLEAN]
      BY <2>1 DEF HandleTunnelRoute, TypeOK
    <3>3. CASE Opens(rec[h]) /\ Tunnels
      <4>1. /\ drawn' = [drawn EXCEPT ![h] = drawn[h] + 1] /\ drawn[h] < MaxCookies[h]
            /\ cookies' = [cookies EXCEPT ![h] = cookies[h] \cup {drawn'[h]}]
            /\ Handled(p, {PublicKeyExchange(h, TRUE, drawn'[h])})
            /\ rec' = [rec EXCEPT ![h] = Pushed(rec[h], "packet")]
            /\ UNCHANGED <<place, bare, sends, expired>>
        BY <2>1, <3>3 DEF HandleTunnelRoute
      <4>2. drawn'[h] = drawn[h] + 1 /\ drawn[h] + 1 \in 1 .. MaxCookies[h]
        <5>1. drawn'[h] = drawn[h] + 1
          BY <4>1 DEF TypeOK
        <5> QED BY <4>1, <5>1, <1>0
      <4>3. drawn'[h] \in CookieRange
        BY <4>2 DEF CookieRange
      <4>4. net' \subseteq Datagrams /\ copies' \in 0 .. MaxCopies
        BY <4>1, <4>3, <2>0, MadeDatagrams
      <4>5. cookies[h] \cup {drawn'[h]} \in SUBSET (1 .. drawn[h] + 1)
        BY <4>2, <1>0, SlaveAssumption
      <4>8. Shaped(h)
        BY <4>1, <4>2, <4>5, <3>1, <3>2, <1>0 DEF TypeOK, place, Shaped
      <4>9. /\ rec'[h].inner => same /\ bare'[h] = NewBare
            /\ cookies'[h] \subseteq 1 .. drawn'[h]
            /\ drawn'[h] <= MaxCookies[h] /\ sends'[h] <= MaxSends[h]
            /\ knows' \in [Hosts -> BOOLEAN] /\ hole' \in [Hosts -> BOOLEAN]
            /\ expired' \in [Hosts -> BOOLEAN]
        <5>1. /\ rec'[h] = Pushed(rec[h], "packet") /\ bare'[h] = bare[h] /\ sends'[h] = sends[h]
              /\ cookies'[h] = cookies[h] \cup {drawn'[h]}
          BY <4>1 DEF TypeOK
        <5>2. expired' \in [Hosts -> BOOLEAN]
          BY <4>1 DEF TypeOK
        <5> QED BY <4>2, <4>5, <5>1, <5>2, <3>1, <3>2, <1>0
      <4> QED BY <4>4, <4>8, <4>9, TypeStep
    <3>4. CASE ~(Opens(rec[h]) /\ Tunnels)
      <4>1. /\ Handled(p, {})
            /\ \/ rec' = [rec EXCEPT ![h] = Pushed(rec[h], "packet")]
               \/ rec' = rec
            /\ UNCHANGED <<place, bare, sends, expired, drawn, cookies>>
        BY <2>1, <3>4 DEF HandleTunnelRoute
      <4>2. net' \subseteq Datagrams /\ copies' \in 0 .. MaxCopies
        BY <4>1, <2>0
      <4>3. PICK r \in Records : rec' = [rec EXCEPT ![h] = r] /\ r.inner = rec[h].inner
        BY <4>1, <3>1, <1>0
      <4>8. Shaped(h)
        BY <4>1, <4>3, <3>2, <1>0 DEF TypeOK, place, Shaped
      <4>9. /\ rec'[h].inner => same /\ bare'[h] = NewBare
            /\ cookies'[h] \subseteq 1 .. drawn'[h]
            /\ drawn'[h] <= MaxCookies[h] /\ sends'[h] <= MaxSends[h]
            /\ knows' \in [Hosts -> BOOLEAN] /\ hole' \in [Hosts -> BOOLEAN]
            /\ expired' \in [Hosts -> BOOLEAN]
        BY <4>1, <4>3, <3>2, <1>0, SlaveAssumption DEF TypeOK
      <4> QED BY <4>2, <4>8, <4>9, TypeStep
    <3> QED BY <3>3, <3>4
  <2>2. CASE HandlePublicKeyRequest(h, p)
    <3>1. net' \subseteq Datagrams /\ copies' \in 0 .. MaxCopies
      BY <2>2, <2>0, DatagramFields, MadeDatagrams DEF HandlePublicKeyRequest, Arrives
    <3>2. hole' \in [Hosts -> BOOLEAN]
      BY <2>2 DEF HandlePublicKeyRequest, TypeOK
    <3>3. CASE Unassociated(h)
      <4>1. [bare[h] EXCEPT !.auth = TRUE] \in BareRecords
        BY <1>0 DEF BareRecords
      <4>2. bare' = [bare EXCEPT ![h] = [bare[h] EXCEPT !.auth = TRUE]] /\ UNCHANGED rec
        BY <2>2, <3>3 DEF HandlePublicKeyRequest
      <4>8. Shaped(h)
        BY <2>2, <3>2, <3>3, <4>1, <4>2, <1>0
           DEF HandlePublicKeyRequest, TypeOK, Unassociated, place, Shaped
      <4>9. /\ rec'[h].inner => same /\ bare'[h] = NewBare
            /\ cookies'[h] \subseteq 1 .. drawn'[h]
            /\ drawn'[h] <= MaxCookies[h] /\ sends'[h] <= MaxSends[h]
            /\ knows' \in [Hosts -> BOOLEAN] /\ hole' \in [Hosts -> BOOLEAN]
            /\ expired' \in [Hosts -> BOOLEAN]
        BY <2>2, <3>2, <3>3, <4>1, <4>2, <1>0, SlaveAssumption
           DEF HandlePublicKeyRequest, TypeOK, Unassociated
      <4> QED BY <3>1, <4>8, <4>9, TypeStep
    <3>4. CASE ~Unassociated(h)
      <4> DEFINE r == [rec[h] EXCEPT !.auth = TRUE]
      <4>1. r \in Records /\ r.inner = rec[h].inner
        BY <1>0 DEF Records
      <4>2. rec' = [rec EXCEPT ![h] = r] /\ UNCHANGED bare
        BY <2>2, <3>4 DEF HandlePublicKeyRequest
      <4>8. Shaped(h)
        BY <2>2, <3>2, <4>1, <4>2, <1>0 DEF HandlePublicKeyRequest, TypeOK, place, Shaped
      <4>9. /\ rec'[h].inner => same /\ bare'[h] = NewBare
            /\ cookies'[h] \subseteq 1 .. drawn'[h]
            /\ drawn'[h] <= MaxCookies[h] /\ sends'[h] <= MaxSends[h]
            /\ knows' \in [Hosts -> BOOLEAN] /\ hole' \in [Hosts -> BOOLEAN]
            /\ expired' \in [Hosts -> BOOLEAN]
        BY <2>2, <3>2, <4>1, <4>2, <1>0, SlaveAssumption DEF HandlePublicKeyRequest, TypeOK
      <4> QED BY <3>1, <4>8, <4>9, TypeStep
    <3> QED BY <3>3, <3>4
  <2>3. CASE HandlePublicKeyReply(h, p)
    <3> DEFINE w == Rewritten(rec[h])
    <3>1. w \in Records /\ w.inner /\ w.mine = rec[h].mine
      BY <1>0, RecordSteps DEF Rewritten, Records, Loads
    <3>2. hole' \in [Hosts -> BOOLEAN]
      BY <2>3 DEF HandlePublicKeyReply, TypeOK
    <3>3. cookies[h] \ {p.cookie} \in SUBSET (1 .. drawn[h])
      BY <1>0
    <3>4. CASE Unassociated(h)
      <4>1. Pushed(w, "rewrite") \in Records
        BY <3>1, RecordSteps DEF Loads
      <4>2. Detour(h, w) \cup {SessionKeyExchange(h, TRUE, w.mine)}
              \cup (IF Negotiated(w) THEN {LocalRewrite(h, w.mine)} ELSE {}) \subseteq Datagrams
        <5>1. w.mine \in Keys
          BY <3>1, <1>0
        <5>2. /\ BacklinkRedirect(h) \in Datagrams /\ LocalRewrite(h, w.mine) \in Datagrams
              /\ SessionKeyExchange(h, TRUE, w.mine) \in Datagrams
          BY <5>1, MadeDatagrams
        <5> QED BY <5>2 DEF Detour
      <4>3. net' \subseteq Datagrams /\ copies' \in 0 .. MaxCopies
        BY <2>3, <3>4, <4>2, <2>0 DEF HandlePublicKeyReply
      <4>4. rec' = [rec EXCEPT ![h] = Pushed(w, "rewrite")] /\ bare' = [bare EXCEPT ![h] = NewBare]
        BY <2>3, <3>4 DEF HandlePublicKeyReply
      <4>8. Shaped(h)
        BY <2>3, <3>2, <3>3, <3>4, <4>1, <4>4, <1>0
           DEF HandlePublicKeyReply, TypeOK, Unassociated, place, Shaped
      <4>9. /\ rec'[h].inner => same /\ bare'[h] = NewBare
            /\ cookies'[h] \subseteq 1 .. drawn'[h]
            /\ drawn'[h] <= MaxCookies[h] /\ sends'[h] <= MaxSends[h]
            /\ knows' \in [Hosts -> BOOLEAN] /\ hole' \in [Hosts -> BOOLEAN]
            /\ expired' \in [Hosts -> BOOLEAN]
        BY <2>3, <3>2, <3>3, <3>4, <4>1, <4>4, <1>0, SlaveAssumption
           DEF HandlePublicKeyReply, TypeOK, Unassociated
      <4> QED BY <4>3, <4>8, <4>9, TypeStep
    <3>5. CASE ~Unassociated(h)
      <4> DEFINE r == [rec[h] EXCEPT !.auth = TRUE]
      <4>1. r \in Records /\ r.inner = rec[h].inner
        BY <1>0 DEF Records
      <4>2. rec' = [rec EXCEPT ![h] = r] /\ UNCHANGED bare
        BY <2>3, <3>5 DEF HandlePublicKeyReply
      <4>3. net' \subseteq Datagrams /\ copies' \in 0 .. MaxCopies
        <5>1. {SessionKeyExchange(h, TRUE, rec[h].mine)} \subseteq Datagrams
          <6>1. rec[h].mine \in Keys
            BY <1>0
          <6> QED BY <6>1, MadeDatagrams
        <5> QED BY <2>3, <3>5, <2>0, <5>1 DEF HandlePublicKeyReply
      <4>8. Shaped(h)
        BY <2>3, <3>2, <3>3, <4>1, <4>2, <1>0
           DEF HandlePublicKeyReply, TypeOK, place, Shaped
      <4>9. /\ rec'[h].inner => same /\ bare'[h] = NewBare
            /\ cookies'[h] \subseteq 1 .. drawn'[h]
            /\ drawn'[h] <= MaxCookies[h] /\ sends'[h] <= MaxSends[h]
            /\ knows' \in [Hosts -> BOOLEAN] /\ hole' \in [Hosts -> BOOLEAN]
            /\ expired' \in [Hosts -> BOOLEAN]
        BY <2>3, <3>2, <3>3, <4>1, <4>2, <1>0, SlaveAssumption
           DEF HandlePublicKeyReply, TypeOK
      <4> QED BY <4>3, <4>8, <4>9, TypeStep
    <3> QED BY <3>4, <3>5
  <2>4. CASE HandleSessionKeyBare(h, p)
    <3>1. net' \subseteq Datagrams /\ copies' \in 0 .. MaxCopies
      BY <2>4, <2>0, MadeDatagrams DEF HandleSessionKeyBare, Keys
    <3>2. [bare[h] EXCEPT !.his = p.key] \in BareRecords
      BY <2>4, <1>0, DatagramFields DEF BareRecords, HandleSessionKeyBare, Arrives
    <3>3. bare' = [bare EXCEPT ![h] = [bare[h] EXCEPT !.his = p.key]]
      BY <2>4 DEF HandleSessionKeyBare
    <3>8. Shaped(h)
      BY <2>4, <3>2, <3>3, <1>0
         DEF HandleSessionKeyBare, TypeOK, Unassociated, place, Shaped
    <3>9. /\ rec'[h].inner => same /\ bare'[h] = NewBare
          /\ cookies'[h] \subseteq 1 .. drawn'[h]
          /\ drawn'[h] <= MaxCookies[h] /\ sends'[h] <= MaxSends[h]
          /\ knows' \in [Hosts -> BOOLEAN] /\ hole' \in [Hosts -> BOOLEAN]
          /\ expired' \in [Hosts -> BOOLEAN]
      BY <2>4, <3>2, <3>3, <1>0, SlaveAssumption
         DEF HandleSessionKeyBare, TypeOK, Unassociated
    <3> QED BY <3>1, <3>8, <3>9, TypeStep
  <2>5. CASE HandleSessionKey(h, p)
    <3> DEFINE r == [rec[h] EXCEPT !.his = p.key, !.queue = {}, !.timer = FALSE,
                                   !.awaiting = FALSE]
    <3>1. r \in Records /\ r.inner = rec[h].inner
      BY <2>5, <1>0, DatagramFields DEF Records, HandleSessionKey, Arrives
    <3>2. net' \subseteq Datagrams /\ copies' \in 0 .. MaxCopies
      <4>1. /\ SessionKeyExchange(h, FALSE, rec[h].mine) \in Datagrams
            /\ LocalRewrite(h, rec[h].mine) \in Datagrams
        BY <1>0, MadeDatagrams
      <4>2. (IF p.need THEN {SessionKeyExchange(h, FALSE, rec[h].mine)} ELSE {})
              \cup Emitted(h, rec[h]) \subseteq Datagrams
        BY <4>1 DEF Emitted
      <4> QED BY <2>5, <2>0, <4>2 DEF HandleSessionKey
    <3>3. rec' = [rec EXCEPT ![h] = r]
      BY <2>5 DEF HandleSessionKey
    <3>8. Shaped(h)
      BY <2>5, <3>1, <3>3, <1>0 DEF HandleSessionKey, TypeOK, place, Shaped
    <3>9. /\ rec'[h].inner => same /\ bare'[h] = NewBare
          /\ cookies'[h] \subseteq 1 .. drawn'[h]
          /\ drawn'[h] <= MaxCookies[h] /\ sends'[h] <= MaxSends[h]
          /\ knows' \in [Hosts -> BOOLEAN] /\ hole' \in [Hosts -> BOOLEAN]
          /\ expired' \in [Hosts -> BOOLEAN]
      BY <2>5, <3>1, <3>3, <1>0, SlaveAssumption DEF HandleSessionKey, TypeOK
    <3> QED BY <3>2, <3>8, <3>9, TypeStep
  <2>6. CASE HandleLocalRewrite(h, p)
    <3>1. Associated(h) \in Records
      BY <1>0 DEF Associated, Records, BareRecords, Keys
    <3>2. net' \subseteq Datagrams /\ copies' \in 0 .. MaxCopies
      BY <2>6, <2>0 DEF HandleLocalRewrite
    <3>8. Shaped(h)
      BY <2>6, <3>1, <1>0 DEF HandleLocalRewrite, TypeOK, Unassociated, place, Shaped
    <3>9. /\ rec'[h].inner => same /\ bare'[h] = NewBare
          /\ cookies'[h] \subseteq 1 .. drawn'[h]
          /\ drawn'[h] <= MaxCookies[h] /\ sends'[h] <= MaxSends[h]
          /\ knows' \in [Hosts -> BOOLEAN] /\ hole' \in [Hosts -> BOOLEAN]
          /\ expired' \in [Hosts -> BOOLEAN]
      BY <2>6, <3>1, <1>0, SlaveAssumption DEF HandleLocalRewrite, TypeOK, Unassociated
    <3> QED BY <3>2, <3>8, <3>9, TypeStep
  <2>7. CASE HandleUseless(h, p)
    <3>1. net' \subseteq Datagrams /\ copies' \in 0 .. MaxCopies
      BY <2>7, <2>0 DEF HandleUseless
    <3> QED BY <2>7, <3>1 DEF HandleUseless, TypeOK, place
  <2> QED BY <1>5, <2>1, <2>2, <2>3, <2>4, <2>5, <2>6, <2>7 DEF HandlePacket
<1> QED BY <1>1, <1>2, <1>3, <1>4, <1>5 DEF Next

\* The state of two slaves is well typed, and neither ever has two records of one
\* endpoint of the other: wrapNode finds one record for each source.
THEOREM TypeCorrect == Spec => []TypeOK
  BY InitType, NextType, PTL DEF Spec

-----------------------------------------------------------------------------
(* What waits is attended to. *)

\* r is what a step makes of the record of h.
After(h, r) ==
    \/ r = rec[h]
    \/ r = Pushed(rec[h], "packet")
    \/ r = [rec[h] EXCEPT !.auth = TRUE]
    \/ r = Pushed(Rewritten(rec[h]), "rewrite")
    \/ r = Associated(h)
    \/ \E k : r = [rec[h] EXCEPT !.his = k, !.queue = {}, !.timer = FALSE, !.awaiting = FALSE]
    \/ r = [rec[h] EXCEPT !.queue = {}, !.timer = FALSE, !.awaiting = FALSE]

LEMMA RecordAfter ==
    ASSUME TypeOK, NEW h \in Hosts,
           \/ Send(h) \/ NegotiationTimeout(h)
           \/ \E p \in net : HandlePacket(h, p)
    PROVE  /\ \A g \in Hosts : g # h => rec'[g] = rec[g]
           /\ After(h, rec'[h])
<1> USE DEF TypeOK, After
<1>1. CASE Send(h)
  BY <1>1 DEF Send
<1>2. CASE NegotiationTimeout(h)
  BY <1>2 DEF NegotiationTimeout
<1>3. ASSUME NEW p \in net, HandlePacket(h, p)
      PROVE  \/ UNCHANGED rec
             \/ rec' = [rec EXCEPT ![h] = Pushed(rec[h], "packet")]
             \/ rec' = [rec EXCEPT ![h] = [rec[h] EXCEPT !.auth = TRUE]]
             \/ rec' = [rec EXCEPT ![h] = Pushed(Rewritten(rec[h]), "rewrite")]
             \/ rec' = [rec EXCEPT ![h] = Associated(h)]
             \/ rec' = [rec EXCEPT ![h] = [rec[h] EXCEPT !.his = p.key, !.queue = {},
                                           !.timer = FALSE, !.awaiting = FALSE]]
  <2>1. CASE HandleTunnelRoute(h, p)
    BY <2>1 DEF HandleTunnelRoute
  <2>2. CASE HandlePublicKeyRequest(h, p)
    BY <2>2 DEF HandlePublicKeyRequest
  <2>3. CASE HandlePublicKeyReply(h, p)
    BY <2>3 DEF HandlePublicKeyReply
  <2>4. CASE HandleSessionKeyBare(h, p) \/ HandleUseless(h, p)
    BY <2>4 DEF HandleSessionKeyBare, HandleUseless
  <2>5. CASE HandleSessionKey(h, p)
    BY <2>5 DEF HandleSessionKey
  <2>6. CASE HandleLocalRewrite(h, p)
    BY <2>6 DEF HandleLocalRewrite
  <2> QED BY <1>3, <2>1, <2>2, <2>3, <2>4, <2>5, <2>6 DEF HandlePacket
<1> QED BY <1>1, <1>2, <1>3

LEMMA InitAttended == Init => AttendedInv
<1>1. Tended(NewRecord)
  BY DEF Tended, NewRecord
<1> QED BY <1>1 DEF Init, AttendedInv

LEMMA NextAttended == TypeOK /\ AttendedInv /\ [Next]_vars => AttendedInv'
<1> SUFFICES ASSUME TypeOK, AttendedInv, [Next]_vars PROVE AttendedInv'
  OBVIOUS
<1>1. CASE UNCHANGED vars
  BY <1>1 DEF vars, AttendedInv, Tended
<1>2. ASSUME NEW p \in net, Redirect(p) PROVE AttendedInv'
  BY <1>2 DEF Redirect, AttendedInv, Tended
<1>3. ASSUME NEW h \in Hosts,
             \/ Send(h) \/ NegotiationTimeout(h)
             \/ \E p \in net : HandlePacket(h, p)
      PROVE  AttendedInv'
  <2>1. rec[h] \in Records /\ Tended(rec[h])
    BY DEF TypeOK, AttendedInv
  <2>2. ASSUME NEW r \in Records, NEW x \in Loads, Tended(r) PROVE Tended(Pushed(r, x))
    <3>1. CASE Negotiated(r)
      BY <2>2, <3>1, PushedFields
    <3>2. CASE ~Negotiated(r)
      <4>1. Pushed(r, x).timer /\ Pushed(r, x).awaiting
        BY <2>2, <3>2, PushedFields DEF Opens, Tended, Records
      <4> QED BY <4>1 DEF Tended
    <3> QED BY <3>1, <3>2
  <2>3. Rewritten(rec[h]) \in Records /\ Tended(Rewritten(rec[h]))
    BY <2>1 DEF Rewritten, Records, Tended
  <2>4. Tended(Associated(h)) /\ Tended([rec[h] EXCEPT !.auth = TRUE])
    BY <2>1 DEF Associated, Records, Tended
  <2>5. /\ \A k : Tended([rec[h] EXCEPT !.his = k, !.queue = {}, !.timer = FALSE,
                                        !.awaiting = FALSE])
        /\ Tended([rec[h] EXCEPT !.queue = {}, !.timer = FALSE, !.awaiting = FALSE])
    BY <2>1 DEF Records, Tended
  <2>6. Tended(rec'[h])
    <3>1. Tended(Pushed(rec[h], "packet")) /\ Tended(Pushed(Rewritten(rec[h]), "rewrite"))
      BY <2>1, <2>2, <2>3 DEF Loads
    <3>2. \A r : After(h, r) => Tended(r)
      BY <2>1, <2>4, <2>5, <3>1 DEF After
    <3> QED BY <1>3, <3>2, RecordAfter
  <2>7. \A g \in Hosts : g # h => Tended(rec'[g])
    BY <1>3, RecordAfter DEF AttendedInv
  <2> QED BY <2>6, <2>7 DEF AttendedInv, Tended
<1> QED BY <1>1, <1>2, <1>3 DEF Next

\* Whatever a slave holds back for another has a running timer, whichever end began,
\* whatever is late or repeated, and also after LocalRewrite put a session into a record
\* that was waiting for its own.
THEOREM AttendedAlways == Spec => []Attended
<1>1. TypeOK /\ AttendedInv => Attended
  BY DEF AttendedInv, Attended, Tended
<1>2. Spec => []AttendedInv
  BY InitAttended, NextAttended, TypeCorrect, PTL DEF Spec
<1> QED BY <1>1, <1>2, TypeCorrect, PTL

-----------------------------------------------------------------------------
(* Keys only between hosts behind NAT. *)

LEMMA PlaceKept == Next => UNCHANGED place
<1>1. \A p \in net : Redirect(p) => UNCHANGED place
  BY DEF Redirect
<1>2. \A h \in Hosts : Send(h) \/ NegotiationTimeout(h) => UNCHANGED place
  BY DEF Send, NegotiationTimeout
<1>3. ASSUME NEW h \in Hosts, NEW p \in net, HandlePacket(h, p) PROVE UNCHANGED place
  <2>1. HandleTunnelRoute(h, p) => UNCHANGED place
    BY DEF HandleTunnelRoute
  <2>2. HandlePublicKeyRequest(h, p) \/ HandlePublicKeyReply(h, p) => UNCHANGED place
    BY DEF HandlePublicKeyRequest, HandlePublicKeyReply
  <2>3. HandleSessionKeyBare(h, p) \/ HandleSessionKey(h, p) => UNCHANGED place
    BY DEF HandleSessionKeyBare, HandleSessionKey
  <2>4. HandleLocalRewrite(h, p) \/ HandleUseless(h, p) => UNCHANGED place
    BY DEF HandleLocalRewrite, HandleUseless
  <2> QED BY <1>3, <2>1, <2>2, <2>3, <2>4 DEF HandlePacket
<1> QED BY <1>1, <1>2, <1>3 DEF Next

LEMMA InitNat == Init => NatInv
  BY DEF Init, NatInv, Negotiated, NewRecord, NewBare

LEMMA NextNat == TypeOK /\ NatInv /\ [Next]_vars => NatInv'
<1> SUFFICES ASSUME TypeOK, NatInv, [Next]_vars PROVE NatInv'
  OBVIOUS
<1>0. CASE UNCHANGED vars
  BY <1>0 DEF vars, place, NatInv, Negotiated, Tunnels
<1>1. CASE Tunnels /\ UNCHANGED place
  BY <1>1 DEF NatInv, Tunnels, place
<1> DEFINE Plain(p) == p.type \notin {"PublicKeyExchange", "SessionKeyExchange"}
           Keyless(h) == rec[h].his = NoKey /\ bare[h].his = NoKey
<1>2. ASSUME ~Tunnels, \A p \in net' : Plain(p), \A h \in Hosts : Keyless(h)'
      PROVE  NatInv'
  BY <1>2 DEF NatInv, Negotiated
<1>3. ASSUME ~Tunnels
      PROVE  (\A p \in net : Plain(p)) /\ \A h \in Hosts : Keyless(h)
  BY <1>3 DEF NatInv, Negotiated
<1>4. \A h \in Hosts : Plain(BacklinkRedirect(h)) /\ Plain(TunnelRoute(h))
  BY DEF BacklinkRedirect, TunnelRoute, Datagram
<1>5. ASSUME NEW p \in net, Redirect(p), ~Tunnels PROVE NatInv'
  <2>1. p.from \in Hosts
    BY DatagramFields DEF TypeOK
  <2>2. \A q \in net' : Plain(q)
    BY <1>5, <1>3, <1>4, <2>1, HandledNet DEF Redirect
  <2> QED BY <1>5, <1>2, <1>3, <2>2 DEF Redirect
<1>6. ASSUME NEW h \in Hosts, Send(h), ~Tunnels PROVE NatInv'
  <2>1. rec[h] \in Records
    BY DEF TypeOK
  <2>2. rec' = [rec EXCEPT ![h] = Pushed(rec[h], "packet")] /\ UNCHANGED bare
    BY <1>6 DEF Send
  <2>3. Pushed(rec[h], "packet").his = rec[h].his
    BY <2>1, PushedFields DEF Loads
  <2>4. \A g \in Hosts : Keyless(g)'
    BY <1>3, <1>6, <2>2, <2>3 DEF TypeOK
  <2>5. \A q \in net' : Plain(q)
    BY <1>6, <1>3, <1>4 DEF Send, Detour
  <2> QED BY <1>2, <1>6, <2>4, <2>5
<1>7. ASSUME NEW h \in Hosts, NegotiationTimeout(h), ~Tunnels PROVE NatInv'
  <2>1. \A g \in Hosts : Keyless(g)'
    BY <1>3, <1>7 DEF NegotiationTimeout, TypeOK, Records
  <2> QED BY <1>2, <1>3, <1>7, <2>1 DEF NegotiationTimeout
<1>8. ASSUME NEW h \in Hosts, NEW p \in net, HandlePacket(h, p), ~Tunnels PROVE NatInv'
  <2>1. ~HandlePublicKeyRequest(h, p) /\ ~HandlePublicKeyReply(h, p)
    BY <1>3, <1>8 DEF HandlePublicKeyRequest, HandlePublicKeyReply, Arrives
  <2>2. ~HandleSessionKeyBare(h, p) /\ ~HandleSessionKey(h, p)
    BY <1>3, <1>8 DEF HandleSessionKeyBare, HandleSessionKey, Arrives
  <2>3. ~HandleLocalRewrite(h, p)
    <3>1. p \in Datagrams
      BY DEF TypeOK
    <3>2. p.type = "LocalRewrite" => p.key \in Keys
      BY <3>1, DatagramFields
    <3> QED BY <3>2, <1>3, <1>8 DEF HandleLocalRewrite, Arrives, Keys, NoKey
  <2>4. CASE HandleTunnelRoute(h, p) \/ HandleUseless(h, p)
    <3>1. Handled(p, {}) /\ UNCHANGED <<rec, bare>>
      BY <1>8, <2>4 DEF HandleTunnelRoute, HandleUseless
    <3>2. \A q \in net' : Plain(q)
      BY <1>3, <1>8, <3>1, HandledNet
    <3> QED BY <1>2, <1>3, <1>8, <3>1, <3>2
  <2> QED BY <1>8, <2>1, <2>2, <2>3, <2>4 DEF HandlePacket
<1> QED BY <1>0, <1>1, <1>5, <1>6, <1>7, <1>8, PlaceKept DEF Next

-----------------------------------------------------------------------------
(* The keys of the two ends fit. *)

\* What a datagram says stays true while both go on.
LEMMA FitsKept ==
    ASSUME TypeOK, NEW q \in net, Fits(q), same' = same,
           \A x \in Hosts : /\ Begun(x) => Begun(x)'
                            /\ Engaged(x) => Engaged(x)' /\ (Begun(x) \/ ~Begun(x)')
                            /\ rec[x].inner => rec'[x].inner
    PROVE  Fits(q)'
<1>1. q.from \in Hosts /\ Other(q.from) \in Hosts
  BY DatagramFields, OtherHost DEF TypeOK
<1>2. AnswerKey' = AnswerKey
  BY DEF AnswerKey
<1> QED BY <1>1, <1>2 DEF Fits

\* The same for the records of one end.
LEMMA RecordsKept ==
    ASSUME NEW h \in Hosts, RecordsAt(h), same' = same, drawn' = drawn,
           bare'[h] = bare[h], rec'[h].inner = rec[h].inner,
           rec'[h].mine = rec[h].mine, rec'[h].his = rec[h].his,
           "rewrite" \in rec'[h].queue => "rewrite" \in rec[h].queue
    PROVE  RecordsAt(h)'
  BY DEF RecordsAt, AnswererAt, BeginnerAt, Begun, AnswerKey

\* A step of h that begins no handshake.
LEMMA LinkedStep ==
    ASSUME TypeOK, Linked, NEW h \in Hosts, same' = same, drawn' = drawn,
           rec'[Other(h)] = rec[Other(h)], bare'[Other(h)] = bare[Other(h)],
           RecordsAt(h)', Engaged(h) => Engaged(h)', rec[h].inner => rec'[h].inner,
           \A q \in net' : q \in net \/ Fits(q)'
    PROVE  Linked'
<1> DEFINE g == Other(h)
<1>1. g \in Hosts /\ g # h /\ Other(g) = h /\ \A x \in Hosts : x = h \/ x = g
  BY OtherHost
<1>2. \A x \in Hosts : Begun(x)' = Begun(x)
  BY DEF Begun
<1>3. Engaged(g)' = Engaged(g)
  BY DEF Engaged, Negotiated
<1>4. \A x \in Hosts : (Engaged(x) => Engaged(x)') /\ (rec[x].inner => rec'[x].inner)
  BY <1>1, <1>3
<1>5. \A q \in net' : Fits(q)'
  BY <1>2, <1>4, FitsKept DEF Linked
<1>6. \A x \in Hosts : SoleOpener(x)'
  BY <1>1, <1>2, <1>4, OtherHost DEF SoleOpener, Linked
<1>7. RecordsAt(g)'
  BY <1>1, RecordsKept DEF Linked
<1>8. \A x \in Hosts : RecordsAt(x)'
  BY <1>1, <1>7
<1> QED BY <1>5, <1>6, <1>8 DEF Linked

\* What the datagrams of h say once they are on the way.
LEMMA MadeFits ==
    ASSUME NEW h \in Hosts
    PROVE  /\ ~Begun(h)' /\ Engaged(h)' => Fits(BacklinkRedirect(h))' /\ Fits(TunnelRoute(h))'
           /\ \A c : /\ Begun(h)' => Fits(PublicKeyExchange(h, TRUE, c))'
                     /\ Begun(Other(h))' => Fits(PublicKeyExchange(h, FALSE, c))'
           /\ Begun(h)' /\ (same' => rec'[h].inner) =>
                  Fits(SessionKeyExchange(h, TRUE, "routed"))'
           /\ Begun(Other(h))' /\ (same' => rec'[Other(h)].inner) =>
                  \A k : k = AnswerKey' => Fits(SessionKeyExchange(h, FALSE, k))'
           /\ Begun(h)' /\ same' => Fits(LocalRewrite(h, "routed"))'
  BY DEF Fits, BacklinkRedirect, TunnelRoute, PublicKeyExchange, SessionKeyExchange,
         LocalRewrite, Datagram

LEMMA InitLinked == Init => Linked
<1> SUFFICES ASSUME Init PROVE Linked
  OBVIOUS
<1>1. \A h \in Hosts : ~Begun(h)
  BY DEF Init, Begun
<1>2. \A h \in Hosts : rec[h] = NewRecord /\ bare[h] = NewBare
  BY DEF Init
<1>3. \A h \in Hosts : SoleOpener(h) /\ RecordsAt(h)
  BY <1>1, <1>2, OtherHost DEF SoleOpener, RecordsAt, BeginnerAt, NewRecord
<1> QED BY <1>3 DEF Init, Linked

LEMMA SendLinked ==
    ASSUME TypeOK, Linked, NEW h \in Hosts, Send(h)
    PROVE  Linked'
<1> DEFINE r == rec[h]
           g == Other(h)
<1>1. r \in Records /\ rec'[h] = Pushed(r, "packet") /\ g \in Hosts /\ g # h
  BY OtherHost DEF Send, TypeOK
<1>2. /\ rec'[g] = rec[g] /\ bare' = bare /\ drawn' = drawn /\ same' = same
      /\ net' \subseteq net \cup Detour(h, r)
  BY <1>1 DEF Send, TypeOK, place
<1>3. /\ rec'[h].inner = r.inner /\ rec'[h].mine = r.mine /\ rec'[h].his = r.his
      /\ rec'[h].queue \subseteq r.queue \cup {"packet"}
      /\ rec'[h].awaiting = (r.awaiting \/ ~Negotiated(r))
  BY <1>1, PushedFields DEF Loads
<1>4. RecordsAt(h)'
  BY <1>2, <1>3, RecordsKept DEF Linked
<1>5. Engaged(h)'
  BY <1>1, <1>3 DEF Engaged, Negotiated, Records
<1>6. \A q \in net' : q \in net \/ Fits(q)'
  <2>1. CASE Opens(r)
    <3>1. ~Begun(h)'
      BY <1>2, <2>1 DEF Opens, Linked, SoleOpener, Engaged, Begun
    <3> QED BY <3>1, <1>2, <1>5, MadeFits DEF Detour
  <2>2. CASE ~Opens(r)
    BY <1>2, <2>2 DEF Detour
  <2> QED BY <2>1, <2>2
<1> QED BY <1>2, <1>3, <1>4, <1>5, <1>6, LinkedStep

LEMMA RedirectLinked ==
    ASSUME TypeOK, Linked, NEW p \in net, Redirect(p)
    PROVE  Linked'
<1> DEFINE h == p.from
<1>1. h \in Hosts
  BY DatagramFields DEF TypeOK
<1>2. /\ rec' = rec /\ bare' = bare /\ drawn' = drawn /\ same' = same
      /\ net' \subseteq net \cup {TunnelRoute(h)}
  BY HandledNet DEF Redirect, place
<1>3. ~Begun(h)' /\ Engaged(h)'
  BY <1>2 DEF Redirect, Linked, Fits, Begun, Engaged, Negotiated
<1>4. Fits(TunnelRoute(h))'
  BY <1>1, <1>3, MadeFits
<1>5. RecordsAt(h)'
  BY <1>1, <1>2, RecordsKept DEF Linked
<1>6. \A q \in net' : q \in net \/ Fits(q)'
  BY <1>2, <1>4
<1> HIDE DEF h
<1> QED BY <1>1, <1>2, <1>3, <1>5, <1>6, LinkedStep

LEMMA TunnelRouteLinked ==
    ASSUME TypeOK, Linked, NEW h \in Hosts, NEW p \in net, HandleTunnelRoute(h, p)
    PROVE  Linked'
<1> DEFINE r == rec[h]
           g == Other(h)
<1>1. r \in Records /\ g \in Hosts /\ g # h /\ Other(g) = h /\ p.from = g
  BY OtherHost DEF HandleTunnelRoute, TypeOK
<1>2. rec'[g] = rec[g] /\ bare' = bare /\ same' = same
  BY <1>1 DEF HandleTunnelRoute, TypeOK, place
<1>3. /\ Pushed(r, "packet").inner = r.inner /\ Pushed(r, "packet").mine = r.mine
      /\ Pushed(r, "packet").his = r.his
      /\ Pushed(r, "packet").queue \subseteq r.queue \cup {"packet"}
      /\ Pushed(r, "packet").awaiting = (r.awaiting \/ ~Negotiated(r))
  BY <1>1, PushedFields DEF Loads
<1>4. CASE Tunnels /\ Opens(r)
  <2>1. /\ drawn' = [drawn EXCEPT ![h] = drawn[h] + 1] /\ rec'[h] = Pushed(r, "packet")
        /\ Handled(p, {PublicKeyExchange(h, TRUE, drawn'[h])})
    BY <1>4 DEF HandleTunnelRoute, TypeOK
  <2>2. ~Engaged(h) /\ ~Begun(h) /\ ~Begun(g)
    BY <1>1, <1>4 DEF Opens, Linked, SoleOpener, Engaged, Fits, HandleTunnelRoute
  <2>3. Begun(h)' /\ ~Begun(g)'
    BY <1>1, <2>1, <2>2 DEF Begun, TypeOK
  <2>4. Engaged(h)' /\ Engaged(g)' = Engaged(g)
    BY <1>1, <1>2, <1>3, <2>1 DEF Engaged, Negotiated, Records
  <2>5. \A x \in Hosts : x = h \/ x = g
    BY OtherHost
  <2>6. \A q \in net' : Fits(q)'
    <3>1. \A q \in net : Fits(q)'
      BY <1>1, <1>2, <1>3, <2>1, <2>2, <2>3, <2>4, <2>5, FitsKept DEF Linked
    <3>2. PICK c : c = drawn'[h]
      OBVIOUS
    <3>3. net' \subseteq net \cup {PublicKeyExchange(h, TRUE, c)}
      BY <2>1, <3>2, HandledNet
    <3>4. Fits(PublicKeyExchange(h, TRUE, c))'
      BY <2>3, MadeFits
    <3> QED BY <3>1, <3>3, <3>4
  <2>7. SoleOpener(h)' /\ SoleOpener(g)'
    BY <1>1, <2>3, <2>4 DEF SoleOpener
  <2>8. RecordsAt(h)'
    BY <1>1, <1>2, <1>3, <2>1, <2>2, <2>3 DEF Linked, RecordsAt, BeginnerAt, AnswerKey
  <2>9. RecordsAt(g)'
    BY <1>1, <1>2, <2>2, <2>3 DEF Linked, RecordsAt, BeginnerAt, AnswererAt, NewBare
  <2> QED BY <2>5, <2>6, <2>7, <2>8, <2>9 DEF Linked
<1>5. CASE ~(Tunnels /\ Opens(r))
  <2>1. /\ drawn' = drawn /\ (rec'[h] = Pushed(r, "packet") \/ rec'[h] = r)
        /\ net' \subseteq net \cup {}
    BY <1>5, HandledNet DEF HandleTunnelRoute, TypeOK
  <2>2. RecordsAt(h)'
    BY <1>2, <1>3, <2>1, RecordsKept DEF Linked
  <2>3. Engaged(h) => Engaged(h)'
    BY <1>1, <1>3, <2>1 DEF Engaged, Negotiated, Records
  <2>4. rec[h].inner => rec'[h].inner
    BY <1>3, <2>1
  <2> QED BY <1>2, <2>1, <2>2, <2>3, <2>4, LinkedStep
<1> QED BY <1>4, <1>5

LEMMA PublicKeyRequestLinked ==
    ASSUME TypeOK, Linked, NEW h \in Hosts, NEW p \in net, HandlePublicKeyRequest(h, p)
    PROVE  Linked'
<1> DEFINE g == Other(h)
<1>1. rec[h] \in Records /\ bare[h] \in BareRecords /\ g \in Hosts /\ g # h /\ p.from = g
  BY OtherHost DEF HandlePublicKeyRequest, Arrives, TypeOK
<1>2. /\ rec'[g] = rec[g] /\ bare'[g] = bare[g] /\ drawn' = drawn /\ same' = same
      /\ net' \subseteq net \cup {PublicKeyExchange(h, FALSE, p.cookie)}
  BY <1>1, HandledNet DEF HandlePublicKeyRequest, TypeOK, place
<1>3. Begun(g) /\ Begun(g)'
  BY <1>1, <1>2 DEF HandlePublicKeyRequest, Arrives, Linked, Fits, Begun
<1>4. /\ rec'[h].inner = rec[h].inner /\ rec'[h].mine = rec[h].mine
      /\ rec'[h].his = rec[h].his /\ rec'[h].queue = rec[h].queue
      /\ rec'[h].awaiting = rec[h].awaiting /\ bare'[h].his = bare[h].his
  BY <1>1 DEF HandlePublicKeyRequest, TypeOK, Records, BareRecords
<1>5. RecordsAt(h)'
  BY <1>2, <1>3, <1>4 DEF Linked, RecordsAt, AnswererAt, Begun
<1>6. Engaged(h) => Engaged(h)'
  BY <1>4 DEF Engaged, Negotiated
<1>7. \A q \in net' : q \in net \/ Fits(q)'
  BY <1>2, <1>3, MadeFits
<1> QED BY <1>2, <1>4, <1>5, <1>6, <1>7, LinkedStep

LEMMA PublicKeyReplyLinked ==
    ASSUME TypeOK, Linked, NEW h \in Hosts, NEW p \in net, HandlePublicKeyReply(h, p)
    PROVE  Linked'
<1> DEFINE r == rec[h]
           w == Rewritten(r)
           g == Other(h)
<1>1. r \in Records /\ g \in Hosts /\ g # h
  BY OtherHost DEF TypeOK
<1>2. /\ rec'[g] = rec[g] /\ bare'[g] = bare[g] /\ drawn' = drawn /\ same' = same
  BY <1>1 DEF HandlePublicKeyReply, TypeOK, place
<1>3. Begun(h) /\ ~Begun(g) /\ Engaged(h) /\ Begun(h)' /\ ~Begun(g)'
  <2>1. drawn[h] > 0
    BY DEF HandlePublicKeyReply, TypeOK
  <2> QED BY <1>2, <2>1 DEF Begun, Linked, SoleOpener
<1>4. BeginnerAt(h) /\ r.mine = "routed"
  BY <1>3 DEF Linked, RecordsAt, BeginnerAt
<1>5. CASE Unassociated(h)
  <2>1. /\ w \in Records /\ w.inner /\ w.mine = "routed" /\ w.his = r.his
        /\ w.queue = r.queue /\ w.awaiting = r.awaiting
    BY <1>1, <1>4 DEF Rewritten, Records
  <2>2. ~Opens(w)
    BY <1>3, <2>1 DEF Engaged, Opens, Negotiated
  <2>3. /\ rec'[h] = Pushed(w, "rewrite") /\ bare'[h] = NewBare
        /\ Handled(p, Detour(h, w) \cup {SessionKeyExchange(h, TRUE, w.mine)}
                      \cup (IF Negotiated(w) THEN {LocalRewrite(h, w.mine)} ELSE {}))
    BY <1>5 DEF HandlePublicKeyReply, TypeOK
  <2>4. \A q \in net' : \/ q \in net \/ q = SessionKeyExchange(h, TRUE, "routed")
                        \/ q = LocalRewrite(h, "routed")
    <3> DEFINE P == Detour(h, w) \cup {SessionKeyExchange(h, TRUE, w.mine)}
                    \cup (IF Negotiated(w) THEN {LocalRewrite(h, w.mine)} ELSE {})
    <3>1. net' \subseteq net \cup P
      <4> HIDE DEF P
      <4> QED BY <2>3, HandledNet DEF P
    <3>2. \A q \in P : q = SessionKeyExchange(h, TRUE, "routed") \/ q = LocalRewrite(h, "routed")
      BY <2>1, <2>2 DEF Detour
    <3> QED BY <3>1, <3>2
  <2>5. /\ rec'[h].inner /\ rec'[h].mine = "routed" /\ rec'[h].his = r.his
        /\ rec'[h].awaiting = (r.awaiting \/ ~Negotiated(w))
    BY <2>1, <2>3, PushedFields DEF Loads
  <2>6. Engaged(h)'
    BY <1>1, <1>3, <2>1, <2>5 DEF Engaged, Negotiated, Records
  <2>7. RecordsAt(h)'
    BY <1>2, <1>3, <1>4, <1>5, <2>3, <2>5
       DEF RecordsAt, BeginnerAt, AnswerKey, Unassociated
  <2>8. \A q \in net' : q \in net \/ Fits(q)'
    BY <1>2, <1>3, <1>5, <2>4, <2>5, MadeFits DEF Unassociated
  <2> QED BY <1>2, <2>5, <2>6, <2>7, <2>8, LinkedStep
<1>6. CASE ~Unassociated(h)
  <2>1. /\ rec'[h] = [r EXCEPT !.auth = TRUE] /\ bare' = bare
        /\ net' \subseteq net \cup {SessionKeyExchange(h, TRUE, "routed")}
    BY <1>4, <1>6, HandledNet DEF HandlePublicKeyReply, TypeOK
  <2>2. /\ rec'[h].inner = r.inner /\ rec'[h].mine = r.mine /\ rec'[h].his = r.his
        /\ rec'[h].queue = r.queue /\ rec'[h].awaiting = r.awaiting
    BY <1>1, <2>1 DEF Records
  <2>3. RecordsAt(h)'
    BY <1>2, <2>1, <2>2, RecordsKept DEF Linked
  <2>4. Engaged(h)'
    BY <1>3, <2>2 DEF Engaged, Negotiated
  <2>5. \A q \in net' : q \in net \/ Fits(q)'
    BY <1>2, <1>3, <1>6, <2>1, <2>2, MadeFits DEF Unassociated
  <2> QED BY <1>2, <2>2, <2>3, <2>4, <2>5, LinkedStep
<1> QED BY <1>5, <1>6

\* A session key that reaches the bare record is that of the end that began.
LEMMA SessionKeyBareLinked ==
    ASSUME TypeOK, Linked, NEW h \in Hosts, NEW p \in net, HandleSessionKeyBare(h, p)
    PROVE  Linked'
<1> DEFINE g == Other(h)
<1>1. /\ g \in Hosts /\ g # h /\ Other(g) = h /\ p.from = g /\ bare[h] \in BareRecords
      /\ same /\ ~rec[h].inner
  BY OtherHost DEF HandleSessionKeyBare, Arrives, Unassociated, TypeOK
<1>2. /\ rec' = rec /\ bare'[g] = bare[g] /\ drawn' = drawn /\ same' = same
      /\ net' \subseteq net \cup {SessionKeyExchange(h, FALSE, "bare")}
  <2>1. net' \subseteq net \cup (IF p.need THEN {SessionKeyExchange(h, FALSE, "bare")} ELSE {})
    BY HandledNet DEF HandleSessionKeyBare
  <2>2. rec' = rec /\ bare'[g] = bare[g] /\ drawn' = drawn /\ same' = same
    BY <1>1 DEF HandleSessionKeyBare, TypeOK, place
  <2> QED BY <2>1, <2>2
<1>3. p.need /\ Begun(g) /\ p.key = "routed" /\ rec[g].inner
  BY <1>1 DEF Linked, Fits, HandleSessionKeyBare, Arrives
<1>4. bare'[h].his = "routed"
  BY <1>1, <1>3 DEF HandleSessionKeyBare, TypeOK, BareRecords
<1>5. Begun(g)' /\ AnswerKey' = "bare"
  BY <1>1, <1>2, <1>3 DEF Begun, AnswerKey
<1>6. RecordsAt(h)'
  BY <1>2, <1>3, <1>4, <1>5 DEF Linked, RecordsAt, AnswererAt, Begun
<1>7. \A q \in net' : q \in net \/ Fits(q)'
  BY <1>2, <1>3, <1>5, MadeFits
<1>8. Engaged(h) => Engaged(h)'
  BY <1>2 DEF Engaged, Negotiated
<1> QED BY <1>2, <1>6, <1>7, <1>8, LinkedStep

LEMMA SessionKeyLinked ==
    ASSUME TypeOK, Linked, NEW h \in Hosts, NEW p \in net, HandleSessionKey(h, p)
    PROVE  Linked'
<1> DEFINE r == rec[h]
           g == Other(h)
<1>1. /\ r \in Records /\ g \in Hosts /\ g # h /\ Other(g) = h /\ p.from = g
      /\ same => r.inner
  BY OtherHost DEF HandleSessionKey, Arrives, Unassociated, TypeOK
<1>2. p.key \in Keys /\ p.type = "SessionKeyExchange"
  BY DatagramFields DEF HandleSessionKey, Arrives, TypeOK
<1>3. /\ rec'[g] = rec[g] /\ bare' = bare /\ drawn' = drawn /\ same' = same
      /\ rec'[h] = [r EXCEPT !.his = p.key, !.queue = {}, !.timer = FALSE, !.awaiting = FALSE]
      /\ net' \subseteq net \cup (IF p.need THEN {SessionKeyExchange(h, FALSE, r.mine)} ELSE {})
                            \cup Emitted(h, r)
  BY <1>1, HandledNet DEF HandleSessionKey, TypeOK, place
<1>4. /\ rec'[h].inner = r.inner /\ rec'[h].mine = r.mine /\ rec'[h].his = p.key
      /\ rec'[h].queue = {}
  BY <1>1, <1>3 DEF Records
<1>5. Engaged(h)'
  BY <1>2, <1>4 DEF Engaged, Negotiated, Keys, NoKey
<1>6. /\ p.need => Begun(g) /\ p.key = "routed" /\ (same => rec[g].inner)
      /\ ~p.need => Begun(h) /\ p.key = AnswerKey
  BY <1>1, <1>2 DEF Linked, Fits
<1>7. RecordsAt(h)'
  <2>1. CASE p.need
    BY <1>1, <1>3, <1>4, <1>6, <2>1 DEF Linked, RecordsAt, AnswererAt, Begun
  <2>2. CASE ~p.need
    BY <1>1, <1>3, <1>4, <1>6, <2>2
       DEF Linked, SoleOpener, RecordsAt, BeginnerAt, Begun, AnswerKey
  <2> QED BY <2>1, <2>2
<1>8. "rewrite" \in r.queue => r.mine = "routed" /\ Begun(h) /\ same
  BY DEF Linked, SoleOpener, RecordsAt, BeginnerAt
<1>9. p.need => r.mine = AnswerKey
  BY <1>1, <1>6 DEF Linked, RecordsAt, AnswererAt, AnswerKey
<1>10. \A q \in net' : q \in net \/ Fits(q)'
  <2>1. AnswerKey' = AnswerKey /\ Begun(h)' = Begun(h) /\ Begun(g)' = Begun(g)
    BY <1>3 DEF AnswerKey, Begun
  <2>2. p.need => Fits(SessionKeyExchange(h, FALSE, AnswerKey))'
    BY <1>3, <1>6, <2>1, MadeFits
  <2>3. "rewrite" \in r.queue => Fits(LocalRewrite(h, "routed"))'
    BY <1>3, <1>8, <2>1, MadeFits
  <2> QED BY <1>3, <1>8, <1>9, <2>1, <2>2, <2>3 DEF Emitted
<1> QED BY <1>3, <1>4, <1>5, <1>7, <1>10, LinkedStep

LEMMA LocalRewriteLinked ==
    ASSUME TypeOK, Linked, NEW h \in Hosts, NEW p \in net, HandleLocalRewrite(h, p)
    PROVE  Linked'
<1> DEFINE r == rec[h]
           g == Other(h)
<1>1. /\ r \in Records /\ g \in Hosts /\ g # h /\ p.from = g /\ p.type = "LocalRewrite"
      /\ bare[h].his = p.key
  BY OtherHost DEF HandleLocalRewrite, Arrives, TypeOK
<1>2. /\ rec'[g] = rec[g] /\ bare'[g] = bare[g] /\ drawn' = drawn /\ same' = same
      /\ rec'[h] = Associated(h) /\ bare'[h] = NewBare /\ net' \subseteq net
  BY <1>1, HandledNet DEF HandleLocalRewrite, TypeOK, place
<1>3. Begun(g) /\ p.key = "routed" /\ same
  BY <1>1 DEF Linked, Fits
<1>4. /\ rec'[h].inner /\ rec'[h].mine = "bare" /\ rec'[h].his = "routed"
      /\ rec'[h].queue = r.queue
  BY <1>1, <1>2, <1>3 DEF Associated, Records
<1>5. RecordsAt(h)'
  BY <1>2, <1>3, <1>4 DEF Linked, RecordsAt, AnswererAt, Begun, NewBare
<1>6. Engaged(h)'
  BY <1>4 DEF Engaged, Negotiated, NoKey
<1> QED BY <1>2, <1>4, <1>5, <1>6, LinkedStep

LEMMA NextKeys == TypeOK /\ KeysInv /\ [Next]_vars => KeysInv'
<1> SUFFICES ASSUME TypeOK, KeysInv, [Next]_vars, Quiet' PROVE Linked'
  BY DEF KeysInv
<1>1. CASE UNCHANGED vars
  <2>1. Linked
    BY <1>1 DEF KeysInv, Quiet, vars
  <2>2. same' = same /\ drawn' = drawn /\ rec' = rec /\ bare' = bare /\ net' = net
    BY <1>1 DEF vars, place
  <2>3. a \in Hosts
    BY DEF Hosts
  <2>4. RecordsAt(a)' /\ Engaged(a)' = Engaged(a)
    BY <2>1, <2>2, <2>3, RecordsKept DEF Linked, Engaged, Negotiated
  <2> QED BY <2>1, <2>2, <2>3, <2>4, LinkedStep
<1>2. ASSUME NEW p \in net, Redirect(p) PROVE Linked'
  <2>1. Linked
    BY <1>2 DEF Redirect, KeysInv, Quiet
  <2> QED BY <1>2, <2>1, RedirectLinked
<1>3. ASSUME NEW h \in Hosts, Send(h) PROVE Linked'
  <2>1. Linked
    BY <1>3 DEF Send, KeysInv, Quiet
  <2> QED BY <1>3, <2>1, SendLinked
<1>4. ASSUME NEW h \in Hosts, NegotiationTimeout(h) PROVE FALSE
  BY <1>4 DEF NegotiationTimeout, Quiet, TypeOK
<1>5. ASSUME NEW h \in Hosts, NEW p \in net, HandlePacket(h, p) PROVE Linked'
  <2>1. Linked
    <3>1. UNCHANGED expired
      <4>1. HandleTunnelRoute(h, p) => UNCHANGED expired
        BY DEF HandleTunnelRoute
      <4>2. HandlePublicKeyRequest(h, p) \/ HandlePublicKeyReply(h, p) => UNCHANGED expired
        BY DEF HandlePublicKeyRequest, HandlePublicKeyReply
      <4>3. HandleSessionKeyBare(h, p) \/ HandleSessionKey(h, p) => UNCHANGED expired
        BY DEF HandleSessionKeyBare, HandleSessionKey
      <4>4. HandleLocalRewrite(h, p) \/ HandleUseless(h, p) => UNCHANGED expired
        BY DEF HandleLocalRewrite, HandleUseless
      <4> QED BY <1>5, <4>1, <4>2, <4>3, <4>4 DEF HandlePacket
    <3> QED BY <3>1 DEF KeysInv, Quiet
  <2>2. CASE HandleUseless(h, p)
    <3>1. same' = same /\ drawn' = drawn /\ rec' = rec /\ bare' = bare /\ net' \subseteq net
      BY <2>2, HandledNet DEF HandleUseless, place
    <3>2. RecordsAt(h)' /\ Engaged(h)' = Engaged(h)
      BY <2>1, <3>1, RecordsKept DEF Linked, Engaged, Negotiated
    <3> QED BY <2>1, <3>1, <3>2, LinkedStep
  <2> QED
    BY <1>5, <2>1, <2>2, TunnelRouteLinked, PublicKeyRequestLinked, PublicKeyReplyLinked,
       SessionKeyBareLinked, SessionKeyLinked, LocalRewriteLinked DEF HandlePacket
<1> QED BY <1>1, <1>2, <1>3, <1>4, <1>5 DEF Next

\* Sessions exist only between slaves that are both behind NAT, and until a negotiation
\* times out each end encrypts with the key the other one decrypts with, also when
\* the two agreed on them through different records and rewrote them at different times.
THEOREM TunnelSoundAlways == Spec => []TunnelSound
<1>1. TypeOK /\ NatInv /\ KeysInv => TunnelSound
  <2> SUFFICES ASSUME TypeOK, NatInv, KeysInv PROVE TunnelSound
    OBVIOUS
  <2>1. \A h \in Hosts : Negotiated(rec[h]) \/ Negotiated(bare[h]) => Tunnels
    BY DEF NatInv
  <2>2. ASSUME Tunnel, \A h \in Hosts : ~expired[h], NEW h \in Hosts
        PROVE  rec[h].his = rec[Other(h)].mine
    <3> DEFINE g == Other(h)
    <3>1. g \in Hosts /\ Other(g) = h
      BY OtherHost
    <3>2. /\ SoleOpener(h) /\ SoleOpener(g) /\ RecordsAt(h) /\ RecordsAt(g)
          /\ rec[h].his # NoKey /\ rec[g].his # NoKey
      BY <2>2, <3>1 DEF KeysInv, Quiet, Linked, Tunnel, Negotiated
    <3> QED BY <3>1, <3>2
               DEF SoleOpener, RecordsAt, BeginnerAt, AnswererAt, AnswerKey
  <2> QED BY <2>1, <2>2 DEF TunnelSound
<1>2. Spec => []NatInv
  BY InitNat, NextNat, TypeCorrect, PTL DEF Spec
<1>3. Init => KeysInv
  BY InitLinked DEF KeysInv
<1>4. Spec => []KeysInv
  BY <1>3, NextKeys, TypeCorrect, PTL DEF Spec
<1> QED BY <1>1, <1>2, <1>4, TypeCorrect, PTL

=============================================================================
