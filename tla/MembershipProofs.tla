-------------------------- MODULE MembershipProofs --------------------------
(***************************************************************************)
(* Safety of the tables of a network, for any hosts, divisor and bounds.   *)
(***************************************************************************)
EXTENDS Membership, FiniteSetTheorems, TLAPS

-----------------------------------------------------------------------------
(* Packets and promotions. *)

\* A packet of the model has the type of packets.
LEMMA PacketTyped ==
    ASSUME NEW type \in PacketTypes, NEW h \in Hosts, NEW g \in Hosts, NEW t \in Hosts,
           NEW flag \in BOOLEAN
    PROVE  Packet(type, h, g, t, flag) \in Packets
  BY DEF Packet, Packets

\* The packets the handlers send have their type.
LEMMA Constructors ==
    ASSUME NEW h \in Hosts, NEW g \in Hosts, NEW t \in Hosts, NEW flag \in BOOLEAN
    PROVE  /\ MasterNodeRequest(h, g) \in Packets
           /\ MasterNodeReply(h, g, t) \in Packets
           /\ RegisterRequest(h, g) \in Packets
           /\ RegisterReply(h, g, flag) \in Packets
           /\ Route(h, g, t, flag) \in Packets
           /\ RouteRequest(h, g, t) \in Packets
           /\ RouteInvalidate(h, g, t) \in Packets
           /\ RoleUpdate(h, g) \in Packets
           /\ ExitNotification(h, g) \in Packets
  BY PacketTyped DEF PacketTypes, MasterNodeRequest, MasterNodeReply, RegisterRequest,
     RegisterReply, Route, RouteRequest, RouteInvalidate, RoleUpdate, ExitNotification

\* The fields of a packet.
LEMMA Fields ==
    ASSUME NEW p \in Packets
    PROVE  p.type \in PacketTypes /\ p.from \in Hosts /\ p.to \in Hosts
           /\ p.about \in Hosts /\ p.master \in BOOLEAN
  BY DEF Packets

\* What a promotion sends: routes, in which only the new master is flagged, and a role
\* update for it.
LEMMA PromotionSends ==
    ASSUME NEW h \in Hosts, NEW t \in Hosts, NEW others \in SUBSET Hosts,
           NEW q \in Promotion(h, t, others)
    PROVE  /\ q \in Packets
           /\ q.type \in {"Route", "RoleUpdate"}
           /\ q.type = "Route" /\ q.master => q.about = t
           /\ q.type = "Route" /\ ~q.master => q.about \in others
           /\ q.type = "RoleUpdate" => q.to = t /\ q.master
<1>1. CASE q = RoleUpdate(h, t)
  <2>1. q \in Packets
    BY <1>1, Constructors
  <2> QED
    BY <1>1, <2>1 DEF RoleUpdate, Packet
<1>2. ASSUME NEW g \in others, q = Route(h, g, t, TRUE) \/ q = Route(h, t, g, FALSE)
      PROVE  /\ q \in Packets
             /\ q.type = "Route"
             /\ q.master => q.about = t
             /\ ~q.master => q.about \in others
  <2>1. q \in Packets
    BY <1>2, Constructors
  <2> QED
    BY <1>2, <2>1 DEF Route, Packet
<1> QED
  BY <1>1, <1>2 DEF Promotion

\* The possible results of reincarnateSomeone: new flags are on slaves of the table, and
\* what is sent is about them.
LEMMA ReincarnationFacts ==
    ASSUME NEW h \in Hosts, NEW known \in SUBSET Hosts, NEW flagged \in SUBSET known,
           NEW r \in Reincarnations(h, known, flagged)
    PROVE  /\ r.new \subseteq known
           /\ r.flags = flagged \cup r.new
           /\ \A q \in r.sent :
                 /\ q \in Packets
                 /\ q.type \in {"Route", "RoleUpdate"}
                 /\ q.type = "Route" /\ q.master => q.about \in r.new
                 /\ q.type = "Route" /\ ~q.master => q.about \in known \ flagged
                 /\ q.type = "RoleUpdate" => q.to \in r.new /\ q.master
<1> DEFINE slaves == known \ flagged
<1>1. CASE slaves = {}
  BY <1>1 DEF Reincarnations
<1>2. CASE slaves # {}
  <2>1. PICK t \in slaves : r = [sent |-> Promotion(h, t, slaves \ {t}),
                                 flags |-> flagged \cup {t}, new |-> {t}]
    BY <1>2 DEF Reincarnations
  <2>2. \A q \in Promotion(h, t, slaves \ {t}) :
           /\ q \in Packets
           /\ q.type \in {"Route", "RoleUpdate"}
           /\ q.type = "Route" /\ q.master => q.about = t
           /\ q.type = "Route" /\ ~q.master => q.about \in slaves \ {t}
           /\ q.type = "RoleUpdate" => q.to = t /\ q.master
    <3>1. t \in Hosts /\ slaves \ {t} \in SUBSET Hosts
      OBVIOUS
    <3> QED
      BY <3>1, PromotionSends
  <2>3. r.sent = Promotion(h, t, slaves \ {t}) /\ r.flags = flagged \cup {t} /\ r.new = {t}
    BY <2>1
  <2> QED
    BY <2>2, <2>3
<1> QED
  BY <1>1, <1>2

\* The same in the table of h, where h leaves as the last master.
LEMMA OwnReincarnation ==
    ASSUME TypeOK, NEW h \in Hosts, NEW r \in Reincarnations(h, nodes[h], masters[h])
    PROVE  \A q \in r.sent :
              /\ q.type \in {"Route", "RoleUpdate"}
              /\ q.type = "Route" /\ q.master => q.about \in r.new
              /\ q.type = "RoleUpdate" => q.to \in r.new
<1>1. nodes[h] \in SUBSET Hosts /\ masters[h] \in SUBSET nodes[h]
  BY DEF TypeOK
<1> QED
  BY <1>1, ReincarnationFacts

\* The same of what a master does after a farewell, with or without a promotion.
LEMMA DepartureFacts ==
    ASSUME NEW h \in Hosts, NEW known \in SUBSET Hosts, NEW flagged \in SUBSET known,
           NEW r \in IF Scarce(h, known, flagged) THEN Reincarnations(h, known, flagged)
                     ELSE {[sent |-> {}, flags |-> flagged, new |-> {}]}
    PROVE  /\ r.new \subseteq known
           /\ r.flags = flagged \cup r.new
           /\ \A q \in r.sent :
                 /\ q \in Packets
                 /\ q.type \in {"Route", "RoleUpdate"}
                 /\ q.type = "Route" /\ q.master => q.about \in r.new
                 /\ q.type = "Route" /\ ~q.master => q.about \in known \ flagged
                 /\ q.type = "RoleUpdate" => q.to \in r.new /\ q.master
<1>1. CASE r \in Reincarnations(h, known, flagged)
  BY <1>1, ReincarnationFacts, ZenonT(60)
<1>2. CASE r = [sent |-> {}, flags |-> flagged, new |-> {}]
  BY <1>2
<1> QED
  BY <1>1, <1>2

\* Peers are nodes of the table; who is not the host itself has its flag from the table.
LEMMA PeerFacts ==
    ASSUME TypeOK, NEW h \in Hosts
    PROVE  /\ Peers(h) \subseteq nodes[h] /\ MasterPeers(h) \subseteq Peers(h)
           /\ nodes[h] \ {h} \subseteq Peers(h)
           /\ \A g \in nodes[h] \ {h} : g \in MasterPeers(h) <=> g \in masters[h]
           /\ MasterPeers(h) \subseteq Hosts
           /\ HasSelf(h) => (h \in Peers(h) <=> h = Founder /\ twin # "none")
           /\ HasSelf(h) => (h \in MasterPeers(h) <=> h = Founder /\ twin = "master")
           /\ ~HasSelf(h) => MasterPeers(h) = masters[h]
  BY DEF TypeOK, Peers, MasterPeers, Twin

\* What a registration announces: routes about the newcomer with its role, or about
\* other nodes with theirs, to the newcomer.  (The twin is not a slave, see Leads.)
LEMMA AnnouncementFacts ==
    ASSUME TypeOK, NEW h \in Hosts, NEW new \in Hosts, NEW flag \in BOOLEAN, IsMaster(h),
           NEW q \in Announcements(h, new, flag)
    PROVE  /\ q \in Packets
           /\ q.type = "Route" /\ q.from = h
           /\ \/ q.about = new /\ q.master = flag
              \/ q.about \in nodes[h] /\ q.master = (q.about \in masters[h])
              \/ q.about = h /\ ~q.master /\ twin = "slave"
<1>1. PICK g \in Peers(h) : \/ q = Route(h, new, g, g \in MasterPeers(h))
                            \/ q = Route(h, g, new, flag)
  BY PeerFacts DEF Announcements
<1>2. g \in nodes[h] /\ g \in Hosts /\ (g \in MasterPeers(h)) \in BOOLEAN
  BY <1>1, PeerFacts DEF TypeOK
<1>3. q \in Packets
  BY <1>1, <1>2, Constructors
<1>4. \/ (g \in MasterPeers(h)) = (g \in masters[h])
      \/ g = h /\ g \notin MasterPeers(h) /\ twin = "slave"
  BY <1>1, <1>2, PeerFacts DEF IsMaster, TypeOK
<1>5. CASE q = Route(h, new, g, g \in MasterPeers(h))
  BY <1>2, <1>3, <1>4, <1>5 DEF Route, Packet
<1>6. CASE q = Route(h, g, new, flag)
  BY <1>3, <1>6 DEF Route, Packet
<1> QED
  BY <1>1, <1>5, <1>6

\* A role is a Boolean.
LEMMA NewRoleTyped ==
    ASSUME NEW h \in Hosts
    PROVE  NewRole(h) \in BOOLEAN
  BY DEF NewRole

\* What a master does with the registration request p: it sends P, the routes in which
\* show the new host with its flag and the others as they are in the table.
Registration(h, p, flag, P) ==
    /\ net' = (net \ {p}) \cup P
    /\ Route(h, p.from, h, TRUE) \in P
    /\ \A q \in P :
          /\ q.type \in {"Route", "RegisterReply"}
          /\ q.type = "Route" =>
                \/ q.about = p.from /\ q.master = flag
                \/ q.about \in nodes[h] /\ q.master = (q.about \in masters[h])
                \/ q.about = h /\ ~q.master /\ twin = "slave"
          /\ q.type = "RegisterReply" => q.from = h /\ q.to = p.from /\ q.master = flag
    /\ UpdateNode(h, p.from, flag)
    /\ appointed' = IF flag THEN appointed \cup {p.from} ELSE appointed
    /\ registered' = [registered EXCEPT ![h] = @ \cup {p.from}]

\* handleRegisterRequest at a master.
LEMMA RegistrationStep ==
    ASSUME TypeOK, NEW h \in Hosts, NEW p \in net, p.from \in Hosts,
           HandleRegisterRequest(h, p), IsMaster(h), HasSelf(h)
    PROVE  \E flag \in BOOLEAN, P \in SUBSET Packets : Registration(h, p, flag, P)
<1> DEFINE flag == NewRole(h)
           P == Announcements(h, p.from, flag)
                \cup {Route(h, p.from, h, TRUE), RegisterReply(h, p.from, flag)}
<1>1. /\ Handled(p, P)
      /\ UpdateNode(h, p.from, flag)
      /\ appointed' = IF flag THEN appointed \cup {p.from} ELSE appointed
      /\ registered' = [registered EXCEPT ![h] = @ \cup {p.from}]
  BY DEF HandleRegisterRequest
<1>2. flag \in BOOLEAN
  BY NewRoleTyped
<1> HIDE DEF flag
<1>3. Route(h, p.from, h, TRUE) \in Packets /\ RegisterReply(h, p.from, flag) \in Packets
  BY <1>2, Constructors
<1>4. h \in nodes[h] /\ h \in masters[h]
  BY DEF IsMaster, TypeOK
<1>5. ASSUME NEW q \in P
      PROVE  /\ q \in Packets
             /\ q.type \in {"Route", "RegisterReply"}
             /\ q.type = "Route" =>
                   \/ q.about = p.from /\ q.master = flag
                   \/ q.about \in nodes[h] /\ q.master = (q.about \in masters[h])
                   \/ q.about = h /\ ~q.master /\ twin = "slave"
             /\ q.type = "RegisterReply" => q.from = h /\ q.to = p.from /\ q.master = flag
  <2>1. CASE q \in Announcements(h, p.from, flag)
    BY <1>2, <2>1, AnnouncementFacts
  <2>2. CASE q = Route(h, p.from, h, TRUE)
    BY <1>3, <1>4, <2>2 DEF Route, Packet
  <2>3. CASE q = RegisterReply(h, p.from, flag)
    BY <1>3, <2>3 DEF RegisterReply, Packet
  <2> QED
    BY <1>5, <2>1, <2>2, <2>3
<1>6. P \in SUBSET Packets /\ Route(h, p.from, h, TRUE) \in P
  BY <1>5
<1> HIDE DEF P
<1>7. Registration(h, p, flag, P)
  BY <1>1, <1>5, <1>6 DEF Registration, Handled
<1> QED
  BY <1>2, <1>6, <1>7

\* What a master does with the farewell p: it sends P, in which only the hosts in new
\* are named as masters, and makes them masters in its table.
Parting(h, p, new, P) ==
    /\ net' = (net \ {p}) \cup P
    /\ \A q \in P :
          /\ q.type \in {"RouteInvalidate", "Route", "RoleUpdate"}
          /\ q.type = "Route" /\ q.master => q.about \in new
          /\ q.type = "Route" /\ ~q.master => q.about \in nodes[h] \ masters[h]
          /\ q.type = "RoleUpdate" => q.to \in new /\ q.master
    /\ p.from \notin new
    /\ nodes' = [nodes EXCEPT ![h] = @ \ {p.from}]
    /\ masters' = [masters EXCEPT ![h] = (@ \ {p.from}) \cup new]
    /\ twin' = twin
    /\ appointed' = appointed \cup new

\* handleExitNotification at a master.
LEMMA PartingStep ==
    ASSUME TypeOK, NEW h \in Hosts, NEW p \in net, p.from \in Hosts,
           HandleExitNotification(h, p), IsMaster(h), HasSelf(h)
    PROVE  \E new \in SUBSET nodes[h], P \in SUBSET Packets : Parting(h, p, new, P)
<1> DEFINE known == nodes[h] \ {p.from}
           flagged == masters[h] \ {p.from}
<1>1. PICK r \in IF Scarce(h, known, flagged) THEN Reincarnations(h, known, flagged)
                 ELSE {[sent |-> {}, flags |-> flagged, new |-> {}]} :
         /\ Handled(p, Farewells(h, p.from) \cup r.sent)
         /\ nodes' = [nodes EXCEPT ![h] = known]
         /\ masters' = [masters EXCEPT ![h] = r.flags]
         /\ appointed' = appointed \cup r.new
         /\ twin' = twin
  BY DEF HandleExitNotification
<1>2. known \in SUBSET Hosts /\ flagged \in SUBSET known
  BY DEF TypeOK
<1>3. /\ r.new \subseteq known
      /\ r.flags = flagged \cup r.new
      /\ \A q \in r.sent :
            /\ q \in Packets
            /\ q.type \in {"Route", "RoleUpdate"}
            /\ q.type = "Route" /\ q.master => q.about \in r.new
            /\ q.type = "Route" /\ ~q.master => q.about \in known \ flagged
            /\ q.type = "RoleUpdate" => q.to \in r.new /\ q.master
  <2> HIDE DEF known, flagged
  <2> QED
    BY <1>2, DepartureFacts
<1>4. \A q \in Farewells(h, p.from) : q \in Packets /\ q.type = "RouteInvalidate"
  <2>1. ASSUME NEW t \in nodes[h]
        PROVE  RouteInvalidate(h, t, p.from) \in Packets
               /\ RouteInvalidate(h, t, p.from).type = "RouteInvalidate"
    <3>1. t \in Hosts
      BY DEF TypeOK
    <3> QED
      BY <3>1, Constructors DEF RouteInvalidate, Packet
  <2> QED
    BY <2>1, PeerFacts DEF Farewells
<1> DEFINE P == Farewells(h, p.from) \cup r.sent
<1>5. P \in SUBSET Packets /\ r.new \in SUBSET nodes[h]
  BY <1>3, <1>4
<1>6. Parting(h, p, r.new, P)
  <2>1. \A q \in P :
           /\ q.type \in {"RouteInvalidate", "Route", "RoleUpdate"}
           /\ q.type = "Route" /\ q.master => q.about \in r.new
           /\ q.type = "Route" /\ ~q.master => q.about \in nodes[h] \ masters[h]
           /\ q.type = "RoleUpdate" => q.to \in r.new /\ q.master
    BY <1>3, <1>4
  <2>2. masters' = [masters EXCEPT ![h] = (@ \ {p.from}) \cup r.new]
    BY <1>1, <1>3 DEF TypeOK
  <2> HIDE DEF P
  <2> QED
    BY <1>1, <1>3, <2>1, <2>2 DEF Parting, Handled, P
<1> QED
  BY <1>5, <1>6

-----------------------------------------------------------------------------
(* Types. *)

\* TypeOK is inductive with this: a host does not say goodbye to itself.
Farewell == \A p \in net : p.type = "ExitNotification" => p.from # p.to

TypeInv == TypeOK /\ Farewell

\* The updates keep the types of the tables.
LEMMA UpdateTyped ==
    ASSUME TypeOK, NEW h \in Hosts, NEW g \in Hosts, NEW flag \in BOOLEAN,
           UpdateNode(h, g, flag) \/ (g = h /\ UpdateSelf(h, flag))
    PROVE  /\ nodes' \in [Hosts -> SUBSET Hosts]
           /\ masters' \in [Hosts -> SUBSET Hosts]
           /\ twin' \in {"none", "slave", "master"}
           /\ \A k \in Hosts : masters'[k] \subseteq nodes'[k]
           /\ \A k \in Hosts : nodes[k] \subseteq nodes'[k]
           /\ UpdateSelf(h, flag) => h \in nodes'[h]
<1>1. CASE h = Founder /\ g = Founder /\ UpdateNode(h, g, flag)
  BY <1>1 DEF TypeOK, UpdateNode, UpdateSelf
<1>2. CASE /\ nodes' = [nodes EXCEPT ![h] = @ \cup {g}]
           /\ masters' = [masters EXCEPT ![h] = IF flag THEN @ \cup {g} ELSE @ \ {g}]
           /\ UNCHANGED twin
  BY <1>2 DEF TypeOK, UpdateSelf
<1> QED
  BY <1>1, <1>2 DEF UpdateNode, UpdateSelf

\* The end of a host keeps the types of what it changes.
LEMMA EndsTyped ==
    ASSUME TypeOK, NEW h \in Hosts, NEW fate \in Statuses \ {"joined"}, NEW P,
           P \subseteq Packets, Ends(h, fate, P)
    PROVE  /\ status' \in [Hosts -> Statuses]
           /\ nodes' \in [Hosts -> SUBSET Hosts]
           /\ masters' \in [Hosts -> SUBSET Hosts]
           /\ twin' \in {"none", "slave", "master"}
           /\ net' \subseteq P
           /\ \A k \in Hosts : masters'[k] \subseteq nodes'[k]
           /\ \A k \in Hosts : HasSelf(k)' => k \in nodes'[k]
  BY DEF TypeOK, Ends, HasSelf

\* The variables that count operations keep their types.
LEMMA OverlapsTyped ==
    ASSUME TypeOK, Overlaps
    PROVE  overlaps' \in 0 .. MaxOverlaps
<1>1. overlaps \in Nat /\ MaxOverlaps \in Nat /\ overlaps <= MaxOverlaps
  BY MembershipAssumption DEF TypeOK
<1>2. CASE Quiet
  BY <1>1, <1>2 DEF Overlaps
<1>3. CASE ~Quiet
  BY <1>1, <1>3 DEF Overlaps
<1> QED
  BY <1>2, <1>3

\* Entering the network.
LEMMA TypeEnter ==
    ASSUME TypeInv, NEW h \in Hosts,
           CreateNetwork(h) \/ JoinFails(h) \/ \E g \in Hosts : JoinNetwork(h, g)
    PROVE  TypeInv'
<1> USE DEF TypeInv
<1>1. CASE CreateNetwork(h)
  <2>1. UpdateSelf(h, TRUE)
    BY <1>1 DEF CreateNetwork
  <2>2. status' = [status EXCEPT ![h] = "joined"] /\ appointed' = appointed \cup {h}
        /\ UNCHANGED <<waiting, net, registered, overtaken, unheard, overlaps, data>>
    BY <1>1 DEF CreateNetwork
  <2> QED
    BY <2>1, <2>2, UpdateTyped DEF TypeOK, HasSelf, Statuses, Farewell
<1>2. CASE JoinFails(h)
  <2>1. Ends(h, "failed", net) /\ UNCHANGED <<waiting, history, data>>
    BY <1>2 DEF JoinFails
  <2>2. "failed" \in Statuses \ {"joined"} /\ net \subseteq Packets
    BY DEF Statuses, TypeOK
  <2> QED
    BY <2>1, <2>2, EndsTyped DEF TypeOK, Farewell, history
<1>3. ASSUME NEW g \in Hosts, JoinNetwork(h, g)
      PROVE  TypeInv'
  <2>1. /\ status' = [status EXCEPT ![h] = "asking"]
        /\ net' = net \cup {MasterNodeRequest(h, g)}
        /\ Overlaps
        /\ UNCHANGED <<tables, waiting, registered, appointed, overtaken, unheard, data>>
    BY <1>3 DEF JoinNetwork
  <2>2. MasterNodeRequest(h, g) \in Packets
        /\ MasterNodeRequest(h, g).type # "ExitNotification"
    BY Constructors DEF MasterNodeRequest, Packet
  <2>3. net' \subseteq Packets /\ Farewell'
    BY <2>1, <2>2 DEF TypeOK, Farewell
  <2>4. overlaps' \in 0 .. MaxOverlaps
    BY <2>1, OverlapsTyped
  <2> QED
    BY <2>1, <2>3, <2>4 DEF TypeOK, HasSelf, Statuses, tables
<1> QED
  BY <1>1, <1>2, <1>3

\* Finding a master.
LEMMA TypeMaster ==
    ASSUME TypeInv, NEW h \in Hosts, NEW p \in net,
           HandleMasterNodeRequest(h, p) \/ HandleMasterNodeReply(h, p)
    PROVE  TypeInv'
<1> USE DEF TypeInv
<1>0. p.from \in Hosts /\ p.about \in Hosts /\ net \subseteq Packets
  BY Fields DEF TypeOK
<1>1. ASSUME NEW m \in Choices(h, p.from), Handled(p, {MasterNodeReply(h, p.from, m)}),
             UNCHANGED <<status, tables, waiting, history, data>>
      PROVE  TypeInv'
  <2>1. m \in Hosts
    BY <1>1, PeerFacts DEF Choices
  <2>2. MasterNodeReply(h, p.from, m) \in Packets
        /\ MasterNodeReply(h, p.from, m).type # "ExitNotification"
    BY <1>0, <2>1, Constructors DEF MasterNodeReply, Packet
  <2>3. net' \subseteq Packets /\ Farewell'
    BY <1>1, <2>2 DEF TypeOK, Farewell, Handled
  <2> QED
    BY <1>1, <2>3 DEF TypeOK, HasSelf, tables, history
<1>2. CASE Ends(h, "unchosen", net) /\ UNCHANGED <<waiting, history, data>>
  <2>1. "unchosen" \in Statuses \ {"joined"}
    BY DEF Statuses
  <2> QED
    BY <1>0, <1>2, <2>1, EndsTyped DEF TypeOK, Farewell, history
<1>3. CASE HandleMasterNodeReply(h, p)
  <2>1. /\ status' = [status EXCEPT ![h] = "registering"] /\ status[h] = "asking"
        /\ net' = (net \ {p}) \cup {RegisterRequest(h, p.about)}
        /\ UNCHANGED <<tables, waiting, history, data>>
    BY <1>3 DEF HandleMasterNodeReply, Handled
  <2>2. RegisterRequest(h, p.about) \in Packets
        /\ RegisterRequest(h, p.about).type # "ExitNotification"
    BY <1>0, Constructors DEF RegisterRequest, Packet
  <2>3. net' \subseteq Packets /\ Farewell'
    BY <2>1, <2>2 DEF TypeOK, Farewell
  <2> QED
    BY <2>1, <2>3 DEF TypeOK, HasSelf, Statuses, tables, history
<1> QED
  BY <1>1, <1>2, <1>3 DEF HandleMasterNodeRequest

\* Registration.
LEMMA TypeRegister ==
    ASSUME TypeInv, NEW h \in Hosts, NEW p \in net,
           HandleRegisterRequest(h, p) \/ HandleRegisterReply(h, p)
    PROVE  TypeInv'
<1> USE DEF TypeInv
<1>0. p.from \in Hosts /\ p.master \in BOOLEAN /\ net \subseteq Packets
      /\ "null" \in Statuses \ {"joined"}
  BY Fields DEF TypeOK, Statuses
<1>1. CASE Ends(h, "null", net) /\ UNCHANGED <<waiting, history, data>>
  BY <1>0, <1>1, EndsTyped DEF TypeOK, Farewell, history
<1>2. CASE Handled(p, {}) /\ UNCHANGED <<status, tables, waiting, history, data>>
  BY <1>2 DEF TypeOK, Farewell, Handled, HasSelf, tables, history
<1>3. CASE HandleRegisterRequest(h, p) /\ IsMaster(h) /\ HasSelf(h)
  <2>1. PICK flag \in BOOLEAN, P \in SUBSET Packets : Registration(h, p, flag, P)
    BY <1>0, <1>3, RegistrationStep
  <2>2. UNCHANGED <<status, waiting, overtaken, unheard, overlaps, data>>
    BY <1>3 DEF HandleRegisterRequest
  <2>3. net' \subseteq Packets /\ Farewell'
    BY <2>1 DEF Registration, TypeOK, Farewell
  <2>4. UpdateNode(h, p.from, flag) /\ appointed' \subseteq Hosts
        /\ registered' \in [Hosts -> SUBSET Hosts]
    BY <1>0, <2>1 DEF Registration, TypeOK
  <2> QED
    BY <1>0, <2>2, <2>3, <2>4, UpdateTyped DEF TypeOK, HasSelf
<1>4. CASE HandleRegisterReply(h, p)
  <2>1. /\ status' = [status EXCEPT ![h] = "joined"]
        /\ UpdateSelf(h, p.master)
        /\ overtaken' \in {overtaken, overtaken \cup {h}}
        /\ net' = net \ {p}
        /\ UNCHANGED <<waiting, registered, appointed, unheard, overlaps, data>>
    BY <1>4 DEF HandleRegisterReply, Handled
  <2> QED
    BY <1>0, <2>1, UpdateTyped DEF TypeOK, HasSelf, Statuses, Farewell
<1> QED
  BY <1>1, <1>2, <1>3, <1>4 DEF HandleRegisterRequest, history, IsMaster

\* Routes.
LEMMA TypeRoute ==
    ASSUME TypeInv, NEW h \in Hosts, NEW p \in net,
           HandleRoute(h, p) \/ HandleRouteRequest(h, p) \/ HandleRouteInvalidate(h, p)
    PROVE  TypeInv'
<1> USE DEF TypeInv
<1>0. p.from \in Hosts /\ p.about \in Hosts /\ p.master \in BOOLEAN /\ net \subseteq Packets
      /\ {"null", "useless"} \subseteq Statuses \ {"joined"}
  BY Fields DEF TypeOK, Statuses
<1>1. CASE HandleRoute(h, p)
  <2>1. /\ net' = net \ {p} /\ UNCHANGED <<status, history, data>>
        /\ waiting' \in {waiting, [waiting EXCEPT ![h] = @ \ {p.about}]}
        /\ UpdateNode(h, p.about, p.master) \/ UNCHANGED tables
    BY <1>1 DEF HandleRoute, Handled
  <2>2. waiting' \in [Hosts -> SUBSET Hosts] /\ net' \subseteq Packets /\ Farewell'
    BY <2>1 DEF TypeOK, Farewell
  <2>3. CASE UNCHANGED tables
    BY <2>1, <2>2, <2>3 DEF TypeOK, HasSelf, tables, history
  <2>4. CASE UpdateNode(h, p.about, p.master)
    BY <1>0, <2>1, <2>2, <2>4, UpdateTyped DEF TypeOK, HasSelf, history
  <2> QED
    BY <2>1, <2>3, <2>4
<1>2. ASSUME NEW fate \in {"null", "useless"}, Ends(h, fate, net),
             UNCHANGED <<waiting, history, data>>
      PROVE  TypeInv'
  BY <1>0, <1>2, EndsTyped DEF TypeOK, Farewell, history
<1>3. CASE Handled(p, {}) /\ UNCHANGED <<status, tables, waiting, history, data>>
  BY <1>3 DEF TypeOK, Farewell, Handled, HasSelf, tables, history
<1>4. ASSUME NEW g \in Answers(h), Handled(p, {Route(h, p.from, g, g \in masters[h])}),
             UNCHANGED <<status, tables, waiting, history, data>>
      PROVE  TypeInv'
  <2>1. g \in Hosts /\ (g \in masters[h]) \in BOOLEAN
    BY <1>4 DEF Answers, TypeOK
  <2>2. Route(h, p.from, g, g \in masters[h]) \in Packets
    BY <1>0, <2>1, Constructors
  <2>3. Route(h, p.from, g, g \in masters[h]).type = "Route"
    BY DEF Route, Packet
  <2>4. net' \subseteq Packets /\ Farewell'
    BY <1>4, <2>2, <2>3 DEF TypeOK, Farewell, Handled
  <2> QED
    BY <1>4, <2>4 DEF TypeOK, HasSelf, tables, history
<1>5. CASE HandleRouteInvalidate(h, p)
  <2> DEFINE left == nodes[h] \ {p.about}
         others == IF HasSelf(h) THEN nodes[h] \ {h} ELSE nodes[h]
  <2>1. CASE p.about \in others /\ Remains(h, left) = "well"
    <3>1. /\ nodes' = [nodes EXCEPT ![h] = left]
          /\ masters' = [masters EXCEPT ![h] = @ \ {p.about}]
          /\ net' = net \ {p} /\ UNCHANGED <<status, twin, waiting, history, data>>
      BY <1>5, <2>1 DEF HandleRouteInvalidate, Handled
    <3>2. HasSelf(h) => p.about # h
      BY <2>1
    <3> QED
      BY <3>1, <3>2 DEF TypeOK, Farewell, HasSelf, history
  <2>2. Remains(h, left) \in {"well", "null", "useless"}
    BY DEF Remains
  <2> QED
    BY <1>2, <1>3, <1>5, <2>1, <2>2 DEF HandleRouteInvalidate
<1> QED
  BY <1>0, <1>1, <1>2, <1>3, <1>4, <1>5 DEF HandleRouteRequest

\* Data.
LEMMA TypeData ==
    ASSUME TypeInv, NEW h \in Hosts, NEW g \in Hosts, SendDataPacket(h, g)
    PROVE  TypeInv'
<1> USE DEF TypeInv
<1>1. /\ data < MaxData /\ data' = data + 1 /\ Overlaps
      /\ waiting' \in {waiting, [waiting EXCEPT ![h] = @ \cup {g}]}
      /\ UNCHANGED <<registered, appointed, overtaken, unheard>>
  BY DEF SendDataPacket
<1>2. overlaps' \in 0 .. MaxOverlaps /\ data' \in 0 .. MaxData
  BY <1>1, OverlapsTyped, MembershipAssumption DEF TypeOK
<1>3. waiting' \in [Hosts -> SUBSET Hosts]
  BY <1>1 DEF TypeOK
<1>4. CASE UNCHANGED <<status, tables, net>>
  BY <1>1, <1>2, <1>3, <1>4 DEF TypeOK, HasSelf, Farewell, tables
<1>5. ASSUME NEW m \in MasterPeers(h), net' = net \cup {RouteRequest(h, m, g)},
             UNCHANGED <<status, tables>>
      PROVE  TypeInv'
  <2>1. m \in Hosts
    BY <1>5, PeerFacts
  <2>2. RouteRequest(h, m, g) \in Packets /\ RouteRequest(h, m, g).type # "ExitNotification"
    BY <2>1, Constructors DEF RouteRequest, Packet
  <2>3. net' \subseteq Packets /\ Farewell'
    BY <1>5, <2>2 DEF TypeOK, Farewell
  <2> QED
    BY <1>1, <1>2, <1>3, <1>5, <2>3 DEF TypeOK, HasSelf, tables
<1>6. CASE Ends(h, "null", net)
  <2>1. "null" \in Statuses \ {"joined"} /\ net \subseteq Packets
    BY DEF Statuses, TypeOK
  <2> QED
    BY <1>1, <1>2, <1>3, <1>6, <2>1, EndsTyped DEF TypeOK, Farewell
<1> QED
  BY <1>4, <1>5, <1>6 DEF SendDataPacket

\* Leaving, as the host that leaves.
LEMMA TypeExit ==
    ASSUME TypeInv, NEW h \in Hosts, ExitNetwork(h)
    PROVE  TypeInv'
<1> USE DEF TypeInv
<1>1. /\ Overlaps
      /\ UNCHANGED <<waiting, registered, overtaken, data>>
  BY DEF ExitNetwork
<1>2. overlaps' \in 0 .. MaxOverlaps
  BY <1>1, OverlapsTyped
<1>3. {"left", "null"} \subseteq Statuses \ {"joined"} /\ net \subseteq Packets
      /\ nodes[h] \in SUBSET Hosts /\ masters[h] \in SUBSET nodes[h]
  BY DEF Statuses, TypeOK
<1>4. ASSUME NEW r \in Reincarnations(h, nodes[h], masters[h]), UNCHANGED unheard,
             Ends(h, "left", net \cup r.sent), appointed' = appointed \cup r.new
      PROVE  TypeInv'
  <2>1. /\ r.new \subseteq Hosts
        /\ r.sent \subseteq Packets /\ \A q \in r.sent : q.type # "ExitNotification"
    BY <1>3, ReincarnationFacts
  <2> QED
    BY <1>1, <1>2, <1>3, <1>4, <2>1, EndsTyped DEF TypeOK, Farewell
<1>5. ASSUME NEW m \in MasterPeers(h), UNCHANGED appointed,
             Ends(h, "left", net \cup {ExitNotification(h, m)}),
             unheard' \in {unheard, unheard \cup {h}}
      PROVE  TypeInv'
  <2>1. m \in Hosts
    BY PeerFacts
  <2>2. ExitNotification(h, m) \in Packets
        /\ ExitNotification(h, m).from = h /\ ExitNotification(h, m).to = m
    BY <2>1, Constructors DEF ExitNotification, Packet
  <2>3. net \cup {ExitNotification(h, m)} \subseteq Packets
        /\ \A q \in net' : q \in net \/ (q = ExitNotification(h, m) /\ q.to # h)
    BY <1>3, <1>5, <2>2 DEF Ends
  <2>4. Farewell'
    BY <2>2, <2>3 DEF Farewell
  <2> QED
    BY <1>1, <1>2, <1>3, <1>5, <2>3, <2>4, EndsTyped DEF TypeOK
<1>6. CASE Ends(h, "null", net) /\ UNCHANGED <<appointed, unheard>>
  BY <1>1, <1>2, <1>3, <1>6, EndsTyped DEF TypeOK, Farewell
<1> QED
  BY <1>4, <1>5, <1>6 DEF ExitNetwork

\* Leaving, as the hosts that stay.
LEMMA TypeLeft ==
    ASSUME TypeInv, NEW h \in Hosts, NEW p \in net,
           HandleExitNotification(h, p) \/ HandleRoleUpdate(h, p)
    PROVE  TypeInv'
<1> USE DEF TypeInv
<1>0. p.from \in Hosts /\ p.master \in BOOLEAN /\ net \subseteq Packets
      /\ "null" \in Statuses \ {"joined"}
  BY Fields DEF TypeOK, Statuses
<1>1. CASE Ends(h, "null", net) /\ UNCHANGED <<waiting, history, data>>
  BY <1>0, <1>1, EndsTyped DEF TypeOK, Farewell, history
<1>2. CASE Handled(p, {}) /\ UNCHANGED <<status, tables, waiting, history, data>>
  BY <1>2 DEF TypeOK, Farewell, Handled, HasSelf, tables, history
<1>3. CASE UpdateSelf(h, p.master) /\ Handled(p, {})
           /\ UNCHANGED <<status, waiting, history, data>>
  BY <1>0, <1>3, UpdateTyped DEF TypeOK, Farewell, Handled, HasSelf, history
<1>4. CASE HandleExitNotification(h, p) /\ IsMaster(h) /\ HasSelf(h)
  <2>1. PICK new \in SUBSET nodes[h], P \in SUBSET Packets : Parting(h, p, new, P)
    BY <1>0, <1>4, PartingStep
  <2>2. UNCHANGED <<status, waiting, registered, overtaken, unheard, overlaps, data>>
    BY <1>4 DEF HandleExitNotification
  <2>3. net' \subseteq Packets /\ Farewell'
    BY <2>1 DEF Parting, TypeOK, Farewell
  <2>4. p.from # h
    BY <1>4 DEF HandleExitNotification, Arrives, Farewell
  <2>5. /\ nodes' \in [Hosts -> SUBSET Hosts] /\ masters' \in [Hosts -> SUBSET Hosts]
        /\ appointed' \subseteq Hosts /\ twin' = twin
        /\ \A k \in Hosts : masters'[k] \subseteq nodes'[k]
    BY <2>1 DEF Parting, TypeOK
  <2>6. \A k \in Hosts : HasSelf(k)' => k \in nodes'[k]
    BY <2>1, <2>2, <2>4 DEF Parting, TypeOK, HasSelf
  <2> QED
    BY <2>2, <2>3, <2>5, <2>6 DEF TypeOK
<1> QED
  BY <1>1, <1>2, <1>3, <1>4
     DEF HandleExitNotification, HandleRoleUpdate, history, IsMaster

\* Every step keeps the types.
LEMMA TypeStep ==
    ASSUME TypeInv, [Next]_vars
    PROVE  TypeInv'
<1>1. CASE UNCHANGED vars
  BY <1>1 DEF TypeInv, TypeOK, Farewell, HasSelf, vars, tables, history
<1>2. CASE Next
  <2>1. PICK h \in Hosts :
           \/ CreateNetwork(h) \/ JoinFails(h) \/ ExitNetwork(h)
           \/ \E g \in Hosts \ {h} : JoinNetwork(h, g) \/ SendDataPacket(h, g)
           \/ \E p \in net : HandlePacket(h, p)
    BY <1>2 DEF Next
  <2>2. ASSUME NEW p \in net, HandlePacket(h, p)
        PROVE  TypeInv'
    BY <2>2, TypeMaster, TypeRegister, TypeRoute, TypeLeft DEF HandlePacket
  <2> QED
    BY <2>1, <2>2, TypeEnter, TypeData, TypeExit
<1> QED
  BY <1>1, <1>2

LEMMA TypeInit ==
    ASSUME Init
    PROVE  TypeInv
  BY MembershipAssumption DEF Init, TypeInv, TypeOK, Farewell, HasSelf, Statuses

\* TypeOK with what makes it inductive.
LEMMA TypeInvAlways == Spec => []TypeInv
  BY TypeInit, TypeStep, PTL DEF Spec

\* The tables of the routers keep their types: master flags are on nodes of the table,
\* and a host in the network is in its own table, whatever packets arrive.
THEOREM TypeCorrect == Spec => []TypeOK
<1>1. TypeInv => TypeOK
  BY DEF TypeInv
<1> QED
  BY <1>1, TypeInvAlways, PTL

-----------------------------------------------------------------------------
(* Queues. *)

\* Nothing waits for the host itself, which comes into its table without a route.
QueueInv == QueueWaitsForRoute /\ \A h \in Hosts : h \notin waiting[h]

\* A table that does not grow, with the same queues.
LEMMA QueueShrinks ==
    ASSUME QueueInv, UNCHANGED <<waiting, registered>>,
           \A h \in Hosts : nodes'[h] \subseteq nodes[h]
    PROVE  QueueInv'
  BY DEF QueueInv, QueueWaitsForRoute

\* The end of a host, whatever it has queued before.
LEMMA QueueEnds ==
    ASSUME TypeOK, QueueInv, NEW h \in Hosts, NEW g \in Hosts \ {h}, NEW fate, NEW P,
           Ends(h, fate, P), UNCHANGED registered,
           waiting' \in {waiting, [waiting EXCEPT ![h] = @ \cup {g}]}
    PROVE  QueueInv'
  BY DEF TypeOK, QueueInv, QueueWaitsForRoute, Ends

\* A host that comes into its own table.
LEMMA QueueSelf ==
    ASSUME TypeOK, QueueInv, NEW h \in Hosts, NEW flag \in BOOLEAN, UpdateSelf(h, flag),
           UNCHANGED <<waiting, registered>>
    PROVE  QueueInv'
  BY DEF TypeOK, QueueInv, QueueWaitsForRoute, UpdateSelf

LEMMA QueueStep ==
    ASSUME TypeInv, QueueInv, [Next]_vars
    PROVE  QueueInv'
<1> USE DEF TypeInv
<1>1. CASE UNCHANGED vars
  BY <1>1, QueueShrinks DEF vars, tables, history
<1>2. ASSUME NEW h \in Hosts,
             CreateNetwork(h) \/ JoinFails(h) \/ \E g \in Hosts \ {h} : JoinNetwork(h, g)
      PROVE  QueueInv'
  <2>1. CASE CreateNetwork(h)
    BY <2>1, QueueSelf DEF CreateNetwork
  <2>2. CASE JoinFails(h)
    BY <2>2, QueueShrinks DEF JoinFails, Ends, history, TypeOK
  <2>3. CASE \E g \in Hosts \ {h} : JoinNetwork(h, g)
    BY <2>3, QueueShrinks DEF JoinNetwork, tables
  <2> QED
    BY <1>2, <2>1, <2>2, <2>3
<1>3. ASSUME NEW h \in Hosts, ExitNetwork(h)
      PROVE  QueueInv'
  <2>1. UNCHANGED <<waiting, registered>> /\ nodes' = [nodes EXCEPT ![h] = {}]
    BY <1>3 DEF ExitNetwork, Ends
  <2> QED
    BY <2>1, QueueShrinks DEF TypeOK
<1>4. ASSUME NEW h \in Hosts, NEW g \in Hosts \ {h}, SendDataPacket(h, g)
      PROVE  QueueInv'
  <2>1. CASE Ends(h, "null", net)
    BY <1>4, <2>1, QueueEnds DEF SendDataPacket
  <2>2. CASE UNCHANGED tables
    BY <1>4, <2>2 DEF SendDataPacket, tables, TypeOK, QueueInv, QueueWaitsForRoute
  <2> QED
    BY <1>4, <2>1, <2>2 DEF SendDataPacket
<1>5. ASSUME NEW h \in Hosts, NEW p \in net, HandlePacket(h, p)
      PROVE  QueueInv'
  <2>0. p.from \in Hosts /\ p.about \in Hosts /\ p.master \in BOOLEAN
    BY Fields DEF TypeOK
  <2>1. CASE UNCHANGED <<nodes, waiting, registered>>
    BY <2>1, QueueShrinks
  <2>2. ASSUME NEW fate, Ends(h, fate, net), UNCHANGED <<waiting, registered>>
        PROVE  QueueInv'
    BY <2>2, QueueShrinks DEF Ends, TypeOK
  <2>3. CASE HandleRegisterRequest(h, p) /\ IsMaster(h) /\ HasSelf(h)
    <3>1. PICK flag \in BOOLEAN, P \in SUBSET Packets : Registration(h, p, flag, P)
      BY <2>0, <2>3, RegistrationStep
    <3>2. UNCHANGED waiting
      BY <2>3 DEF HandleRegisterRequest
    <3> QED
      BY <2>0, <3>1, <3>2
         DEF Registration, UpdateNode, TypeOK, QueueInv, QueueWaitsForRoute
  <2>4. CASE HandleRegisterReply(h, p)
    BY <2>0, <2>4, QueueSelf DEF HandleRegisterReply
  <2>5. CASE HandleRoute(h, p)
    BY <2>0, <2>5
       DEF HandleRoute, UpdateNode, tables, history, TypeOK, QueueInv, QueueWaitsForRoute
  <2>6. CASE HandleRouteInvalidate(h, p)
    <3>1. CASE nodes' = [nodes EXCEPT ![h] = nodes[h] \ {p.about}]
      BY <2>6, <3>1, QueueShrinks DEF HandleRouteInvalidate, history, TypeOK
    <3> QED
      BY <2>1, <2>2, <2>6, <3>1 DEF HandleRouteInvalidate, tables, history
  <2>7. CASE HandleExitNotification(h, p) /\ IsMaster(h) /\ HasSelf(h)
    <3>1. PICK new \in SUBSET nodes[h], P \in SUBSET Packets : Parting(h, p, new, P)
      BY <2>0, <2>7, PartingStep
    <3>2. UNCHANGED <<waiting, registered>>
      BY <2>7 DEF HandleExitNotification
    <3> QED
      BY <3>1, <3>2, QueueShrinks DEF Parting, TypeOK
  <2>8. CASE HandleRoleUpdate(h, p)
    BY <2>0, <2>1, <2>2, <2>8, QueueSelf DEF HandleRoleUpdate, tables, history
  <2>9. CASE HandleMasterNodeRequest(h, p) \/ HandleMasterNodeReply(h, p)
             \/ HandleRouteRequest(h, p)
    BY <2>1, <2>2, <2>9 DEF HandleMasterNodeRequest, HandleMasterNodeReply,
       HandleRouteRequest, tables, history
  <2>10. CASE HandleRegisterRequest(h, p) \/ HandleExitNotification(h, p)
    BY <2>1, <2>2, <2>3, <2>7, <2>10
       DEF HandleRegisterRequest, HandleExitNotification, tables, IsMaster
  <2> QED
    BY <1>5, <2>4, <2>5, <2>6, <2>8, <2>9, <2>10 DEF HandlePacket
<1> QED
  BY <1>1, <1>2, <1>3, <1>4, <1>5 DEF Next

\* Packets for an address wait only while the table has no route to it, whatever the
\* order of registrations, routes and departures; a host that registers here is the
\* only exception, since handleRegisterRequest does not send what waits for it.
THEOREM QueueCorrect == Spec => []QueueWaitsForRoute
<1>1. Init => QueueInv
  BY DEF Init, QueueInv, QueueWaitsForRoute
<1>2. QueueInv => QueueWaitsForRoute
  BY DEF QueueInv
<1> QED
  BY <1>1, <1>2, TypeInvAlways, QueueStep, PTL DEF Spec

-----------------------------------------------------------------------------
(* Appointments. *)

\* A reply or an update that makes its receiver a master comes after its appointment.
AppointedInv ==
    /\ MastersAppointed
    /\ \A p \in net :
          p.type \in {"RegisterReply", "RoleUpdate"} /\ p.master => p.to \in appointed

\* A step that flags nobody new and sends nothing that does.
LEMMA AppointedSame ==
    ASSUME AppointedInv, appointed \subseteq appointed',
           \A q \in net' : q \in net \/ q.type \notin {"Route", "RegisterReply", "RoleUpdate"},
           \A h \in Hosts : masters'[h] \subseteq masters[h]
    PROVE  AppointedInv'
  BY DEF AppointedInv, MastersAppointed

\* A host that updates a node whose flag is justified.
LEMMA AppointedUpdate ==
    ASSUME TypeOK, AppointedInv, NEW h \in Hosts, NEW g \in Hosts, NEW flag \in BOOLEAN,
           flag => g \in appointed, UNCHANGED appointed,
           UpdateNode(h, g, flag) \/ (g = h /\ UpdateSelf(h, flag)),
           net' \subseteq net
    PROVE  AppointedInv'
  BY DEF TypeOK, AppointedInv, MastersAppointed, UpdateNode, UpdateSelf

LEMMA AppointedStep ==
    ASSUME TypeInv, AppointedInv, [Next]_vars
    PROVE  AppointedInv'
<1> USE DEF TypeInv
<1>1. CASE UNCHANGED vars
  BY <1>1, AppointedSame DEF vars, tables, history
<1>2. ASSUME NEW h \in Hosts, NEW fate, Ends(h, fate, net), UNCHANGED appointed
      PROVE  AppointedInv'
  <2>1. net' \subseteq net /\ \A k \in Hosts : masters'[k] \subseteq masters[k]
    BY <1>2 DEF Ends, TypeOK
  <2> QED
    BY <1>2, <2>1, AppointedSame
<1>3. ASSUME NEW h \in Hosts, CreateNetwork(h)
      PROVE  AppointedInv'
  BY <1>3 DEF CreateNetwork, UpdateSelf, TypeOK, AppointedInv, MastersAppointed
<1>4. ASSUME NEW h \in Hosts, NEW g \in Hosts \ {h}, JoinNetwork(h, g) \/ SendDataPacket(h, g)
      PROVE  AppointedInv'
  <2> DEFINE P == {MasterNodeRequest(h, g)} \cup {RouteRequest(h, m, g) : m \in Hosts}
  <2>1. \A q \in P : q.type \notin {"Route", "RegisterReply", "RoleUpdate"}
    BY DEF MasterNodeRequest, RouteRequest, Packet
  <2>2. CASE UNCHANGED <<tables, appointed>> /\ net' \subseteq net \cup P
    BY <2>1, <2>2, AppointedSame DEF tables
  <2>3. CASE JoinNetwork(h, g)
    BY <2>2, <2>3 DEF JoinNetwork
  <2>4. CASE SendDataPacket(h, g)
    <3>1. UNCHANGED appointed
      BY <2>4 DEF SendDataPacket
    <3>2. CASE Ends(h, "null", net)
      BY <1>2, <3>1, <3>2
    <3>3. CASE \E m \in MasterPeers(h) : net' = net \cup {RouteRequest(h, m, g)}
      <4>1. MasterPeers(h) \subseteq Hosts
        BY PeerFacts
      <4>2. net' \subseteq net \cup P
        BY <3>3, <4>1
      <4> QED
        BY <1>2, <2>2, <2>4, <3>1, <4>2 DEF SendDataPacket
    <3> QED
      BY <2>2, <2>4, <3>1, <3>2, <3>3 DEF SendDataPacket
  <2> QED
    BY <1>4, <2>3, <2>4
<1>5. ASSUME NEW h \in Hosts, ExitNetwork(h)
      PROVE  AppointedInv'
  <2>1. \A k \in Hosts : masters'[k] \subseteq masters[k]
    BY <1>5 DEF ExitNetwork, Ends, TypeOK
  <2>2. ASSUME NEW r \in Reincarnations(h, nodes[h], masters[h]),
               Ends(h, "left", net \cup r.sent), appointed' = appointed \cup r.new
        PROVE  AppointedInv'
    <3>1. \A q \in r.sent :
             /\ q.type \in {"Route", "RoleUpdate"}
             /\ q.type = "Route" /\ q.master => q.about \in r.new
             /\ q.type = "RoleUpdate" => q.to \in r.new
      BY <2>2, OwnReincarnation DEF TypeInv
    <3>2. net' \subseteq net \cup r.sent
      BY <2>2 DEF Ends
    <3> QED
      BY <2>1, <2>2, <3>1, <3>2 DEF AppointedInv, MastersAppointed
  <2>3. ASSUME NEW m, Ends(h, "left", net \cup {ExitNotification(h, m)}), UNCHANGED appointed
        PROVE  AppointedInv'
    <3>1. ExitNotification(h, m).type = "ExitNotification"
      BY DEF ExitNotification, Packet
    <3>2. net' \subseteq net \cup {ExitNotification(h, m)}
      BY <2>3 DEF Ends
    <3> QED
      BY <2>1, <2>3, <3>1, <3>2, AppointedSame
  <2> QED
    BY <1>2, <1>5, <2>2, <2>3 DEF ExitNetwork
<1>6. ASSUME NEW h \in Hosts, NEW p \in net, HandlePacket(h, p)
      PROVE  AppointedInv'
  <2>0. p.from \in Hosts /\ p.about \in Hosts /\ p.master \in BOOLEAN
    BY Fields DEF TypeOK
  <2>1. CASE Handled(p, {}) /\ UNCHANGED <<tables, appointed>>
    BY <2>1, AppointedSame DEF Handled, tables
  <2>2. CASE HandleMasterNodeRequest(h, p) \/ HandleMasterNodeReply(h, p)
    <3> DEFINE P == {MasterNodeReply(h, p.from, m) : m \in Hosts}
                    \cup {RegisterRequest(h, p.about)}
    <3>1. \A q \in P : q.type \notin {"Route", "RegisterReply", "RoleUpdate"}
      BY DEF MasterNodeReply, RegisterRequest, Packet
    <3>2. CASE UNCHANGED <<tables, appointed>> /\ net' \subseteq net \cup P
      BY <3>1, <3>2, AppointedSame DEF tables
    <3>3. Choices(h, p.from) \subseteq Hosts
      BY PeerFacts DEF Choices
    <3> QED
      BY <1>2, <2>2, <3>2, <3>3
         DEF HandleMasterNodeRequest, HandleMasterNodeReply, Handled, history
  <2>3. CASE HandleRegisterRequest(h, p) /\ IsMaster(h) /\ HasSelf(h)
    <3>1. PICK flag \in BOOLEAN, P \in SUBSET Packets : Registration(h, p, flag, P)
      BY <2>0, <2>3, RegistrationStep
    <3>2. /\ appointed \subseteq appointed'
          /\ flag => p.from \in appointed'
      BY <3>1 DEF Registration
    <3>3. \A k \in Hosts : masters'[k] \subseteq appointed'
      BY <2>0, <3>1, <3>2
         DEF Registration, UpdateNode, TypeOK, AppointedInv, MastersAppointed
    <3>4. \A q \in P : /\ q.type = "Route" /\ q.master => q.about \in appointed'
                       /\ q.type = "RegisterReply" /\ q.master => q.to \in appointed'
                       /\ q.type # "RoleUpdate"
      BY <3>1, <3>2 DEF Registration, AppointedInv, MastersAppointed
    <3> QED
      BY <3>1, <3>2, <3>3, <3>4 DEF Registration, AppointedInv, MastersAppointed
  <2>4. CASE HandleRegisterReply(h, p)
    <3>1. p.master => h \in appointed
      BY <2>4 DEF HandleRegisterReply, Arrives, AppointedInv
    <3> QED
      BY <2>0, <2>4, <3>1, AppointedUpdate DEF HandleRegisterReply, Handled
  <2>5. CASE HandleRoute(h, p)
    <3>1. p.master => p.about \in appointed
      BY <2>5 DEF HandleRoute, Arrives, AppointedInv, MastersAppointed
    <3> QED
      BY <2>0, <2>1, <2>5, <3>1, AppointedUpdate DEF HandleRoute, Handled, history
  <2>6. CASE HandleRouteRequest(h, p)
    <3>1. ASSUME NEW g \in Answers(h), Handled(p, {Route(h, p.from, g, g \in masters[h])}),
                 UNCHANGED <<tables, appointed>>
          PROVE  AppointedInv'
      <4>1. Route(h, p.from, g, g \in masters[h]).type = "Route"
            /\ Route(h, p.from, g, g \in masters[h]).about = g
            /\ Route(h, p.from, g, g \in masters[h]).master = (g \in masters[h])
        BY DEF Route, Packet
      <4>2. g \in masters[h] => g \in appointed
        BY DEF AppointedInv, MastersAppointed
      <4> QED
        BY <3>1, <4>1, <4>2 DEF Handled, tables, AppointedInv, MastersAppointed
    <3> QED
      BY <1>2, <2>1, <2>6, <3>1 DEF HandleRouteRequest, history
  <2>7. CASE HandleRouteInvalidate(h, p)
    <3>1. CASE masters' = [masters EXCEPT ![h] = @ \ {p.about}] /\ Handled(p, {})
               /\ UNCHANGED appointed
      <4>1. \A k \in Hosts : masters'[k] \subseteq masters[k]
        BY <3>1 DEF TypeOK
      <4> QED
        BY <3>1, <4>1, AppointedSame DEF Handled
    <3> QED
      BY <1>2, <2>1, <2>7, <3>1 DEF HandleRouteInvalidate, history
  <2>8. CASE HandleExitNotification(h, p) /\ IsMaster(h) /\ HasSelf(h)
    <3>1. PICK new \in SUBSET nodes[h], P \in SUBSET Packets : Parting(h, p, new, P)
      BY <2>0, <2>8, PartingStep
    <3>2. \A k \in Hosts : masters'[k] \subseteq appointed'
      BY <3>1 DEF Parting, TypeOK, AppointedInv, MastersAppointed
    <3> QED
      BY <3>1, <3>2 DEF Parting, AppointedInv, MastersAppointed
  <2>9. CASE HandleRoleUpdate(h, p)
    <3>1. p.master => h \in appointed
      BY <2>9 DEF HandleRoleUpdate, Arrives, AppointedInv
    <3> QED
      BY <1>2, <2>0, <2>1, <2>9, <3>1, AppointedUpdate DEF HandleRoleUpdate, Handled, history
  <2>10. CASE HandleRegisterRequest(h, p) \/ HandleExitNotification(h, p)
    BY <1>2, <2>1, <2>3, <2>8, <2>10
       DEF HandleRegisterRequest, HandleExitNotification, IsMaster
  <2> QED
    BY <1>6, <2>2, <2>4, <2>5, <2>6, <2>7, <2>9, <2>10 DEF HandlePacket
<1>7. ASSUME NEW h \in Hosts, JoinFails(h)
      PROVE  AppointedInv'
  BY <1>2, <1>7 DEF JoinFails, history
<1> QED
  BY <1>1, <1>3, <1>4, <1>5, <1>6, <1>7 DEF Next

\* Nobody counts as a master, or is announced as one, without having been made one by
\* createNetwork, handleRegisterRequest or reincarnateSomeone.
THEOREM AppointmentCorrect == Spec => []MastersAppointed
<1>1. Init => AppointedInv
  BY DEF Init, AppointedInv, MastersAppointed
<1>2. AppointedInv => MastersAppointed
  BY DEF AppointedInv
<1> QED
  BY <1>1, <1>2, TypeInvAlways, AppointedStep, PTL DEF Spec

-----------------------------------------------------------------------------
(* The founder. *)

\* A packet takes the founder for a master, and nobody for a newcomer who founded the
\* network.
Loyal(p) ==
    /\ p.type = "Route" /\ p.about = Founder => p.master
    /\ p.type = "RegisterRequest" => p.from # Founder
    /\ p.type = "RoleUpdate" => p.master

\* Whoever knows the founder takes it for a master, the founder's twin included, and no
\* route says otherwise: reincarnateSomeone finds no second record to make a master.
FounderLeads ==
    /\ \A h \in Hosts : Founder \in nodes[h] => Founder \in masters[h]
    /\ twin # "slave"
    /\ \A p \in net : p.type = "Route" /\ p.about = Founder => p.master

\* FounderLeads with what makes it inductive.
Leads ==
    /\ FounderLeads
    /\ status[Founder] \notin {"asking", "registering"}
    /\ \A p \in net : Loyal(p)

\* A step that keeps the founder where it is and sends loyal packets.
LEMMA LeadsKept ==
    ASSUME Leads, status'[Founder] \notin {"asking", "registering"}, twin' # "slave",
           \A h \in Hosts : Founder \in nodes'[h] => Founder \in masters'[h],
           \A q \in net' : q \in net \/ Loyal(q)
    PROVE  Leads'
<1>1. \A q \in net' : Loyal(q)
  BY DEF Leads
<1>2. \A q \in net' : q.type = "Route" /\ q.about = Founder => q.master
  BY <1>1 DEF Loyal
<1> QED
  BY <1>1, <1>2 DEF Leads, FounderLeads, Loyal

\* A step that only sends loyal packets.
LEMMA LeadsSame ==
    ASSUME Leads, UNCHANGED <<status, tables>>, \A q \in net' : q \in net \/ Loyal(q)
    PROVE  Leads'
  BY LeadsKept DEF Leads, FounderLeads, tables

\* The end of a host.
LEMMA LeadsEnds ==
    ASSUME TypeOK, Leads, NEW h \in Hosts, NEW P, \A q \in P : q \in net \/ Loyal(q),
           NEW fate \in Statuses \ {"asking", "registering"}, Ends(h, fate, P)
    PROVE  Leads'
<1>1. status'[Founder] \notin {"asking", "registering"} /\ twin' # "slave"
  BY MembershipAssumption DEF Ends, TypeOK, Leads, FounderLeads
<1>2. \A k \in Hosts : Founder \in nodes'[k] => Founder \in masters'[k]
  BY DEF Ends, TypeOK, Leads, FounderLeads
<1>3. \A q \in net' : q \in net \/ Loyal(q)
  BY DEF Ends
<1> QED
  BY <1>1, <1>2, <1>3, LeadsKept

\* An update that flags the founder, if it is about it.
LEMMA LeadsUpdate ==
    ASSUME TypeOK, Leads, NEW h \in Hosts, NEW g \in Hosts, NEW flag \in BOOLEAN,
           UpdateNode(h, g, flag) \/ (g = h /\ UpdateSelf(h, flag)), g = Founder => flag,
           status'[Founder] \notin {"asking", "registering"},
           \A q \in net' : q \in net \/ Loyal(q)
    PROVE  Leads'
<1>1. CASE h = Founder /\ g = Founder /\ UpdateNode(h, g, flag)
  BY <1>1, LeadsKept DEF UpdateNode, Leads, FounderLeads
<1>2. CASE /\ nodes' = [nodes EXCEPT ![h] = @ \cup {g}]
           /\ masters' = [masters EXCEPT ![h] = IF flag THEN @ \cup {g} ELSE @ \ {g}]
           /\ UNCHANGED twin
  <2>1. \A k \in Hosts : Founder \in nodes'[k] => Founder \in masters'[k]
    BY <1>2 DEF TypeOK, Leads, FounderLeads
  <2> QED
    BY <1>2, <2>1, LeadsKept DEF Leads, FounderLeads
<1> QED
  BY <1>1, <1>2 DEF UpdateNode, UpdateSelf

\* Packets that are neither routes nor registrations nor roles are loyal.
LEMMA LoyalPackets ==
    \A h, g, t :
        /\ Loyal(MasterNodeRequest(h, g)) /\ Loyal(MasterNodeReply(h, g, t))
        /\ Loyal(RouteRequest(h, g, t)) /\ Loyal(ExitNotification(h, g))
  BY DEF Loyal, MasterNodeRequest, MasterNodeReply, RouteRequest, ExitNotification, Packet

LEMMA LeadsStep ==
    ASSUME TypeInv, Leads, [Next]_vars
    PROVE  Leads'
<1> USE DEF TypeInv
<1>0. {"failed", "unchosen", "useless", "null", "left"} \subseteq Statuses \ {"asking", "registering"}
  BY DEF Statuses
<1>1. CASE UNCHANGED vars
  BY <1>1, LeadsSame DEF vars
<1>2. ASSUME NEW h \in Hosts, NEW fate \in {"failed", "unchosen", "useless", "null"},
             Ends(h, fate, net)
      PROVE  Leads'
  BY <1>0, <1>2, LeadsEnds
<1>3. ASSUME NEW h \in Hosts, CreateNetwork(h)
      PROVE  Leads'
  <2>1. UpdateSelf(h, TRUE) /\ net' = net /\ status' = [status EXCEPT ![h] = "joined"]
    BY <1>3 DEF CreateNetwork
  <2>2. status'[Founder] \notin {"asking", "registering"}
    BY <2>1, MembershipAssumption DEF TypeOK, Leads
  <2> QED
    BY <2>1, <2>2, LeadsUpdate
<1>4. ASSUME NEW h \in Hosts, NEW g \in Hosts \ {h}, JoinNetwork(h, g)
      PROVE  Leads'
  <2>1. /\ h # Founder /\ status' = [status EXCEPT ![h] = "asking"] /\ UNCHANGED tables
        /\ net' = net \cup {MasterNodeRequest(h, g)}
    BY <1>4 DEF JoinNetwork
  <2>2. status'[Founder] \notin {"asking", "registering"}
    BY <2>1, MembershipAssumption DEF TypeOK, Leads
  <2>3. \A q \in net' : q \in net \/ Loyal(q)
    BY <2>1, LoyalPackets
  <2> QED
    BY <2>1, <2>2, <2>3, LeadsKept DEF tables, Leads, FounderLeads
<1>5. ASSUME NEW h \in Hosts, NEW g \in Hosts \ {h}, SendDataPacket(h, g)
      PROVE  Leads'
  <2>1. ASSUME NEW m, net' = net \cup {RouteRequest(h, m, g)}, UNCHANGED <<status, tables>>
        PROVE  Leads'
    BY <2>1, LeadsSame, LoyalPackets
  <2>2. CASE UNCHANGED <<status, tables, net>>
    BY <2>2, LeadsSame
  <2> QED
    BY <1>2, <1>5, <2>1, <2>2 DEF SendDataPacket
<1>6. ASSUME NEW h \in Hosts, ExitNetwork(h)
      PROVE  Leads'
  <2>1. ASSUME NEW r \in Reincarnations(h, nodes[h], masters[h]), Ends(h, "left", net \cup r.sent)
        PROVE  Leads'
    <3>1. nodes[h] \in SUBSET Hosts /\ masters[h] \in SUBSET nodes[h]
      BY DEF TypeOK
    <3>2. \A q \in r.sent : Loyal(q)
      <4>1. ASSUME NEW q \in r.sent
            PROVE  /\ q.type \in {"Route", "RoleUpdate"} /\ q \in Packets
                   /\ q.type = "Route" /\ ~q.master => q.about \in nodes[h] \ masters[h]
                   /\ q.type = "RoleUpdate" => q.master
        BY <3>1, ReincarnationFacts
      <4> QED
        BY <4>1 DEF Loyal, Leads, FounderLeads, Packets
    <3> QED
      BY <1>0, <2>1, <3>2, LeadsEnds
  <2>2. ASSUME NEW m, Ends(h, "left", net \cup {ExitNotification(h, m)})
        PROVE  Leads'
    BY <1>0, <2>2, LeadsEnds, LoyalPackets
  <2> QED
    BY <1>2, <1>6, <2>1, <2>2 DEF ExitNetwork
<1>7. ASSUME NEW h \in Hosts, NEW p \in net, HandlePacket(h, p)
      PROVE  Leads'
  <2>0. p.from \in Hosts /\ p.about \in Hosts /\ p.master \in BOOLEAN
    BY Fields DEF TypeOK
  <2>1. CASE Handled(p, {}) /\ UNCHANGED <<status, tables>>
    BY <2>1, LeadsSame DEF Handled
  <2>2. CASE HandleMasterNodeRequest(h, p)
    <3>1. ASSUME NEW m, Handled(p, {MasterNodeReply(h, p.from, m)}), UNCHANGED <<status, tables>>
          PROVE  Leads'
      BY <3>1, LeadsSame, LoyalPackets DEF Handled
    <3> QED
      BY <1>2, <2>2, <3>1 DEF HandleMasterNodeRequest
  <2>3. CASE HandleMasterNodeReply(h, p)
    <3>1. /\ status[h] = "asking" /\ status' = [status EXCEPT ![h] = "registering"]
          /\ net' = (net \ {p}) \cup {RegisterRequest(h, p.about)} /\ UNCHANGED tables
      BY <2>3 DEF HandleMasterNodeReply, Handled
    <3>2. h # Founder
      BY <3>1 DEF Leads
    <3>3. Loyal(RegisterRequest(h, p.about))
      BY <3>2 DEF Loyal, RegisterRequest, Packet
    <3>4. status'[Founder] \notin {"asking", "registering"}
      BY <3>1, <3>2, MembershipAssumption DEF TypeOK, Leads
    <3> QED
      BY <3>1, <3>3, <3>4, LeadsKept DEF tables, Leads, FounderLeads
  <2>4. CASE HandleRegisterRequest(h, p) /\ IsMaster(h) /\ HasSelf(h)
    <3>1. PICK flag \in BOOLEAN, P \in SUBSET Packets : Registration(h, p, flag, P)
      BY <2>0, <2>4, RegistrationStep
    <3>2. p.from # Founder /\ status' = status
      BY <2>4 DEF HandleRegisterRequest, Arrives, Leads, Loyal
    <3>3. ASSUME NEW q \in P
          PROVE  Loyal(q)
      <4>1. /\ q.type \in {"Route", "RegisterReply"}
            /\ q.type = "Route" =>
                  \/ q.about = p.from
                  \/ q.about \in nodes[h] /\ q.master = (q.about \in masters[h])
                  \/ twin = "slave"
        BY <3>1 DEF Registration
      <4>2. twin # "slave" /\ (Founder \in nodes[h] => Founder \in masters[h])
        BY DEF Leads, FounderLeads
      <4> QED
        BY <3>2, <4>1, <4>2 DEF Loyal
    <3>4. UpdateNode(h, p.from, flag) /\ net' = (net \ {p}) \cup P
      BY <3>1 DEF Registration
    <3>5. status'[Founder] \notin {"asking", "registering"}
      BY <3>2 DEF Leads
    <3> QED
      BY <2>0, <3>2, <3>3, <3>4, <3>5, LeadsUpdate
  <2>5. CASE HandleRegisterReply(h, p)
    <3>1. /\ status[h] = "registering" /\ status' = [status EXCEPT ![h] = "joined"]
          /\ UpdateSelf(h, p.master) /\ net' \subseteq net
      BY <2>5 DEF HandleRegisterReply, Handled
    <3>2. h # Founder
      BY <3>1 DEF Leads
    <3>3. status'[Founder] \notin {"asking", "registering"}
      BY <3>1, <3>2, MembershipAssumption DEF TypeOK, Leads
    <3> QED
      BY <2>0, <3>1, <3>2, <3>3, LeadsUpdate
  <2>6. CASE HandleRoute(h, p)
    <3>1. p.about = Founder => p.master
      BY <2>6 DEF HandleRoute, Arrives, Leads, Loyal
    <3>2. status' = status /\ net' = net \ {p} /\ status'[Founder] \notin {"asking", "registering"}
      BY <2>6 DEF HandleRoute, Handled, Leads
    <3>3. CASE UpdateNode(h, p.about, p.master)
      BY <2>0, <3>1, <3>2, <3>3, LeadsUpdate
    <3> QED
      BY <2>1, <2>6, <3>3 DEF HandleRoute
  <2>7. CASE HandleRouteRequest(h, p)
    <3>1. ASSUME NEW g \in Answers(h), Handled(p, {Route(h, p.from, g, g \in masters[h])}),
                 UNCHANGED <<status, tables>>
          PROVE  Leads'
      <4>1. Loyal(Route(h, p.from, g, g \in masters[h]))
        BY DEF Answers, Loyal, Route, Packet, Leads, FounderLeads
      <4> QED
        BY <3>1, <4>1, LeadsSame DEF Handled
    <3> QED
      BY <1>2, <2>1, <2>7, <3>1 DEF HandleRouteRequest
  <2>8. CASE HandleRouteInvalidate(h, p)
    <3>1. CASE /\ nodes' = [nodes EXCEPT ![h] = nodes[h] \ {p.about}]
               /\ masters' = [masters EXCEPT ![h] = @ \ {p.about}]
               /\ Handled(p, {}) /\ UNCHANGED <<status, twin>>
      <4>1. \A k \in Hosts : Founder \in nodes'[k] => Founder \in masters'[k]
        BY <3>1 DEF TypeOK, Leads, FounderLeads
      <4> QED
        BY <3>1, <4>1, LeadsKept DEF Handled, Leads, FounderLeads
    <3>2. ASSUME Remains(h, nodes[h] \ {p.about}) # "well",
                 Ends(h, Remains(h, nodes[h] \ {p.about}), net)
          PROVE  Leads'
      <4>1. Remains(h, nodes[h] \ {p.about}) \in {"null", "useless"}
        BY <3>2 DEF Remains
      <4> QED
        BY <1>2, <3>2, <4>1
    <3> QED
      BY <2>1, <2>8, <3>1, <3>2 DEF HandleRouteInvalidate
  <2>9. CASE HandleExitNotification(h, p) /\ IsMaster(h) /\ HasSelf(h)
    <3>1. PICK new \in SUBSET nodes[h], P \in SUBSET Packets : Parting(h, p, new, P)
      BY <2>0, <2>9, PartingStep
    <3>2. ASSUME NEW q \in P
          PROVE  Loyal(q)
      <4>1. /\ q.type \in {"RouteInvalidate", "Route", "RoleUpdate"}
            /\ q.type = "Route" /\ ~q.master => q.about \in nodes[h] \ masters[h]
            /\ q.type = "RoleUpdate" => q.master
        BY <3>1 DEF Parting
      <4> QED
        BY <4>1 DEF Loyal, Leads, FounderLeads
    <3>3. status' = status /\ twin' = twin /\ net' = (net \ {p}) \cup P
      BY <2>9, <3>1 DEF HandleExitNotification, Parting
    <3>4. \A k \in Hosts : Founder \in nodes'[k] => Founder \in masters'[k]
      BY <3>1 DEF Parting, TypeOK, Leads, FounderLeads
    <3> QED
      BY <3>2, <3>3, <3>4, LeadsKept DEF Leads, FounderLeads
  <2>10. CASE HandleRoleUpdate(h, p)
    <3>1. p.master = TRUE
      BY <2>0, <2>10 DEF HandleRoleUpdate, Arrives, Leads, Loyal
    <3>2. CASE UpdateSelf(h, p.master) /\ Handled(p, {}) /\ UNCHANGED status
      BY <2>0, <3>1, <3>2, LeadsUpdate DEF Handled, Leads
    <3> QED
      BY <1>2, <2>1, <2>10, <3>2 DEF HandleRoleUpdate
  <2>11. CASE HandleRegisterRequest(h, p) \/ HandleExitNotification(h, p)
    BY <1>2, <2>1, <2>4, <2>9, <2>11
       DEF HandleRegisterRequest, HandleExitNotification, IsMaster
  <2> QED
    BY <1>7, <2>2, <2>3, <2>5, <2>6, <2>7, <2>8, <2>10, <2>11 DEF HandlePacket
<1>8. ASSUME NEW h \in Hosts, JoinFails(h)
      PROVE  Leads'
  BY <1>2, <1>8 DEF JoinFails
<1> QED
  BY <1>1, <1>3, <1>4, <1>5, <1>6, <1>7, <1>8 DEF Next

\* What the types and the founder's place rest on.
LEMMA LeadsAlways == Spec => [](TypeInv /\ Leads)
<1>1. Init => Leads
  BY MembershipAssumption DEF Init, Leads, FounderLeads
<1> QED
  BY <1>1, TypeInvAlways, LeadsStep, PTL DEF Spec

\* The founder is a master for everybody who knows it, and for itself when it finds its
\* twin, whatever is registered, promoted or answered, and in any order.
THEOREM FounderLeadsAlways == Spec => []FounderLeads
<1>1. TypeInv /\ Leads => FounderLeads
  BY DEF Leads
<1> QED
  BY <1>1, LeadsAlways, PTL

-----------------------------------------------------------------------------
(* A master for everybody, while nobody leaves. *)

Together == \A g \in Hosts : status[g] # "left"

\* The hosts that are, or are about to be, in some table.
Enlisted(g) == g = Founder \/ \E k \in Hosts : g \in registered[k]

\* Nothing is on the way that follows a departure.
NoDepartures ==
    \A p \in net : p.type \notin {"ExitNotification", "RouteInvalidate", "RoleUpdate"}

\* The founder does not join, and nothing happens before it creates the network.
Founding ==
    /\ status[Founder] \notin {"asking", "registering"}
    /\ status[Founder] = "off" =>
          net = {} /\ \A k \in Hosts : status[k] = "off" /\ nodes[k] = {}

\* A host is registered once, and nobody knows of it before.
Enlistment ==
    /\ \A k \in Hosts : \A g \in nodes[k] : Enlisted(g)
    /\ \A g \in appointed : Enlisted(g)
    /\ \A p \in net : p.type = "Route" => Enlisted(p.about)
    /\ \A p \in net : p.type = "RegisterReply" => Enlisted(p.to)
    /\ \A p \in net : p.type = "RegisterRequest" => ~Enlisted(p.from)
    /\ \A p, q \in net :
          p.type = "RegisterRequest" /\ q.type = "RegisterRequest" /\ p.from = q.from => p = q
    /\ \A g \in Hosts \ {Founder} : status[g] \in {"off", "asking"} =>
          ~Enlisted(g) /\ \A p \in net : p.type = "RegisterRequest" => p.from # g

\* All tables and packets are right about who is a master.
Accurate ==
    /\ \A k \in Hosts : \A g \in nodes[k] : g \in masters[k] <=> g \in appointed
    /\ \A p \in net : p.type = "Route" => (p.master <=> p.about \in appointed)
    /\ \A p \in net : p.type = "RegisterReply" => (p.master <=> p.to \in appointed)

\* Who waits for its reply knows the master that sent it, or is about to.
Anchoring ==
    \A p \in net : p.type = "RegisterReply" =>
        /\ p.from # p.to /\ p.from \in appointed
        /\ status[p.to] = "registering" =>
              \/ p.from \in masters[p.to]
              \/ \E q \in net : q.type = "Route" /\ q.to = p.to /\ q.about = p.from

Acquainted == \A h \in Hosts : HasSelf(h) /\ h \notin overtaken => masters[h] # {}

Anchors == NoDepartures /\ Founding /\ Enlistment /\ Accurate /\ Anchoring /\ Acquainted

AnchorInv == Together => Anchors

\* Steps that leave tables and registrations alone and send only questions, or names of
\* masters.
LEMMA AnchorPlain ==
    ASSUME TypeInv, Anchors, UNCHANGED <<nodes, masters, registered, appointed, overtaken>>,
           status[Founder] # "off" \/ UNCHANGED <<status, net>>,
           \A k \in Hosts : \/ status'[k] = status[k]
                            \/ k # Founder /\ status[k] = "off" /\ status'[k] = "asking",
           \A q \in net' : q \in net \/ q.type \in {"MasterNodeRequest", "MasterNodeReply",
                                                  "RouteRequest"},
           \A q \in net : q.type = "Route" => q \in net'
    PROVE  Anchors'
<1> USE DEF TypeInv
<1>1. \A g \in Hosts : Enlisted(g)' <=> Enlisted(g)
  BY DEF Enlisted
<1>2. \A q \in net : q.from \in Hosts /\ q.to \in Hosts /\ q.about \in Hosts
  BY Fields DEF TypeOK
<1>3. NoDepartures'
  BY DEF Anchors, NoDepartures
<1>4. Founding'
  BY MembershipAssumption DEF Anchors, Founding
<1>5. Enlistment'
  BY <1>1, <1>2 DEF Anchors, Enlistment, TypeOK
<1>6. Accurate'
  BY DEF Anchors, Accurate
<1>7. Anchoring'
  BY <1>2 DEF Anchors, Anchoring
<1>8. Acquainted'
  BY DEF Anchors, Acquainted, HasSelf
<1> QED
  BY <1>3, <1>4, <1>5, <1>6, <1>7, <1>8 DEF Anchors

\* A host fails or crashes.
LEMMA AnchorEnds ==
    ASSUME TypeInv, Anchors, NEW h \in Hosts,
           NEW fate \in {"failed", "unchosen", "useless", "null"}, Ends(h, fate, net),
           status[h] # "off", UNCHANGED <<registered, appointed, overtaken>>
    PROVE  Anchors'
<1> USE DEF TypeInv
<1>1. \A g \in Hosts : Enlisted(g)' <=> Enlisted(g)
  BY DEF Enlisted
<1>2. \A q \in net : q.from \in Hosts /\ q.to \in Hosts /\ q.about \in Hosts
  BY Fields DEF TypeOK
<1>3. /\ net' = {q \in net : q.to # h}
      /\ status'[h] = fate /\ nodes'[h] = {} /\ masters'[h] = {}
      /\ \A k \in Hosts \ {h} : status'[k] = status[k] /\ nodes'[k] = nodes[k]
                                /\ masters'[k] = masters[k]
  BY DEF Ends, TypeOK
<1>4. NoDepartures'
  BY <1>3 DEF Anchors, NoDepartures
<1>5. Founding'
  BY <1>3, MembershipAssumption DEF Anchors, Founding
<1>6. Enlistment'
  BY <1>1, <1>2, <1>3 DEF Anchors, Enlistment, TypeOK
<1>7. Accurate'
  BY <1>3 DEF Anchors, Accurate
<1>8. Anchoring'
  BY <1>2, <1>3 DEF Anchors, Anchoring
<1>9. Acquainted'
  BY <1>3 DEF Anchors, Acquainted, HasSelf
<1> QED
  BY <1>4, <1>5, <1>6, <1>7, <1>8, <1>9 DEF Anchors

\* The founder creates the network.
LEMMA AnchorCreate ==
    ASSUME TypeInv, Anchors, NEW h \in Hosts, CreateNetwork(h)
    PROVE  Anchors'
<1> USE DEF TypeInv
<1>1. /\ h = Founder /\ status[h] = "off" /\ status' = [status EXCEPT ![h] = "joined"]
      /\ nodes' = [nodes EXCEPT ![h] = @ \cup {h}]
      /\ masters' = [masters EXCEPT ![h] = @ \cup {h}]
      /\ appointed' = appointed \cup {h}
      /\ UNCHANGED <<net, registered, overtaken>>
  BY DEF CreateNetwork, UpdateSelf
<1>2. /\ net' = {} /\ net = {}
      /\ \A k \in Hosts : nodes[k] = {} /\ masters[k] = {} /\ status[k] = "off"
  BY <1>1 DEF Anchors, Founding, TypeOK
<1>3. NoDepartures' /\ Anchoring'
  BY <1>2 DEF NoDepartures, Anchoring
<1>4. Founding'
  BY <1>1 DEF TypeOK, Founding
<1>5. Enlistment'
  BY <1>1, <1>2 DEF Anchors, Enlistment, Enlisted, TypeOK
<1>6. Accurate'
  BY <1>1, <1>2 DEF Accurate, TypeOK
<1>7. Acquainted'
  BY <1>1, <1>2 DEF Acquainted, HasSelf, TypeOK
<1> QED
  BY <1>3, <1>4, <1>5, <1>6, <1>7 DEF Anchors

\* A newcomer asks to be registered.
LEMMA AnchorAsk ==
    ASSUME TypeInv, Anchors, NEW h \in Hosts, NEW p \in net, HandleMasterNodeReply(h, p)
    PROVE  Anchors'
<1> USE DEF TypeInv
<1> DEFINE r == RegisterRequest(h, p.about)
<1>1. /\ p.type = "MasterNodeReply" /\ status[h] = "asking"
      /\ status' = [status EXCEPT ![h] = "registering"]
      /\ net' = (net \ {p}) \cup {r}
      /\ UNCHANGED <<nodes, masters, registered, appointed, overtaken>>
  BY DEF HandleMasterNodeReply, Arrives, Handled, tables, history
<1>2. r.type = "RegisterRequest" /\ r.from = h
  BY DEF RegisterRequest, Packet
<1> HIDE DEF r
<1>3. h # Founder /\ status[Founder] # "off"
  BY <1>1 DEF Anchors, Founding
<1>4. \A g \in Hosts : Enlisted(g)' <=> Enlisted(g)
  BY <1>1 DEF Enlisted
<1>5. \A q \in net : q.from \in Hosts /\ q.to \in Hosts /\ q.about \in Hosts
  BY Fields DEF TypeOK
<1>6. status'[h] = "registering" /\ \A k \in Hosts \ {h} : status'[k] = status[k]
  BY <1>1 DEF TypeOK
<1>7. NoDepartures'
  BY <1>1, <1>2 DEF Anchors, NoDepartures
<1>8. Founding'
  BY <1>3, <1>6, MembershipAssumption DEF Anchors, Founding
<1>9. Enlistment'
  <2>1. ~Enlisted(h) /\ \A q \in net : q.type = "RegisterRequest" => q.from # h
    BY <1>1, <1>3 DEF Anchors, Enlistment
  <2> QED
    BY <1>1, <1>2, <1>4, <1>5, <1>6, <2>1 DEF Anchors, Enlistment, TypeOK
<1>10. Accurate'
  BY <1>1, <1>2 DEF Anchors, Accurate
<1>11. Anchoring'
  <2>1. \A q \in net : q.type = "RegisterReply" => q.to # h
    BY <1>1, <1>3 DEF Anchors, Enlistment
  <2> QED
    BY <1>1, <1>2, <1>5, <1>6, <2>1 DEF Anchors, Anchoring
<1>12. Acquainted'
  BY <1>1, <1>6 DEF Anchors, Acquainted, HasSelf
<1> QED
  BY <1>7, <1>8, <1>9, <1>10, <1>11, <1>12 DEF Anchors

\* A route arrives.
LEMMA AnchorRoute ==
    ASSUME TypeInv, Anchors, NEW h \in Hosts, NEW p \in net, HandleRoute(h, p)
    PROVE  Anchors'
<1> USE DEF TypeInv
<1>1. /\ p.type = "Route" /\ p.to = h /\ status[h] \in Listening
      /\ net' = net \ {p} /\ UNCHANGED <<status, registered, appointed, overtaken>>
      /\ \/ UpdateNode(h, p.about, p.master)
         \/ HasSelf(h) /\ UNCHANGED <<nodes, masters>>
  BY DEF HandleRoute, Arrives, Handled, tables, history
<1>2. \A q \in net : q.from \in Hosts /\ q.to \in Hosts /\ q.about \in Hosts
                   /\ q.master \in BOOLEAN
  BY Fields DEF TypeOK
<1>3. \A g \in Hosts : Enlisted(g)' <=> Enlisted(g)
  BY <1>1 DEF Enlisted
<1>4. Enlisted(p.about) /\ (p.master <=> p.about \in appointed)
  BY <1>1 DEF Anchors, Enlistment, Accurate
<1>5. /\ \A k \in Hosts \ {h} : nodes'[k] = nodes[k] /\ masters'[k] = masters[k]
      /\ nodes'[h] \subseteq nodes[h] \cup {p.about}
      /\ masters[h] \subseteq masters'[h]
      /\ \A g \in nodes'[h] : g \in masters'[h] <=> g \in appointed
      /\ HasSelf(h) \/ (p.master => p.about \in masters'[h])
  <2>1. h = Founder => HasSelf(h)
    BY <1>1 DEF Anchors, Founding, Listening, HasSelf
  <2>2. CASE UNCHANGED <<nodes, masters>> /\ HasSelf(h)
    BY <2>2 DEF Anchors, Accurate
  <2>3. CASE /\ nodes' = [nodes EXCEPT ![h] = @ \cup {p.about}]
             /\ masters' = [masters EXCEPT ![h] = IF p.master THEN @ \cup {p.about}
                                                  ELSE @ \ {p.about}]
    BY <1>2, <1>4, <2>3 DEF TypeOK, Anchors, Accurate
  <2> QED
    BY <1>1, <2>1, <2>2, <2>3 DEF UpdateNode
<1>6. NoDepartures'
  BY <1>1 DEF Anchors, NoDepartures
<1>7. Founding'
  BY <1>1 DEF Anchors, Founding
<1>8. Enlistment'
  BY <1>1, <1>2, <1>3, <1>4, <1>5 DEF Anchors, Enlistment, TypeOK
<1>9. Accurate'
  BY <1>1, <1>5 DEF Anchors, Accurate
<1>10. Anchoring'
  <2> SUFFICES ASSUME NEW r \in net', r.type = "RegisterReply"
               PROVE  /\ r.from # r.to /\ r.from \in appointed'
                      /\ status'[r.to] = "registering" =>
                            \/ r.from \in masters'[r.to]
                            \/ \E q \in net' : q.type = "Route" /\ q.to = r.to
                                             /\ q.about = r.from
    BY DEF Anchoring
  <2>1. r \in net /\ r.from # r.to /\ r.from \in appointed'
    BY <1>1 DEF Anchors, Anchoring
  <2>2. CASE r.from \in masters[r.to]
    BY <1>2, <1>5, <2>1, <2>2
  <2>3. ASSUME NEW q \in net, q.type = "Route", q.to = r.to, q.about = r.from, q # p
        PROVE  \E x \in net' : x.type = "Route" /\ x.to = r.to /\ x.about = r.from
    BY <1>1, <2>3
  <2>4. CASE r.to = h /\ r.from = p.about /\ status[h] = "registering"
    BY <1>1, <1>4, <1>5, <2>1, <2>4 DEF HasSelf
  <2> QED
    BY <1>1, <2>1, <2>2, <2>3, <2>4 DEF Anchors, Anchoring
<1>11. Acquainted'
  BY <1>1, <1>5 DEF Anchors, Acquainted, HasSelf
<1> QED
  BY <1>6, <1>7, <1>8, <1>9, <1>10, <1>11 DEF Anchors

\* A master answers a request for a route with a node of its table.
LEMMA AnchorAnswer ==
    ASSUME TypeInv, Anchors, NEW h \in Hosts, NEW p \in net, p.type = "RouteRequest",
           NEW g \in nodes[h], net' = (net \ {p}) \cup {Route(h, p.from, g, g \in masters[h])},
           UNCHANGED <<status, nodes, masters, registered, appointed, overtaken>>
    PROVE  Anchors'
<1> USE DEF TypeInv
<1> DEFINE r == Route(h, p.from, g, g \in masters[h])
<1>1. r.type = "Route" /\ r.about = g /\ r.master = (g \in masters[h])
  BY DEF Route, Packet
<1> HIDE DEF r
<1>2. net' = (net \ {p}) \cup {r}
  BY DEF r
<1>3. Enlisted(g) /\ (g \in masters[h] <=> g \in appointed)
  BY DEF Anchors, Enlistment, Accurate
<1>4. \A k \in Hosts : Enlisted(k)' <=> Enlisted(k)
  BY DEF Enlisted
<1>5. \A q \in net : q.from \in Hosts /\ q.to \in Hosts /\ q.about \in Hosts
  BY Fields DEF TypeOK
<1>6. NoDepartures'
  BY <1>1, <1>2 DEF Anchors, NoDepartures
<1>7. Founding'
  BY <1>2, MembershipAssumption DEF Anchors, Founding
<1>8. Enlistment'
  BY <1>1, <1>2, <1>3, <1>4, <1>5 DEF Anchors, Enlistment, TypeOK
<1>9. Accurate'
  BY <1>1, <1>2, <1>3 DEF Anchors, Accurate
<1>10. Anchoring'
  BY <1>1, <1>2 DEF Anchors, Anchoring
<1>11. Acquainted'
  BY DEF Anchors, Acquainted, HasSelf
<1> QED
  BY <1>6, <1>7, <1>8, <1>9, <1>10, <1>11 DEF Anchors

\* A master registers a newcomer.
LEMMA AnchorRegister ==
    ASSUME TypeInv, Anchors, NEW h \in Hosts, NEW p \in net, HandleRegisterRequest(h, p),
           IsMaster(h), HasSelf(h), twin # "slave"
    PROVE  Anchors'
<1> USE DEF TypeInv
<1>0. \A q \in net : q.from \in Hosts /\ q.to \in Hosts /\ q.about \in Hosts
  BY Fields DEF TypeOK
<1>1. PICK flag \in BOOLEAN, P \in SUBSET Packets : Registration(h, p, flag, P)
  BY <1>0, RegistrationStep
<1>2. p.type = "RegisterRequest" /\ UNCHANGED <<status, overtaken>>
  BY DEF HandleRegisterRequest, Arrives
<1> DEFINE new == p.from
<1>3. /\ new \in Hosts /\ ~Enlisted(new) /\ new \notin appointed
      /\ \A k \in Hosts : new \notin nodes[k]
      /\ \A q \in net : (q.type = "Route" => q.about # new)
                      /\ (q.type = "RegisterReply" => q.to # new)
  BY <1>0, <1>2 DEF Anchors, Enlistment
<1>4. h \in nodes[h] /\ h \in masters[h] /\ h \in appointed /\ h # new
  BY <1>3 DEF IsMaster, TypeOK, Anchors, Accurate
<1>5. /\ \A g \in Hosts : Enlisted(g)' <=> (Enlisted(g) \/ g = new)
      /\ \A g : g \in appointed' <=> (g \in appointed \/ (flag /\ g = new))
      /\ net' = (net \ {p}) \cup P
  BY <1>1, <1>3 DEF Registration, Enlisted, TypeOK
<1>6. \A q \in P :
         /\ q \in Packets
         /\ q.type \in {"Route", "RegisterReply"}
         /\ q.type = "Route" => Enlisted(q.about)' /\ (q.master <=> q.about \in appointed')
         /\ q.type = "RegisterReply" =>
               /\ q.from = h /\ q.to = new
               /\ q.master <=> new \in appointed'
  <2> SUFFICES ASSUME NEW q \in P
               PROVE  /\ q \in Packets
                      /\ q.type \in {"Route", "RegisterReply"}
                      /\ q.type = "Route" =>
                            Enlisted(q.about)' /\ (q.master <=> q.about \in appointed')
                      /\ q.type = "RegisterReply" =>
                            /\ q.from = h /\ q.to = new
                            /\ q.master <=> new \in appointed'
    OBVIOUS
  <2>1. q \in Packets /\ q.about \in Hosts /\ q.master \in BOOLEAN
    BY Fields
  <2>2. q.type \in {"Route", "RegisterReply"}
    BY <1>1 DEF Registration
  <2>3. CASE q.type = "Route" /\ q.about = new /\ q.master = flag
    BY <1>3, <1>5, <2>1, <2>3
  <2>4. CASE q.type = "Route" /\ q.about \in nodes[h] /\ q.master = (q.about \in masters[h])
    <3>1. Enlisted(q.about) /\ q.about # new
          /\ (q.about \in masters[h] <=> q.about \in appointed)
      BY <1>3, <2>4 DEF Anchors, Enlistment, Accurate
    <3>2. Enlisted(q.about)'
      BY <1>5, <2>1, <3>1
    <3>3. q.master <=> q.about \in appointed'
      BY <1>5, <2>1, <2>4, <3>1
    <3> QED
      BY <2>1, <2>4, <3>2, <3>3
  <2>5. CASE q.type = "RegisterReply"
    <3>1. q.from = h /\ q.to = new /\ q.master = flag
      BY <1>1, <2>5 DEF Registration
    <3> QED
      BY <1>3, <1>5, <2>1, <2>5, <3>1
  <2> QED
    BY <1>1, <2>1, <2>2, <2>3, <2>4, <2>5 DEF Registration
<1>7. /\ \A k \in Hosts \ {h} : nodes'[k] = nodes[k] /\ masters'[k] = masters[k]
      /\ nodes'[h] = nodes[h] \cup {new}
      /\ masters[h] \subseteq masters'[h]
      /\ \A g \in nodes[h] : g \in masters'[h] <=> g \in masters[h]
      /\ new \in masters'[h] <=> flag
  <2>1. new # Founder
    BY <1>3 DEF Enlisted
  <2> QED
    BY <1>1, <1>3, <2>1 DEF Registration, UpdateNode, TypeOK
<1> HIDE DEF new
<1>8. NoDepartures'
  BY <1>5, <1>6 DEF Anchors, NoDepartures
<1>9. Founding'
  BY <1>2, MembershipAssumption DEF Anchors, Founding
<1>10. Enlistment'
  <2>1. \A k \in Hosts : \A g \in nodes'[k] : Enlisted(g)'
    BY <1>3, <1>5, <1>7 DEF Anchors, Enlistment, TypeOK
  <2>2. \A g \in appointed' : Enlisted(g)'
    BY <1>3, <1>5 DEF Anchors, Enlistment, TypeOK
  <2>3. \A q \in net' : q.type = "Route" => Enlisted(q.about)'
    BY <1>0, <1>3, <1>5, <1>6 DEF Anchors, Enlistment
  <2>4. \A q \in net' : q.type = "RegisterReply" => Enlisted(q.to)'
    BY <1>0, <1>3, <1>5, <1>6 DEF Anchors, Enlistment
  <2>5. \A q \in net' : q.type = "RegisterRequest" => q \in net /\ q.from # new
    BY <1>2, <1>5, <1>6 DEF Anchors, Enlistment, new
  <2>6. \A g \in Hosts \ {Founder} : status'[g] \in {"off", "asking"} => g # new
    BY <1>2 DEF Anchors, Enlistment, new
  <2>7. \A q \in net' : q.type = "RegisterRequest" => ~Enlisted(q.from)'
    BY <1>0, <1>5, <2>5 DEF Anchors, Enlistment
  <2>8. \A q, r \in net' :
           q.type = "RegisterRequest" /\ r.type = "RegisterRequest" /\ q.from = r.from => q = r
    BY <2>5 DEF Anchors, Enlistment
  <2>9. \A g \in Hosts \ {Founder} : status'[g] \in {"off", "asking"} =>
           ~Enlisted(g)' /\ \A q \in net' : q.type = "RegisterRequest" => q.from # g
    BY <1>2, <1>5, <2>5, <2>6 DEF Anchors, Enlistment
  <2> QED
    BY <2>1, <2>2, <2>3, <2>4, <2>7, <2>8, <2>9 DEF Enlistment
<1>11. Accurate'
  <2>1. \A k \in Hosts : \A g \in nodes'[k] : g \in masters'[k] <=> g \in appointed'
    BY <1>3, <1>5, <1>7 DEF Anchors, Accurate
  <2>2. \A q \in net' : q.type = "Route" => (q.master <=> q.about \in appointed')
    BY <1>3, <1>5, <1>6 DEF Anchors, Accurate
  <2>3. \A q \in net' : q.type = "RegisterReply" => (q.master <=> q.to \in appointed')
    BY <1>3, <1>5, <1>6 DEF Anchors, Accurate
  <2> QED
    BY <2>1, <2>2, <2>3 DEF Accurate
<1>12. Anchoring'
  <2> SUFFICES ASSUME NEW r \in net', r.type = "RegisterReply"
               PROVE  /\ r.from # r.to /\ r.from \in appointed'
                      /\ status'[r.to] = "registering" =>
                            \/ r.from \in masters'[r.to]
                            \/ \E q \in net' : q.type = "Route" /\ q.to = r.to
                                             /\ q.about = r.from
    BY DEF Anchoring
  <2>1. CASE r \in P
    <3>1. r.from = h /\ r.to = new
      BY <1>6, <2>1
    <3>2. Route(h, new, h, TRUE) \in net'
      BY <1>1, <1>5 DEF Registration, new
    <3>3. Route(h, new, h, TRUE).type = "Route" /\ Route(h, new, h, TRUE).to = new
          /\ Route(h, new, h, TRUE).about = h
      BY DEF Route, Packet
    <3> QED
      BY <1>4, <1>5, <3>1, <3>2, <3>3
  <2>2. CASE r \in net
    <3>1. r.from # r.to /\ r.from \in appointed' /\ r.to \in Hosts
      BY <1>0, <1>5, <2>2 DEF Anchors, Anchoring
    <3>2. CASE r.from \in masters[r.to]
      BY <1>7, <3>1, <3>2
    <3>3. ASSUME NEW q \in net, q.type = "Route", q.to = r.to, q.about = r.from
          PROVE  q \in net'
      BY <1>2, <1>5, <3>3
    <3> QED
      BY <1>2, <2>2, <3>1, <3>2, <3>3 DEF Anchors, Anchoring
  <2> QED
    BY <1>5, <2>1, <2>2
<1>13. Acquainted'
  BY <1>2, <1>7 DEF Anchors, Acquainted, HasSelf
<1> QED
  BY <1>8, <1>9, <1>10, <1>11, <1>12, <1>13 DEF Anchors

\* A newcomer gets its reply.
LEMMA AnchorReply ==
    ASSUME TypeInv, Anchors, NEW h \in Hosts, NEW p \in net, HandleRegisterReply(h, p)
    PROVE  Anchors'
<1> USE DEF TypeInv
<1>1. /\ p.type = "RegisterReply" /\ p.to = h /\ status[h] = "registering"
      /\ status' = [status EXCEPT ![h] = "joined"]
      /\ UpdateSelf(h, p.master)
      /\ net' = net \ {p} /\ UNCHANGED <<registered, appointed>>
      /\ overtaken \subseteq overtaken'
      /\ (\E q \in net : q.type = "Route" /\ q.to = h) => h \in overtaken'
  BY DEF HandleRegisterReply, Arrives, Handled
<1>2. \A q \in net : q.from \in Hosts /\ q.to \in Hosts /\ q.about \in Hosts
                   /\ q.master \in BOOLEAN
  BY Fields DEF TypeOK
<1>3. \A g \in Hosts : Enlisted(g)' <=> Enlisted(g)
  BY <1>1 DEF Enlisted
<1>4. h # Founder /\ status[Founder] # "off" /\ Enlisted(h) /\ (p.master <=> h \in appointed)
  BY <1>1 DEF Anchors, Founding, Enlistment, Accurate
<1>5. status'[h] = "joined" /\ \A k \in Hosts \ {h} : status'[k] = status[k]
  BY <1>1 DEF TypeOK
<1>6. /\ \A k \in Hosts \ {h} : nodes'[k] = nodes[k] /\ masters'[k] = masters[k]
      /\ nodes'[h] = nodes[h] \cup {h}
      /\ masters[h] \ {h} \subseteq masters'[h]
      /\ \A g \in nodes'[h] : g \in masters'[h] <=> g \in appointed
  BY <1>1, <1>2, <1>4 DEF UpdateSelf, TypeOK, Anchors, Accurate
<1>7. NoDepartures'
  BY <1>1 DEF Anchors, NoDepartures
<1>8. Founding'
  BY <1>4, <1>5, MembershipAssumption DEF Anchors, Founding
<1>9. Enlistment'
  BY <1>1, <1>2, <1>3, <1>4, <1>5, <1>6 DEF Anchors, Enlistment, TypeOK
<1>10. Accurate'
  BY <1>1, <1>6 DEF Anchors, Accurate
<1>11. Anchoring'
  BY <1>1, <1>2, <1>5, <1>6 DEF Anchors, Anchoring
<1>12. Acquainted'
  <2>1. h \notin overtaken' => p.from \in masters[h] \ {h}
    BY <1>1 DEF Anchors, Anchoring
  <2> QED
    BY <1>1, <1>5, <1>6, <2>1 DEF Anchors, Acquainted, HasSelf
<1> QED
  BY <1>7, <1>8, <1>9, <1>10, <1>11, <1>12 DEF Anchors

\* Who has left does not come back.
LEMMA LeftForGood ==
    ASSUME TypeOK, [Next]_vars, Together'
    PROVE  Together
<1> SUFFICES ASSUME NEW g \in Hosts, status[g] = "left"
             PROVE  status'[g] = "left"
  BY DEF Together
<1>1. CASE UNCHANGED vars
  BY <1>1 DEF vars
<1>2. ASSUME NEW h \in Hosts, UNCHANGED status \/ status[h] # "left",
             UNCHANGED status \/ \E s : status' = [status EXCEPT ![h] = s]
      PROVE  status'[g] = "left"
  BY <1>2 DEF TypeOK
<1>3. ASSUME NEW h \in Hosts, CreateNetwork(h) \/ JoinFails(h) \/ ExitNetwork(h)
      PROVE  status'[g] = "left"
  BY <1>2, <1>3 DEF CreateNetwork, JoinFails, ExitNetwork, Ends
<1>4. ASSUME NEW h \in Hosts, NEW k \in Hosts, JoinNetwork(h, k) \/ SendDataPacket(h, k)
      PROVE  status'[g] = "left"
  BY <1>2, <1>4 DEF JoinNetwork, SendDataPacket, Ends, Listening
<1>5. ASSUME NEW h \in Hosts, NEW p \in net, HandlePacket(h, p)
      PROVE  status'[g] = "left"
  <2>1. status[h] # "left"
    BY <1>5 DEF HandlePacket, HandleMasterNodeRequest, HandleMasterNodeReply,
       HandleRegisterRequest, HandleRegisterReply, HandleRoute, HandleRouteRequest,
       HandleRouteInvalidate, HandleRoleUpdate, HandleExitNotification, Arrives, Listening
  <2>2. UNCHANGED status \/ \E s : status' = [status EXCEPT ![h] = s]
    BY <1>5 DEF HandlePacket, HandleMasterNodeRequest, HandleMasterNodeReply,
       HandleRegisterRequest, HandleRegisterReply, HandleRoute, HandleRouteRequest,
       HandleRouteInvalidate, HandleRoleUpdate, HandleExitNotification, Ends
  <2> QED
    BY <1>2, <2>1, <2>2
<1> QED
  BY <1>1, <1>3, <1>4, <1>5 DEF Next

LEMMA AnchorStep ==
    ASSUME TypeInv, Leads, AnchorInv, [Next]_vars
    PROVE  AnchorInv'
<1> USE DEF TypeInv
<1> SUFFICES ASSUME Together, Together', Anchors
             PROVE  Anchors'
  BY LeftForGood DEF AnchorInv
<1>1. CASE UNCHANGED vars
  BY <1>1, AnchorPlain DEF vars, tables, history
<1>2. ASSUME NEW h \in Hosts, CreateNetwork(h) \/ JoinFails(h) \/ ExitNetwork(h)
      PROVE  Anchors'
  <2>1. CASE JoinFails(h)
    BY <2>1, AnchorEnds DEF JoinFails, history
  <2>2. CASE ExitNetwork(h)
    <3>1. ASSUME NEW P, Ends(h, "left", P)
          PROVE  FALSE
      BY <3>1 DEF Ends, Together, TypeOK
    <3> QED
      BY <2>2, <3>1, AnchorEnds DEF ExitNetwork
  <2> QED
    BY <1>2, <2>1, <2>2, AnchorCreate
<1>3. ASSUME NEW h \in Hosts, NEW g \in Hosts \ {h}, JoinNetwork(h, g)
      PROVE  Anchors'
  <2>1. MasterNodeRequest(h, g).type = "MasterNodeRequest"
    BY DEF MasterNodeRequest, Packet
  <2>2. status[Founder] # "off"
    BY <1>3 DEF JoinNetwork, Listening, Anchors, Founding
  <2> QED
    BY <1>3, <2>1, <2>2, AnchorPlain DEF JoinNetwork, tables, TypeOK
<1>4. ASSUME NEW h \in Hosts, NEW g \in Hosts \ {h}, SendDataPacket(h, g)
      PROVE  Anchors'
  <2>1. UNCHANGED <<registered, appointed, overtaken>>
    BY <1>4 DEF SendDataPacket
  <2>2. CASE HasSelf(h) /\ Ends(h, "null", net)
    BY <2>1, <2>2, AnchorEnds DEF HasSelf
  <2>3. CASE UNCHANGED <<status, tables, net>>
    BY <2>1, <2>3, AnchorPlain DEF tables
  <2>4. ASSUME NEW m \in MasterPeers(h),
               net' = net \cup {RouteRequest(h, m, g)}, UNCHANGED <<status, tables>>
        PROVE  Anchors'
    <3>1. RouteRequest(h, m, g).type = "RouteRequest"
      BY DEF RouteRequest, Packet
    <3>2. status[Founder] # "off"
      BY <2>4, PeerFacts DEF Anchors, Founding
    <3> QED
      BY <2>1, <2>4, <3>1, <3>2, AnchorPlain DEF tables
  <2> QED
    BY <1>4, <2>2, <2>3, <2>4 DEF SendDataPacket
<1>5. ASSUME NEW h \in Hosts, NEW p \in net, HandlePacket(h, p)
      PROVE  Anchors'
  <2>1. status[Founder] # "off"
    BY <1>5 DEF Anchors, Founding
  <2>2. p.type \notin {"ExitNotification", "RouteInvalidate", "RoleUpdate"}
    BY DEF Anchors, NoDepartures
  <2>3. ASSUME NEW fate \in {"unchosen", "null"}, Ends(h, fate, net), status[h] \in Listening,
               UNCHANGED <<registered, appointed, overtaken>>
        PROVE  Anchors'
    BY <2>3, AnchorEnds DEF Listening
  <2>4. CASE Handled(p, {}) /\ p.type # "Route"
             /\ UNCHANGED <<status, tables, registered, appointed, overtaken>>
    BY <2>1, <2>4, AnchorPlain DEF Handled, tables
  <2>5. CASE HandleMasterNodeRequest(h, p)
    <3>1. ASSUME NEW m \in Choices(h, p.from), Handled(p, {MasterNodeReply(h, p.from, m)}),
                 UNCHANGED <<status, tables, history>>
          PROVE  Anchors'
      <4>1. MasterNodeReply(h, p.from, m).type = "MasterNodeReply" /\ p.type # "Route"
        BY <2>5 DEF HandleMasterNodeRequest, Arrives, MasterNodeReply, Packet
      <4> QED
        BY <2>1, <3>1, <4>1, AnchorPlain DEF Handled, tables, history
    <3> QED
      BY <2>3, <2>5, <3>1 DEF HandleMasterNodeRequest, Arrives, history
  <2>6. CASE HandleRegisterRequest(h, p)
    <3>1. twin # "slave"
      BY DEF Leads, FounderLeads
    <3> QED
      BY <2>3, <2>4, <2>6, <3>1, AnchorRegister DEF HandleRegisterRequest, Arrives, IsMaster
  <2>7. CASE HandleRouteRequest(h, p)
    <3>1. ASSUME NEW g \in Answers(h), Handled(p, {Route(h, p.from, g, g \in masters[h])}),
                 UNCHANGED <<status, tables, history>>
          PROVE  Anchors'
      BY <2>7, <3>1, AnchorAnswer
         DEF HandleRouteRequest, Arrives, Answers, Handled, tables, history
    <3> QED
      BY <2>3, <2>4, <2>7, <3>1 DEF HandleRouteRequest, Arrives, history
  <2>8. ~(HandleRouteInvalidate(h, p) \/ HandleRoleUpdate(h, p) \/ HandleExitNotification(h, p))
    BY <2>2 DEF HandleRouteInvalidate, HandleRoleUpdate, HandleExitNotification, Arrives
  <2> QED
    BY <1>5, <2>5, <2>6, <2>7, <2>8, AnchorAsk, AnchorReply, AnchorRoute DEF HandlePacket
<1> QED
  BY <1>1, <1>2, <1>3, <1>4, <1>5 DEF Next

\* In a network that nobody leaves, every host whose RegisterReply did not overtake its
\* Routes knows a master, however many hosts join at the same time and through whom:
\* sendRouteRequest and exitNetwork find somebody to turn to.
THEOREM AnchoredAlways == Spec => []Anchored
<1>1. Init => AnchorInv
  BY MembershipAssumption DEF Init, AnchorInv, Anchors, NoDepartures, Founding, Enlistment,
     Enlisted, Accurate, Anchoring, Acquainted, HasSelf
<1>2. AnchorInv => Anchored
  BY DEF AnchorInv, Anchors, Together, Acquainted, Anchored
<1> QED
  BY <1>1, <1>2, LeadsAlways, AnchorStep, PTL DEF Spec

-----------------------------------------------------------------------------
(* Agreement: the tables after operations that do not overlap. *)

\* No operation has begun before the last one was over, nothing has overtaken a reply,
\* nobody has taken leave of its twin, and every host is on its way in, a member or gone.
Orderly ==
    /\ Cardinality(Hosts) <= 2 * networkDivisor
    /\ overlaps = 0 /\ overtaken = {} /\ unheard = {}
    /\ \A h \in Hosts : status[h] \in {"off", "asking", "registering", "joined", "left"}

\* Who is outside has no table, and nobody is in before the founder.
Outside ==
    /\ \A h \in Hosts : status[h] \in {"off", "asking", "left"} => nodes[h] = {}
    /\ status[Founder] = "off" => \A h \in Hosts : status[h] = "off"

\* The masters M of a network of the hosts N are its only host, any two of them, or the
\* founder alone if it has a twin, which it counts as the second.  The founder is a
\* master wherever it is.
Shape(N, M) ==
    /\ \E a, b \in N : M = {a, b} /\ (a = b => N = {a} \/ (a = Founder /\ twin = "master"))
    /\ Founder \in N => Founder \in M

\* The tables of the members are those of a network of hosts N with masters M.
Consistent(N, M) ==
    /\ N \in SUBSET Hosts /\ Shape(N, M)
    /\ \A x \in Members : masters[x] = M /\ nodes[x] \subseteq N /\ (x \in M => nodes[x] = N)

NobodyJoins == \A h \in Hosts : status[h] \notin {"asking", "registering"}

\* Nobody is in the network.
Deserted == net = {} /\ \A h \in Hosts : status[h] \in {"off", "left"}

\* The stages of an operation with one packet on the way: h asks for a master and is
\* told one, asks the master x to register it, asks it for a route, or has left.
Asks(N, M, h) ==
    /\ Consistent(N, M) /\ N = Members
    /\ status[h] = "asking" /\ \A k \in Hosts \ {h} : status[k] \notin {"asking", "registering"}
    /\ \E g \in N : \/ net = {MasterNodeRequest(h, g)}
                    \/ \E x \in M : net = {MasterNodeReply(g, h, x)}

Registers(N, M, h, x) ==
    /\ Consistent(N, M) /\ N = Members /\ x \in M
    /\ status[h] = "registering" /\ nodes[h] = {}
    /\ \A k \in Hosts \ {h} : status[k] \notin {"asking", "registering"}
    /\ net = {RegisterRequest(h, x)}

Requests(N, M, h, x) ==
    /\ Consistent(N, M) /\ N = Members /\ x \in M /\ h \in N
    /\ NobodyJoins
    /\ \E g \in Hosts : net = {RouteRequest(h, x, g)}

Leaves(N, M, h, x) ==
    /\ Consistent(N, M) /\ N = Members \cup {h} /\ status[h] = "left" /\ x \in M \ {h}
    /\ NobodyJoins
    /\ net = {ExitNotification(h, x)}

\* The packets the master m may have on the way when it has changed its table: they tell
\* the hosts N what is in it.  What m sends to its twin comes back to m.
Tidings(m, N, M) ==
    \A p \in net :
        \E x \in N :
            \/ \E y \in N : p = Route(m, x, y, y \in M)
            \/ \E y \in Hosts \ N : p = RouteInvalidate(m, x, y)
            \/ p = RoleUpdate(m, x) /\ x \in M \ {m} /\ HasSelf(x)
            \/ p = RegisterReply(m, x, x \in M) /\ status[x] = "registering"

\* What the host x does not know yet is on its way to it.
Informed(m, N, M, x) ==
    /\ HasSelf(x) => m \in masters[x]
    /\ masters[x] \cap N \subseteq M
    /\ status[x] = "registering" => RegisterReply(m, x, x \in M) \in net
    /\ \A y \in nodes[x] \ N : RouteInvalidate(m, x, y) \in net
    /\ \A y \in M \ masters[x] :
          \/ Route(m, x, y, TRUE) \in net
          \/ y = x /\ (RoleUpdate(m, x) \in net \/ status[x] = "registering")
    /\ x \in M => \A y \in N \ nodes[x] :
          Route(m, x, y, y \in M) \in net \/ (y = x /\ status[x] = "registering")

\* The master m has a table of the hosts N and the masters M, and tells the others.
Spreads(m, N, M) ==
    /\ N \in SUBSET Hosts /\ Shape(N, M) /\ m \in M
    /\ status[m] = "joined" /\ masters[m] = M /\ nodes[m] = N
    /\ N = {x \in Hosts : status[x] \in {"registering", "joined"}}
    /\ \A h \in Hosts : status[h] # "asking"
    /\ Tidings(m, N, M)
    /\ \A x \in N \ {m} : Informed(m, N, M, x)

Stage ==
    \/ Deserted
    \/ \E N, M \in SUBSET Hosts : \E h \in Hosts :
          \/ Asks(N, M, h)
          \/ \E x \in Hosts : Registers(N, M, h, x) \/ Requests(N, M, h, x) \/ Leaves(N, M, h, x)
          \/ Spreads(h, N, M)

\* The inductive invariant of Agreement, with TypeInv and Leads.
AgreeInv == Orderly => Outside /\ Stage

\* Nothing that is not orderly becomes orderly.
LEMMA OrderlyKept ==
    ASSUME TypeOK, [Next]_vars, Orderly'
    PROVE  Orderly
<1>1. overlaps = 0
  <2>1. ASSUME Overlaps
        PROVE  overlaps = 0
    <3>1. overlaps \in Nat /\ overlaps' = 0
      BY MembershipAssumption DEF TypeOK, Orderly
    <3> QED
      BY <2>1, <3>1 DEF Overlaps
  <2>2. CASE UNCHANGED overlaps
    BY <2>2 DEF Orderly
  <2>3. ASSUME NEW h \in Hosts, NEW p \in net, HandlePacket(h, p)
        PROVE  UNCHANGED overlaps
    BY <2>3 DEF HandlePacket, HandleMasterNodeRequest, HandleMasterNodeReply,
       HandleRegisterRequest, HandleRegisterReply, HandleRoute, HandleRouteRequest,
       HandleRouteInvalidate, HandleRoleUpdate, HandleExitNotification, history
  <2> QED
    BY <2>1, <2>2, <2>3 DEF Next, CreateNetwork, JoinFails, ExitNetwork, JoinNetwork,
       SendDataPacket, vars, history
<1>2. overtaken = {}
  <2>1. overtaken \subseteq overtaken'
    <3>1. ASSUME NEW h \in Hosts, NEW p \in net, HandlePacket(h, p)
          PROVE  overtaken \subseteq overtaken'
      BY <3>1 DEF HandlePacket, HandleMasterNodeRequest, HandleMasterNodeReply,
         HandleRegisterRequest, HandleRegisterReply, HandleRoute, HandleRouteRequest,
         HandleRouteInvalidate, HandleRoleUpdate, HandleExitNotification, history
    <3> QED
      BY <3>1 DEF Next, CreateNetwork, JoinFails, ExitNetwork, JoinNetwork,
         SendDataPacket, vars, history
  <2> QED
    BY <2>1 DEF Orderly
<1>3. unheard = {}
  <2>1. unheard \subseteq unheard'
    <3>1. ASSUME NEW h \in Hosts, NEW p \in net, HandlePacket(h, p)
          PROVE  unheard \subseteq unheard'
      BY <3>1 DEF HandlePacket, HandleMasterNodeRequest, HandleMasterNodeReply,
         HandleRegisterRequest, HandleRegisterReply, HandleRoute, HandleRouteRequest,
         HandleRouteInvalidate, HandleRoleUpdate, HandleExitNotification, history
    <3> QED
      BY <3>1 DEF Next, CreateNetwork, JoinFails, ExitNetwork, JoinNetwork,
         SendDataPacket, vars, history
  <2> QED
    BY <2>1 DEF Orderly
<1>4. ASSUME NEW k \in Hosts
      PROVE  status[k] \in {"off", "asking", "registering", "joined", "left"}
  <2>0. status'[k] \in {"off", "asking", "registering", "joined", "left"}
    BY DEF Orderly
  <2>1. ASSUME NEW h \in Hosts, UNCHANGED status \/ status[h] \in Listening \cup {"off"},
               UNCHANGED status \/ \E s : status' = [status EXCEPT ![h] = s]
        PROVE  status[k] \in {"off", "asking", "registering", "joined", "left"}
    BY <2>0, <2>1 DEF TypeOK, Listening
  <2>2. CASE UNCHANGED vars
    BY <2>0, <2>2 DEF vars
  <2>3. ASSUME NEW h \in Hosts, CreateNetwork(h) \/ JoinFails(h) \/ ExitNetwork(h)
        PROVE  status[k] \in {"off", "asking", "registering", "joined", "left"}
    BY <2>1, <2>3 DEF CreateNetwork, JoinFails, ExitNetwork, Ends, Listening
  <2>4. ASSUME NEW h \in Hosts, NEW g \in Hosts, JoinNetwork(h, g) \/ SendDataPacket(h, g)
        PROVE  status[k] \in {"off", "asking", "registering", "joined", "left"}
    BY <2>1, <2>4 DEF JoinNetwork, SendDataPacket, Ends, Listening
  <2>5. ASSUME NEW h \in Hosts, NEW p \in net, HandlePacket(h, p)
        PROVE  status[k] \in {"off", "asking", "registering", "joined", "left"}
    <3>1. status[h] \in Listening
      BY <2>5 DEF HandlePacket, HandleMasterNodeRequest, HandleMasterNodeReply,
         HandleRegisterRequest, HandleRegisterReply, HandleRoute, HandleRouteRequest,
         HandleRouteInvalidate, HandleRoleUpdate, HandleExitNotification, Arrives
    <3>2. UNCHANGED status \/ \E s : status' = [status EXCEPT ![h] = s]
      BY <2>5 DEF HandlePacket, HandleMasterNodeRequest, HandleMasterNodeReply,
         HandleRegisterRequest, HandleRegisterReply, HandleRoute, HandleRouteRequest,
         HandleRouteInvalidate, HandleRoleUpdate, HandleExitNotification, Ends
    <3> QED
      BY <2>1, <3>1, <3>2
  <2> QED
    BY <2>2, <2>3, <2>4, <2>5 DEF Next
<1> QED
  BY <1>1, <1>2, <1>3, <1>4 DEF Orderly

\* Where things stay orderly nobody crashes or gives up.
LEMMA NobodyFails ==
    ASSUME TypeOK, Orderly', NEW h \in Hosts, NEW P,
           NEW fate \in {"failed", "unchosen", "useless", "null"}, Ends(h, fate, P)
    PROVE  FALSE
  BY DEF Ends, Orderly, TypeOK

\* What an action leaves alone stays as it is.
LEMMA StageSame ==
    ASSUME Outside, Stage, UNCHANGED <<status, tables, net>>
    PROVE  Outside' /\ Stage'
<1> USE DEF tables
<1>1. Outside' /\ (Deserted => Deserted')
  BY DEF Outside, Deserted
<1>2. \A N, M \in SUBSET Hosts : /\ Consistent(N, M) => Consistent(N, M)'
                                 /\ Shape(N, M) => Shape(N, M)'
  BY DEF Consistent, Shape, Members, HasSelf
<1>3. \A N, M \in SUBSET Hosts : \A h \in Hosts : Asks(N, M, h) => Asks(N, M, h)'
  BY <1>2 DEF Asks, Members, HasSelf
<1>4. \A N, M \in SUBSET Hosts : \A h, x \in Hosts :
         /\ Registers(N, M, h, x) => Registers(N, M, h, x)'
         /\ Requests(N, M, h, x) => Requests(N, M, h, x)'
         /\ Leaves(N, M, h, x) => Leaves(N, M, h, x)'
  BY <1>2 DEF Registers, Requests, Leaves, NobodyJoins, Members, HasSelf
<1>5. \A N, M \in SUBSET Hosts : \A h \in Hosts : Spreads(h, N, M) => Spreads(h, N, M)'
  <2>1. \A N, M \in SUBSET Hosts : \A h \in Hosts : Tidings(h, N, M) => Tidings(h, N, M)'
    BY DEF Tidings, HasSelf
  <2>2. ASSUME NEW N \in SUBSET Hosts, NEW M \in SUBSET Hosts, NEW h \in Hosts,
               NEW x \in Hosts, Informed(h, N, M, x)
        PROVE  Informed(h, N, M, x)'
    <3>1. masters' = masters /\ nodes' = nodes /\ net' = net /\ status' = status
      OBVIOUS
    <3>2. \A y \in M \ masters[x] :
             \/ Route(h, x, y, TRUE) \in net
             \/ y = x /\ (RoleUpdate(h, x) \in net \/ status[x] = "registering")
      BY <2>2 DEF Informed
    <3> QED
      BY <2>2, <3>1, <3>2 DEF Informed, HasSelf
  <2> QED
    BY <1>2, <2>1, <2>2 DEF Spreads
<1> QED
  BY <1>1, <1>3, <1>4, <1>5 DEF Stage

\* The handler of a packet is that of its type, at the host it is sent to.
LEMMA HandlerOf ==
    ASSUME NEW k, NEW p, HandlePacket(k, p)
    PROVE  /\ k = p.to /\ status[k] \in Listening
           /\ p.type = "MasterNodeRequest" => HandleMasterNodeRequest(k, p)
           /\ p.type = "MasterNodeReply" => HandleMasterNodeReply(k, p)
           /\ p.type = "RegisterRequest" => HandleRegisterRequest(k, p)
           /\ p.type = "RegisterReply" => HandleRegisterReply(k, p)
           /\ p.type = "Route" => HandleRoute(k, p)
           /\ p.type = "RouteRequest" => HandleRouteRequest(k, p)
           /\ p.type = "RouteInvalidate" => HandleRouteInvalidate(k, p)
           /\ p.type = "RoleUpdate" => HandleRoleUpdate(k, p)
           /\ p.type = "ExitNotification" => HandleExitNotification(k, p)
  BY DEF HandlePacket, HandleMasterNodeRequest, HandleMasterNodeReply,
     HandleRegisterRequest, HandleRegisterReply, HandleRoute, HandleRouteRequest,
     HandleRouteInvalidate, HandleRoleUpdate, HandleExitNotification, Arrives

\* The masters of a network are hosts of it, and there is one.
LEMMA ShapeFacts ==
    ASSUME NEW N, NEW M, Shape(N, M)
    PROVE  M \subseteq N /\ M # {}
  BY DEF Shape

\* They keep their shape when the twin stays or is made a master.
LEMMA ShapeKept ==
    ASSUME NEW N, NEW M, Shape(N, M), twin' = twin \/ twin' = "master"
    PROVE  Shape(N, M)'
  BY DEF Shape

\* A newcomer is told a master by any member, and turns to it.
LEMMA AsksStep ==
    ASSUME TypeOK, Leads, Outside, Orderly', NEW N \in SUBSET Hosts, NEW M \in SUBSET Hosts,
           NEW h \in Hosts, Asks(N, M, h), NEW k \in Hosts, NEW p \in net, HandlePacket(k, p)
    PROVE  Outside' /\ Stage'
<1>1. PICK g \in N : \/ net = {MasterNodeRequest(h, g)}
                     \/ \E x \in M : net = {MasterNodeReply(g, h, x)}
  BY DEF Asks
<1>2. M \subseteq N /\ Consistent(N, M) /\ N = Members /\ status[h] = "asking"
      /\ \A j \in Hosts \ {h} : status[j] \notin {"asking", "registering"}
  BY ShapeFacts DEF Asks, Consistent
<1>3. HasSelf(g) /\ masters[g] = M /\ g # h /\ g \in Hosts
  BY <1>2 DEF Members, Consistent, HasSelf
<1>4. CASE net = {MasterNodeRequest(h, g)}
  <2>1. p = MasterNodeRequest(h, g)
    BY <1>4
  <2>2. p.type = "MasterNodeRequest" /\ p.from = h /\ p.to = g
    BY <2>1 DEF MasterNodeRequest, Packet
  <2>3. HandleMasterNodeRequest(g, p)
    BY <2>2, HandlerOf
  <2>4. PICK x \in Choices(g, h) : Handled(p, {MasterNodeReply(g, h, x)})
                                   /\ UNCHANGED <<status, tables>>
    BY <1>3, <2>2, <2>3, NobodyFails DEF HandleMasterNodeRequest
  <2>5. x \in M
    <3>1. h \notin M /\ M # {}
      BY <1>2, ShapeFacts DEF Consistent, Members, HasSelf
    <3>2. g \in nodes[g] /\ (g = Founder => g \in M)
      BY <1>3 DEF TypeOK, Leads, FounderLeads
    <3>3. MasterPeers(g) \subseteq M /\ M \ {g} \subseteq MasterPeers(g)
      BY <1>3, <3>2, PeerFacts DEF TypeOK
    <3> QED
      BY <1>3, <2>4, <3>1, <3>3 DEF Choices
  <2>6. net' = {MasterNodeReply(g, h, x)}
    BY <1>4, <2>1, <2>4 DEF Handled
  <2>7. Consistent(N, M)' /\ N = Members'
    BY <1>2, <2>4, ShapeKept DEF Consistent, Members, HasSelf, tables
  <2>8. Asks(N, M, h)'
    BY <1>2, <2>4, <2>5, <2>6, <2>7 DEF Asks
  <2>9. Outside'
    BY <2>4 DEF Outside, tables
  <2> QED
    BY <2>8, <2>9 DEF Stage
<1>5. ASSUME NEW x \in M, net = {MasterNodeReply(g, h, x)}
      PROVE  Outside' /\ Stage'
  <2>1. p = MasterNodeReply(g, h, x)
    BY <1>5
  <2>2. p.type = "MasterNodeReply" /\ p.about = x /\ p.to = h
    BY <2>1 DEF MasterNodeReply, Packet
  <2>3. HandleMasterNodeReply(h, p)
    BY <2>2, HandlerOf
  <2>4. status' = [status EXCEPT ![h] = "registering"] /\ UNCHANGED tables
        /\ net' = {RegisterRequest(h, x)}
    BY <1>5, <2>1, <2>2, <2>3 DEF HandleMasterNodeReply, Handled
  <2>5. nodes[h] = {} /\ status[Founder] # "off"
    BY <1>2 DEF Outside
  <2>6. Members' = Members
    BY <1>2, <2>4 DEF Members, HasSelf, TypeOK
  <2>7. Consistent(N, M)'
    BY <1>2, <2>4, <2>6, ShapeKept DEF Consistent, tables
  <2>8. \A j \in Hosts : status'[j] = IF j = h THEN "registering" ELSE status[j]
    BY <2>4 DEF TypeOK
  <2>9. Registers(N, M, h, x)'
    BY <1>2, <1>5, <2>4, <2>5, <2>6, <2>7, <2>8 DEF Registers, tables
  <2>10. Outside'
    BY <2>4, <2>5, <2>8, MembershipAssumption DEF Outside, tables
  <2> QED
    BY <2>9, <2>10 DEF Stage
<1> QED
  BY <1>1, <1>4, <1>5

\* A master that is asked for a route answers with a host of its table or not at all.
LEMMA RequestsStep ==
    ASSUME TypeOK, Outside, Orderly', NEW N \in SUBSET Hosts, NEW M \in SUBSET Hosts,
           NEW h \in Hosts, NEW x \in Hosts, Requests(N, M, h, x),
           NEW k \in Hosts, NEW p \in net, HandlePacket(k, p)
    PROVE  Outside' /\ Stage'
<1>1. PICK g \in Hosts : net = {RouteRequest(h, x, g)}
  BY DEF Requests
<1>2. M \subseteq N /\ Consistent(N, M) /\ N = Members /\ x \in M /\ h \in N
      /\ NobodyJoins /\ Shape(N, M)
  BY ShapeFacts DEF Requests, Consistent
<1>3. HasSelf(x) /\ masters[x] = M /\ nodes[x] = N
  BY <1>2 DEF Members, Consistent
<1>4. p = RouteRequest(h, x, g)
  BY <1>1
<1>5. p.type = "RouteRequest" /\ p.from = h /\ p.to = x
  BY <1>4 DEF RouteRequest, Packet
<1>6. HandleRouteRequest(x, p)
  BY <1>5, HandlerOf
<1>7. /\ UNCHANGED <<status, tables>>
      /\ net' = {} \/ \E y \in N : net' = {Route(x, h, y, y \in M)}
  BY <1>1, <1>3, <1>4, <1>5, <1>6, NobodyFails DEF HandleRouteRequest, Handled, Answers
<1>8. Tidings(x, N, M)'
  BY <1>2, <1>7 DEF Tidings
<1>9. ASSUME NEW z \in N \ {x}
      PROVE  Informed(x, N, M, z)'
  <2>1. status[z] = "joined" /\ masters[z] = M /\ nodes[z] \subseteq N
        /\ (z \in M => nodes[z] = N)
    BY <1>2 DEF Members, HasSelf, Consistent
  <2>2. status'[z] = "joined" /\ masters'[z] = M /\ nodes'[z] \subseteq N
        /\ (z \in M => nodes'[z] = N)
    BY <1>7, <2>1 DEF tables
  <2> QED
    BY <1>2, <2>2 DEF Informed
<1>10. /\ status'[x] = "joined" /\ masters'[x] = M /\ nodes'[x] = N
       /\ N = {z \in Hosts : status'[z] \in {"registering", "joined"}}
       /\ \A j \in Hosts : status'[j] # "asking"
  BY <1>2, <1>3, <1>7 DEF tables, HasSelf, Members, NobodyJoins
<1>11. Spreads(x, N, M)'
  BY <1>2, <1>7, <1>8, <1>9, <1>10, ShapeKept DEF Spreads, tables
<1>12. Outside'
  BY <1>7 DEF Outside, tables
<1> QED
  BY <1>11, <1>12 DEF Stage

\* How many masters a small network has.
LEMMA MasterCount ==
    ASSUME NEW N \in SUBSET Hosts, NEW M, Shape(N, M), NEW x \in M
    PROVE  /\ Cardinality(N) \in Nat /\ Cardinality(N) <= Cardinality(Hosts)
           /\ Cardinality(Hosts) \in Nat
           /\ \/ Cardinality(M) = 1 /\ M = {x} /\ (N = {x} \/ (x = Founder /\ twin = "master"))
              \/ Cardinality(M) = 2 /\ \E y \in N \ {x} : M = {x, y}
<1>1. IsFiniteSet(N) /\ Cardinality(N) \in Nat /\ Cardinality(N) <= Cardinality(Hosts)
      /\ Cardinality(Hosts) \in Nat
  BY MembershipAssumption, FS_Subset, FS_CardinalityType
<1>2. PICK a, b \in N : M = {a, b} /\ (a = b => N = {a} \/ (a = Founder /\ twin = "master"))
  BY DEF Shape
<1>3. CASE a = b
  BY <1>1, <1>2, <1>3, FS_Singleton
<1>4. CASE a # b
  <2>1. Cardinality({a}) = 1 /\ IsFiniteSet({a})
    BY FS_Singleton
  <2>2. Cardinality({a} \cup {b}) = 2
    <3> DEFINE S == {a}
    <3>1. IsFiniteSet(S) /\ b \notin S /\ Cardinality(S) = 1
      BY <1>4, <2>1
    <3> HIDE DEF S
    <3>2. Cardinality(S \cup {b}) = Cardinality(S) + 1
      BY <3>1, FS_AddElement
    <3>3. Cardinality(S \cup {b}) = 2
      BY <3>1, <3>2
    <3> QED
      BY <3>3 DEF S
  <2>3. M = {a} \cup {b}
    BY <1>2
  <2> QED
    BY <1>1, <1>2, <1>4, <2>2, <2>3
<1> QED
  BY <1>3, <1>4

\* The newcomer becomes a master only if there is one, and then unless that one is the
\* founder with its twin.
LEMMA RoleOfNewcomer ==
    ASSUME NEW N \in SUBSET Hosts, NEW M, Shape(N, M), NEW x \in M, x \in Hosts,
           NEW h \in Hosts \ N, Cardinality(Hosts) <= 2 * networkDivisor,
           masters[x] = M, nodes[x] = N, twin \in {"none", "master"}
    PROVE  /\ NewRole(x) => M = {x}
           /\ M = {x} => NewRole(x) \/ (x = Founder /\ twin = "master")
<1>1. /\ Cardinality(N) \in Nat /\ Cardinality(Hosts) \in Nat
      /\ \/ Cardinality(M) = 1 /\ M = {x}
         \/ Cardinality(M) = 2 /\ \E y \in N \ {x} : M = {x, y}
  BY MasterCount
<1>2. Cardinality(N) + 1 <= Cardinality(Hosts)
  <2>1. IsFiniteSet(N)
    BY MembershipAssumption, FS_Subset
  <2>2. Cardinality(N \cup {h}) = Cardinality(N) + 1
    BY <2>1, FS_AddElement
  <2>3. N \cup {h} \in SUBSET Hosts
    OBVIOUS
  <2>4. Cardinality(N \cup {h}) <= Cardinality(Hosts)
    BY <2>3, MembershipAssumption, FS_Subset
  <2> QED
    BY <2>2, <2>4
<1>3. networkDivisor \in Nat \ {0}
  BY MembershipAssumption
<1>4. \/ Copies(x) = 0 /\ MasterCopies(x) = 0 /\ ~(x = Founder /\ twin = "master")
      \/ Copies(x) = 1 /\ MasterCopies(x) = 1 /\ x = Founder /\ twin = "master"
  BY DEF Copies, MasterCopies, Twin
<1>5. CASE Cardinality(M) = 1 /\ M = {x}
  BY <1>4, <1>5 DEF NewRole
<1>6. CASE Cardinality(M) = 2 /\ M # {x}
  <2>1. ~(2 * networkDivisor < Cardinality(N) + 1) /\ ~(3 * networkDivisor < Cardinality(N) + 1 + 1)
    BY <1>1, <1>2, <1>3
  <2> QED
    BY <1>1, <1>4, <1>6, <2>1 DEF NewRole
<1> QED
  BY <1>1, <1>5, <1>6

\* Masters become scarce when one of them leaves, but not for a founder with its twin.
LEMMA ScarceAfter ==
    ASSUME NEW N \in SUBSET Hosts, NEW M, Shape(N, M), NEW h \in N, NEW x \in M \ {h},
           Cardinality(Hosts) <= 2 * networkDivisor, twin \in {"none", "master"}
    PROVE  /\ h \in M => /\ M = {x, h}
                         /\ Scarce(x, N \ {h}, M \ {h}) <=> ~(x = Founder /\ twin = "master")
           /\ h \notin M => ~Scarce(x, N \ {h}, M \ {h})
<1>1. /\ Cardinality(N) \in Nat /\ Cardinality(N) <= Cardinality(Hosts)
      /\ Cardinality(Hosts) \in Nat
      /\ \/ Cardinality(M) = 1 /\ M = {x} /\ (N = {x} \/ (x = Founder /\ twin = "master"))
         \/ Cardinality(M) = 2 /\ \E y \in N \ {x} : M = {x, y}
  BY MasterCount
<1>2. Cardinality(N \ {h}) = Cardinality(N) - 1
  BY MembershipAssumption, FS_Subset, FS_RemoveElement
<1>3. networkDivisor \in Nat \ {0}
  BY MembershipAssumption
<1>4. \/ Copies(x) = 0 /\ MasterCopies(x) = 0 /\ ~(x = Founder /\ twin = "master")
      \/ Copies(x) = 1 /\ MasterCopies(x) = 1 /\ x = Founder /\ twin = "master"
  BY DEF Copies, MasterCopies, Twin
<1>5. /\ ~(2 * networkDivisor < Cardinality(N \ {h}) + 0)
      /\ ~(2 * networkDivisor < Cardinality(N \ {h}) + 1)
      /\ ~(3 * networkDivisor < Cardinality(N \ {h}) + 1)
  BY <1>1, <1>2, <1>3
<1>6. CASE h \in M
  <2>1. M \ {h} = {x} /\ M = {x, h}
    BY <1>1, <1>6
  <2>2. Cardinality(M \ {h}) = 1
    BY <2>1, FS_Singleton
  <2> QED
    BY <1>4, <1>5, <1>6, <2>1, <2>2 DEF Scarce
<1>7. CASE h \notin M
  <2>1. M \ {h} = M /\ N # {x}
    BY <1>7
  <2>2. CASE Cardinality(M) = 1 /\ Copies(x) = 1 /\ MasterCopies(x) = 1
    BY <1>5, <1>7, <2>1, <2>2 DEF Scarce
  <2>3. CASE Cardinality(M) = 2 /\ Copies(x) = 0 /\ MasterCopies(x) = 0
    BY <1>5, <1>7, <2>1, <2>3 DEF Scarce
  <2>4. CASE Cardinality(M) = 2 /\ Copies(x) = 1 /\ MasterCopies(x) = 1
    BY <1>5, <1>7, <2>1, <2>4 DEF Scarce
  <2> QED
    BY <1>1, <1>4, <2>1, <2>2, <2>3, <2>4
<1> QED
  BY <1>6, <1>7

\* The master x registers h: as a second master, of whom all others learn, or as a slave,
\* of whom the other master learns.
LEMMA RegistersStep ==
    ASSUME TypeOK, Leads, Outside, Orderly, Orderly', NEW N \in SUBSET Hosts,
           NEW M \in SUBSET Hosts, NEW h \in Hosts, NEW x \in Hosts, Registers(N, M, h, x),
           NEW k \in Hosts, NEW p \in net, HandlePacket(k, p)
    PROVE  Outside' /\ Stage'
<1>1. /\ M \subseteq N /\ Consistent(N, M) /\ N = Members /\ x \in M /\ Shape(N, M)
      /\ status[h] = "registering" /\ nodes[h] = {}
      /\ \A j \in Hosts \ {h} : status[j] \notin {"asking", "registering"}
      /\ net = {RegisterRequest(h, x)}
  BY ShapeFacts DEF Registers, Consistent
<1>2. HasSelf(x) /\ masters[x] = M /\ nodes[x] = N /\ IsMaster(x)
  BY <1>1 DEF Members, Consistent, IsMaster
<1>3. /\ h \notin N /\ h \notin M /\ h # x /\ masters[h] = {} /\ h # Founder
      /\ twin \in {"none", "master"}
  BY <1>1 DEF Members, HasSelf, TypeOK, Leads, FounderLeads
<1>4. p = RegisterRequest(h, x)
  BY <1>1
<1>5. p.type = "RegisterRequest" /\ p.from = h /\ p.to = x
  BY <1>4 DEF RegisterRequest, Packet
<1>6. HandleRegisterRequest(x, p)
  BY <1>5, HandlerOf
<1>7. PICK flag \in BOOLEAN : flag = NewRole(x)
  BY NewRoleTyped
<1>8. PICK H, K, U : /\ H = N \cup {h} /\ K = IF flag THEN M \cup {h} ELSE M
                     /\ U = IF flag THEN Peers(x) ELSE MasterPeers(x)
  OBVIOUS
<1>9. /\ net' = Announcements(x, h, flag) \cup {Route(x, h, x, TRUE), RegisterReply(x, h, flag)}
      /\ UpdateNode(x, h, flag)
      /\ UNCHANGED status
  BY <1>1, <1>2, <1>4, <1>5, <1>6, <1>7 DEF HandleRegisterRequest, Handled
<1>10. /\ nodes' = [nodes EXCEPT ![x] = H]
       /\ masters' = [masters EXCEPT ![x] = K]
       /\ twin' = twin
  BY <1>1, <1>2, <1>3, <1>8, <1>9 DEF UpdateNode
<1>11. /\ flag => M = {x}
       /\ M = {x} => flag \/ (x = Founder /\ twin = "master")
  <2>1. x \in M /\ Shape(N, M) /\ h \in Hosts \ N /\ Cardinality(Hosts) <= 2 * networkDivisor
    BY <1>1, <1>3 DEF Orderly
  <2> QED
    BY <1>2, <1>3, <1>7, <2>1, RoleOfNewcomer
<1>12. /\ U \subseteq N /\ (flag => N \ {x} \subseteq U) /\ M \ {x} \subseteq U
       /\ \A g \in U : (g \in MasterPeers(x)) = (g \in K)
  <2>1. /\ Peers(x) \subseteq N /\ MasterPeers(x) \subseteq Peers(x)
        /\ N \ {x} \subseteq Peers(x)
        /\ \A g \in N \ {x} : g \in MasterPeers(x) <=> g \in M
        /\ x \in Peers(x) => x \in MasterPeers(x)
    BY <1>2, <1>3, PeerFacts
  <2>2. \A g \in N : g \in K <=> g \in M
    BY <1>3, <1>8
  <2> QED
    BY <1>1, <1>8, <1>11, <2>1, <2>2
<1>13. (h \in K) = flag /\ (x \in K) = TRUE
  <2>1. CASE flag
    BY <1>1, <1>8, <2>1
  <2>2. CASE ~flag
    <3>1. h \notin K /\ x \in K
      BY <1>1, <1>3, <1>8, <2>2
    <3> QED
      BY <2>2, <3>1
  <2> QED
    BY <2>1, <2>2
<1>14. /\ net' = {Route(x, h, g, g \in MasterPeers(x)) : g \in U}
                 \cup {Route(x, g, h, flag) : g \in U}
                 \cup {Route(x, h, x, TRUE), RegisterReply(x, h, flag)}
       /\ \A g \in U : Route(x, h, g, g \in MasterPeers(x)) = Route(x, h, g, g \in K)
       /\ \A g \in U : Route(x, g, h, flag) = Route(x, g, h, h \in K)
       /\ Route(x, h, x, TRUE) = Route(x, h, x, x \in K)
       /\ RegisterReply(x, h, flag) = RegisterReply(x, h, h \in K)
  BY <1>8, <1>9, <1>12, <1>13 DEF Announcements
<1>15. /\ K \in SUBSET Hosts /\ H \in SUBSET Hosts /\ x \in K /\ x \in H /\ h \in H
       /\ Shape(H, K)'
  <2>1. CASE flag
    <3>1. K = {x, h} /\ x \in H /\ h \in H /\ (Founder \in H => Founder \in K)
      BY <1>1, <1>3, <1>8, <1>11, <2>1 DEF Shape
    <3> QED
      BY <1>1, <1>3, <1>8, <3>1 DEF Shape
  <2>2. CASE ~flag
    <3>1. K = M /\ (Founder \in H => Founder \in K)
      BY <1>1, <1>3, <1>8, <2>2 DEF Shape
    <3>2. PICK a, b \in N : M = {a, b}
      BY <1>1 DEF Shape
    <3>3. CASE a = b
      <4>1. a = Founder /\ twin' = "master"
        BY <1>1, <1>10, <1>11, <2>2, <3>2, <3>3
      <4> QED
        BY <1>1, <1>8, <3>1, <3>2, <3>3, <4>1 DEF Shape
    <3>4. CASE a # b
      BY <1>1, <1>8, <3>1, <3>2, <3>4 DEF Shape
    <3> QED
      BY <3>3, <3>4
  <2> QED
    BY <2>1, <2>2
<1>16. /\ status'[x] = "joined" /\ masters'[x] = K /\ nodes'[x] = H
       /\ H = {z \in Hosts : status'[z] \in {"registering", "joined"}}
       /\ \A j \in Hosts : status'[j] # "asking"
  BY <1>1, <1>2, <1>8, <1>9, <1>10 DEF HasSelf, Members, TypeOK
<1>17. Tidings(x, H, K)'
  <2> SUFFICES ASSUME NEW q \in net'
               PROVE  \E z \in H : \/ \E y \in H : q = Route(x, z, y, y \in K)
                                   \/ q = RegisterReply(x, z, z \in K)
                                      /\ status'[z] = "registering"
    BY DEF Tidings
  <2>1. status'[h] = "registering" /\ U \subseteq H
    BY <1>1, <1>8, <1>9, <1>12
  <2>2. CASE q \in {Route(x, h, g, g \in MasterPeers(x)) : g \in U}
    BY <1>14, <1>15, <2>1, <2>2
  <2>3. CASE q \in {Route(x, g, h, flag) : g \in U}
    BY <1>14, <1>15, <2>1, <2>3
  <2>4. CASE q = Route(x, h, x, TRUE) \/ q = RegisterReply(x, h, flag)
    BY <1>14, <1>15, <2>1, <2>4
  <2> QED
    BY <1>14, <2>2, <2>3, <2>4
<1>18. Informed(x, H, K, h)'
  <2>1. status'[h] = "registering" /\ masters'[h] = {} /\ nodes'[h] = {}
    BY <1>1, <1>3, <1>9, <1>10 DEF TypeOK
  <2>2. RegisterReply(x, h, h \in K) \in net'
    BY <1>14
  <2>3. \A y \in K \ {h} : Route(x, h, y, TRUE) \in net'
    <3> SUFFICES ASSUME NEW y \in K \ {h}, y # x
                 PROVE  Route(x, h, y, TRUE) \in net'
      BY <1>14
    <3>1. y \in U /\ (y \in MasterPeers(x)) = TRUE
      BY <1>8, <1>12
    <3> QED
      BY <1>14, <3>1
  <2>4. h \in K => \A y \in H \ {h} : Route(x, h, y, y \in K) \in net'
    <3> SUFFICES ASSUME h \in K, NEW y \in H \ {h}
                 PROVE  Route(x, h, y, y \in K) \in net'
      OBVIOUS
    <3>1. y = x \/ y \in U
      BY <1>8, <1>12, <1>13
    <3> QED
      BY <1>14, <3>1
  <2> QED
    BY <2>1, <2>2, <2>3, <2>4 DEF Informed, HasSelf
<1>19. ASSUME NEW z \in H \ {x, h}
       PROVE  Informed(x, H, K, z)'
  <2>1. z \in N /\ z \in Hosts
    BY <1>8, <1>19
  <2>2. status[z] = "joined" /\ masters[z] = M /\ nodes[z] \subseteq N
        /\ (z \in M => nodes[z] = N)
    BY <1>1, <2>1 DEF Members, HasSelf, Consistent
  <2>3. status'[z] = "joined" /\ masters'[z] = M /\ nodes'[z] \subseteq H
        /\ (z \in K => z \in M /\ nodes'[z] = N)
    BY <1>8, <1>9, <1>10, <1>19, <2>1, <2>2 DEF TypeOK
  <2>4. z \in K \/ h \in K => Route(x, z, h, h \in K) \in net'
    <3>1. z \in K \/ h \in K => z \in U
      BY <1>12, <1>13, <1>19, <2>1, <2>3
    <3> QED
      BY <1>14, <3>1
  <2>5. (\A y \in H \ N : y = h) /\ (\A y \in K \ M : y = h /\ (h \in K) = TRUE) /\ M \subseteq K
    BY <1>8
  <2>6. \A y \in K \ M : Route(x, z, y, TRUE) \in net'
    BY <2>4, <2>5
  <2>7. M \cap H \subseteq K /\ x \in M
    BY <1>1, <2>5
  <2>8. z \in K => \A y \in H \ nodes'[z] : Route(x, z, y, y \in K) \in net'
    BY <2>3, <2>4, <2>5
  <2> QED
    BY <2>3, <2>6, <2>7, <2>8 DEF Informed
<1>20. Spreads(x, H, K)'
  BY <1>15, <1>16, <1>17, <1>18, <1>19 DEF Spreads
<1>21. Outside'
  BY <1>2, <1>9, <1>10 DEF Outside, HasSelf, TypeOK
<1> QED
  BY <1>15, <1>20, <1>21 DEF Stage

\* The master x hears that h has left: it tells the others and, if h was the other
\* master, makes a slave a master.
LEMMA LeavesStep ==
    ASSUME TypeOK, Leads, Outside, Orderly, Orderly', NEW N \in SUBSET Hosts,
           NEW M \in SUBSET Hosts, NEW h \in Hosts, NEW x \in Hosts, Leaves(N, M, h, x),
           NEW k \in Hosts, NEW p \in net, HandlePacket(k, p)
    PROVE  Outside' /\ Stage'
<1>1. /\ M \subseteq N /\ Consistent(N, M) /\ N = Members \cup {h} /\ x \in M \ {h}
      /\ Shape(N, M) /\ status[h] = "left" /\ NobodyJoins
      /\ net = {ExitNotification(h, x)}
  BY ShapeFacts DEF Leaves, Consistent
<1>2. \A z \in N \ {h} : /\ status[z] = "joined" /\ masters[z] = M /\ nodes[z] \subseteq N
                         /\ z \in nodes[z] /\ (z \in M => nodes[z] = N)
  BY <1>1 DEF Members, Consistent, HasSelf, TypeOK
<1>3. HasSelf(x) /\ masters[x] = M /\ nodes[x] = N /\ IsMaster(x) /\ x \in N \ {h} /\ h \in N
  BY <1>1, <1>2 DEF IsMaster, HasSelf
<1>4. p = ExitNotification(h, x)
  BY <1>1
<1>5. p.type = "ExitNotification" /\ p.from = h /\ p.to = x
  BY <1>4 DEF ExitNotification, Packet
<1>6. HandleExitNotification(x, p)
  BY <1>5, HandlerOf
<1>7. PICK H, S : H = N \ {h} /\ S = M \ {h}
  OBVIOUS
<1>8. PICK r \in IF Scarce(x, H, S) THEN Reincarnations(x, H, S)
                 ELSE {[sent |-> {}, flags |-> S, new |-> {}]} :
         /\ net' = Farewells(x, h) \cup r.sent
         /\ nodes' = [nodes EXCEPT ![x] = H]
         /\ masters' = [masters EXCEPT ![x] = r.flags]
         /\ UNCHANGED <<status, twin>>
  BY <1>1, <1>3, <1>4, <1>5, <1>6, <1>7 DEF HandleExitNotification, Handled
<1>9. PICK K, P :
         /\ net' = Farewells(x, h) \cup P
         /\ masters' = [masters EXCEPT ![x] = K]
         /\ \/ K = M /\ h \notin M /\ P = {}
            \/ /\ h \in M /\ M = {x, h} /\ K = {x} /\ P = {}
               /\ H = {x} \/ (x = Founder /\ twin = "master")
            \/ h \in M /\ M = {x, h} /\ \E t \in H \ {x} :
                  K = {x, t} /\ P = Promotion(x, t, (H \ {x}) \ {t})
  <2>1. /\ h \in M => M = {x, h} /\ (Scarce(x, H, S) <=> ~(x = Founder /\ twin = "master"))
        /\ h \notin M => ~Scarce(x, H, S)
    <3>1. x \in M \ {h} /\ h \in N /\ Shape(N, M) /\ Cardinality(Hosts) <= 2 * networkDivisor
          /\ twin \in {"none", "master"}
      BY <1>1, <1>3 DEF Orderly, TypeOK, Leads, FounderLeads
    <3> QED
      BY <1>7, <3>1, ScarceAfter
  <2>2. CASE h \notin M
    <3>1. r = [sent |-> {}, flags |-> S, new |-> {}] /\ S = M
      BY <1>7, <1>8, <2>1, <2>2
    <3> QED
      BY <1>8, <2>2, <3>1
  <2>3. CASE h \in M /\ x = Founder /\ twin = "master"
    <3>1. r = [sent |-> {}, flags |-> S, new |-> {}] /\ M = {x, h} /\ S = {x}
      BY <1>3, <1>7, <1>8, <2>1, <2>3
    <3> QED
      BY <1>8, <2>3, <3>1
  <2>4. CASE h \in M /\ ~(x = Founder /\ twin = "master")
    <3>1. r \in Reincarnations(x, H, S) /\ M = {x, h} /\ S = {x} /\ x \in H
      BY <1>3, <1>7, <1>8, <2>1, <2>4
    <3>2. CASE H \ {x} = {}
      <4>1. r = [sent |-> {}, flags |-> {x}, new |-> {}]
        BY <3>1, <3>2 DEF Reincarnations
      <4>2. r.sent = {} /\ r.flags = {x} /\ H = {x}
        BY <3>1, <3>2, <4>1
      <4> QED
        BY <1>8, <2>4, <3>1, <4>2
    <3>3. CASE H \ {x} # {}
      <4>1. PICK t \in H \ {x} : r = [sent |-> Promotion(x, t, (H \ {x}) \ {t}),
                                      flags |-> {x} \cup {t}, new |-> {t}]
        BY <3>1, <3>3 DEF Reincarnations
      <4>2. r.sent = Promotion(x, t, (H \ {x}) \ {t}) /\ r.flags = {x, t}
        BY <4>1
      <4> QED
        BY <1>8, <2>4, <3>1, <4>2
    <3> QED
      BY <3>2, <3>3
  <2> QED
    BY <2>2, <2>3, <2>4
<1>10. PICK D : /\ Farewells(x, h) = {RouteInvalidate(x, z, h) : z \in D}
                /\ D \subseteq H /\ H \ {x} \subseteq D
  <2>1. Peers(x) \ {h} \subseteq H /\ H \ {x} \subseteq Peers(x) \ {h}
    BY <1>3, <1>7, PeerFacts
  <2>2. Farewells(x, h) = {RouteInvalidate(x, z, h) : z \in Peers(x) \ {h}}
    BY DEF Farewells
  <2> QED
    BY <2>1, <2>2, Zenon
<1>11. /\ K \in SUBSET Hosts /\ H \in SUBSET Hosts /\ x \in K /\ x \in H /\ h \notin H
       /\ K \subseteq H /\ Shape(H, K)'
  <2>1. /\ H \in SUBSET Hosts /\ x \in H /\ h \notin H /\ x \in K /\ twin' = twin
        /\ Founder \in H => Founder \in K
    BY <1>1, <1>3, <1>7, <1>8, <1>9 DEF Shape
  <2>2. CASE K = M /\ h \notin M
    <3>1. PICK a, b \in N : M = {a, b} /\ (a = b => N = {a} \/ (a = Founder /\ twin = "master"))
      BY <1>1 DEF Shape
    <3>2. a \in H /\ b \in H /\ N # {a}
      BY <1>3, <1>7, <2>2, <3>1
    <3> QED
      BY <2>1, <2>2, <3>1, <3>2 DEF Shape
  <2>3. CASE K = {x} /\ (H = {x} \/ (x = Founder /\ twin = "master"))
    BY <2>1, <2>3 DEF Shape
  <2>4. ASSUME NEW t \in H \ {x}, K = {x, t}
        PROVE  K \subseteq H /\ Shape(H, K)'
    BY <2>1, <2>4 DEF Shape
  <2> QED
    BY <1>9, <2>1, <2>2, <2>3, <2>4
<1>12. /\ status'[x] = "joined" /\ masters'[x] = K /\ nodes'[x] = H
       /\ H = {z \in Hosts : status'[z] \in {"registering", "joined"}}
       /\ \A j \in Hosts : status'[j] # "asking"
  BY <1>1, <1>3, <1>7, <1>8, <1>9 DEF HasSelf, Members, TypeOK, NobodyJoins
<1>13. \A z \in H \ {x} :
          /\ status'[z] = "joined" /\ nodes'[z] = nodes[z] /\ masters'[z] = M
          /\ nodes[z] \subseteq H \cup {h} /\ z \in nodes[z] /\ (z \in M => nodes[z] = N)
  BY <1>2, <1>7, <1>8, <1>9 DEF TypeOK
<1>14. Tidings(x, H, K)'
  <2> SUFFICES ASSUME NEW q \in net'
               PROVE  \E z \in H :
                         \/ \E y \in H : q = Route(x, z, y, y \in K)
                         \/ \E y \in Hosts \ H : q = RouteInvalidate(x, z, y)
                         \/ q = RoleUpdate(x, z) /\ z \in K \ {x} /\ HasSelf(z)'
    BY DEF Tidings
  <2>1. CASE q \in Farewells(x, h)
    BY <1>10, <1>11, <2>1
  <2>2. CASE q \in P
    <3>1. PICK t \in H \ {x} : K = {x, t} /\ P = Promotion(x, t, (H \ {x}) \ {t})
      BY <1>9, <2>2
    <3>2. CASE q = RoleUpdate(x, t)
      BY <1>13, <3>1, <3>2 DEF HasSelf
    <3>3. ASSUME NEW g \in (H \ {x}) \ {t}, q = Route(x, g, t, TRUE)
          PROVE  \E z \in H \ {x} : \E y \in H : q = Route(x, z, y, y \in K)
      <4>1. (t \in K) = TRUE
        BY <3>1
      <4>2. q = Route(x, g, t, t \in K)
        BY <3>3, <4>1
      <4> QED
        BY <4>2
    <3>4. ASSUME NEW g \in (H \ {x}) \ {t}, q = Route(x, t, g, FALSE)
          PROVE  \E z \in H \ {x} : \E y \in H : q = Route(x, z, y, y \in K)
      <4>1. (g \in K) = FALSE
        BY <3>1
      <4>2. q = Route(x, t, g, g \in K)
        BY <3>4, <4>1
      <4> QED
        BY <4>2
    <3>5. \/ q = RoleUpdate(x, t)
          \/ \E g \in (H \ {x}) \ {t} : q = Route(x, g, t, TRUE)
          \/ \E g \in (H \ {x}) \ {t} : q = Route(x, t, g, FALSE)
      BY <2>2, <3>1 DEF Promotion
    <3> QED
      BY <3>2, <3>3, <3>4, <3>5
  <2> QED
    BY <1>9, <2>1, <2>2
<1>15. ASSUME NEW z \in H \ {x}
       PROVE  Informed(x, H, K, z)'
  <2>1. RouteInvalidate(x, z, h) \in net'
    BY <1>9, <1>10
  <2>2. \A y \in nodes[z] \ H : y = h
    BY <1>13
  <2>3. /\ M \cap H \subseteq K
        /\ \A y \in K \ M : Route(x, z, y, TRUE) \in net' \/ (y = z /\ RoleUpdate(x, z) \in net')
    BY <1>9, <1>11 DEF Promotion
  <2>4. z \in K => \A y \in H \ nodes[z] : Route(x, z, y, y \in K) \in net'
    <3> SUFFICES ASSUME z \in K, NEW y \in H \ nodes[z]
                 PROVE  Route(x, z, y, y \in K) \in net'
      OBVIOUS
    <3>1. y # z /\ y \notin M /\ z \notin M
      <4>1. masters[z] = M /\ masters[z] \subseteq nodes[z]
        BY <1>2, <1>7, <1>15 DEF TypeOK
      <4> QED
        BY <1>7, <1>13, <4>1
    <3>2. K = {x, z} /\ P = Promotion(x, z, (H \ {x}) \ {z})
      BY <1>9, <3>1
    <3>3. (y \in K) = FALSE /\ y \in (H \ {x}) \ {z}
      BY <1>1, <3>1, <3>2
    <3>4. Route(x, z, y, FALSE) \in P
      BY <3>2, <3>3 DEF Promotion
    <3> QED
      BY <1>9, <3>3, <3>4
  <2> QED
    BY <1>1, <1>13, <2>1, <2>2, <2>3, <2>4 DEF Informed
<1>16. Spreads(x, H, K)'
  BY <1>11, <1>12, <1>14, <1>15 DEF Spreads
<1>17. Outside'
  BY <1>3, <1>8, <1>9 DEF Outside, HasSelf, TypeOK
<1> QED
  BY <1>11, <1>16, <1>17 DEF Stage

\* The parts of the packets of a master that has changed its table.
LEMMA PacketParts ==
    \A h, x, y, f :
        /\ Route(h, x, y, f).type = "Route" /\ Route(h, x, y, f).from = h
        /\ Route(h, x, y, f).to = x /\ Route(h, x, y, f).about = y
        /\ Route(h, x, y, f).master = f
        /\ RouteInvalidate(h, x, y).type = "RouteInvalidate" /\ RouteInvalidate(h, x, y).to = x
        /\ RouteInvalidate(h, x, y).about = y
        /\ RoleUpdate(h, x).type = "RoleUpdate" /\ RoleUpdate(h, x).to = x
        /\ RoleUpdate(h, x).from = h /\ RoleUpdate(h, x).master = TRUE
        /\ RegisterReply(h, x, f).type = "RegisterReply" /\ RegisterReply(h, x, f).to = x
        /\ RegisterReply(h, x, f).master = f
  BY DEF Route, RouteInvalidate, RoleUpdate, RegisterReply, Packet

\* The host x handles the packet p and changes its own table only, or its twin if x is m:
\* what the others know and what is on the way to them stays as it is.
LEMMA SpreadsOn ==
    ASSUME TypeOK, Outside, NEW N \in SUBSET Hosts, NEW M \in SUBSET Hosts, NEW m \in Hosts,
           Spreads(m, N, M), NEW x \in N, NEW p \in net, p.to = x, net' = net \ {p},
           twin' = twin \/ twin' = "master",
           \A k \in Hosts \ {x} : /\ status'[k] = status[k] /\ nodes'[k] = nodes[k]
                                  /\ masters'[k] = masters[k],
           \/ status'[x] = status[x]
           \/ p = RegisterReply(m, x, x \in M) /\ status'[x] = "joined",
           \/ x = m /\ nodes'[x] = nodes[x] /\ masters'[x] = masters[x]
           \/ x # m /\ Informed(m, N, M, x)'
    PROVE  Outside' /\ Stage'
<1>1. /\ Shape(N, M) /\ m \in M /\ m \in N
      /\ status[m] = "joined" /\ masters[m] = M /\ nodes[m] = N
      /\ N = {z \in Hosts : status[z] \in {"registering", "joined"}}
      /\ \A k \in Hosts : status[k] # "asking"
      /\ Tidings(m, N, M)
      /\ \A z \in N \ {m} : Informed(m, N, M, z)
  BY DEF Spreads
<1>2. x \in Hosts /\ status[x] \in {"registering", "joined"}
      /\ status'[x] \in {"registering", "joined"}
  BY <1>1
<1>3. ASSUME NEW z \in N \ {m, x}
      PROVE  Informed(m, N, M, z)'
  <2>1. Informed(m, N, M, z) /\ z \in Hosts
    BY <1>1
  <2>2. status'[z] = status[z] /\ nodes'[z] = nodes[z] /\ masters'[z] = masters[z]
    BY <2>1
  <2>3. /\ \A y, f : Route(m, z, y, f) \in net => Route(m, z, y, f) \in net'
        /\ \A y : RouteInvalidate(m, z, y) \in net => RouteInvalidate(m, z, y) \in net'
        /\ RoleUpdate(m, z) \in net => RoleUpdate(m, z) \in net'
        /\ \A f : RegisterReply(m, z, f) \in net => RegisterReply(m, z, f) \in net'
    BY PacketParts
  <2>4. RegisterReply(m, z, z \in M) \in net => RegisterReply(m, z, z \in M) \in net'
    BY PacketParts
  <2>5. \A y : Route(m, z, y, y \in M) \in net => Route(m, z, y, y \in M) \in net'
    BY PacketParts
  <2>6. \A y \in M \ masters[z] :
          \/ Route(m, z, y, TRUE) \in net'
          \/ y = z /\ (RoleUpdate(m, z) \in net' \/ status[z] = "registering")
    BY <2>1, <2>3 DEF Informed
  <2>7. z \in M => \A y \in N \ nodes[z] :
          Route(m, z, y, y \in M) \in net' \/ (y = z /\ status[z] = "registering")
    BY <2>1, <2>5 DEF Informed
  <2> QED
    BY <2>1, <2>2, <2>3, <2>4, <2>6, <2>7 DEF Informed, HasSelf
<1>4. Tidings(m, N, M)'
  <2> SUFFICES ASSUME NEW q \in net, q # p
               PROVE  \E z \in N :
                         \/ \E y \in N : q = Route(m, z, y, y \in M)
                         \/ \E y \in Hosts \ N : q = RouteInvalidate(m, z, y)
                         \/ q = RoleUpdate(m, z) /\ z \in M \ {m} /\ HasSelf(z)'
                         \/ q = RegisterReply(m, z, z \in M) /\ status'[z] = "registering"
    BY DEF Tidings
  <2>1. PICK z \in N :
           \/ \E y \in N : q = Route(m, z, y, y \in M)
           \/ \E y \in Hosts \ N : q = RouteInvalidate(m, z, y)
           \/ q = RoleUpdate(m, z) /\ z \in M \ {m} /\ HasSelf(z)
           \/ q = RegisterReply(m, z, z \in M) /\ status[z] = "registering"
    BY <1>1 DEF Tidings
  <2>2. CASE z = x
    BY <1>2, <2>1, <2>2 DEF HasSelf
  <2>3. CASE z # x
    BY <2>1, <2>3 DEF HasSelf
  <2> QED
    BY <2>2, <2>3
<1>5. /\ status'[m] = "joined" /\ masters'[m] = M /\ nodes'[m] = N
      /\ N = {z \in Hosts : status'[z] \in {"registering", "joined"}}
      /\ \A k \in Hosts : status'[k] # "asking"
  BY <1>1, <1>2
<1>6. Spreads(m, N, M)'
  BY <1>1, <1>3, <1>4, <1>5, ShapeKept DEF Spreads
<1>7. Outside'
  <2>1. status[Founder] # "off" /\ status'[Founder] # "off"
    BY <1>1, <1>2, MembershipAssumption DEF Outside
  <2>2. \A k \in Hosts : status'[k] \in {"off", "asking", "left"} => nodes'[k] = {}
    BY <1>2 DEF Outside
  <2> QED
    BY <2>1, <2>2 DEF Outside
<1> QED
  BY <1>6, <1>7 DEF Stage

\* What the host x has been told: a route of m, who is a master for x or comes before x
\* has a self node.
LEMMA ToldRoute ==
    ASSUME TypeOK, Leads, NEW N \in SUBSET Hosts, NEW M \in SUBSET Hosts, NEW m \in M,
           NEW x \in N \ {m}, NEW y \in N, Informed(m, N, M, x),
           status[x] \in {"registering", "joined"}, Founder \in N => Founder \in M,
           HandleRoute(x, Route(m, x, y, y \in M))
    PROVE  Informed(m, N, M, x)'
<1> DEFINE p == Route(m, x, y, y \in M)
<1>1. p.from = m /\ p.about = y /\ p.master = (y \in M)
  BY PacketParts
<1>2. m \in MasterPeers(x) \/ ~HasSelf(x)
  BY PeerFacts DEF Informed, TypeOK
<1>3. UpdateNode(x, y, y \in M) /\ UNCHANGED status /\ net' = net \ {p}
  BY <1>1, <1>2 DEF HandleRoute, Handled
<1>4. nodes'[x] = nodes[x] \cup {y}
      /\ masters'[x] = IF y \in M THEN masters[x] \cup {y} ELSE masters[x] \ {y}
  <2>1. CASE x = Founder /\ y = Founder
    <3>1. Founder \in nodes[x] /\ Founder \in masters[x] /\ y \in M
      BY <2>1 DEF TypeOK, Leads, FounderLeads, HasSelf
    <3> QED
      BY <1>3, <2>1, <3>1 DEF UpdateNode
  <2>2. CASE ~(x = Founder /\ y = Founder)
    BY <1>3, <2>2 DEF UpdateNode, TypeOK
  <2> QED
    BY <2>1, <2>2
<1>5. \A z, f : z # y /\ Route(m, x, z, f) \in net => Route(m, x, z, f) \in net'
  BY <1>3, PacketParts
<1>6. \A z : z # y /\ Route(m, x, z, z \in M) \in net => Route(m, x, z, z \in M) \in net'
  BY <1>3, PacketParts
<1>7. /\ \A z : RouteInvalidate(m, x, z) \in net => RouteInvalidate(m, x, z) \in net'
      /\ RoleUpdate(m, x) \in net => RoleUpdate(m, x) \in net'
      /\ RegisterReply(m, x, x \in M) \in net => RegisterReply(m, x, x \in M) \in net'
  <2>1. p.type = "Route"
    BY PacketParts
  <2>2. ASSUME NEW q \in net, q.type # "Route"
        PROVE  q \in net'
    BY <1>3, <2>1, <2>2
  <2> QED
    BY <2>2, PacketParts
<1> HIDE DEF p
<1>8. /\ HasSelf(x)' => m \in masters'[x]
      /\ masters'[x] \cap N \subseteq M
      /\ status'[x] = "registering" => RegisterReply(m, x, x \in M) \in net'
      /\ \A z \in nodes'[x] \ N : RouteInvalidate(m, x, z) \in net'
  BY <1>3, <1>4, <1>7 DEF Informed, HasSelf
<1>9. \A z \in M \ masters'[x] :
         \/ Route(m, x, z, TRUE) \in net'
         \/ z = x /\ (RoleUpdate(m, x) \in net' \/ status'[x] = "registering")
  BY <1>3, <1>4, <1>5, <1>7 DEF Informed
<1>10. x \in M => \A z \in N \ nodes'[x] :
          Route(m, x, z, z \in M) \in net' \/ (z = x /\ status'[x] = "registering")
  BY <1>3, <1>4, <1>6 DEF Informed
<1> QED
  BY <1>8, <1>9, <1>10 DEF Informed

\* The same of the end of a route, of a new role and of the reply to a registration.
LEMMA ToldOther ==
    ASSUME TypeOK, NEW N \in SUBSET Hosts, NEW M \in SUBSET N, NEW m \in M,
           NEW x \in N \ {m}, Informed(m, N, M, x), NEW p \in net, p.type # "Route",
           net' = net \ {p},
           \/ \E y \in Hosts \ N : /\ p = RouteInvalidate(m, x, y) /\ status'[x] = status[x]
                                   /\ nodes'[x] = nodes[x] \ {y} /\ masters'[x] = masters[x] \ {y}
           \/ /\ p = RoleUpdate(m, x) /\ x \in M /\ HasSelf(x) /\ status'[x] = status[x]
              /\ nodes'[x] = nodes[x] \cup {x} /\ masters'[x] = masters[x] \cup {x}
           \/ /\ p = RegisterReply(m, x, x \in M) /\ status[x] = "registering"
              /\ \A q \in net : ~(q.type = "Route" /\ q.to = x)
              /\ \A q \in net : ~(q.type = "RoleUpdate" /\ q.to = x)
              /\ status'[x] = "joined" /\ nodes'[x] = nodes[x] \cup {x}
              /\ masters'[x] = IF x \in M THEN masters[x] \cup {x} ELSE masters[x] \ {x}
    PROVE  Informed(m, N, M, x)'
<1>1. /\ \A z, f : Route(m, x, z, f) \in net => Route(m, x, z, f) \in net'
      /\ \A z : Route(m, x, z, z \in M) \in net => Route(m, x, z, z \in M) \in net'
  BY PacketParts
<1>2. ASSUME NEW q \in net, q.type # p.type
      PROVE  q \in net'
  BY <1>2
<1>3. ASSUME NEW y \in Hosts \ N, p = RouteInvalidate(m, x, y), status'[x] = status[x],
             nodes'[x] = nodes[x] \ {y}, masters'[x] = masters[x] \ {y}
      PROVE  Informed(m, N, M, x)'
  <2>1. /\ \A z : z # y /\ RouteInvalidate(m, x, z) \in net => RouteInvalidate(m, x, z) \in net'
        /\ RoleUpdate(m, x) \in net => RoleUpdate(m, x) \in net'
        /\ RegisterReply(m, x, x \in M) \in net => RegisterReply(m, x, x \in M) \in net'
    BY <1>2, <1>3, PacketParts
  <2>2. /\ HasSelf(x)' => m \in masters'[x]
        /\ masters'[x] \cap N \subseteq M
        /\ status'[x] = "registering" => RegisterReply(m, x, x \in M) \in net'
        /\ \A z \in nodes'[x] \ N : RouteInvalidate(m, x, z) \in net'
    <3>1. m # y
      BY <1>3
    <3> QED
      BY <1>3, <2>1, <3>1 DEF Informed, HasSelf
  <2>3. \A z \in M \ masters'[x] :
           \/ Route(m, x, z, TRUE) \in net'
           \/ z = x /\ (RoleUpdate(m, x) \in net' \/ status'[x] = "registering")
    <3>1. \A z \in M \ masters'[x] : z \in M \ masters[x]
      BY <1>3
    <3> QED
      BY <1>1, <1>3, <2>1, <3>1 DEF Informed
  <2>4. x \in M => \A z \in N \ nodes'[x] :
           Route(m, x, z, z \in M) \in net' \/ (z = x /\ status'[x] = "registering")
    BY <1>1, <1>3 DEF Informed
  <2> QED
    BY <2>2, <2>3, <2>4 DEF Informed
<1>4. CASE /\ p = RoleUpdate(m, x) /\ x \in M /\ HasSelf(x) /\ status'[x] = status[x]
           /\ nodes'[x] = nodes[x] \cup {x} /\ masters'[x] = masters[x] \cup {x}
  <2>1. \A z : RouteInvalidate(m, x, z) \in net => RouteInvalidate(m, x, z) \in net'
    BY <1>2, <1>4, PacketParts
  <2>2. /\ HasSelf(x)' => m \in masters'[x]
        /\ masters'[x] \cap N \subseteq M
        /\ status'[x] # "registering"
        /\ \A z \in nodes'[x] \ N : RouteInvalidate(m, x, z) \in net'
    BY <1>4, <2>1 DEF Informed, HasSelf
  <2>3. \A z \in M \ masters'[x] : Route(m, x, z, TRUE) \in net'
    BY <1>1, <1>4 DEF Informed, HasSelf
  <2>4. x \in M => \A z \in N \ nodes'[x] : Route(m, x, z, z \in M) \in net'
    BY <1>1, <1>4 DEF Informed, HasSelf
  <2> QED
    BY <2>2, <2>3, <2>4 DEF Informed
<1>5. CASE /\ p = RegisterReply(m, x, x \in M) /\ status[x] = "registering"
           /\ \A q \in net : ~(q.type = "Route" /\ q.to = x)
           /\ \A q \in net : ~(q.type = "RoleUpdate" /\ q.to = x)
           /\ status'[x] = "joined" /\ nodes'[x] = nodes[x] \cup {x}
           /\ masters'[x] = IF x \in M THEN masters[x] \cup {x} ELSE masters[x] \ {x}
  <2>1. /\ \A z, f : Route(m, x, z, f) \notin net
        /\ \A z : Route(m, x, z, z \in M) \notin net
        /\ RoleUpdate(m, x) \notin net
    BY <1>5, PacketParts
  <2>2. \A z : RouteInvalidate(m, x, z) \in net => RouteInvalidate(m, x, z) \in net'
    BY <1>2, <1>5, PacketParts
  <2>3. (\A z \in M \ masters[x] : z = x) /\ (x \in M => \A z \in N \ nodes[x] : z = x)
    BY <2>1 DEF Informed
  <2> QED
    BY <1>5, <2>2, <2>3 DEF Informed
<1> QED
  BY <1>3, <1>4, <1>5

\* What a master has on the way is handled, in any order.
LEMMA SpreadsStep ==
    ASSUME TypeOK, Leads, Outside, Orderly', NEW N \in SUBSET Hosts, NEW M \in SUBSET Hosts,
           NEW m \in Hosts, Spreads(m, N, M),
           NEW k \in Hosts, NEW p \in net, HandlePacket(k, p)
    PROVE  Outside' /\ Stage'
<1>1. /\ M \in SUBSET N /\ m \in M /\ \A z \in N \ {m} : Informed(m, N, M, z)
      /\ masters[m] = M /\ nodes[m] = N /\ status[m] = "joined"
      /\ \A z \in N : status[z] \in {"registering", "joined"}
      /\ Founder \in N => Founder \in M
  BY ShapeFacts DEF Spreads, Shape
<1>2. PICK x \in N :
         \/ \E y \in N : p = Route(m, x, y, y \in M)
         \/ \E y \in Hosts \ N : p = RouteInvalidate(m, x, y)
         \/ p = RoleUpdate(m, x) /\ x \in M \ {m} /\ HasSelf(x)
         \/ p = RegisterReply(m, x, x \in M) /\ status[x] = "registering"
  BY DEF Spreads, Tidings
<1>3. p.to = x /\ x = k /\ x \in Hosts /\ (x # m => Informed(m, N, M, x))
  BY <1>1, <1>2, HandlerOf, PacketParts
<1>4. ASSUME NEW y \in N, p = Route(m, x, y, y \in M)
      PROVE  Outside' /\ Stage'
  <2>1. p.type = "Route" /\ p.about = y /\ p.master = (y \in M)
    BY <1>4, PacketParts
  <2>2. HandleRoute(x, p)
    BY <1>3, <2>1, HandlerOf
  <2>3. UpdateNode(x, y, y \in M) \/ UNCHANGED tables
    BY <2>1, <2>2 DEF HandleRoute
  <2>4. twin' = twin \/ twin' = "master"
    <3>1. y = Founder => y \in M
      BY <1>1
    <3> QED
      BY <2>3, <3>1 DEF UpdateNode, tables
  <2>5. /\ UNCHANGED status /\ net' = net \ {p}
        /\ \A j \in Hosts \ {x} : nodes'[j] = nodes[j] /\ masters'[j] = masters[j]
    BY <2>2, <2>3 DEF HandleRoute, Handled, UpdateNode, TypeOK, tables
  <2>6. CASE x = m
    <3>1. nodes'[x] = nodes[x] /\ masters'[x] = masters[x]
      <4>1. CASE nodes' = nodes /\ masters' = masters
        BY <4>1
      <4>2. CASE /\ nodes' = [nodes EXCEPT ![x] = @ \cup {y}]
                 /\ masters' = [masters EXCEPT ![x] = IF y \in M THEN @ \cup {y} ELSE @ \ {y}]
        <5>1. /\ nodes'[x] = N \cup {y}
              /\ masters'[x] = IF y \in M THEN M \cup {y} ELSE M \ {y}
          BY <1>1, <1>3, <2>6, <4>2 DEF TypeOK
        <5> QED
          BY <1>1, <2>6, <5>1
      <4> QED
        BY <2>3, <4>1, <4>2 DEF UpdateNode, tables
    <3> QED
      BY <1>3, <2>4, <2>5, <2>6, <3>1, SpreadsOn
  <2>7. CASE x # m
    <3>1. Informed(m, N, M, x)'
      <4>1. x \in N \ {m} /\ Informed(m, N, M, x) /\ HandleRoute(x, Route(m, x, y, y \in M))
        BY <1>3, <1>4, <2>2, <2>7
      <4> QED
        BY <1>1, <4>1, ToldRoute
    <3> QED
      BY <1>3, <2>4, <2>5, <2>7, <3>1, SpreadsOn
  <2> QED
    BY <2>6, <2>7
<1>5. ASSUME NEW y \in Hosts \ N, p = RouteInvalidate(m, x, y)
      PROVE  Outside' /\ Stage'
  <2>1. p.type = "RouteInvalidate" /\ p.about = y /\ x # y /\ p.type # "Route"
    BY <1>5, PacketParts
  <2>2. HandleRouteInvalidate(x, p)
    BY <1>3, <2>1, HandlerOf
  <2>3. /\ UNCHANGED <<status, twin>> /\ net' = net \ {p}
        /\ nodes'[x] = nodes[x] \ {y} /\ masters'[x] = masters[x] \ {y}
        /\ \A j \in Hosts \ {x} : nodes'[j] = nodes[j] /\ masters'[j] = masters[j]
    <3>1. CASE /\ y \notin IF HasSelf(x) THEN nodes[x] \ {x} ELSE nodes[x]
               /\ Handled(p, {}) /\ UNCHANGED <<status, tables>>
      <4>1. y \notin nodes[x] /\ y \notin masters[x]
        BY <1>3, <2>1, <3>1 DEF TypeOK
      <4> QED
        BY <3>1, <4>1 DEF Handled, tables
    <3>2. CASE /\ nodes' = [nodes EXCEPT ![x] = nodes[x] \ {y}]
               /\ masters' = [masters EXCEPT ![x] = @ \ {y}]
               /\ Handled(p, {}) /\ UNCHANGED <<status, twin>>
      BY <1>3, <3>2 DEF Handled, TypeOK
    <3>3. ASSUME Remains(x, nodes[x] \ {y}) # "well",
                 Ends(x, Remains(x, nodes[x] \ {y}), net)
          PROVE  FALSE
      <4>1. Remains(x, nodes[x] \ {y}) \in {"null", "useless"}
        BY <3>3 DEF Remains
      <4> QED
        BY <1>3, <3>3, <4>1, NobodyFails
    <3> QED
      BY <2>1, <2>2, <3>1, <3>2, <3>3 DEF HandleRouteInvalidate
  <2>4. CASE x = m
    <3>1. nodes'[x] = nodes[x] /\ masters'[x] = masters[x]
      BY <1>1, <2>3, <2>4
    <3> QED
      BY <1>3, <2>3, <2>4, <3>1, SpreadsOn
  <2>5. CASE x # m
    <3>1. Informed(m, N, M, x)'
      BY <1>1, <1>3, <1>5, <2>1, <2>3, <2>5, ToldOther
    <3> QED
      BY <1>3, <2>3, <2>5, <3>1, SpreadsOn
  <2> QED
    BY <2>4, <2>5
<1>6. CASE p = RoleUpdate(m, x) /\ x \in M \ {m} /\ HasSelf(x)
  <2>1. p.type = "RoleUpdate" /\ p.from = m /\ p.master = TRUE /\ p.type # "Route"
    BY <1>6, PacketParts
  <2>2. HandleRoleUpdate(x, p) /\ m \in MasterPeers(x)
    <3>1. m \in masters[x] /\ m \in nodes[x] /\ m # x
      BY <1>3, <1>6 DEF Informed, TypeOK
    <3> QED
      BY <1>3, <2>1, <3>1, HandlerOf, PeerFacts
  <2>3. UpdateSelf(x, TRUE) /\ UNCHANGED status /\ net' = net \ {p}
    BY <1>6, <2>1, <2>2 DEF HandleRoleUpdate, Handled
  <2>4. /\ nodes'[x] = nodes[x] \cup {x} /\ masters'[x] = masters[x] \cup {x} /\ twin' = twin
        /\ \A j \in Hosts \ {x} : nodes'[j] = nodes[j] /\ masters'[j] = masters[j]
    BY <1>3, <2>3 DEF UpdateSelf, TypeOK
  <2>5. Informed(m, N, M, x)'
    BY <1>1, <1>3, <1>6, <2>1, <2>3, <2>4, ToldOther
  <2> QED
    BY <1>3, <1>6, <2>3, <2>4, <2>5, SpreadsOn
<1>7. CASE p = RegisterReply(m, x, x \in M) /\ status[x] = "registering"
  <2>1. p.type = "RegisterReply" /\ p.master = (x \in M) /\ p.type # "Route" /\ x # m
    BY <1>1, <1>7, PacketParts
  <2>2. HandleRegisterReply(x, p)
    BY <1>3, <2>1, HandlerOf
  <2>3. /\ UpdateSelf(x, x \in M) /\ status' = [status EXCEPT ![x] = "joined"]
        /\ net' = net \ {p}
    BY <2>1, <2>2 DEF HandleRegisterReply, Handled
  <2>4. \A q \in net : ~(q.type = "Route" /\ q.to = x)
    BY <2>2 DEF HandleRegisterReply, Orderly
  <2>5. \A q \in net : ~(q.type = "RoleUpdate" /\ q.to = x)
    <3> SUFFICES ASSUME NEW q \in net, q.type = "RoleUpdate", q.to = x
                 PROVE  FALSE
      OBVIOUS
    <3>1. PICK z \in N :
             \/ \E y \in N : q = Route(m, z, y, y \in M)
             \/ \E y \in Hosts \ N : q = RouteInvalidate(m, z, y)
             \/ q = RoleUpdate(m, z) /\ z \in M \ {m} /\ HasSelf(z)
             \/ q = RegisterReply(m, z, z \in M) /\ status[z] = "registering"
      BY DEF Spreads, Tidings
    <3>2. q = RoleUpdate(m, z) /\ HasSelf(z)
      BY <3>1, PacketParts
    <3>3. z = x
      BY <3>2, PacketParts
    <3> QED
      BY <1>7, <3>2, <3>3 DEF HasSelf
  <2>6. /\ nodes'[x] = nodes[x] \cup {x} /\ status'[x] = "joined" /\ twin' = twin
        /\ masters'[x] = IF x \in M THEN masters[x] \cup {x} ELSE masters[x] \ {x}
        /\ \A j \in Hosts \ {x} : /\ nodes'[j] = nodes[j] /\ masters'[j] = masters[j]
                                  /\ status'[j] = status[j]
    BY <1>3, <2>3 DEF UpdateSelf, TypeOK
  <2>7. Informed(m, N, M, x)'
    BY <1>1, <1>3, <1>7, <2>1, <2>3, <2>4, <2>5, <2>6, ToldOther
  <2> QED
    BY <1>3, <1>7, <2>1, <2>3, <2>6, <2>7, SpreadsOn
<1> QED
  BY <1>2, <1>4, <1>5, <1>6, <1>7

\* The tables at rest.
Rests(N, M) == Consistent(N, M) /\ N = Members /\ NobodyJoins /\ net = {}

\* When no operation is under way, nobody is in the network or the tables are consistent.
LEMMA QuietStage ==
    ASSUME TypeOK, Stage, Quiet
    PROVE  Deserted \/ \E N, M \in SUBSET Hosts : Rests(N, M)
<1> SUFFICES ASSUME ~Deserted
             PROVE  \E N, M \in SUBSET Hosts : Rests(N, M)
  OBVIOUS
<1>1. NobodyJoins /\ \A p \in net : status[p.to] \notin Listening
  BY DEF Quiet, NobodyJoins
<1>2. PICK N \in SUBSET Hosts, M \in SUBSET Hosts, h \in Hosts :
         \/ Asks(N, M, h)
         \/ \E x \in Hosts : Registers(N, M, h, x) \/ Requests(N, M, h, x) \/ Leaves(N, M, h, x)
         \/ Spreads(h, N, M)
  BY DEF Stage
<1>3. ~Asks(N, M, h) /\ \A x \in Hosts : ~Registers(N, M, h, x)
  BY <1>1 DEF Asks, Registers, NobodyJoins
<1>4. ASSUME NEW x \in Hosts, Requests(N, M, h, x) \/ Leaves(N, M, h, x)
      PROVE  FALSE
  <2>1. status[x] = "joined"
    BY <1>4, ShapeFacts DEF Requests, Leaves, Consistent, Members, HasSelf
  <2>2. \E p \in net : p.to = x
    <3>1. \A g : RouteRequest(h, x, g).to = x /\ ExitNotification(h, x).to = x
      BY DEF RouteRequest, ExitNotification, Packet
    <3> QED
      BY <1>4, <3>1 DEF Requests, Leaves
  <2> QED
    BY <1>1, <2>1, <2>2 DEF Listening
<1>5. /\ Spreads(h, N, M) /\ Shape(N, M) /\ h \in M /\ masters[h] = M /\ nodes[h] = N
      /\ N = {x \in Hosts : status[x] \in {"registering", "joined"}} /\ Tidings(h, N, M)
  BY <1>2, <1>3, <1>4 DEF Spreads
<1>6. N = Members
  BY <1>1, <1>5 DEF Members, HasSelf, NobodyJoins
<1>7. net = {}
  <2> SUFFICES ASSUME NEW p \in net
               PROVE  FALSE
    OBVIOUS
  <2>1. PICK x \in N :
           \/ \E y \in N : p = Route(h, x, y, y \in M)
           \/ \E y \in Hosts \ N : p = RouteInvalidate(h, x, y)
           \/ p = RoleUpdate(h, x) /\ x \in M \ {h} /\ HasSelf(x)
           \/ p = RegisterReply(h, x, x \in M) /\ status[x] = "registering"
    BY <1>5 DEF Tidings
  <2>2. p.to = x
    BY <2>1, PacketParts
  <2> QED
    BY <1>1, <1>6, <2>2 DEF Members, HasSelf, Listening
<1>8. ASSUME NEW x \in Members
      PROVE  masters[x] = M /\ nodes[x] \subseteq N /\ (x \in M => nodes[x] = N)
  <2>1. CASE x = h
    BY <1>5, <2>1
  <2>2. CASE x # h
    <3>1. Informed(h, N, M, x) /\ status[x] = "joined"
      BY <1>5, <1>6, <2>2 DEF Spreads, Members, HasSelf
    <3>2. /\ masters[x] \cap N \subseteq M /\ nodes[x] \subseteq N /\ M \subseteq masters[x]
          /\ (x \in M => N \subseteq nodes[x])
      BY <1>7, <3>1 DEF Informed
    <3>3. masters[x] \subseteq nodes[x]
      BY DEF TypeOK, Members
    <3> QED
      BY <3>2, <3>3
  <2> QED
    BY <2>1, <2>2
<1>9. Consistent(N, M)
  BY <1>5, <1>8 DEF Consistent
<1> QED
  BY <1>1, <1>6, <1>7, <1>9 DEF Rests

\* An operation begins in a network at rest.
LEMMA StartStep ==
    ASSUME TypeOK, Outside, Stage, Orderly, Orderly', NEW h \in Hosts,
           \/ ExitNetwork(h)
           \/ \E g \in Hosts \ {h} : JoinNetwork(h, g) \/ SendDataPacket(h, g)
    PROVE  Outside' /\ Stage'
<1>1. Overlaps
  BY DEF ExitNetwork, JoinNetwork, SendDataPacket
<1>2. Quiet
  BY <1>1 DEF Overlaps, Orderly
<1>3. CASE Deserted
  <2>1. ~ExitNetwork(h) /\ \A g \in Hosts : ~JoinNetwork(h, g)
    BY <1>3 DEF Deserted, ExitNetwork, JoinNetwork, Listening
  <2>2. PICK g \in Hosts \ {h} : SendDataPacket(h, g)
    BY <2>1
  <2>3. MasterPeers(h) = {} /\ g \notin nodes[h] /\ ~HasSelf(h)
    BY <1>3 DEF Deserted, Outside, TypeOK, HasSelf, MasterPeers
  <2>4. UNCHANGED <<status, tables, net>>
    BY <2>2, <2>3 DEF SendDataPacket
  <2> QED
    BY <2>4, StageSame
<1>4. ASSUME NEW N \in SUBSET Hosts, NEW M \in SUBSET Hosts, Rests(N, M)
      PROVE  Outside' /\ Stage'
  <2>1. Consistent(N, M) /\ N = Members /\ NobodyJoins /\ net = {} /\ Shape(N, M)
        /\ M \subseteq N
    BY <1>4, ShapeFacts DEF Rests, Consistent
  <2>2. ASSUME NEW g \in Hosts \ {h}, JoinNetwork(h, g)
        PROVE  Outside' /\ Stage'
    <3>1. /\ status[h] = "off" /\ g \in N /\ status' = [status EXCEPT ![h] = "asking"]
          /\ net' = {MasterNodeRequest(h, g)} /\ UNCHANGED tables
      BY <2>1, <2>2 DEF JoinNetwork, Listening, NobodyJoins, Members, HasSelf
    <3>2. \A k \in Hosts : status'[k] = IF k = h THEN "asking" ELSE status[k]
      BY <3>1 DEF TypeOK
    <3>3. Members' = Members
      BY <3>1, <3>2 DEF Members, HasSelf
    <3>4. Consistent(N, M)'
      BY <2>1, <3>1, <3>3, ShapeKept DEF Consistent, tables
    <3>5. Asks(N, M, h)'
      BY <2>1, <3>1, <3>2, <3>3, <3>4 DEF Asks, NobodyJoins
    <3>6. status[Founder] # "off"
      BY <2>1, <3>1 DEF Outside, Members, HasSelf
    <3>7. Outside'
      BY <3>1, <3>2, <3>6, MembershipAssumption DEF Outside, tables
    <3> QED
      BY <3>5, <3>7 DEF Stage
  <2>3. ASSUME NEW g \in Hosts \ {h}, SendDataPacket(h, g)
        PROVE  Outside' /\ Stage'
    <3>1. CASE UNCHANGED <<status, tables, net>>
      BY <3>1, StageSame
    <3>2. ASSUME Ends(h, "null", net)
          PROVE  FALSE
      BY <3>2, NobodyFails
    <3>3. ASSUME NEW x \in MasterPeers(h), net' = net \cup {RouteRequest(h, x, g)},
                 UNCHANGED <<status, tables>>
          PROVE  Outside' /\ Stage'
      <4>1. HasSelf(h)
        BY <2>1, <2>3, <3>3
           DEF SendDataPacket, Listening, NobodyJoins, HasSelf, Outside, MasterPeers, TypeOK
      <4>2. x \in M /\ h \in N /\ x \in Hosts
        <5>1. h \in N /\ masters[h] = M /\ (h = Founder => h \in M)
          BY <2>1, <4>1 DEF Consistent, Members, Shape
        <5> QED
          BY <3>3, <4>1, <5>1, PeerFacts
      <4>3. net' = {RouteRequest(h, x, g)}
        BY <2>1, <3>3
      <4>4. Consistent(N, M)' /\ N = Members' /\ NobodyJoins'
        BY <2>1, <3>3, ShapeKept DEF Consistent, Members, HasSelf, NobodyJoins, tables
      <4>5. Requests(N, M, h, x)'
        BY <4>2, <4>3, <4>4 DEF Requests
      <4>6. Outside'
        BY <3>3 DEF Outside, tables
      <4> QED
        BY <4>2, <4>5, <4>6 DEF Stage
    <3> QED
      BY <2>3, <3>1, <3>2, <3>3 DEF SendDataPacket
  <2>4. CASE ExitNetwork(h)
    <3>1. status[h] = "joined" /\ h \in N /\ masters[h] = M /\ nodes[h] \subseteq N
          /\ (h \in M => nodes[h] = N)
      BY <2>1, <2>4 DEF ExitNetwork, Members, HasSelf, Consistent
    <3>2. ASSUME Ends(h, "null", net)
          PROVE  FALSE
      BY <3>2, NobodyFails
    <3>3. ASSUME NEW P, Ends(h, "left", P)
          PROVE  /\ Members' = Members \ {h} /\ NobodyJoins' /\ Outside' /\ status'[h] = "left"
                 /\ \A k \in Hosts \ {h} : status'[k] = status[k] /\ nodes'[k] = nodes[k]
                                           /\ masters'[k] = masters[k]
      <4>1. /\ \A k \in Hosts \ {h} : status'[k] = status[k] /\ nodes'[k] = nodes[k]
                                     /\ masters'[k] = masters[k]
            /\ status'[h] = "left" /\ nodes'[h] = {}
        BY <3>3 DEF Ends, TypeOK
      <4>2. status[Founder] # "off" /\ status'[Founder] # "off"
        BY <3>1, <4>1, MembershipAssumption DEF Outside
      <4>3. Outside'
        BY <4>1, <4>2 DEF Outside
      <4> QED
        BY <2>1, <4>1, <4>3 DEF Members, HasSelf, NobodyJoins
    <3>4. ASSUME M = {h}, Twin(h) # "master", NEW r \in Reincarnations(h, nodes[h], masters[h]),
                 Ends(h, "left", net \cup r.sent)
          PROVE  Outside' /\ Stage'
      <4>1. N = {h}
        BY <2>1, <3>4 DEF Shape, Twin
      <4>2. r = [sent |-> {}, flags |-> {h}, new |-> {}]
        BY <3>1, <3>4, <4>1 DEF Reincarnations
      <4>3. r.sent = {}
        BY <4>2
      <4>4. net' = {}
        BY <2>1, <3>4, <4>3 DEF Ends
      <4>5. Members' = {} /\ NobodyJoins' /\ Outside'
        BY <2>1, <3>3, <3>4, <4>1
      <4>6. Deserted'
        BY <4>4, <4>5 DEF Deserted, Members, HasSelf, NobodyJoins, Orderly
      <4> QED
        BY <4>5, <4>6 DEF Stage
    <3>5. ASSUME NEW x \in MasterPeers(h), Ends(h, "left", net \cup {ExitNotification(h, x)}),
                 unheard' = IF x = h THEN unheard \cup {h} ELSE unheard
          PROVE  Outside' /\ Stage'
      <4>1. x \in M \ {h} /\ x \in Hosts
        <5>1. x # h
          BY <3>5 DEF Orderly
        <5> QED
          BY <3>1, <3>5, <5>1, PeerFacts
      <4>2. net' = {ExitNotification(h, x)}
        BY <2>1, <3>5, <4>1 DEF Ends, ExitNotification, Packet
      <4>3. Members' = Members \ {h} /\ NobodyJoins' /\ Outside' /\ status'[h] = "left"
            /\ \A k \in Hosts \ {h} : nodes'[k] = nodes[k] /\ masters'[k] = masters[k]
        BY <3>3, <3>5
      <4>4. Consistent(N, M)'
        <5>1. \A z \in Members' : z \in Members /\ z \in Hosts \ {h}
          BY <4>3 DEF Members
        <5>2. Shape(N, M)'
          <6>1. CASE h = Founder
            <7>1. M = {h, x} /\ h \in N /\ x \in N /\ h # x
              BY <2>1, <3>1, <4>1, <6>1 DEF Shape
            <7> QED
              BY <6>1, <7>1 DEF Shape
          <6>2. CASE h # Founder
            BY <2>1, <3>5, <6>2, ShapeKept DEF Ends
          <6> QED
            BY <6>1, <6>2
        <5> QED
          BY <2>1, <4>3, <5>1, <5>2 DEF Consistent
      <4>5. N = Members' \cup {h}
        BY <2>1, <3>1, <4>3
      <4>6. Leaves(N, M, h, x)'
        BY <4>1, <4>2, <4>3, <4>4, <4>5 DEF Leaves
      <4> QED
        BY <4>1, <4>3, <4>6 DEF Stage
    <3> QED
      BY <2>4, <3>1, <3>2, <3>4, <3>5 DEF ExitNetwork
  <2> QED
    BY <2>2, <2>3, <2>4
<1> QED
  BY <1>2, <1>3, <1>4, QuietStage

\* The founder is the first master of its network.
LEMMA CreateStep ==
    ASSUME TypeOK, Outside, Stage, NEW h \in Hosts, CreateNetwork(h)
    PROVE  Outside' /\ Stage'
<1>1. /\ status[h] = "off" /\ h = Founder /\ status' = [status EXCEPT ![h] = "joined"]
      /\ UpdateSelf(h, TRUE) /\ UNCHANGED net
  BY DEF CreateNetwork
<1>2. \A k \in Hosts : status[k] = "off" /\ nodes[k] = {} /\ masters[k] = {}
  BY <1>1 DEF Outside, TypeOK
<1>3. net = {}
  <2>1. Members = {} /\ \A k \in Hosts : status[k] \notin {"asking", "registering", "joined", "left"}
    BY <1>2 DEF Members, HasSelf
  <2>2. ASSUME NEW N \in SUBSET Hosts, NEW M \in SUBSET Hosts, NEW k \in Hosts, NEW x \in Hosts
        PROVE  ~(Asks(N, M, k) \/ Registers(N, M, k, x) \/ Requests(N, M, k, x)
                 \/ Leaves(N, M, k, x) \/ Spreads(k, N, M))
    BY <2>1 DEF Asks, Registers, Requests, Leaves, Spreads
  <2>3. Deserted
    BY <2>2 DEF Stage
  <2> QED
    BY <2>3 DEF Deserted
<1>4. /\ \A k \in Hosts \ {h} : status'[k] = "off" /\ nodes'[k] = {}
      /\ status'[h] = "joined" /\ nodes'[h] = {h} /\ masters'[h] = {h}
  BY <1>1, <1>2 DEF UpdateSelf, TypeOK
<1>5. Shape({h}, {h})'
  BY DEF Shape
<1>6. Tidings(h, {h}, {h})'
  BY <1>1, <1>3 DEF Tidings
<1>7. Spreads(h, {h}, {h})'
  BY <1>4, <1>5, <1>6 DEF Spreads
<1>8. Outside'
  BY <1>1, <1>4 DEF Outside
<1>9. {h} \in SUBSET Hosts
  OBVIOUS
<1> QED
  BY <1>7, <1>8, <1>9 DEF Stage

\* AgreeInv is inductive.
LEMMA AgreeStep ==
    ASSUME TypeOK, Leads, AgreeInv, [Next]_vars
    PROVE  AgreeInv'
<1> SUFFICES ASSUME Orderly, Orderly', Outside, Stage
             PROVE  Outside' /\ Stage'
  BY OrderlyKept DEF AgreeInv
<1>1. CASE UNCHANGED vars
  BY <1>1, StageSame DEF vars, tables
<1>2. ASSUME NEW h \in Hosts, JoinFails(h)
      PROVE  FALSE
  BY <1>2, NobodyFails DEF JoinFails
<1>3. ASSUME NEW k \in Hosts, NEW p \in net, HandlePacket(k, p)
      PROVE  Outside' /\ Stage'
  <2>1. ~Deserted
    BY DEF Deserted
  <2>2. PICK N \in SUBSET Hosts, M \in SUBSET Hosts, h \in Hosts :
           \/ Asks(N, M, h)
           \/ \E x \in Hosts : Registers(N, M, h, x) \/ Requests(N, M, h, x) \/ Leaves(N, M, h, x)
           \/ Spreads(h, N, M)
    BY <2>1 DEF Stage
  <2>3. CASE Asks(N, M, h)
    BY <1>3, <2>3, AsksStep
  <2>4. ASSUME NEW x \in Hosts, Registers(N, M, h, x)
        PROVE  Outside' /\ Stage'
    BY <1>3, <2>4, RegistersStep
  <2>5. ASSUME NEW x \in Hosts, Requests(N, M, h, x)
        PROVE  Outside' /\ Stage'
    BY <1>3, <2>5, RequestsStep
  <2>6. ASSUME NEW x \in Hosts, Leaves(N, M, h, x)
        PROVE  Outside' /\ Stage'
    BY <1>3, <2>6, LeavesStep
  <2>7. CASE Spreads(h, N, M)
    BY <1>3, <2>7, SpreadsStep
  <2> QED
    BY <2>2, <2>3, <2>4, <2>5, <2>6, <2>7
<1> QED
  BY <1>1, <1>2, <1>3, CreateStep, StartStep DEF Next

\* In a small network whose joins, departures and requests for routes do not overlap, and
\* whose packets arrive, the tables are consistent whenever nothing is under way, until a
\* founder takes leave of its own twin: all agree on the masters, who are two unless there
\* is one host or a founder with its twin, the masters know everybody, and nobody knows a
\* host that has left.
THEOREM AgreementAlways == Spec => []Agreement
<1>1. Init => AgreeInv
  BY DEF Init, AgreeInv, Outside, Stage, Deserted
<1>2. TypeOK /\ AgreeInv => Agreement
  <2> SUFFICES ASSUME TypeOK, AgreeInv, Orderly, Quiet, NEW h \in Members
               PROVE  /\ masters[h] = {g \in Members : g \in masters[g]}
                      /\ nodes[h] \subseteq Members
                      /\ h \in masters[h] => nodes[h] = Members
    BY DEF Agreement, Orderly
  <2>1. h \in Hosts /\ status[h] = "joined"
    BY DEF Members, HasSelf
  <2>2. ~Deserted
    BY <2>1 DEF Deserted
  <2>3. PICK N \in SUBSET Hosts, M \in SUBSET Hosts : Rests(N, M)
    BY <2>2, QuietStage DEF AgreeInv
  <2>4. /\ N = Members /\ M \subseteq N
        /\ \A x \in Members : masters[x] = M /\ nodes[x] \subseteq N /\ (x \in M => nodes[x] = N)
    BY <2>3, ShapeFacts DEF Rests, Consistent
  <2> QED
    BY <2>4
<1>3. TypeInv => TypeOK
  BY DEF TypeInv
<1> QED
  BY <1>1, <1>2, <1>3, LeadsAlways, AgreeStep, PTL DEF Spec

=============================================================================
