----------------------------- MODULE Membership -----------------------------
(***************************************************************************)
(* Who is in the network: registration, routes, roles and departures in    *)
(* libsparkle/LinkLayer.cpp, over the table of libsparkle/Router.cpp.      *)
(*                                                                         *)
(* Masters know every host, slaves know the masters and whom they asked    *)
(* for.  A master registers newcomers, tells the hosts concerned, removes  *)
(* those who leave and makes a slave a master when masters get scarce.     *)
(*                                                                         *)
(* A host is one record in the table of another, named by its address; all *)
(* have white addresses.  The one host with two records is the founder in  *)
(* its own table: createNetwork makes its self node outside nodeSpool, so  *)
(* that a Route about the founder gets another record from wrapNode, which *)
(* is no self node for the router.  This second record is its twin.        *)
(*                                                                         *)
(* The handshake below a packet (SecureLink) and the questions before a    *)
(* registration (Join) are left to those modules: packets arrive late, in  *)
(* any order or never, each at most once, and a host that leaves is gone   *)
(* when its last packets are on the way.                                   *)
(***************************************************************************)
EXTENDS Naturals, FiniteSets

CONSTANTS
    Hosts,
    Founder,         \* the host that creates the network
    networkDivisor,  \* one host in networkDivisor should be a master
    MaxData,         \* bound: packets of the applications
    MaxLeaves,       \* bound: hosts that leave
    MaxOverlaps      \* bound: operations begun before the last one is over

ASSUME MembershipAssumption ==
    /\ IsFiniteSet(Hosts)
    /\ Founder \in Hosts
    /\ networkDivisor \in Nat \ {0}
    /\ MaxData \in Nat /\ MaxLeaves \in Nat /\ MaxOverlaps \in Nat

VARIABLES
    status,      \* status[h]: where h is in its life, see Statuses
    nodes,       \* nodes[h]: the router's nodes, h itself once it has a self node
    masters,     \* masters[h]: those of them with the master flag
    twin,        \* the founder's second record of itself: "none", "slave" or "master"
    waiting,     \* waiting[h]: addresses with packets in queuedData
    net,         \* packets on the way
    registered,  \* history: registered[h] hosts that h has registered
    appointed,   \* history: hosts that were made masters
    overtaken,   \* history: hosts whose RegisterReply came before one of its Routes
    unheard,     \* history: hosts whose ExitNotification went to their own twin
    overlaps,    \* joins, departures and packets begun before the last one was over
    data         \* packets of the applications so far

tables == <<nodes, masters, twin>>
history == <<registered, appointed, overtaken, unheard, overlaps>>
vars == <<status, tables, waiting, net, history, data>>

\* "fatal" is Log::fatal: no master to name, or the last slave.  "null" is a crash on
\* the null pointer of a missing self node or master.
Statuses == {"off", "asking", "registering", "joined", "left", "failed",
             "unchosen", "useless", "null"}

Listening == {"asking", "registering", "joined"}

-----------------------------------------------------------------------------
(* Packets, and what the router answers. *)

Packet(type, from, to, about, flag) ==
    [type |-> type, from |-> from, to |-> to, about |-> about, master |-> flag]

MasterNodeRequest(h, g) == Packet("MasterNodeRequest", h, g, h, FALSE)
MasterNodeReply(h, g, m) == Packet("MasterNodeReply", h, g, m, TRUE)
RegisterRequest(h, g) == Packet("RegisterRequest", h, g, h, FALSE)
RegisterReply(h, g, flag) == Packet("RegisterReply", h, g, g, flag)
Route(h, g, t, flag) == Packet("Route", h, g, t, flag)
RouteRequest(h, g, t) == Packet("RouteRequest", h, g, t, FALSE)
RouteInvalidate(h, g, t) == Packet("RouteInvalidate", h, g, t, FALSE)
RoleUpdate(h, g) == Packet("RoleUpdate", h, g, g, TRUE)
ExitNotification(h, g) == Packet("ExitNotification", h, g, h, FALSE)

\* The self node exists from joinedNetwork to cleanup.
HasSelf(h) == status[h] = "joined"
IsMaster(h) == HasSelf(h) /\ h \in masters[h]

\* The second record of h in its own table.
Twin(h) == IF h = Founder THEN twin ELSE "none"

\* How many records and how many master records the twin adds to a table.
Copies(h) == IF Twin(h) # "none" THEN 1 ELSE 0
MasterCopies(h) == IF Twin(h) = "master" THEN 1 ELSE 0

\* The hosts that find(ExcludeSelf) and find(Master | ExcludeSelf) lead to.  The self
\* node is left out, the twin is not; without a self node all are there.
Peers(h) == {g \in nodes[h] : HasSelf(h) /\ g = h => Twin(h) # "none"}
MasterPeers(h) ==
    {g \in nodes[h] : IF HasSelf(h) /\ g = h THEN Twin(h) = "master" ELSE g \in masters[h]}

Arrives(h, p, type) == p.type = type /\ p.to = h /\ status[h] \in Listening

\* p has been handled and the packets in P are sent.
Handled(p, P) == net' = (net \ {p}) \cup P

\* The host ends with the given status.  Of the packets in P, those to it are lost.
Ends(h, fate, P) ==
    /\ net' = {q \in P : q.to # h}
    /\ status' = [status EXCEPT ![h] = fate]
    /\ nodes' = [nodes EXCEPT ![h] = {}]
    /\ masters' = [masters EXCEPT ![h] = {}]
    /\ twin' = IF h = Founder THEN "none" ELSE twin

\* The self node of h with a master flag, as a node of the router.
UpdateSelf(h, flag) ==
    /\ nodes' = [nodes EXCEPT ![h] = @ \cup {h}]
    /\ masters' = [masters EXCEPT ![h] = IF flag THEN @ \cup {h} ELSE @ \ {h}]
    /\ UNCHANGED twin

\* Mutant: the flag is set and the router not updated.
UpdateNodeFlagOnly(h, g, flag) ==
    /\ masters' = [masters EXCEPT ![h] = IF flag THEN @ \cup {g} ELSE @ \ {g}]
    /\ UNCHANGED <<nodes, twin>>

\* The record that wrapNode has for g with a master flag, as a node of the router.  The
\* record that the founder's wrapNode has for the founder is the twin.
UpdateNode(h, g, flag) ==
    IF h = Founder /\ g = Founder
    THEN /\ twin' = IF flag THEN "master" ELSE "slave"
         /\ UNCHANGED <<nodes, masters>>
    ELSE /\ nodes' = [nodes EXCEPT ![h] = @ \cup {g}]
         /\ masters' = [masters EXCEPT ![h] = IF flag THEN @ \cup {g} ELSE @ \ {g}]
         /\ UNCHANGED twin

\* Nobody is about to join, and no packet is on the way to a host that runs.
Quiet ==
    /\ \A h \in Hosts : status[h] \notin {"asking", "registering"}
    /\ \A p \in net : status[p.to] \notin Listening

Overlaps ==
    /\ Quiet \/ overlaps < MaxOverlaps
    /\ overlaps' = IF Quiet THEN overlaps ELSE overlaps + 1

Init ==
    /\ status = [h \in Hosts |-> "off"]
    /\ nodes = [h \in Hosts |-> {}]
    /\ masters = [h \in Hosts |-> {}]
    /\ twin = "none"
    /\ waiting = [h \in Hosts |-> {}]
    /\ net = {}
    /\ registered = [h \in Hosts |-> {}]
    /\ appointed = {}
    /\ overtaken = {}
    /\ unheard = {}
    /\ overlaps = 0
    /\ data = 0

-----------------------------------------------------------------------------
(* Into the network. *)

\* createNetwork.
CreateNetwork(h) ==
    /\ h = Founder /\ status[h] = "off"
    /\ status' = [status EXCEPT ![h] = "joined"]
    /\ UpdateSelf(h, TRUE)
    /\ appointed' = appointed \cup {h}
    /\ UNCHANGED <<waiting, net, registered, overtaken, unheard, overlaps, data>>

\* joinNetwork over a host that answers, up to the request for a master.
JoinNetwork(h, g) ==
    /\ h # Founder /\ status[h] = "off" /\ status[g] \in Listening
    /\ Overlaps
    /\ status' = [status EXCEPT ![h] = "asking"]
    /\ net' = net \cup {MasterNodeRequest(h, g)}
    /\ UNCHANGED <<tables, waiting, registered, appointed, overtaken, unheard, data>>

\* Whom a host names to a newcomer: another master, or itself if there is none.  The
\* founder also names itself over its twin.
Choices(h, newcomer) ==
    LET others == MasterPeers(h) \ {newcomer}
    IN  IF others = {} /\ HasSelf(h) THEN {h} ELSE others

\* handleMasterNodeRequest; a host without a table and without a self node exits.
HandleMasterNodeRequest(h, p) ==
    /\ Arrives(h, p, "MasterNodeRequest")
    /\ \/ /\ \E m \in Choices(h, p.from) : Handled(p, {MasterNodeReply(h, p.from, m)})
          /\ UNCHANGED <<status, tables>>
       \/ /\ Choices(h, p.from) = {}
          /\ Ends(h, "unchosen", net)
    /\ UNCHANGED <<waiting, history, data>>

\* handleMasterNodeReply, and the pings up to the registration.
HandleMasterNodeReply(h, p) ==
    /\ Arrives(h, p, "MasterNodeReply") /\ status[h] = "asking"
    /\ status' = [status EXCEPT ![h] = "registering"]
    /\ Handled(p, {RegisterRequest(h, p.about)})
    /\ UNCHANGED <<tables, waiting, history, data>>

\* The role of a newcomer: master besides an only master, and while masters are fewer
\* than one in networkDivisor.
NewRole(h) ==
    LET count == Cardinality(masters[h]) + MasterCopies(h)
    IN  \/ count = 1
        \/ count * networkDivisor < Cardinality(nodes[h]) + Copies(h) + 1

\* Mutant: the other hosts are not told of the newcomer.
AnnouncementsOneWay(h, new, flag) ==
    LET updates == IF flag THEN Peers(h) ELSE MasterPeers(h)
    IN  {Route(h, new, g, g \in MasterPeers(h)) : g \in updates}

\* Mutant: whoever registers is announced as a master.
AnnouncementsAsMaster(h, new, flag) ==
    LET updates == IF flag THEN Peers(h) ELSE MasterPeers(h)
    IN  {Route(h, new, g, g \in MasterPeers(h)) : g \in updates}
        \cup {Route(h, g, new, TRUE) : g \in updates}

\* A new master and all hosts, or a new slave and the masters, learn of each other.
Announcements(h, new, flag) ==
    LET updates == IF flag THEN Peers(h) ELSE MasterPeers(h)
    IN  {Route(h, new, g, g \in MasterPeers(h)) : g \in updates}
        \cup {Route(h, g, new, flag) : g \in updates}

\* handleRegisterRequest.  A host without a self node crashes, a slave does not answer.
HandleRegisterRequest(h, p) ==
    /\ Arrives(h, p, "RegisterRequest")
    /\ \/ /\ ~HasSelf(h)
          /\ Ends(h, "null", net)
          /\ UNCHANGED <<registered, appointed>>
       \/ /\ HasSelf(h) /\ ~IsMaster(h)
          /\ Handled(p, {})
          /\ UNCHANGED <<status, tables, registered, appointed>>
       \/ /\ IsMaster(h)
          /\ LET flag == NewRole(h)
             IN  /\ Handled(p, Announcements(h, p.from, flag)
                               \cup {Route(h, p.from, h, TRUE), RegisterReply(h, p.from, flag)})
                 /\ UpdateNode(h, p.from, flag)
                 /\ appointed' = IF flag THEN appointed \cup {p.from} ELSE appointed
          /\ registered' = [registered EXCEPT ![h] = @ \cup {p.from}]
          /\ UNCHANGED status
    /\ UNCHANGED <<waiting, overtaken, unheard, overlaps, data>>

\* handleRegisterReply.
HandleRegisterReply(h, p) ==
    /\ Arrives(h, p, "RegisterReply") /\ status[h] = "registering"
    /\ status' = [status EXCEPT ![h] = "joined"]
    /\ UpdateSelf(h, p.master)
    /\ overtaken' = IF \E q \in net : q.type = "Route" /\ q.to = h
                    THEN overtaken \cup {h} ELSE overtaken
    /\ Handled(p, {})
    /\ UNCHANGED <<waiting, registered, appointed, unheard, overlaps, data>>

\* joinTimeout, or exitNetwork before the join is finished: cleanup.
JoinFails(h) ==
    /\ status[h] \in {"asking", "registering"}
    /\ Ends(h, "failed", net)
    /\ UNCHANGED <<waiting, history, data>>

-----------------------------------------------------------------------------
(* Routes. *)

\* Mutant: packets stay queued when the route arrives.
HandleRouteKeepsQueue(h, p) ==
    /\ Arrives(h, p, "Route")
    /\ \/ /\ p.from \in MasterPeers(h) \/ ~HasSelf(h)
          /\ UpdateNode(h, p.about, p.master)
          /\ UNCHANGED waiting
       \/ /\ p.from \notin MasterPeers(h) /\ HasSelf(h)
          /\ UNCHANGED <<tables, waiting>>
    /\ Handled(p, {})
    /\ UNCHANGED <<status, history, data>>

\* Mutant: only masters are heard, also before the registration is over.
HandleRouteMastersOnly(h, p) ==
    /\ Arrives(h, p, "Route")
    /\ \/ /\ p.from \in MasterPeers(h)
          /\ UpdateNode(h, p.about, p.master)
          /\ waiting' = [waiting EXCEPT ![h] = @ \ {p.about}]
       \/ /\ p.from \notin MasterPeers(h)
          /\ UNCHANGED <<tables, waiting>>
    /\ Handled(p, {})
    /\ UNCHANGED <<status, history, data>>

\* handleRoute: from a master, or from anybody before there is a self node.  Packets
\* that wait for the address are sent.
HandleRoute(h, p) ==
    /\ Arrives(h, p, "Route")
    /\ \/ /\ p.from \in MasterPeers(h) \/ ~HasSelf(h)
          /\ UpdateNode(h, p.about, p.master)
          /\ waiting' = [waiting EXCEPT ![h] = @ \ {p.about}]
       \/ /\ p.from \notin MasterPeers(h) /\ HasSelf(h)
          /\ UNCHANGED <<tables, waiting>>
    /\ Handled(p, {})
    /\ UNCHANGED <<status, history, data>>

\* sendDataPacket to g: over its record, or queued with a request for the route to any
\* master, the twin included.  A host that picks its self node emits routeMissing; so
\* does one without a self node and without masters.  With a self node and without
\* masters it crashes.
SendDataPacket(h, g) ==
    /\ data < MaxData /\ data' = data + 1
    /\ Overlaps
    /\ status[h] \in Listening \cup {"off"}
    /\ \/ /\ g \in nodes[h]
          /\ UNCHANGED <<status, tables, waiting, net>>
       \/ /\ g \notin nodes[h]
          /\ waiting' = [waiting EXCEPT ![h] = @ \cup {g}]
          /\ \/ /\ \E m \in MasterPeers(h) : net' = net \cup {RouteRequest(h, m, g)}
                /\ UNCHANGED <<status, tables>>
             \/ /\ IsMaster(h) \/ (masters[h] = {} /\ ~HasSelf(h))
                /\ UNCHANGED <<status, tables, net>>
             \/ /\ masters[h] = {} /\ HasSelf(h)
                /\ Ends(h, "null", net)
    /\ UNCHANGED <<registered, appointed, overtaken, unheard>>

\* Nodes a master may answer with: length is not initialised in the request, so that it
\* is refused, names the target or, when it is zero, the first node of the table, which
\* may be any.  The founder finds its self node before its twin.  RouteMissing is always
\* refused for its size, and left out.
Answers(h) == nodes[h]

\* handleRouteRequest.  A host without a self node crashes, a slave does not answer.
HandleRouteRequest(h, p) ==
    /\ Arrives(h, p, "RouteRequest")
    /\ \/ /\ ~HasSelf(h)
          /\ Ends(h, "null", net)
       \/ /\ HasSelf(h)
          /\ Handled(p, {})
          /\ UNCHANGED <<status, tables>>
       \/ /\ IsMaster(h)
          /\ \E g \in Answers(h) : Handled(p, {Route(h, p.from, g, g \in masters[h])})
          /\ UNCHANGED <<status, tables>>
    /\ UNCHANGED <<waiting, history, data>>

\* What is left after removeNode: a slave that is the last node exits, a host without
\* a self node crashes.
Remains(h, left) ==
    CASE Cardinality(left) + Copies(h) # 1 -> "well"
      [] ~HasSelf(h) -> "null"
      [] IsMaster(h) -> "well"
      [] OTHER -> "useless"

\* handleRouteInvalidate, from anybody.  A host is never told of its own departure.
HandleRouteInvalidate(h, p) ==
    /\ Arrives(h, p, "RouteInvalidate")
    /\ LET left == nodes[h] \ {p.about}
           others == IF HasSelf(h) THEN nodes[h] \ {h} ELSE nodes[h]
       IN  \/ /\ p.about \notin others
              /\ Handled(p, {})
              /\ UNCHANGED <<status, tables>>
           \/ /\ p.about \in others /\ Remains(h, left) = "well"
              /\ nodes' = [nodes EXCEPT ![h] = left]
              /\ masters' = [masters EXCEPT ![h] = @ \ {p.about}]
              /\ Handled(p, {})
              /\ UNCHANGED <<status, twin>>
           \/ /\ p.about \in others /\ Remains(h, left) # "well"
              /\ Ends(h, Remains(h, left), net)
    /\ UNCHANGED <<waiting, history, data>>

-----------------------------------------------------------------------------
(* Out of the network. *)

\* What h sends when it makes t a master: the slaves and t learn of each other.
Promotion(h, t, others) ==
    {Route(h, g, t, TRUE) : g \in others} \cup {Route(h, t, g, FALSE) : g \in others}
    \cup {RoleUpdate(h, t)}

\* Packets, master flags and appointments that reincarnateSomeone may lead to, in a
\* table with the given nodes and flags.
Reincarnations(h, known, flagged) ==
    LET slaves == known \ flagged
    IN  IF slaves = {} THEN {[sent |-> {}, flags |-> flagged, new |-> {}]}
        ELSE {[sent |-> Promotion(h, t, slaves \ {t}), flags |-> flagged \cup {t},
               new |-> {t}] : t \in slaves}

\* exitNetwork.  The last master makes somebody else a master; others tell a master,
\* which may be their twin, and crash if they know none.
ExitNetwork(h) ==
    /\ status[h] = "joined"
    /\ Cardinality({g \in Hosts : status[g] = "left"}) < MaxLeaves
    /\ Overlaps
    /\ \/ /\ masters[h] = {h} /\ Twin(h) # "master"
          /\ \E r \in Reincarnations(h, nodes[h], masters[h]) :
                Ends(h, "left", net \cup r.sent) /\ appointed' = appointed \cup r.new
          /\ UNCHANGED unheard
       \/ /\ \E m \in MasterPeers(h) :
                /\ Ends(h, "left", net \cup {ExitNotification(h, m)})
                /\ unheard' = IF m = h THEN unheard \cup {h} ELSE unheard
          /\ UNCHANGED appointed
       \/ /\ masters[h] = {}
          /\ Ends(h, "null", net)
          /\ UNCHANGED <<appointed, unheard>>
    /\ UNCHANGED <<waiting, registered, overtaken, data>>

\* Too few masters are left in the table of h.
Scarce(h, known, flagged) ==
    LET count == Cardinality(flagged) + MasterCopies(h)
    IN  count * networkDivisor < Cardinality(known) + Copies(h) \/ count = 1

\* The others are told that g has left.
Farewells(h, g) == {RouteInvalidate(h, t, g) : t \in Peers(h) \ {g}}

\* handleExitNotification.  A host without a self node crashes, a slave does nothing.
HandleExitNotification(h, p) ==
    /\ Arrives(h, p, "ExitNotification")
    /\ \/ /\ ~HasSelf(h)
          /\ Ends(h, "null", net)
          /\ UNCHANGED appointed
       \/ /\ HasSelf(h) /\ ~IsMaster(h)
          /\ Handled(p, {})
          /\ UNCHANGED <<status, tables, appointed>>
       \/ /\ IsMaster(h)
          /\ LET known == nodes[h] \ {p.from}
                 flagged == masters[h] \ {p.from}
             IN  \E r \in IF Scarce(h, known, flagged) THEN Reincarnations(h, known, flagged)
                          ELSE {[sent |-> {}, flags |-> flagged, new |-> {}]} :
                    /\ Handled(p, Farewells(h, p.from) \cup r.sent)
                    /\ nodes' = [nodes EXCEPT ![h] = known]
                    /\ masters' = [masters EXCEPT ![h] = r.flags]
                    /\ appointed' = appointed \cup r.new
          /\ UNCHANGED <<status, twin>>
    /\ UNCHANGED <<waiting, registered, overtaken, unheard, overlaps, data>>

\* handleRoleUpdate, from a master.  Without a self node the host crashes.
HandleRoleUpdate(h, p) ==
    /\ Arrives(h, p, "RoleUpdate")
    /\ \/ /\ p.from \notin MasterPeers(h)
          /\ Handled(p, {})
          /\ UNCHANGED <<status, tables>>
       \/ /\ p.from \in MasterPeers(h) /\ HasSelf(h)
          /\ UpdateSelf(h, p.master)
          /\ Handled(p, {})
          /\ UNCHANGED status
       \/ /\ p.from \in MasterPeers(h) /\ ~HasSelf(h)
          /\ Ends(h, "null", net)
    /\ UNCHANGED <<waiting, history, data>>

HandlePacket(h, p) ==
    \/ HandleMasterNodeRequest(h, p) \/ HandleMasterNodeReply(h, p)
    \/ HandleRegisterRequest(h, p) \/ HandleRegisterReply(h, p)
    \/ HandleRoute(h, p) \/ HandleRouteRequest(h, p) \/ HandleRouteInvalidate(h, p)
    \/ HandleRoleUpdate(h, p) \/ HandleExitNotification(h, p)

Next ==
    \E h \in Hosts :
        \/ CreateNetwork(h) \/ JoinFails(h) \/ ExitNetwork(h)
        \/ \E g \in Hosts \ {h} : JoinNetwork(h, g) \/ SendDataPacket(h, g)
        \/ \E p \in net : HandlePacket(h, p)

Spec == Init /\ [][Next]_vars

-----------------------------------------------------------------------------
(* Properties. *)

PacketTypes == {"MasterNodeRequest", "MasterNodeReply", "RegisterRequest", "RegisterReply",
                "Route", "RouteRequest", "RouteInvalidate", "RoleUpdate", "ExitNotification"}

Packets == [type : PacketTypes, from : Hosts, to : Hosts, about : Hosts, master : BOOLEAN]

\* The variables have their types, the master flags are on nodes of the table, and a
\* host that is in the network is in its own table.
TypeOK ==
    /\ status \in [Hosts -> Statuses]
    /\ nodes \in [Hosts -> SUBSET Hosts]
    /\ masters \in [Hosts -> SUBSET Hosts]
    /\ twin \in {"none", "slave", "master"}
    /\ waiting \in [Hosts -> SUBSET Hosts]
    /\ net \subseteq Packets
    /\ registered \in [Hosts -> SUBSET Hosts]
    /\ appointed \subseteq Hosts
    /\ overtaken \subseteq Hosts
    /\ unheard \subseteq Hosts
    /\ overlaps \in 0 .. MaxOverlaps
    /\ data \in 0 .. MaxData
    /\ \A h \in Hosts : masters[h] \subseteq nodes[h]
    /\ \A h \in Hosts : HasSelf(h) => h \in nodes[h]

\* Packets wait in queuedData only for want of a route: an address that is in the table
\* has no queue, unless this host registered it, which does not send what waits.
QueueWaitsForRoute ==
    \A h \in Hosts : waiting[h] \cap nodes[h] \subseteq registered[h]

\* Nobody is taken for a master, in a table or in a route on the way, who was not made
\* one by createNetwork, a registration or a promotion.
MastersAppointed ==
    /\ \A h \in Hosts : masters[h] \subseteq appointed
    /\ \A p \in net : p.type = "Route" /\ p.master => p.about \in appointed

\* A host in the network knows a master as long as nobody leaves, whatever joins at the
\* same time, provided that its RegisterReply came after its Routes.
Anchored ==
    (\A g \in Hosts : status[g] # "left") =>
        \A h \in Hosts : HasSelf(h) /\ h \notin overtaken => masters[h] # {}

Members == {h \in Hosts : HasSelf(h)}

\* Joins, departures and requests for routes that do not overlap, and whose packets
\* arrive, leave consistent tables: masters know all hosts, slaves know all masters,
\* nobody knows a host that has left, and all agree on who is a master.  It is so as long
\* as no host has taken leave of its own twin.  (In a network so large that a slave is
\* made a master while there are two others, the second one is not told.)
Agreement ==
    /\ Cardinality(Hosts) <= 2 * networkDivisor
    /\ Quiet /\ overlaps = 0 /\ overtaken = {} /\ unheard = {}
    /\ \A h \in Hosts : status[h] \in {"off", "joined", "left"}
    =>
        \A h \in Members :
            /\ masters[h] = {g \in Members : g \in masters[g]}
            /\ nodes[h] \subseteq Members
            /\ h \in masters[h] => nodes[h] = Members

\* A host that is asked for a master can name one.  The code calls the contrary a bug
\* and exits.
MasterChosen == \A h \in Hosts : status[h] # "unchosen"

\* No packet is sent to its own sender: sendPacket says that it drops those.
NotToMyself == \A p \in net : p.from # p.to

=============================================================================
