----------------------------- MODULE Messaging -----------------------------
(***************************************************************************)
(* The messenger above the link layer: presence, control packets, contacts *)
(* and chat windows of sippy (sippy/MessagingApplicationLayer.cpp,         *)
(* ContactList.cpp, Roster.cpp, ChatWindow.cpp, Messaging.cpp).            *)
(*                                                                         *)
(* A control packet (a message or an authorization request) stays in the   *)
(* output queue and is sent again every five seconds until the peer's      *)
(* bounce with its id arrives.  A presence notice goes to contacts only; a *)
(* peer whose notice has arrived in this session counts as authorized.     *)
(*                                                                         *)
(* Below it, the link layer sends a packet or keeps it until it has a      *)
(* route and a session.  Membership and SecureLink have the details; here  *)
(* routes come and go, and a packet handed to the link layer may arrive    *)
(* late, several times, out of order or never.                             *)
(***************************************************************************)
EXTENDS Naturals, Sequences

CONSTANTS
    Hosts,        \* addresses of the messengers, some of which may never run
    Null,         \* the null address, which a host without a route has
    InitContacts, \* InitContacts[h]: addresses in the stored contact list of h
    MaxId,        \* bound: MaxId[h] numbers of the qrand() sequence are drawn
    MaxLives,     \* bound: MaxLives[h] processes of h, one after the other
    MaxWork,      \* bound: operations of the users
    MaxFaults,    \* bound: routes lost, joins failed, sessions and processes ended
    MaxEntries,   \* bound: entries for one address in a contact list
    MaxBoxes      \* bound: open authorization questions

Peers == Hosts \cup {Null}

ASSUME MessagingAssumption ==
    /\ Null \notin Hosts
    /\ InitContacts \in [Hosts -> SUBSET Hosts]
    /\ MaxId \in [Hosts -> Nat]
    /\ MaxLives \in [Hosts -> Nat \ {0}]
    /\ MaxEntries \in Nat \ {0}
    /\ MaxWork \in Nat /\ MaxFaults \in Nat

VARIABLES
    link,        \* link[h]: "off", "joining" (socket bound) or "joined"
    routes,      \* routes[h]: addresses in h's router
    wire,        \* packets handed to the link layer, ever
    contacts,    \* contacts[h][g]: entries for g in the list, which is stored as it changes
    authorized,  \* authorized[h]: authorizedPeers
    absent,      \* absent[h]: absentPeers
    output,      \* output[h]: controlOutputQueue
    drawn,       \* drawn[h]: position in the sequence of qrand(), which is never seeded
    windows,     \* windows[h]: addresses in chatWindows
    menu,        \* menu[h]: contact whose authorization is about to be requested
    boxes,       \* boxes[h]: authorization questions on the screen, the innermost last
    life,        \* life[h]: number of h's process
    known,       \* history: known[h] addresses ever in h's contact list
    sent,        \* history: sent[h] control packets created by this process
    handled,     \* history: handled[h] control packets handled, by any process of h
    work, faults \* operations of the users and disturbances so far

transport == <<link, routes>>
presence == <<contacts, known, authorized>>
control == <<output, drawn, sent, handled>>
gui == <<windows, menu, boxes>>
counters == <<work, faults>>
vars == <<counters, transport, wire, presence, absent, control, gui, life>>

-----------------------------------------------------------------------------
(* Packets. *)

Packet(kind, h, g, id) ==
    [kind |-> kind, from |-> h, to |-> g, id |-> id, life |-> 0]

PresenceRequest(h, g) == Packet("request", h, g, 0)
PresenceNotify(h, g) == Packet("notify", h, g, 0)
ControlBounce(h, g, id) == Packet("bounce", h, g, id)

\* A control packet of this process; the process number is not part of it and
\* only tells two packets with the same id apart.
ControlPacket(kind, h, g, id) == [Packet(kind, h, g, id) EXCEPT !.life = life[h]]

\* The address the application layer is told: that of the record, which only a
\* route or a registration fills in.
Sender(h, p) == IF p.from \in routes[h] THEN p.from ELSE Null

HasAddress(h, g) == contacts[h][g] > 0

\* Packets without a route in a set that is sent; null addresses are refused.
Unrouted(h, P) == {p \in P : p.to \notin routes[h] \cup {Null}}

\* sendDataPacket for each packet in P.  For an address without a route a request
\* goes to a master, or the host finds that it is the one to ask, as it always
\* does without a self node, and emits routeMissing, which ends in peerAbsent.
SendData(h, P) ==
    /\ wire' = wire \cup {p \in P : p.to # Null}
    /\ \E missing \in SUBSET {p.to : p \in Unrouted(h, P)} :
          /\ link[h] = "off" => missing = {p.to : p \in Unrouted(h, P)}
          /\ absent' = [absent EXCEPT ![h] = @ \cup missing]

Contacts(h) == {g \in Peers : HasAddress(h, g)}

\* What fetchContact sends for the contacts in G.
Fetching(h, G) ==
    {PresenceRequest(h, g) : g \in G} \cup {PresenceNotify(h, g) : g \in G}

\* What peerState sends when a widget shows an address that has no route: the peer
\* is asked for its presence unless it is known to be absent.
Asking(h, g) ==
    IF link[h] = "joined" /\ g \notin absent[h] THEN {PresenceRequest(h, g)} ELSE {}

\* What a widget for g sends when it is shown or refreshed.
Refreshing(h, g) == IF g \in routes[h] THEN {} ELSE Asking(h, g)

-----------------------------------------------------------------------------
Init ==
    /\ link = [h \in Hosts |-> "off"]
    /\ routes = [h \in Hosts |-> {}]
    /\ wire = {}
    /\ contacts = [h \in Hosts |->
           [g \in Peers |-> IF g \in InitContacts[h] THEN 1 ELSE 0]]
    /\ authorized = [h \in Hosts |-> {}]
    /\ absent = [h \in Hosts |-> {}]
    /\ output = [h \in Hosts |-> {}]
    /\ drawn = [h \in Hosts |-> 0]
    /\ windows = [h \in Hosts |-> {}]
    /\ menu = [h \in Hosts |-> {}]
    /\ boxes = [h \in Hosts |-> <<>>]
    /\ life = [h \in Hosts |-> 1]
    /\ known = InitContacts
    /\ sent = [h \in Hosts |-> {}]
    /\ handled = [h \in Hosts |-> {}]
    /\ work = 0
    /\ faults = 0

-----------------------------------------------------------------------------
(* The link layer under the messenger. *)

\* joinNetwork: the socket is bound.
Joining(h) ==
    /\ link[h] = "off"
    /\ link' = [link EXCEPT ![h] = "joining"]
    /\ UNCHANGED <<routes, wire, presence, absent, control, gui, life>>

\* joinedNetwork, after createNetwork or a join: fetchAllContacts.
Joined(h) ==
    /\ link[h] # "joined"
    /\ link' = [link EXCEPT ![h] = "joined"]
    /\ SendData(h, Fetching(h, Contacts(h)))
    /\ UNCHANGED <<routes, presence, control, gui, life>>

\* A join fails: the router is emptied, the socket stays bound.
JoinFailed(h) ==
    /\ link[h] = "joining"
    /\ routes' = [routes EXCEPT ![h] = {}]
    /\ UNCHANGED <<link, wire, presence, absent, control, gui, life>>

\* Mutant: cleanup forgets the output queue too.
LeaveDropsOutput(h) ==
    /\ link[h] # "off"
    /\ link' = [link EXCEPT ![h] = "off"]
    /\ routes' = [routes EXCEPT ![h] = {}]
    /\ absent' = [absent EXCEPT ![h] = {}]
    /\ authorized' = [authorized EXCEPT ![h] = {}]
    /\ output' = [output EXCEPT ![h] = {}]
    /\ UNCHANGED <<wire, contacts, known, drawn, sent, handled, gui, life>>

\* leavedNetwork: the router is empty, cleanup forgets who was absent or authorized.
\* The output queue stays for the next session.
Leave(h) ==
    /\ link[h] # "off"
    /\ link' = [link EXCEPT ![h] = "off"]
    /\ routes' = [routes EXCEPT ![h] = {}]
    /\ absent' = [absent EXCEPT ![h] = {}]
    /\ authorized' = [authorized EXCEPT ![h] = {}]
    /\ UNCHANGED <<wire, contacts, known, control, gui, life>>

\* peerAdded: handleRoute or handleRegisterRequest names g.
RouteAdded(h, g) ==
    /\ link[h] # "off"
    /\ routes' = [routes EXCEPT ![h] = @ \cup {g}]
    /\ UNCHANGED <<link, wire, presence, absent, control, gui, life>>

\* peerRemoved: the widget of a contact asks for its presence.
RouteRemoved(h, g) ==
    /\ g \in routes[h]
    /\ routes' = [routes EXCEPT ![h] = @ \ {g}]
    /\ LET asked == IF HasAddress(h, g) THEN Asking(h, g) ELSE {}
       IN  /\ wire' = wire \cup asked
           /\ \E missing \in SUBSET {p.to : p \in asked} :
                 absent' = [absent EXCEPT ![h] = @ \cup missing]
    /\ UNCHANGED <<link, presence, control, gui, life>>

\* The process ends and is started again: all that is not stored is gone, and the
\* sequence of qrand() begins anew.
Restart(h) ==
    /\ life[h] < MaxLives[h]
    /\ life' = [life EXCEPT ![h] = @ + 1]
    /\ link' = [link EXCEPT ![h] = "off"]
    /\ routes' = [routes EXCEPT ![h] = {}]
    /\ authorized' = [authorized EXCEPT ![h] = {}]
    /\ absent' = [absent EXCEPT ![h] = {}]
    /\ output' = [output EXCEPT ![h] = {}]
    /\ drawn' = [drawn EXCEPT ![h] = 0]
    /\ sent' = [sent EXCEPT ![h] = {}]
    /\ windows' = [windows EXCEPT ![h] = {}]
    /\ menu' = [menu EXCEPT ![h] = {}]
    /\ boxes' = [boxes EXCEPT ![h] = <<>>]
    /\ UNCHANGED <<wire, contacts, known, handled>>

-----------------------------------------------------------------------------
(* Handlers of packets. *)

\* The packet p arrives at a bound socket.
Arrives(h, p) == link[h] # "off" /\ p.to = h

\* Mutant: anybody is told.
HandlePresenceRequestOpen(h, p) ==
    /\ Arrives(h, p) /\ p.kind = "request"
    /\ SendData(h, {PresenceNotify(h, Sender(h, p))})
    /\ UNCHANGED <<transport, presence, control, gui, life>>

\* handlePresenceRequest: contacts are answered, others are not.
HandlePresenceRequest(h, p) ==
    /\ Arrives(h, p) /\ p.kind = "request"
    /\ HasAddress(h, Sender(h, p))
    /\ SendData(h, {PresenceNotify(h, Sender(h, p))})
    /\ UNCHANGED <<transport, presence, control, gui, life>>

\* handlePresenceNotify: the new status of a contact refreshes its widgets.
HandlePresenceNotify(h, p) ==
    /\ Arrives(h, p) /\ p.kind = "notify"
    /\ authorized' = [authorized EXCEPT ![h] = @ \cup {Sender(h, p)}]
    /\ SendData(h, IF HasAddress(h, Sender(h, p)) THEN Refreshing(h, Sender(h, p)) ELSE {})
    /\ UNCHANGED <<transport, contacts, known, control, gui, life>>

\* chatFor: the window of g, created if there is none.
ChatFor(h, g) == windows' = [windows EXCEPT ![h] = @ \cup {g}]

\* Mutant: a message that was handled before is not bounced again.
HandleMessageOnce(h, p) ==
    /\ Arrives(h, p) /\ p.kind = "message"
    /\ p \notin handled[h]
    /\ SendData(h, {ControlBounce(h, Sender(h, p), p.id)})
    /\ handled' = [handled EXCEPT ![h] = @ \cup {p}]
    /\ ChatFor(h, Sender(h, p))
    /\ UNCHANGED <<transport, presence, output, drawn, sent, menu, boxes, life>>

\* handleControlPacket of a message: it is bounced and then shown in a window,
\* which takes it from the input queue.  There is a window for the sender from
\* then on.  (The window that shows it is the first one to look, see README.)
HandleMessage(h, p) ==
    /\ Arrives(h, p) /\ p.kind = "message"
    /\ SendData(h, {ControlBounce(h, Sender(h, p), p.id)})
    /\ handled' = [handled EXCEPT ![h] = @ \cup {p}]
    /\ ChatFor(h, Sender(h, p))
    /\ UNCHANGED <<transport, presence, output, drawn, sent, menu, boxes, life>>

\* handleControlPacket of an authorization request: it is bounced, offerAuthorization
\* takes it from the input queue and asks the user in a nested event loop.
HandleAuthorization(h, p) ==
    /\ Arrives(h, p) /\ p.kind = "authorization"
    /\ Len(boxes[h]) < MaxBoxes
    /\ SendData(h, {ControlBounce(h, Sender(h, p), p.id)})
    /\ handled' = [handled EXCEPT ![h] = @ \cup {p}]
    /\ boxes' = [boxes EXCEPT ![h] = Append(@, Sender(h, p))]
    /\ UNCHANGED <<transport, presence, output, drawn, sent, windows, menu, life>>

\* The packets in the output queue that the bounce p is about.
Bounced(h, p) == {c \in output[h] : c.id = p.id /\ c.to = Sender(h, p)}

\* handleControlBounce: a bounce from anybody but the peer is dropped.
HandleBounce(h, p) ==
    /\ Arrives(h, p) /\ p.kind = "bounce"
    /\ output' = [output EXCEPT ![h] = @ \ Bounced(h, p)]
    /\ UNCHANGED <<transport, wire, presence, absent, drawn, sent, handled,
                   gui, life>>

-----------------------------------------------------------------------------
(* The timer and the user. *)

\* sendControlPacket of a new packet for g.  Its id is the next number of the
\* sequence or, since cookies and the choice of a master use it too, a later one.
SendControl(h, kind, g) ==
    \E id \in (drawn[h] + 1) .. MaxId[h] :
        /\ drawn' = [drawn EXCEPT ![h] = id]
        /\ output' = [output EXCEPT ![h] = @ \cup {ControlPacket(kind, h, g, id)}]
        /\ sent' = [sent EXCEPT ![h] = @ \cup {ControlPacket(kind, h, g, id)}]
        /\ SendData(h, {ControlPacket(kind, h, g, id)})

\* resendControlPackets, every five seconds, also without a network.
ResendControlPackets(h) ==
    /\ output[h] # {}
    /\ SendData(h, output[h])
    /\ UNCHANGED <<transport, presence, control, gui, life>>

\* setStatus and setStatusText: sendPresence.
SetStatus(h) ==
    /\ link[h] = "joined"
    /\ SendData(h, {PresenceNotify(h, g) : g \in Contacts(h)})
    /\ UNCHANGED <<transport, presence, control, gui, life>>

\* addContact: fetchContact, then the widget in the roster.
AddContact(h, g) ==
    /\ contacts[h][g] < MaxEntries
    /\ contacts' = [contacts EXCEPT ![h][g] = @ + 1]
    /\ known' = [known EXCEPT ![h] = @ \cup {g}]
    /\ SendData(h, IF link[h] = "joined" THEN Fetching(h, {g}) ELSE {})

\* The dialog for a new contact.  Nothing looks for an entry with the same address.
AddByDialog(h, g) ==
    /\ AddContact(h, g)
    /\ UNCHANGED <<transport, authorized, control, gui, life>>

\* The innermost question is answered: Yes adds the peer, and once more if it is
\* already a contact.
AnswerYes(h) ==
    /\ boxes[h] # <<>>
    /\ AddContact(h, boxes[h][Len(boxes[h])])
    /\ boxes' = [boxes EXCEPT ![h] = SubSeq(@, 1, Len(@) - 1)]
    /\ UNCHANGED <<transport, authorized, control, windows, menu, life>>

AnswerNo(h) ==
    /\ boxes[h] # <<>>
    /\ boxes' = [boxes EXCEPT ![h] = SubSeq(@, 1, Len(@) - 1)]
    /\ UNCHANGED <<transport, wire, presence, absent, control, windows, menu, life>>

\* Mutant: a contact that is not in the list is removed.
RemoveContactUnchecked(h, g) ==
    /\ contacts' = [contacts EXCEPT ![h][g] = @ - 1]
    /\ UNCHANGED <<transport, wire, known, authorized, absent, control, gui, life>>

\* removeItem.  The peer stays authorized, and its chat window open.
RemoveContact(h, g) ==
    /\ contacts[h][g] > 0
    /\ contacts' = [contacts EXCEPT ![h][g] = @ - 1]
    /\ UNCHANGED <<transport, wire, known, authorized, absent, control, gui, life>>

\* beginChat on a contact; the head of a new window is a widget for it.
BeginChat(h, g) ==
    /\ HasAddress(h, g)
    /\ ChatFor(h, g)
    /\ SendData(h, IF g \in windows[h] THEN {} ELSE Refreshing(h, g))
    /\ UNCHANGED <<transport, presence, control, menu, boxes, life>>

\* ChatWindow::sendMessage.
SendMessage(h, g) ==
    /\ g \in windows[h]
    /\ SendControl(h, "message", g)
    /\ UNCHANGED <<transport, presence, handled, gui, life>>

\* showMenu: the request is offered for a contact whose state is Unauthorized now.
ShowMenu(h, g) ==
    /\ HasAddress(h, g)
    /\ menu' = [menu EXCEPT ![h] = IF g \in routes[h] /\ g \notin authorized[h]
                                   THEN {g} ELSE {}]
    /\ SendData(h, Refreshing(h, g))
    /\ UNCHANGED <<transport, presence, control, windows, boxes, life>>

\* requestAuthorization: the reason is entered in a nested event loop, after which
\* the contact may have been removed, authorized or be out of reach.
RequestAuthorization(h) ==
    /\ \E g \in menu[h] : SendControl(h, "authorization", g)
    /\ menu' = [menu EXCEPT ![h] = {}]
    /\ UNCHANGED <<transport, presence, handled, windows, boxes, life>>

HandlePacket(h, p) ==
    \/ HandlePresenceRequest(h, p)
    \/ HandlePresenceNotify(h, p)
    \/ HandleMessage(h, p)
    \/ HandleAuthorization(h, p)
    \/ HandleBounce(h, p)

\* What goes on by itself.
Proceed(h) ==
    /\ \/ Joining(h) \/ Joined(h)
       \/ \E g \in Hosts \ {h} : RouteAdded(h, g)
       \/ \E p \in wire : HandlePacket(h, p)
       \/ ResendControlPackets(h)
       \/ AnswerYes(h) \/ AnswerNo(h)
    /\ UNCHANGED counters

\* A packet of h is lost.  A lost presence packet looks like one that is late.
Lose(h) ==
    /\ \E p \in wire :
          /\ p.from = h
          /\ p.kind \in {"message", "authorization", "bounce"}
          /\ wire' = wire \ {p}
    /\ UNCHANGED <<transport, presence, absent, control, gui, life>>

Disturb(h) ==
    /\ faults < MaxFaults
    /\ faults' = faults + 1
    /\ \/ JoinFailed(h) \/ Leave(h) \/ Restart(h) \/ Lose(h)
       \/ \E g \in Hosts : RouteRemoved(h, g)
    /\ UNCHANGED work

Operate(h) ==
    /\ work < MaxWork
    /\ work' = work + 1
    /\ \/ SetStatus(h) \/ RequestAuthorization(h)
       \/ \E g \in Hosts \ {h} : AddByDialog(h, g)
       \/ \E g \in Peers :
             RemoveContact(h, g) \/ BeginChat(h, g) \/ ShowMenu(h, g) \/ SendMessage(h, g)
    /\ UNCHANGED faults

Next ==
    \E h \in Hosts : Proceed(h) \/ Disturb(h) \/ Operate(h)

Spec == Init /\ [][Next]_vars

\* The resend timer repeats, and a packet that is not lost arrives.
Resends(h) == ResendControlPackets(h) /\ UNCHANGED counters

Receives(h, kind, g, id) ==
    /\ \E p \in wire : p.kind = kind /\ p.from = g /\ p.id = id /\ HandlePacket(h, p)
    /\ UNCHANGED counters

Fairness ==
    /\ \A h \in Hosts : WF_vars(Resends(h))
    /\ \A h \in Hosts : \A g \in Hosts \ {h} : \A id \in 1 .. MaxId[g] :
          WF_vars(Receives(h, "message", g, id)) /\ WF_vars(Receives(g, "bounce", h, id))

FairSpec == Spec /\ Fairness

-----------------------------------------------------------------------------
(* Properties. *)

ControlKinds == {"message", "authorization"}
Kinds == ControlKinds \cup {"request", "notify", "bounce"}

\* Packets on the wire, and control packets, which may be addressed to nobody.
Packets == [kind : Kinds, from : Hosts, to : Hosts, id : Nat, life : Nat]
ControlPackets == [kind : ControlKinds, from : Hosts, to : Peers, id : Nat, life : Nat]

\* The variables have their types, a contact has no negative number of entries, and the
\* packets in the output queue are this process's own.
TypeOK ==
    /\ link \in [Hosts -> {"off", "joining", "joined"}]
    /\ routes \in [Hosts -> SUBSET Hosts]
    /\ wire \subseteq Packets
    /\ contacts \in [Hosts -> [Peers -> 0 .. MaxEntries]]
    /\ known \in [Hosts -> SUBSET Peers]
    /\ authorized \in [Hosts -> SUBSET Peers]
    /\ absent \in [Hosts -> SUBSET Hosts]
    /\ output \in [Hosts -> SUBSET ControlPackets]
    /\ sent \in [Hosts -> SUBSET ControlPackets]
    /\ handled \in [Hosts -> SUBSET ControlPackets]
    /\ drawn \in [Hosts -> Nat]
    /\ windows \in [Hosts -> SUBSET Peers]
    /\ menu \in [Hosts -> SUBSET Hosts]
    /\ boxes \in [Hosts -> Seq(Peers)]
    /\ life \in [Hosts -> Nat \ {0}]
    /\ work \in 0 .. MaxWork /\ faults \in 0 .. MaxFaults
    /\ \A h \in Hosts :
          /\ output[h] \subseteq sent[h]
          /\ \A p \in sent[h] : p.from = h /\ p.id <= drawn[h]
          /\ \A p \in handled[h] : p.to = h
          /\ drawn[h] <= MaxId[h] /\ life[h] <= MaxLives[h]

\* Nothing is lost: a control packet of a process stays in its output queue until
\* the peer has handled it, through lost, late and repeated datagrams, through
\* sessions of either side and restarts of the peer.
KeptUntilHandled ==
    \A h \in Hosts : life[h] = 1 =>
        \A c \in sent[h] : c \in output[h] \/ (c.to \in Hosts /\ c \in handled[c.to])

\* Presence is told to contacts only: who counts as authorized has had this host in
\* its contact list.
AuthorizedByConsent ==
    \A h \in Hosts : \A g \in authorized[h] \ {Null} : h \in known[g]

\* The hosts reach each other.
Connected(h, g) ==
    /\ link[h] # "off" /\ g \in routes[h]
    /\ link[g] # "off" /\ h \in routes[g]

Pending(h, g, id) ==
    \E c \in output[h] : c.kind = "message" /\ c.to = g /\ c.id = id

\* Two hosts that reach each other from some time on get their messages across: the
\* output queue, also one filled before that or without a network, is emptied.
MessagesArrive ==
    \A h \in Hosts : \A g \in Hosts \ {h} : \A id \in 1 .. MaxId[h] :
        <>[]Connected(h, g) => (Pending(h, g, id) ~> ~Pending(h, g, id))

=============================================================================
