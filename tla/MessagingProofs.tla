--------------------------- MODULE MessagingProofs ---------------------------
(***************************************************************************)
(* Safety of the messenger, for any hosts and bounds.                      *)
(***************************************************************************)
EXTENDS Messaging, TLAPS

\* What may be given to sendDataPacket.
Outgoing == [kind : Kinds, from : Hosts, to : Peers, id : Nat, life : Nat]

-----------------------------------------------------------------------------
(* Packets. *)

\* Presence packets and bounces that may be given to sendDataPacket.
LEMMA Constructors ==
    ASSUME NEW h \in Hosts, NEW g \in Peers, NEW id \in Nat
    PROVE  /\ PresenceRequest(h, g) \in Outgoing
           /\ PresenceNotify(h, g) \in Outgoing
           /\ ControlBounce(h, g, id) \in Outgoing
  BY DEF PresenceRequest, PresenceNotify, ControlBounce, Packet, Outgoing, Kinds,
     ControlKinds

\* A control packet of a running process.
LEMMA ControlTyped ==
    ASSUME TypeOK, NEW h \in Hosts, NEW g \in Peers, NEW id \in Nat, NEW kind \in ControlKinds
    PROVE  /\ ControlPacket(kind, h, g, id) \in ControlPackets
           /\ ControlPacket(kind, h, g, id).from = h
           /\ ControlPacket(kind, h, g, id).id = id
           /\ ControlPacket(kind, h, g, id).to = g
           /\ ControlPacket(kind, h, g, id).kind = kind
<1>1. ControlPacket(kind, h, g, id)
         = [kind |-> kind, from |-> h, to |-> g, id |-> id, life |-> life[h]]
  BY DEF ControlPacket, Packet
<1>2. life[h] \in Nat
  BY DEF TypeOK
<1> QED
  BY <1>1, <1>2 DEF ControlPackets

LEMMA ControlOutgoing == ControlPackets \subseteq Outgoing
  BY DEF ControlPackets, Outgoing, Kinds

\* The fields of a packet on the wire.
LEMMA Fields ==
    ASSUME TypeOK, NEW p \in wire
    PROVE  p.kind \in Kinds /\ p.from \in Hosts /\ p.to \in Hosts /\ p.id \in Nat
           /\ (p.kind \in ControlKinds => p \in ControlPackets)
<1>1. p \in Packets
  BY DEF TypeOK
<1> QED
  BY <1>1 DEF Packets, ControlPackets, Peers

LEMMA SenderTyped ==
    ASSUME TypeOK, NEW h \in Hosts, NEW p \in wire
    PROVE  Sender(h, p) \in Peers
  BY Fields DEF Sender, Peers

\* sendDataPacket puts packets on the wire, or drops those to nobody.
LEMMA SendDataTyped ==
    ASSUME TypeOK, NEW h \in Hosts, NEW P \in SUBSET Outgoing, SendData(h, P)
    PROVE  /\ wire' \subseteq Packets
           /\ absent' \in [Hosts -> SUBSET Hosts]
           /\ wire' = wire \cup {p \in P : p.to # Null}
<1>1. wire' = wire \cup {p \in P : p.to # Null}
  BY DEF SendData
<1>2. \A p \in P : p.to # Null => p \in Packets
  BY DEF Outgoing, Packets, Peers
<1>3. PICK missing \in SUBSET {p.to : p \in Unrouted(h, P)} :
         absent' = [absent EXCEPT ![h] = @ \cup missing]
  BY DEF SendData
<1>4. missing \subseteq Hosts
  <2>1. \A p \in Unrouted(h, P) : p.to \in Hosts
    BY DEF Unrouted, Outgoing, Peers
  <2> QED
    BY <1>3, <2>1
<1> QED
  BY <1>1, <1>2, <1>3, <1>4 DEF TypeOK

\* What contacts and widgets lead to is well typed.
LEMMA FetchingTyped ==
    ASSUME NEW h \in Hosts, NEW G \in SUBSET Peers
    PROVE  Fetching(h, G) \in SUBSET Outgoing
<1>1. \A g \in G : PresenceRequest(h, g) \in Outgoing /\ PresenceNotify(h, g) \in Outgoing
  BY Constructors
<1> QED
  BY <1>1 DEF Fetching

LEMMA RefreshingTyped ==
    ASSUME NEW h \in Hosts, NEW g \in Peers
    PROVE  Refreshing(h, g) \in SUBSET {PresenceRequest(h, g)}
           /\ Asking(h, g) \in SUBSET {PresenceRequest(h, g)}
           /\ PresenceRequest(h, g) \in Outgoing
  BY Constructors DEF Refreshing, Asking

-----------------------------------------------------------------------------
(* Types. *)

CountersOK == work \in 0 .. MaxWork /\ faults \in 0 .. MaxFaults

\* Packets are sent and nothing else changes.
LEMMA TypeSend ==
    ASSUME TypeOK, CountersOK', NEW h \in Hosts, NEW P \in SUBSET Outgoing, SendData(h, P),
           UNCHANGED <<transport, presence, control, gui, life>>
    PROVE  TypeOK'
  BY SendDataTyped DEF TypeOK, CountersOK, transport, presence, control, gui

\* The link layer.
LEMMA TypeLink ==
    ASSUME TypeOK, CountersOK', NEW h \in Hosts,
           \/ Joining(h) \/ Joined(h) \/ JoinFailed(h) \/ Leave(h) \/ Restart(h) \/ Lose(h)
           \/ \E g \in Hosts : RouteAdded(h, g) \/ RouteRemoved(h, g)
    PROVE  TypeOK'
<1> USE DEF CountersOK
<1>1. CASE Joining(h)
  BY <1>1 DEF Joining, TypeOK, presence, control, gui
<1>2. CASE Joined(h)
  <2>1. Contacts(h) \in SUBSET Peers
    BY DEF Contacts
  <2>2. wire' \subseteq Packets /\ absent' \in [Hosts -> SUBSET Hosts]
    BY <1>2, <2>1, FetchingTyped, SendDataTyped DEF Joined
  <2> QED
    BY <1>2, <2>2 DEF Joined, TypeOK, presence, control, gui
<1>3. CASE JoinFailed(h)
  BY <1>3 DEF JoinFailed, TypeOK, presence, control, gui
<1>4. CASE Leave(h)
  BY <1>4 DEF Leave, TypeOK, control, gui
<1>5. CASE Restart(h)
  <2>1. life[h] \in Nat \ {0} /\ MaxLives[h] \in Nat /\ MaxId[h] \in Nat
    BY MessagingAssumption DEF TypeOK
  <2>2. boxes' \in [Hosts -> Seq(Peers)]
    <3>1. <<>> \in Seq(Peers)
      OBVIOUS
    <3> QED
      BY <1>5, <3>1 DEF Restart, TypeOK
  <2>3. /\ link' \in [Hosts -> {"off", "joining", "joined"}]
        /\ routes' \in [Hosts -> SUBSET Hosts]
        /\ authorized' \in [Hosts -> SUBSET Peers]
        /\ absent' \in [Hosts -> SUBSET Hosts]
        /\ windows' \in [Hosts -> SUBSET Peers]
        /\ menu' \in [Hosts -> SUBSET Hosts]
    BY <1>5 DEF Restart, TypeOK
  <2>4. /\ output' \in [Hosts -> SUBSET ControlPackets]
        /\ sent' \in [Hosts -> SUBSET ControlPackets]
        /\ drawn' \in [Hosts -> Nat]
        /\ life' \in [Hosts -> Nat \ {0}]
    BY <1>5, <2>1 DEF Restart, TypeOK
  <2>5. \A k \in Hosts :
           /\ output'[k] \subseteq sent'[k]
           /\ \A q \in sent'[k] : q.from = k /\ q.id <= drawn'[k]
           /\ drawn'[k] <= MaxId[k] /\ life'[k] <= MaxLives[k]
    BY <1>5, <2>1 DEF Restart, TypeOK
  <2> QED
    BY <1>5, <2>2, <2>3, <2>4, <2>5 DEF Restart, TypeOK
<1>6. CASE Lose(h)
  BY <1>6 DEF Lose, TypeOK, transport, presence, control, gui
<1>7. ASSUME NEW g \in Hosts, RouteAdded(h, g)
      PROVE  TypeOK'
  BY <1>7 DEF RouteAdded, TypeOK, presence, control, gui
<1>8. ASSUME NEW g \in Hosts, RouteRemoved(h, g)
      PROVE  TypeOK'
  <2>1. PICK asked \in SUBSET {PresenceRequest(h, g)} :
           /\ wire' = wire \cup asked
           /\ \E missing \in SUBSET {p.to : p \in asked} :
                 absent' = [absent EXCEPT ![h] = @ \cup missing]
    <3>1. g \in Peers
      BY DEF Peers
    <3> QED
      BY <1>8, <3>1, RefreshingTyped DEF RouteRemoved
  <2>2. PresenceRequest(h, g) \in Packets /\ PresenceRequest(h, g).to = g
    BY DEF PresenceRequest, Packet, Packets, Kinds
  <2>3. wire' \subseteq Packets
    BY <2>1, <2>2 DEF TypeOK
  <2>4. absent' \in [Hosts -> SUBSET Hosts]
    <3>1. PICK missing \in SUBSET {p.to : p \in asked} :
             absent' = [absent EXCEPT ![h] = @ \cup missing]
      BY <2>1
    <3>2. \A p \in asked : p.to = g
      BY <2>2
    <3>3. missing \subseteq Hosts
      BY <3>1, <3>2
    <3> QED
      BY <3>1, <3>3 DEF TypeOK
  <2> QED
    BY <1>8, <2>3, <2>4 DEF RouteRemoved, TypeOK, presence, control, gui
<1> QED
  BY <1>1, <1>2, <1>3, <1>4, <1>5, <1>6, <1>7, <1>8

\* The handlers of packets.
LEMMA TypeHandler ==
    ASSUME TypeOK, CountersOK', NEW h \in Hosts, NEW p \in wire, HandlePacket(h, p)
    PROVE  TypeOK'
<1> USE DEF CountersOK
<1>0. Sender(h, p) \in Peers /\ p.id \in Nat /\ p.to \in Hosts
      /\ (p.kind \in ControlKinds => p \in ControlPackets)
  BY Fields, SenderTyped
<1>1. CASE HandlePresenceRequest(h, p)
  BY <1>0, <1>1, Constructors, TypeSend DEF HandlePresenceRequest
<1>2. CASE HandlePresenceNotify(h, p)
  <2>1. wire' \subseteq Packets /\ absent' \in [Hosts -> SUBSET Hosts]
    <3>1. PICK P \in SUBSET Outgoing : SendData(h, P)
      BY <1>0, <1>2, RefreshingTyped DEF HandlePresenceNotify
    <3> QED
      BY <3>1, SendDataTyped
  <2>2. authorized' \in [Hosts -> SUBSET Peers]
    BY <1>0, <1>2 DEF HandlePresenceNotify, TypeOK
  <2>3. UNCHANGED <<link, routes, contacts, known, output, drawn, sent, handled, windows, menu,
                    boxes, life>>
    BY <1>2 DEF HandlePresenceNotify, transport, control, gui
  <2> QED
    BY <2>1, <2>2, <2>3 DEF TypeOK
<1>3. CASE HandleMessage(h, p) \/ HandleAuthorization(h, p)
  <2>1. wire' \subseteq Packets /\ absent' \in [Hosts -> SUBSET Hosts]
    <3>1. PICK P \in SUBSET Outgoing : SendData(h, P)
      BY <1>0, <1>3, Constructors DEF HandleMessage, HandleAuthorization
    <3> QED
      BY <3>1, SendDataTyped
  <2>2. handled' = [handled EXCEPT ![h] = @ \cup {p}] /\ p \in ControlPackets /\ p.to = h
    BY <1>0, <1>3 DEF HandleMessage, HandleAuthorization, ControlKinds, Arrives
  <2>3. CASE HandleMessage(h, p)
    BY <1>0, <2>1, <2>2, <2>3
       DEF HandleMessage, ChatFor, TypeOK, transport, presence
  <2>4. CASE HandleAuthorization(h, p)
    <3>1. boxes' \in [Hosts -> Seq(Peers)]
      BY <1>0, <2>4 DEF HandleAuthorization, TypeOK
    <3> QED
      BY <2>1, <2>2, <2>4, <3>1 DEF HandleAuthorization, TypeOK, transport, presence
  <2> QED
    BY <1>3, <2>3, <2>4
<1>4. CASE HandleBounce(h, p)
  <2>1. output' = [output EXCEPT ![h] = @ \ Bounced(h, p)]
    BY <1>4 DEF HandleBounce
  <2> QED
    BY <1>4, <2>1 DEF HandleBounce, TypeOK, transport, presence, gui
<1> QED
  BY <1>1, <1>2, <1>3, <1>4 DEF HandlePacket

\* A new control packet.
LEMMA TypeControl ==
    ASSUME TypeOK, NEW h \in Hosts, NEW g \in Peers, NEW kind \in ControlKinds,
           SendControl(h, kind, g)
    PROVE  \E id \in Nat :
              LET c == ControlPacket(kind, h, g, id)
              IN  /\ id > drawn[h] /\ id <= MaxId[h]
                  /\ drawn' = [drawn EXCEPT ![h] = id]
                  /\ output' = [output EXCEPT ![h] = @ \cup {c}]
                  /\ sent' = [sent EXCEPT ![h] = @ \cup {c}]
                  /\ wire' \subseteq wire \cup {c}
                  /\ wire' \subseteq Packets
                  /\ absent' \in [Hosts -> SUBSET Hosts]
<1>1. PICK id \in (drawn[h] + 1) .. MaxId[h] :
         /\ drawn' = [drawn EXCEPT ![h] = id]
         /\ output' = [output EXCEPT ![h] = @ \cup {ControlPacket(kind, h, g, id)}]
         /\ sent' = [sent EXCEPT ![h] = @ \cup {ControlPacket(kind, h, g, id)}]
         /\ SendData(h, {ControlPacket(kind, h, g, id)})
  BY DEF SendControl
<1>2. drawn[h] \in Nat /\ MaxId[h] \in Nat
  BY MessagingAssumption DEF TypeOK
<1>3. id \in Nat /\ id > drawn[h] /\ id <= MaxId[h]
  BY <1>1, <1>2
<1>4. {ControlPacket(kind, h, g, id)} \in SUBSET Outgoing
  BY <1>3, ControlTyped, ControlOutgoing
<1>5. /\ wire' \subseteq wire \cup {ControlPacket(kind, h, g, id)}
      /\ wire' \subseteq Packets
      /\ absent' \in [Hosts -> SUBSET Hosts]
  BY <1>1, <1>4, SendDataTyped
<1> QED
  BY <1>1, <1>3, <1>5

\* An operation that creates a control packet.
LEMMA TypeCreate ==
    ASSUME TypeOK, CountersOK', NEW h \in Hosts, NEW g \in Peers, NEW kind \in ControlKinds,
           SendControl(h, kind, g), menu' \in [Hosts -> SUBSET Hosts],
           UNCHANGED <<transport, presence, handled, windows, boxes, life>>
    PROVE  TypeOK'
<1>1. PICK id \in Nat :
         LET c == ControlPacket(kind, h, g, id)
         IN  /\ id > drawn[h] /\ id <= MaxId[h]
             /\ drawn' = [drawn EXCEPT ![h] = id]
             /\ output' = [output EXCEPT ![h] = @ \cup {c}]
             /\ sent' = [sent EXCEPT ![h] = @ \cup {c}]
             /\ wire' \subseteq wire \cup {c}
             /\ wire' \subseteq Packets
             /\ absent' \in [Hosts -> SUBSET Hosts]
  BY TypeControl
<1> DEFINE c == ControlPacket(kind, h, g, id)
<1>2. c \in ControlPackets /\ c.from = h /\ c.id = id
  BY ControlTyped
<1> HIDE DEF c
<1>3. /\ id > drawn[h] /\ id <= MaxId[h]
      /\ drawn' = [drawn EXCEPT ![h] = id]
      /\ output' = [output EXCEPT ![h] = @ \cup {c}]
      /\ sent' = [sent EXCEPT ![h] = @ \cup {c}]
      /\ wire' \subseteq Packets
      /\ absent' \in [Hosts -> SUBSET Hosts]
  BY <1>1 DEF c
<1>4. \A k \in Hosts : \A q \in sent'[k] : q.from = k /\ q.id <= drawn'[k]
  <2> SUFFICES ASSUME NEW k \in Hosts, NEW q \in sent'[k]
               PROVE  q.from = k /\ q.id <= drawn'[k]
    OBVIOUS
  <2>1. CASE k = h /\ q = c
    BY <1>2, <1>3, <2>1 DEF TypeOK
  <2>2. CASE q \in sent[k]
    <3>1. q.from = k /\ q.id <= drawn[k] /\ q.id \in Nat /\ drawn[k] \in Nat
      BY <2>2 DEF TypeOK, ControlPackets
    <3>2. drawn[k] <= drawn'[k] /\ drawn'[k] \in Nat
      BY <1>3, <3>1 DEF TypeOK
    <3> QED
      BY <3>1, <3>2
  <2> QED
    BY <1>3, <2>1, <2>2 DEF TypeOK
<1>5. /\ drawn' \in [Hosts -> Nat] /\ \A k \in Hosts : drawn'[k] <= MaxId[k]
      /\ output' \in [Hosts -> SUBSET ControlPackets]
      /\ sent' \in [Hosts -> SUBSET ControlPackets]
      /\ \A k \in Hosts : output'[k] \subseteq sent'[k]
  BY <1>2, <1>3 DEF TypeOK
<1> QED
  BY <1>3, <1>4, <1>5 DEF TypeOK, CountersOK, transport, presence

\* A new entry in the contact list.
LEMMA TypeAdd ==
    ASSUME TypeOK, NEW h \in Hosts, NEW g \in Peers, AddContact(h, g)
    PROVE  /\ contacts' \in [Hosts -> [Peers -> 0 .. MaxEntries]]
           /\ known' \in [Hosts -> SUBSET Peers]
           /\ wire' \subseteq Packets
           /\ absent' \in [Hosts -> SUBSET Hosts]
<1>1. contacts[h][g] \in Nat /\ MaxEntries \in Nat /\ contacts[h][g] < MaxEntries
  BY MessagingAssumption DEF AddContact, TypeOK
<1>2. contacts[h][g] + 1 \in 0 .. MaxEntries
  BY <1>1
<1>3. contacts' = [contacts EXCEPT ![h] = [contacts[h] EXCEPT ![g] = contacts[h][g] + 1]]
  BY DEF AddContact, TypeOK
<1>4. contacts' \in [Hosts -> [Peers -> 0 .. MaxEntries]]
  BY <1>2, <1>3 DEF TypeOK
<1>5. known' \in [Hosts -> SUBSET Peers]
  BY DEF AddContact, TypeOK
<1>6. PICK P \in SUBSET Outgoing : SendData(h, P)
  BY FetchingTyped DEF AddContact
<1> QED
  BY <1>4, <1>5, <1>6, SendDataTyped

\* The innermost question.
LEMMA TypeAnswer ==
    ASSUME TypeOK, NEW h \in Hosts, boxes[h] # <<>>
    PROVE  /\ boxes[h][Len(boxes[h])] \in Peers
           /\ SubSeq(boxes[h], 1, Len(boxes[h]) - 1) \in Seq(Peers)
<1>1. boxes[h] \in Seq(Peers)
  BY DEF TypeOK
<1>2. Len(boxes[h]) \in Nat \ {0}
  BY <1>1
<1>3. boxes[h][Len(boxes[h])] \in Peers
  BY <1>1, <1>2
<1>4. \A i \in 1 .. Len(boxes[h]) - 1 : boxes[h][i] \in Peers
  BY <1>1, <1>2
<1> QED
  BY <1>1, <1>2, <1>3, <1>4

\* The timer and the answers of the user.
LEMMA TypeAlone ==
    ASSUME TypeOK, CountersOK', NEW h \in Hosts,
           ResendControlPackets(h) \/ AnswerYes(h) \/ AnswerNo(h)
    PROVE  TypeOK'
<1>1. CASE ResendControlPackets(h)
  <2>1. output[h] \in SUBSET Outgoing
    BY ControlOutgoing DEF TypeOK
  <2> QED
    BY <1>1, <2>1, TypeSend DEF ResendControlPackets
<1>2. CASE boxes[h] # <<>> /\ boxes' = [boxes EXCEPT ![h] = SubSeq(@, 1, Len(@) - 1)]
  <2>1. boxes' \in [Hosts -> Seq(Peers)] /\ boxes[h][Len(boxes[h])] \in Peers
    BY <1>2, TypeAnswer DEF TypeOK
  <2>2. CASE AnswerYes(h)
    BY <2>1, <2>2, TypeAdd DEF AnswerYes, TypeOK, CountersOK, transport, control
  <2>3. CASE AnswerNo(h)
    BY <2>1, <2>3 DEF AnswerNo, TypeOK, CountersOK, transport, presence, control
  <2>4. AnswerYes(h) \/ AnswerNo(h) \/ ResendControlPackets(h)
    OBVIOUS
  <2> QED
    BY <1>1, <2>2, <2>3, <2>4
<1> QED
  BY <1>1, <1>2 DEF AnswerYes, AnswerNo

\* The operations of the user.
LEMMA TypeOperation ==
    ASSUME TypeOK, CountersOK', NEW h \in Hosts,
           \/ SetStatus(h) \/ RequestAuthorization(h)
           \/ \E g \in Hosts : AddByDialog(h, g)
           \/ \E g \in Peers :
                 RemoveContact(h, g) \/ BeginChat(h, g) \/ ShowMenu(h, g) \/ SendMessage(h, g)
    PROVE  TypeOK'
<1>1. CASE SetStatus(h)
  <2>1. {PresenceNotify(h, g) : g \in Contacts(h)} \in SUBSET Outgoing
    BY Constructors, 0 \in Nat DEF Contacts
  <2> QED
    BY <1>1, <2>1, TypeSend DEF SetStatus
<1>2. CASE RequestAuthorization(h)
  <2>1. PICK g \in menu[h] : SendControl(h, "authorization", g)
    BY <1>2 DEF RequestAuthorization
  <2>2. g \in Peers /\ "authorization" \in ControlKinds
        /\ menu' \in [Hosts -> SUBSET Hosts]
    BY <1>2, <2>1 DEF RequestAuthorization, TypeOK, Peers, ControlKinds
  <2> QED
    BY <1>2, <2>1, <2>2, TypeCreate DEF RequestAuthorization
<1>3. ASSUME NEW g \in Hosts, AddByDialog(h, g)
      PROVE  TypeOK'
  <2>1. g \in Peers
    BY DEF Peers
  <2> QED
    BY <1>3, <2>1, TypeAdd DEF AddByDialog, TypeOK, CountersOK, transport, control, gui
<1>4. ASSUME NEW g \in Peers, RemoveContact(h, g)
      PROVE  TypeOK'
  <2>1. contacts[h][g] \in Nat /\ contacts[h][g] > 0 /\ contacts[h][g] <= MaxEntries
        /\ MaxEntries \in Nat
    BY <1>4, MessagingAssumption DEF RemoveContact, TypeOK
  <2>2. contacts[h][g] - 1 \in 0 .. MaxEntries
    BY <2>1
  <2>3. contacts' = [contacts EXCEPT ![h] = [contacts[h] EXCEPT ![g] = contacts[h][g] - 1]]
    BY <1>4 DEF RemoveContact, TypeOK
  <2>4. contacts' \in [Hosts -> [Peers -> 0 .. MaxEntries]]
    BY <2>2, <2>3 DEF TypeOK
  <2> QED
    BY <1>4, <2>4 DEF RemoveContact, TypeOK, CountersOK, transport, control, gui
<1>5. ASSUME NEW g \in Peers, BeginChat(h, g)
      PROVE  TypeOK'
  <2>1. PICK P \in SUBSET Outgoing : SendData(h, P)
    BY <1>5, RefreshingTyped DEF BeginChat
  <2>2. wire' \subseteq Packets /\ absent' \in [Hosts -> SUBSET Hosts]
    BY <2>1, SendDataTyped
  <2>3. windows' \in [Hosts -> SUBSET Peers]
    BY <1>5 DEF BeginChat, ChatFor, TypeOK
  <2>4. UNCHANGED <<link, routes, contacts, known, authorized, output, drawn, sent, handled,
                    menu, boxes, life>>
    BY <1>5 DEF BeginChat, transport, presence, control
  <2> QED
    BY <2>2, <2>3, <2>4 DEF TypeOK, CountersOK
<1>6. ASSUME NEW g \in Peers, ShowMenu(h, g)
      PROVE  TypeOK'
  <2>1. PICK P \in SUBSET Outgoing : SendData(h, P)
    BY <1>6, RefreshingTyped DEF ShowMenu
  <2>2. wire' \subseteq Packets /\ absent' \in [Hosts -> SUBSET Hosts]
    BY <2>1, SendDataTyped
  <2>3. menu' \in [Hosts -> SUBSET Hosts]
    BY <1>6 DEF ShowMenu, TypeOK
  <2> QED
    BY <1>6, <2>2, <2>3 DEF ShowMenu, TypeOK, CountersOK, transport, presence, control
<1>7. ASSUME NEW g \in Peers, SendMessage(h, g)
      PROVE  TypeOK'
  <2>1. "message" \in ControlKinds /\ menu' \in [Hosts -> SUBSET Hosts]
    BY <1>7 DEF SendMessage, ControlKinds, TypeOK, gui
  <2> QED
    BY <1>7, <2>1, TypeCreate DEF SendMessage, gui
<1> QED
  BY <1>1, <1>2, <1>3, <1>4, <1>5, <1>6, <1>7

LEMMA TypeStep ==
    ASSUME TypeOK, [Next]_vars
    PROVE  TypeOK'
<1>1. CASE UNCHANGED vars
  BY <1>1 DEF vars, counters, transport, presence, control, gui, TypeOK
<1>2. ASSUME NEW h \in Hosts, Proceed(h)
      PROVE  TypeOK'
  <2>1. CountersOK'
    BY <1>2 DEF Proceed, counters, CountersOK, TypeOK
  <2> QED
    BY <1>2, <2>1, TypeLink, TypeHandler, TypeAlone DEF Proceed
<1>3. ASSUME NEW h \in Hosts, Disturb(h)
      PROVE  TypeOK'
  <2>1. CountersOK'
    BY <1>3, MessagingAssumption DEF Disturb, CountersOK, TypeOK
  <2> QED
    BY <1>3, <2>1, TypeLink DEF Disturb
<1>4. ASSUME NEW h \in Hosts, Operate(h)
      PROVE  TypeOK'
  <2>1. CountersOK'
    BY <1>4, MessagingAssumption DEF Operate, CountersOK, TypeOK
  <2> QED
    BY <1>4, <2>1, TypeOperation DEF Operate
<1> QED
  BY <1>1, <1>2, <1>3, <1>4 DEF Next

\* The state of the messengers is well typed, the null address of senders without a
\* route included.
THEOREM TypeCorrect == Spec => []TypeOK
<1>1. Init => TypeOK
  <2> SUFFICES ASSUME Init
               PROVE  TypeOK
    OBVIOUS
  <2>1. boxes \in [Hosts -> Seq(Peers)]
    BY DEF Init
  <2>2. contacts \in [Hosts -> [Peers -> 0 .. MaxEntries]]
    <3>1. 0 \in 0 .. MaxEntries /\ 1 \in 0 .. MaxEntries
      BY MessagingAssumption
    <3> QED
      BY <3>1 DEF Init
  <2>3. known \in [Hosts -> SUBSET Peers]
    BY MessagingAssumption DEF Init, Peers
  <2> QED
    BY <2>1, <2>2, <2>3, MessagingAssumption DEF Init, TypeOK
<1> QED
  BY <1>1, TypeStep, PTL DEF Spec

-----------------------------------------------------------------------------
(* Consent. *)

\* Contacts have been known, and notices went to hosts that were.
ConsentInv ==
    /\ AuthorizedByConsent
    /\ \A p \in wire : p.kind = "notify" => p.to \in known[p.from]
    /\ \A h \in Hosts : \A g \in Peers : contacts[h][g] > 0 => g \in known[h]

\* The packets that h adds are requests, and notices to hosts it has known.
News(h) ==
    \A q \in wire' :
        \/ q \in wire
        \/ q.from = h /\ q.kind = "request"
        \/ q.from = h /\ q.kind = "notify" /\ q.to \in known'[h]

\* What a step does that is about presence, contacts or routes only.
Presence(h) ==
    /\ News(h)
    /\ \A k \in Hosts : known[k] \subseteq known'[k]
    /\ \A k \in Hosts : \A g \in Peers : contacts'[k][g] > 0 => g \in known'[k]
    /\ UNCHANGED <<control, life>>

\* Requests to anybody and notices to known hosts are News.
LEMMA NewsSent ==
    ASSUME TypeOK, NEW h \in Hosts, NEW P,
           \A q \in P : \/ \E g \in Peers : q = PresenceRequest(h, g)
                        \/ \E g \in Peers : g \in known'[h] /\ q = PresenceNotify(h, g),
           SendData(h, P)
    PROVE  News(h)
<1>1. \A g \in Peers : PresenceRequest(h, g).from = h /\ PresenceRequest(h, g).kind = "request"
  BY DEF PresenceRequest, Packet
<1>2. \A g \in Peers : PresenceNotify(h, g).from = h /\ PresenceNotify(h, g).kind = "notify"
                     /\ PresenceNotify(h, g).to = g
  BY DEF PresenceNotify, Packet
<1>3. wire' \subseteq wire \cup P
  BY DEF SendData
<1> QED
  BY <1>1, <1>2, <1>3 DEF News

\* Steps of the link layer and of handlers that are about presence.
LEMMA PresenceBelow ==
    ASSUME TypeOK, ConsentInv, NEW h \in Hosts,
           \/ Joining(h) \/ Joined(h) \/ JoinFailed(h) \/ Leave(h) \/ Lose(h)
           \/ \E g \in Hosts : RouteAdded(h, g) \/ RouteRemoved(h, g)
           \/ \E p \in wire : HandlePresenceRequest(h, p) \/ HandlePresenceNotify(h, p)
    PROVE  Presence(h)
<1> USE DEF presence
<1>1. UNCHANGED <<contacts, known, control, life>>
  BY DEF Joining, Joined, JoinFailed, Leave, Lose, RouteAdded, RouteRemoved,
     HandlePresenceRequest, HandlePresenceNotify
<1>2. \A k \in Hosts : \A g \in Peers : contacts[k][g] > 0 => g \in known'[k]
  BY <1>1 DEF ConsentInv
<1>3. CASE wire' \subseteq wire
  BY <1>1, <1>2, <1>3 DEF Presence, News
<1>4. CASE Joined(h)
  <2>1. \A q \in Fetching(h, Contacts(h)) :
           \/ \E g \in Peers : q = PresenceRequest(h, g)
           \/ \E g \in Peers : g \in known'[h] /\ q = PresenceNotify(h, g)
    BY <1>2 DEF Fetching, Contacts, HasAddress
  <2>2. News(h)
    BY <1>4, <2>1, NewsSent DEF Joined
  <2> QED
    BY <1>1, <1>2, <2>2 DEF Presence
<1>5. ASSUME NEW g \in Hosts, RouteRemoved(h, g)
      PROVE  Presence(h)
  <2>1. g \in Peers
    BY DEF Peers
  <2>2. wire' \subseteq wire \cup {PresenceRequest(h, g)}
    BY <1>5, <2>1, RefreshingTyped DEF RouteRemoved
  <2>3. PresenceRequest(h, g).from = h /\ PresenceRequest(h, g).kind = "request"
    BY DEF PresenceRequest, Packet
  <2>4. News(h)
    BY <2>2, <2>3 DEF News
  <2> QED
    BY <1>1, <1>2, <2>4 DEF Presence
<1>6. ASSUME NEW p \in wire, HandlePresenceRequest(h, p)
      PROVE  Presence(h)
  <2>1. Sender(h, p) \in Peers /\ Sender(h, p) \in known'[h]
    BY <1>2, <1>6, SenderTyped DEF HandlePresenceRequest, HasAddress
  <2>2. News(h)
    BY <1>6, <2>1, NewsSent DEF HandlePresenceRequest
  <2> QED
    BY <1>1, <1>2, <2>2 DEF Presence
<1>7. ASSUME NEW p \in wire, HandlePresenceNotify(h, p)
      PROVE  Presence(h)
  <2>1. Sender(h, p) \in Peers
    BY SenderTyped
  <2>2. PICK P \in SUBSET {PresenceRequest(h, Sender(h, p))} : SendData(h, P)
    BY <1>7, <2>1, RefreshingTyped DEF HandlePresenceNotify
  <2>3. News(h)
    BY <2>1, <2>2, NewsSent
  <2> QED
    BY <1>1, <1>2, <2>3 DEF Presence
<1> QED
  BY <1>3, <1>4, <1>5, <1>6, <1>7 DEF Joining, JoinFailed, Leave, Lose, RouteAdded

\* A new contact.
LEMMA PresenceAdd ==
    ASSUME TypeOK, ConsentInv, NEW h \in Hosts, NEW g \in Peers, AddContact(h, g),
           UNCHANGED <<control, life>>
    PROVE  Presence(h)
<1>1. g \in known'[h] /\ \A k \in Hosts : known[k] \subseteq known'[k]
  BY DEF AddContact, TypeOK
<1>2. \A k \in Hosts : \A x \in Peers : contacts'[k][x] > 0 => x \in known'[k]
  <2>1. \A k \in Hosts : \A x \in Peers : k # h \/ x # g => contacts'[k][x] = contacts[k][x]
    BY DEF AddContact, TypeOK
  <2> QED
    BY <1>1, <2>1 DEF ConsentInv
<1>3. PICK P \in SUBSET Fetching(h, {g}) : SendData(h, P)
  BY DEF AddContact
<1>4. News(h)
  BY <1>1, <1>3, NewsSent DEF Fetching
<1> QED
  BY <1>1, <1>2, <1>4 DEF Presence

\* Operations of the user that are about presence.
LEMMA PresenceAbove ==
    ASSUME TypeOK, ConsentInv, NEW h \in Hosts,
           \/ AnswerYes(h) \/ AnswerNo(h) \/ SetStatus(h)
           \/ \E g \in Hosts : AddByDialog(h, g)
           \/ \E g \in Peers : RemoveContact(h, g) \/ BeginChat(h, g) \/ ShowMenu(h, g)
    PROVE  Presence(h)
<1> USE DEF presence
<1>1. UNCHANGED <<control, life>>
  BY DEF AnswerYes, AnswerNo, SetStatus, AddByDialog, RemoveContact, BeginChat, ShowMenu
<1>2. CASE AnswerYes(h)
  BY <1>1, <1>2, TypeAnswer, PresenceAdd DEF AnswerYes
<1>3. ASSUME NEW g \in Hosts, AddByDialog(h, g)
      PROVE  Presence(h)
  BY <1>1, <1>3, PresenceAdd DEF AddByDialog, Peers
<1>4. CASE AnswerNo(h)
  BY <1>1, <1>4 DEF AnswerNo, Presence, News, ConsentInv
<1>5. CASE SetStatus(h)
  <2>1. UNCHANGED <<known, contacts>>
    BY <1>5 DEF SetStatus
  <2>2. \A q \in {PresenceNotify(h, g) : g \in Contacts(h)} :
           \E g \in Peers : g \in known'[h] /\ q = PresenceNotify(h, g)
    BY <2>1 DEF Contacts, HasAddress, ConsentInv
  <2>3. News(h)
    BY <1>5, <2>2, NewsSent DEF SetStatus
  <2> QED
    BY <1>1, <2>1, <2>3 DEF Presence, ConsentInv
<1>6. ASSUME NEW g \in Peers, RemoveContact(h, g)
      PROVE  Presence(h)
  <2>1. UNCHANGED <<wire, known>>
        /\ contacts' = [contacts EXCEPT ![h] = [contacts[h] EXCEPT ![g] = contacts[h][g] - 1]]
        /\ contacts[h][g] > 0
    BY <1>6 DEF RemoveContact, TypeOK
  <2>2. \A k \in Hosts : \A x \in Peers : contacts'[k][x] > 0 => contacts[k][x] > 0
    BY <2>1 DEF TypeOK
  <2> QED
    BY <1>1, <2>1, <2>2 DEF Presence, News, ConsentInv
<1>7. ASSUME NEW g \in Peers, BeginChat(h, g) \/ ShowMenu(h, g)
      PROVE  Presence(h)
  <2>1. UNCHANGED <<known, contacts>>
    BY <1>7 DEF BeginChat, ShowMenu
  <2>2. PICK P \in SUBSET {PresenceRequest(h, g)} : SendData(h, P)
    BY <1>7, RefreshingTyped DEF BeginChat, ShowMenu
  <2>3. News(h)
    BY <2>2, NewsSent
  <2> QED
    BY <1>1, <2>1, <2>3 DEF Presence, ConsentInv
<1> QED
  BY <1>2, <1>3, <1>4, <1>5, <1>6, <1>7

\* A new control packet is what h adds to the wire.
LEMMA Created ==
    ASSUME TypeOK, NEW h \in Hosts,
           RequestAuthorization(h) \/ \E g \in Peers : SendMessage(h, g)
    PROVE  \E c \in ControlPackets :
              /\ c.from = h /\ c.id > drawn[h]
              /\ output' = [output EXCEPT ![h] = @ \cup {c}]
              /\ sent' = [sent EXCEPT ![h] = @ \cup {c}]
              /\ wire' \subseteq wire \cup {c}
              /\ UNCHANGED <<presence, handled, life>>
<1>1. PICK g \in Peers, kind \in ControlKinds : SendControl(h, kind, g)
  <2>1. CASE RequestAuthorization(h)
    BY <2>1 DEF RequestAuthorization, ControlKinds, TypeOK, Peers
  <2>2. CASE \E g \in Peers : SendMessage(h, g)
    BY <2>2 DEF SendMessage, ControlKinds
  <2> QED
    BY <2>1, <2>2
<1>2. PICK id \in Nat :
         LET c == ControlPacket(kind, h, g, id)
         IN  /\ id > drawn[h] /\ id <= MaxId[h]
             /\ drawn' = [drawn EXCEPT ![h] = id]
             /\ output' = [output EXCEPT ![h] = @ \cup {c}]
             /\ sent' = [sent EXCEPT ![h] = @ \cup {c}]
             /\ wire' \subseteq wire \cup {c}
             /\ wire' \subseteq Packets
             /\ absent' \in [Hosts -> SUBSET Hosts]
  BY <1>1, TypeControl
<1>3. /\ ControlPacket(kind, h, g, id) \in ControlPackets
      /\ ControlPacket(kind, h, g, id).from = h
      /\ ControlPacket(kind, h, g, id).id = id
  BY ControlTyped
<1>4. UNCHANGED <<presence, handled, life>>
  BY DEF RequestAuthorization, SendMessage
<1> DEFINE c == ControlPacket(kind, h, g, id)
<1>5. /\ c \in ControlPackets /\ c.from = h /\ c.id > drawn[h]
      /\ output' = [output EXCEPT ![h] = @ \cup {c}]
      /\ sent' = [sent EXCEPT ![h] = @ \cup {c}]
      /\ wire' \subseteq wire \cup {c}
  BY <1>2, <1>3
<1> QED
  BY <1>4, <1>5

\* The bounce of a control packet goes to its sender, or nowhere.
LEMMA Acknowledged ==
    ASSUME TypeOK, NEW h \in Hosts, NEW p \in wire,
           HandleMessage(h, p) \/ HandleAuthorization(h, p)
    PROVE  /\ \A q \in wire' : \/ q \in wire
                               \/ q.kind = "bounce" /\ q.from = h /\ q.to = p.from /\ q.id = p.id
           /\ p.kind \in ControlKinds /\ p.to = h
           /\ handled' = [handled EXCEPT ![h] = @ \cup {p}]
           /\ UNCHANGED <<presence, output, sent, drawn, life>>
<1>1. SendData(h, {ControlBounce(h, Sender(h, p), p.id)})
  BY DEF HandleMessage, HandleAuthorization
<1>2. wire' = wire \cup {q \in {ControlBounce(h, Sender(h, p), p.id)} : q.to # Null}
  BY <1>1 DEF SendData
<1>3. ControlBounce(h, Sender(h, p), p.id)
         = [kind |-> "bounce", from |-> h, to |-> Sender(h, p), id |-> p.id, life |-> 0]
  BY DEF ControlBounce, Packet
<1>4. Sender(h, p) # Null => Sender(h, p) = p.from
  BY DEF Sender
<1> QED
  BY <1>2, <1>3, <1>4 DEF HandleMessage, HandleAuthorization, ControlKinds, Arrives

\* The timer adds what is in the output queue.
LEMMA Repeated ==
    ASSUME TypeOK, NEW h \in Hosts, ResendControlPackets(h)
    PROVE  wire' \subseteq wire \cup output[h] /\ UNCHANGED <<presence, control, life>>
  BY DEF ResendControlPackets, SendData

\* The steps that preserve ConsentInv.
LEMMA ConsentKept ==
    ASSUME TypeOK, ConsentInv,
           \A k \in Hosts : known[k] \subseteq known'[k],
           \A q \in wire' : q.kind = "notify" => q \in wire \/ q.to \in known'[q.from],
           \A k \in Hosts : \A g \in Peers : contacts'[k][g] > 0 => g \in known'[k],
           \A k \in Hosts : \A g \in authorized'[k] \ {Null} :
              g \in authorized[k] \/ k \in known'[g]
    PROVE  ConsentInv'
<1>1. AuthorizedByConsent'
  <2> SUFFICES ASSUME NEW k \in Hosts, NEW g \in authorized'[k] \ {Null}
               PROVE  k \in known'[g]
    BY DEF AuthorizedByConsent
  <2>1. CASE g \in authorized[k]
    <3>1. k \in known[g] /\ g \in Hosts
      BY <2>1 DEF ConsentInv, AuthorizedByConsent, TypeOK, Peers
    <3> QED
      BY <3>1
  <2> QED
    BY <2>1
<1>2. \A q \in wire' : q.kind = "notify" => q.to \in known'[q.from]
  <2> SUFFICES ASSUME NEW q \in wire', q.kind = "notify", q \in wire
               PROVE  q.to \in known'[q.from]
    OBVIOUS
  <2>1. q.from \in Hosts /\ q.to \in known[q.from]
    BY Fields DEF ConsentInv
  <2> QED
    BY <2>1
<1> QED
  BY <1>1, <1>2 DEF ConsentInv

\* Steps of the link layer and the user.
LEMMA ConsentPresence ==
    ASSUME TypeOK, ConsentInv, NEW h \in Hosts, Presence(h),
           \A k \in Hosts : \A g \in authorized'[k] \ {Null} :
              g \in authorized[k] \/ k \in known'[g]
    PROVE  ConsentInv'
<1>1. \A q \in wire' : q.kind = "notify" => q \in wire \/ q.to \in known'[q.from]
  BY DEF Presence, News
<1> QED
  BY <1>1, ConsentKept DEF Presence

\* Steps that leave contacts alone and send no notice.
LEMMA ConsentQuiet ==
    ASSUME TypeOK, ConsentInv, UNCHANGED <<contacts, known>>,
           \A q \in wire' : q.kind = "notify" => q \in wire,
           \A k \in Hosts : authorized'[k] \subseteq authorized[k]
    PROVE  ConsentInv'
<1>1. \A k \in Hosts : \A g \in Peers : contacts'[k][g] > 0 => g \in known'[k]
  BY DEF ConsentInv
<1> QED
  BY <1>1, ConsentKept

LEMMA ConsentStep ==
    ASSUME TypeOK, ConsentInv, [Next]_vars
    PROVE  ConsentInv'
<1>1. CASE UNCHANGED vars
  BY <1>1, ConsentQuiet DEF vars, presence
<1>2. ASSUME NEW h \in Hosts,
             \/ Joining(h) \/ Joined(h) \/ JoinFailed(h) \/ Leave(h) \/ Lose(h)
             \/ \E g \in Hosts : RouteAdded(h, g) \/ RouteRemoved(h, g)
             \/ \E p \in wire : HandlePresenceRequest(h, p)
      PROVE  ConsentInv'
  <2>1. UNCHANGED authorized \/ authorized' = [authorized EXCEPT ![h] = {}]
    BY <1>2 DEF Joining, Joined, JoinFailed, Leave, Lose, RouteAdded, RouteRemoved,
       HandlePresenceRequest, presence
  <2>2. \A k \in Hosts : authorized'[k] \subseteq authorized[k]
    <3>1. authorized \in [Hosts -> SUBSET Peers]
      BY DEF TypeOK
    <3>2. CASE authorized' = [authorized EXCEPT ![h] = {}]
      BY <3>1, <3>2
    <3> QED
      BY <2>1, <3>2
  <2> QED
    BY <1>2, <2>2, PresenceBelow, ConsentPresence
<1>3. ASSUME NEW h \in Hosts, NEW p \in wire, HandlePresenceNotify(h, p)
      PROVE  ConsentInv'
  <2>1. Presence(h)
    BY <1>3, PresenceBelow
  <2>2. p.to = h /\ p.from \in Hosts /\ p.to \in known[p.from]
    BY <1>3, Fields DEF HandlePresenceNotify, Arrives, ConsentInv
  <2>3. Sender(h, p) = Null \/ h \in known'[Sender(h, p)]
    BY <2>1, <2>2 DEF Sender, Presence
  <2>4. \A k \in Hosts : \A g \in authorized'[k] \ {Null} :
           g \in authorized[k] \/ k \in known'[g]
    BY <1>3, <2>3 DEF HandlePresenceNotify, TypeOK
  <2> QED
    BY <2>1, <2>4, ConsentPresence
<1>4. ASSUME NEW h \in Hosts,
             \/ AnswerYes(h) \/ AnswerNo(h) \/ SetStatus(h)
             \/ \E g \in Hosts : AddByDialog(h, g)
             \/ \E g \in Peers : RemoveContact(h, g) \/ BeginChat(h, g) \/ ShowMenu(h, g)
      PROVE  ConsentInv'
  <2>1. UNCHANGED authorized
    BY <1>4 DEF AnswerYes, AnswerNo, SetStatus, AddByDialog, RemoveContact, BeginChat, ShowMenu,
       presence
  <2> QED
    BY <1>4, <2>1, PresenceAbove, ConsentPresence
<1>5. ASSUME NEW h \in Hosts, ResendControlPackets(h)
      PROVE  ConsentInv'
  <2>1. \A q \in output[h] : q.kind # "notify"
    <3>1. output[h] \subseteq ControlPackets
      BY DEF TypeOK
    <3> QED
      BY <3>1 DEF ControlPackets, ControlKinds
  <2> QED
    BY <1>5, <2>1, Repeated, ConsentQuiet DEF presence
<1>6. ASSUME NEW h \in Hosts, NEW p \in wire, HandleMessage(h, p) \/ HandleAuthorization(h, p)
      PROVE  ConsentInv'
  <2>1. UNCHANGED presence /\ \A q \in wire' : q.kind = "notify" => q \in wire
    BY <1>6, Acknowledged
  <2> QED
    BY <2>1, ConsentQuiet DEF presence
<1>7. ASSUME NEW h \in Hosts, NEW p \in wire, HandleBounce(h, p)
      PROVE  ConsentInv'
  BY <1>7, ConsentQuiet DEF HandleBounce, presence
<1>8. ASSUME NEW h \in Hosts, RequestAuthorization(h) \/ \E g \in Peers : SendMessage(h, g)
      PROVE  ConsentInv'
  <2>1. PICK c \in ControlPackets : wire' \subseteq wire \cup {c} /\ UNCHANGED presence
    BY <1>8, Created
  <2>2. c.kind # "notify"
    BY DEF ControlPackets, ControlKinds
  <2> QED
    BY <2>1, <2>2, ConsentQuiet DEF presence
<1>9. ASSUME NEW h \in Hosts, Restart(h)
      PROVE  ConsentInv'
  <2>1. \A k \in Hosts : authorized'[k] \subseteq authorized[k]
    BY <1>9 DEF Restart, TypeOK
  <2> QED
    BY <1>9, <2>1, ConsentQuiet DEF Restart
<1> QED
  BY <1>1, <1>2, <1>3, <1>4, <1>5, <1>6, <1>7, <1>8, <1>9
     DEF Next, Proceed, Disturb, Operate, HandlePacket

\* Only who has had this host in its contact list can come to count as authorized,
\* whatever is lost, late or repeated and whoever restarts.
THEOREM ConsentCorrect == Spec => []AuthorizedByConsent
<1>1. Init => ConsentInv
  BY DEF Init, ConsentInv, AuthorizedByConsent
<1>2. ConsentInv => AuthorizedByConsent
  BY DEF ConsentInv
<1> QED
  BY <1>1, <1>2, ConsentStep, TypeCorrect, PTL DEF Spec

-----------------------------------------------------------------------------
(* Delivery. *)

\* Of a first process of h: its packets are kept or handled, its packets on the wire
\* are its own, a bounce to it is about a packet that was handled, and no id is used
\* twice.  (A second process of a host draws the same ids again.)
Kept(h) ==
    /\ \A c \in sent[h] : c \in output[h] \/ (c.to \in Hosts /\ c \in handled[c.to])
    /\ \A p \in wire : p.kind \in ControlKinds /\ p.from = h => p \in sent[h]
    /\ \A p \in wire : p.kind = "bounce" /\ p.to = h =>
          \E c \in sent[h] : c.id = p.id /\ c.to = p.from /\ c \in handled[p.from]
    /\ \A c, d \in sent[h] : c.id = d.id => c = d

KeptInv == \A h \in Hosts : life[h] = 1 => Kept(h)

\* A packet that may come on the wire as far as the first process of h goes.
Harmless(h, q) ==
    /\ q.kind \in ControlKinds /\ q.from = h => q \in sent'[h]
    /\ q.kind = "bounce" /\ q.to = h =>
          \E c \in sent'[h] : c.id = q.id /\ c.to = q.from /\ c \in handled'[q.from]

\* Packets on the wire stay what they are.
LEMMA StillHarmless ==
    ASSUME TypeOK, NEW h \in Hosts, Kept(h), NEW p \in wire,
           sent[h] \subseteq sent'[h],
           \A k \in Hosts : handled[k] \subseteq handled'[k]
    PROVE  Harmless(h, p)
<1>1. p.from \in Hosts
  BY Fields
<1> QED
  BY <1>1 DEF Kept, Harmless

\* Steps that leave the queue of h alone.
LEMMA KeptQuiet ==
    ASSUME TypeOK, NEW h \in Hosts, Kept(h),
           sent'[h] = sent[h], output'[h] = output[h],
           \A k \in Hosts : handled[k] \subseteq handled'[k],
           \A q \in wire' : q \in wire \/ Harmless(h, q)
    PROVE  Kept(h)'
<1>1. \A q \in wire' : Harmless(h, q)
  BY StillHarmless
<1>2. \A c \in sent'[h] : c \in output'[h] \/ (c.to \in Hosts /\ c \in handled'[c.to])
  BY DEF Kept
<1>3. \A c, d \in sent'[h] : c.id = d.id => c = d
  BY DEF Kept
<1> QED
  BY <1>1, <1>2, <1>3 DEF Kept, Harmless

\* Requests and notices are no concern of any queue.
LEMMA KeptPresence ==
    ASSUME TypeOK, KeptInv, NEW h \in Hosts, Presence(h)
    PROVE  KeptInv'
<1> SUFFICES ASSUME NEW k \in Hosts, life[k] = 1
             PROVE  Kept(k)'
  BY DEF KeptInv, Presence
<1>1. \A q \in wire' : q \in wire \/ Harmless(k, q)
  BY DEF Presence, News, Harmless, ControlKinds
<1>2. UNCHANGED <<sent, output, handled>> /\ Kept(k)
  BY DEF Presence, control, KeptInv
<1> QED
  BY <1>1, <1>2, KeptQuiet

LEMMA KeptResend ==
    ASSUME TypeOK, KeptInv, NEW h \in Hosts, ResendControlPackets(h)
    PROVE  KeptInv'
<1>1. wire' \subseteq wire \cup output[h] /\ UNCHANGED <<sent, output, handled, life>>
  BY Repeated DEF control
<1> SUFFICES ASSUME NEW k \in Hosts, life[k] = 1
             PROVE  Kept(k)'
  BY <1>1 DEF KeptInv
<1>2. \A q \in output[h] : q \in sent'[q.from] /\ q.kind # "bounce"
  <2>1. output[h] \subseteq ControlPackets /\ output[h] \subseteq sent[h]
        /\ \A q \in sent[h] : q.from = h
    BY DEF TypeOK
  <2> QED
    BY <1>1, <2>1 DEF ControlPackets, ControlKinds
<1>3. \A q \in wire' : q \in wire \/ Harmless(k, q)
  BY <1>1, <1>2 DEF Harmless
<1>4. Kept(k)
  BY DEF KeptInv
<1> QED
  BY <1>1, <1>3, <1>4, KeptQuiet

\* A packet is handled and bounced.
LEMMA KeptHandled ==
    ASSUME TypeOK, KeptInv, NEW h \in Hosts, NEW p \in wire,
           HandleMessage(h, p) \/ HandleAuthorization(h, p)
    PROVE  KeptInv'
<1>1. /\ \A q \in wire' : \/ q \in wire
                          \/ q.kind = "bounce" /\ q.from = h /\ q.to = p.from /\ q.id = p.id
      /\ p.kind \in ControlKinds /\ p.to = h
      /\ handled' = [handled EXCEPT ![h] = @ \cup {p}]
      /\ UNCHANGED <<output, sent, life>>
  BY Acknowledged
<1> SUFFICES ASSUME NEW k \in Hosts, life[k] = 1
             PROVE  Kept(k)'
  BY <1>1 DEF KeptInv
<1>2. Kept(k)
  BY DEF KeptInv
<1>3. p \in handled'[h] /\ \A j \in Hosts : handled[j] \subseteq handled'[j]
  BY <1>1 DEF TypeOK
<1>4. p.from = k => p \in sent'[k]
  BY <1>1, <1>2 DEF Kept
<1>5. \A q \in wire' : q \in wire \/ Harmless(k, q)
  <2> SUFFICES ASSUME NEW q \in wire', q \notin wire
               PROVE  Harmless(k, q)
    OBVIOUS
  <2>1. q.kind = "bounce" /\ q.from = h /\ q.to = p.from /\ q.id = p.id
    BY <1>1
  <2>2. q.kind \notin ControlKinds
    BY <2>1 DEF ControlKinds
  <2> QED
    BY <1>1, <1>3, <1>4, <2>1, <2>2 DEF Harmless
<1> QED
  BY <1>1, <1>2, <1>3, <1>5, KeptQuiet

\* A bounce removes only what was handled: its id tells the packet.
LEMMA KeptBounce ==
    ASSUME TypeOK, KeptInv, NEW h \in Hosts, NEW p \in wire, HandleBounce(h, p)
    PROVE  KeptInv'
<1>1. /\ p.to = h /\ p.kind = "bounce"
      /\ output' = [output EXCEPT ![h] = @ \ Bounced(h, p)]
      /\ UNCHANGED <<wire, sent, handled, life>>
  BY DEF HandleBounce, Arrives
<1> SUFFICES ASSUME NEW k \in Hosts, life[k] = 1
             PROVE  Kept(k)'
  BY <1>1 DEF KeptInv
<1>2. Kept(k)
  BY DEF KeptInv
<1>3. CASE k # h
  <2>1. output'[k] = output[k]
    BY <1>1, <1>3 DEF TypeOK
  <2> QED
    BY <1>1, <1>2, <2>1, KeptQuiet
<1>4. CASE k = h
  <2>1. PICK c \in sent[h] : c.id = p.id /\ c.to = p.from /\ c \in handled[p.from]
    BY <1>1, <1>2, <1>4 DEF Kept
  <2>2. \A d \in Bounced(h, p) : d = c
    BY <1>2, <1>4, <2>1 DEF Bounced, Kept, TypeOK
  <2>3. c.to \in Hosts /\ c \in handled[c.to]
    BY <2>1, Fields
  <2>4. output'[h] = output[h] \ Bounced(h, p)
    BY <1>1 DEF TypeOK
  <2>5. \A d \in sent[h] : d \in output'[h] \/ (d.to \in Hosts /\ d \in handled[d.to])
    BY <1>2, <1>4, <2>2, <2>3, <2>4 DEF Kept
  <2> QED
    BY <1>1, <1>2, <1>4, <2>5 DEF Kept
<1> QED
  BY <1>3, <1>4

\* A new packet has a new id.
LEMMA KeptCreated ==
    ASSUME TypeOK, KeptInv, NEW h \in Hosts,
           RequestAuthorization(h) \/ \E g \in Peers : SendMessage(h, g)
    PROVE  KeptInv'
<1>1. PICK c \in ControlPackets :
         /\ c.from = h /\ c.id > drawn[h]
         /\ output' = [output EXCEPT ![h] = @ \cup {c}]
         /\ sent' = [sent EXCEPT ![h] = @ \cup {c}]
         /\ wire' \subseteq wire \cup {c}
         /\ UNCHANGED <<presence, handled, life>>
  BY Created
<1> SUFFICES ASSUME NEW k \in Hosts, life[k] = 1
             PROVE  Kept(k)'
  BY <1>1 DEF KeptInv
<1>2. Kept(k)
  BY DEF KeptInv
<1>3. c.kind # "bounce" /\ c.id \in Nat
  BY DEF ControlPackets, ControlKinds
<1>4. c \in sent'[h]
  BY <1>1 DEF TypeOK
<1>5. \A q \in wire' : q \in wire \/ Harmless(k, q)
  BY <1>1, <1>3, <1>4 DEF Harmless
<1>6. CASE k # h
  <2>1. sent'[k] = sent[k] /\ output'[k] = output[k]
    BY <1>1, <1>6 DEF TypeOK
  <2> QED
    BY <1>1, <1>2, <1>5, <2>1, KeptQuiet
<1>7. CASE k = h
  <2>1. sent'[h] = sent[h] \cup {c} /\ output'[h] = output[h] \cup {c}
    BY <1>1 DEF TypeOK
  <2>2. \A d \in sent[h] : d.id # c.id
    <3>1. drawn[h] \in Nat /\ \A d \in sent[h] : d.id <= drawn[h] /\ d.id \in Nat
      BY DEF TypeOK, ControlPackets
    <3> QED
      BY <1>1, <1>3, <3>1
  <2>3. \A d, e \in sent'[h] : d.id = e.id => d = e
    BY <1>2, <1>7, <2>1, <2>2 DEF Kept
  <2>4. \A d \in sent'[h] : d \in output'[h] \/ (d.to \in Hosts /\ d \in handled'[d.to])
    BY <1>1, <1>2, <1>7, <2>1 DEF Kept
  <2>5. \A q \in wire' : Harmless(h, q)
    BY <1>1, <1>2, <1>5, <1>7, <2>1, StillHarmless
  <2> QED
    BY <1>7, <2>3, <2>4, <2>5 DEF Kept, Harmless
<1> QED
  BY <1>6, <1>7

\* A restart is the end of a first process.
LEMMA KeptRestart ==
    ASSUME TypeOK, KeptInv, NEW h \in Hosts, Restart(h)
    PROVE  KeptInv'
<1> SUFFICES ASSUME NEW k \in Hosts, life'[k] = 1
             PROVE  Kept(k)'
  BY DEF KeptInv
<1>1. life[h] \in Nat \ {0} /\ life'[h] = life[h] + 1
  BY DEF Restart, TypeOK
<1>2. k # h
  BY <1>1
<1>3. life[k] = 1 /\ sent'[k] = sent[k] /\ output'[k] = output[k]
      /\ UNCHANGED <<wire, handled>>
  BY <1>2 DEF Restart, TypeOK
<1>4. Kept(k)
  BY <1>3 DEF KeptInv
<1> QED
  BY <1>3, <1>4, KeptQuiet

LEMMA KeptStep ==
    ASSUME TypeOK, ConsentInv, KeptInv, [Next]_vars
    PROVE  KeptInv'
<1>1. CASE UNCHANGED vars
  BY <1>1 DEF vars, control, KeptInv, Kept
<1>2. ASSUME NEW h \in Hosts, Presence(h)
      PROVE  KeptInv'
  BY <1>2, KeptPresence
<1>3. ASSUME NEW h \in Hosts, Proceed(h)
      PROVE  KeptInv'
  BY <1>2, <1>3, PresenceBelow, PresenceAbove, KeptResend, KeptHandled, KeptBounce
     DEF Proceed, HandlePacket
<1>4. ASSUME NEW h \in Hosts, Disturb(h)
      PROVE  KeptInv'
  BY <1>2, <1>4, PresenceBelow, KeptRestart DEF Disturb
<1>5. ASSUME NEW h \in Hosts, Operate(h)
      PROVE  KeptInv'
  BY <1>2, <1>5, PresenceAbove, KeptCreated DEF Operate
<1> QED
  BY <1>1, <1>3, <1>4, <1>5 DEF Next

\* A control packet of a first process is in its output queue until the peer has
\* handled it: no bounce that is late, repeated or about another packet removes it.
THEOREM KeptCorrect == Spec => []KeptUntilHandled
<1>1. Init => KeptInv /\ ConsentInv
  BY DEF Init, KeptInv, Kept, ConsentInv, AuthorizedByConsent
<1>2. KeptInv => KeptUntilHandled
  BY DEF KeptInv, Kept, KeptUntilHandled
<1> QED
  BY <1>1, <1>2, KeptStep, ConsentStep, TypeCorrect, PTL DEF Spec

=============================================================================
