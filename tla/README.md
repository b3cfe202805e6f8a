# A verification project for Sparkle

Sparkle is a peer-to-peer overlay network over UDP. `libsparkle` is its link
layer: a host joins through a master, negotiates keys with each peer it talks
to and exchanges encrypted packets. Two programs use it. `sparkgap` carries
the Ethernet frames of a TAP device through the overlay, `sippy` is a
messenger. `lwip` is a vendored TCP/IP stack; `lwip/port` is Sparkle's own
port of it to Qt threads.

A process runs the link layer in the event loop of one thread. A handler (of a
datagram, a timer, a signal, a call of the user) runs to its end and is one
step of a model. There are two exceptions: a message box of `sippy` runs a
nested event loop in the middle of a handler, and the lwIP port has threads.

## Inventory

| part | state | operations | what makes it correct |
|---|---|---|---|
| Key negotiation (`LinkLayer.cpp`, `SparkleNode.cpp`) | per peer a record with both session keys, the peer's public key, a queue and a timer; the list `awaitingNegotiation`; the hash `cookies`; the flag `preparingForShutdown` | send a packet, handle the two key exchanges, negotiation timeout, exit, deletion of a record | no packet overtakes another, a queued packet and a shutdown do not wait for ever |
| Joining (`LinkLayer.cpp`, `UdpPacketTransport.cpp`) | `joinStep`, `joined`, `joinTimer`, `pingTimer`, ping counter and address, `joinMaster`, self node | create, join, replies of the other hosts, timeouts, `cleanup`, exit | every attempt ends, a joined network is not torn down by a stale timer or reply |
| Membership and routing (`LinkLayer.cpp`, `Router.cpp`) | routing table, roles, `queuedData` | register, route, route request, role update, exit notification, route invalidation | the network keeps a master; tables agree; queued data is sent in order |
| Slaves behind NAT (`LinkLayer.cpp`, `SparkleNode.cpp`) | real and phantom endpoints, two records of one slave, cookies | backlink redirect, tunnel route, local rewrite, keepalive | two slaves end with one session whose keys fit |
| UDP transport | the bound socket | bind, close, send, receive | datagrams are lost, duplicated and reordered, and nothing may depend on it |
| Key pairs, ciphers | keys | encrypt, decrypt, generate | decryption inverts encryption |
| Mailboxes (`lwip/port`) | a queue, a mutex, two wait conditions | post, try to post, fetch, try to fetch | bounded, in order, no lost wakeup |
| sparkgap process | TAP device, ARP, signals, debug console | frames in and out, signals, quit | the process ends when it must and only then; frames go to the owner of an address |
| sippy process | connection state of the roster, lookups, presence, control packets, contacts, chat windows | connect, disconnect, quit, messages | the roster shows the state of the link layer; a message is shown once |

The parts meet in few places. The programs call `createNetwork`,
`joinNetwork`, `exitNetwork` and `sendDataPacket` of the link layer and react
to its signals `joinedNetwork`, `joinFailed` and `leavedNetwork`; the transport
closes its socket on `leavedNetwork`. Joining and membership send through
`sendEncryptedPacket`, so each of their packets may start a handshake, and a
shutdown waits for the handshakes under way. The console of `sparkgap` talks to
lwIP through mailboxes.

What is hard here, and hardly reached by a test:

* both ends of a link open a handshake at once, or one end opens a second one
  after a timeout while answers to the first are still on their way;
* a timer that fires just before the answer it waited for, replies that carry
  no attempt number;
* records deleted while pointers to them stay in lists, and handlers that go on
  after `cleanup()` has deleted what they work on;
* a process (`sippy`) that outlives its sessions although `cleanup()` does not
  reset all of the state;
* a nested event loop inside a handler;
* two records of one slave, agreed on in one and merged into the other at
  different times on the two sides;
* `wakeOne()` called after the mutex was released.

`PROJECT.json` lists them line by line under `hazards`, with the properties
that cover them or the reason why none does yet.

## Modules

| module | models | extends |
|---|---|---|
| `SecureLink` | key negotiation and the encrypted packet path of any number of hosts | |
| `SecureChannel` | abstract specification: what a caller of `sendEncryptedPacket` may rely on | |
| `SlaveLink` | the link between two slaves: the detour over a master, and the records of a slave behind the same NAT | |
| `Join` | one process getting into a network and out of it; the link layer's side | |
| `Sparkgap` | the life of a sparkgap process around `Join` | `Join` |
| `Sippy` | the sessions of a sippy process around `Join` | `Join` |
| `Membership` | tables, roles, routes, departures and `queuedData` of the hosts of one network | |
| `Messaging` | presence, control packets, contacts and authorization of `sippy` | |
| `Mailbox` | the mailboxes of the lwIP port and their threads | |
| `SecureLinkProofs`, `SecureChannelProofs`, `SparkgapProofs`, `SlaveLinkProofs`, `MembershipProofs`, `MessagingProofs`, `MailboxProofs`, `SippyProofs` | theorems and proofs | the module they are about |
| `MCSecureLink`, `MCSlaveLink`, `MCJoin`, `MCSippy`, `MCMembership`, `MCMessaging`, `MCMailbox` | instances for TLC | |

A definition with the comment "Mutant" is a variant of the
definition that follows it, with a plausible bug. It is not used by any
specification; put in place of the original it must break the property that
`PROJECT.json` names for it. This shows that the property depends on the code.

### SecureLink and SecureChannel

State. A host `h` has one record per peer `p`. `mine[h][p]` counts the records
`h` has had for `p`; since `mySessionKey` is generated once per record the
number also names that key. `his[h][p]` is the key the peer has told, 0 before
`setHisSessionKey`, so that `his # 0` is `areKeysNegotiated()`. `queue`,
`timer`, `awaiting`, `cookies` and `preparing` are the members of the same
purpose. `accepted` and `emitted` are histories of what was given to
`sendEncryptedPacket` and what was handed to the socket.

Actions. `SendEncrypted` is `sendEncryptedPacket`: straight to the socket with
a session; otherwise the packet is queued, and the first one starts the timer
and sends a public key request. `HandlePublicKeyRequest`,
`HandlePublicKeyReply` and `HandleMalformedKey` are the branches of
`handlePublicKeyExchange`, `HandleSessionKeyExchange` and `NegotiationTimeout`
the functions of these names; both end in `Conclude`, or in `ConcludeLast` when
a shutdown waited for nothing else. `ExitNow`, `ExitLater`, `ExitUnjoined` are
`exitNetwork`. `Forget` is the deletion of a record by
`handleRouteInvalidate` or `handleExitNotification`: the pointers in
`awaitingNegotiation` and `cookies` stay, and the allocator may put the next
record in the same place (`recycled`), which is then taken for one that is
negotiating. `Crash` ends a process. The hosts in `Reuse` run `sippy`, whose
process goes on after `leavedNetwork` with the state that `cleanup()` leaves, a
stale `preparingForShutdown` included; the others run `sparkgap`, which quits.

The network. A datagram once sent stays in `pubkeys` or `sesskeys`. It may
arrive at any later time, any number of times, or never.

`SecureChannel` knows only packets, outboxes and the wire. A packet is put on
the wire at once if nothing is kept back, or kept back; an outbox is released
whole and in order or dropped whole. `SecureLink` implements it with `queue` as
the outbox and `emitted` as the wire.

### SlaveLink

A slave with a packet for another one does not begin the handshake. It sends a
plain keepalive, which opens its NAT, and a `BacklinkRedirect` to a master
(`Send`); the master sends the other slave a `Route` with `tunnelRequest`
(`Redirect`), and that one begins (`HandleTunnelRoute`), if both are behind NAT.

State. `rec[h]` is the record of the other slave that came with its route: whether
its phantom endpoint has been rewritten (`inner`), the keys, the queue, the timer,
the entry in `awaitingNegotiation`. If both are behind the same NAT, datagrams
come from the inner endpoint of the other one, which no route names; `wrapNode`
makes a second record for it, `bare[h]`. The two records have different
session keys, `"routed"` and `"bare"`. `hole[h]` says that `h`'s NAT lets datagrams
of the other one in. `nat`, `same` and `asked` choose where the two are and who
has asked for the other's route; all choices are in one run. `expired` is a
history.

The side that began finds its record by the cookie of the reply, rewrites it,
deletes the bare one and sends `LocalRewrite`, which waits in the queue for the
session. The other side has handled the handshake in its bare record;
`HandleLocalRewrite` clones the keys into the routed one (`Associated`), and neither
sends what is queued there nor stops its timer.

What is simplified. The two are slaves of one network, have sessions with a
master and keep their endpoints. A NAT has one outer endpoint for a slave and
lets in whatever comes from where the slave has sent something. Datagrams arrive in
any order or never, `MaxCopies` of them twice. Malformed keys, shutdown and the
deletion of records are in `SecureLink`.

### Join, Sparkgap and Sippy

`Join` has the actions of the link layer and no specification of its own: what
happens on `joinFailed` or `leavedNetwork` is up to the program. `signal` is the
signal the last step emitted, and the actions of `Sparkgap` and `Sippy`
conjoin a step of `Join` with the slot that is connected to the signal.

The other hosts are present through their answers. A request stays in `wire`;
`Answers(m)` is the set of everything the handlers of the other hosts may send
in answer to `m`, and any of it may arrive at any time and repeatedly. A
handshake is under way (`awaiting`), done (`session`) or given up;
`SecureLink` has its details. `master` and `masterValid` are the pointer
`joinMaster` and whether the record it points to still exists.

Two handlers do not return after a failure: `handleProtocolVersionReply` on a
version mismatch and `handlePing` on nonidentical pings. In `sparkgap` the slot
of `joinFailed` calls `exitNetwork` and the process is about to quit. In
`sippy` the slot shows a message box; when it is closed the rest of the handler
runs (`ResumeVersion`, `ResumePing`) in whatever state the process is then, and
may crash on the deleted record. `boxes` is the stack of open boxes with what
goes on after each.

`joinStep` is not initialised by the constructor; `SeemsFinished` lets
`exitNetwork` read any value before the first assignment.

### Membership

State. `nodes[h]` and `masters[h]` are the table of `h`'s router and the master
flags in it; `waiting[h]` are the addresses with packets in `queuedData`.
`status[h]` is where a host is in its life: before it joins, asking for a
master, waiting for its `RegisterReply`, in the network, gone, or ended by one
of the three ways the code has of ending a process here: `Log::fatal` for want
of a master to name (`unchosen`), `Log::fatal` of the last slave (`useless`),
and a null pointer, of the self node or of the master that `select()` did not
find (`null`). `net` holds the packets on their way.

A host is one record in the table of another. The founder may have two records
of itself: `createNetwork` makes its self node with `new`, outside `nodeSpool`
(`LinkLayer.cpp:93`), so a `Route` about the founder that reaches the founder gets
another record from `wrapNode`, and `Router::updateNode` compares pointers and
appends it. This happens when the founder asks a master for a route and the
uninitialised `length` of the request is 0. `twin` is that second record: absent, or with
or without the master flag. `Copies` and `MasterCopies` are what it adds to
`count()`, `Peers` and `MasterPeers` are what `find(ExcludeSelf)` and
`find(Master | ExcludeSelf)` return, in which the twin stands for its host. So the
founder sends packets to itself, names itself to newcomers, promotes nobody when
the other master leaves, and may send its farewell to itself; `unheard` is the history
of the last. Other hosts take their self node from `wrapNode` and have no twin:
`UpdateSelf` is the self node, `UpdateNode` any record from `wrapNode`.

Actions. One per packet handler (`HandleRegisterRequest`, `HandleRoute`,
`HandleRouteRequest`, `HandleRouteInvalidate`, `HandleExitNotification`,
`HandleRoleUpdate`, the two for finding a master) and one per call
(`CreateNetwork`, `JoinNetwork`, `SendDataPacket`, `ExitNetwork`).
`reincarnateSomeone` is the operator `Reincarnations`, used by the exit of the
last master and by the handler of a farewell.

What is simplified. All hosts have white addresses, and each has one session.
The version and ping exchange is `Join`'s, so a host goes from the answer about
its master to its registration in one step. The handshake is `SecureLink`'s, so
packets arrive in any order, at most once, or never, and a host that leaves is
gone at once. `RouteRequest.length` is sent uninitialised: the handler ignores the request, names the target, or names
the first node of the table, and the model chooses. `RouteMissing` is sent with
a size that every receiver refuses, so it has no action.

### Messaging

State. Per host the messenger's members of the same names: `contacts` counts the
entries for an address (nothing prevents a second one), `authorized` and
`absent` are the sets of peers, `output` the queue of control packets without a
bounce, `windows` the chat windows, `menu` and `boxes` what waits in a nested
event loop. `link` and `routes` are what the messenger sees of the link layer.
`Null` is the address a packet has for the messenger while its sender has no
route. `known`, `sent`, `handled` and the process number `life` are histories.

Actions. Handlers of the five kinds of packets, the five-second timer, the
user's operations (`SetStatus`, `AddByDialog`, `RemoveContact`, `BeginChat`,
`SendMessage`, `ShowMenu`, `RequestAuthorization`, the answers to a question),
and the changes from below: joining, leaving, routes that come and go, lost
packets, a restart. A handler that emits a signal includes what the connected
widgets do: `ContactWidget::refresh` calls `peerState`, which sends a presence
request for an address without a route.

The wire is a set: a packet may arrive late, several times or not at all, until
`Lose` removes it. Ids are drawn from `qrand()`, which `sippy` never seeds: a
process started again draws the same numbers. Two packets of two processes are
then the same to their receiver, and a late bounce of the first acknowledges the
second; `KeptUntilHandled` therefore speaks of the first process of a host.
Each chat window takes the first message of the input queue, whoever sent
it; which window prints a message is left out.

### Mailbox

A critical section of `Mailbox.cpp` is one step, `wakeOne()` is a step of its
own because it comes after `unlock()`, and a woken thread takes the mutex again
in a later step. `Send` and `TrySend` have different conditions in the code
(`== size`, `< size`) and in the model. `Drain` is the loop of `netconn_free`
over `sys_arch_mbox_tryfetch`, which returns 0 for a message and for none where
`lwip/doc/sys_arch.txt` has `SYS_MBOX_EMPTY`, so that the loop never ends
(`TryFetchCode`).

## Runs

| run | instance | states | shows |
|---|---|---|---|
| `link` | a host that quits when it leaves, with two packets; one that outlives its session, deletes a record or restarts, with one; two cookies, fair timers | 138 000 | `Settled`, `NoStranding`, `InOrder`, `KeyAnnounced`, `AuthBeforeSession`, `ShutdownArmed`; `ImplementsChannel`: every step is a step of the abstract channel; `QueueResolves`: a queued packet is sent or flushed; `ExitCompletes`: a shutdown ends |
| `slaves` | two slaves, with and without NAT, behind two or the same; two handshakes begun by one and one by the other, one packet each, one datagram twice, fair delivery | 134 000 | `Attended`: what waits has a timer; `TunnelSound`: the keys of the two ends fit; `TunnelArises`: a slave that asked alone gets its tunnel |
| `join_gap` | one sparkgap process, three peers, two addresses, fair timers | 3 700 | `AttemptGuarded`, `TimersMatch`, `SelfSetOnce`, `ExitHasSelf`, `SelfAddressKnown`, `JoinedUntilExit`, `AttemptEnds` |
| `sippy_roster` | one sippy process, one peer, two addresses, two lookups, one message box, fair timers and lookups | 730 000 | `ConnectedIsJoined`, `ConnectingEnds` |
| `membership` | a founder and three hosts that join; two may leave, one packet is sent to an unknown address, one operation overlaps another | 2 140 000 | `QueueWaitsForRoute`, `MastersAppointed`, `Anchored`: every host knows a master while nobody leaves; `Agreement`: operations that do not overlap leave consistent tables, with a twin or without, until the founder takes leave of its twin |
| `messaging` | two messengers, one of which has the other as a contact; three operations of the users, one disturbance, fair timer and delivery | 230 000 | `KeptUntilHandled`: nothing is dropped unhandled; `AuthorizedByConsent`; `MessagesArrive`: the output queue is emptied once two hosts stay in reach |
| `mailbox_safe` | three posters of two messages, a mailbox of one element, fair threads | 62 000 | `NoLostWakeup`, `NoStandoff`, `PostOrder`, `PostCompletes`, `MailboxEmpties` |

Each has its type invariant as well. Five runs end in a violation; each contradicts a sentence or an
assertion of the repository:

| run | what the code does | against |
|---|---|---|
| `mailbox_bound` | a poster woken from a full mailbox does not test again: two elements in a mailbox of one | `lwip/doc/sys_arch.txt`: a mailbox for maximum "size" elements |
| `mailbox_fetch` | a late `wakeOne()`, for a message already taken, wakes the next fetch, which dequeues from an empty queue | `sys_arch.txt`: blocked until a message arrives |
| `membership_choice` | a host that is still joining is asked for a master; it has no table and no self node, and exits | `LinkLayer.cpp:581`: "cannot choose master, this is probably a bug" |
| `membership_self` | the founder asks for a route and is answered with its own; it keeps a second record of itself, and announces the next newcomer to itself | `LinkLayer.cpp:193`: "attempting to send packet to myself, dropping" |
| `sippy_self` | disconnecting does not abort a lookup under way; after connect, disconnect, connect two lookups end and `createNetwork` sets a second self node | `Router.cpp:50`: `Q_ASSERT(d->self == NULL)` |

### Bounds

* `MaxPackets`: two packets in one direction are needed to see an overtaking;
  one in the other direction makes both ends open a handshake.
* `Cookies`: two per host, so that a handshake can be opened a second time
  after a timeout, and the first one's answers can still arrive.
* `MaxRecords`: with two records a record is deleted, or a process restarted,
  and the datagrams of the first record meet the second. `QueueResolves` and
  `ExitCompletes` make an exception for a record that may sit in the place of a
  deleted one (hazard at `LinkLayer.cpp:1046`).
* `MaxCookies`, `MaxSends` of `slaves`: both can open at once, time out and be asked
  again; the second handshake of one side meets datagrams of its first. `MaxCopies`
  one repeats any one datagram, at every point.
* `MaxPings`: one more than the four that are emitted in `join_gap`, so that
  pings can be counted past the end; exactly four in `sippy_roster`.
* `MaxLookups` two is what it takes for a lookup to outlive its attempt;
  `MaxBoxes` one is a nested event loop (deeper nesting repeats the pattern and
  is not in the run).
* `Hosts` of `membership`: with four hosts there are two masters and two slaves,
  so that a farewell, a promotion and a route request each have hosts that are
  concerned and one that is not. `MaxLeaves` two lets both masters leave;
  `MaxOverlaps` one lets an operation begin in the middle of another, at every
  point; `MaxData` one is a request for a route. `networkDivisor` 10 is the
  default of `sparkgap`. The newcomers are symmetric; the founder is not. These bounds
  have the case in which the founder gets its twin, the other master leaves without
  a promotion, and the founder takes leave of its twin: the slave that is left then
  knows a departed host as its only master. The premise `unheard = {}` of
  `Agreement` excludes that end and nothing before it. `membership_self` needs three
  hosts and no departure.
* `MaxWork` three is an authorization or a chat window, a message and a change
  of the contact list; `MaxFaults` one is a loss, an end of a session, or a
  restart, at every point; `MaxLives` lets `b` restart. `MaxId` one message per
  host: packets with different ids do not meet in the code.
* `MaxPosts`, `Size`: with a mailbox of one element and three posters several
  posters sleep at once, and a woken one competes with one that comes in.

`qrand()` is taken not to give the same cookie twice to one host.
`CHECK_DEADLOCK FALSE` is set everywhere because processes end and counters
have bounds.

### Fairness

A `QTimer` that was started fires unless it is stopped: weak fairness of
`NegotiationTimeout`, `JoinTimeout` and `HandshakeTimeout`, and of the failure
that `joinTimer` brings in `Sippy`. `QHostInfo::lookupHost` always calls its
slot. A thread that can take a mutex goes on, and the thread that owns a
mailbox comes back to it. In `Messaging` the repeated timer fires, and a message
or a bounce that is not lost arrives; with `MaxFaults` only finitely many are
lost, which is what a resend timer can hope for. This presumes that the link layer
can have a session between the two, that is that one of them is a master or both
are behind NAT: two slaves without NAT never get one, since the detour of
`LinkLayer.cpp:216` is answered only under the condition of line 917
(`TunnelSound`). In `SlaveLink` a datagram of each kind that can be handled is in
the end; the timers are not fair there, because `TunnelArises` is about what happens
if they do not fire too early. Nothing else is assumed about
the network, the user, or the other hosts: in the other modules no datagram
is ever promised to arrive.

## Proofs

The theorems hold for all values of the constants, not only for those of the
runs.

* `SecureLinkProofs`. `TypeCorrect` stands alone. `Settled`, `NoStranding` and
  `ShutdownArmed` follow from `LocalInv`: for each host, a record with a session
  has nothing queued and no timer (`SettledAt`), what waits has a timer or its
  record was replaced (`AttendedAt`), `awaitingNegotiation`
  points to records of this session only, deleted ones included (`TrackedAt`),
  and a host on its way out has a timer (`ArmedAt`). `TrackedAt` is what makes
  the others inductive: an entry of the list is the present record of its peer,
  which has a timer, or that record was replaced. A step changes the
  state of one host (`OtherStep`), so the induction looks at one host
  (`OwnStep`, one case per action).
* `KeyAnnouncedAlways` and `AuthBeforeSessionAlways` follow from `KeyInv`, which is
  about the datagrams sent so far, since any of them may arrive again at any time:
  a public key sent back came from a host that has the other one
  (`RepliesKnown`), a session key is requested by a host that has the peer's public
  key, after the peer has answered with it (`RequestsBacked`), a session key sent back
  answers a request of the other host (`AnswersAsked`), and no key is newer than
  its record (`KeysCurrent`). A record that was deleted once is exempt, as in the
  properties: the key it is made anew with may not be on the wire.
* `Refinement` proves that `SecureLink` implements `SecureChannel`. `LinkStep`
  maps each action to what it does to one link. `SettledAt` is needed where a
  packet goes straight to the socket: the queue is empty then.
* `SecureChannelProofs` proves `ChannelInOrder` from the channel alone;
  `InOrderAlways` carries it over through the refinement.
* `SlaveLinkProofs`. `AttendedAlways` needs that a record is on the list exactly
  as long as its timer runs. `TunnelSoundAlways`: `NatInv` says that keys are on
  the way only between hosts behind NAT. `KeysInv` is about the time before a
  negotiation times out. Then only one of the two begins: who asked for a tunnel is
  itself on the list, and a request that finds the other one on the list begins
  nothing (`SoleOpener`, and `Fits` for the requests on the way). So the one that began
  uses its routed key throughout, and the other the key of the record the
  datagrams came through, before and after `LocalRewrite` (`BeginnerAt`,
  `AnswererAt`). After a timeout both may begin, and the keys need not fit.
* `SparkgapProofs`. `ProcessInv` relates the step of a join to the timers, the
  self node, the record of the master and the requests sent so far. That a
  joined host knows its endpoint (`SelfAddressKnown`) rests on the requests: a
  registration without NAT is sent or queued only after a ping was counted, so
  its reply, however late, finds an address. The same invariant gives
  `AttemptGuarded`, `TimersMatch`, `SelfSetOnce`, `ExitHasSelf` and the action
  property `JoinedUntilExit`.
* `MembershipProofs`. `TypeCorrect` needs one more fact than its types: nobody has
  a farewell to itself on the way (`Farewell`); one to the own twin is lost with the host.
  `QueueCorrect` adds that no host keeps data for itself. `AppointmentCorrect`
  looks at all places where a table or a packet shows a master. `FounderLeadsAlways`
  (`FounderLeads` with its strengthening `Leads`) adds that the founder does not register anywhere and that a
  `RoleUpdate` only promotes: whoever shows the founder, the twin
  included, shows a master. `AnchoredAlways`
  is about the time while nobody leaves: there are no departures on the way, a
  host is registered once and unknown before that (`Enlistment`), all tables and
  packets are right about who is a master, and who waits for its reply knows a
  master or a Route that names one is on its way.
* `AgreementAlways`, in the same module, is about whole operations, so `AgreeInv` names
  the `Stage` each can be in while things are `Orderly`: no overlap, no reply that
  overtook its Routes, nobody who took leave of its twin, crashed or gave up, and at most
  `2 * networkDivisor` hosts. Nobody is in the network; or the tables are
  `Consistent` and one packet is on the way (`Asks`, `Registers`, `Requests`,
  `Leaves`); or a master has changed its table and tells the others (`Spreads`).
  In the last stage the packets arrive in any order, and `Informed` says of each
  host that whatever its table lacks, or has too much, is the subject of a packet to it.
  What a founder sends to its twin comes back to it and changes no table but the
  twin. The invariant also has the `Shape` of a small network: one host, exactly
  two masters, or the founder as the only master, with a twin that it counts as the
  second. It decides what the counts of `NewRole` and `Scarce` do: a newcomer
  becomes a master only if there was one master, and a departure leads to a promotion
  exactly if a master left and the one that is left has no twin. That the twin is never a
  slave is `Leads`. TLC checked `AgreeInv` before it was
  proved, on four hosts with `networkDivisor` 2, the limit of `Orderly`.
* `MessagingProofs`. `ConsentCorrect`: contacts have been known, and notices are
  on the wire only for hosts their sender has known (`ConsentInv`).
  `KeptCorrect`: a bounce names an id and not a packet, so `KeptInv` says of the
  first process of a host that its ids are unique, that the control packets on
  the wire that claim to be its own are, and that a bounce to it is about a
  packet the peer has handled. Then what a bounce removes from the queue is that
  packet. Most steps are about presence and leave the queues alone (`Presence`).
* `MailboxProofs`. `NoStandoff` is not inductive. `PlacesTaken` counts: while a
  poster sleeps, the messages in the queue, the posters woken and the wakeup the
  fetcher still owes together fill the mailbox. A fetch takes a message and owes
  a wakeup, the wakeup turns into a woken poster, the woken poster into a
  message. If the fetcher sleeps too it owes nothing, so there is a woken poster
  or a message, and then `NoLostWakeup` finds a poster about to wake the
  fetcher. `PostOrderAlways` is about `Stream`, what was fetched followed by what
  waits. A fetch moves a message inside the stream and leaves it as it is
  (`StreamKept`); a post appends the next number of its poster (`StreamExtends`).
* `SippyProofs`. The steps of the link layer meet states that do not arise in
  `sparkgap`, so their types are proved anew, from any well-typed state.
  `ConnectedIsJoined` is inductive with the types because each step by which the link
  layer stops being joined emits a signal the roster takes up at once, or is in
  front of a box (`LeavingSignalled`).

Assumptions: the `ASSUME`s of the modules, that is types of the bounds, that
`Posters` and the hosts of a network are finite, that its founder is one of them
and the number of hosts per master is not 0, that there is a peer and that
`NoAddress` and `Null` are none of the addresses.

Only model-checked: the liveness properties (`QueueResolves`,
`ExitCompletes`, `TunnelArises`, `AttemptEnds`, `ConnectingEnds`, `MessagesArrive`,
`PostCompletes`, `MailboxEmpties`), which are outside the reach of the prover. Every
invariant and every action property of a passing run is proved.

## Not modelled

* Third-party code: `lwip/src` (the TCP/IP stack), `libsparkle/crypto` (block
  cipher, bignum, RSA), `sippy/multimedia`. It is about nine tenths of the lines
  of the repository, so the share of all lines that the modules stand for is
  small. Its behaviour is not Sparkle's; what Sparkle expects of it is part of
  the modules that use it. Cryptography is reduced to who holds which key.
* More than two slaves behind NAT, endpoints that change while a link is up, and
  hosts behind NAT in `Membership`, whose hosts have one endpoint.
* The Ethernet layer of `sparkgap`: a filter that keeps no state but its own
  address and asks the tables of `Membership`. The lwIP dispatcher and the debug
  console: what they may do depends on when the stack calls back.
* Logging, formatting, address parsing, command line, settings and widgets.

## Plan

1. `Membership` with hosts behind NAT, and the six hosts it takes for a
   promotion while two masters are left.
