---------------------------- MODULE SippyProofs ----------------------------
(***************************************************************************)
(* Safety of the sessions of a sippy process, for any peers, addresses and *)
(* bounds.  Other than in sparkgap the steps of the link layer meet any    *)
(* state here: attempts overlap and message boxes interrupt handlers.      *)
(***************************************************************************)
EXTENDS Sippy, SequenceTheorems, TLAPS

-----------------------------------------------------------------------------
(* Types of the link layer, from any well-typed state. *)

Selves == [role : {"none", "master", "slave"}, addr : Addresses \cup {NoAddress}]

\* The fields of a reply have their types, whatever request it answers.
LEMMA ReplyTypes ==
    ASSUME TypeOK, NEW m \in Replies
    PROVE  /\ m.type = "VersionReply" => m.from \in Peers
           /\ m.type = "MasterNodeReply" => m.from \in Peers /\ m.master \in Peers
           /\ m.type = "Ping" => m.from \in Peers /\ m.addr \in Addresses
           /\ m.type = "RegisterReply" =>
                 /\ m.role \in {"master", "slave"} /\ m.nat \in BOOLEAN
                 /\ m.addr \in Addresses \cup {NoAddress}
<1>1. PICK r \in wire : m \in Answers(r)
  BY DEF Replies
<1>2. r \in Request
  BY <1>1 DEF TypeOK
<1>3. CASE r.type = "VersionRequest"
  <2>1. r.to \in Peers /\ m \in [type : {"VersionReply"}, from : {r.to}, ours : BOOLEAN]
    BY <1>1, <1>2, <1>3 DEF Answers, Request
  <2> QED
    BY <2>1
<1>4. CASE r.type = "MasterNodeRequest"
  <2>1. r.to \in Peers /\ m \in [type : {"MasterNodeReply"}, from : {r.to}, master : Peers]
    BY <1>1, <1>2, <1>4 DEF Answers, Request
  <2> QED
    BY <2>1
<1>5. CASE r.type = "PingRequest"
  <2>1. r.target \in Peers /\ m \in [type : {"Ping"}, from : {r.target}, addr : Addresses]
    BY <1>1, <1>2, <1>5 DEF Answers, Request
  <2> QED
    BY <2>1
<1>6. CASE r.type = "RegisterRequest"
  <2>1. m \in [type : {"RegisterReply"}, from : {r.to}, role : {"master", "slave"},
               nat : BOOLEAN, addr : Addresses \cup {NoAddress}]
    BY <1>1, <1>6 DEF Answers
  <2> QED
    BY <2>1
<1> QED
  BY <1>2, <1>3, <1>4, <1>5, <1>6 DEF Request

\* The tables of keys and packets, which sending changes.
Sent ==
    /\ session \subseteq Peers /\ awaiting \subseteq Peers
    /\ pending \in [Peers -> SUBSET Request]
    /\ wire \subseteq Request

LEMMA SendTypes ==
    ASSUME TypeOK, NEW p \in Peers, NEW m \in Request, SendEncrypted(p, m)
    PROVE  Sent'
<1>1. CASE p \in session
  BY <1>1 DEF TypeOK, SendEncrypted, Sent
<1>2. CASE p \notin session
  <2>1. /\ wire' = wire /\ session' = session /\ awaiting' = awaiting \cup {p}
        /\ pending' = [pending EXCEPT ![p] = @ \cup {m}]
    BY <1>2 DEF SendEncrypted
  <2>2. pending' \in [Peers -> SUBSET Request]
    BY <2>1 DEF TypeOK
  <2> QED
    BY <2>1, <2>2 DEF TypeOK, Sent
<1> QED
  BY <1>1, <1>2

\* sendRegisterRequest, to a record that exists or to a deleted one.
LEMMA RegisterTypes ==
    ASSUME TypeOK, NEW p \in Peers, NEW valid \in BOOLEAN, NEW nat \in BOOLEAN,
           Register(p, valid, nat)
    PROVE  Sent' /\ step' = "Registration"
<1> DEFINE r == [type |-> "RegisterRequest", to |-> p, nat |-> nat]
<1>1. r \in Request
  BY DEF Request
<1>2. CASE valid
  <2>1. SendEncrypted(p, r) /\ step' = "Registration"
    BY <1>2 DEF Register
  <2> HIDE DEF r
  <2> QED
    BY <1>1, <2>1, SendTypes
<1>3. CASE ~valid
  BY <1>3 DEF Register, TypeOK, Sent, keys
<1> QED
  BY <1>2, <1>3

\* cleanup() keeps the types, and so do leaving, failing and a refused createNetwork.
LEMMA CleanupTypes ==
    ASSUME TypeOK, Cleanup, bound' \in BOOLEAN, arrived' \in Nat, wire' \subseteq Request,
           signal' \in {"left", "failed", "refused"},
           UNCHANGED <<step, force, echo, preparing>>
    PROVE  TypeOK'
<1>1. /\ joined' = FALSE /\ self' \in Selves /\ overwritten' = overwritten
      /\ joinTimer' = FALSE /\ pingTimer' = FALSE /\ keepalive' = FALSE
      /\ master' = master /\ masterValid' = FALSE /\ session' = {} /\ awaiting' = {}
      /\ pending' \in [Peers -> SUBSET Request]
  BY DEF Cleanup, NoSelf, Selves
<1> QED
  BY <1>1 DEF TypeOK, Selves

\* A self node is set.
LEMMA SetSelfTypes ==
    ASSUME TypeOK, NEW role \in {"master", "slave"}, NEW addr \in Addresses \cup {NoAddress},
           SetSelf(role, addr), bound' \in BOOLEAN,
           joinTimer' \in BOOLEAN, keepalive' \in BOOLEAN,
           UNCHANGED <<force, pingTimer, arrived, echo, master, masterValid, session,
                       awaiting, pending, preparing, wire>>
    PROVE  TypeOK'
<1>1. /\ self' \in Selves /\ joined' = TRUE /\ overwritten' \in BOOLEAN
      /\ step' = "Finished" /\ signal' = "joined"
  BY DEF SetSelf, TypeOK, Selves
<1> QED
  BY <1>1 DEF TypeOK, Selves, Steps

\* The calls of the program.
LEMMA CallTypes ==
    ASSUME TypeOK,
           \/ \E addr \in Addresses : CreateNetwork(addr)
           \/ \E p \in Peers, forceBehindNAT \in BOOLEAN : JoinNetwork(p, forceBehindNAT)
           \/ CreateRefused \/ JoinRefused \/ ExitNetwork
    PROVE  TypeOK'
<1>1. ASSUME NEW addr \in Addresses, CreateNetwork(addr) PROVE TypeOK'
  <2>1. SetSelf("master", addr) /\ bound' = TRUE
    BY <1>1 DEF CreateNetwork
  <2>2. UNCHANGED <<force, joinTimer, pingTimer, keepalive, arrived, echo, master,
                    masterValid, session, awaiting, pending, preparing, wire>>
    BY <1>1 DEF CreateNetwork, timers, pings, chosen, keys
  <2>3. joinTimer' \in BOOLEAN /\ keepalive' \in BOOLEAN
    BY <2>2 DEF TypeOK
  <2> QED
    BY <2>1, <2>2, <2>3, SetSelfTypes
<1>2. ASSUME NEW p \in Peers, NEW forceBehindNAT \in BOOLEAN, JoinNetwork(p, forceBehindNAT)
      PROVE  TypeOK'
  <2>1. wire' \subseteq Request
    BY <1>2 DEF JoinNetwork, Request, TypeOK
  <2>2. /\ bound' = TRUE /\ force' = forceBehindNAT /\ step' = "VersionRequest"
        /\ joinTimer' = TRUE /\ signal' = "none"
        /\ UNCHANGED <<joined, self, overwritten, pingTimer, keepalive, arrived, echo,
                       master, masterValid, session, awaiting, pending, preparing>>
    BY <1>2 DEF JoinNetwork, place, pings, chosen, keys
  <2> QED
    BY <2>1, <2>2 DEF TypeOK, Steps
<1>3. CASE CreateRefused
  <2>1. /\ Cleanup /\ signal' = "refused"
        /\ UNCHANGED <<bound, step, force, arrived, echo, preparing, wire>>
    BY <1>3 DEF CreateRefused, pings
  <2>2. bound' \in BOOLEAN /\ arrived' \in Nat /\ wire' \subseteq Request
    BY <2>1 DEF TypeOK
  <2> QED
    BY <2>1, <2>2, CleanupTypes
<1>4. CASE JoinRefused
  BY <1>4 DEF JoinRefused, TypeOK, place, timers, pings, chosen, keys
<1>5. CASE Leave /\ wire' = wire
  <2>1. /\ Cleanup /\ bound' = FALSE /\ signal' = "left"
        /\ UNCHANGED <<step, force, arrived, echo, preparing>>
    BY <1>5 DEF Leave, pings
  <2>2. arrived' \in Nat /\ wire' \subseteq Request
    BY <1>5, <2>1 DEF TypeOK
  <2> QED
    BY <2>1, <2>2, CleanupTypes
<1>6. ASSUME NEW S \in SUBSET Peers, ExitLater(S) PROVE TypeOK'
  BY <1>6 DEF ExitLater, TypeOK, place, timers, pings, chosen
<1> QED
  BY <1>1, <1>2, <1>3, <1>4, <1>5, <1>6 DEF ExitNetwork, ExitUnjoined, ExitNow

\* The rest of handlePing and pingTimeout.
LEMMA PingedTypes ==
    ASSUME TypeOK, NEW p \in Peers, NEW valid \in BOOLEAN,
           \/ GotPinged(p, valid)
           \/ pingTimer' = FALSE /\ joinTimer' = joinTimer /\ Register(p, valid, TRUE)
           \/ UNCHANGED <<step, pingTimer, joinTimer, keys, wire>>,
           arrived' \in Nat, echo' \in Addresses \cup {NoAddress},
           master' \in Peers, masterValid' \in BOOLEAN, signal' = "none",
           UNCHANGED <<bound, force, place, keepalive, preparing>>
    PROVE  TypeOK'
<1>1. /\ Sent' /\ step' \in Steps /\ pingTimer' \in BOOLEAN /\ joinTimer' \in BOOLEAN
  <2>1. CASE GotPinged(p, valid)
    <3>1. Register(p, valid, FALSE) /\ pingTimer' = FALSE /\ joinTimer' = TRUE
      BY <2>1 DEF GotPinged
    <3> QED
      BY <3>1, RegisterTypes DEF Steps
  <2>2. CASE pingTimer' = FALSE /\ joinTimer' = joinTimer /\ Register(p, valid, TRUE)
    <3>1. Sent' /\ step' = "Registration"
      BY <2>2, RegisterTypes
    <3> QED
      BY <2>2, <3>1 DEF TypeOK, Steps
  <2>3. CASE UNCHANGED <<step, pingTimer, joinTimer, keys, wire>>
    BY <2>3 DEF TypeOK, Sent, keys
  <2> QED
    BY <2>1, <2>2, <2>3
<1> QED
  BY <1>1 DEF TypeOK, Sent, place

\* A packet is sent in a step that goes on with the join.
LEMMA RequestTypes ==
    ASSUME TypeOK, NEW p \in Peers, NEW m \in Request, SendEncrypted(p, m),
           step' \in Steps, arrived' \in Nat, echo' \in Addresses \cup {NoAddress},
           pingTimer' \in BOOLEAN, master' \in Peers, masterValid' \in BOOLEAN,
           joinTimer' = TRUE, signal' = "none",
           UNCHANGED <<bound, force, place, keepalive, preparing>>
    PROVE  TypeOK'
<1>1. Sent'
  BY SendTypes
<1> QED
  BY <1>1 DEF TypeOK, Sent, place

LEMMA VersionReplyTypes ==
    ASSUME TypeOK, NEW m \in Replies, VersionReply(m)
    PROVE  TypeOK'
<1> DEFINE r == [type |-> "MasterNodeRequest", to |-> m.from]
<1>1. m.from \in Peers
  BY ReplyTypes DEF VersionReply
<1>2. r \in Request
  BY <1>1 DEF Request
<1>3. SendEncrypted(m.from, r)
  BY DEF VersionReply
<1>4. /\ step' \in Steps /\ arrived' \in Nat /\ echo' \in Addresses \cup {NoAddress}
      /\ pingTimer' \in BOOLEAN /\ master' \in Peers /\ masterValid' \in BOOLEAN
      /\ joinTimer' = TRUE /\ signal' = "none"
      /\ UNCHANGED <<bound, force, place, keepalive, preparing>>
  BY DEF VersionReply, TypeOK, Steps, pings, chosen
<1> HIDE DEF r
<1> QED
  BY <1>1, <1>2, <1>3, <1>4, RequestTypes

LEMMA MasterNodeReplyTypes ==
    ASSUME TypeOK, NEW m \in Replies, MasterNodeReply(m)
    PROVE  TypeOK'
<1>1. m.from \in Peers /\ m.master \in Peers
  BY ReplyTypes DEF MasterNodeReply
<1>2. /\ master' \in Peers /\ masterValid' \in BOOLEAN
      /\ joinTimer' = TRUE /\ signal' = "none"
      /\ UNCHANGED <<bound, force, place, keepalive, preparing>>
  BY <1>1 DEF MasterNodeReply
<1>3. CASE force
  <2> DEFINE r == [type |-> "RegisterRequest", to |-> m.master, nat |-> TRUE]
  <2>1. r \in Request
    BY <1>1 DEF Request
  <2>2. SendEncrypted(m.master, r)
    BY <1>3 DEF MasterNodeReply
  <2>3. /\ step' \in Steps /\ arrived' \in Nat /\ echo' \in Addresses \cup {NoAddress}
        /\ pingTimer' \in BOOLEAN
    BY <1>3 DEF MasterNodeReply, TypeOK, Steps, pings
  <2> HIDE DEF r
  <2> QED
    BY <1>1, <1>2, <2>1, <2>2, <2>3, RequestTypes
<1>4. CASE ~force
  <2> DEFINE r == [type |-> "PingRequest", to |-> m.from, target |-> m.master]
  <2>1. r \in Request
    BY <1>1 DEF Request
  <2>2. SendEncrypted(m.from, r)
    BY <1>4 DEF MasterNodeReply
  <2>3. /\ step' \in Steps /\ arrived' \in Nat /\ echo' \in Addresses \cup {NoAddress}
        /\ pingTimer' \in BOOLEAN
    <3>1. step' = "AwaitingPings" /\ arrived' = 0 /\ echo' = NoAddress /\ pingTimer' = TRUE
      BY <1>4 DEF MasterNodeReply
    <3> QED
      BY <3>1 DEF Steps
  <2> HIDE DEF r
  <2> QED
    BY <1>1, <1>2, <2>1, <2>2, <2>3, RequestTypes
<1> QED
  BY <1>3, <1>4

LEMMA PingTypes ==
    ASSUME TypeOK, NEW m \in Replies, Ping(m)
    PROVE  TypeOK'
<1>1. m.from \in Peers /\ m.addr \in Addresses
  BY ReplyTypes DEF Ping, FromMaster
<1>2. /\ arrived' \in Nat /\ echo' \in Addresses \cup {NoAddress}
      /\ master' \in Peers /\ masterValid' \in BOOLEAN /\ signal' = "none"
      /\ UNCHANGED <<bound, force, place, keepalive, preparing>>
  BY <1>1 DEF Ping, TypeOK
<1>3. GotPinged(m.from, TRUE) \/ UNCHANGED <<step, pingTimer, joinTimer, keys, wire>>
  BY DEF Ping
<1> QED
  BY <1>1, <1>2, <1>3, PingedTypes

\* The handlers that use joinMaster, deleted or not.
LEMMA MasterUseTypes ==
    ASSUME TypeOK, PingTimeout \/ ResumePing
    PROVE  TypeOK'
<1>1. /\ arrived' \in Nat /\ echo' \in Addresses \cup {NoAddress}
      /\ master' \in Peers /\ masterValid' \in BOOLEAN /\ signal' = "none"
      /\ UNCHANGED <<bound, force, place, keepalive, preparing>>
  BY DEF PingTimeout, ResumePing, TypeOK, pings, chosen
<1>2. \/ GotPinged(master, masterValid)
      \/ /\ pingTimer' = FALSE /\ joinTimer' = joinTimer
         /\ Register(master, masterValid, TRUE)
      \/ UNCHANGED <<step, pingTimer, joinTimer, keys, wire>>
  BY DEF PingTimeout, ResumePing
<1>3. master \in Peers /\ masterValid \in BOOLEAN
  BY DEF TypeOK
<1> QED
  BY <1>1, <1>2, <1>3, PingedTypes

LEMMA RegisterReplyTypes ==
    ASSUME TypeOK, NEW m \in Replies, RegisterReply(m)
    PROVE  TypeOK'
<1> DEFINE addr == IF m.nat THEN m.addr ELSE echo
<1>1. /\ m.role \in {"master", "slave"} /\ m.nat \in BOOLEAN
      /\ m.addr \in Addresses \cup {NoAddress}
  BY ReplyTypes DEF RegisterReply
<1>2. addr \in Addresses \cup {NoAddress} /\ SetSelf(m.role, addr)
  BY <1>1 DEF RegisterReply, TypeOK
<1>3. /\ UNCHANGED <<bound, force, pingTimer, arrived, echo, master, masterValid, session,
                     awaiting, pending, preparing, wire>>
      /\ joinTimer' = FALSE /\ keepalive' = (m.nat \/ keepalive)
  BY DEF RegisterReply, pings, chosen, keys
<1>4. bound' \in BOOLEAN /\ joinTimer' \in BOOLEAN /\ keepalive' \in BOOLEAN
  BY <1>1, <1>3 DEF TypeOK
<1> HIDE DEF addr
<1> QED
  BY <1>1, <1>2, <1>3, <1>4, SetSelfTypes

LEMMA HandshakeTypes ==
    ASSUME TypeOK, NEW p \in Peers, HandshakeDone(p) \/ HandshakeTimeout(p)
    PROVE  TypeOK'
<1>1. wire' \subseteq Request
  BY DEF HandshakeDone, HandshakeTimeout, TypeOK
<1>2. CASE Leave
  <2>1. /\ Cleanup /\ bound' = FALSE /\ signal' = "left"
        /\ UNCHANGED <<step, force, arrived, echo, preparing>>
    BY <1>2 DEF Leave, pings
  <2>2. arrived' \in Nat
    BY <2>1 DEF TypeOK
  <2> QED
    BY <1>1, <2>1, <2>2, CleanupTypes
<1>3. CASE ~Leave
  <2>1. /\ session' \subseteq Peers /\ awaiting' \subseteq Peers
        /\ pending' = [pending EXCEPT ![p] = {}] /\ signal' = "none"
        /\ UNCHANGED <<bound, step, force, place, timers, pings, chosen, preparing>>
    BY <1>3 DEF HandshakeDone, HandshakeTimeout, TypeOK
  <2>2. pending' \in [Peers -> SUBSET Request]
    BY <2>1 DEF TypeOK
  <2> QED
    BY <1>1, <2>1, <2>2 DEF TypeOK, place, timers, pings, chosen
<1> QED
  BY <1>2, <1>3

LEMMA ProgressTypes ==
    ASSUME TypeOK, Progress
    PROVE  TypeOK'
  BY VersionReplyTypes, MasterNodeReplyTypes, PingTypes, RegisterReplyTypes, MasterUseTypes,
     HandshakeTypes DEF Progress

\* The ways in which a join fails, and the handler that goes on afterwards.
LEMMA FailureTypes ==
    ASSUME TypeOK,
           \/ JoinTimeout \/ ResumeVersion
           \/ \E m \in Replies : VersionMismatch(m) \/ PingMismatch(m)
    PROVE  TypeOK'
<1>1. CASE ResumeVersion
  BY <1>1 DEF ResumeVersion, TypeOK, Steps, place, pings, chosen, keys
<1>2. CASE ~ResumeVersion
  <2>1. /\ Cleanup /\ signal' = "failed" /\ arrived' \in Nat
        /\ UNCHANGED <<bound, step, force, echo, preparing, wire>>
    BY <1>2 DEF JoinTimeout, VersionMismatch, PingMismatch, Fail, TypeOK, pings
  <2>2. bound' \in BOOLEAN /\ wire' \subseteq Request
    BY <2>1 DEF TypeOK
  <2> QED
    BY <2>1, <2>2, CleanupTypes
<1> QED
  BY <1>1, <1>2

-----------------------------------------------------------------------------
(* The roster. *)

\* The link layer leaves a network only where the roster hears of it: in Progress and in
\* exitNetwork with leavedNetwork(), and joinedNetwork() comes with a self node.
LEMMA LeavingSignalled ==
    ASSUME Progress \/ ExitNetwork
    PROVE  /\ joined' = joined \/ signal' = "left" \/ joined' = TRUE
           /\ signal' = "joined" => joined' = TRUE
<1>1. ASSUME NEW m \in Replies, VersionReply(m) \/ MasterNodeReply(m) \/ Ping(m)
      PROVE  joined' = joined /\ signal' = "none"
  BY <1>1 DEF VersionReply, MasterNodeReply, Ping, place
<1>2. ASSUME NEW m \in Replies, RegisterReply(m) PROVE joined' = TRUE
  BY <1>2 DEF RegisterReply, SetSelf
<1>3. CASE PingTimeout
  BY <1>3 DEF PingTimeout, place
<1>4. ASSUME NEW p \in Peers, HandshakeDone(p) \/ HandshakeTimeout(p)
      PROVE  (joined' = joined /\ signal' = "none") \/ signal' = "left"
  BY <1>4 DEF HandshakeDone, HandshakeTimeout, Leave, place
<1>5. CASE ExitNetwork
  <2>1. Leave \/ \E S \in SUBSET Peers : ExitLater(S)
    BY <1>5 DEF ExitNetwork, ExitUnjoined, ExitNow
  <2>2. (joined' = joined /\ signal' = "none") \/ signal' = "left"
    BY <2>1 DEF Leave, ExitLater, place
  <2> QED
    BY <2>2
<1> QED
  BY <1>1, <1>2, <1>3, <1>4, <1>5 DEF Progress

Afters == {"nothing", "version", "ping"}

LEMMA BoxTypes ==
    ASSUME SippyTypeOK, NEW after \in Afters, ShowBox(after)
    PROVE  boxes' \in Seq(Afters) /\ Len(boxes') <= MaxBoxes /\ boxes' # <<>>
<1>1. /\ boxes \in Seq(Afters) /\ Len(boxes) < MaxBoxes /\ Len(boxes) \in Nat
      /\ boxes' = <<after>> \o boxes
  BY DEF SippyTypeOK, ShowBox, Afters
<1>2. <<after>> \in Seq(Afters) /\ Len(<<after>>) = 1
  OBVIOUS
<1>3. <<after>> \o boxes \in Seq(Afters) /\ Len(<<after>> \o boxes) = 1 + Len(boxes)
  BY <1>1, <1>2, ConcatProperties
<1> QED
  BY <1>1, <1>3, SippyAssumption

\* The roster's own variables, and what goes on after a box.
RosterOK ==
    /\ ui \in {"Disconnected", "Connecting", "Connected"}
    /\ prompt \in BOOLEAN
    /\ lookups \in 0 .. MaxLookups
    /\ boxes \in Seq(Afters) /\ Len(boxes) <= MaxBoxes
    /\ process \in {"running", "gone", "crashed"}

SippyInv == SippyTypeOK /\ ConnectedIsJoined

LEMMA SippyInvSplit == SippyInv <=> TypeOK /\ RosterOK /\ ConnectedIsJoined
  BY DEF SippyInv, SippyTypeOK, RosterOK, Afters

LEMMA SippyInvJoin ==
    ASSUME TypeOK', RosterOK', ConnectedIsJoined'
    PROVE  SippyInv'
  BY DEF SippyInv, SippyTypeOK, RosterOK, Afters

LEMMA SippyInitInv == SippyInit => SippyInv
<1> SUFFICES ASSUME SippyInit PROVE SippyInv
  OBVIOUS
<1>1. TypeOK
  BY DEF SippyInit, Init, TypeOK, Steps, NoSelf
<1>2. RosterOK
  <2>1. <<>> \in Seq(Afters) /\ Len(<<>>) = 0 /\ 0 <= MaxBoxes /\ 0 \in 0 .. MaxLookups
    BY SippyAssumption
  <2> QED
    BY <2>1 DEF SippyInit, RosterOK
<1>3. ConnectedIsJoined
  BY DEF SippyInit, ConnectedIsJoined
<1> QED
  BY <1>1, <1>2, <1>3, SippyInvSplit

\* Steps that leave the link layer alone.
LEMMA VarsKept ==
    ASSUME UNCHANGED vars
    PROVE  joined' = joined /\ (TypeOK => TypeOK')
<1>1. UNCHANGED <<bound, step, force, joined, self, overwritten, joinTimer, pingTimer,
                  keepalive, arrived, echo, master, masterValid, session, awaiting,
                  pending, preparing, signal, wire>>
  BY DEF vars, place, timers, pings, chosen, keys
<1> QED
  BY <1>1 DEF TypeOK

LEMMA UserKeeps ==
    ASSUME SippyInv, ShowPrompt \/ Connect \/ Quit \/ UNCHANGED allVars
    PROVE  SippyInv'
<1>1. TypeOK /\ RosterOK /\ ConnectedIsJoined
  BY SippyInvSplit
<1>2. UNCHANGED <<vars, boxes>>
  BY DEF ShowPrompt, Connect, Quit, allVars, rosterVars
<1>3. TypeOK' /\ joined' = joined
  BY <1>1, <1>2, VarsKept
<1>4. /\ prompt' \in BOOLEAN /\ lookups' \in 0 .. MaxLookups
      /\ ui' \in {"Disconnected", "Connecting", "Connected"}
      /\ process' \in {"running", "gone", "crashed"}
      /\ ui' = "Connected" => ui = "Connected"
  <2>1. CASE ShowPrompt
    BY <1>1, <2>1 DEF ShowPrompt, RosterOK
  <2>2. CASE Connect
    <3>1. lookups' \in 0 .. MaxLookups
      BY <1>1, <2>2, SippyAssumption DEF Connect, RosterOK
    <3> QED
      BY <1>1, <2>2, <3>1 DEF Connect, RosterOK
  <2>3. CASE Quit
    BY <1>1, <2>3 DEF Quit, rosterVars, RosterOK
  <2>4. CASE UNCHANGED allVars
    BY <1>1, <2>4 DEF allVars, rosterVars, RosterOK
  <2> QED
    BY <2>1, <2>2, <2>3, <2>4
<1>5. RosterOK'
  BY <1>1, <1>2, <1>4 DEF RosterOK
<1>6. ConnectedIsJoined'
  BY <1>1, <1>2, <1>3, <1>4 DEF ConnectedIsJoined
<1> QED
  BY <1>3, <1>5, <1>6, SippyInvJoin

LEMMA LookupKeeps ==
    ASSUME SippyInv, LookupSucceeds \/ LookupFails
    PROVE  SippyInv'
<1>1. TypeOK /\ RosterOK /\ ConnectedIsJoined
  BY SippyInvSplit
<1>2. lookups' \in 0 .. MaxLookups /\ prompt' = prompt /\ process' = process
  BY <1>1, SippyAssumption DEF LookupSucceeds, LookupFails, RosterOK
<1>3. CASE LookupSucceeds
  <2>1. TypeOK'
    BY <1>1, <1>3, CallTypes DEF LookupSucceeds
  <2>2. joined' = TRUE \/ (joined' = joined /\ signal' = "none")
    BY <1>3 DEF LookupSucceeds, CreateNetwork, SetSelf, JoinNetwork, place
  <2>3. ui' = (IF signal' = "joined" THEN "Connected" ELSE ui) /\ boxes' = boxes
    BY <1>3 DEF LookupSucceeds
  <2>4. RosterOK'
    BY <1>1, <1>2, <2>3 DEF RosterOK
  <2>5. ConnectedIsJoined'
    BY <1>1, <2>2, <2>3 DEF ConnectedIsJoined
  <2> QED
    BY <2>1, <2>4, <2>5, SippyInvJoin
<1>4. CASE LookupFails
  <2>1. TypeOK'
    BY <1>1, <1>4, CallTypes, VarsKept DEF LookupFails
  <2>2. ShowBox("nothing") /\ ui' = ui
    BY <1>4 DEF LookupFails
  <2>3. boxes' \in Seq(Afters) /\ Len(boxes') <= MaxBoxes /\ boxes' # <<>>
    BY <2>2, BoxTypes DEF Afters, SippyInv
  <2>4. RosterOK' /\ ConnectedIsJoined'
    BY <1>1, <1>2, <2>2, <2>3 DEF RosterOK, ConnectedIsJoined
  <2> QED
    BY <2>1, <2>4, SippyInvJoin
<1> QED
  BY <1>3, <1>4

LEMMA DisconnectKeeps ==
    ASSUME SippyInv, Disconnect
    PROVE  SippyInv'
<1>1. TypeOK /\ RosterOK /\ ConnectedIsJoined
  BY SippyInvSplit
<1>2. UNCHANGED <<prompt, lookups, boxes>>
  BY DEF Disconnect
<1>3. CASE ExitNetwork /\ ui' = (IF signal' = "left" THEN "Disconnected" ELSE ui)
           /\ process' = process
  <2>1. TypeOK'
    BY <1>1, <1>3, CallTypes
  <2>2. RosterOK'
    BY <1>1, <1>2, <1>3 DEF RosterOK
  <2>3. ConnectedIsJoined'
    BY <1>1, <1>2, <1>3, LeavingSignalled DEF ConnectedIsJoined
  <2> QED
    BY <2>1, <2>2, <2>3, SippyInvJoin
<1>4. CASE process' = "crashed" /\ UNCHANGED <<vars, ui>>
  <2>1. TypeOK' /\ joined' = joined
    BY <1>1, <1>4, VarsKept
  <2>2. RosterOK' /\ ConnectedIsJoined'
    BY <1>1, <1>2, <1>4, <2>1 DEF RosterOK, ConnectedIsJoined
  <2> QED
    BY <2>1, <2>2, SippyInvJoin
<1> QED
  BY <1>3, <1>4 DEF Disconnect

LEMMA EventKeeps ==
    ASSUME SippyInv, Event
    PROVE  SippyInv'
<1>1. TypeOK /\ RosterOK /\ ConnectedIsJoined
  BY SippyInvSplit
<1>2. /\ Progress /\ UNCHANGED <<prompt, lookups, boxes, process>>
      /\ signal' = "joined" => ui' = "Connected"
      /\ signal' = "left" => ui' = "Disconnected"
      /\ signal' \notin {"joined", "left"} => ui' = ui
  BY DEF Event
<1>3. TypeOK'
  BY <1>1, <1>2, ProgressTypes
<1>4. RosterOK'
  BY <1>1, <1>2 DEF RosterOK
<1>5. ConnectedIsJoined'
  BY <1>1, <1>2, LeavingSignalled DEF ConnectedIsJoined
<1> QED
  BY <1>3, <1>4, <1>5, SippyInvJoin

LEMMA FailureKeeps ==
    ASSUME SippyInv, Failure
    PROVE  SippyInv'
<1>1. TypeOK /\ RosterOK
  BY SippyInvSplit
<1>2. TypeOK'
  BY <1>1, FailureTypes DEF Failure
<1>3. PICK after \in Afters : ShowBox(after)
  BY DEF Failure, Afters
<1>4. boxes' \in Seq(Afters) /\ Len(boxes') <= MaxBoxes /\ boxes' # <<>>
  BY <1>3, BoxTypes DEF SippyInv
<1>5. RosterOK' /\ ConnectedIsJoined'
  BY <1>1, <1>4 DEF Failure, RosterOK, ConnectedIsJoined
<1> QED
  BY <1>2, <1>5, SippyInvJoin

LEMMA CloseBoxKeeps ==
    ASSUME SippyInv, CloseBox
    PROVE  SippyInv'
<1>1. TypeOK /\ RosterOK
  BY SippyInvSplit
<1>2. /\ boxes # <<>> /\ boxes' = Tail(boxes) /\ ui' = "Disconnected"
      /\ UNCHANGED <<prompt, lookups>>
  BY DEF CloseBox
<1>3. TypeOK'
  <2>1. ResumeVersion \/ ResumePing \/ UNCHANGED vars
    BY DEF CloseBox
  <2> QED
    BY <1>1, <2>1, FailureTypes, MasterUseTypes, VarsKept
<1>4. process' \in {"running", "gone", "crashed"}
  BY <1>1 DEF CloseBox, RosterOK
<1>5. boxes' \in Seq(Afters) /\ Len(boxes') <= MaxBoxes
  <2>1. Tail(boxes) \in Seq(Afters) /\ Len(Tail(boxes)) = Len(boxes) - 1
    BY <1>1, <1>2 DEF RosterOK
  <2> QED
    BY <1>1, <1>2, <2>1, SippyAssumption DEF RosterOK
<1>6. RosterOK' /\ ConnectedIsJoined'
  BY <1>1, <1>2, <1>4, <1>5 DEF RosterOK, ConnectedIsJoined
<1> QED
  BY <1>3, <1>6, SippyInvJoin

LEMMA SippyAlways == SippySpec => []SippyInv
<1>1. SippyInit => SippyInv
  BY SippyInitInv
<1>2. SippyInv /\ [SippyNext]_allVars => SippyInv'
  BY UserKeeps, LookupKeeps, DisconnectKeeps, EventKeeps, FailureKeeps, CloseBoxKeeps
     DEF SippyNext
<1> QED
  BY <1>1, <1>2, PTL DEF SippySpec

-----------------------------------------------------------------------------
(* Results. *)

\* Every reachable state of a sippy process is well typed, although the calls and replies
\* of several attempts mix and handlers go on after cleanup().
THEOREM SippyTypes == SippySpec => []SippyTypeOK
<1>1. SippyInv => SippyTypeOK
  BY DEF SippyInv
<1> QED
  BY <1>1, SippyAlways, PTL

\* The roster of sippy shows "Connected" only in a network or in front of a message box
\* that takes it back: every cleanup() of the link layer reaches connectStateChanged.
THEOREM ConnectedIsJoinedAlways == SippySpec => []ConnectedIsJoined
<1>1. SippyInv => ConnectedIsJoined
  BY DEF SippyInv
<1> QED
  BY <1>1, SippyAlways, PTL

=============================================================================
