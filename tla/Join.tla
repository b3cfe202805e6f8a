-------------------------------- MODULE Join --------------------------------
(***************************************************************************)
(* How one process gets into a network and out of it                       *)
(* (libsparkle/LinkLayer.cpp): the steps of a join with their replies,     *)
(* timers and failures, cleanup() and exitNetwork().                       *)
(*                                                                         *)
(* The module has the actions of the link layer; the programs that call it *)
(* and react to its signals are Sparkgap and Sippy.  The other hosts appear *)
(* through what they answer.  A message once sent stays available, so it   *)
(* may come late, several times, out of order or never.  A handshake (see  *)
(* SecureLink) is under way, done or given up here.                        *)
(***************************************************************************)
EXTENDS Naturals

CONSTANTS
    Peers,        \* the other hosts
    Addresses,    \* endpoints under which this host may appear to others
    NoAddress,    \* joinPing.addr = 0
    MaxPings      \* bound: pings counted after one MasterNodeReply

ASSUME JoinAssumption ==
    /\ Peers # {}
    /\ NoAddress \notin Addresses
    /\ MaxPings \in Nat

VARIABLES
    bound,        \* the socket is bound
    step,         \* joinStep; "unset" before the first assignment
    force,        \* forceBehindNAT
    joined,
    self,         \* the self node of the router
    overwritten,  \* history: setSelfNode was called with a self node in place
    joinTimer, pingTimer, keepalive,   \* the timers that are running
    arrived,      \* joinPingsArrived
    echo,         \* joinPing.addr
    master,       \* joinMaster
    masterValid,  \* the record joinMaster points to exists
    session,      \* peers with negotiated keys
    awaiting,     \* awaitingNegotiation
    pending,      \* pending[p]: packets queued for p
    preparing,    \* preparingForShutdown
    signal,       \* the signal the last step emitted
    wire          \* requests sent

timers == <<joinTimer, pingTimer, keepalive>>
place == <<joined, self, overwritten>>
pings == <<arrived, echo>>
chosen == <<master, masterValid>>
keys == <<session, awaiting, pending>>
vars == <<bound, step, force, place, timers, pings, chosen, keys, preparing, signal, wire>>

-----------------------------------------------------------------------------
Steps == {"unset", "VersionRequest", "MasterNodeRequest", "AwaitingPings",
          "Registration", "Finished"}

Request == [type : {"VersionRequest", "MasterNodeRequest"}, to : Peers]
           \cup [type : {"PingRequest"}, to : Peers, target : Peers]
           \cup [type : {"RegisterRequest"}, to : Peers, nat : BOOLEAN]

\* What the handlers of the other hosts answer: their version, any master they choose,
\* pings from the one that was named, a role, the address they see for a host behind NAT.
Answers(m) ==
    CASE m.type = "VersionRequest" ->
            [type : {"VersionReply"}, from : {m.to}, ours : BOOLEAN]
      [] m.type = "MasterNodeRequest" ->
            [type : {"MasterNodeReply"}, from : {m.to}, master : Peers]
      [] m.type = "PingRequest" -> [type : {"Ping"}, from : {m.target}, addr : Addresses]
      [] m.type = "RegisterRequest" ->
            IF m.nat THEN [type : {"RegisterReply"}, from : {m.to}, role : {"slave"},
                           nat : {TRUE}, addr : Addresses]
            ELSE [type : {"RegisterReply"}, from : {m.to}, role : {"master", "slave"},
                  nat : {FALSE}, addr : {NoAddress}]

\* Replies that may arrive: a request stays in wire, so its answers stay available.
Replies == UNION {Answers(m) : m \in wire}

NoSelf == [role |-> "none", addr |-> NoAddress]
PingsEmitted == 4

Init ==
    /\ bound = FALSE
    /\ step = "unset"
    /\ force \in BOOLEAN
    /\ joined = FALSE
    /\ self = NoSelf
    /\ overwritten = FALSE
    /\ joinTimer = FALSE /\ pingTimer = FALSE /\ keepalive = FALSE
    /\ arrived = 0
    /\ echo = NoAddress
    /\ master \in Peers /\ masterValid = FALSE
    /\ session = {} /\ awaiting = {}
    /\ pending = [p \in Peers |-> {}]
    /\ preparing = FALSE
    /\ signal = "none"
    /\ wire = {}

\* sendEncryptedPacket: sent, or queued while a handshake runs.
SendEncrypted(p, m) ==
    /\ wire' = IF p \in session THEN wire \cup {m} ELSE wire
    /\ pending' = IF p \in session THEN pending ELSE [pending EXCEPT ![p] = @ \cup {m}]
    /\ awaiting' = IF p \in session THEN awaiting ELSE awaiting \cup {p}
    /\ UNCHANGED session

\* Mutant: joinMaster is set to a null pointer.
CleanupNull ==
    /\ joined' = FALSE
    /\ self' = NoSelf
    /\ joinTimer' = FALSE /\ pingTimer' = FALSE /\ keepalive' = FALSE
    /\ master' = NoAddress /\ masterValid' = FALSE
    /\ session' = {} /\ awaiting' = {}
    /\ pending' = [p \in Peers |-> {}]
    /\ UNCHANGED overwritten

\* cleanup(): joinStep and preparingForShutdown keep their values.
Cleanup ==
    /\ joined' = FALSE
    /\ self' = NoSelf
    /\ joinTimer' = FALSE /\ pingTimer' = FALSE /\ keepalive' = FALSE
    /\ masterValid' = FALSE
    /\ session' = {} /\ awaiting' = {}
    /\ pending' = [p \in Peers |-> {}]
    /\ UNCHANGED <<overwritten, master>>

\* Mutant: leavedNetwork() is not emitted.
LeaveSilent ==
    /\ Cleanup
    /\ bound' = FALSE
    /\ signal' = "none"
    /\ UNCHANGED <<step, force, pings, preparing>>

\* cleanup() and leavedNetwork(), on which the transport closes its socket.
Leave ==
    /\ Cleanup
    /\ bound' = FALSE
    /\ signal' = "left"
    /\ UNCHANGED <<step, force, pings, preparing>>

\* Router::setSelfNode.
SetSelf(role, addr) ==
    /\ overwritten' = (overwritten \/ self # NoSelf)
    /\ self' = [role |-> role, addr |-> addr]
    /\ joined' = TRUE
    /\ step' = "Finished"
    /\ signal' = "joined"

-----------------------------------------------------------------------------
(* Calls of the program. *)

\* createNetwork on a socket that is or can be bound.
CreateNetwork(addr) ==
    /\ SetSelf("master", addr)
    /\ bound' = TRUE
    /\ UNCHANGED <<force, timers, pings, chosen, keys, preparing, wire>>

\* createNetwork on a port that is taken: setSelfNode comes before, cleanup() after.
CreateRefused ==
    /\ ~bound
    /\ Cleanup
    /\ signal' = "refused"
    /\ UNCHANGED <<bound, step, force, pings, preparing, wire>>

\* Mutant: joinTimer is not started.
JoinNetworkUntimed(p, forceBehindNAT) ==
    /\ bound' = TRUE
    /\ force' = forceBehindNAT
    /\ step' = "VersionRequest"
    /\ wire' = wire \cup {[type |-> "VersionRequest", to |-> p]}
    /\ signal' = "none"
    /\ UNCHANGED <<place, timers, pings, chosen, keys, preparing>>

\* joinNetwork on a socket that is or can be bound.
JoinNetwork(p, forceBehindNAT) ==
    /\ bound' = TRUE
    /\ force' = forceBehindNAT
    /\ step' = "VersionRequest"
    /\ joinTimer' = TRUE
    /\ wire' = wire \cup {[type |-> "VersionRequest", to |-> p]}
    /\ signal' = "none"
    /\ UNCHANGED <<place, pingTimer, keepalive, pings, chosen, keys, preparing>>

JoinRefused ==
    /\ ~bound
    /\ signal' = "refused"
    /\ UNCHANGED <<bound, step, force, place, timers, pings, chosen, keys, preparing, wire>>

\* What exitNetwork finds in joinStep; an unset one may hold anything.
SeemsFinished(b) ==
    \/ step = "Finished" /\ b
    \/ step \notin {"unset", "Finished"} /\ ~b
    \/ step = "unset" /\ b \in BOOLEAN

\* exitNetwork before the join is finished.
ExitUnjoined ==
    /\ SeemsFinished(FALSE)
    /\ Leave
    /\ UNCHANGED wire

\* exitNetwork of a joined host: its farewells go to the peers in S (one master, the
\* peers of the last master, or none).  It waits for handshakes under way.
ExitNow(S) ==
    /\ SeemsFinished(TRUE) /\ self # NoSelf
    /\ awaiting = {} /\ S \subseteq session
    /\ Leave
    /\ UNCHANGED wire

ExitLater(S) ==
    /\ SeemsFinished(TRUE) /\ self # NoSelf
    /\ awaiting # {} \/ ~(S \subseteq session)
    /\ awaiting' = awaiting \cup (S \ session)
    /\ preparing' = TRUE
    /\ signal' = "none"
    /\ UNCHANGED <<bound, step, force, place, timers, pings, chosen, session, pending,
                   wire>>

\* exitNetwork would call a method of the self node when there is none.
ExitWithoutSelf == SeemsFinished(TRUE) /\ self = NoSelf

-----------------------------------------------------------------------------
(* Replies and timeouts. *)

\* handleProtocolVersionReply.
VersionReply(m) ==
    /\ bound /\ m.type = "VersionReply" /\ step = "VersionRequest"
    /\ m.ours
    /\ step' = "MasterNodeRequest"
    /\ SendEncrypted(m.from, [type |-> "MasterNodeRequest", to |-> m.from])
    /\ joinTimer' = TRUE
    /\ signal' = "none"
    /\ UNCHANGED <<bound, force, place, pingTimer, keepalive, pings, chosen, preparing>>

\* cleanup() and joinFailed(), common to every way in which a join fails.
Fail ==
    /\ Cleanup
    /\ signal' = "failed"
    /\ UNCHANGED <<bound, step, force, preparing, wire>>

\* The version does not match.  The handler does not return: when the slots of
\* joinFailed() are through it goes on (ResumeVersion) with a record cleanup() deleted.
VersionMismatch(m) ==
    /\ bound /\ m.type = "VersionReply" /\ step = "VersionRequest"
    /\ ~m.ours
    /\ Fail
    /\ UNCHANGED pings

\* The request goes to the deleted record and is lost.
ResumeVersion ==
    /\ step' = "MasterNodeRequest"
    /\ joinTimer' = TRUE
    /\ signal' = "none"
    /\ UNCHANGED <<bound, force, place, pingTimer, keepalive, pings, chosen, keys, preparing,
                   wire>>

\* handleMasterNodeReply without and with forceBehindNAT.
MasterNodeReply(m) ==
    /\ bound /\ m.type = "MasterNodeReply" /\ m.from \in session
    /\ step = "MasterNodeRequest"
    /\ master' = m.master /\ masterValid' = TRUE
    /\ \/ /\ ~force
          /\ step' = "AwaitingPings"
          /\ echo' = NoAddress /\ arrived' = 0
          /\ pingTimer' = TRUE
          /\ SendEncrypted(m.from, [type |-> "PingRequest", to |-> m.from,
                                    target |-> m.master])
       \/ /\ force
          /\ step' = "Registration"
          /\ SendEncrypted(m.master, [type |-> "RegisterRequest", to |-> m.master,
                                      nat |-> TRUE])
          /\ UNCHANGED <<pings, pingTimer>>
    /\ joinTimer' = TRUE
    /\ signal' = "none"
    /\ UNCHANGED <<bound, force, place, keepalive, preparing>>

\* sendRegisterRequest(joinMaster), to the record of p; to a deleted one it is lost.
Register(p, valid, nat) ==
    /\ step' = "Registration"
    /\ IF valid THEN SendEncrypted(p, [type |-> "RegisterRequest", to |-> p, nat |-> nat])
                ELSE UNCHANGED <<keys, wire>>

\* Mutant: the wrong timer is stopped.
GotPingedSwapped(p, valid) ==
    /\ joinTimer' = FALSE
    /\ pingTimer' = FALSE
    /\ Register(p, valid, FALSE)

\* joinGotPinged.
GotPinged(p, valid) ==
    /\ pingTimer' = FALSE
    /\ joinTimer' = TRUE
    /\ Register(p, valid, FALSE)

\* handlePing accepts pings from joinMaster.  Once cleanup() deleted that record, the
\* sender's may have been allocated in its place.
FromMaster(m) ==
    /\ bound /\ m.type = "Ping" /\ step = "AwaitingPings"
    /\ m.from = master \/ ~masterValid
    /\ arrived < MaxPings

\* handlePing of a ping like those before it.
Ping(m) ==
    /\ FromMaster(m)
    /\ echo \in {NoAddress, m.addr}
    /\ echo' = m.addr
    /\ arrived' = arrived + 1
    /\ master' = m.from /\ masterValid' = TRUE
    /\ \/ arrived + 1 = PingsEmitted /\ GotPinged(m.from, TRUE)
       \/ /\ arrived + 1 # PingsEmitted
          /\ UNCHANGED <<step, pingTimer, joinTimer, keys, wire>>
    /\ signal' = "none"
    /\ UNCHANGED <<bound, force, place, keepalive, preparing>>

\* handlePing of a ping unlike those before it; it too goes on after joinFailed().
PingMismatch(m) ==
    /\ FromMaster(m)
    /\ echo \notin {NoAddress, m.addr}
    /\ arrived' = arrived + 1
    /\ Fail
    /\ UNCHANGED echo

\* The rest of handlePing: joinMaster is used after cleanup() deleted it.
ResumePing ==
    /\ \/ arrived = PingsEmitted /\ GotPinged(master, masterValid)
       \/ /\ arrived # PingsEmitted
          /\ UNCHANGED <<step, pingTimer, joinTimer, keys, wire>>
    /\ signal' = "none"
    /\ UNCHANGED <<bound, force, place, keepalive, pings, chosen, preparing>>

\* Mutant: no ping is taken for no NAT.
PingTimeoutIgnoresNAT ==
    /\ pingTimer
    /\ GotPinged(master, masterValid)
    /\ signal' = "none"
    /\ UNCHANGED <<bound, force, place, keepalive, pings, chosen, preparing>>

\* pingTimeout: a host that no ping reached is behind NAT.
PingTimeout ==
    /\ pingTimer
    /\ \/ /\ arrived = 0
          /\ pingTimer' = FALSE
          /\ Register(master, masterValid, TRUE)
          /\ UNCHANGED joinTimer
       \/ arrived # 0 /\ GotPinged(master, masterValid)
    /\ signal' = "none"
    /\ UNCHANGED <<bound, force, place, keepalive, pings, chosen, preparing>>

\* Mutant: joinTimer is not stopped.
RegisterReplyUnstopped(m) ==
    /\ bound /\ m.type = "RegisterReply" /\ m.from \in session
    /\ step = "Registration"
    /\ SetSelf(m.role, IF m.nat THEN m.addr ELSE echo)
    /\ keepalive' = (m.nat \/ keepalive)
    /\ UNCHANGED <<bound, force, joinTimer, pingTimer, pings, chosen, keys, preparing,
                   wire>>

\* Mutant: the reply is accepted in every step.
RegisterReplyUnchecked(m) ==
    /\ bound /\ m.type = "RegisterReply" /\ m.from \in session
    /\ SetSelf(m.role, IF m.nat THEN m.addr ELSE echo)
    /\ keepalive' = (m.nat \/ keepalive)
    /\ joinTimer' = FALSE
    /\ UNCHANGED <<bound, force, pingTimer, pings, chosen, keys, preparing, wire>>

\* handleRegisterReply; a reply with an address is for a host behind NAT.
RegisterReply(m) ==
    /\ bound /\ m.type = "RegisterReply" /\ m.from \in session
    /\ step = "Registration"
    /\ SetSelf(m.role, IF m.nat THEN m.addr ELSE echo)
    /\ keepalive' = (m.nat \/ keepalive)
    /\ joinTimer' = FALSE
    /\ UNCHANGED <<bound, force, pingTimer, pings, chosen, keys, preparing, wire>>

JoinTimeout ==
    /\ joinTimer
    /\ Fail
    /\ UNCHANGED pings

\* The handshake with p ends and was the last one a shutdown waited for.
LastHandshake(p) == preparing /\ awaiting \subseteq {p}

\* handleSessionKeyExchange: what was queued is sent.  A peer may open the handshake.
HandshakeDone(p) ==
    /\ bound
    /\ wire' = wire \cup pending[p]
    /\ \/ LastHandshake(p) /\ Leave
       \/ /\ ~LastHandshake(p)
          /\ session' = session \cup {p}
          /\ awaiting' = awaiting \ {p}
          /\ pending' = [pending EXCEPT ![p] = {}]
          /\ signal' = "none"
          /\ UNCHANGED <<bound, step, force, place, timers, pings, chosen, preparing>>

\* negotiationTimeout: what was queued is dropped.
HandshakeTimeout(p) ==
    /\ p \in awaiting
    /\ \/ LastHandshake(p) /\ Leave
       \/ /\ ~LastHandshake(p)
          /\ awaiting' = awaiting \ {p}
          /\ pending' = [pending EXCEPT ![p] = {}]
          /\ signal' = "none"
          /\ UNCHANGED <<bound, step, force, place, timers, pings, chosen, preparing,
                         session>>
    /\ UNCHANGED wire

\* Everything the event loop brings to the link layer, apart from failing replies.
Progress ==
    \/ \E m \in Replies : \/ VersionReply(m) \/ MasterNodeReply(m)
                          \/ Ping(m) \/ RegisterReply(m)
    \/ PingTimeout
    \/ \E p \in Peers : HandshakeDone(p) \/ HandshakeTimeout(p)

ExitNetwork ==
    \/ ExitUnjoined
    \/ \E S \in SUBSET Peers : ExitNow(S) \/ ExitLater(S)

-----------------------------------------------------------------------------
\* Types of the variables.
TypeOK ==
    /\ bound \in BOOLEAN
    /\ step \in Steps
    /\ force \in BOOLEAN
    /\ joined \in BOOLEAN
    /\ self \in [role : {"none", "master", "slave"}, addr : Addresses \cup {NoAddress}]
    /\ overwritten \in BOOLEAN
    /\ joinTimer \in BOOLEAN /\ pingTimer \in BOOLEAN /\ keepalive \in BOOLEAN
    /\ arrived \in Nat
    /\ echo \in Addresses \cup {NoAddress}
    /\ master \in Peers /\ masterValid \in BOOLEAN
    /\ session \subseteq Peers /\ awaiting \subseteq Peers
    /\ pending \in [Peers -> SUBSET Request]
    /\ preparing \in BOOLEAN
    /\ signal \in {"none", "joined", "failed", "left", "refused"}
    /\ wire \subseteq Request

=============================================================================
