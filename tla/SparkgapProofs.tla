--------------------------- MODULE SparkgapProofs ---------------------------
(***************************************************************************)
(* Safety of the life of a sparkgap process, for any peers and addresses.  *)
(***************************************************************************)
EXTENDS Sparkgap, TLAPS

\* A registration without NAT has been sent or queued.
Visible == [type : {"RegisterRequest"}, to : Peers, nat : {FALSE}]
Registering == \E m \in Visible : m \in wire \/ \E p \in Peers : m \in pending[p]

\* Before main() called the link layer nothing has happened.
Untouched ==
    /\ ~joined /\ self = NoSelf
    /\ ~joinTimer /\ ~pingTimer /\ ~keepalive
    /\ wire = {} /\ pending = [p \in Peers |-> {}]

\* The step, the self node and the timers of a running process agree; a process that
\* waits for pings has a master, and an endpoint once a ping has come; a registration
\* without NAT is sent after the last ping was counted.
Running ==
    /\ step # "unset"
    /\ joined <=> step = "Finished"
    /\ joined <=> self # NoSelf
    /\ joined <=> ~joinTimer
    /\ pingTimer <=> step = "AwaitingPings"
    /\ pingTimer => masterValid
    /\ keepalive => joined
    /\ joined => self.addr # NoAddress
    /\ step = "AwaitingPings" /\ arrived # 0 => echo # NoAddress
    /\ Registering => step \in {"Registration", "Finished"} /\ echo # NoAddress

ProcessInv ==
    /\ ProcessTypeOK
    /\ ~overwritten
    /\ process # "nullself"
    /\ process = "starting" => Untouched
    /\ process = "running" => Running
    /\ process = "gone" => ~joined

-----------------------------------------------------------------------------
(* Replies and sending. *)

\* What is known of a reply: its fields have their types, and a registration reply
\* without NAT answers a request without NAT.
LEMMA ReplyFacts ==
    ASSUME TypeOK, NEW m \in Replies
    PROVE  /\ m.type = "VersionReply" => m.from \in Peers
           /\ m.type = "MasterNodeReply" => m.from \in Peers /\ m.master \in Peers
           /\ m.type = "Ping" => m.from \in Peers /\ m.addr \in Addresses
           /\ m.type = "RegisterReply" =>
                 /\ m.role \in {"master", "slave"}
                 /\ m.nat \in BOOLEAN
                 /\ m.nat => m.addr \in Addresses
                 /\ ~m.nat => Registering
<1>1. PICK r \in wire : m \in Answers(r)
  BY DEF Replies
<1>2. r \in Request
  BY <1>1 DEF TypeOK
<1>3. CASE r.type = "VersionRequest"
  <2>1. m \in [type : {"VersionReply"}, from : {r.to}, ours : BOOLEAN]
    BY <1>1, <1>3 DEF Answers
  <2>2. r.to \in Peers
    BY <1>2, <1>3 DEF Request
  <2> QED
    BY <2>1, <2>2
<1>4. CASE r.type = "MasterNodeRequest"
  <2>1. m \in [type : {"MasterNodeReply"}, from : {r.to}, master : Peers]
    BY <1>1, <1>4 DEF Answers
  <2>2. r.to \in Peers
    BY <1>2, <1>4 DEF Request
  <2> QED
    BY <2>1, <2>2
<1>5. CASE r.type = "PingRequest"
  <2>1. m \in [type : {"Ping"}, from : {r.target}, addr : Addresses]
    BY <1>1, <1>5 DEF Answers
  <2>2. r.target \in Peers
    BY <1>2, <1>5 DEF Request
  <2> QED
    BY <2>1, <2>2
<1>6. CASE r.type = "RegisterRequest"
  <2>1. r \in [type : {"RegisterRequest"}, to : Peers, nat : BOOLEAN]
    BY <1>2, <1>6 DEF Request
  <2>2. CASE r.nat
    <3>1. m \in [type : {"RegisterReply"}, from : {r.to}, role : {"slave"},
                 nat : {TRUE}, addr : Addresses]
      BY <1>1, <1>6, <2>2 DEF Answers
    <3> QED
      BY <3>1
  <2>3. CASE ~r.nat
    <3>1. m \in [type : {"RegisterReply"}, from : {r.to}, role : {"master", "slave"},
                 nat : {FALSE}, addr : {NoAddress}]
      BY <1>1, <1>6, <2>3 DEF Answers
    <3>2. r \in Visible
      BY <2>1, <2>3 DEF Visible
    <3>3. Registering
      BY <1>1, <3>2 DEF Registering
    <3> QED
      BY <3>1, <3>3
  <2> QED
    BY <2>2, <2>3
<1> QED
  BY <1>2, <1>3, <1>4, <1>5, <1>6 DEF Request

\* sendEncryptedPacket keeps the types, and only its own packet can be a new
\* registration without NAT.
LEMMA SendFacts ==
    ASSUME TypeOK, NEW p \in Peers, NEW m \in Request, SendEncrypted(p, m)
    PROVE  /\ session' \subseteq Peers /\ awaiting' \subseteq Peers
           /\ pending' \in [Peers -> SUBSET Request]
           /\ wire' \subseteq Request
           /\ Registering' => Registering \/ m \in Visible
<1>1. CASE p \in session
  BY <1>1 DEF TypeOK, SendEncrypted, Registering, Visible
<1>2. CASE p \notin session
  <2>1. /\ wire' = wire /\ session' = session /\ awaiting' = awaiting \cup {p}
        /\ pending' = [pending EXCEPT ![p] = @ \cup {m}]
    BY <1>2 DEF SendEncrypted
  <2>2. pending \in [Peers -> SUBSET Request]
    BY DEF TypeOK
  <2>3. pending' \in [Peers -> SUBSET Request]
    BY <2>1, <2>2
  <2>4. \A q \in Peers : pending'[q] \subseteq pending[q] \cup {m}
    BY <2>1, <2>2
  <2>5. Registering' => Registering \/ m \in Visible
    BY <2>1, <2>4 DEF Registering, Visible
  <2> QED
    BY <2>1, <2>3, <2>5 DEF TypeOK
<1> QED
  BY <1>1, <1>2


\* cleanup() keeps the types and leaves a host that is not joined.
LEMMA CleanupFacts ==
    ASSUME TypeOK, Cleanup
    PROVE  /\ joined' = FALSE
           /\ self' \in [role : {"none", "master", "slave"}, addr : Addresses \cup {NoAddress}]
           /\ joinTimer' \in BOOLEAN /\ pingTimer' \in BOOLEAN /\ keepalive' \in BOOLEAN
           /\ master' \in Peers /\ masterValid' \in BOOLEAN
           /\ session' \subseteq Peers /\ awaiting' \subseteq Peers
           /\ pending' \in [Peers -> SUBSET Request]
           /\ overwritten' = overwritten
  BY DEF TypeOK, Cleanup, NoSelf

LEMMA LeaveFacts ==
    ASSUME TypeOK, Leave, wire' \subseteq Request
    PROVE  TypeOK' /\ ~joined' /\ overwritten' = overwritten /\ signal' = "left"
<1>1. Cleanup
  BY DEF Leave
<1> QED
  BY <1>1, CleanupFacts DEF TypeOK, Leave, pings

LEMMA FailFacts ==
    ASSUME TypeOK, Fail, arrived' \in Nat, echo' = echo
    PROVE  TypeOK' /\ ~joined' /\ overwritten' = overwritten
<1>1. Cleanup
  BY DEF Fail
<1> QED
  BY <1>1, CleanupFacts DEF TypeOK, Fail

\* A process that has left keeps the invariant.
LEMMA GoneInv ==
    ASSUME TypeOK', ~joined', ~overwritten', process' = "gone"
    PROVE  ProcessInv'
  BY DEF ProcessInv, ProcessTypeOK

LEMMA RunningInv ==
    ASSUME TypeOK', Running', ~overwritten', process' = "running"
    PROVE  ProcessInv'
  BY DEF ProcessInv, ProcessTypeOK

-----------------------------------------------------------------------------
(* One lemma per action of the link layer, for a running process. *)

LEMMA VersionReplyKeeps ==
    ASSUME ProcessInv, process = "running", NEW m \in Replies, VersionReply(m)
    PROVE  TypeOK' /\ Running' /\ overwritten' = overwritten /\ signal' # "left"
<1> DEFINE r == [type |-> "MasterNodeRequest", to |-> m.from]
<1>1. TypeOK /\ Running
  BY DEF ProcessInv, ProcessTypeOK
<1>2. m.from \in Peers
  BY <1>1, ReplyFacts DEF VersionReply
<1>3. r \in Request /\ r \notin Visible
  BY <1>2 DEF Request, Visible
<1>4. /\ session' \subseteq Peers /\ awaiting' \subseteq Peers
      /\ pending' \in [Peers -> SUBSET Request]
      /\ wire' \subseteq Request
      /\ Registering' => Registering
  <2>1. SendEncrypted(m.from, r)
    BY DEF VersionReply
  <2> HIDE DEF r
  <2> QED
    BY <1>1, <1>2, <1>3, <2>1, SendFacts
<1>5. TypeOK'
  BY <1>1, <1>4 DEF TypeOK, VersionReply, Steps, place, pings, chosen
<1>6. Running'
  BY <1>1, <1>4 DEF Running, VersionReply, place, pings, chosen, NoSelf
<1> QED
  BY <1>5, <1>6 DEF VersionReply, place

LEMMA MasterNodeReplyKeeps ==
    ASSUME ProcessInv, process = "running", NEW m \in Replies, MasterNodeReply(m)
    PROVE  TypeOK' /\ Running' /\ overwritten' = overwritten /\ signal' # "left"
<1>1. TypeOK /\ Running
  BY DEF ProcessInv, ProcessTypeOK
<1>2. m.from \in Peers /\ m.master \in Peers
  BY <1>1, ReplyFacts DEF MasterNodeReply
<1>3. CASE force
  <2> DEFINE r == [type |-> "RegisterRequest", to |-> m.master, nat |-> TRUE]
  <2>1. r \in Request /\ r \notin Visible
    BY <1>2 DEF Request, Visible
  <2>2. /\ session' \subseteq Peers /\ awaiting' \subseteq Peers
        /\ pending' \in [Peers -> SUBSET Request]
        /\ wire' \subseteq Request
        /\ Registering' => Registering
    <3>1. SendEncrypted(m.master, r)
      BY <1>3 DEF MasterNodeReply
    <3> HIDE DEF r
    <3> QED
      BY <1>1, <1>2, <2>1, <3>1, SendFacts
  <2>3. TypeOK'
    BY <1>1, <1>2, <1>3, <2>2 DEF TypeOK, MasterNodeReply, Steps, place, pings
  <2>4. Running'
    BY <1>1, <1>3, <2>2 DEF Running, MasterNodeReply, place, pings, NoSelf
  <2> QED
    BY <2>3, <2>4 DEF MasterNodeReply, place
<1>4. CASE ~force
  <2> DEFINE r == [type |-> "PingRequest", to |-> m.from, target |-> m.master]
  <2>1. r \in Request /\ r \notin Visible
    BY <1>2 DEF Request, Visible
  <2>2. /\ session' \subseteq Peers /\ awaiting' \subseteq Peers
        /\ pending' \in [Peers -> SUBSET Request]
        /\ wire' \subseteq Request
        /\ Registering' => Registering
    <3>1. SendEncrypted(m.from, r)
      BY <1>4 DEF MasterNodeReply
    <3> HIDE DEF r
    <3> QED
      BY <1>1, <1>2, <2>1, <3>1, SendFacts
  <2>0. /\ step' = "AwaitingPings" /\ echo' = NoAddress /\ arrived' = 0
        /\ pingTimer' = TRUE /\ joinTimer' = TRUE /\ signal' = "none"
        /\ master' = m.master /\ masterValid' = TRUE
        /\ UNCHANGED <<bound, force, joined, self, overwritten, keepalive, preparing>>
    BY <1>4 DEF MasterNodeReply, place
  <2>3. TypeOK'
    BY <1>1, <1>2, <2>0, <2>2 DEF TypeOK, Steps
  <2>4. Running'
    BY <1>1, <1>4, <2>2 DEF Running, MasterNodeReply, place, NoSelf
  <2> QED
    BY <2>3, <2>4 DEF MasterNodeReply, place
<1> QED
  BY <1>3, <1>4

\* sendRegisterRequest to a record that exists.
LEMMA RegisterFacts ==
    ASSUME TypeOK, NEW p \in Peers, NEW nat \in BOOLEAN, Register(p, TRUE, nat)
    PROVE  /\ session' \subseteq Peers /\ awaiting' \subseteq Peers
           /\ pending' \in [Peers -> SUBSET Request]
           /\ wire' \subseteq Request
           /\ Registering' => Registering \/ ~nat
           /\ step' = "Registration"
<1> DEFINE r == [type |-> "RegisterRequest", to |-> p, nat |-> nat]
<1>1. r \in Request /\ (r \in Visible => ~nat)
  BY DEF Request, Visible
<1>2. SendEncrypted(p, r) /\ step' = "Registration"
  BY DEF Register
<1> HIDE DEF r
<1> QED
  BY <1>1, <1>2, SendFacts

LEMMA PingKeeps ==
    ASSUME ProcessInv, process = "running", NEW m \in Replies, Ping(m)
    PROVE  TypeOK' /\ Running' /\ overwritten' = overwritten /\ signal' # "left"
<1>1. TypeOK /\ Running
  BY DEF ProcessInv, ProcessTypeOK
<1>2. m.from \in Peers /\ m.addr \in Addresses /\ m.addr # NoAddress
  BY <1>1, ReplyFacts, JoinAssumption DEF Ping, FromMaster
<1>3. CASE arrived + 1 = PingsEmitted
  <2>1. GotPinged(m.from, TRUE)
    BY <1>3 DEF Ping
  <2>2. /\ session' \subseteq Peers /\ awaiting' \subseteq Peers
        /\ pending' \in [Peers -> SUBSET Request]
        /\ wire' \subseteq Request
        /\ step' = "Registration"
    BY <1>1, <1>2, <2>1, RegisterFacts DEF GotPinged
  <2>0. /\ echo' = m.addr /\ arrived' = arrived + 1
        /\ pingTimer' = FALSE /\ joinTimer' = TRUE /\ signal' = "none"
        /\ master' = m.from /\ masterValid' = TRUE
        /\ UNCHANGED <<bound, force, joined, self, overwritten, keepalive, preparing>>
    BY <2>1 DEF Ping, GotPinged, place
  <2>5. arrived' \in Nat
    BY <1>1, <2>0 DEF TypeOK
  <2>3. TypeOK'
    BY <1>1, <1>2, <2>0, <2>2, <2>5 DEF TypeOK, Steps
  <2>4. Running'
    BY <1>1, <1>2, <2>1, <2>2 DEF Running, Ping, FromMaster, GotPinged, place, NoSelf
  <2> QED
    BY <2>3, <2>4 DEF Ping, place
<1>4. CASE arrived + 1 # PingsEmitted
  <2>1. UNCHANGED <<step, pingTimer, joinTimer, keys, wire>>
    BY <1>4 DEF Ping
  <2>2. TypeOK'
    BY <1>1, <1>2, <2>1 DEF TypeOK, Ping, place, keys
  <2>3. Running'
    BY <1>1, <1>2, <2>1 DEF Running, Ping, FromMaster, place, keys, NoSelf, Registering
  <2> QED
    BY <2>2, <2>3 DEF Ping, place
<1> QED
  BY <1>3, <1>4

LEMMA PingTimeoutKeeps ==
    ASSUME ProcessInv, process = "running", PingTimeout
    PROVE  TypeOK' /\ Running' /\ overwritten' = overwritten /\ signal' # "left"
<1>1. TypeOK /\ Running
  BY DEF ProcessInv, ProcessTypeOK
<1>2. masterValid = TRUE /\ step = "AwaitingPings" /\ ~joined
  BY <1>1 DEF Running, TypeOK, PingTimeout
<1>3. PICK nat \in BOOLEAN : Register(master, TRUE, nat) /\ (~nat => arrived # 0)
  BY <1>2 DEF PingTimeout, GotPinged
<1>4. /\ session' \subseteq Peers /\ awaiting' \subseteq Peers
      /\ pending' \in [Peers -> SUBSET Request]
      /\ wire' \subseteq Request
      /\ Registering' => Registering \/ ~nat
      /\ step' = "Registration"
  <2>1. master \in Peers
    BY <1>1 DEF TypeOK
  <2> QED
    BY <1>1, <1>3, <2>1, RegisterFacts
<1>5. pingTimer' = FALSE /\ joinTimer' = TRUE
  BY <1>1, <1>2 DEF PingTimeout, GotPinged, Running, TypeOK
<1>6. TypeOK'
  <2>1. /\ UNCHANGED <<bound, force, joined, self, overwritten, keepalive, arrived, echo,
                       master, masterValid, preparing>>
        /\ signal' = "none"
    BY DEF PingTimeout, place, pings, chosen
  <2>2. step' \in Steps /\ joinTimer' \in BOOLEAN /\ pingTimer' \in BOOLEAN
    BY <1>4, <1>5 DEF Steps
  <2> QED
    BY <1>1, <1>4, <2>1, <2>2 DEF TypeOK
<1>7. Running'
  BY <1>1, <1>2, <1>3, <1>4, <1>5 DEF Running, PingTimeout, place, pings, chosen, NoSelf
<1> QED
  BY <1>6, <1>7 DEF PingTimeout, place

LEMMA RegisterReplyKeeps ==
    ASSUME ProcessInv, process = "running", NEW m \in Replies, RegisterReply(m)
    PROVE  TypeOK' /\ Running' /\ overwritten' = overwritten /\ signal' # "left"
<1>1. TypeOK /\ Running
  BY DEF ProcessInv, ProcessTypeOK
<1>2. /\ m.role \in {"master", "slave"}
      /\ m.nat \in BOOLEAN
      /\ m.nat => m.addr \in Addresses
      /\ ~m.nat => Registering
  BY <1>1, ReplyFacts DEF RegisterReply
<1> DEFINE x == IF m.nat THEN m.addr ELSE echo
<1>3. x \in Addresses /\ x # NoAddress
  BY <1>1, <1>2, JoinAssumption DEF Running, TypeOK
<1>4. /\ self' = [role |-> m.role, addr |-> x] /\ joined' = TRUE /\ step' = "Finished"
      /\ overwritten' = overwritten /\ signal' = "joined"
  BY <1>1 DEF RegisterReply, SetSelf, Running, TypeOK
<1>5. self' # NoSelf /\ self'.addr # NoAddress
  BY <1>2, <1>3, <1>4 DEF NoSelf
<1>6. Registering' => Registering
  BY DEF RegisterReply, Registering, keys
<1> HIDE DEF x
<1>7. TypeOK'
  BY <1>1, <1>2, <1>3, <1>4 DEF TypeOK, RegisterReply, Steps, pings, chosen, keys
<1>8. Running'
  BY <1>1, <1>4, <1>5, <1>6 DEF Running, RegisterReply, pings, chosen
<1> QED
  BY <1>4, <1>7, <1>8


LEMMA HandshakeKeeps ==
    ASSUME ProcessInv, process = "running", NEW p \in Peers,
           HandshakeDone(p) \/ HandshakeTimeout(p)
    PROVE  /\ TypeOK' /\ overwritten' = overwritten
           /\ signal' = "left" => ~joined'
           /\ signal' # "left" => Running'
<1>1. TypeOK /\ Running
  BY DEF ProcessInv, ProcessTypeOK
<1>2. wire' \subseteq wire \cup pending[p] /\ wire' \subseteq Request
  BY <1>1 DEF HandshakeDone, HandshakeTimeout, TypeOK
<1>3. CASE LastHandshake(p)
  <2>1. Leave
    BY <1>3 DEF HandshakeDone, HandshakeTimeout
  <2> QED
    BY <1>1, <1>2, <2>1, LeaveFacts
<1>4. CASE ~LastHandshake(p)
  <2>1. /\ session' \subseteq Peers /\ awaiting' \subseteq Peers
        /\ pending' = [pending EXCEPT ![p] = {}]
        /\ signal' = "none"
        /\ UNCHANGED <<bound, step, force, place, timers, pings, chosen, preparing>>
    BY <1>1, <1>4 DEF HandshakeDone, HandshakeTimeout, TypeOK
  <2>2. pending' \in [Peers -> SUBSET Request]
    BY <1>1, <2>1 DEF TypeOK
  <2>3. \A q \in Peers : pending'[q] \subseteq pending[q]
    BY <1>1, <2>1 DEF TypeOK
  <2>4. Registering' => Registering
    BY <1>2, <2>3 DEF Registering, Visible
  <2>5. TypeOK'
    BY <1>1, <1>2, <2>1, <2>2 DEF TypeOK, place, timers, pings, chosen
  <2>6. Running'
    BY <1>1, <2>1, <2>4 DEF Running, place, timers, pings, chosen, NoSelf
  <2> QED
    BY <2>1, <2>5, <2>6 DEF place
<1> QED
  BY <1>3, <1>4

LEMMA ExitKeeps ==
    ASSUME ProcessInv, process = "running", ExitNetwork
    PROVE  /\ TypeOK' /\ overwritten' = overwritten
           /\ signal' = "left" => ~joined'
           /\ signal' # "left" => Running'
<1>1. TypeOK /\ Running
  BY DEF ProcessInv, ProcessTypeOK
<1>2. CASE ExitUnjoined \/ \E S \in SUBSET Peers : ExitNow(S)
  <2>1. Leave /\ wire' = wire
    BY <1>2 DEF ExitUnjoined, ExitNow
  <2> QED
    BY <1>1, <2>1, LeaveFacts DEF TypeOK
<1>3. ASSUME NEW S \in SUBSET Peers, ExitLater(S)
      PROVE  TypeOK' /\ overwritten' = overwritten /\ signal' = "none" /\ Running'
  <2>1. Registering' => Registering
    BY <1>3 DEF ExitLater, Registering
  <2>2. TypeOK'
    BY <1>1, <1>3 DEF ExitLater, TypeOK, place, timers, pings, chosen
  <2>3. Running'
    BY <1>1, <1>3, <2>1 DEF ExitLater, Running, place, timers, pings, chosen, NoSelf
  <2> QED
    BY <1>3, <2>2, <2>3 DEF ExitLater, place
<1> QED
  BY <1>2, <1>3 DEF ExitNetwork

-----------------------------------------------------------------------------
(* The invariant. *)

LEMMA InitInv == ProcessInit => ProcessInv
<1> SUFFICES ASSUME ProcessInit PROVE ProcessInv
  OBVIOUS
<1>1. TypeOK
  BY DEF ProcessInit, Init, TypeOK, Steps, NoSelf
<1>2. Untouched
  BY DEF ProcessInit, Init, Untouched
<1> QED
  BY <1>1, <1>2 DEF ProcessInit, Init, ProcessInv, ProcessTypeOK

LEMMA StartKeeps ==
    ASSUME ProcessInv, Start
    PROVE  ProcessInv'
<1>1. TypeOK /\ Untouched /\ ~overwritten
  BY DEF ProcessInv, ProcessTypeOK, Start
<1>2. ~Registering
  BY <1>1 DEF Untouched, Registering
<1>3. ASSUME NEW addr \in Addresses, CreateNetwork(addr), process' = "running"
      PROVE  ProcessInv'
  <2>1. /\ self' = [role |-> "master", addr |-> addr] /\ joined' = TRUE
        /\ step' = "Finished" /\ overwritten' = FALSE
    BY <1>1, <1>3 DEF CreateNetwork, SetSelf, Untouched, TypeOK
  <2>2. self' # NoSelf /\ self'.addr # NoAddress
    BY <2>1, JoinAssumption DEF NoSelf
  <2>3. TypeOK'
    BY <1>1, <1>3, <2>1
       DEF CreateNetwork, SetSelf, TypeOK, Steps, timers, pings, chosen, keys
  <2>4. Running'
    BY <1>1, <1>2, <1>3, <2>1, <2>2
       DEF CreateNetwork, Untouched, Running, Registering, timers, pings, chosen, keys
  <2> QED
    BY <1>3, <2>1, <2>3, <2>4, RunningInv
<1>4. ASSUME NEW p \in Peers, NEW forceBehindNAT \in BOOLEAN,
             JoinNetwork(p, forceBehindNAT), process' = "running"
      PROVE  ProcessInv'
  <2> DEFINE r == [type |-> "VersionRequest", to |-> p]
  <2>1. r \in Request /\ r \notin Visible
    BY DEF Request, Visible
  <2>2. wire' = wire \cup {r} /\ UNCHANGED <<place, pingTimer, keepalive, pings, chosen,
                                            keys, preparing>>
    BY <1>4 DEF JoinNetwork
  <2> HIDE DEF r
  <2>3. TypeOK'
    BY <1>1, <1>4, <2>1, <2>2
       DEF JoinNetwork, TypeOK, Steps, place, pings, chosen, keys
  <2>4. ~Registering'
    BY <1>2, <2>1, <2>2 DEF Registering, Visible, keys
  <2>5. Running'
    BY <1>1, <1>4, <2>2, <2>4
       DEF JoinNetwork, Untouched, Running, place, pings, chosen, NoSelf
  <2> QED
    BY <1>1, <1>4, <2>2, <2>3, <2>5, RunningInv DEF place
<1>5. ASSUME CreateRefused \/ JoinRefused, process' = "gone"
      PROVE  ProcessInv'
  <2>1. CASE CreateRefused
    <3>1. Cleanup
      BY <2>1 DEF CreateRefused
    <3>2. /\ joined' = FALSE
          /\ self' \in [role : {"none", "master", "slave"},
                        addr : Addresses \cup {NoAddress}]
          /\ joinTimer' \in BOOLEAN /\ pingTimer' \in BOOLEAN /\ keepalive' \in BOOLEAN
          /\ master' \in Peers /\ masterValid' \in BOOLEAN
          /\ session' \subseteq Peers /\ awaiting' \subseteq Peers
          /\ pending' \in [Peers -> SUBSET Request]
          /\ overwritten' = overwritten
      BY <1>1, <3>1, CleanupFacts
    <3>3. /\ signal' = "refused"
          /\ UNCHANGED <<bound, step, force, arrived, echo, preparing, wire>>
      BY <2>1 DEF CreateRefused, pings
    <3>4. TypeOK'
      BY <1>1, <3>2, <3>3 DEF TypeOK
    <3> QED
      BY <1>1, <1>5, <3>2, <3>4, GoneInv
  <2>2. CASE JoinRefused
    <3>1. TypeOK' /\ ~joined' /\ ~overwritten'
      BY <1>1, <2>2
         DEF JoinRefused, Untouched, TypeOK, place, timers, pings, chosen, keys
    <3> QED
      BY <1>5, <3>1, GoneInv
  <2> QED
    BY <1>5, <2>1, <2>2
<1>6. /\ \A addr : CreateNetwork(addr) => signal' # "refused"
      /\ \A p, b : JoinNetwork(p, b) => signal' # "refused"
      /\ CreateRefused \/ JoinRefused => signal' = "refused"
  BY DEF CreateNetwork, SetSelf, JoinNetwork, CreateRefused, JoinRefused
<1> QED
  BY <1>3, <1>4, <1>5, <1>6 DEF Start

LEMMA EventKeeps ==
    ASSUME ProcessInv, Event
    PROVE  ProcessInv'
<1>1. process = "running" /\ ~overwritten
  BY DEF Event, ProcessInv
<1>2. /\ TypeOK' /\ overwritten' = overwritten
      /\ signal' = "left" => ~joined'
      /\ signal' # "left" => Running'
  BY <1>1, VersionReplyKeeps, MasterNodeReplyKeeps, PingKeeps, PingTimeoutKeeps,
     RegisterReplyKeeps, HandshakeKeeps DEF Event, Progress
<1>3. process' = IF signal' = "left" THEN "gone" ELSE "running"
  BY DEF Event
<1> QED
  BY <1>1, <1>2, <1>3, GoneInv, RunningInv

LEMMA SignalKeeps ==
    ASSUME ProcessInv, Signal
    PROVE  ProcessInv'
<1>1. process = "running" /\ ~overwritten /\ Running
  BY DEF Signal, ProcessInv
<1>2. ~ExitWithoutSelf
  BY <1>1 DEF ExitWithoutSelf, SeemsFinished, Running
<1>3. ExitNetwork /\ process' = IF signal' = "left" THEN "gone" ELSE "running"
  BY <1>2 DEF Signal
<1>4. /\ TypeOK' /\ overwritten' = overwritten
      /\ signal' = "left" => ~joined'
      /\ signal' # "left" => Running'
  BY <1>1, <1>3, ExitKeeps
<1> QED
  BY <1>1, <1>3, <1>4, GoneInv, RunningInv

LEMMA FailureKeeps ==
    ASSUME ProcessInv, Failure
    PROVE  ProcessInv' /\ ~joined
<1>1. process = "running" /\ ~overwritten /\ Running /\ TypeOK
  BY DEF Failure, ProcessInv, ProcessTypeOK
<1>2. step # "Finished"
  BY <1>1 DEF Failure, JoinTimeout, VersionMismatch, PingMismatch, FromMaster, Running
<1>3. Fail /\ arrived' \in Nat /\ echo' = echo
  BY <1>1 DEF Failure, JoinTimeout, VersionMismatch, PingMismatch, TypeOK, pings
<1>4. TypeOK' /\ ~joined' /\ ~overwritten'
  BY <1>1, <1>3, FailFacts
<1>5. process' = "gone"
  BY <1>2 DEF Failure
<1> QED
  BY <1>1, <1>2, <1>4, <1>5, GoneInv DEF Running

LEMMA StutterKeeps ==
    ASSUME ProcessInv, UNCHANGED allVars
    PROVE  ProcessInv'
<1>1. UNCHANGED <<vars, process>>
  BY DEF allVars
<1>2. UNCHANGED <<bound, step, force, joined, self, overwritten, joinTimer, pingTimer,
                  keepalive, arrived, echo, master, masterValid, session, awaiting,
                  pending, preparing, signal, wire, process>>
  BY <1>1 DEF vars, place, timers, pings, chosen, keys
<1> QED
  BY <1>2 DEF ProcessInv, ProcessTypeOK, TypeOK, Untouched, Running, Registering

LEMMA Inductive == ProcessInv /\ [ProcessNext]_allVars => ProcessInv'
  BY StartKeeps, EventKeeps, SignalKeeps, FailureKeeps, StutterKeeps DEF ProcessNext

LEMMA InvAlways == ProcessSpec => []ProcessInv
<1>1. ProcessInit => ProcessInv
  BY InitInv
<1>2. ProcessInv /\ [ProcessNext]_allVars => ProcessInv'
  BY Inductive
<1> QED
  BY <1>1, <1>2, PTL DEF ProcessSpec

-----------------------------------------------------------------------------
(* Results. *)

\* Every reachable state of a sparkgap process is well typed.
THEOREM ProcessTypes == ProcessSpec => []ProcessTypeOK
<1>1. ProcessInv => ProcessTypeOK
  BY DEF ProcessInv
<1> QED
  BY <1>1, InvAlways, PTL

\* joinTimer runs throughout an attempt: from joinNetwork, through the replies, the ping
\* timeout and the registration, until the host is joined.
THEOREM AttemptGuardedAlways == ProcessSpec => []AttemptGuarded
<1>1. ProcessInv => AttemptGuarded
  BY DEF ProcessInv, Running, AttemptGuarded
<1> QED
  BY <1>1, InvAlways, PTL

\* No join timer survives the join, and NAT is kept alive by joined hosts only.
THEOREM TimersMatchAlways == ProcessSpec => []TimersMatch
<1>1. ProcessInv => TimersMatch
  BY DEF ProcessInv, Running, TimersMatch
<1> QED
  BY <1>1, InvAlways, PTL

\* The assertion of Router::setSelfNode holds in sparkgap.
THEOREM SelfSetOnceAlways == ProcessSpec => []SelfSetOnce
<1>1. ProcessInv => SelfSetOnce
  BY DEF ProcessInv, SelfSetOnce
<1> QED
  BY <1>1, InvAlways, PTL

\* exitNetwork of sparkgap never lacks the self node it asks.
THEOREM ExitHasSelfAlways == ProcessSpec => []ExitHasSelf
<1>1. ProcessInv => ExitHasSelf
  BY DEF ProcessInv, ExitHasSelf
<1> QED
  BY <1>1, InvAlways, PTL

\* A joined sparkgap knows its endpoint.
THEOREM SelfAddressKnownAlways == ProcessSpec => []SelfAddressKnown
<1>1. ProcessInv => SelfAddressKnown
  BY DEF ProcessInv, ProcessTypeOK, Untouched, Running, SelfAddressKnown
<1> QED
  BY <1>1, InvAlways, PTL

\* A joined sparkgap leaves its network through exitNetwork only.
THEOREM JoinedUntilExitAlways == ProcessSpec => JoinedUntilExit
<1>1. ASSUME ProcessInv, ProcessNext, joined, ~joined'
      PROVE  signal' = "left"
  <2>1. process = "running" /\ Running
    BY <1>1 DEF ProcessInv, ProcessNext, Untouched, Start, Event, Signal, Failure
  <2>2. step = "Finished" /\ ~pingTimer /\ process # "starting"
    BY <1>1, <2>1 DEF Running
  <2>3. ASSUME NEW p \in Peers, HandshakeDone(p) \/ HandshakeTimeout(p)
        PROVE  signal' = "left"
    BY <1>1, <2>3 DEF HandshakeDone, HandshakeTimeout, Leave, place
  <2>4. CASE Event
    <3>1. \E p \in Peers : HandshakeDone(p) \/ HandshakeTimeout(p)
      BY <2>2, <2>4 DEF Event, Progress, VersionReply, MasterNodeReply, Ping, FromMaster,
                        RegisterReply, PingTimeout
    <3> QED
      BY <2>3, <3>1
  <2>5. CASE Signal
    BY <1>1, <2>5
       DEF Signal, ExitNetwork, ExitUnjoined, ExitNow, ExitLater, Leave, vars, place
  <2>6. CASE Failure
    BY <1>1, <2>6, FailureKeeps
  <2> QED
    BY <1>1, <2>2, <2>4, <2>5, <2>6 DEF ProcessNext, Start
<1>2. ProcessInv /\ [ProcessNext]_allVars => [joined /\ ~joined' => signal' = "left"]_allVars
  BY <1>1
<1> QED
  BY <1>2, InvAlways, PTL DEF ProcessSpec, JoinedUntilExit

=============================================================================
