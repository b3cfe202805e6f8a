------------------------------ MODULE Sparkgap ------------------------------
(***************************************************************************)
(* The life of a sparkgap process (sparkgap/main.cpp): one call of          *)
(* createNetwork or joinNetwork, signals that end in exitNetwork; the       *)
(* process quits on leavedNetwork and calls exitNetwork on joinFailed.      *)
(***************************************************************************)
EXTENDS Join

VARIABLE process   \* "starting", "running", "gone", or "nullself": exitNetwork
                   \* used a self node that was not there

allVars == <<vars, process>>

ProcessInit == Init /\ process = "starting"

\* main() up to the event loop; a refused call is fatal.
Start ==
    /\ process = "starting"
    /\ \/ \E addr \in Addresses : CreateNetwork(addr)
       \/ \E p \in Peers, forceBehindNAT \in BOOLEAN : JoinNetwork(p, forceBehindNAT)
       \/ CreateRefused
       \/ JoinRefused
    /\ process' = IF signal' = "refused" THEN "gone" ELSE "running"

\* leavedNetwork() is connected to quit().
Event ==
    /\ process = "running"
    /\ Progress
    /\ process' = IF signal' = "left" THEN "gone" ELSE "running"

\* SIGINT, SIGTERM, SIGHUP.
Signal ==
    /\ process = "running"
    /\ \/ /\ ExitNetwork
          /\ process' = IF signal' = "left" THEN "gone" ELSE "running"
       \/ /\ ExitWithoutSelf
          /\ process' = "nullself"
          /\ UNCHANGED vars

\* joinFailed() is connected to exitNetwork(), which finds the state after cleanup().
\* What the handlers do after that is done by a process about to quit.
Failure ==
    /\ process = "running"
    /\ JoinTimeout \/ \E m \in Replies : VersionMismatch(m) \/ PingMismatch(m)
    /\ process' = IF step = "Finished" THEN "nullself" ELSE "gone"

ProcessNext == Start \/ Event \/ Signal \/ Failure

\* Started timers fire.
ProcessFairness ==
    /\ WF_allVars(process = "running" /\ JoinTimeout
                  /\ process' = IF step = "Finished" THEN "nullself" ELSE "gone")
    /\ \A p \in Peers :
          WF_allVars(process = "running" /\ HandshakeTimeout(p)
                     /\ process' = IF signal' = "left" THEN "gone" ELSE "running")

ProcessSpec == ProcessInit /\ [][ProcessNext]_allVars

FairProcessSpec == ProcessSpec /\ ProcessFairness

-----------------------------------------------------------------------------
(* Properties. *)

\* Types, of the link layer and of the process.
ProcessTypeOK ==
    /\ TypeOK
    /\ process \in {"starting", "running", "gone", "nullself"}

\* An attempt under way always has joinTimer running, through every reply, timeout and
\* restart of it: a process that is not joined cannot wait for ever.
AttemptGuarded == process = "running" /\ ~joined => joinTimer

\* A joined process has no join timer left that would tear the network down, and only a
\* joined one keeps NAT mappings alive.
TimersMatch ==
    process = "running" => /\ joined => ~joinTimer /\ ~pingTimer
                           /\ keepalive => joined

\* Router::setSelfNode is called once (its assertion), although replies are repeated.
SelfSetOnce == ~overwritten

\* A process never asks a self node that is not there, on a signal or after a failure.
ExitHasSelf == process # "nullself"

\* A joined host knows its own endpoint: when it registered without NAT a ping had told
\* it one, whatever was answered late or twice.
SelfAddressKnown == joined => self.addr # NoAddress

\* A network once joined is left only through exitNetwork.
JoinedUntilExit == [][joined /\ ~joined' => signal' = "left"]_allVars

\* Every attempt ends: the process joins or it quits.
AttemptEnds == (process = "running") ~> (joined \/ process = "gone")

=============================================================================
