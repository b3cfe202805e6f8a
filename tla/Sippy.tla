-------------------------------- MODULE Sippy --------------------------------
(***************************************************************************)
(* The sessions of a sippy process (sippy/Roster.cpp, sippy/main.cpp): the  *)
(* user connects and disconnects, host names are looked up in the           *)
(* background, the roster shows what the signals of the link layer say.     *)
(*                                                                         *)
(* An error is shown in a QMessageBox, whose nested event loop goes on      *)
(* handling datagrams, timers and lookups while it keeps the user from the  *)
(* windows; the slot and the handler that emitted the signal go on when the *)
(* box is closed.                                                           *)
(***************************************************************************)
EXTENDS Join, Sequences

CONSTANTS
    MaxLookups,   \* bound: lookups under way
    MaxBoxes      \* bound: message boxes one above the other

ASSUME SippyAssumption == MaxLookups \in Nat /\ MaxBoxes \in Nat

VARIABLES
    ui,        \* what connectStateChanged showed last
    prompt,    \* the connect dialog is open
    lookups,   \* lookups under way
    boxes,     \* message boxes, the uppermost first: what goes on when one is closed
    process    \* "running", "gone" or "crashed"

rosterVars == <<ui, prompt, lookups, boxes>>
allVars == <<vars, rosterVars, process>>

SippyInit ==
    /\ Init
    /\ ui = "Disconnected" /\ prompt = FALSE /\ lookups = 0 /\ boxes = <<>>
    /\ process = "running"

\* The user can reach the windows.
Interactive == process = "running" /\ boxes = <<>>

ShowBox(after) ==
    /\ Len(boxes) < MaxBoxes
    /\ boxes' = <<after>> \o boxes

-----------------------------------------------------------------------------
\* actionConnect is enabled while disconnected; the dialog it shows stays.
ShowPrompt ==
    /\ Interactive /\ ui = "Disconnected" /\ ~prompt
    /\ prompt' = TRUE
    /\ UNCHANGED <<vars, ui, lookups, boxes, process>>

\* connectToNetwork.
Connect ==
    /\ Interactive /\ prompt /\ lookups < MaxLookups
    /\ prompt' = FALSE
    /\ lookups' = lookups + 1
    /\ ui' = "Connecting"
    /\ UNCHANGED <<vars, boxes, process>>

\* lookupFinished with an address; the settings of this moment say what to do.
LookupSucceeds ==
    /\ process = "running" /\ lookups > 0
    /\ lookups' = lookups - 1
    /\ \/ \E addr \in Addresses : CreateNetwork(addr)
       \/ \E p \in Peers, forceBehindNAT \in BOOLEAN : JoinNetwork(p, forceBehindNAT)
    /\ ui' = IF signal' = "joined" THEN "Connected" ELSE ui
    /\ UNCHANGED <<prompt, boxes, process>>

\* lookupFinished with an error, or the port is taken.
LookupFails ==
    /\ process = "running" /\ lookups > 0
    /\ lookups' = lookups - 1
    /\ ShowBox("nothing")
    /\ CreateRefused \/ JoinRefused \/ UNCHANGED vars
    /\ UNCHANGED <<ui, prompt, process>>

\* exitNetwork from disconnectFromNetwork.
Disconnect ==
    /\ Interactive /\ ui # "Disconnected"
    /\ \/ /\ ExitNetwork
          /\ ui' = IF signal' = "left" THEN "Disconnected" ELSE ui
          /\ UNCHANGED process
       \/ /\ ExitWithoutSelf
          /\ process' = "crashed"
          /\ UNCHANGED <<vars, ui>>
    /\ UNCHANGED <<prompt, lookups, boxes>>

\* exitNetwork from aboutToQuit.
Quit ==
    /\ Interactive
    /\ \/ (SeemsFinished(FALSE) \/ self # NoSelf) /\ process' = "gone"
       \/ ExitWithoutSelf /\ process' = "crashed"
    /\ UNCHANGED <<vars, rosterVars>>

\* joined() and leaved().
Event ==
    /\ process = "running"
    /\ Progress
    /\ ui' = CASE signal' = "joined" -> "Connected"
               [] signal' = "left" -> "Disconnected"
               [] OTHER -> ui
    /\ UNCHANGED <<prompt, lookups, boxes, process>>

\* joinFailed() shows a box in the middle of the handler that emitted it.
Failure ==
    /\ process = "running"
    /\ \/ JoinTimeout /\ ShowBox("nothing")
       \/ \E m \in Replies : \/ VersionMismatch(m) /\ ShowBox("version")
                             \/ PingMismatch(m) /\ ShowBox("ping")
    /\ UNCHANGED <<ui, prompt, lookups, process>>

\* The uppermost box is closed: the slot ends in connectStateChanged(Disconnected), and
\* a handler that did not return goes on.  With a deleted record it may crash.
CloseBox ==
    /\ process = "running" /\ boxes # <<>>
    /\ boxes' = Tail(boxes)
    /\ ui' = "Disconnected"
    /\ \/ Head(boxes) = "nothing" /\ UNCHANGED <<vars, process>>
       \/ Head(boxes) = "version" /\ ResumeVersion /\ process' \in {"running", "crashed"}
       \/ Head(boxes) = "ping" /\ ResumePing
          /\ process' \in IF arrived = PingsEmitted THEN {"running", "crashed"}
                                                    ELSE {"running"}
    /\ UNCHANGED <<prompt, lookups>>

SippyNext ==
    \/ ShowPrompt \/ Connect \/ LookupSucceeds \/ LookupFails \/ Disconnect \/ Quit
    \/ Event \/ Failure \/ CloseBox

\* Lookups end and started timers fire, also inside the loop of a message box.
SippyFairness ==
    /\ WF_allVars(LookupSucceeds \/ LookupFails)
    /\ WF_allVars(joinTimer /\ Failure)

SippySpec == SippyInit /\ [][SippyNext]_allVars

FairSippySpec == SippySpec /\ SippyFairness

-----------------------------------------------------------------------------
(* Properties. *)

\* Types, of the link layer and of the roster.
SippyTypeOK ==
    /\ TypeOK
    /\ ui \in {"Disconnected", "Connecting", "Connected"}
    /\ prompt \in BOOLEAN
    /\ lookups \in 0 .. MaxLookups
    /\ boxes \in Seq({"nothing", "version", "ping"}) /\ Len(boxes) <= MaxBoxes
    /\ process \in {"running", "gone", "crashed"}

\* The roster says "Connected" only while the link layer is joined, or a message box
\* that will take it back is open: no cleanup() goes unannounced.
ConnectedIsJoined == ui = "Connected" => joined \/ boxes # <<>>

\* "Connecting" ends: in a network, in "Disconnected" or in front of a message box,
\* however lookups, late replies and earlier attempts mix.
ConnectingEnds ==
    (ui = "Connecting") ~> (ui # "Connecting" \/ boxes # <<>> \/ process # "running")

\* Router::setSelfNode asserts that there is no self node yet.
SelfSetOnce == ~overwritten

=============================================================================
