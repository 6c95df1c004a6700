----------------------------- MODULE DeviceScreen -----------------------------
(***************************************************************************)
(* The device screen and its connect button on top of BleInteractor: the   *)
(* UI that decides when connect() and disconnect() are called.             *)
(*                                                                         *)
(* The scanner list opens the screen of a device, whose interaction tab    *)
(* connects at once; the button connects or disconnects according to the   *)
(* status the UI was last given; going back disconnects; a recorded MTU    *)
(* error closes the screen.  A new ConnectionStateUpdate is taken to reach *)
(* the widgets in the step that adds it to the controller.                 *)
(***************************************************************************)
EXTENDS BleInteractor

VARIABLES
  screen,       \* the device whose screen is open, or NoDevice (scanner)
  overlapped    \* history: sessions started before every older one had ended

screenVars == << vars, screen, overlapped >>

ScreenTypeOK ==
  /\ screen \in Device \cup {NoDevice}
  /\ overlapped \subseteq Session

ScreenInit == Init /\ screen = NoDevice /\ overlapped = {}

StartSession(d) ==
  /\ Connect(d)
  /\ overlapped' = overlapped \cup
       {s \in {connection + 1} : \E t \in 1 .. connection : sub[t] # "closed"}

(* Tap on a device of the scanner list: the tab's initState connects.      *)
OpenScreen(d) ==
  /\ screen = NoDevice
  /\ StartSession(d)
  /\ screen' = d

(* The button while it reads "Connect".                                    *)
PressConnect ==
  /\ screen # NoDevice
  /\ uiState = "disconnected"
  /\ StartSession(screen)
  /\ UNCHANGED screen

(* The button while it reads "Disconnect".                                 *)
PressDisconnect ==
  /\ screen # NoDevice
  /\ uiState = "connected"
  /\ Disconnect
  /\ UNCHANGED << screen, overlapped >>

(* WillPopScope: disconnect() is called, not awaited, and the route pops.  *)
Back ==
  /\ screen # NoDevice
  /\ Disconnect
  /\ screen' = NoDevice
  /\ UNCHANGED overlapped

(* The post-frame callback of every build of the screen.                   *)
HandleBleErrors ==
  /\ screen # NoDevice
  /\ uiState = "disconnected"
  /\ bleConnError = "getMtuSize"
  /\ Disconnect
  /\ screen' = NoDevice
  /\ UNCHANGED overlapped

User ==
  \/ \E d \in Device : OpenScreen(d)
  \/ PressConnect
  \/ PressDisconnect
  \/ Back

ScreenNext ==
  \/ User
  \/ HandleBleErrors
  \/ \E s \in Session : SessionStep(s) /\ UNCHANGED << screen, overlapped >>

ScreenSpec == ScreenInit /\ [][ScreenNext]_screenVars

(* Fairness.  Cancelling completes and a disconnecting link goes down      *)
(* (plugin); a pending requestMtu has some outcome (plugin); timers tick   *)
(* and post-frame callbacks run (Dart event loop).  Nothing is assumed of  *)
(* the user, nor that a device answers.                                    *)
MtuOutcome(s) == MtuNegotiated(s) \/ MtuZero(s) \/ MtuThrows(s)

Fairness ==
  /\ WF_screenVars(HandleBleErrors)
  /\ \A s \in Session :
       /\ WF_screenVars(CancelCompletes(s) /\ UNCHANGED << screen, overlapped >>)
       /\ WF_screenVars(link[s] = "disconnecting" /\ OnDisconnected(s)
                          /\ UNCHANGED << screen, overlapped >>)
       /\ WF_screenVars(MtuOutcome(s) /\ UNCHANGED << screen, overlapped >>)
       /\ WF_screenVars(HandshakeTick(s) /\ UNCHANGED << screen, overlapped >>)

FairScreenSpec == ScreenSpec /\ Fairness

-----------------------------------------------------------------------------
(* Properties *)

(* While the button reads "Connect", the newest session has no link, which *)
(* a press would leak by overwriting _connection.  The one way around it:  *)
(* an older session had not ended when the newest started, and its end     *)
(* is reported to the UI though it says nothing of the newest one.         *)
DisconnectedIsTrue ==
  uiState = "disconnected" /\ connection # 0 /\ connection \notin overlapped =>
    link[connection] = "down"

(* The command buttons are enabled while the screen reads "connected" and  *)
(* their commands dereference _characteristic!.  Before the handshake is   *)
(* done that may throw.  Afterwards it never does while the session lives, *)
(* whatever the closures of earlier, closed sessions have done.            *)
DoneHandshakeCanCommand ==
  /\ uiState = "connected"
  /\ connection # 0
  /\ handshake[connection] = "done" /\ sub[connection] = "live"
  /\ \A s \in 1 .. (connection - 1) : sub[s] = "closed"
  => characteristic # NoDevice

(* A session whose subscription was overwritten in _connection while live. *)
LeakedSession(s) == s < connection /\ sub[s] = "live"

(* A recorded MTU error brings the user back to the scanner (or is cleared *)
(* by a new connect), as ConnectProcess.md's DIS1 asks: the disconnect it  *)
(* starts completes and the screen closes itself.  The escape: a leaked    *)
(* session that connects just then hides "disconnected" from the screen.   *)
MtuErrorLeavesScreen ==
  bleConnError = "getMtuSize" ~>
    \/ screen = NoDevice
    \/ bleConnError = "none"
    \/ \E s \in Session : LeakedSession(s)

(* After a disconnect() the UI is eventually told "disconnected", although *)
(* the cancelled subscription can no longer deliver that state, or the     *)
(* user has started a newer session meanwhile.                             *)
DisconnectIsReported ==
  \A s \in Session :
    sub[s] = "cancelling" ~> (uiState = "disconnected" \/ connection # s)

(* ConnectProcess.md, K --YES--> M: set-time is sent once notifications    *)
(* are enabled.  With every earlier session closed, the timer of the       *)
(* connected session writes set-time only while it holds a notification    *)
(* stream on an existing link to its device.                               *)
SetTimeAfterNotification ==
  [][\A s \in Session :
       /\ handshake[s] = "ticking" /\ handshake'[s] = "done"
       /\ s = connection /\ link[s] = "connected"
       /\ \A t \in 1 .. (s - 1) : sub[t] = "closed"
       => notification.link \in Carriers(target[s])]_screenVars

(* ConnectProcess.md, G --NO--> DIS1: an MTU negotiation that ends without *)
(* an MTU disconnects and throws the MTU error.                            *)
MtuFailureIsReported ==
  [][\A s \in Session :
       handshake[s] = "mtu" /\ handshake'[s] # "mtu" /\ ~mtuKnown' =>
         bleConnError' = "getMtuSize"]_screenVars

=============================================================================
