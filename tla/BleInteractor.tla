---------------------------- MODULE BleInteractor ----------------------------
(***************************************************************************)
(* The BLE connection of the app: class BleInteractor (connect,            *)
(* disconnect, the connection listener with its MTU request and handshake  *)
(* timer) together with the part of BleSopepInteractor it drives           *)
(* (enableNotification, disableNotification, setTime).                     *)
(*                                                                         *)
(* Every call of connect() starts a SESSION: one connectToDevice stream,   *)
(* one listener closure and, once connected, one handshake.  The closures  *)
(* of old sessions outlive their session, while _connection, _mtu,         *)
(* _bleConnError, _characteristic and _bleNotificationStream are shared by *)
(* all of them; that is what makes this code hard.                         *)
(*                                                                         *)
(* The flutter_reactive_ble plugin is external.  It is modelled from how   *)
(* the code uses it: the stream of a session reports connecting,           *)
(* connected, disconnecting, disconnected and ends; a cancelled            *)
(* subscription delivers nothing more and its future completes once the    *)
(* device is disconnected; a pending requestMtu either answers while the   *)
(* link is up, or throws; a notification subscription works only on the    *)
(* link it was made on.                                                    *)
(***************************************************************************)
EXTENDS Naturals

CONSTANTS
  Device,        \* the sOPEP devices in range
  NoDevice,      \* a null device
  MaxSessions    \* bound: how often connect() is called

ASSUME NoDeviceAssumption == NoDevice \notin Device
ASSUME MaxSessionsAssumption == MaxSessions \in Nat \ {0}

Session == 1 .. MaxSessions

VARIABLES
  target,          \* the deviceId the session's closure captured
  sub,             \* the session's connectToDevice subscription
  link,            \* the link state the plugin last reported to the session
  handshake,       \* what the session's connected handler is doing
  connection,      \* _connection: the newest session, 0 before the first
  mtuKnown,        \* _mtu > 0
  bleConnError,    \* _bleConnError
  characteristic,  \* the device _characteristic points at, or NoDevice
  notification,    \* _bleNotificationStream and the link it was opened on
  uiState          \* the last ConnectionStateUpdate given to the UI

vars == << target, sub, link, handshake, connection, mtuKnown, bleConnError,
           characteristic, notification, uiState >>

SubState == {"unused", "live", "cancelling", "closed"}
LinkState == {"down", "connecting", "connected", "disconnecting"}
UiState == {"connecting", "connected", "disconnecting", "disconnected"}

(* "mtu": suspended in await getMtuSize; "ticking": Timer.periodic runs;   *)
(* "done": set-time written and the timer cancelled; "failed": requestMtu  *)
(* threw and the listener was abandoned.                                   *)
HandshakeState == {"idle", "mtu", "ticking", "done", "failed"}

(* link = 0: the subscription was made while the device had no link.       *)
NotificationStream == [device : Device, link : 0 .. MaxSessions]
NullStream == [device |-> NoDevice, link |-> 0]

TypeOK ==
  /\ target \in [Session -> Device \cup {NoDevice}]
  /\ sub \in [Session -> SubState]
  /\ link \in [Session -> LinkState]
  /\ handshake \in [Session -> HandshakeState]
  /\ connection \in 0 .. MaxSessions
  /\ mtuKnown \in BOOLEAN
  /\ bleConnError \in {"none", "getMtuSize"}
  /\ characteristic \in Device \cup {NoDevice}
  /\ notification \in NotificationStream \cup {NullStream}
  /\ uiState \in UiState

Init ==
  /\ target = [s \in Session |-> NoDevice]
  /\ sub = [s \in Session |-> "unused"]
  /\ link = [s \in Session |-> "down"]
  /\ handshake = [s \in Session |-> "idle"]
  /\ connection = 0
  /\ mtuKnown = FALSE
  /\ bleConnError = "none"
  /\ characteristic = NoDevice
  /\ notification = NullStream
  /\ uiState = "disconnected"

-----------------------------------------------------------------------------
(* BleSopepInteractor *)

(* The sessions over whose link device d can be reached right now.         *)
Carriers(d) == {s \in Session : target[s] = d /\ link[s] = "connected"}

EnableNotification(d) ==
  /\ characteristic' = d
  /\ \E l \in (IF Carriers(d) = {} THEN {0} ELSE Carriers(d)) :
       notification' = [device |-> d, link |-> l]

(* Mutant: _characteristic is left set.                                  *)
DisableNotification_KeepsCharacteristic ==
  notification' = NullStream /\ UNCHANGED characteristic

DisableNotification ==
  /\ notification' = NullStream
  /\ characteristic' = NoDevice

-----------------------------------------------------------------------------
(* BleInteractor: the calls of the UI *)

Connect(d) ==
  /\ connection < MaxSessions
  /\ bleConnError' = "none"
  /\ connection' = connection + 1
  /\ target' = [target EXCEPT ![connection + 1] = d]
  /\ sub' = [sub EXCEPT ![connection + 1] = "live"]
  /\ UNCHANGED << link, handshake, mtuKnown, characteristic, notification,
                  uiState >>

(* Mutant: the cancel is not awaited, so finally runs at once.           *)
TearDown_NotAwaited ==
  /\ connection # 0
  /\ DisableNotification
  /\ uiState' = "disconnected"
  /\ sub' = [sub EXCEPT ![connection] = IF @ = "closed" THEN @ ELSE "cancelling"]

(* disconnect() up to its await of _connection.cancel().  The cancel of an *)
(* ended subscription completes at once, so the finally block runs too;    *)
(* otherwise it runs in CancelCompletes.                                   *)
TearDown ==
  /\ connection # 0
  /\ DisableNotification
  /\ IF sub[connection] = "closed"
       THEN uiState' = "disconnected" /\ UNCHANGED sub
       ELSE sub' = [sub EXCEPT ![connection] = "cancelling"]
            /\ UNCHANGED uiState

Disconnect ==
  /\ TearDown
  /\ UNCHANGED << target, link, handshake, connection, mtuKnown, bleConnError >>

(* Mutant: disconnect() has no finally block.                            *)
CancelCompletes_Silent(s) ==
  /\ sub[s] = "cancelling"
  /\ sub' = [sub EXCEPT ![s] = "closed"]
  /\ link' = [link EXCEPT ![s] = "down"]
  /\ UNCHANGED << target, handshake, connection, mtuKnown, bleConnError,
                  characteristic, notification, uiState >>

(* The awaited cancel completes: every disconnect() that waits for it runs *)
(* its finally block, which reports "disconnected" whatever session is now *)
(* the current one.                                                        *)
CancelCompletes(s) ==
  /\ sub[s] = "cancelling"
  /\ sub' = [sub EXCEPT ![s] = "closed"]
  /\ link' = [link EXCEPT ![s] = "down"]
  /\ uiState' = "disconnected"
  /\ UNCHANGED << target, handshake, connection, mtuKnown, bleConnError,
                  characteristic, notification >>

-----------------------------------------------------------------------------
(* BleInteractor: the connection listener of session s *)

(* The plugin reports link state `to`; the listener adds it to the UI's    *)
(* controller before anything else.                                        *)
Update(s, from, to) ==
  /\ sub[s] = "live"
  /\ link[s] \in from
  /\ link' = [link EXCEPT ![s] = to]

OnConnecting(s) ==
  /\ Update(s, {"down"}, "connecting")
  /\ uiState' = "connecting"
  /\ UNCHANGED << target, sub, handshake, connection, mtuKnown, bleConnError,
                  characteristic, notification >>

(* discoverServices is not awaited and its result not used; getMtuSize     *)
(* clears _mtu and suspends the handler.                                   *)
OnConnected(s) ==
  /\ Update(s, {"connecting"}, "connected")
  /\ uiState' = "connected"
  /\ mtuKnown' = FALSE
  /\ handshake' = [handshake EXCEPT ![s] = "mtu"]
  /\ UNCHANGED << target, sub, connection, bleConnError, characteristic,
                  notification >>

OnDisconnecting(s) ==
  /\ Update(s, {"connected"}, "disconnecting")
  /\ uiState' = "disconnecting"
  /\ UNCHANGED << target, sub, handshake, connection, mtuKnown, bleConnError,
                  characteristic, notification >>

(* Mutant: the listener does not add this update to the UI's controller.   *)
OnDisconnected_Silent(s) ==
  /\ Update(s, {"connecting", "connected", "disconnecting"}, "down")
  /\ sub' = [sub EXCEPT ![s] = "closed"]
  /\ DisableNotification
  /\ UNCHANGED << target, handshake, connection, mtuKnown, bleConnError,
                  uiState >>

(* Connect timeout, link loss or the end of a disconnecting link.          *)
OnDisconnected(s) ==
  /\ Update(s, {"connecting", "connected", "disconnecting"}, "down")
  /\ sub' = [sub EXCEPT ![s] = "closed"]
  /\ uiState' = "disconnected"
  /\ DisableNotification
  /\ UNCHANGED << target, handshake, connection, mtuKnown, bleConnError >>

(* requestMtu answers with a size: the handshake timer starts, even when   *)
(* the session is being cancelled meanwhile.                               *)
MtuNegotiated(s) ==
  /\ handshake[s] = "mtu"
  /\ link[s] = "connected"
  /\ mtuKnown' = TRUE
  /\ handshake' = [handshake EXCEPT ![s] = "ticking"]
  /\ UNCHANGED << target, sub, link, connection, bleConnError, characteristic,
                  notification, uiState >>

(* Mutant: the failed negotiation does not disconnect.                   *)
MtuZero_NoDisconnect(s) ==
  /\ handshake[s] = "mtu"
  /\ link[s] = "connected"
  /\ mtuKnown' = FALSE
  /\ bleConnError' = "getMtuSize"
  /\ handshake' = [handshake EXCEPT ![s] = "ticking"]
  /\ UNCHANGED << target, sub, link, connection, characteristic, notification,
                  uiState >>

(* requestMtu answers 0: the error is recorded and disconnect() called on  *)
(* the CURRENT _connection; there is no return, so the timer starts too.   *)
MtuZero(s) ==
  /\ handshake[s] = "mtu"
  /\ link[s] = "connected"
  /\ mtuKnown' = FALSE
  /\ bleConnError' = "getMtuSize"
  /\ TearDown
  /\ handshake' = [handshake EXCEPT ![s] = "ticking"]
  /\ UNCHANGED << target, link, connection >>

(* Mutant: the exception is recorded as a set-time error.                *)
MtuThrows_OtherError(s) ==
  /\ handshake[s] = "mtu"
  /\ handshake' = [handshake EXCEPT ![s] = "failed"]
  /\ bleConnError' = "setTime"
  /\ UNCHANGED << target, sub, link, connection, mtuKnown, characteristic,
                  notification, uiState >>

(* requestMtu throws: getMtuSize rethrows and the handler is abandoned.    *)
MtuThrows(s) ==
  /\ handshake[s] = "mtu"
  /\ handshake' = [handshake EXCEPT ![s] = "failed"]
  /\ UNCHANGED << target, sub, link, connection, mtuKnown, bleConnError,
                  characteristic, notification, uiState >>

(* One tick of the 1 s handshake timer of session s.  With a stream, the   *)
(* set-time command is written to _characteristic! and the timer ends;     *)
(* without one, notifications are enabled.  The test for a disconnected    *)
(* update that follows reads the captured "connected" update: never true.  *)
HandshakeTick(s) ==
  /\ handshake[s] = "ticking"
  /\ \/ /\ notification # NullStream
        /\ characteristic # NoDevice
        /\ handshake' = [handshake EXCEPT ![s] = "done"]
        /\ UNCHANGED << characteristic, notification >>
     \/ /\ notification = NullStream
        /\ EnableNotification(target[s])
        /\ UNCHANGED handshake
  /\ UNCHANGED << target, sub, link, connection, mtuKnown, bleConnError,
                  uiState >>

-----------------------------------------------------------------------------
SessionStep(s) ==
  \/ CancelCompletes(s)
  \/ OnConnecting(s)
  \/ OnConnected(s)
  \/ OnDisconnecting(s)
  \/ OnDisconnected(s)
  \/ MtuNegotiated(s)
  \/ MtuZero(s)
  \/ MtuThrows(s)
  \/ HandshakeTick(s)

(* Whatever UI calls it: connect and disconnect may come at any time.      *)
Next ==
  \/ \E d \in Device : Connect(d)
  \/ Disconnect
  \/ \E s \in Session : SessionStep(s)

Spec == Init /\ [][Next]_vars

-----------------------------------------------------------------------------
(* Properties *)

(* _characteristic is null exactly when _bleNotificationStream is, and     *)
(* both name the same device: the handshake timer, which tests only the    *)
(* stream before setTime writes to _characteristic!, never dereferences    *)
(* null, whichever closures of old sessions ran in between.                *)
CharacteristicFollowsStream == characteristic = notification.device

(* The screen shows "connected" only while some session has a link the     *)
(* plugin has not reported lost and whose cancel is not over: every way a  *)
(* session can end reports it, also when _connection was overwritten.      *)
ConnectedIsBacked ==
  uiState = "connected" =>
    \E s \in Session : /\ sub[s] \in {"live", "cancelling"}
                       /\ link[s] = "connected"

(* While an MTU error is recorded, the session in _connection is being     *)
(* torn down or gone, though the failing handler may be an older one's.    *)
MtuErrorTearsDown ==
  bleConnError = "getMtuSize" =>
    connection # 0 /\ sub[connection] \in {"cancelling", "closed"}

=============================================================================
