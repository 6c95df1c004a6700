------------------------- MODULE BleInteractor_proofs -------------------------
(***************************************************************************)
(* Proofs about BleInteractor (any caller) and DeviceScreen (the app's own *)
(* screen), for every set of devices and every number of sessions.         *)
(*                                                                         *)
(* The three invariants of BleInteractor are inductive relative to TypeOK; *)
(* DeviceScreen only drives BleInteractor through its operations, so they  *)
(* carry over by the step simulation ScreenStep.                           *)
(***************************************************************************)
EXTENDS DeviceScreen, TLAPS

(* The sessions that connect() has started, and what the others are still  *)
(* like: the strengthening TypeOK needs, since a handshake timer hands its *)
(* session's target to the characteristic.                                 *)
StartedSessions ==
  \A s \in Session :
    IF s <= connection
      THEN target[s] \in Device /\ sub[s] # "unused"
      ELSE sub[s] = "unused" /\ handshake[s] = "idle"

TypeInv == TypeOK /\ StartedSessions

USE NoDeviceAssumption, MaxSessionsAssumption
    DEF SubState, LinkState, UiState, HandshakeState

(* No session is started at first.                                         *)
LEMMA InitTyped == Init => TypeInv
<1> SUFFICES ASSUME Init PROVE TypeInv
  OBVIOUS
<1>1. target \in [Session -> Device \cup {NoDevice}]
  BY DEF Init
<1>2. sub \in [Session -> SubState] /\ link \in [Session -> LinkState]
      /\ handshake \in [Session -> HandshakeState]
  BY DEF Init
<1>3. connection \in 0 .. MaxSessions
  BY DEF Init
<1>4. TypeOK
  BY <1>1, <1>2, <1>3 DEF Init, TypeOK
<1>5. StartedSessions
  BY DEF Init, StartedSessions, Session
<1>6. QED
  BY <1>4, <1>5 DEF TypeInv

(* A stream that EnableNotification stores is well formed.                 *)
LEMMA EnabledStream ==
  ASSUME NEW d \in Device, EnableNotification(d)
  PROVE  characteristic' = d /\ notification' \in NotificationStream
         /\ notification'.device = d
<1>1. PICK l \in (IF Carriers(d) = {} THEN {0} ELSE Carriers(d)) :
        notification' = [device |-> d, link |-> l]
  BY DEF EnableNotification
<1>2. l \in 0 .. MaxSessions
  BY <1>1 DEF Carriers, Session
<1>3. QED
  BY <1>1, <1>2 DEF EnableNotification, NotificationStream

(* What disconnect() leaves behind up to its await.                        *)
LEMMA TearDownTyped ==
  ASSUME TypeOK, StartedSessions, TearDown
  PROVE  /\ sub' \in [Session -> SubState]
         /\ \A s \in Session : sub'[s] = "unused" <=> sub[s] = "unused"
         /\ sub'[connection] \in {"cancelling", "closed"}
         /\ uiState' \in {uiState, "disconnected"}
         /\ characteristic' = NoDevice /\ notification' = NullStream
<1>1. connection \in Session /\ sub[connection] # "unused"
  BY DEF TypeOK, StartedSessions, TearDown, Session
<1>2. QED
  BY <1>1 DEF TypeOK, TearDown, DisableNotification

(* One step per operation; only TearDown and EnableNotification need their *)
(* lemma.                                                                  *)
LEMMA StepTyped == TypeInv /\ [Next]_vars => TypeInv'
<1> SUFFICES ASSUME TypeOK, StartedSessions, [Next]_vars
             PROVE  TypeOK' /\ StartedSessions'
  BY DEF TypeInv
<1>1. ASSUME NEW d \in Device, Connect(d)
      PROVE  TypeOK' /\ StartedSessions'
  BY <1>1 DEF TypeOK, StartedSessions, Connect, Session
<1>2. CASE Disconnect
  BY <1>2, TearDownTyped DEF TypeOK, StartedSessions, Disconnect
<1>3. ASSUME NEW s \in Session, SessionStep(s)
      PROVE  TypeOK' /\ StartedSessions'
  <2>1. CASE CancelCompletes(s)
    BY <2>1 DEF TypeOK, StartedSessions, CancelCompletes
  <2>2. CASE OnConnecting(s)
    BY <2>2 DEF TypeOK, StartedSessions, OnConnecting, Update
  <2>3. CASE OnConnected(s)
    BY <2>3 DEF TypeOK, StartedSessions, OnConnected, Update
  <2>4. CASE OnDisconnecting(s)
    BY <2>4 DEF TypeOK, StartedSessions, OnDisconnecting, Update
  <2>5. CASE OnDisconnected(s)
    BY <2>5 DEF TypeOK, StartedSessions, OnDisconnected, Update,
                DisableNotification
  <2>6. CASE MtuNegotiated(s)
    BY <2>6 DEF TypeOK, StartedSessions, MtuNegotiated
  <2>7. CASE MtuZero(s)
    <3>1. handshake' = [handshake EXCEPT ![s] = "ticking"]
          /\ handshake[s] # "idle"
          /\ UNCHANGED << target, link, connection >>
          /\ mtuKnown' \in BOOLEAN /\ bleConnError' \in {"none", "getMtuSize"}
      BY <2>7 DEF MtuZero
    <3>2. TypeOK'
      BY <2>7, <3>1, TearDownTyped DEF MtuZero, TypeOK
    <3>3. StartedSessions'
      BY <2>7, <3>1, TearDownTyped DEF MtuZero, TypeOK, StartedSessions
    <3>4. QED
      BY <3>2, <3>3
  <2>8. CASE MtuThrows(s)
    BY <2>8 DEF TypeOK, StartedSessions, MtuThrows
  <2>9. CASE HandshakeTick(s)
    <3>1. handshake' \in [Session -> HandshakeState] /\ StartedSessions'
      BY <2>9 DEF TypeOK, StartedSessions, HandshakeTick
    <3>2. CASE UNCHANGED << characteristic, notification >>
      BY <2>9, <3>1, <3>2 DEF TypeOK, HandshakeTick
    <3>3. CASE EnableNotification(target[s])
      <4>1. target[s] \in Device
        BY <2>9 DEF StartedSessions, HandshakeTick
      <4>2. characteristic' \in Device /\ notification' \in NotificationStream
        BY <3>3, <4>1, EnabledStream
      <4>3. QED
        BY <2>9, <3>1, <4>2 DEF TypeOK, HandshakeTick
    <3>4. QED
      BY <2>9, <3>2, <3>3 DEF HandshakeTick
  <2>10. QED
    BY <1>3, <2>1, <2>2, <2>3, <2>4, <2>5, <2>6, <2>7, <2>8, <2>9
    DEF SessionStep
<1>4. CASE UNCHANGED vars
  BY <1>4 DEF TypeOK, StartedSessions, vars
<1>5. QED
  BY <1>1, <1>2, <1>3, <1>4 DEF Next

(* Every operation keeps every variable of the connection in its type: in  *)
(* particular only the error codes none and getMtuSize are ever recorded,  *)
(* and no timer enables notifications for a session without a device.      *)
THEOREM TypeCorrect == Spec => []TypeOK
<1>1. TypeInv => TypeOK
  BY DEF TypeInv
<1>2. QED
  BY InitTyped, StepTyped, <1>1, PTL DEF Spec

-----------------------------------------------------------------------------
(* The safety invariants *)

SafetyInv ==
  /\ TypeInv
  /\ CharacteristicFollowsStream
  /\ ConnectedIsBacked
  /\ MtuErrorTearsDown

(* Nothing is connected, subscribed or failed at first.                    *)
LEMMA InitSafe == Init => SafetyInv
<1> SUFFICES ASSUME Init PROVE SafetyInv
  OBVIOUS
<1>1. CharacteristicFollowsStream
  BY DEF Init, CharacteristicFollowsStream, NullStream
<1>2. ConnectedIsBacked /\ MtuErrorTearsDown
  BY DEF Init, ConnectedIsBacked, MtuErrorTearsDown
<1>3. QED
  BY <1>1, <1>2, InitTyped DEF SafetyInv

(* _characteristic and _bleNotificationStream are set and cleared          *)
(* together by every operation that touches either.                        *)
LEMMA CharacteristicStep ==
  ASSUME TypeInv, CharacteristicFollowsStream, [Next]_vars
  PROVE  CharacteristicFollowsStream'
<1> USE DEF CharacteristicFollowsStream
<1>1. CASE UNCHANGED << characteristic, notification >>
  BY <1>1
<1>2. CASE DisableNotification
  BY <1>2 DEF DisableNotification, NullStream
<1>3. ASSUME NEW s \in Session, handshake[s] = "ticking",
             EnableNotification(target[s])
      PROVE  CharacteristicFollowsStream'
  <2>1. target[s] \in Device
    BY <1>3 DEF TypeInv, StartedSessions
  <2>2. QED
    BY <1>3, <2>1, EnabledStream
<1>4. ASSUME NEW s \in Session, SessionStep(s)
      PROVE  CharacteristicFollowsStream'
  <2>1. CASE HandshakeTick(s)
    BY <1>1, <1>3, <2>1 DEF HandshakeTick
  <2>2. CASE OnDisconnected(s) \/ MtuZero(s)
    BY <1>2, <2>2 DEF OnDisconnected, MtuZero, TearDown
  <2>3. QED
    BY <1>1, <1>4, <2>1, <2>2
    DEF SessionStep, CancelCompletes, OnConnecting, OnConnected,
        OnDisconnecting, MtuNegotiated, MtuThrows
<1>5. QED
  BY <1>1, <1>2, <1>4 DEF Next, vars, Connect, Disconnect, TearDown

(* A session that leaves live and cancelling, or whose link goes down,     *)
(* makes the same step report another state to the UI.                     *)
LEMMA ConnectedStep ==
  ASSUME TypeInv, ConnectedIsBacked, [Next]_vars
  PROVE  ConnectedIsBacked'
<1> USE DEF TypeInv, TypeOK, Session
<1> DEFINE Backs(s) == sub[s] \in {"live", "cancelling"} /\ link[s] = "connected"
<1> SUFFICES ASSUME uiState' = "connected"
             PROVE  \E s \in Session : Backs(s)'
  BY DEF ConnectedIsBacked
<1>1. CASE uiState = "connected" /\ UNCHANGED << sub, link >>
  BY <1>1 DEF ConnectedIsBacked
<1>2. CASE TearDown /\ UNCHANGED link
  <2>1. uiState = "connected" /\ sub' = [sub EXCEPT ![connection] = "cancelling"]
    BY <1>2 DEF TearDown
  <2>2. PICK s \in Session : Backs(s)
    BY <2>1 DEF ConnectedIsBacked
  <2>3. Backs(s)'
    BY <1>2, <2>1, <2>2
  <2>4. QED
    BY <2>3
<1>3. ASSUME NEW d \in Device, Connect(d)
      PROVE  \E s \in Session : Backs(s)'
  <2>1. PICK s \in Session : Backs(s)
    BY <1>3 DEF ConnectedIsBacked, Connect
  <2>2. Backs(s)'
    BY <1>3, <2>1 DEF Connect
  <2>3. QED
    BY <2>2
<1>4. ASSUME NEW s \in Session, SessionStep(s)
      PROVE  \E t \in Session : Backs(t)'
  <2>1. CASE OnConnected(s)
    <3>1. Backs(s)'
      BY <2>1 DEF OnConnected, Update
    <3>2. QED
      BY <3>1
  <2>2. CASE MtuZero(s)
    BY <1>2, <2>2 DEF MtuZero
  <2>3. CASE MtuNegotiated(s) \/ MtuThrows(s) \/ HandshakeTick(s)
    BY <1>1, <2>3 DEF MtuNegotiated, MtuThrows, HandshakeTick
  <2>4. QED
    BY <1>4, <2>1, <2>2, <2>3
    DEF SessionStep, CancelCompletes, OnConnecting, OnDisconnecting,
        OnDisconnected
<1>5. QED
  BY <1>1, <1>2, <1>3, <1>4 DEF Next, vars, Disconnect

(* Only Connect makes a session live, and it clears the error; only MtuZero *)
(* records it, and it tears _connection down.                              *)
LEMMA MtuErrorStep ==
  ASSUME TypeInv, MtuErrorTearsDown, [Next]_vars
  PROVE  MtuErrorTearsDown'
<1> USE DEF TypeInv, MtuErrorTearsDown
<1>1. CASE UNCHANGED << bleConnError, sub, connection >>
  BY <1>1
<1>2. CASE TearDown /\ UNCHANGED connection
  BY <1>2, TearDownTyped DEF TearDown
<1>3. ASSUME NEW d \in Device, Connect(d)
      PROVE  MtuErrorTearsDown'
  BY <1>3 DEF Connect
<1>4. ASSUME NEW s \in Session, SessionStep(s)
      PROVE  MtuErrorTearsDown'
  <2>1. CASE CancelCompletes(s)
    BY <2>1 DEF CancelCompletes, TypeOK, Session
  <2>2. CASE OnDisconnected(s)
    BY <2>2 DEF OnDisconnected, TypeOK, Session
  <2>3. CASE MtuZero(s)
    BY <1>2, <2>3 DEF MtuZero
  <2>4. QED
    BY <1>1, <1>4, <2>1, <2>2, <2>3
    DEF SessionStep, OnConnecting, OnConnected, OnDisconnecting,
        MtuNegotiated, MtuThrows, HandshakeTick
<1>5. QED
  BY <1>1, <1>2, <1>3, <1>4 DEF Next, vars, Disconnect

(* SafetyInv is inductive.                                                 *)
LEMMA SafetyInductive == Spec => []SafetyInv
<1>1. SafetyInv /\ [Next]_vars => SafetyInv'
  BY StepTyped, CharacteristicStep, ConnectedStep, MtuErrorStep DEF SafetyInv
<1>2. QED
  BY InitSafe, <1>1, PTL DEF Spec

(* The null assertion of setTime in the handshake timer never fails,       *)
(* whoever calls connect and disconnect and whenever.                      *)
THEOREM TimerNeverDereferencesNull == Spec => []CharacteristicFollowsStream
<1>1. SafetyInv => CharacteristicFollowsStream
  BY DEF SafetyInv
<1>2. QED
  BY SafetyInductive, <1>1, PTL

(* "Connected" is never shown without a session that has its link.         *)
THEOREM ConnectedIsTrue == Spec => []ConnectedIsBacked
<1>1. SafetyInv => ConnectedIsBacked
  BY DEF SafetyInv
<1>2. QED
  BY SafetyInductive, <1>1, PTL

(* A recorded MTU error means the current session is being torn down.      *)
THEOREM MtuErrorDisconnects == Spec => []MtuErrorTearsDown
<1>1. SafetyInv => MtuErrorTearsDown
  BY DEF SafetyInv
<1>2. QED
  BY SafetyInductive, <1>1, PTL

-----------------------------------------------------------------------------
(* The device screen *)

KnownScreen == screen \in Device \cup {NoDevice}

(* Every step of the screen is one operation of BleInteractor.             *)
LEMMA ScreenStep == KnownScreen /\ [ScreenNext]_screenVars =>
                      [Next]_vars /\ KnownScreen'
<1> SUFFICES ASSUME KnownScreen, [ScreenNext]_screenVars
             PROVE  [Next]_vars /\ KnownScreen'
  OBVIOUS
<1> USE DEF KnownScreen, Next
<1>1. ASSUME NEW d \in Device, OpenScreen(d)
      PROVE  [Next]_vars /\ KnownScreen'
  BY <1>1 DEF OpenScreen, StartSession
<1>2. CASE PressConnect
  BY <1>2 DEF PressConnect, StartSession
<1>3. CASE PressDisconnect \/ Back \/ HandleBleErrors
  BY <1>3 DEF PressDisconnect, Back, HandleBleErrors
<1>4. ASSUME NEW s \in Session, SessionStep(s), UNCHANGED screen
      PROVE  [Next]_vars /\ KnownScreen'
  BY <1>4
<1>5. CASE UNCHANGED screenVars
  BY <1>5 DEF screenVars, vars
<1>6. QED
  BY <1>1, <1>2, <1>3, <1>4, <1>5 DEF ScreenNext, User

(* The screen drives BleInteractor only through connect and disconnect, so *)
(* every theorem above holds of the app's own use of it.                   *)
THEOREM ScreenImplementsInteractor == ScreenSpec => Spec
<1>1. ScreenInit => Init /\ KnownScreen
  BY DEF ScreenInit, KnownScreen
<1>2. QED
  BY <1>1, ScreenStep, PTL DEF ScreenSpec, Spec

(* A session that is not open has no link.                                 *)
ClosedIsDown ==
  \A s \in Session : sub[s] \in {"unused", "closed"} => link[s] = "down"

(* The newest session is alone unless the history says otherwise.          *)
AloneUnlessOverlapped ==
  connection # 0 /\ connection \notin overlapped =>
    \A t \in 1 .. (connection - 1) : sub[t] = "closed"

(* A session ends only together with its link.                             *)
LEMMA ClosedStep == TypeInv /\ ClosedIsDown /\ [Next]_vars => ClosedIsDown'
<1> SUFFICES ASSUME TypeInv, ClosedIsDown, [Next]_vars PROVE ClosedIsDown'
  OBVIOUS
<1> USE DEF ClosedIsDown, TypeInv, TypeOK, Session
<1>1. CASE UNCHANGED << sub, link >>
  BY <1>1
<1>2. CASE TearDown /\ UNCHANGED link
  BY <1>2 DEF TearDown, StartedSessions
<1>3. ASSUME NEW d \in Device, Connect(d) PROVE ClosedIsDown'
  BY <1>3 DEF Connect, StartedSessions
<1>4. ASSUME NEW s \in Session, SessionStep(s) PROVE ClosedIsDown'
  BY <1>1, <1>2, <1>4
  DEF SessionStep, CancelCompletes, Update, OnConnecting, OnConnected,
      OnDisconnecting, OnDisconnected, MtuNegotiated, MtuZero, MtuThrows,
      HandshakeTick
<1>5. QED
  BY <1>1, <1>2, <1>3, <1>4 DEF Next, vars, Disconnect

(* A closed session stays closed.                                          *)
LEMMA ClosedForGood ==
  ASSUME TypeInv, [Next]_vars, NEW t \in Session, t <= connection,
         sub[t] = "closed"
  PROVE  sub'[t] = "closed"
BY DEF TypeInv, TypeOK, Session, Next, vars, Connect, Disconnect, TearDown,
       SessionStep, CancelCompletes, Update, OnConnecting, OnConnected,
       OnDisconnecting, OnDisconnected, MtuNegotiated, MtuZero, MtuThrows,
       HandshakeTick

(* overlapped grows by sessions only, and by the newest only when an older *)
(* one has not ended.                                                      *)
LEMMA OverlapStep ==
  ASSUME TypeInv, ScreenTypeOK, [ScreenNext]_screenVars
  PROVE  /\ ScreenTypeOK'
         /\ \/ connection' = connection /\ overlapped' = overlapped
            \/ \E d \in Device : StartSession(d)
<1> USE DEF ScreenTypeOK, TypeInv, TypeOK, Session
<1>1. ASSUME NEW d \in Device, StartSession(d)
      PROVE  overlapped' \subseteq Session
  <2>1. connection + 1 \in Session
    BY <1>1 DEF StartSession, Connect
  <2>2. overlapped' \subseteq overlapped \cup {connection + 1}
    BY <1>1 DEF StartSession
  <2>3. QED
    BY ONLY <2>1, <2>2, ScreenTypeOK DEF ScreenTypeOK
<1>2. ASSUME NEW d \in Device, OpenScreen(d)
      PROVE  screen' \in Device /\ StartSession(d)
  BY <1>2 DEF OpenScreen
<1>3. CASE PressConnect
  BY <1>1, <1>3 DEF PressConnect
<1>4. CASE PressDisconnect \/ Back \/ HandleBleErrors
  BY <1>4 DEF PressDisconnect, Back, HandleBleErrors, Disconnect
<1>5. ASSUME NEW s \in Session, SessionStep(s),
             UNCHANGED << screen, overlapped >>
      PROVE  UNCHANGED << screen, overlapped, connection >>
  BY <1>5
  DEF SessionStep, CancelCompletes, OnConnecting, OnConnected,
      OnDisconnecting, OnDisconnected, MtuNegotiated, MtuZero, MtuThrows,
      HandshakeTick
<1>6. CASE UNCHANGED screenVars
  BY <1>6 DEF screenVars, vars
<1>7. QED
  BY <1>1, <1>2, <1>3, <1>4, <1>5, <1>6 DEF ScreenNext, User

LEMMA AloneStep ==
  ASSUME TypeInv, ScreenTypeOK, AloneUnlessOverlapped, [Next]_vars,
         [ScreenNext]_screenVars
  PROVE  AloneUnlessOverlapped'
<1>1. CASE connection' = connection /\ overlapped' = overlapped
  <2> SUFFICES ASSUME connection # 0, connection \notin overlapped,
                      NEW t \in 1 .. (connection - 1)
               PROVE  sub'[t] = "closed"
    BY <1>1 DEF AloneUnlessOverlapped
  <2>1. t \in Session /\ t <= connection /\ sub[t] = "closed"
    BY DEF AloneUnlessOverlapped, TypeInv, TypeOK, Session
  <2>2. QED
    BY <2>1, ClosedForGood
<1>2. ASSUME NEW d \in Device, StartSession(d)
      PROVE  AloneUnlessOverlapped'
  <2>1. /\ connection \in Nat /\ connection' = connection + 1
        /\ connection + 1 \in Session
        /\ \A t \in 1 .. connection : t \in Session
        /\ \A t \in Session \ {connection + 1} : sub'[t] = sub[t]
    BY <1>2 DEF StartSession, Connect, TypeInv, TypeOK, Session
  <2>2. connection + 1 \notin overlapped'
          => \A t \in 1 .. connection : sub[t] = "closed"
    BY <1>2 DEF StartSession
  <2>3. QED
    BY <2>1, <2>2 DEF AloneUnlessOverlapped
<1>3. QED
  BY <1>1, <1>2, OverlapStep

(* When the newest session is alone, whoever reports "disconnected" is     *)
(* that session, and its link is down by then.                             *)
LEMMA DisconnectedStep ==
  ASSUME TypeInv, ScreenTypeOK, ClosedIsDown, AloneUnlessOverlapped,
         DisconnectedIsTrue, [Next]_vars, [ScreenNext]_screenVars
  PROVE  DisconnectedIsTrue'
<1> USE DEF DisconnectedIsTrue, TypeInv, TypeOK, Session
<1>1. ASSUME NEW d \in Device, StartSession(d)
      PROVE  DisconnectedIsTrue'
  <2>1. link' = link /\ connection' = connection + 1
        /\ connection + 1 \in Session /\ sub[connection + 1] = "unused"
    BY <1>1 DEF StartSession, Connect, StartedSessions
  <2>2. QED
    BY <2>1 DEF ClosedIsDown
<1>2. CASE connection' = connection /\ overlapped' = overlapped
  <2> SUFFICES ASSUME uiState' = "disconnected", connection # 0,
                      connection \notin overlapped
               PROVE  link'[connection] = "down"
    BY <1>2
  <2>0. \A s \in Session : sub[s] \in {"live", "cancelling"} => s = connection
    BY DEF AloneUnlessOverlapped, StartedSessions
  <2>1. CASE UNCHANGED << uiState, link >>
    BY <2>1
  <2>2. CASE TearDown /\ UNCHANGED link
    BY <2>2 DEF TearDown, ClosedIsDown
  <2>3. ASSUME NEW s \in Session, SessionStep(s)
        PROVE  link'[connection] = "down"
    <3>1. CASE CancelCompletes(s)
      BY <2>0, <3>1 DEF CancelCompletes
    <3>2. CASE OnDisconnected(s)
      BY <2>0, <3>2 DEF OnDisconnected, Update
    <3>3. CASE MtuZero(s)
      BY <2>2, <3>3 DEF MtuZero
    <3>4. QED
      BY <2>1, <2>3, <3>1, <3>2, <3>3
      DEF SessionStep, OnConnecting, OnConnected, OnDisconnecting,
          MtuNegotiated, MtuThrows, HandshakeTick
  <2>4. ASSUME NEW d \in Device, Connect(d)
        PROVE  link'[connection] = "down"
    BY <1>2, <2>4 DEF Connect
  <2>5. QED
    BY <2>1, <2>2, <2>3, <2>4 DEF Next, vars, Disconnect
<1>3. QED
  BY <1>1, <1>2, OverlapStep

(* The UI says "disconnected" only of a newest session without a link,     *)
(* unless an older session was still open when the newest started: so the  *)
(* button offers to connect over a live session only after an overlap.     *)
THEOREM DisconnectedIsHonest == ScreenSpec => []DisconnectedIsTrue
<1> DEFINE Inv == /\ TypeInv /\ ScreenTypeOK /\ KnownScreen /\ ClosedIsDown
                  /\ AloneUnlessOverlapped /\ DisconnectedIsTrue
<1>1. ScreenInit => Inv
  <2>1. ScreenInit => ClosedIsDown /\ AloneUnlessOverlapped
                       /\ DisconnectedIsTrue /\ ScreenTypeOK
    BY DEF ScreenInit, Init, ClosedIsDown, AloneUnlessOverlapped,
           DisconnectedIsTrue, ScreenTypeOK, Session
  <2>2. QED
    BY <2>1, InitTyped DEF ScreenInit, KnownScreen
<1>2. Inv /\ [ScreenNext]_screenVars => Inv'
  BY ScreenStep, StepTyped, OverlapStep, ClosedStep, AloneStep,
     DisconnectedStep
<1>3. Inv => DisconnectedIsTrue
  OBVIOUS
<1>4. QED
  BY <1>1, <1>2, <1>3, PTL DEF ScreenSpec

(* What clears the characteristic of a session whose handshake is done is  *)
(* its own tear-down or the end of an older session; the latter reports    *)
(* "disconnected", and only an older session that is still open can make   *)
(* the screen read "connected" again.                                      *)
LEMMA DoneHandshakeStep ==
  ASSUME TypeInv, DoneHandshakeCanCommand, [Next]_vars
  PROVE  DoneHandshakeCanCommand'
<1> USE DEF DoneHandshakeCanCommand, TypeInv, TypeOK
<1>1. CASE UNCHANGED << uiState, connection, handshake, sub, characteristic >>
  BY <1>1
<1>2. CASE uiState' # "connected"
  BY <1>2
<1>3. CASE TearDown /\ UNCHANGED connection
  BY <1>3, TearDownTyped
<1>4. ASSUME NEW d \in Device, Connect(d)
      PROVE  DoneHandshakeCanCommand'
  BY <1>4 DEF Connect, StartedSessions, Session
<1>5. ASSUME NEW s \in Session, SessionStep(s)
      PROVE  DoneHandshakeCanCommand'
  <2>1. CASE OnConnected(s)
    BY <2>1 DEF OnConnected, Update, StartedSessions, Session
  <2>2. CASE MtuNegotiated(s)
    BY <2>2 DEF MtuNegotiated
  <2>3. CASE MtuZero(s)
    BY <1>3, <2>3 DEF MtuZero
  <2>4. CASE MtuThrows(s)
    BY <2>4 DEF MtuThrows
  <2>5. CASE HandshakeTick(s)
    <3>1. CASE characteristic # NoDevice /\ UNCHANGED characteristic
      BY <3>1
    <3>2. CASE EnableNotification(target[s])
      <4>1. target[s] \in Device
        BY <2>5 DEF StartedSessions, HandshakeTick
      <4>2. QED
        BY <3>2, <4>1, EnabledStream
    <3>3. QED
      BY <2>5, <3>1, <3>2 DEF HandshakeTick
  <2>6. QED
    BY <1>2, <1>5, <2>1, <2>2, <2>3, <2>4, <2>5
    DEF SessionStep, CancelCompletes, OnConnecting, OnDisconnecting,
        OnDisconnected
<1>6. QED
  BY <1>1, <1>3, <1>4, <1>5 DEF Next, vars, Disconnect

(* The command buttons of a screen that reads "connected" never find a     *)
(* null characteristic once the handshake is done, unless an earlier       *)
(* session was leaked or is still being cancelled.                         *)
THEOREM CommandsHaveCharacteristic == ScreenSpec => []DoneHandshakeCanCommand
<1>1. Init => DoneHandshakeCanCommand
  BY DEF Init, DoneHandshakeCanCommand
<1>2. TypeInv /\ DoneHandshakeCanCommand /\ [Next]_vars
        => (TypeInv /\ DoneHandshakeCanCommand)'
  BY StepTyped, DoneHandshakeStep
<1>3. Spec => []DoneHandshakeCanCommand
  BY <1>1, <1>2, InitTyped, PTL DEF Spec
<1>4. QED
  BY <1>3, ScreenImplementsInteractor, PTL

=============================================================================
