------------------------- MODULE InteractionTab_proofs -------------------------
(***************************************************************************)
(* Proofs about InteractionTab, for every set of devices and every number  *)
(* of sessions.  The tab drives BleInteractor only through DeviceScreen's  *)
(* operations, so what BleInteractor_proofs shows holds of it, too; what   *)
(* the tab adds rests on TabInv.                                           *)
(***************************************************************************)
EXTENDS InteractionTab, BleInteractor_proofs

USE NoDeviceAssumption, MaxSessionsAssumption
    DEF SubState, LinkState, UiState, HandshakeState

Started == 1 .. connection

(* Only sessions that were started have a tab, a timer or a listener, so a *)
(* new session finds none of them; a timer belongs to a tab; an open       *)
(* screen has one.                                                         *)
TabsKnown ==
  /\ mounted \cup lastDown \subseteq Started
  /\ listeners \cup late \subseteq Started
  /\ held \in [Session -> Started \cup {0}]
  /\ \A s \in Session : IF timer[s] = "none" THEN s \notin listeners \cup late
                        ELSE s \in Started /\ owner[s] \in Started
  /\ screen # NoDevice => tab # 0

TabInv == TypeInv /\ TabTypeOK /\ TabsKnown

(* Nothing is open at first.                                               *)
LEMMA TabInitTyped == TabInit => TabInv
<1> SUFFICES ASSUME TabInit PROVE TabInv
  OBVIOUS
<1>1. TypeInv /\ ScreenTypeOK
  BY InitTyped DEF TabInit, ScreenInit, ScreenTypeOK
<1>2. /\ owner \in [Session -> Session \cup {0}]
      /\ timer \in [Session -> TimerState]
      /\ held \in [Session -> Started \cup {0}]
  BY DEF TabInit, TimerState
<1>3. QED
  BY <1>1, <1>2 DEF TabInit, ScreenInit, TabInv, TabTypeOK, TabsKnown

(* What a step of the tab is to the screen.                                *)
LEMMA TabStepsScreen == [TabNext]_interactionVars => [ScreenNext]_screenVars
BY DEF TabNext, interactionVars, OpenTab, PressTabConnect, PressTabDisconnect,
       CloseTab, TabTick, Dispose, ScreenNext, User

(* A step of a session leaves _connection alone.                           *)
LEMMA SessionKeepsConnection ==
  ASSUME NEW s \in Session, SessionStep(s)
  PROVE  UNCHANGED connection
BY DEF SessionStep, CancelCompletes, OnConnecting, OnConnected, OnDisconnecting,
       OnDisconnected, MtuNegotiated, MtuZero, MtuThrows, HandshakeTick

(* A new session is one more that was started.                             *)
LEMMA StartedGrows ==
  ASSUME connection \in Nat, connection + 1 \in Session,
         connection' = connection + 1
  PROVE  /\ Started' = Started \cup {connection + 1}
         /\ connection + 1 \notin Started
         /\ Started' \subseteq Session
BY DEF Started, Session

(* A new session and its timer.                                            *)
LEMMA NewTimer ==
  ASSUME TabInv, NEW t \in Started', connection + 1 \in Session,
         connection' = connection + 1, StartTimer(t),
         UNCHANGED << listeners, late, held >>
  PROVE  /\ owner' \in [Session -> Session \cup {0}]
         /\ timer' \in [Session -> TimerState]
         /\ \A s \in listeners' \cup late' : timer'[s] = "listening"
         /\ \A u \in Session : held'[u] = 0 \/ owner'[held'[u]] = u
         /\ listeners' \cup late' \subseteq Started'
         /\ held' \in [Session -> Started' \cup {0}]
         /\ \A s \in Session : IF timer'[s] = "none"
                                 THEN s \notin listeners' \cup late'
                                 ELSE s \in Started' /\ owner'[s] \in Started'
<1> USE DEF TabInv, TabsKnown, TabTypeOK, TimerState
<1>1. connection \in Nat /\ Started \subseteq Started'
      /\ connection + 1 \in Started' \ Started /\ Started' \subseteq Session
  BY DEF TypeInv, TypeOK, Session, Started
<1>2. owner' = [owner EXCEPT ![connection + 1] = t]
      /\ timer' = [timer EXCEPT ![connection + 1] = "ticking"]
  BY DEF StartTimer
<1> HIDE DEF Started
<1>3. QED
  BY <1>1, <1>2

(* One step per action.                                                    *)
LEMMA TabStepTyped == TabInv /\ [TabNext]_interactionVars => TabInv'
<1> SUFFICES ASSUME TabInv, [TabNext]_interactionVars PROVE TabInv'
  OBVIOUS
<1>0. TypeInv' /\ ScreenTypeOK' /\ connection \in Nat
  <2>1. [Next]_vars /\ KnownScreen
    BY TabStepsScreen, ScreenStep DEF TabInv, TabTypeOK, ScreenTypeOK, KnownScreen
  <2>2. QED
    BY <2>1, TabStepsScreen, OverlapStep, StepTyped
       DEF TabInv, TabTypeOK, TypeInv, TypeOK
<1> USE DEF TabInv, TabTypeOK, TabsKnown
<1>1. ASSUME NEW d \in Device, OpenTab(d)
      PROVE  TabInv'
  <2>1. connection' = connection + 1 /\ connection + 1 \in Session
        /\ StartTimer(connection + 1) /\ UNCHANGED << listeners, late, held >>
    BY <1>0, <1>1 DEF OpenTab, OpenScreen, StartSession, Connect, TypeInv, TypeOK, Session
  <2>2. Started' = Started \cup {connection + 1} /\ connection + 1 \notin Started
        /\ Started' \subseteq Session
    BY <1>0, <2>1, StartedGrows
  <2>3. tab' = connection + 1 /\ mounted' = mounted \cup {connection + 1}
        /\ UNCHANGED lastDown
    BY <1>1 DEF OpenTab
  <2> HIDE DEF Started
  <2>4. QED
    BY <1>0, <2>1, <2>2, <2>3, NewTimer
<1>2. CASE PressTabConnect
  <2>1. connection' = connection + 1 /\ connection + 1 \in Session
        /\ StartTimer(tab) /\ UNCHANGED << listeners, late, held >>
        /\ UNCHANGED << tab, mounted, lastDown, screen >> /\ screen # NoDevice
    BY <1>0, <1>2 DEF PressTabConnect, PressConnect, StartSession, Connect,
                      TypeInv, TypeOK, Session
  <2>2. Started' = Started \cup {connection + 1} /\ connection + 1 \notin Started
        /\ Started' \subseteq Session
    BY <1>0, <2>1, StartedGrows
  <2>3. tab \in Started'
    BY <2>1, <2>2
  <2> HIDE DEF Started
  <2>4. QED
    BY <1>0, <2>1, <2>2, <2>3, NewTimer
<1>3. ASSUME UNCHANGED << connection, owner, timer, held >>,
             UNCHANGED << mounted, lastDown, late >>,
             listeners' \subseteq listeners, UNCHANGED << screen, tab >>
      PROVE  TabInv'
  BY <1>0, <1>3 DEF Started
<1>4. CASE PressTabDisconnect
  BY <1>3, <1>4 DEF PressTabDisconnect, PressDisconnect, Disconnect
<1>5. CASE CloseTab
  BY <1>0, <1>5 DEF CloseTab, Back, HandleBleErrors, Disconnect, Started
<1>6. ASSUME NEW s \in Session, SessionStep(s), UNCHANGED << screen, overlapped, tabVars >>
      PROVE  TabInv'
  BY <1>3, <1>6, SessionKeepsConnection DEF tabVars
<1>7. ASSUME NEW s \in Session, TabTick(s)
      PROVE  TabInv'
  <2>1. UNCHANGED << screen, connection, tab, owner, mounted, lastDown >>
        /\ timer[s] = "ticking"
    BY <1>7 DEF TabTick, screenVars, vars
  <2>2. s \in Started /\ owner[s] \in Started /\ Started' = Started
        /\ s \notin listeners \cup late /\ Started \subseteq Session
    BY <1>0, <2>1 DEF Started, Session, TypeInv, TypeOK
  <2> HIDE DEF Started
  <2>3. CASE /\ listeners' = listeners \cup {s}
             /\ held' = [held EXCEPT ![owner[s]] = s]
             /\ late' = late \cup {t \in {s} : owner[s] \notin mounted}
             /\ timer' = [timer EXCEPT ![s] = "listening"]
    BY <1>0, <2>1, <2>2, <2>3 DEF TimerState
  <2>4. CASE /\ timer' = [timer EXCEPT ![s] = "gaveUp"]
             /\ UNCHANGED << listeners, held, late >>
    BY <1>0, <2>1, <2>2, <2>4 DEF TimerState
  <2>5. QED
    BY <1>7, <2>3, <2>4 DEF TabTick
<1>8. ASSUME NEW t \in Session, Dispose(t)
      PROVE  TabInv'
  BY <1>0, <1>8 DEF Dispose, screenVars, vars, Started
<1>9. CASE UNCHANGED interactionVars
  BY <1>3, <1>9 DEF interactionVars, screenVars, vars, tabVars
<1>10. QED
  BY <1>1, <1>2, <1>4, <1>5, <1>6, <1>7, <1>8, <1>9 DEF TabNext

(* Every tab, timer and listener belongs to a session that _connect        *)
(* started, and a tab holds only listeners of its own timers.              *)
THEOREM TabTypeCorrect == TabSpec => []TabTypeOK
<1>1. TabInv => TabTypeOK
  BY DEF TabInv
<1>2. QED
  BY TabInitTyped, TabStepTyped, <1>1, PTL DEF TabSpec

(* The tab's timers and listeners add nothing to what the screen does to   *)
(* the connection, so every theorem about DeviceScreen and BleInteractor   *)
(* holds with them as well.                                                *)
THEOREM TabImplementsScreen == TabSpec => ScreenSpec
<1>1. TabInit => ScreenInit
  BY DEF TabInit
<1>2. QED
  BY <1>1, TabStepsScreen, PTL DEF TabSpec, ScreenSpec

(* A listener is added by a tick, which its tab then holds or which is     *)
(* late; a tab that is disposed takes the one it holds along.              *)
LEMMA OutliveStep ==
  ASSUME TabInv, OnlyLateOrReplacedOutlive, [TabNext]_interactionVars
  PROVE  OnlyLateOrReplacedOutlive'
<1> USE DEF TabInv, TabTypeOK, TabsKnown, OnlyLateOrReplacedOutlive
<1>0. connection \in Nat /\ Started \subseteq Session
  BY DEF TypeInv, TypeOK, Started, Session
<1>1. ASSUME NEW t \in Session \cup {0}, connection + 1 \in Session, StartTimer(t),
             mounted \subseteq mounted', UNCHANGED << listeners, late, held >>
      PROVE  OnlyLateOrReplacedOutlive'
  <2>1. \A s \in listeners : owner'[s] = owner[s]
    BY <1>0, <1>1 DEF StartTimer, Started
  <2>2. QED
    BY <1>1, <2>1
<1>2. ASSUME NEW d \in Device, OpenTab(d)
      PROVE  OnlyLateOrReplacedOutlive'
  BY <1>0, <1>1, <1>2 DEF OpenTab, OpenScreen, StartSession, Connect, Session
<1>3. CASE PressTabConnect
  <2>1. tab \in Session \cup {0}
    BY <1>0
  <2>2. QED
    BY <1>0, <1>1, <1>3, <2>1 DEF PressTabConnect, PressConnect, StartSession,
                           Connect, Session
<1>4. CASE PressTabDisconnect \/ CloseTab
  BY <1>4 DEF PressTabDisconnect, CloseTab
<1>5. CASE UNCHANGED tabVars
  BY <1>5 DEF tabVars
<1>6. ASSUME NEW s \in Session, TabTick(s)
      PROVE  OnlyLateOrReplacedOutlive'
  <2>1. CASE /\ listeners' = listeners \cup {s}
             /\ held' = [held EXCEPT ![owner[s]] = s]
             /\ late' = late \cup {t \in {s} : owner[s] \notin mounted}
    <3>1. UNCHANGED << owner, mounted >> /\ s \notin listeners
      BY <1>6 DEF TabTick
    <3>2. QED
      BY <1>0, <2>1, <3>1
  <2>2. CASE UNCHANGED << listeners, held, late >>
    BY <1>6, <2>2 DEF TabTick
  <2>3. QED
    BY <1>6, <2>1, <2>2 DEF TabTick
<1>7. ASSUME NEW t \in Session, Dispose(t)
      PROVE  OnlyLateOrReplacedOutlive'
  BY <1>7 DEF Dispose
<1>8. QED
  BY <1>2, <1>3, <1>4, <1>5, <1>6, <1>7 DEF TabNext, interactionVars, tabVars

(* Whatever the order of ticks, buttons and pop animations, a listener     *)
(* that outlives its tab was replaced by another one of that tab or added  *)
(* after the tab was gone.                                                 *)
THEOREM ListenersAreKnown == TabSpec => []OnlyLateOrReplacedOutlive
<1>1. TabInit => OnlyLateOrReplacedOutlive
  BY DEF TabInit, OnlyLateOrReplacedOutlive
<1>2. TabInv /\ OnlyLateOrReplacedOutlive /\ [TabNext]_interactionVars
        => (TabInv /\ OnlyLateOrReplacedOutlive)'
  BY TabStepTyped, OutliveStep
<1>3. QED
  BY <1>1, <1>2, TabInitTyped, PTL DEF TabSpec

=============================================================================
