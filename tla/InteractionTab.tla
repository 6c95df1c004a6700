---------------------------- MODULE InteractionTab ----------------------------
(***************************************************************************)
(* The interaction tab of the device screens on top of DeviceScreen:       *)
(* _DeviceInteractionTabState with the periodic timer that every _connect  *)
(* starts and the listener that timer adds to the response stream.         *)
(*                                                                         *)
(* Every _connect calls connect() once, so a timer and its listener are    *)
(* named by their session; a tab is named by the session its initState     *)
(* started.  A popped screen stays mounted until its animation ends; once  *)
(* disposed, a tab keeps the widget, so the status, it had last.           *)
(***************************************************************************)
EXTENDS DeviceScreen

VARIABLES
  tab,        \* the tab of the open screen, 0 without one
  owner,      \* the tab whose _connect started the session, or 0
  mounted,    \* tabs not disposed
  lastDown,   \* disposed tabs whose widget shows a status of DownStatus
  timer,      \* per session: the timer of its _connect
  listeners,  \* timers whose listener is on the response stream
  held,       \* per tab: the listener in _sopepStreamSubscription, or 0
  late        \* history: timers that added a listener for a disposed tab

tabVars == << tab, owner, mounted, lastDown, timer, listeners, held, late >>
interactionVars == << screenVars, tabVars >>

(* A timer is cancelled when it has added its listener, or when its tab    *)
(* shows that there is no connection.                                      *)
TimerState == {"none", "ticking", "listening", "gaveUp"}

TabTypeOK ==
  /\ ScreenTypeOK
  /\ tab \in mounted \cup {0}
  /\ owner \in [Session -> Session \cup {0}]
  /\ mounted \subseteq Session
  /\ lastDown \subseteq Session \ mounted
  /\ timer \in [Session -> TimerState]
  /\ \A s \in listeners \cup late : timer[s] = "listening"
  /\ \A t \in Session : held[t] = 0 \/ owner[held[t]] = t

TabInit ==
  /\ ScreenInit
  /\ tab = 0
  /\ owner = [s \in Session |-> 0]
  /\ mounted = {}
  /\ lastDown = {}
  /\ timer = [s \in Session |-> "none"]
  /\ listeners = {}
  /\ held = [t \in Session |-> 0]
  /\ late = {}

DownStatus == {"disconnecting", "disconnected"}
ShowsDown(t) == t \in lastDown \/ (t \in mounted /\ uiState \in DownStatus)

-----------------------------------------------------------------------------
(* _connect of tab t, the call of connect() apart.                         *)
StartTimer(t) ==
  /\ owner' = [owner EXCEPT ![connection + 1] = t]
  /\ timer' = [timer EXCEPT ![connection + 1] = "ticking"]

(* initState *)
OpenTab(d) ==
  /\ OpenScreen(d)
  /\ tab' = connection + 1
  /\ mounted' = mounted \cup {connection + 1}
  /\ StartTimer(connection + 1)
  /\ UNCHANGED << lastDown, listeners, held, late >>

PressTabConnect ==
  /\ PressConnect
  /\ StartTimer(tab)
  /\ UNCHANGED << tab, mounted, lastDown, listeners, held, late >>

(* disconnect(), then the listener held is cancelled.                      *)
PressTabDisconnect ==
  /\ PressDisconnect
  /\ listeners' = listeners \ {held[tab]}
  /\ UNCHANGED << tab, owner, mounted, lastDown, timer, held, late >>

(* Mutant: the timer is not cancelled once it has added its listener.      *)
TabTick_KeepsRunning(s) ==
  /\ timer[s] = "ticking"
  /\ \/ /\ notification # NullStream
        /\ listeners' = listeners \cup {s}
        /\ held' = [held EXCEPT ![owner[s]] = s]
        /\ late' = late \cup {t \in {s} : owner[s] \notin mounted}
        /\ UNCHANGED timer
     \/ /\ notification = NullStream
        /\ ShowsDown(owner[s])
        /\ timer' = [timer EXCEPT ![s] = "gaveUp"]
        /\ UNCHANGED << listeners, held, late >>
  /\ UNCHANGED << screenVars, tab, owner, mounted, lastDown >>

(* Mutant: the timer ends with the tab's first connection.                 *)
TabTick_EndsConnected(s) ==
  /\ timer[s] = "ticking"
  /\ uiState # "connecting"
  /\ timer' = [timer EXCEPT ![s] = IF ShowsDown(owner[s]) THEN "gaveUp"
                                                         ELSE "listening"]
  /\ UNCHANGED << screenVars, tab, owner, mounted, lastDown, late, listeners,
                  held >>

(* A tick after which the timer is cancelled; the others change nothing.   *)
TabTick(s) ==
  /\ timer[s] = "ticking"
  /\ \/ /\ notification # NullStream
        /\ listeners' = listeners \cup {s}
        /\ held' = [held EXCEPT ![owner[s]] = s]
        /\ late' = late \cup {t \in {s} : owner[s] \notin mounted}
        /\ timer' = [timer EXCEPT ![s] = "listening"]
     \/ /\ notification = NullStream
        /\ ShowsDown(owner[s])
        /\ timer' = [timer EXCEPT ![s] = "gaveUp"]
        /\ UNCHANGED << listeners, held, late >>
  /\ UNCHANGED << screenVars, tab, owner, mounted, lastDown >>

CloseTab ==
  /\ Back \/ HandleBleErrors
  /\ tab' = 0
  /\ UNCHANGED << owner, mounted, lastDown, timer, listeners, held, late >>

(* Mutant: dispose does not cancel.                                        *)
Dispose_KeepsListener(t) ==
  /\ t \in mounted \ {tab}
  /\ mounted' = mounted \ {t}
  /\ lastDown' = lastDown \cup {u \in {t} : uiState \in DownStatus}
  /\ UNCHANGED << screenVars, tab, owner, timer, listeners, held, late >>

(* The animation of a popped screen ends.  Its timers are not cancelled.   *)
Dispose(t) ==
  /\ t \in mounted \ {tab}
  /\ mounted' = mounted \ {t}
  /\ lastDown' = lastDown \cup {u \in {t} : uiState \in DownStatus}
  /\ listeners' = listeners \ {held[t]}
  /\ UNCHANGED << screenVars, tab, owner, timer, held, late >>

-----------------------------------------------------------------------------
TabNext ==
  \/ \E d \in Device : OpenTab(d)
  \/ PressTabConnect \/ PressTabDisconnect \/ CloseTab
  \/ \E s \in Session : SessionStep(s) /\ UNCHANGED << screen, overlapped, tabVars >>
  \/ \E s \in Session : TabTick(s) \/ Dispose(s)

(* Fairness of DeviceScreen; the tab's timers tick and animations end.  Of *)
(* the sessions that wait for the same thing, some one's comes.            *)
TabFairness ==
  /\ WF_interactionVars(HandleBleErrors /\ CloseTab)
  /\ WF_interactionVars(\E s \in Session :
       CancelCompletes(s) /\ UNCHANGED << screen, overlapped, tabVars >>)
  /\ WF_interactionVars(\E s \in Session :
       link[s] = "disconnecting" /\ OnDisconnected(s)
         /\ UNCHANGED << screen, overlapped, tabVars >>)
  /\ WF_interactionVars(\E s \in Session :
       MtuOutcome(s) /\ UNCHANGED << screen, overlapped, tabVars >>)
  /\ WF_interactionVars(\E s \in Session :
       HandshakeTick(s) /\ UNCHANGED << screen, overlapped, tabVars >>)
  /\ WF_interactionVars(\E s \in Session : TabTick(s))
  /\ WF_interactionVars(\E s \in Session : Dispose(s))

TabSpec == TabInit /\ [][TabNext]_interactionVars /\ TabFairness

-----------------------------------------------------------------------------
(* Properties *)

(* dispose and the button cancel the one listener a tab holds.  So what    *)
(* still listens for a disposed tab (and throws in setState on every       *)
(* message) is a listener another one of the same tab has replaced, or     *)
(* one added by a timer that outlived the tab; there is no other leak.     *)
OnlyLateOrReplacedOutlive ==
  \A s \in listeners :
    owner[s] \notin mounted => s \in late \/ held[owner[s]] # s

(* A session with a negotiated MTU gets its set-time command written, and  *)
(* its tab shows the responses: the timers of other sessions cannot starve *)
(* the handshake, and the two timers that do not know of each other, one   *)
(* enabling notifications and one waiting for them, meet.  The escapes:    *)
(* the session ends, its screen is left, another connect() replaced it, or *)
(* the tab's timer was cancelled because the tab did not show the          *)
(* connection yet, or showed the "disconnected" of an older one.           *)
HandshakeReachesTab ==
  \A s \in Session :
    handshake[s] = "ticking" /\ sub[s] = "live" ~>
      \/ sub[s] # "live"
      \/ /\ handshake[s] = "done"
         /\ s \in listeners \/ timer[s] = "gaveUp" \/ owner[s] # tab \/ s # connection

=============================================================================
