------------------------------ MODULE TrafficTest ------------------------------
(***************************************************************************)
(* The BLE traffic tab (class _BleTrafficTabState): a test that answers    *)
(* every response with another echo-test command and sends one more every  *)
(* second, over a link that comes and goes.                                *)
(*                                                                         *)
(* A State object lives from one visit of the tab to the next, but its     *)
(* periodic timers live until somebody cancels them: pressing Stop only    *)
(* clears a flag for them to see, and dispose() only knows the newest.     *)
(* All State objects share the logging switch of BleSopepInteractor, the   *)
(* characteristic and the responses.                                       *)
(*                                                                         *)
(* The link and the device are external: connection states as in           *)
(* BleInteractor (whose handshake timers, leaked ones included, may set    *)
(* the characteristic at any time); the device answers each echo-test with *)
(* one response and sends responses and events of its own.                 *)
(***************************************************************************)
EXTENDS Integers

CONSTANTS
  MaxVisits,     \* bound: how often the tab is entered
  MaxStarts,     \* bound: how many tests get as far as their timer
  MaxTicks,      \* bound: ticks that send, over all timers
  MaxOthers,     \* bound: messages of the device that answer no echo-test
  MaxLosses      \* bound: commands and responses lost on a link that is up

ASSUME BoundsAssumption ==
  /\ MaxVisits \in Nat /\ MaxStarts \in Nat /\ MaxTicks \in Nat
  /\ MaxOthers \in Nat /\ MaxLosses \in Nat

Visit == 1 .. MaxVisits
Timer == 1 .. MaxStarts

VARIABLES
  status,          \* the connection status the widgets were built with
  characteristic,  \* _characteristic # null, and notifications arrive
  logging,         \* _enableLogging of BleSopepInteractor
  toDevice,        \* echo-test commands on their way
  toApp,           \* responses on their way
  tab,             \* the visit going on, 0 when another tab or screen shows
  visits,          \* visits so far
  state,           \* the State object of each visit
  starts, ticks, others, losses   \* uses of the bounds

linkVars == << status, characteristic >>
used == << starts, ticks, others, losses >>
vars == << linkVars, logging, toDevice, toApp, tab, visits, state, used >>

Status == {"disconnected", "connecting", "connected", "disconnecting"}

State ==
  [ listening : BOOLEAN,                \* _sopepStreamSubscription # null
    startTestFlag : BOOLEAN,
    timers : SUBSET Timer,              \* the periodic timers not cancelled
    testMonitorTimer : Timer \cup {0},  \* the one the field refers to
    timeCounterSeconds : Nat,
    leftDown : BOOLEAN,                 \* widget was "disconnected" at dispose
    quiet : BOOLEAN,                    \* history: no traffic at the start
    hasty : BOOLEAN ]                   \* history: started beside a timer

Fresh(connected) ==
  [ listening |-> connected, startTestFlag |-> FALSE, timers |-> {},
    testMonitorTimer |-> 0, timeCounterSeconds |-> 0,
    leftDown |-> FALSE, quiet |-> FALSE, hasty |-> FALSE ]

TypeOK ==
  /\ status \in Status
  /\ characteristic \in BOOLEAN
  /\ logging \in BOOLEAN
  /\ toDevice \in Nat
  /\ toApp \in Nat
  /\ visits \in 0 .. MaxVisits
  /\ tab \in {0, visits}
  /\ state \in [Visit -> State]
  /\ starts \in 0 .. MaxStarts
  /\ ticks \in 0 .. MaxTicks
  /\ others \in 0 .. MaxOthers
  /\ losses \in 0 .. MaxLosses

(* The screen is open and has connected once.                              *)
Init ==
  /\ status = "connected"
  /\ characteristic = FALSE
  /\ logging = TRUE
  /\ toDevice = 0
  /\ toApp = 0
  /\ tab = 0
  /\ visits = 0
  /\ state = [v \in Visit |-> Fresh(FALSE)]
  /\ starts = 0 /\ ticks = 0 /\ others = 0 /\ losses = 0

-----------------------------------------------------------------------------
(* The link and the device *)

(* A link that is down carries nothing; "disconnected" disables the        *)
(* notification and with it the characteristic.                            *)
LinkStep(from, to) ==
  /\ status \in from
  /\ status' = to
  /\ IF to = "disconnected"
       THEN characteristic' = FALSE /\ toDevice' = 0 /\ toApp' = 0
       ELSE UNCHANGED << characteristic, toDevice, toApp >>
  /\ UNCHANGED << logging, tab, visits, state, used >>

Link ==
  \/ LinkStep({"disconnected"}, "connecting")
  \/ LinkStep({"connecting"}, "connected")
  \/ LinkStep({"connected"}, "disconnecting")
  \/ LinkStep({"connecting", "connected", "disconnecting"}, "disconnected")

(* A handshake timer enables notifications, disconnect() disables them     *)
(* before the link goes down.                                              *)
Notification ==
  /\ characteristic' = ~characteristic
  /\ UNCHANGED << status, logging, toDevice, toApp, tab, visits, state, used >>

Answer ==
  /\ toDevice > 0
  /\ toDevice' = toDevice - 1
  /\ toApp' = toApp + 1
  /\ UNCHANGED << linkVars, logging, tab, visits, state, used >>

(* The answer to another command (set-time after a reconnection) or an     *)
(* event: the listener does not tell it from an echo.                      *)
OtherMessage ==
  /\ others < MaxOthers
  /\ status = "connected"
  /\ others' = others + 1
  /\ toApp' = toApp + 1
  /\ UNCHANGED << linkVars, logging, toDevice, tab, visits, state, starts,
                  ticks, losses >>

Lose ==
  /\ losses < MaxLosses
  /\ losses' = losses + 1
  /\ \/ toDevice > 0 /\ toDevice' = toDevice - 1 /\ UNCHANGED toApp
     \/ toApp > 0 /\ toApp' = toApp - 1 /\ UNCHANGED toDevice
  /\ UNCHANGED << linkVars, logging, tab, visits, state, starts, ticks, others >>

-----------------------------------------------------------------------------
(* The tab *)

(* The State object of visit v is r from now on.                           *)
Becomes(v, r) == state' = [state EXCEPT ![v] = r]

(* sendEchoTest with a characteristic: a write without a link fails and is *)
(* swallowed.  Without a characteristic it throws at once.                 *)
SendEchoTest ==
  toDevice' = IF status = "connected" THEN toDevice + 1 ELSE toDevice

(* initState: only a tab entered while connected gets a subscription and   *)
(* an interactor.                                                          *)
Enter ==
  /\ tab = 0
  /\ visits < MaxVisits
  /\ visits' = visits + 1
  /\ tab' = visits + 1
  /\ Becomes(visits + 1, Fresh(status = "connected"))
  /\ UNCHANGED << linkVars, logging, toDevice, toApp, used >>

Disposed == [state[tab] EXCEPT !.leftDown = (status = "disconnected")]

(* Mutant: dispose() leaves the timer alone.                             *)
Leave_KeepsTimer ==
  /\ tab # 0
  /\ tab' = 0
  /\ Becomes(tab, Disposed)
  /\ logging' = (logging \/ state[tab].listening)
  /\ UNCHANGED << linkVars, toDevice, toApp, visits, used >>

(* Mutant: dispose() does not switch logging on again.                   *)
Leave_KeepsLogging ==
  /\ tab # 0
  /\ tab' = 0
  /\ Becomes(tab, [Disposed EXCEPT !.timers = @ \ {state[tab].testMonitorTimer}])
  /\ UNCHANGED << linkVars, logging, toDevice, toApp, visits, used >>

(* dispose: without a subscription its first line throws.  The test flag   *)
(* keeps its value for the timers that are left.                           *)
Leave ==
  /\ tab # 0
  /\ tab' = 0
  /\ IF state[tab].listening
       THEN /\ Becomes(tab, [Disposed EXCEPT
                               !.timers = @ \ {state[tab].testMonitorTimer}])
            /\ logging' = TRUE
       ELSE /\ Becomes(tab, Disposed)
            /\ UNCHANGED logging
  /\ UNCHANGED << linkVars, toDevice, toApp, visits, used >>

Silent ==
  toDevice + toApp = 0 /\ \A v \in Visit : state[v].timers = {}

(* The button is there with a subscription, and enabled unless connecting. *)
Button ==
  /\ tab # 0
  /\ state[tab].listening
  /\ status \notin {"disconnected", "connecting"}

Begun ==
  [state[tab] EXCEPT !.startTestFlag = TRUE, !.timeCounterSeconds = 0,
                     !.quiet = Silent]

(* _startTest: without a characteristic the first echo-test throws, after  *)
(* the flag is set and logging is off, and no timer is created.            *)
Start ==
  /\ Button
  /\ ~state[tab].startTestFlag
  /\ starts < MaxStarts
  /\ logging' = FALSE
  /\ IF characteristic
       THEN /\ SendEchoTest
            /\ starts' = starts + 1
            /\ Becomes(tab, [Begun EXCEPT !.timers = @ \cup {starts + 1},
                                          !.testMonitorTimer = starts + 1,
                                          !.hasty = @ \/ state[tab].timers # {}])
       ELSE /\ Becomes(tab, Begun)
            /\ UNCHANGED << toDevice, starts >>
  /\ UNCHANGED << linkVars, toApp, tab, visits, ticks, others, losses >>

Stop ==
  /\ Button
  /\ state[tab].startTestFlag
  /\ Becomes(tab, [state[tab] EXCEPT !.startTestFlag = FALSE])
  /\ logging' = TRUE
  /\ UNCHANGED << linkVars, toDevice, toApp, tab, visits, used >>

WidgetDown(v) == IF v = tab THEN status = "disconnected" ELSE state[v].leftDown

(* Mutant: the tick counts the seconds down.                             *)
TickSends_CountsDown(v, t) ==
  /\ t \in state[v].timers
  /\ state[v].startTestFlag
  /\ characteristic
  /\ ticks < MaxTicks
  /\ ticks' = ticks + 1
  /\ SendEchoTest
  /\ Becomes(v, [state[v] EXCEPT
                   !.timeCounterSeconds = state[v].timeCounterSeconds - 1,
                   !.startTestFlag = ~WidgetDown(v)])
  /\ UNCHANGED << linkVars, logging, toApp, tab, visits, starts, others, losses >>

(* A tick of a running test: an echo-test more, a second more, and the     *)
(* test ends if the link is down.  Without a characteristic it throws      *)
(* before it does any of this, so it changes nothing and the test goes on. *)
TickSends(v, t) ==
  /\ t \in state[v].timers
  /\ state[v].startTestFlag
  /\ characteristic
  /\ ticks < MaxTicks
  /\ ticks' = ticks + 1
  /\ SendEchoTest
  /\ Becomes(v, [state[v] EXCEPT
                   !.timeCounterSeconds = state[v].timeCounterSeconds + 1,
                   !.startTestFlag = ~WidgetDown(v)])
  /\ UNCHANGED << linkVars, logging, toApp, tab, visits, starts, others, losses >>

TickCancels(v, t) ==
  /\ t \in state[v].timers
  /\ ~state[v].startTestFlag
  /\ Becomes(v, [state[v] EXCEPT !.timers = @ \ {t}])
  /\ UNCHANGED << linkVars, logging, toDevice, toApp, tab, visits, used >>

(* Mutant: two echoes for a response.                                    *)
Deliver_Twice ==
  /\ toApp > 0
  /\ toApp' = toApp - 1
  /\ toDevice' = IF /\ characteristic /\ status = "connected"
                    /\ tab # 0 /\ state[tab].listening
                    /\ state[tab].startTestFlag
                   THEN toDevice + 2 ELSE toDevice
  /\ UNCHANGED << linkVars, logging, tab, visits, state, used >>

(* Mutant: the listener does not test the flag.                          *)
Deliver_AlwaysEchoes ==
  /\ toApp > 0
  /\ toApp' = toApp - 1
  /\ IF characteristic /\ tab # 0 /\ state[tab].listening
       THEN SendEchoTest
       ELSE UNCHANGED toDevice
  /\ UNCHANGED << linkVars, logging, tab, visits, state, used >>

(* The listener of subscribeCharacteristic; without a characteristic the   *)
(* notification is off and the response goes nowhere.                      *)
Deliver ==
  /\ toApp > 0
  /\ toApp' = toApp - 1
  /\ IF characteristic /\ tab # 0 /\ state[tab].listening /\ state[tab].startTestFlag
       THEN SendEchoTest
       ELSE UNCHANGED toDevice
  /\ UNCHANGED << linkVars, logging, tab, visits, state, used >>

-----------------------------------------------------------------------------
Next ==
  \/ Link
  \/ Notification
  \/ Answer
  \/ OtherMessage
  \/ Lose
  \/ Enter
  \/ Leave
  \/ Start
  \/ Stop
  \/ \E v \in Visit, t \in Timer : TickSends(v, t) \/ TickCancels(v, t)
  \/ Deliver

Spec == Init /\ [][Next]_vars

(* Timers tick; the device answers and what arrives is handled.            *)
Fairness ==
  /\ \A v \in Visit, t \in Timer : WF_vars(TickCancels(v, t))
  /\ WF_vars(Answer)
  /\ WF_vars(Deliver)

FairSpec == Spec /\ Fairness

-----------------------------------------------------------------------------
(* Properties *)

(* _startTest switches the logging of the shared interactor off: it is     *)
(* never left off behind the tab, also when the test lost its link, its    *)
(* first command threw, or it was never stopped.                           *)
LoggingRestored == ~logging => tab # 0 /\ state[tab].listening

(* dispose() cancels the one timer it knows: a tab that was left has no    *)
(* timer running, unless a test was started while the timer of the one     *)
(* before had not yet noticed that it was stopped.                         *)
NoTimerBehindTab ==
  \A v \in Visit : v # tab /\ ~state[v].hasty => state[v].timers = {}

(* The echoes of a test that began in silence multiply by nothing but its  *)
(* seconds and the device's own messages: the listener's echo per response *)
(* and the timer's echo per second never feed each other.                  *)
TrafficBounded ==
  tab # 0 /\ state[tab].startTestFlag /\ state[tab].quiet =>
    toDevice + toApp <= 1 + state[tab].timeCounterSeconds + others

(* When the flags of all tests are clear, the timers end and the echoes    *)
(* still under way die out, unless a test is started again.                *)
StoppedFallsSilent ==
  (\A v \in Visit : ~state[v].startTestFlag)
    ~> (Silent \/ \E v \in Visit : state[v].startTestFlag)

=============================================================================
