-------------------------- MODULE TrafficTest_proofs --------------------------
(***************************************************************************)
(* Proofs about TrafficTest for every number of visits, tests, ticks and   *)
(* stray messages.                                                         *)
(***************************************************************************)
EXTENDS TrafficTest, TLAPS

USE BoundsAssumption

(* Who holds a timer: before a hasty start, a State object at most the one *)
(* its field refers to.                                                    *)
TimersKnown ==
  \A v \in Visit :
    /\ ~state[v].hasty => state[v].timers \subseteq {state[v].testMonitorTimer}
    /\ v # tab /\ ~state[v].hasty => state[v].timers = {}
    /\ ~state[v].listening => state[v].timers = {}

(* A test that began in silence is alone: no other State has a timer, so   *)
(* only its own seconds and the device add messages.                       *)
QuietTest ==
  tab # 0 /\ state[tab].startTestFlag /\ state[tab].quiet =>
    /\ \A v \in Visit : v # tab => state[v].timers = {}
    /\ toDevice + toApp <= 1 + state[tab].timeCounterSeconds + others

(* A visit that is going on has a State object.                            *)
LEMMA TabIsVisit == TypeOK /\ tab # 0 => tab \in Visit
BY DEF TypeOK, Visit

(* One State object is replaced, the others stay.                          *)
LEMMA BecomesOne ==
  ASSUME state \in [Visit -> State], NEW v \in Visit, NEW r \in State,
         Becomes(v, r)
  PROVE  /\ state' \in [Visit -> State]
         /\ state'[v] = r
         /\ \A w \in Visit : w # v => state'[w] = state[w]
BY DEF Becomes

(* What the tab's own handlers leave behind is a State.                    *)
LEMMA TabStates ==
  ASSUME TypeOK, tab # 0
  PROVE  /\ state[tab] \in State
         /\ Disposed \in State
         /\ Begun \in State
<1>1. state[tab] \in State
  BY TabIsVisit DEF TypeOK
<1>2. Disposed \in State
  BY <1>1 DEF Disposed, State
<1>3. Silent \in BOOLEAN
  BY DEF Silent
<1>4. Begun \in State
  BY <1>1, <1>3 DEF Begun, State
<1>5. QED
  BY <1>1, <1>2, <1>4

(* A tick leaves its State a State, and its subscription alone.            *)
LEMMA TickStates ==
  ASSUME TypeOK, NEW v \in Visit, NEW t \in Timer,
         TickSends(v, t) \/ TickCancels(v, t)
  PROVE  /\ state' \in [Visit -> State]
         /\ \A w \in Visit : state'[w].listening = state[w].listening
         /\ \A w \in Visit : w # v => state'[w] = state[w]
<1>1. state \in [Visit -> State] /\ state[v] \in State
  BY DEF TypeOK
<1> DEFINE sent == [state[v] EXCEPT
                     !.timeCounterSeconds = state[v].timeCounterSeconds + 1,
                     !.startTestFlag = ~WidgetDown(v)]
           cancelled == [state[v] EXCEPT !.timers = @ \ {t}]
<1>2. sent \in State /\ sent.listening = state[v].listening
  <2> DEFINE Sent(n, up) == [state[v] EXCEPT !.timeCounterSeconds = n,
                                             !.startTestFlag = up]
  <2>1. \A n \in Nat, up \in BOOLEAN :
          /\ Sent(n, up) \in State
          /\ Sent(n, up).listening = state[v].listening
    BY <1>1 DEF State
  <2>2. (~WidgetDown(v)) \in BOOLEAN
    BY Zenon
  <2>3. state[v].timeCounterSeconds + 1 \in Nat
    BY <1>1 DEF State
  <2>4. sent = Sent(state[v].timeCounterSeconds + 1, ~WidgetDown(v))
    OBVIOUS
  <2> HIDE DEF Sent, sent
  <2>5. QED
    BY <2>1, <2>2, <2>3, <2>4, Zenon
<1>3. cancelled \in State /\ cancelled.listening = state[v].listening
  BY <1>1 DEF State
<1>4. Becomes(v, sent) \/ Becomes(v, cancelled)
  BY DEF TickSends, TickCancels
<1> HIDE DEF sent, cancelled
<1>5. QED
  BY <1>1, <1>2, <1>3, <1>4, BecomesOne

(* The type invariant is inductive by itself.                              *)
LEMMA TypeStep == TypeOK /\ [Next]_vars => TypeOK'
<1> SUFFICES ASSUME TypeOK, [Next]_vars PROVE TypeOK'
  OBVIOUS
<1> USE DEF TypeOK
<1>0. tab # 0 => tab \in Visit
  BY TabIsVisit
<1>1. CASE Link
  <2>1. PICK to \in Status : \E from : LinkStep(from, to)
    BY <1>1 DEF Link, Status
  <2>2. status' \in Status /\ UNCHANGED << logging, tab, visits, state, used >>
    BY <2>1 DEF LinkStep
  <2>3. /\ characteristic' \in {FALSE, characteristic}
        /\ toDevice' \in {0, toDevice} /\ toApp' \in {0, toApp}
    BY <2>1, Zenon DEF LinkStep
  <2>4. characteristic' \in BOOLEAN
    BY <2>3, Zenon
  <2>5. toDevice' \in Nat /\ toApp' \in Nat
    BY <2>3
  <2>6. QED
    BY <2>2, <2>4, <2>5 DEF used
<1>2. CASE Notification
  BY <1>2 DEF Notification, used
<1>3. CASE Answer
  BY <1>3 DEF Answer, linkVars, used
<1>4. CASE OtherMessage
  BY <1>4 DEF OtherMessage, linkVars
<1>5. CASE Lose
  BY <1>5 DEF Lose, linkVars
<1>6. CASE Enter
  <2>1. Fresh(status = "connected") \in State
    BY DEF Fresh, State
  <2>2. visits + 1 \in Visit
    BY <1>6 DEF Enter, Visit
  <2>3. state' \in [Visit -> State]
    BY <1>6, <2>1, <2>2, BecomesOne DEF Enter
  <2>4. QED
    BY <1>6, <2>2, <2>3 DEF Enter, Visit, linkVars, used
<1>7. CASE Leave
  <2>1. [Disposed EXCEPT !.timers = @ \ {state[tab].testMonitorTimer}] \in State
    BY <1>7, TabStates DEF Leave, State
  <2>2. state' \in [Visit -> State]
    BY <1>0, <1>7, <2>1, TabStates, BecomesOne DEF Leave
  <2>3. QED
    BY <1>7, <2>2 DEF Leave, linkVars, used
<1>8. CASE Start
  <2>1. tab # 0 /\ Begun \in State /\ state[tab] \in State
    BY <1>8, TabStates DEF Start, Button
  <2>2. starts + 1 \in Timer
    BY <1>8 DEF Start, Timer
  <2>3. [Begun EXCEPT !.timers = @ \cup {starts + 1},
                      !.testMonitorTimer = starts + 1,
                      !.hasty = @ \/ state[tab].timers # {}] \in State
    BY <2>1, <2>2 DEF State
  <2>4. state' \in [Visit -> State]
    BY <1>0, <1>8, <2>1, <2>3, BecomesOne DEF Start
  <2>5. starts' \in 0 .. MaxStarts /\ toDevice' \in Nat
    BY <1>8 DEF Start, SendEchoTest
  <2>6. QED
    BY <1>8, <2>4, <2>5 DEF Start, linkVars
<1>9. CASE Stop
  <2>1. [state[tab] EXCEPT !.startTestFlag = FALSE] \in State
    BY <1>9, TabStates DEF Stop, Button, State
  <2>2. state' \in [Visit -> State]
    BY <1>0, <1>9, <2>1, BecomesOne DEF Stop, Button
  <2>3. QED
    BY <1>9, <2>2 DEF Stop, linkVars, used
<1>10. CASE \E v \in Visit, t \in Timer : TickSends(v, t)
  <2>1. PICK v \in Visit, t \in Timer : TickSends(v, t)
    BY <1>10
  <2>2. state' \in [Visit -> State]
    BY <2>1, TickStates
  <2>3. ticks' \in 0 .. MaxTicks /\ toDevice' \in Nat
    BY <2>1 DEF TickSends, SendEchoTest
  <2>4. QED
    BY <2>1, <2>2, <2>3 DEF TickSends, linkVars
<1>11. CASE \E v \in Visit, t \in Timer : TickCancels(v, t)
  <2>1. PICK v \in Visit, t \in Timer : TickCancels(v, t)
    BY <1>11
  <2>2. state' \in [Visit -> State]
    BY <2>1, TickStates
  <2>3. QED
    BY <2>1, <2>2 DEF TickCancels, linkVars, used
<1>12. CASE Deliver
  BY <1>12 DEF Deliver, SendEchoTest, linkVars, used
<1>13. CASE UNCHANGED vars
  BY <1>13 DEF vars, linkVars, used
<1>14. QED
  BY <1>1, <1>2, <1>3, <1>4, <1>5, <1>6, <1>7, <1>8, <1>9, <1>10, <1>11,
     <1>12, <1>13 DEF Next

(* No timer, flag or counter leaves its range.                             *)
THEOREM TypeCorrect == Spec => []TypeOK
<1>1. Init => TypeOK
  <2>1. Fresh(FALSE) \in State
    BY DEF Fresh, State
  <2>2. Init => state \in [Visit -> State]
    BY <2>1 DEF Init
  <2>3. Init => /\ characteristic \in BOOLEAN /\ logging \in BOOLEAN
                /\ status \in Status
    BY Zenon DEF Init, Status
  <2>4. Init => visits \in 0 .. MaxVisits /\ tab \in {0, visits}
                /\ starts \in 0 .. MaxStarts /\ ticks \in 0 .. MaxTicks
                /\ others \in 0 .. MaxOthers /\ losses \in 0 .. MaxLosses
                /\ toDevice \in Nat /\ toApp \in Nat
    BY DEF Init
  <2>5. QED
    BY <2>2, <2>3, <2>4, Zenon DEF TypeOK
<1>2. QED
  BY <1>1, TypeStep, PTL DEF Spec

-----------------------------------------------------------------------------
(* Only _startTest switches logging off, in a State with a subscription,   *)
(* and such a State restores it when it goes.                              *)
LEMMA LoggingStep == TypeOK /\ LoggingRestored /\ [Next]_vars => LoggingRestored'
<1> SUFFICES ASSUME TypeOK, LoggingRestored, [Next]_vars PROVE LoggingRestored'
  OBVIOUS
<1> USE DEF TypeOK, LoggingRestored
<1>0. tab # 0 => tab \in Visit
  BY TabIsVisit
<1>1. CASE Link \/ Notification \/ Answer \/ OtherMessage \/ Lose \/ Deliver
           \/ UNCHANGED vars
  BY <1>1 DEF Link, LinkStep, Notification, Answer, OtherMessage, Lose, Deliver,
              vars, linkVars
<1>2. CASE Enter
  BY <1>2 DEF Enter
<1>3. CASE Leave
  BY <1>3 DEF Leave
<1>4. CASE Start
  <2>1. tab # 0 /\ state[tab].listening /\ state[tab] \in State
    BY <1>4, TabStates DEF Start, Button
  <2>2. Begun \in State /\ Begun.listening
    BY <2>1, TabStates DEF Begun, State
  <2>3. ASSUME NEW timers, NEW n, NEW hasty
        PROVE  [Begun EXCEPT !.timers = timers, !.testMonitorTimer = n,
                             !.hasty = hasty].listening
    BY <2>2 DEF State
  <2>4. \E r : Becomes(tab, r) /\ r.listening
    BY <1>4, <2>2, <2>3, Zenon DEF Start
  <2>5. state'[tab].listening
    BY <1>0, <2>1, <2>4 DEF Becomes
  <2>6. QED
    BY <1>4, <2>1, <2>5 DEF Start
<1>5. CASE Stop
  BY <1>5 DEF Stop
<1>6. CASE \E v \in Visit, t \in Timer : TickSends(v, t) \/ TickCancels(v, t)
  <2>1. PICK v \in Visit, t \in Timer : TickSends(v, t) \/ TickCancels(v, t)
    BY <1>6
  <2>2. tab' = tab /\ logging' = logging
    BY <2>1 DEF TickSends, TickCancels
  <2>3. tab # 0 => state'[tab].listening = state[tab].listening
    BY <1>0, <2>1, TickStates
  <2>4. QED
    BY <2>2, <2>3
<1>7. QED
  BY <1>1, <1>2, <1>3, <1>4, <1>5, <1>6 DEF Next

(* Logging is never left off behind the tab.                               *)
THEOREM LoggingIsRestored == Spec => []LoggingRestored
<1>1. Init => LoggingRestored
  BY DEF Init, LoggingRestored
<1>2. QED
  BY <1>1, TypeCorrect, LoggingStep, PTL DEF Spec

-----------------------------------------------------------------------------
(* What each handler does to the fields the two invariants below speak of. *)
LEMMA StartEffect ==
  ASSUME TypeOK, Start
  PROVE  /\ tab \in Visit /\ state[tab].listening
         /\ \A w \in Visit : w # tab => state'[w] = state[w]
         /\ state'[tab].listening
         /\ state'[tab].timeCounterSeconds = 0
         /\ state'[tab].quiet <=> Silent
         /\ \/ /\ state'[tab].timers = state[tab].timers
               /\ state'[tab].testMonitorTimer = state[tab].testMonitorTimer
               /\ state'[tab].hasty <=> state[tab].hasty
            \/ /\ state'[tab].timers = state[tab].timers \cup {starts + 1}
               /\ state'[tab].testMonitorTimer = starts + 1
               /\ state'[tab].hasty <=> state[tab].hasty \/ state[tab].timers # {}
<1>1. tab \in Visit /\ tab # 0 /\ state[tab].listening
  BY TabIsVisit DEF Start, Button
<1>2. Begun \in State /\ state[tab] \in State /\ state \in [Visit -> State]
  BY <1>1, TabStates DEF TypeOK
<1>3. starts + 1 \in Timer
  BY DEF Start, TypeOK, Timer
<1>4. /\ Begun.listening /\ Begun.timers = state[tab].timers
      /\ Begun.testMonitorTimer = state[tab].testMonitorTimer
      /\ Begun.hasty = state[tab].hasty
      /\ Begun.timeCounterSeconds = 0
      /\ Begun.quiet = Silent
  BY <1>1, <1>2 DEF Begun, State
<1> DEFINE timed(h) == [Begun EXCEPT !.timers = @ \cup {starts + 1},
                                     !.testMonitorTimer = starts + 1,
                                     !.hasty = h]
<1> DEFINE late == state[tab].hasty \/ state[tab].timers # {}
<1>5. \A h \in BOOLEAN :
        /\ timed(h) \in State
        /\ timed(h).timers = state[tab].timers \cup {starts + 1}
        /\ timed(h).testMonitorTimer = starts + 1
        /\ timed(h).hasty = h
        /\ timed(h).listening
        /\ timed(h).timeCounterSeconds = 0
        /\ timed(h).quiet = Silent
  BY <1>2, <1>3, <1>4 DEF State
<1>6. Becomes(tab, Begun) \/ Becomes(tab, timed(late))
  <2>1. Begun.hasty = state[tab].hasty
    BY <1>4
  <2>2. QED
    BY <2>1, Zenon DEF Start
<1>7. late \in BOOLEAN
  BY Zenon
<1> HIDE DEF timed, late
<1>8. CASE Becomes(tab, Begun)
  BY <1>1, <1>2, <1>4, <1>8, BecomesOne
<1>9. CASE Becomes(tab, timed(late))
  <2>1. timed(late) \in State /\ state'[tab] = timed(late)
    BY <1>1, <1>2, <1>5, <1>7, <1>9, BecomesOne
  <2>2. \A w \in Visit : w # tab => state'[w] = state[w]
    BY <1>1, <1>2, <1>9, <2>1, BecomesOne
  <2>3. state'[tab].hasty = late
    BY <1>5, <1>7, <2>1, Zenon
  <2>4. QED
    BY <1>1, <1>5, <1>7, <2>1, <2>2, <2>3, Zenon DEF late
<1>10. QED
  BY <1>6, <1>8, <1>9

(* dispose() gives up the timer its field refers to.                       *)
LEMMA LeaveEffect ==
  ASSUME TypeOK, Leave
  PROVE  /\ tab \in Visit
         /\ \A w \in Visit : w # tab => state'[w] = state[w]
         /\ state'[tab].hasty = state[tab].hasty
         /\ state'[tab].listening = state[tab].listening
         /\ state'[tab].testMonitorTimer = state[tab].testMonitorTimer
         /\ state'[tab].timers =
              IF state[tab].listening
                THEN state[tab].timers \ {state[tab].testMonitorTimer}
                ELSE state[tab].timers
<1>1. tab \in Visit /\ tab # 0 /\ state \in [Visit -> State]
  BY TabIsVisit DEF Leave, TypeOK
<1>2. Disposed \in State /\ state[tab] \in State
  BY <1>1, TabStates
<1> DEFINE freed == [Disposed EXCEPT !.timers = @ \ {state[tab].testMonitorTimer}]
<1>3. /\ Disposed.hasty = state[tab].hasty
      /\ Disposed.listening = state[tab].listening
      /\ Disposed.testMonitorTimer = state[tab].testMonitorTimer
      /\ Disposed.timers = state[tab].timers
  BY <1>2 DEF Disposed, State
<1>4. /\ freed \in State /\ freed.hasty = state[tab].hasty
      /\ freed.listening = state[tab].listening
      /\ freed.testMonitorTimer = state[tab].testMonitorTimer
      /\ freed.timers = state[tab].timers \ {state[tab].testMonitorTimer}
  BY <1>2, <1>3 DEF State
<1>5. \/ state[tab].listening /\ Becomes(tab, freed)
      \/ ~state[tab].listening /\ Becomes(tab, Disposed)
  BY DEF Leave
<1> HIDE DEF freed
<1>6. QED
  BY <1>1, <1>2, <1>3, <1>4, <1>5, BecomesOne

(* Stop only clears the flag.                                              *)
LEMMA StopEffect ==
  ASSUME TypeOK, Stop
  PROVE  /\ tab \in Visit
         /\ \A w \in Visit : w # tab => state'[w] = state[w]
         /\ ~state'[tab].startTestFlag
         /\ state'[tab].hasty = state[tab].hasty
         /\ state'[tab].listening = state[tab].listening
         /\ state'[tab].testMonitorTimer = state[tab].testMonitorTimer
         /\ state'[tab].timers = state[tab].timers
<1>1. tab \in Visit /\ state \in [Visit -> State] /\ state[tab] \in State
  BY TabIsVisit DEF Stop, Button, TypeOK
<1> DEFINE stopped == [state[tab] EXCEPT !.startTestFlag = FALSE]
<1>2. /\ stopped \in State
      /\ ~stopped.startTestFlag
      /\ stopped.hasty = state[tab].hasty
      /\ stopped.listening = state[tab].listening
      /\ stopped.testMonitorTimer = state[tab].testMonitorTimer
      /\ stopped.timers = state[tab].timers
  BY <1>1 DEF State
<1>3. Becomes(tab, stopped)
  BY DEF Stop
<1> HIDE DEF stopped
<1>4. QED
  BY <1>1, <1>2, <1>3, BecomesOne

(* A tick never adds a timer or starts a test.                             *)
LEMMA TickEffect ==
  ASSUME TypeOK, NEW v \in Visit, NEW t \in Timer,
         TickSends(v, t) \/ TickCancels(v, t)
  PROVE  /\ \A w \in Visit : w # v => state'[w] = state[w]
         /\ state'[v].timers \subseteq state[v].timers
         /\ state'[v].hasty = state[v].hasty
         /\ state'[v].listening = state[v].listening
         /\ state'[v].testMonitorTimer = state[v].testMonitorTimer
         /\ state'[v].quiet = state[v].quiet
         /\ state'[v].startTestFlag => state[v].startTestFlag
         /\ TickSends(v, t) => state'[v].timeCounterSeconds =
                                 state[v].timeCounterSeconds + 1
         /\ TickCancels(v, t) => state'[v].timeCounterSeconds =
                                   state[v].timeCounterSeconds
<1>1. state \in [Visit -> State] /\ state[v] \in State
  BY DEF TypeOK
<1>2. CASE TickSends(v, t)
  <2>1. ~TickCancels(v, t) /\ state[v].startTestFlag
    BY <1>2 DEF TickSends, TickCancels
  <2> DEFINE Sent(up) == [state[v] EXCEPT
                     !.timeCounterSeconds = state[v].timeCounterSeconds + 1,
                     !.startTestFlag = up]
  <2>2. \A up : /\ Sent(up).timers = state[v].timers
                /\ Sent(up).hasty = state[v].hasty
                /\ Sent(up).listening = state[v].listening
                /\ Sent(up).testMonitorTimer = state[v].testMonitorTimer
                /\ Sent(up).quiet = state[v].quiet
                /\ Sent(up).timeCounterSeconds = state[v].timeCounterSeconds + 1
    BY <1>1 DEF State
  <2>3. state' = [state EXCEPT ![v] = Sent(~WidgetDown(v))]
    BY <1>2 DEF TickSends, Becomes
  <2> HIDE DEF Sent
  <2>4. state'[v] = Sent(~WidgetDown(v))
    BY <1>1, <2>3
  <2>5. \A w \in Visit : w # v => state'[w] = state[w]
    BY <1>1, <2>3
  <2>6. QED
    BY <1>2, <2>1, <2>2, <2>4, <2>5
<1>3. CASE TickCancels(v, t)
  <2>1. ~TickSends(v, t)
    BY <1>3 DEF TickSends, TickCancels
  <2>2. state' = [state EXCEPT ![v] = [state[v] EXCEPT !.timers = @ \ {t}]]
    BY <1>3 DEF TickCancels, Becomes
  <2>3. state'[v] = [state[v] EXCEPT !.timers = @ \ {t}]
    BY <1>1, <2>2
  <2>4. \A w \in Visit : w # v => state'[w] = state[w]
    BY <1>1, <2>2
  <2>5. QED
    BY <1>1, <1>3, <2>1, <2>3, <2>4 DEF State
<1>4. QED
  BY <1>2, <1>3

(* A new State object is put in at the next visit.                         *)
LEMMA EnterEffect ==
  ASSUME TypeOK, Enter
  PROVE  /\ tab = 0 /\ tab' \in Visit
         /\ \A w \in Visit : w # tab' => state'[w] = state[w]
         /\ state'[tab'].timers = {}
         /\ ~state'[tab'].startTestFlag
<1>1. tab = 0 /\ tab' = visits + 1 /\ visits + 1 \in Visit
  BY DEF Enter, TypeOK, Visit
<1>2. Fresh(status = "connected") \in State
  BY DEF Fresh, State
<1>3. Fresh(status = "connected").timers = {} /\ ~Fresh(status = "connected").startTestFlag
  BY DEF Fresh
<1>4. QED
  BY <1>1, <1>2, <1>3, BecomesOne DEF Enter, TypeOK

-----------------------------------------------------------------------------
(* The bookkeeping of timers is inductive.                                 *)
LEMMA TimersStep == TypeOK /\ TimersKnown /\ [Next]_vars => TimersKnown'
<1> SUFFICES ASSUME TypeOK, TimersKnown, [Next]_vars,
                    NEW w \in Visit
             PROVE  /\ ~state'[w].hasty =>
                         state'[w].timers \subseteq {state'[w].testMonitorTimer}
                    /\ w # tab' /\ ~state'[w].hasty => state'[w].timers = {}
                    /\ ~state'[w].listening => state'[w].timers = {}
  BY DEF TimersKnown
<1>0. /\ ~state[w].hasty => state[w].timers \subseteq {state[w].testMonitorTimer}
      /\ w # tab /\ ~state[w].hasty => state[w].timers = {}
      /\ ~state[w].listening => state[w].timers = {}
  BY DEF TimersKnown
<1>1. CASE Link \/ Notification \/ Answer \/ OtherMessage \/ Lose \/ Deliver
           \/ UNCHANGED vars
  <2>1. tab' = tab /\ state' = state
    BY <1>1 DEF Link, LinkStep, Notification, Answer, OtherMessage, Lose,
                Deliver, vars
  <2>2. QED
    BY <1>0, <2>1
<1>2. CASE Enter
  BY <1>0, <1>2, EnterEffect DEF Visit
<1>3. CASE Leave
  BY <1>0, <1>3, LeaveEffect
<1>4. CASE Start
  <2>1. tab' = tab
    BY <1>4 DEF Start
  <2>2. QED
    BY <1>0, <1>4, <2>1, StartEffect
<1>5. CASE Stop
  <2>1. tab' = tab
    BY <1>5 DEF Stop
  <2>2. QED
    BY <1>0, <1>5, <2>1, StopEffect
<1>6. CASE \E v \in Visit, t \in Timer : TickSends(v, t) \/ TickCancels(v, t)
  <2>1. PICK v \in Visit, t \in Timer : TickSends(v, t) \/ TickCancels(v, t)
    BY <1>6
  <2>2. tab' = tab
    BY <2>1 DEF TickSends, TickCancels
  <2>3. QED
    BY <1>0, <2>1, <2>2, TickEffect
<1>7. QED
  BY <1>1, <1>2, <1>3, <1>4, <1>5, <1>6 DEF Next

(* A tab that was left has no timer, unless a test was started hastily.    *)
THEOREM NoTimerIsLeft == Spec => []NoTimerBehindTab
<1>1. Init => TimersKnown
  BY DEF Init, TimersKnown, Fresh
<1>2. TimersKnown => NoTimerBehindTab
  BY DEF TimersKnown, NoTimerBehindTab
<1>3. QED
  BY <1>1, <1>2, TypeCorrect, TimersStep, PTL DEF Spec

-----------------------------------------------------------------------------
(* The step of a quiet test: every message more is a second more or one of *)
(* the device's own.                                                       *)
LEMMA QuietStep == TypeOK /\ QuietTest /\ [Next]_vars => QuietTest'
<1> SUFFICES ASSUME TypeOK, QuietTest, [Next]_vars,
                    tab' # 0, state'[tab'].startTestFlag, state'[tab'].quiet
             PROVE  /\ \A v \in Visit : v # tab' => state'[v].timers = {}
                    /\ toDevice' + toApp' <=
                         1 + state'[tab'].timeCounterSeconds + others'
  BY DEF QuietTest
<1> USE DEF QuietTest
<1>0. /\ toDevice \in Nat /\ toApp \in Nat /\ others \in Nat
      /\ tab # 0 => tab \in Visit /\ state[tab].timeCounterSeconds \in Nat
  BY TabIsVisit DEF TypeOK, State
<1>1. CASE Link
  <2>1. tab' = tab /\ state' = state /\ others' = others
    BY <1>1 DEF Link, LinkStep, used
  <2>2. \/ toDevice' = 0 /\ toApp' = 0
        \/ toDevice' = toDevice /\ toApp' = toApp
    BY <1>1 DEF Link, LinkStep
  <2>3. QED
    BY <1>0, <2>1, <2>2
<1>2. CASE Notification \/ UNCHANGED vars
  BY <1>2 DEF Notification, vars, used
<1>3. CASE Answer
  BY <1>0, <1>3 DEF Answer, used
<1>4. CASE OtherMessage
  BY <1>0, <1>4 DEF OtherMessage
<1>5. CASE Lose
  BY <1>0, <1>5 DEF Lose
<1>6. CASE Enter
  BY <1>6, EnterEffect
<1>7. CASE Leave
  BY <1>7 DEF Leave
<1>8. CASE Start
  <2>1. tab' = tab /\ toApp' = toApp /\ others' = others
    BY <1>8 DEF Start
  <2>2. Silent
    BY <1>8, <2>1, StartEffect
  <2>3. toDevice' \in {toDevice, toDevice + 1}
    BY <1>8 DEF Start, SendEchoTest
  <2>4. QED
    BY <1>0, <1>8, <2>1, <2>2, <2>3, StartEffect DEF Silent
<1>9. CASE Stop
  <2>1. tab' = tab
    BY <1>9 DEF Stop
  <2>2. QED
    BY <1>9, <2>1, StopEffect
<1>10. CASE \E v \in Visit, t \in Timer : TickSends(v, t) \/ TickCancels(v, t)
  <2>1. PICK v \in Visit, t \in Timer : TickSends(v, t) \/ TickCancels(v, t)
    BY <1>10
  <2>2. tab' = tab /\ toApp' = toApp /\ others' = others /\ t \in state[v].timers
    BY <2>1 DEF TickSends, TickCancels, used
  <2>3. tab \in Visit /\ state[tab].startTestFlag /\ state[tab].quiet
    BY <1>0, <2>1, <2>2, TickEffect
  <2>4. v = tab
    BY <2>2, <2>3
  <2>5. \A w \in Visit : w # tab' => state'[w].timers = {}
    BY <2>1, <2>2, <2>3, <2>4, TickEffect
  <2>6. \/ /\ toDevice' \in {toDevice, toDevice + 1}
           /\ state'[tab].timeCounterSeconds = state[tab].timeCounterSeconds + 1
        \/ /\ toDevice' = toDevice
           /\ state'[tab].timeCounterSeconds = state[tab].timeCounterSeconds
    BY <2>1, <2>4, TickEffect DEF TickSends, TickCancels, SendEchoTest
  <2>7. QED
    BY <1>0, <2>2, <2>3, <2>5, <2>6
<1>11. CASE Deliver
  <2>1. /\ tab' = tab /\ state' = state /\ others' = others
        /\ toApp > 0 /\ toApp' = toApp - 1
        /\ toDevice' \in {toDevice, toDevice + 1}
    BY <1>11 DEF Deliver, SendEchoTest, used
  <2>2. QED
    BY <1>0, <2>1
<1>12. QED
  BY <1>1, <1>2, <1>3, <1>4, <1>5, <1>6, <1>7, <1>8, <1>9, <1>10, <1>11 DEF Next

(* The traffic of a test that began in silence grows by one a second.      *)
THEOREM TrafficIsBounded == Spec => []TrafficBounded
<1>1. Init => QuietTest
  BY DEF Init, QuietTest
<1>2. QuietTest => TrafficBounded
  BY DEF QuietTest, TrafficBounded
<1>3. QED
  BY <1>1, <1>2, TypeCorrect, QuietStep, PTL DEF Spec
=============================================================================
