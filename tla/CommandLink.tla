------------------------------ MODULE CommandLink ------------------------------
(***************************************************************************)
(* Commands and their answers over the links of one device: CommandWriter  *)
(* towards it, NotificationDecoder back.  Commands are written only while  *)
(* BleSopepInteractor holds a characteristic, which it does exactly while  *)
(* it holds a notification stream.  The stream may be deaf: made without a *)
(* link, or on one that has gone since.                                    *)
(*                                                                         *)
(* The device is external: it answers every command it decodes with one    *)
(* message, in order, and sends events of its own.  What it had not        *)
(* answered when the link is lost it does not answer on the next one.      *)
(***************************************************************************)
EXTENDS CommandWriter, NotificationDecoder

CONSTANT MaxEvents     \* bound: events

ASSUME LinkAssumption ==
  /\ Payloads = {n - BLE_ATT_HEADER_BYTES : n \in Mtus \cup {DefaultMtu}}
  /\ MaxEvents \in Nat
  /\ Len(Size) = Len(CommandSize) + MaxEvents

VARIABLES
  subscribed,    \* _bleNotificationStream # null, so _characteristic, too;
                 \* `listening` is that it hears the present link
  unanswered,    \* device: commands decoded and not answered
  answers        \* history: per message sent, the command it answers,
                 \* Nothing for an event

device == << unanswered, answers >>
linkStateVars == << writerVars, vars, subscribed, device >>

LinkInit ==
  /\ WriterInit
  /\ Init
  /\ subscribed = FALSE
  /\ unanswered = << >>
  /\ answers = << >>

-----------------------------------------------------------------------------
(* requestMtu touches the writer alone.                                    *)
LinkUp ==
  /\ linkMtu = 0
  /\ Connected
  /\ UNCHANGED << vars, subscribed, device >>

LinkSized ==
  /\ Negotiated
  /\ UNCHANGED << vars, subscribed, device >>

(* "disconnected" disables notifications.  A cancelled listener is not     *)
(* told: disconnect() disables them before it awaits the cancel, and a     *)
(* timer may enable them again (Disable, then Subscribe) on the link that  *)
(* is going.                                                               *)
LinkDown ==
  /\ Disconnected
  /\ LinkLost
  /\ subscribed' \in {FALSE, subscribed}
  /\ unanswered' = << >>
  /\ UNCHANGED answers

(* disconnect() up to its await, or the "disconnected" of another session  *)
(* than this link's: the link stays.                                       *)
Disable ==
  /\ subscribed
  /\ subscribed' = FALSE
  /\ disableNotification
  /\ UNCHANGED << writerVars, air, device >>

(* A tick of a handshake timer: this link's, which starts when requestMtu  *)
(* has answered, or an earlier one's, at any time.                         *)
Subscribe ==
  /\ ~subscribed
  /\ subscribed' = TRUE
  /\ links > 1 \/ (links = 1 /\ ~negotiating)
  /\ IF linkMtu # 0 THEN enableNotification ELSE UNCHANGED vars
  /\ UNCHANGED << writerVars, device >>

Issue(m) ==
  /\ subscribed
  /\ writeCborWithoutResponse(m)
  /\ UNCHANGED << vars, subscribed, device >>

Continue(m) ==
  /\ NextPacket(m)
  /\ UNCHANGED << vars, subscribed, device >>

-----------------------------------------------------------------------------
(* The device *)

Accept ==
  /\ Receive
  /\ unanswered' =
       unanswered \o SubSeq(received', Len(received) + 1, Len(received'))
  /\ UNCHANGED << vars, subscribed, answers >>

Answer ==
  /\ linkMtu # 0
  /\ unanswered # << >>
  /\ Send(linkMtu - BLE_ATT_HEADER_BYTES)
  /\ unanswered' = Tail(unanswered)
  /\ answers' = Append(answers, Head(unanswered))
  /\ UNCHANGED << writerVars, subscribed >>

Event ==
  /\ linkMtu # 0
  /\ Cardinality({k \in DOMAIN answers : answers[k] = Nothing}) < MaxEvents
  /\ Send(linkMtu - BLE_ATT_HEADER_BYTES)
  /\ answers' = Append(answers, Nothing)
  /\ UNCHANGED << writerVars, subscribed, unanswered >>

(* A notification comes to the app, whether it listens or not.             *)
Notify ==
  /\ Deliver \/ Miss
  /\ UNCHANGED << writerVars, subscribed, device >>

Drop ==
  /\ Lose
  /\ UNCHANGED << writerVars, subscribed, device >>

-----------------------------------------------------------------------------
LinkNext ==
  \/ LinkUp \/ LinkSized \/ LinkDown \/ Disable \/ Subscribe
  \/ \E m \in Command : Issue(m) \/ Continue(m)
  \/ Accept \/ Answer \/ Event \/ Notify \/ Drop

(* The plugin completes the writes it took, radio and device pass on what  *)
(* they hold: some of this work is done while there is any.                *)
Work == Answer \/ Accept \/ Notify \/ \E m \in Command : Continue(m)

LinkFairness == WF_linkStateVars(Work)

LinkSpec == LinkInit /\ [][LinkNext]_linkStateVars
LiveLinkSpec == LinkSpec /\ LinkFairness

-----------------------------------------------------------------------------
(* Properties *)

(* The types of the decoder and of the device's queue.                     *)
LinkTypeOK ==
  /\ WriterTypeOK
  /\ TypeOK
  /\ subscribed \in BOOLEAN
  /\ listening => subscribed /\ linkMtu # 0
  /\ Len(answers) = sent
  /\ ToSet(unanswered) \subseteq ToSet(received)

(* The answers on the response stream come in the order of the calls, and  *)
(* none twice, whatever answers and links are lost in between.             *)
AnswersInOrder ==
  \A i, j \in DOMAIN heard :
    LET a == answers[heard[i]]
        b == answers[heard[j]]
    IN  i < j /\ a # Nothing /\ b # Nothing => a < b

(* Commands and messages are decoded in the order they were given to the   *)
(* other side and at most once, on either side of any number of links; and *)
(* so are the answers to the commands.                                     *)
DecodedInOrder == ReceivedInOrder /\ HeardInOrder /\ AnswersInOrder

AnswerHeard(m) == \E i \in DOMAIN heard : answers[heard[i]] = m

(* The answer to m cannot come any more: its link was lost before it was   *)
(* sent, or one of its notifications was missed or threw.                  *)
AnswerMissed(m) ==
  \/ /\ m \in ToSet(received)
     /\ m \notin ToSet(unanswered) \cup ToSet(answers)
  \/ \E k \in DOMAIN answers :
       /\ answers[k] = m
       /\ \/ k \in aborted
          \/ /\ ~Whole(k)
             /\ \A i \in DOMAIN air :
                  << air[i].of, air[i].at >> # << k, arrived[k] >>

(* A command whose packets stay together is answered on the response       *)
(* stream, unless the plugin refused one of its packets or its answer was  *)
(* lost on the way: what the dialogs wait for without a timeout.           *)
CommandIsAnswered ==
  \A m \in Command :
    (call[m].state \in {"writing", "done"} /\ m \notin broken)
      ~> (m \in broken \/ call[m].state = "failed" \/ AnswerHeard(m)
           \/ AnswerMissed(m))

=============================================================================
