-------------------------- MODULE NotificationDecoder --------------------------
(***************************************************************************)
(* From notifications to responses: the listener of enableNotification     *)
(* with the decoder's buffer, which outlives subscriptions and links.      *)
(*                                                                         *)
(* The device cuts each encoded message into notifications that fit the    *)
(* link (BLE-Protocol.pdf, page 1).  Notifications arrive in order; some   *)
(* may be lost (the device's queue is full), all are that arrive while     *)
(* nothing listens, and a lost link takes those under way with it.         *)
(***************************************************************************)
EXTENDS Frames

CONSTANTS
  Size,        \* the length of the body of each message, in bytes
  Payloads,    \* the sizes of notifications: ATT MTU - 3
  MaxShort,    \* a shorter body cannot hold the four bytes of a CRC
  MaxFaults    \* bound: notifications lost

Message == DOMAIN Size
Encoded(m) == encoder(m, Size[m])

ASSUME SizeAssumption == Size \in Seq(Nat \ {0})
ASSUME PayloadAssumption == Payloads \subseteq Nat \ {0}
ASSUME ShortAssumption ==
  /\ MaxShort \in Nat
  /\ \A m \in Message : Size[m] > MaxShort
  /\ \A n \in Payloads : n - 1 > MaxShort
ASSUME FaultsAssumption == MaxFaults \in Nat

VARIABLES
  unlucky,        \* ends of messages that COBS accepts by themselves
  sent,           \* device: number of messages sent
  air,            \* notifications under way
  listening,      \* _bleNotificationStream # null
  dataRaw,        \* the decoder's _dataRaw
  dataMapBytes,   \* _dataMapBytes
  heard,          \* history: the messages added to the response stream
  reported,       \* history: the dataMapBytes given with each of them
  arrived,        \* history: per message, bytes handed to the listener
  aborted,        \* history: messages one of whose notifications threw
  faults          \* use of the bound

appVars == << listening, dataRaw, dataMapBytes, heard, reported, aborted >>
deviceVars == << unlucky, sent >>
vars == << deviceVars, air, arrived, appVars, faults >>

(* The notifications of message m; `at` bytes of it come before each.      *)
Notifications(m, n) ==
  [i \in DOMAIN Chunks(Encoded(m), n) |->
     [of |-> m, at |-> n * (i - 1), data |-> Chunks(Encoded(m), n)[i]]]

TypeOK ==
  /\ sent \in 0 .. Len(Size)
  /\ \A i \in DOMAIN air : \E n \in Payloads : Len(air[i].data) \in 1 .. n
  /\ listening \in BOOLEAN
  /\ \A i \in DOMAIN dataRaw : dataRaw[i] # Delimiter
  /\ dataMapBytes \in Nat
  /\ heard \in Seq(Message)
  /\ reported \in Seq(Nat \ {0})
  /\ Len(reported) = Len(heard)
  /\ \A m \in Message : arrived[m] \in 0 .. Len(Encoded(m))
  /\ aborted \subseteq Message
  /\ faults \in 0 .. MaxFaults

(* What the last notification of a message holds before its delimiter,    *)
(* where that is too short for a message.                                  *)
ShortEnds ==
  {e \in {SubSeq(Body(m, Size[m]), Size[m] - n + 1, Size[m]) :
           m \in Message, n \in 1 .. MaxShort} :
     \E m \in Message, n \in Payloads :
       \E i \in DOMAIN Notifications(m, n) :
         Notifications(m, n)[i].data = Append(e, Delimiter)}

Init ==
  /\ unlucky \in SUBSET ShortEnds
  /\ sent = 0
  /\ air = << >>
  /\ listening = FALSE
  /\ dataRaw = << >>
  /\ dataMapBytes = 0
  /\ heard = << >>
  /\ reported = << >>
  /\ arrived = [m \in Message |-> 0]
  /\ aborted = {}
  /\ faults = 0

-----------------------------------------------------------------------------
Send(n) ==
  /\ sent < Len(Size)
  /\ sent' = sent + 1
  /\ air' = air \o Notifications(sent + 1, n)
  /\ UNCHANGED << unlucky, arrived, appVars, faults >>

Lose ==
  /\ faults < MaxFaults
  /\ air # << >>
  /\ air' = Tail(air)
  /\ faults' = faults + 1
  /\ UNCHANGED << deviceVars, arrived, appVars >>

enableNotification ==
  /\ ~listening
  /\ listening' = TRUE
  /\ UNCHANGED << deviceVars, air, arrived, dataRaw, dataMapBytes, heard,
                  reported, aborted, faults >>

(* The buffer and the count of bytes are left as they are.                 *)
disableNotification ==
  /\ listening' = FALSE
  /\ UNCHANGED << deviceVars, arrived, dataRaw, dataMapBytes, heard, reported,
                  aborted, faults >>

(* The subscription is cancelled while the link stays.                     *)
Unsubscribe == listening /\ disableNotification /\ UNCHANGED air

(* The link is lost, and the notifications under way.                      *)
LinkLost == disableNotification /\ air' = << >>

(* A notification nobody listens to is gone.                               *)
Miss ==
  /\ ~listening
  /\ air # << >>
  /\ air' = Tail(air)
  /\ UNCHANGED << deviceVars, arrived, appVars, faults >>

(* Mutant: the count starts again with every notification.                 *)
Listen_CountsLast(n) ==
  LET d == decoder(unlucky, dataRaw, n.data) IN
  /\ dataRaw' = d.raw
  /\ dataMapBytes' = IF d.map = Nothing THEN Len(n.data) ELSE 0
  /\ heard' = IF d.map = Nothing THEN heard ELSE Append(heard, d.map)
  /\ reported' = IF d.map = Nothing THEN reported
                                    ELSE Append(reported, Len(n.data))
  /\ aborted' = IF d.thrown THEN aborted \cup {n.of} ELSE aborted

(* The listener is given notification n.                                   *)
Listen(n) ==
  LET bytes == dataMapBytes + Len(n.data) IN
  \E d \in {decoder(unlucky, dataRaw, n.data)} :
    /\ dataRaw' = d.raw
    /\ \/ /\ d.thrown
          /\ aborted' = aborted \cup {n.of}
          /\ UNCHANGED << dataMapBytes, heard, reported >>
       \/ /\ ~d.thrown /\ d.map = Nothing
          /\ dataMapBytes' = bytes
          /\ UNCHANGED << heard, reported, aborted >>
       \/ /\ ~d.thrown /\ d.map # Nothing
          /\ heard' = Append(heard, d.map)
          /\ reported' = Append(reported, bytes)
          /\ dataMapBytes' = 0
          /\ UNCHANGED aborted

Deliver ==
  /\ listening
  /\ air # << >>
  /\ air' = Tail(air)
  /\ arrived' = [arrived EXCEPT ![Head(air).of] = @ + Len(Head(air).data)]
  /\ Listen(Head(air))
  /\ UNCHANGED << deviceVars, listening, faults >>

-----------------------------------------------------------------------------
Next ==
  \/ \E n \in Payloads : Send(n)
  \/ Lose \/ Miss
  \/ enableNotification \/ Unsubscribe \/ LinkLost
  \/ Deliver

Spec == Init /\ [][Next]_vars

-----------------------------------------------------------------------------
(* Properties *)

Whole(m) == arrived[m] = Len(Encoded(m))

(* The response stream carries messages in the order they were sent, none  *)
(* twice, whatever was lost, and however the pieces of different messages  *)
(* and of different links meet in the buffer.                              *)
HeardInOrder ==
  \A i, j \in DOMAIN heard : i < j => heard[i] < heard[j]

(* A message all of whose notifications were handed to the listener is     *)
(* put on the response stream, whatever was in the buffer before, unless   *)
(* decode threw on a delimiter of its own.                                 *)
ArrivedIsHeard ==
  \A m \in Message : Whole(m) /\ m \notin aborted =>
    \E i \in DOMAIN heard : heard[i] = m

(* The traffic tab adds up what the stream reports: as long as every       *)
(* message arrives whole, each is reported with the bytes of its own       *)
(* notifications.                                                          *)
BytesAreOwn ==
  \A i \in DOMAIN heard :
    (\A m \in 1 .. heard[i] : Whole(m)) =>
      reported[i] = Len(Encoded(heard[i]))

(* encoder_decoder.dart:59: the decoder stacks up arrays "until we see a   *)
(* full message".  So every message that arrives whole is seen.            *)
FullMessagesAreSeen ==
  \A m \in Message : Whole(m) => \E i \in DOMAIN heard : heard[i] = m

=============================================================================
