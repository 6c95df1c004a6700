--------------------------- MODULE ReadData_proofs ---------------------------
(***************************************************************************)
(* Proofs about ReadData for all device contents and any number of         *)
(* dialogs, retries and faults.                                            *)
(***************************************************************************)
EXTENDS ReadData, SequenceTheorems, FiniteSetTheorems, TLAPS

USE BoundsAssumption

-----------------------------------------------------------------------------
(* Types *)

LEMMA KindIsSeq ==
  ASSUME TypeOK
  PROVE  kind \in Seq(Kind) /\ Len(kind) \in Nat /\ Seqs = 1 .. Len(kind)
BY LayoutsAssumption DEF TypeOK, Seqs

(* The kinds of messages.                                                  *)
LEMMA MessageCases ==
  ASSUME TypeOK, NEW m \in Message
  PROVE  /\ m.type \in {"data", "none", "event"}
         /\ m.type = "data" => m.seq \in Seqs /\ m = Data(m.seq)
BY DEF Message, NoData, Event, Data

LEMMA HeadMessage ==
  ASSUME TypeOK, toApp # << >>
  PROVE  /\ Head(toApp) \in Message
         /\ Tail(toApp) \in Seq(Message)
BY HeadTailProperties DEF TypeOK

LEMMA MaxOfTwo ==
  ASSUME NEW a \in Int, NEW b \in Int
  PROVE  /\ Max({a, b}) = IF a >= b THEN a ELSE b
         /\ Min({a, b}) = IF a <= b THEN a ELSE b
<1>1. \E x \in {a, b} : \A y \in {a, b} : x >= y
  OBVIOUS
<1>2. \E x \in {a, b} : \A y \in {a, b} : x <= y
  OBVIOUS
<1>3. Max({a, b}) \in {a, b} /\ \A y \in {a, b} : Max({a, b}) >= y
  BY <1>1 DEF Max
<1>4. Min({a, b}) \in {a, b} /\ \A y \in {a, b} : Min({a, b}) <= y
  BY <1>2 DEF Min
<1>5. QED
  BY <1>3, <1>4

(* What a message makes of the loop of dialog d: it begins, it reads the   *)
(* item that ends a set, another item of a set, an item outside a set, or  *)
(* it stays where it is.                                                   *)
LoopBegins(d, m) ==
  /\ Begins(d, m)
  /\ loop'[d].alive
  /\ loop'[d].first = m.seq /\ loop'[d].seq = m.seq - 1
  /\ loop'[d].raw = << >>

LoopEndsSet(d, m) ==
  /\ ~Begins(d, m) /\ CompletesSet(d, m)
  /\ loop'[d].alive
  /\ loop'[d].first = loop[d].first /\ loop'[d].seq = m.seq
  /\ loop'[d].raw = << >>

LoopCollects(d, m) ==
  /\ ~Begins(d, m) /\ Consumes(d, m) /\ Collecting(d, m) /\ kind[m.seq] # "end"
  /\ loop'[d].alive /\ loop'[d].startSetFound
  /\ loop'[d].first = loop[d].first /\ loop'[d].seq = m.seq
  /\ loop'[d].raw = Append(loop[d].raw, m.seq)

LoopSkips(d, m) ==
  /\ ~Begins(d, m) /\ Consumes(d, m) /\ ~Collecting(d, m)
  /\ loop'[d].alive
  /\ loop'[d].first = loop[d].first /\ loop'[d].seq = m.seq
  /\ loop'[d].raw = loop[d].raw

LoopStays(d, m) ==
  /\ ~Begins(d, m) /\ ~Consumes(d, m)
  /\ loop'[d].alive => loop[d].alive
  /\ ~Finishes(d, m) => (loop[d].alive => loop'[d].alive)
  /\ loop[d].startSetFound => loop'[d].startSetFound
  /\ loop'[d].first = loop[d].first /\ loop'[d].seq = loop[d].seq
  /\ loop'[d].raw = loop[d].raw

LEMMA LoopWith ==
  ASSUME NEW l \in Loop, NEW n \in 0 .. Len(kind), NEW b \in {TRUE, FALSE},
         NEW s \in Seq(Seqs)
  PROVE  [l EXCEPT !.seq = n, !.startSetFound = b, !.raw = s] \in Loop
BY DEF Loop

LEMMA LoopStep ==
  ASSUME TypeOK, Deliver, NEW d \in Dialog, NEW m, m = Head(toApp)
  PROVE  /\ loop'[d] \in Loop
         /\ \/ LoopBegins(d, m) \/ LoopEndsSet(d, m) \/ LoopCollects(d, m)
            \/ LoopSkips(d, m) \/ LoopStays(d, m)
<1> DEFINE l == loop[d]
<1>0. toApp # << >> /\ m \in Message /\ l \in Loop /\ Len(kind) \in Nat
  BY HeadMessage, KindIsSeq DEF Deliver, TypeOK
<1>1. loop'[d] = IF Begins(d, m)
                   THEN [NoLoop EXCEPT !.alive = TRUE, !.first = m.seq,
                                       !.seq = m.seq - 1]
                   ELSE LoopAfter(d, m)
  BY DEF Deliver
<1>2. m.type = "data" => m.seq \in 1 .. Len(kind) /\ m.seq \in Seqs
  BY <1>0, MessageCases, KindIsSeq
<1> DEFINE throws == l.alive /\ Throws(d, m)
<1>8. /\ CompletesSet(d, m) => Consumes(d, m)
      /\ Consumes(d, m) => ~throws /\ ~Finishes(d, m)
      /\ ~(throws /\ Finishes(d, m))
  BY DEF CompletesSet, Consumes, Throws, Expected, Finishes
<1>3. CASE Begins(d, m)
  <2>1. loop'[d] = [NoLoop EXCEPT !.alive = TRUE, !.first = m.seq,
                                  !.seq = m.seq - 1]
    BY <1>1, <1>3
  <2>2. m.seq \in 1 .. Len(kind) /\ m.seq - 1 \in 0 .. Len(kind)
    BY <1>0, <1>2, <1>3 DEF Begins
  <2>3. loop'[d] = [alive |-> TRUE, first |-> m.seq, seq |-> m.seq - 1,
                    startSetFound |-> FALSE, raw |-> << >>]
    BY <2>1 DEF NoLoop
  <2>4. loop'[d] \in Loop
    BY <2>2, <2>3 DEF Loop
  <2>5. LoopBegins(d, m)
    BY <1>3, <2>3 DEF LoopBegins
  <2>6. QED
    BY <2>4, <2>5
<1>4. CASE ~Begins(d, m) /\ CompletesSet(d, m)
  <2>1. loop'[d] = [l EXCEPT !.seq = m.seq, !.startSetFound = FALSE, !.raw = << >>]
    BY <1>1, <1>4, <1>8 DEF LoopAfter
  <2>2. m.seq \in 0 .. Len(kind) /\ l.alive
    BY <1>0, <1>2, <1>4 DEF CompletesSet, Consumes, Expected
  <2>3. loop'[d] \in Loop
    <3>1. << >> \in Seq(Seqs)
      OBVIOUS
    <3>2. QED
      <4>1. FALSE \in {TRUE, FALSE} /\ l \in Loop
        BY <1>0, Zenon
      <4>2. [l EXCEPT !.seq = m.seq, !.startSetFound = FALSE, !.raw = << >>]
              \in Loop
        BY ONLY <2>2, <3>1, <4>1, LoopWith, Zenon
      <4>3. QED
        BY <2>1, <4>2, Zenon
  <2>4. LoopEndsSet(d, m)
    BY <1>0, <1>4, <2>1, <2>2 DEF Loop, LoopEndsSet
  <2>5. QED
    BY <2>3, <2>4
<1>5. CASE ~Begins(d, m) /\ Consumes(d, m) /\ ~CompletesSet(d, m)
  <2> DEFINE raw == IF Collecting(d, m) THEN Append(l.raw, m.seq) ELSE l.raw
  <2>1. loop'[d] = [l EXCEPT !.seq = m.seq, !.startSetFound = Collecting(d, m),
                             !.raw = raw]
    BY <1>1, <1>5, <1>8 DEF LoopAfter
  <2>2. m.seq \in 0 .. Len(kind) /\ m.seq \in Seqs /\ l.alive
    BY <1>0, <1>2, <1>5 DEF Consumes, Expected
  <2>3. CASE Collecting(d, m)
    <3>1. Collecting(d, m) = TRUE
      BY <2>3, Zenon DEF Collecting
    <3>2. loop'[d] = [l EXCEPT !.seq = m.seq, !.startSetFound = TRUE,
                               !.raw = Append(l.raw, m.seq)]
      BY <2>1, <2>3, <3>1, Zenon
    <3>3. kind[m.seq] # "end"
      BY <1>5, <2>3 DEF CompletesSet
    <3>4. loop'[d] \in Loop
      <4>1. Append(l.raw, m.seq) \in Seq(Seqs)
        BY <1>0, <2>2 DEF Loop
      <4>2. QED
        <5>1. TRUE \in {TRUE, FALSE} /\ l \in Loop
          BY <1>0, Zenon
        <5>2. [l EXCEPT !.seq = m.seq, !.startSetFound = TRUE,
                        !.raw = Append(l.raw, m.seq)] \in Loop
          BY ONLY <2>2, <4>1, <5>1, LoopWith, Zenon
        <5>3. QED
          BY <3>2, <5>2, Zenon
    <3>5. LoopCollects(d, m)
      BY <1>0, <1>5, <2>2, <2>3, <3>2, <3>3 DEF Loop, LoopCollects
    <3>6. QED
      BY <3>4, <3>5
  <2>4. CASE ~Collecting(d, m)
    <3>1. Collecting(d, m) = FALSE
      BY <2>4, Zenon DEF Collecting
    <3>2. loop'[d] = [l EXCEPT !.seq = m.seq, !.startSetFound = FALSE,
                               !.raw = l.raw]
      BY <2>1, <2>4, <3>1, Zenon
    <3>3. QED
      BY <1>0, <1>5, <2>2, <2>4, <3>2 DEF Loop, LoopSkips
  <2>5. QED
    BY <2>3, <2>4
<1>6. CASE ~Begins(d, m) /\ ~Consumes(d, m)
  <2>1. ~CompletesSet(d, m)
    BY <1>6 DEF CompletesSet
  <2>2. loop'[d] = LoopAfter(d, m)
    BY <1>1, <1>6
  <2>3. CASE l.alive /\ Throws(d, m)
    <3>1. loop'[d] = [l EXCEPT !.startSetFound = TRUE]
      BY <1>6, <1>8, <2>1, <2>2, <2>3 DEF LoopAfter
    <3>2. QED
      BY <1>0, <1>6, <3>1 DEF Loop, LoopStays
  <2>4. CASE ~(l.alive /\ Throws(d, m)) /\ Finishes(d, m)
    <3>1. loop'[d] = [l EXCEPT !.alive = FALSE]
      BY <1>6, <1>8, <2>1, <2>2, <2>4 DEF LoopAfter
    <3>2. QED
      BY <1>0, <1>6, <2>4, <3>1 DEF Loop, LoopStays
  <2>5. CASE ~(l.alive /\ Throws(d, m)) /\ ~Finishes(d, m)
    <3>1. loop'[d] = l
      BY <1>6, <1>8, <2>1, <2>2, <2>5 DEF LoopAfter
    <3>2. QED
      BY <1>0, <1>6, <3>1 DEF LoopStays
  <2>6. QED
    BY <2>3, <2>4, <2>5
<1>7. QED
  BY <1>3, <1>4, <1>5, <1>6


(* The files written are made of items of the buffers.                     *)
LEMMA FilesTyped ==
  ASSUME TypeOK, NEW raw \in Seq(Seqs)
  PROVE  FormatData(raw) \subseteq Seq(Seqs)
<1>1. SUFFICES ASSUME NEW i \in DOMAIN raw
               PROVE  SubSeq(raw, i, Len(raw)) \in Seq(Seqs)
  BY DEF FormatData
<1>2. i \in Int /\ Len(raw) \in Int /\ \A k \in i .. Len(raw) : raw[k] \in Seqs
  BY <1>1
<1>3. QED
  BY <1>2, SubSeqProperties

(* A message makes each dialog send at most one command, for the item it   *)
(* is at.                                                                  *)
LEMMA CommandsSent ==
  ASSUME TypeOK, NEW m \in Message, SendCommands(m)
  PROVE  \E cmds \in Seq(0 .. Len(kind)) :
           /\ toDevice' = toDevice \o cmds
           /\ \A i \in 1 .. Len(cmds) :
                \E d \in Senders(m) : cmds[i] = Asks(d, m)
<1>1. PICK sender \in [1 .. Cardinality(Senders(m)) -> Senders(m)] :
        toDevice' = toDevice \o [i \in DOMAIN sender |-> Asks(sender[i], m)]
  BY DEF SendCommands
<1> DEFINE n == Cardinality(Senders(m))
           cmds == [i \in 1 .. n |-> Asks(sender[i], m)]
<1>2. n \in Nat
  <2>1. IsFiniteSet(Dialog) /\ Senders(m) \subseteq Dialog
    BY FS_Interval DEF Dialog, Senders
  <2>2. QED
    BY <2>1, FS_Subset, FS_CardinalityType
<1>3. \A d \in Senders(m) : Asks(d, m) \in 0 .. Len(kind)
  <2>1. SUFFICES ASSUME NEW d \in Senders(m) PROVE Asks(d, m) \in 0 .. Len(kind)
    OBVIOUS
  <2>2. m.type = "data"
    BY <2>1 DEF Senders, Begins, Consumes, Expected
  <2>3. m.seq \in 1 .. Len(kind) /\ Len(kind) \in Nat
    BY <2>2, MessageCases, KindIsSeq
  <2>4. QED
    BY <2>3 DEF Asks
<1>4. \A i \in 1 .. n : sender[i] \in Senders(m)
  BY <1>1
<1>5. cmds \in [1 .. n -> 0 .. Len(kind)]
  BY <1>3, <1>4
<1>6. cmds \in Seq(0 .. Len(kind)) /\ Len(cmds) = n
  BY <1>2, <1>5
<1>7. toDevice' = toDevice \o cmds
  BY <1>1
<1>8. \A i \in 1 .. n : cmds[i] = Asks(sender[i], m)
  OBVIOUS
<1> HIDE DEF cmds, n
<1>9. QED
  BY <1>4, <1>6, <1>7, <1>8

LEMMA DeliverTyped == TypeOK /\ Deliver => TypeOK'
<1> SUFFICES ASSUME TypeOK, Deliver PROVE TypeOK'
  OBVIOUS
<1> DEFINE m == Head(toApp)
<1>1. /\ m \in Message /\ Tail(toApp) \in Seq(Message) /\ toApp # << >>
      /\ UNCHANGED << kind, stored, deleted, dialog, opened, bounds >>
  BY HeadMessage DEF Deliver, deviceVars
<1>2. Seqs' = Seqs /\ Message' = Message /\ Loop' = Loop
  BY <1>1 DEF Seqs, Message, Data, NoData, Event, Loop
<1>3. loop' \in [Dialog -> Loop]
  <2>1. \A d \in Dialog : loop'[d] \in Loop
    BY LoopStep
  <2>2. DOMAIN loop' = Dialog /\ loop' = [d \in Dialog |-> loop'[d]]
    BY DEF Deliver
  <2>3. QED
    BY <2>1, <2>2
<1>4. toApp' \in Seq(Message)
  BY <1>1 DEF Deliver
<1>5. progress' \in [Dialog -> {"idle", "reading", "complete", "empty"}]
  BY DEF Deliver, TypeOK
<1>6. retries' \in [Dialog -> 0 .. MaxRetries]
  <2>1. SUFFICES ASSUME NEW d \in Dialog
                 PROVE  Min({retries[d] + 1, MaxRetries}) \in 0 .. MaxRetries
    BY DEF Deliver, TypeOK
  <2>2. retries[d] + 1 \in 1 .. (MaxRetries + 1) /\ MaxRetries \in Nat
    BY DEF TypeOK
  <2> DEFINE n == retries[d] + 1
  <2> HIDE DEF n
  <2>3. n \in Int /\ MaxRetries \in Int /\ 0 <= n /\ n \in Nat
    BY <2>2 DEF n
  <2>4. Min({n, MaxRetries}) = IF n <= MaxRetries THEN n ELSE MaxRetries
    BY <2>3, MaxOfTwo
  <2>5. Min({n, MaxRetries}) \in 0 .. MaxRetries
    BY <2>2, <2>3, <2>4
  <2>6. QED
    BY <2>5 DEF n
<1>7. NewSets(m) \subseteq Seq(Seqs)
  <2>1. SUFFICES ASSUME NEW d \in Dialog, CompletesSet(d, m)
                 PROVE  FormatData(Append(loop[d].raw, m.seq)) \subseteq Seq(Seqs)
    BY DEF NewSets
  <2>2. m.seq \in Seqs
    BY <1>1, <2>1, MessageCases DEF CompletesSet, Consumes, Expected
  <2>3. loop[d].raw \in Seq(Seqs)
    BY DEF TypeOK, Loop
  <2>4. Append(loop[d].raw, m.seq) \in Seq(Seqs)
    BY <2>2, <2>3
  <2>5. QED
    BY <2>4, FilesTyped
<1>8. received' \subseteq Seqs
  BY <1>1, MessageCases DEF Deliver, TypeOK
<1>9. toDevice' \in Seq(0 .. Len(kind))
  <2>1. SendCommands(m)
    BY DEF Deliver
  <2>2. PICK cmds \in Seq(0 .. Len(kind)) : toDevice' = toDevice \o cmds
    BY <1>1, <2>1, CommandsSent
  <2>3. QED
    BY <2>2, ConcatProperties DEF TypeOK
<1>10. /\ writing' \subseteq Seq(Seqs) /\ saved' \subseteq Seq(Seqs)
       /\ failed' \subseteq Seq(Seqs)
  BY <1>7 DEF Deliver, StartWrites, TypeOK
<1>11. stock' \in [Dialog -> 0 .. Len(kind)]
  BY DEF Deliver, TypeOK
<1>12. QED
  BY <1>1, <1>2, <1>3, <1>4, <1>5, <1>6, <1>8, <1>9, <1>10, <1>11
     DEF TypeOK, bounds

LEMMA AnswerTyped == TypeOK /\ Answer => TypeOK'
<1> SUFFICES ASSUME TypeOK, Answer PROVE TypeOK'
  OBVIOUS
<1>1. /\ toDevice # << >> /\ toDevice' = Tail(toDevice)
      /\ UNCHANGED << kind, stored, appVars, bounds >>
  BY DEF Answer
<1>2. Seqs' = Seqs /\ Message' = Message /\ Loop' = Loop
  BY <1>1 DEF Seqs, Message, Data, NoData, Event, Loop
<1>3. Head(toDevice) \in 0 .. Len(kind) /\ Tail(toDevice) \in Seq(0 .. Len(kind))
  BY <1>1, HeadTailProperties DEF TypeOK
<1>4. deleted' \in 0 .. Len(kind)
  <2>1. deleted \in 0 .. Len(kind) /\ Len(kind) \in Nat
    BY KindIsSeq DEF TypeOK
  <2>2. deleted \in Int /\ Head(toDevice) \in Int
    BY <1>3, <2>1
  <2>3. deleted' = IF deleted >= Head(toDevice) THEN deleted ELSE Head(toDevice)
    BY <2>2, MaxOfTwo DEF Answer
  <2>4. QED
    BY <1>3, <2>1, <2>3
<1>5. toApp' \in Seq(Message)
  <2>1. NoData \in Message /\ \A n \in 1 .. stored : Data(n) \in Message
    <3>1. 1 .. stored \subseteq Seqs
      BY KindIsSeq DEF TypeOK
    <3>2. QED
      BY <3>1 DEF Message
  <2>2. \E x \in Message : toApp' = Append(toApp, x)
    BY <2>1 DEF Answer
  <2>3. QED
    BY <2>2 DEF TypeOK
<1>6. QED
  BY <1>1, <1>2, <1>3, <1>4, <1>5 DEF TypeOK, appVars, fileVars, bounds

(* A fault that is left can be counted.                                    *)
LEMMA FaultCounted ==
  ASSUME TypeOK, FaultLeft
  PROVE  /\ events + 1 \in 0 .. MaxFaults /\ losses + 1 \in 0 .. MaxFaults
         /\ restarts + 1 \in 0 .. MaxFaults /\ failures + 1 \in 0 .. MaxFaults
<1>1. /\ MaxFaults \in Nat /\ events \in Nat /\ losses \in Nat
      /\ restarts \in Nat /\ failures \in Nat
      /\ events + losses + restarts + failures < MaxFaults
  BY BoundsAssumption DEF TypeOK, FaultLeft
<1>2. QED
  BY ONLY <1>1

(* The end of a write changes files alone.                                 *)
LEMMA WriteKeeps ==
  Write => UNCHANGED << deviceVars, toDevice, toApp, dialog, opened, progress,
                        loop, retries, stock, received, starts, events, losses,
                        restarts >>
BY DEF Write, WriteEnds, WriteFails, bounds

(* What was handed over stays so; only a message hands over more.          *)
LEMMA HandedByDeliver ==
  Deliver => HandedOver' = HandedOver \cup NewSets(Head(toApp))
BY DEF Deliver, StartWrites, HandedOver

LEMMA HandedOtherwise ==
  [Next]_vars /\ ~Deliver => HandedOver' = HandedOver
<1> SUFFICES ASSUME [Next]_vars, ~Deliver PROVE HandedOver' = HandedOver
  OBVIOUS
<1>1. CASE UNCHANGED fileVars
  BY <1>1 DEF fileVars, HandedOver
<1>2. CASE Restart
  BY <1>2 DEF Restart, HandedOver
<1>3. CASE Write
  BY <1>3 DEF Write, WriteEnds, WriteFails, HandedOver
<1>4. (Record \/ Answer \/ SendEvent \/ Lose \/ OpenDialog \/ PressStart
         \/ CloseDialog \/ UNCHANGED vars \/ \E e \in Dialog : Retry(e))
        => UNCHANGED fileVars
  BY DEF Record, Answer, SendEvent, Lose, OpenDialog, PressStart, CloseDialog,
         Retry, vars, appVars
<1>5. QED
  BY <1>1, <1>2, <1>3, <1>4 DEF Next

LEMMA HandedGrows == [Next]_vars => HandedOver \subseteq HandedOver'
BY HandedByDeliver, HandedOtherwise

LEMMA StepTyped == TypeOK /\ [Next]_vars => TypeOK'
<1> SUFFICES ASSUME TypeOK, [Next]_vars PROVE TypeOK'
  OBVIOUS
<1>0. /\ Len(kind) \in Nat /\ Seqs = 1 .. Len(kind)
      /\ NoData \in Message /\ Event \in Message
      /\ kind' = kind => Seqs' = Seqs /\ Message' = Message /\ Loop' = Loop
  BY KindIsSeq DEF Seqs, Message, Data, NoData, Event, Loop
<1>1. CASE Record
  BY <1>0, <1>1 DEF Record, TypeOK, appVars, fileVars, bounds
<1>2. CASE Answer
  BY <1>2, AnswerTyped
<1>3. CASE SendEvent
  <2>1. events' \in 0 .. MaxFaults
    BY <1>3, FaultCounted DEF SendEvent
  <2>2. toApp' \in Seq(Message)
    BY <1>0, <1>3 DEF SendEvent, TypeOK
  <2>3. QED
    BY <1>0, <1>3, <2>1, <2>2
       DEF SendEvent, TypeOK, deviceVars, appVars, fileVars
<1>4. CASE Lose
  <2>1. losses' \in 0 .. MaxFaults
    BY <1>4, FaultCounted DEF Lose
  <2>2. toDevice' \in Seq(0 .. Len(kind)) /\ toApp' \in Seq(Message)
    BY <1>4, HeadTailProperties DEF Lose, TypeOK
  <2>3. QED
    BY <1>0, <1>4, <2>1, <2>2 DEF Lose, TypeOK, deviceVars, appVars, fileVars
<1>5. CASE OpenDialog
  BY <1>0, <1>5 DEF OpenDialog, TypeOK, deviceVars, fileVars, bounds
<1>6. CASE PressStart
  BY <1>0, <1>6 DEF PressStart, TypeOK, deviceVars, appVars, fileVars, Oldest
<1>7. CASE CloseDialog
  BY <1>0, <1>7 DEF CloseDialog, TypeOK, deviceVars, fileVars, bounds
<1>8. CASE Restart
  <2>1. loop' \in [Dialog -> Loop]
    <3>1. \A l \in Loop : [l EXCEPT !.alive = FALSE] \in Loop
      BY DEF Loop
    <3>2. \A d \in Dialog : loop[d] \in Loop
      BY DEF TypeOK
    <3>3. QED
      BY <1>8, <3>1, <3>2 DEF Restart
  <2>2. restarts' \in 0 .. MaxFaults
    BY <1>8, FaultCounted DEF Restart
  <2>3. /\ toDevice' \in Seq(0 .. Len(kind)) /\ toApp' \in Seq(Message)
        /\ retries' \in [Dialog -> 0 .. MaxRetries]
    BY <1>8 DEF Restart
  <2>4. /\ writing' \subseteq Seq(Seqs) /\ saved' \subseteq Seq(Seqs)
        /\ failed' \subseteq Seq(Seqs)
    BY <1>8 DEF Restart, TypeOK
  <2>5. /\ kind' = kind /\ stored' = stored /\ deleted' = deleted
        /\ dialog' = 0 /\ opened' = opened /\ progress' = progress
        /\ stock' = stock /\ received' = received /\ starts' = starts
        /\ events' = events /\ losses' = losses /\ failures' = failures
    BY <1>8 DEF Restart, deviceVars
  <2>6. QED
    BY <1>0, <2>1, <2>2, <2>3, <2>4, <2>5 DEF TypeOK
<1>9. CASE Deliver
  BY <1>9, DeliverTyped
<1>10. ASSUME NEW d \in Dialog, Retry(d) PROVE TypeOK'
  <2>1. loop[d].seq \in 0 .. Len(kind)
    BY DEF TypeOK, Loop
  <2>2. /\ toDevice' \in Seq(0 .. Len(kind))
        /\ retries' \in [Dialog -> 0 .. MaxRetries]
    BY <1>10, <2>1 DEF Retry, TypeOK
  <2>3. QED
    BY <1>0, <1>10, <2>2 DEF Retry, TypeOK, deviceVars, fileVars, bounds
<1>11. CASE Write
  <2>1. failures' \in 0 .. MaxFaults
    BY <1>11, FaultCounted DEF Write, WriteEnds, WriteFails, bounds, TypeOK
  <2>2. /\ writing' \subseteq Seq(Seqs) /\ saved' \subseteq Seq(Seqs)
        /\ failed' \subseteq Seq(Seqs)
    BY <1>11 DEF Write, WriteEnds, WriteFails, TypeOK
  <2>3. QED
    BY <1>0, <1>11, <2>1, <2>2, WriteKeeps DEF TypeOK, deviceVars
<1>12. CASE UNCHANGED vars
  BY <1>0, <1>12 DEF vars, deviceVars, appVars, fileVars, bounds, TypeOK
<1>13. QED
  BY <1>1, <1>2, <1>3, <1>4, <1>5, <1>6, <1>7, <1>8, <1>9, <1>10, <1>11, <1>12
     DEF Next

LEMMA InitTyped == Init => TypeOK
<1> SUFFICES ASSUME Init PROVE TypeOK
  OBVIOUS
<1>1. Len(kind) \in Nat
  BY LayoutsAssumption DEF Init
<1>2. NoLoop \in Loop
  BY <1>1 DEF NoLoop, Loop
<1>3. QED
  BY <1>1, <1>2 DEF Init, TypeOK

(* Every seq that is sent, answered, or kept by a loop is one of the       *)
(* device's items or 0, and no set holds anything but items: whatever the  *)
(* device has recorded, and however many dialogs, losses and restarts.     *)
THEOREM TypeCorrect == Spec => []TypeOK
<1>1. QED
  BY InitTyped, StepTyped, PTL DEF Spec

-----------------------------------------------------------------------------
(* How far the device has been, or can be, told to delete: the seqs behind *)
(* the commands under way, the loops' positions (a retry sends them), and  *)
(* the items on their way to the app.                                      *)
Told ==
  {deleted} \cup {toDevice[i] : i \in 1 .. Len(toDevice)}
            \cup {loop[d].seq : d \in Dialog}
            \cup {toApp[i].seq - 1 : i \in {j \in 1 .. Len(toApp) :
                                              toApp[j].type = "data"}}

(* c is beyond g with nothing but skipped numbers in between.              *)
OnlyGap(g, c) == c \in Int /\ \A n \in (g + 1) .. c : kind[n] = "missing"

(* The item c has just been taken by a loop.                               *)
Taken(c) ==
  \E d \in Dialog : /\ Deliver /\ Consumes(d, Head(toApp))
                    /\ c = Head(toApp).seq

LEMMA InTail ==
  ASSUME NEW S, NEW s \in Seq(S), s # << >>
  PROVE  /\ 1 \in 1 .. Len(s) /\ Head(s) = s[1]
         /\ \A i \in 1 .. Len(Tail(s)) : /\ i + 1 \in 1 .. Len(s)
                                         /\ Tail(s)[i] = s[i + 1]
BY HeadTailProperties

LEMMA InAppend ==
  ASSUME NEW S, NEW s \in Seq(S), NEW x \in S
  PROVE  \A i \in 1 .. Len(Append(s, x)) :
           \/ i \in 1 .. Len(s) /\ Append(s, x)[i] = s[i]
           \/ Append(s, x)[i] = x
BY AppendProperties

LEMMA ToldIsSeq ==
  ASSUME TypeOK
  PROVE  Told \subseteq 0 .. Len(kind) /\ Len(kind) \in Nat
<1>1. Len(kind) \in Nat /\ Seqs = 1 .. Len(kind)
  BY KindIsSeq
<1>2. \A d \in Dialog : loop[d].seq \in 0 .. Len(kind)
  BY DEF TypeOK, Loop
<1>3. \A i \in 1 .. Len(toDevice) : toDevice[i] \in 0 .. Len(kind)
  BY DEF TypeOK
<1>4. \A i \in 1 .. Len(toApp) :
        toApp[i].type = "data" => toApp[i].seq \in 1 .. Len(kind)
  <2>1. \A i \in 1 .. Len(toApp) : toApp[i] \in Message
    BY DEF TypeOK
  <2>2. QED
    BY <1>1, <2>1, MessageCases
<1>5. \A n \in 1 .. Len(kind) : n - 1 \in 0 .. Len(kind)
  BY <1>1
<1>6. deleted \in 0 .. Len(kind)
  BY DEF TypeOK
<1>7. QED
  BY <1>1, <1>2, <1>3, <1>4, <1>5, <1>6 DEF Told

(* The message that is delivered next.                                     *)
LEMMA NextMessage ==
  ASSUME TypeOK, toApp # << >>, Head(toApp).type = "data"
  PROVE  /\ Head(toApp).seq \in 1 .. Len(kind) /\ Head(toApp).seq \in Seqs
         /\ Head(toApp).seq - 1 \in Told
<1>1. Head(toApp) = toApp[1] /\ 1 \in 1 .. Len(toApp) /\ toApp[1] \in Message
  BY InTail DEF TypeOK
<1>2. toApp[1].seq - 1 \in Told
  BY <1>1 DEF Told
<1>3. QED
  BY <1>1, <1>2, MessageCases, KindIsSeq

LEMMA ToldByAnswer ==
  ASSUME TypeOK, Answer, NEW c \in Told'
  PROVE  c \in Told \/ \E g \in Told : OnlyGap(g, c)
<1>1. /\ toDevice # << >> /\ toDevice' = Tail(toDevice)
      /\ UNCHANGED << kind, stored, loop >>
      /\ Len(kind) \in Nat
  BY KindIsSeq DEF Answer, appVars
<1>2. /\ Head(toDevice) \in Told /\ Head(toDevice) \in 0 .. Len(kind)
      /\ \A i \in 1 .. Len(Tail(toDevice)) : Tail(toDevice)[i] \in Told
  <2>1. toDevice \in Seq(0 .. Len(kind))
    BY DEF TypeOK
  <2>2. \A i \in 1 .. Len(toDevice) : toDevice[i] \in Told
    BY DEF Told
  <2>3. QED
    BY <1>1, <2>1, <2>2, InTail, HeadTailProperties
<1>3. deleted' \in Told /\ deleted' \in 0 .. Len(kind)
  <2>1. deleted \in Told /\ deleted \in 0 .. Len(kind)
    BY DEF Told, TypeOK
  <2>2. deleted' = IF deleted >= Head(toDevice) THEN deleted ELSE Head(toDevice)
    BY <1>1, <1>2, <2>1, MaxOfTwo DEF Answer
  <2>3. QED
    BY <1>2, <2>1, <2>2
<1>4. PICK x \in Message :
        /\ toApp' = Append(toApp, x)
        /\ x.type = "data" => OnlyGap(deleted', x.seq - 1)
  <2> DEFINE left == {n \in 1 .. stored : n > deleted' /\ kind[n] # "missing"}
  <2>1. CASE toApp' = Append(toApp, NoData)
    BY <2>1 DEF NoData, Message
  <2>2. ASSUME NEW n \in left, \A k \in left : n <= k,
               toApp' = Append(toApp, Data(n))
        PROVE  \E x \in Message :
                 /\ toApp' = Append(toApp, x)
                 /\ x.type = "data" => OnlyGap(deleted', x.seq - 1)
    <3>1. n \in Seqs /\ stored \in Nat /\ stored <= Len(kind)
      BY <1>1, KindIsSeq DEF TypeOK
    <3>2. Data(n) \in Message /\ Data(n).seq = n
      BY <3>1 DEF Message, Data
    <3>3. OnlyGap(deleted', n - 1)
      <4>1. SUFFICES ASSUME NEW k \in (deleted' + 1) .. (n - 1)
                     PROVE  kind[k] = "missing"
        BY <1>1, <3>1, KindIsSeq DEF OnlyGap
      <4>2. k \in 1 .. stored /\ k > deleted' /\ ~(n <= k)
        <5>1. n \in 1 .. stored /\ stored \in Nat /\ deleted' \in Nat
          BY <1>1, <1>3, <2>2, <3>1
        <5>2. \A a, b, e \in Nat : n \in 1 .. a /\ k \in (b + 1) .. (n - 1)
                => k \in 1 .. a /\ k > b /\ ~(n <= k)
          BY ONLY TRUE
        <5>3. QED
          BY <4>1, <5>1, <5>2
      <4>3. QED
        BY <2>2, <4>2
    <3>4. QED
      BY <2>2, <3>2, <3>3
  <2>3. QED
    BY <2>1, <2>2 DEF Answer
<1>5. CASE c = deleted'
  BY <1>3, <1>5
<1>6. ASSUME NEW i \in 1 .. Len(toDevice'), c = toDevice'[i]
      PROVE  c \in Told
  BY <1>1, <1>2, <1>6
<1>7. ASSUME NEW d \in Dialog, c = loop'[d].seq
      PROVE  c \in Told
  BY <1>1, <1>7 DEF Told
<1>8. ASSUME NEW i \in 1 .. Len(toApp'), toApp'[i].type = "data",
             c = toApp'[i].seq - 1
      PROVE  c \in Told \/ \E g \in Told : OnlyGap(g, c)
  <2>1. toApp \in Seq(Message)
    BY DEF TypeOK
  <2>2. (i \in 1 .. Len(toApp) /\ toApp'[i] = toApp[i]) \/ toApp'[i] = x
    BY <1>4, <1>8, <2>1, InAppend
  <2>3. CASE i \in 1 .. Len(toApp) /\ toApp'[i] = toApp[i]
    BY <1>8, <2>3 DEF Told
  <2>4. CASE toApp'[i] = x
    BY <1>3, <1>4, <1>8, <2>4
  <2>5. QED
    BY <2>2, <2>3, <2>4
<1>9. QED
  BY <1>5, <1>6, <1>7, <1>8 DEF Told

LEMMA ToldByDeliver ==
  ASSUME TypeOK, Deliver, NEW c \in Told'
  PROVE  c \in Told \/ Taken(c)
<1> DEFINE m == Head(toApp)
<1>1. /\ toApp # << >> /\ toApp' = Tail(toApp) /\ deleted' = deleted
      /\ m \in Message
  BY HeadMessage DEF Deliver, deviceVars
<1>2. ASSUME NEW d \in Dialog
      PROVE  /\ loop'[d].seq \in Told \/ Taken(loop'[d].seq)
             /\ d \in Senders(m) => Asks(d, m) \in Told \/ Taken(Asks(d, m))
  <2>1. CASE Begins(d, m)
    <3>1. m.seq - 1 \in Told
      BY <1>1, <2>1, NextMessage DEF Begins
    <3>2. loop'[d].seq = m.seq - 1
      BY <2>1, LoopStep DEF LoopBegins, LoopEndsSet, LoopCollects, LoopSkips,
                            LoopStays
    <3>3. QED
      BY <2>1, <3>1, <3>2 DEF Asks
  <2>2. CASE ~Begins(d, m) /\ Consumes(d, m)
    <3>1. Taken(m.seq)
      BY <2>2 DEF Taken
    <3>2. loop'[d].seq = m.seq
      BY <2>2, LoopStep DEF LoopBegins, LoopEndsSet, LoopCollects, LoopSkips,
                            LoopStays
    <3>3. QED
      BY <2>2, <3>1, <3>2 DEF Asks
  <2>3. CASE ~Begins(d, m) /\ ~Consumes(d, m)
    <3>1. loop'[d].seq = loop[d].seq
      BY <2>3, LoopStep DEF LoopBegins, LoopEndsSet, LoopCollects, LoopSkips,
                            LoopStays, CompletesSet
    <3>2. d \notin Senders(m)
      BY <2>3 DEF Senders
    <3>3. QED
      BY <3>1, <3>2 DEF Told
  <2>4. QED
    BY <2>1, <2>2, <2>3
<1>3. ASSUME NEW i \in 1 .. Len(toDevice'), c = toDevice'[i]
      PROVE  c \in Told \/ Taken(c)
  <2>1. PICK cmds \in Seq(0 .. Len(kind)) :
          /\ toDevice' = toDevice \o cmds
          /\ \A j \in 1 .. Len(cmds) : \E d \in Senders(m) : cmds[j] = Asks(d, m)
    <3>1. SendCommands(m)
      BY DEF Deliver
    <3>2. QED
      BY <1>1, <3>1, CommandsSent
  <2>2. toDevice \in Seq(0 .. Len(kind))
    BY DEF TypeOK
  <2>3. \/ i \in 1 .. Len(toDevice) /\ c = toDevice[i]
        \/ \E j \in 1 .. Len(cmds) : c = cmds[j]
    <3>1. /\ Len(toDevice) \in Nat /\ Len(cmds) \in Nat
          /\ Len(toDevice') = Len(toDevice) + Len(cmds)
          /\ c = IF i <= Len(toDevice) THEN toDevice[i]
                                       ELSE cmds[i - Len(toDevice)]
      BY <1>3, <2>1, <2>2, ConcatProperties
    <3>2. CASE i <= Len(toDevice)
      BY <1>3, <3>1, <3>2
    <3>3. CASE ~(i <= Len(toDevice))
      <4>1. i - Len(toDevice) \in 1 .. Len(cmds)
        BY <1>3, <3>1, <3>3
      <4>2. QED
        BY <3>1, <3>3, <4>1
    <3>4. QED
      BY <3>2, <3>3
  <2>4. CASE i \in 1 .. Len(toDevice) /\ c = toDevice[i]
    BY <2>4 DEF Told
  <2>5. ASSUME NEW j \in 1 .. Len(cmds), c = cmds[j]
        PROVE  c \in Told \/ Taken(c)
    <3>1. PICK d \in Senders(m) : c = Asks(d, m)
      BY <2>1, <2>5
    <3>2. d \in Dialog
      BY DEF Senders
    <3>3. QED
      BY <1>2, <3>1, <3>2
  <2>6. QED
    BY <2>3, <2>4, <2>5
<1>4. ASSUME NEW i \in 1 .. Len(toApp'), toApp'[i].type = "data",
             c = toApp'[i].seq - 1
      PROVE  c \in Told
  <2>1. i + 1 \in 1 .. Len(toApp) /\ toApp'[i] = toApp[i + 1]
    BY <1>1, <1>4, InTail DEF TypeOK
  <2>2. QED
    BY <1>4, <2>1 DEF Told
<1>5. CASE c = deleted'
  BY <1>1, <1>5 DEF Told
<1>6. ASSUME NEW d \in Dialog, c = loop'[d].seq PROVE c \in Told \/ Taken(c)
  BY <1>2, <1>6
<1> HIDE DEF m
<1>7. QED
  BY <1>3, <1>4, <1>5, <1>6 DEF Told

(* A step tells the device no more than what it was told before, nothing   *)
(* at all, up to the next item there is, or an item a loop has just taken. *)
LEMMA NewTold ==
  ASSUME TypeOK, [Next]_vars, NEW c \in Told'
  PROVE  c \in Told \/ c = 0 \/ Taken(c) \/ \E g \in Told : OnlyGap(g, c)
<1>1. CASE Answer
  BY <1>1, ToldByAnswer
<1>2. CASE Deliver
  BY <1>2, ToldByDeliver
<1>3. CASE UNCHANGED << deleted, toDevice, toApp, loop >>
  BY <1>3 DEF Told
<1>4. /\ toDevice \in Seq(0 .. Len(kind)) /\ toApp \in Seq(Message)
      /\ \A d \in Dialog : loop[d].seq \in 0 .. Len(kind)
      /\ 0 \in 0 .. Len(kind) /\ Event \in Message
  BY KindIsSeq DEF TypeOK, Loop, Message
<1>5. CASE SendEvent
  <2>1. /\ UNCHANGED << deleted, toDevice, loop >> /\ toApp' = Append(toApp, Event)
    BY <1>5 DEF SendEvent, deviceVars, appVars
  <2>2. \A i \in 1 .. Len(toApp') : toApp'[i].type = "data" =>
          i \in 1 .. Len(toApp) /\ toApp'[i] = toApp[i]
    BY <1>4, <2>1, InAppend DEF Event
  <2>3. QED
    BY <2>1, <2>2 DEF Told
<1>6. CASE Lose
  <2>1. /\ UNCHANGED << deleted, loop >>
        /\ \/ toDevice # << >> /\ toDevice' = Tail(toDevice) /\ UNCHANGED toApp
           \/ toApp # << >> /\ toApp' = Tail(toApp) /\ UNCHANGED toDevice
    BY <1>6 DEF Lose, deviceVars, appVars
  <2>2. CASE toDevice # << >> /\ toDevice' = Tail(toDevice) /\ UNCHANGED toApp
    <3>1. \A i \in 1 .. Len(toDevice') : /\ i + 1 \in 1 .. Len(toDevice)
                                         /\ toDevice'[i] = toDevice[i + 1]
      BY <1>4, <2>2, InTail
    <3>2. QED
      BY <2>1, <2>2, <3>1 DEF Told
  <2>3. CASE toApp # << >> /\ toApp' = Tail(toApp) /\ UNCHANGED toDevice
    <3>1. \A i \in 1 .. Len(toApp') : /\ i + 1 \in 1 .. Len(toApp)
                                      /\ toApp'[i] = toApp[i + 1]
      BY <1>4, <2>3, InTail
    <3>2. QED
      BY <2>1, <2>3, <3>1 DEF Told
  <2>4. QED
    BY <2>1, <2>2, <2>3
<1>7. CASE Restart
  <2>1. /\ UNCHANGED deleted /\ toDevice' = << >> /\ toApp' = << >>
        /\ \A d \in Dialog : loop'[d].seq = loop[d].seq
    <3>1. \A d \in Dialog : loop[d] \in Loop
      BY DEF TypeOK
    <3>2. QED
      BY <1>7, <3>1 DEF Restart, deviceVars, Loop
  <2>2. QED
    BY <2>1 DEF Told
<1>8. ASSUME NEW n \in 0 .. Len(kind), n = 0 \/ n \in Told,
             toDevice' = Append(toDevice, n),
             UNCHANGED << deleted, toApp, loop >>
      PROVE  c \in Told \/ c = 0
  <2>1. \A i \in 1 .. Len(toDevice') :
          \/ i \in 1 .. Len(toDevice) /\ toDevice'[i] = toDevice[i]
          \/ toDevice'[i] = n
    BY <1>4, <1>8, InAppend
  <2>2. QED
    BY <1>8, <2>1 DEF Told
<1>9. CASE PressStart
  BY <1>4, <1>8, <1>9 DEF PressStart, deviceVars, appVars, Oldest
<1>10. ASSUME NEW d \in Dialog, Retry(d) PROVE c \in Told \/ c = 0
  <2>1. loop[d].seq \in Told
    BY DEF Told
  <2>2. QED
    BY <1>4, <1>8, <1>10, <2>1 DEF Retry, deviceVars
<1>11. (Record \/ OpenDialog \/ CloseDialog \/ UNCHANGED vars)
         => UNCHANGED << deleted, toDevice, toApp, loop >>
  BY DEF Record, OpenDialog, CloseDialog, vars, deviceVars, appVars
<1>12. Write => UNCHANGED << deleted, toDevice, toApp, loop >>
  BY WriteKeeps DEF deviceVars
<1>13. QED
  BY <1>1, <1>2, <1>3, <1>5, <1>6, <1>7, <1>9, <1>10, <1>11, <1>12 DEF Next

-----------------------------------------------------------------------------
(* Nothing is deleted that was not received *)

ReceivedBelow(c) == \A n \in 1 .. c : kind[n] = "missing" \/ n \in received

ToldIsReceived == \A c \in Told : ReceivedBelow(c)

LEMMA ReceivedGrows ==
  ASSUME TypeOK, [Next]_vars
  PROVE  /\ kind' = kind
         /\ received \subseteq received'
         /\ \A c : Taken(c) => c \in received' /\ c - 1 \in Told
                               /\ c \in 1 .. Len(kind)
<1>1. kind' = kind /\ received \subseteq received'
  BY DEF Next, vars, deviceVars, appVars, Record, Answer, SendEvent, Lose,
         OpenDialog, PressStart, CloseDialog, Restart, Deliver, Retry, Write,
         WriteEnds, WriteFails
<1>2. SUFFICES ASSUME NEW c, Taken(c)
               PROVE  c \in received' /\ c - 1 \in Told /\ c \in 1 .. Len(kind)
  BY <1>1
<1>3. /\ Deliver /\ Head(toApp).type = "data" /\ c = Head(toApp).seq
      /\ toApp # << >>
  BY <1>2 DEF Taken, Consumes, Expected, Deliver
<1>4. QED
  BY <1>3, NextMessage DEF Deliver

LEMMA ToldIsReceivedStep ==
  TypeOK /\ ToldIsReceived /\ [Next]_vars => ToldIsReceived'
<1> SUFFICES ASSUME TypeOK, ToldIsReceived, [Next]_vars,
                    NEW c \in Told', NEW n \in 1 .. c
             PROVE  kind[n] = "missing" \/ n \in received'
  BY ReceivedGrows DEF ToldIsReceived, ReceivedBelow
<1>1. CASE c \in Told
  BY <1>1, ReceivedGrows DEF ToldIsReceived, ReceivedBelow
<1>2. CASE c = 0
  BY <1>2
<1>3. CASE Taken(c)
  <2>1. c \in received' /\ c - 1 \in Told /\ c \in Nat
    BY <1>3, ReceivedGrows, KindIsSeq
  <2>2. CASE n = c
    BY <2>1, <2>2
  <2>3. CASE n # c
    <3>1. n \in 1 .. (c - 1)
      BY <2>1, <2>3
    <3>2. QED
      BY <2>1, <3>1, ReceivedGrows DEF ToldIsReceived, ReceivedBelow
  <2>4. QED
    BY <2>2, <2>3
<1>4. ASSUME NEW g \in Told, OnlyGap(g, c)
      PROVE  kind[n] = "missing" \/ n \in received'
  <2>1. g \in Nat
    BY ToldIsSeq
  <2>2. CASE n <= g
    <3>1. n \in 1 .. g
      BY <2>1, <2>2
    <3>2. QED
      BY <3>1, ReceivedGrows DEF ToldIsReceived, ReceivedBelow
  <2>3. CASE ~(n <= g)
    <3>1. n \in (g + 1) .. c
      BY <2>1, <2>3
    <3>2. QED
      BY <1>4, <3>1 DEF OnlyGap
  <2>4. QED
    BY <2>2, <2>3
<1>5. QED
  BY <1>1, <1>2, <1>3, <1>4, NewTold

LEMMA ToldInitially == Init => Told = {0}
<1> SUFFICES ASSUME Init PROVE Told = {0}
  OBVIOUS
<1>1. deleted = 0 /\ Len(toDevice) = 0 /\ Len(toApp) = 0
  BY DEF Init
<1>2. \A d \in Dialog : loop[d].seq = 0
  BY DEF Init, NoLoop
<1>3. QED
  BY <1>1, <1>2 DEF Told

(* The device is never told to delete an item that no listener was given.  *)
THEOREM DeletesOnlyWhatWasReceived == Spec => []DeletedWasReceived
<1>1. Init => ToldIsReceived
  BY ToldInitially DEF ToldIsReceived, ReceivedBelow
<1>2. ToldIsReceived => DeletedWasReceived
  BY DEF ToldIsReceived, ReceivedBelow, DeletedWasReceived, Told
<1>3. QED
  BY <1>1, <1>2, InitTyped, StepTyped, ToldIsReceivedStep, PTL DEF Spec

-----------------------------------------------------------------------------
(* The buffer of a loop: the consecutive items up to the loop's position,  *)
(* none of them the end of a set; a loop with a buffer is inside a set.    *)
MessagesKnown ==
  \A i \in 1 .. Len(toApp) :
    toApp[i].type = "data" => kind[toApp[i].seq] # "missing"

BufferKnown(l) ==
  /\ l.raw # << >> => l.startSetFound
  /\ \A i \in 1 .. Len(l.raw) :
       /\ l.raw[i] = l.seq - Len(l.raw) + i
       /\ kind[l.raw[i]] \notin {"end", "missing"}

LoopsKnown ==
  \A d \in Dialog : /\ BufferKnown(loop[d])
                    /\ progress[d] = "idle" => ~loop[d].alive

LEMMA MessagesKnownStep ==
  TypeOK /\ MessagesKnown /\ [Next]_vars => MessagesKnown'
<1> SUFFICES ASSUME TypeOK, MessagesKnown, [Next]_vars,
                    NEW i \in 1 .. Len(toApp'), toApp'[i].type = "data"
             PROVE  kind[toApp'[i].seq] # "missing"
  BY ReceivedGrows DEF MessagesKnown
<1>1. toApp \in Seq(Message)
  BY DEF TypeOK
<1>2. CASE UNCHANGED toApp
  BY <1>2 DEF MessagesKnown
<1>3. CASE toApp # << >> /\ toApp' = Tail(toApp)
  <2>1. i + 1 \in 1 .. Len(toApp) /\ toApp'[i] = toApp[i + 1]
    BY <1>1, <1>3, InTail
  <2>2. QED
    BY <2>1 DEF MessagesKnown
<1>4. ASSUME NEW x \in Message, toApp' = Append(toApp, x),
             x.type = "data" => kind[x.seq] # "missing"
      PROVE  kind[toApp'[i].seq] # "missing"
  <2>1. \/ i \in 1 .. Len(toApp) /\ toApp'[i] = toApp[i]
        \/ toApp'[i] = x
    BY <1>1, <1>4, InAppend
  <2>2. QED
    BY <1>4, <2>1 DEF MessagesKnown
<1>5. CASE Answer
  <2>1. CASE toApp' = Append(toApp, NoData)
    BY <1>4, <2>1 DEF NoData, Message
  <2>2. ASSUME NEW n \in 1 .. stored, kind[n] # "missing",
               toApp' = Append(toApp, Data(n))
        PROVE  kind[toApp'[i].seq] # "missing"
    <3>1. n \in Seqs
      BY KindIsSeq DEF TypeOK
    <3>2. Data(n) \in Message /\ Data(n).seq = n
      BY <3>1 DEF Message, Data
    <3>3. QED
      BY <1>4, <2>2, <3>2
  <2>3. QED
    BY <1>5, <2>1, <2>2 DEF Answer
<1>6. CASE SendEvent
  BY <1>4, <1>6 DEF SendEvent, Event, Message
<1>7. CASE Restart
  BY <1>7 DEF Restart
<1>8. CASE Lose
  BY <1>2, <1>3, <1>8 DEF Lose
<1>9. CASE Deliver
  BY <1>3, <1>9 DEF Deliver
<1>10. (Record \/ OpenDialog \/ PressStart \/ CloseDialog \/ UNCHANGED vars
          \/ Write \/ \E d \in Dialog : Retry(d)) => UNCHANGED toApp
  BY WriteKeeps DEF Record, OpenDialog, PressStart, CloseDialog, Retry, vars, appVars
<1>11. QED
  BY <1>2, <1>5, <1>6, <1>7, <1>8, <1>9, <1>10 DEF Next

(* An item that continues the buffer.                                      *)
LEMMA BufferGrows ==
  ASSUME TypeOK, NEW l \in Loop, BufferKnown(l), NEW n \in Seqs,
         n = l.seq + 1
  PROVE  /\ Append(l.raw, n) \in Seq(Seqs)
         /\ Len(Append(l.raw, n)) = Len(l.raw) + 1
         /\ \A i \in 1 .. (Len(l.raw) + 1) :
              Append(l.raw, n)[i] = n - (Len(l.raw) + 1) + i
         /\ \A i \in 1 .. Len(l.raw) : Append(l.raw, n)[i] = l.raw[i]
<1>1. l.raw \in Seq(Seqs) /\ l.seq \in Nat /\ n \in Nat /\ Len(l.raw) \in Nat
  BY KindIsSeq DEF Loop
<1>2. /\ Append(l.raw, n) \in Seq(Seqs)
      /\ Len(Append(l.raw, n)) = Len(l.raw) + 1
      /\ \A i \in 1 .. Len(l.raw) : Append(l.raw, n)[i] = l.raw[i]
      /\ Append(l.raw, n)[Len(l.raw) + 1] = n
  BY <1>1, AppendProperties
<1>3. ASSUME NEW i \in 1 .. (Len(l.raw) + 1)
      PROVE  Append(l.raw, n)[i] = n - (Len(l.raw) + 1) + i
  <2>1. CASE i = Len(l.raw) + 1
    BY <1>1, <1>2, <2>1
  <2>2. CASE i # Len(l.raw) + 1
    <3>1. i \in 1 .. Len(l.raw)
      BY <1>1, <2>2
    <3>2. l.raw[i] = l.seq - Len(l.raw) + i
      BY <3>1 DEF BufferKnown
    <3>3. QED
      BY <1>1, <1>2, <3>1, <3>2
  <2>3. QED
    BY <2>1, <2>2
<1>4. QED
  BY <1>2, <1>3

(* What a delivered message makes of a loop whose buffer is known.         *)
LEMMA BufferStep ==
  ASSUME TypeOK, MessagesKnown, Deliver, NEW d \in Dialog,
         BufferKnown(loop[d])
  PROVE  BufferKnown(loop[d])'
<1> DEFINE m == Head(toApp)
<1>0. /\ loop[d] \in Loop /\ loop'[d] \in Loop /\ kind' = kind
      /\ toApp # << >> /\ m \in Message /\ m = toApp[1] /\ 1 \in 1 .. Len(toApp)
  BY LoopStep, HeadMessage, InTail DEF TypeOK, Deliver, deviceVars
<1>1. CASE loop'[d].raw = << >>
  BY <1>1 DEF BufferKnown
<1>2. CASE LoopCollects(d, m)
  <2>1. m.type = "data" /\ m.seq = loop[d].seq + 1
    BY <1>2 DEF LoopCollects, Consumes, Expected
  <2>2. m.seq \in Seqs /\ kind[m.seq] \notin {"end", "missing"}
    BY <1>0, <1>2, <2>1, NextMessage DEF LoopCollects, MessagesKnown
  <2>3. /\ loop'[d].raw = Append(loop[d].raw, m.seq) /\ loop'[d].seq = m.seq
        /\ loop'[d].startSetFound
    BY <1>2 DEF LoopCollects
  <2> HIDE DEF m
  <2>4. /\ Len(loop'[d].raw) = Len(loop[d].raw) + 1
        /\ \A i \in 1 .. (Len(loop[d].raw) + 1) :
             loop'[d].raw[i] = m.seq - (Len(loop[d].raw) + 1) + i
        /\ \A i \in 1 .. Len(loop[d].raw) : loop'[d].raw[i] = loop[d].raw[i]
    BY <1>0, <2>1, <2>2, <2>3, BufferGrows
  <2>5. ASSUME NEW i \in 1 .. Len(loop'[d].raw)
        PROVE  kind[loop'[d].raw[i]] \notin {"end", "missing"}
    <3>1. Len(loop[d].raw) \in Nat /\ m.seq \in Nat
      BY <1>0, <2>2, KindIsSeq DEF Loop
    <3>2. CASE i \in 1 .. Len(loop[d].raw)
      BY <2>4, <3>2 DEF BufferKnown
    <3>3. CASE i = Len(loop[d].raw) + 1
      <4>1. loop'[d].raw[i] = m.seq
        <5>1. i \in 1 .. (Len(loop[d].raw) + 1)
          BY <3>1, <3>3
        <5>2. loop'[d].raw[i] = m.seq - (Len(loop[d].raw) + 1) + i
          BY <2>4, <5>1
        <5>3. m.seq - (Len(loop[d].raw) + 1) + i = m.seq
          BY <3>1, <3>3
        <5>4. QED
          BY <5>2, <5>3
      <4>2. QED
        BY <2>2, <4>1
    <3>4. QED
      BY <2>4, <3>1, <3>2, <3>3
  <2>6. QED
    BY <1>0, <2>3, <2>4, <2>5 DEF BufferKnown
<1>3. CASE LoopSkips(d, m)
  <2>1. ~loop[d].startSetFound /\ loop'[d].raw = loop[d].raw
    BY <1>3 DEF LoopSkips, Collecting
  <2>2. loop'[d].raw = << >>
    BY <2>1 DEF BufferKnown
  <2>3. QED
    BY <1>1, <2>2
<1>4. CASE LoopStays(d, m)
  BY <1>0, <1>4 DEF LoopStays, BufferKnown
<1>5. QED
  BY <1>1, <1>2, <1>3, <1>4, LoopStep DEF LoopBegins, LoopEndsSet

LEMMA LoopsKnownStep ==
  TypeOK /\ MessagesKnown /\ LoopsKnown /\ [Next]_vars => LoopsKnown'
<1> SUFFICES ASSUME TypeOK, MessagesKnown, LoopsKnown, [Next]_vars,
                    NEW d \in Dialog
             PROVE  /\ BufferKnown(loop[d])'
                    /\ progress'[d] = "idle" => ~loop'[d].alive
  BY DEF LoopsKnown
<1>0. kind' = kind
  BY ReceivedGrows
<1>1. CASE Deliver
  <2> DEFINE m == Head(toApp)
  <2>1. BufferKnown(loop[d])'
    BY <1>1, BufferStep DEF LoopsKnown
  <2>2. progress'[d] = "idle" => ~loop'[d].alive
    <3>1. SUFFICES ASSUME progress'[d] = "idle" PROVE ~loop'[d].alive
      OBVIOUS
    <3>2. progress'[d] = CASE Begins(d, m) -> "reading"
                           [] FindsNothing(d, m) -> "empty"
                           [] Finishes(d, m) -> "complete"
                           [] OTHER -> progress[d]
      BY <1>1 DEF Deliver
    <3>3. ~(Begins(d, m) /\ FindsNothing(d, m)) /\ ~(Begins(d, m) /\ Finishes(d, m))
      BY DEF Begins, FindsNothing, Finishes
    <3>4. ~Begins(d, m) /\ progress[d] = "idle"
      <4>1. CASE Begins(d, m)
        BY <3>1, <3>2, <3>3, <4>1
      <4>2. CASE ~Begins(d, m) /\ FindsNothing(d, m)
        <5>1. ~Finishes(d, m)
          BY <4>2 DEF FindsNothing, Finishes, LoopsKnown
        <5>2. QED
          BY <3>1, <3>2, <4>2, <5>1
      <4>3. CASE ~Begins(d, m) /\ ~FindsNothing(d, m)
        BY <3>1, <3>2, <4>3
      <4>4. QED
        BY <4>1, <4>2, <4>3
    <3>5. ~loop[d].alive
      BY <3>4 DEF LoopsKnown
    <3>6. QED
      BY <1>1, <3>4, <3>5, LoopStep
         DEF LoopBegins, LoopEndsSet, LoopCollects, LoopSkips, LoopStays,
             CompletesSet, Consumes
  <2>3. QED
    BY <2>1, <2>2
<1>2. CASE Restart
  <2>1. loop[d] \in Loop
    BY DEF TypeOK
  <2>2. /\ loop'[d].raw = loop[d].raw /\ loop'[d].seq = loop[d].seq
        /\ loop'[d].startSetFound = loop[d].startSetFound
        /\ ~loop'[d].alive
    BY <1>2, <2>1 DEF Restart, Loop
  <2>3. QED
    BY <1>0, <2>2 DEF LoopsKnown, BufferKnown
<1>3. CASE UNCHANGED << loop, progress >>
  BY <1>0, <1>3 DEF LoopsKnown, BufferKnown
<1>4. (Record \/ Answer \/ SendEvent \/ Lose \/ OpenDialog \/ PressStart
         \/ CloseDialog \/ Write \/ UNCHANGED vars \/ \E e \in Dialog : Retry(e))
        => UNCHANGED << loop, progress >>
  BY WriteKeeps DEF Record, Answer, SendEvent, Lose, OpenDialog, PressStart, CloseDialog,
         Retry, vars, appVars
<1>5. QED
  BY <1>1, <1>2, <1>3, <1>4 DEF Next

-----------------------------------------------------------------------------
(* The file of a set *)

(* The items of a set.                                                     *)
LEMMA SetItems ==
  ASSUME TypeOK, NEW r \in CompleteSet
  PROVE  /\ r[1] \in Nat /\ r[2] \in Nat /\ r[1] < r[2]
         /\ r[1] \in Seqs /\ r[2] \in Seqs
         /\ kind[r[1]] = "start" /\ kind[r[2]] = "end"
         /\ \A n \in Int : r[1] < n /\ n < r[2] => kind[n] = "pressure"
<1>1. /\ r[1] \in Seqs /\ r[2] \in Seqs /\ r[1] < r[2]
      /\ kind[r[1]] = "start" /\ kind[r[2]] = "end"
      /\ \A n \in (r[1] + 1) .. (r[2] - 1) : kind[n] = "pressure"
  BY DEF CompleteSet
<1>2. r[1] \in Nat /\ r[2] \in Nat
  BY <1>1, KindIsSeq
<1>3. \A n \in Int : r[1] < n /\ n < r[2] => n \in (r[1] + 1) .. (r[2] - 1)
  BY <1>2
<1>4. QED
  BY <1>1, <1>2, <1>3

(* Places in a buffer of length L whose last item is n.                    *)
LEMMA Places ==
  ASSUME NEW n \in Int, NEW L \in Int, NEW i \in 1 .. L
  PROVE  /\ n - L + i \in Int /\ L - i + 1 = n - (n - L + i) + 1
         /\ \A k \in (n - L + i + 1) .. (n - 1) :
              /\ k - n + L \in 1 .. L /\ k - n + L \in 1 .. (L - 1)
              /\ k - n + L > i /\ ~(k - n + L <= i)
              /\ k = n - L + (k - n + L)
         /\ \A k \in 1 .. L : k > i =>
              n - L + k = n \/ n - L + k \in (n - L + i + 1) .. (n - 1)
OBVIOUS

LEMMA PlaceOfStart ==
  ASSUME NEW n \in Int, NEW L \in Int, NEW a \in Int, a < n, L > n - a
  PROVE  /\ L - (n - a) \in 1 .. L /\ n - L + (L - (n - a)) = a
         /\ \A k \in 1 .. L : k > L - (n - a) =>
              n - L + k = n \/ n - L + k \in (a + 1) .. (n - 1)
OBVIOUS

(* A buffer and the end of its set, from place i on, are the items from    *)
(* the one at i to the end.                                                *)
LEMMA FileItems ==
  ASSUME TypeOK, NEW l \in Loop, BufferKnown(l), NEW n \in Seqs,
         n = l.seq + 1, NEW i \in 1 .. (Len(l.raw) + 1)
  PROVE  /\ SubSeq(Append(l.raw, n), i, Len(Append(l.raw, n)))
              = ItemsOf(<< Append(l.raw, n)[i], n >>)
         /\ Append(l.raw, n)[i] \in Seqs
<1> DEFINE raw == Append(l.raw, n)
           L == Len(l.raw) + 1
<1>1. /\ raw \in Seq(Seqs) /\ Len(raw) = L
      /\ \A k \in 1 .. L : raw[k] = n - L + k
  BY BufferGrows
<1>2. L \in Nat /\ n \in Nat /\ i \in 1 .. L
  BY KindIsSeq DEF Loop
<1> HIDE DEF raw, L
<1>3. raw[i] = n - L + i /\ raw[i] \in Seqs /\ raw[i] \in Int
  BY <1>1, <1>2
<1>4. /\ SubSeq(raw, i, L) \in [1 .. (L - i + 1) -> Seqs]
      /\ \A j \in 1 .. (L - i + 1) : SubSeq(raw, i, L)[j] = raw[i + j - 1]
  <2>1. \A k \in i .. L : raw[k] \in Seqs
    BY <1>1, <1>2
  <2>2. i \in Int /\ L \in Int /\ i <= L + 1
    BY <1>2
  <2>3. /\ SubSeq(raw, i, L) \in Seq(Seqs)
        /\ Len(SubSeq(raw, i, L)) = IF i <= L THEN L - i + 1 ELSE 0
        /\ \A j \in 1 .. (L - i + 1) : SubSeq(raw, i, L)[j] = raw[i + j - 1]
    BY <2>1, <2>2, SubSeqProperties
  <2> DEFINE f == SubSeq(raw, i, L)
  <2>4. f \in Seq(Seqs) /\ Len(f) = L - i + 1
    BY <1>2, <2>3
  <2> HIDE DEF f
  <2>5. f \in [1 .. (L - i + 1) -> Seqs]
    BY ONLY <2>4
  <2>6. QED
    BY <2>3, <2>5 DEF f
<1>5. L - i + 1 = n - raw[i] + 1
  BY <1>2, <1>3
<1>6. \A j \in 1 .. (L - i + 1) : raw[i + j - 1] = raw[i] + j - 1
  <2>1. SUFFICES ASSUME NEW j \in 1 .. (L - i + 1)
                 PROVE  raw[i + j - 1] = raw[i] + j - 1
    OBVIOUS
  <2>2. i + j - 1 \in 1 .. L
    BY <1>2
  <2>3. raw[i + j - 1] = n - L + (i + j - 1)
    BY <1>1, <2>2
  <2>4. QED
    BY <1>2, <1>3, <2>3
<1>7. ItemsOf(<< raw[i], n >>) = [j \in 1 .. (L - i + 1) |-> raw[i] + j - 1]
  BY <1>5 DEF ItemsOf
<1>8. SubSeq(raw, i, Len(raw)) = ItemsOf(<< raw[i], n >>)
  <2>1. SubSeq(raw, i, L) = [j \in 1 .. (L - i + 1) |-> SubSeq(raw, i, L)[j]]
    BY <1>4
  <2>2. \A j \in 1 .. (L - i + 1) : SubSeq(raw, i, L)[j] = raw[i] + j - 1
    BY <1>4, <1>6
  <2>3. SubSeq(raw, i, L) = [j \in 1 .. (L - i + 1) |-> raw[i] + j - 1]
    BY <2>1, <2>2, Zenon
  <2>4. QED
    BY <1>1, <1>7, <2>3
<1>9. QED
  BY <1>3, <1>8 DEF raw

(* The file written when the item n ends a set holds a complete set.       *)
LEMMA FileIsSet ==
  ASSUME TypeOK, NEW l \in Loop, BufferKnown(l), NEW n \in Seqs,
         n = l.seq + 1, kind[n] = "end"
  PROVE  FormatData(Append(l.raw, n)) \subseteq {ItemsOf(r) : r \in CompleteSet}
<1> DEFINE raw == Append(l.raw, n)
           L == Len(l.raw) + 1
<1>1. /\ raw \in Seq(Seqs) /\ Len(raw) = L
      /\ \A k \in 1 .. L : raw[k] = n - L + k
      /\ \A k \in 1 .. Len(l.raw) : kind[raw[k]] \notin {"end", "missing"}
  <2>1. /\ raw \in Seq(Seqs) /\ Len(raw) = L
        /\ \A k \in 1 .. L : raw[k] = n - L + k
        /\ \A k \in 1 .. Len(l.raw) : raw[k] = l.raw[k]
    BY BufferGrows
  <2>2. \A k \in 1 .. Len(l.raw) : kind[l.raw[k]] \notin {"end", "missing"}
    BY DEF BufferKnown
  <2> HIDE DEF raw, L
  <2>3. QED
    BY <2>1, <2>2
<1>2. L \in Nat /\ n \in Nat /\ Len(l.raw) = L - 1 /\ L >= 1
  BY KindIsSeq DEF Loop
<1>3. \A k \in 1 .. L : SubSeq(raw, k, Len(raw)) = ItemsOf(<< raw[k], n >>)
                        /\ raw[k] \in Seqs
  BY FileItems
<1> HIDE DEF raw, L
<1>4. SUFFICES ASSUME NEW i \in 1 .. L, kind[raw[i]] = "start",
                      \A k \in 1 .. L : kind[raw[k]] = "start" => k <= i
               PROVE  << raw[i], n >> \in CompleteSet
  <2>1. DOMAIN raw = 1 .. L
    BY <1>1
  <2>2. \A f \in FormatData(raw) : \E i \in 1 .. L :
          /\ kind[raw[i]] = "start"
          /\ \A k \in 1 .. L : kind[raw[k]] = "start" => k <= i
          /\ f = ItemsOf(<< raw[i], n >>)
    BY <1>1, <1>3, <2>1 DEF FormatData
  <2>3. FormatData(Append(l.raw, n)) = FormatData(raw)
    BY DEF raw
  <2>4. QED
    BY <2>2, <2>3
<1>5. raw[i] = n - L + i /\ raw[i] \in Seqs /\ raw[i] \in Int
  <2>1. raw[i] = n - L + i
    BY <1>1
  <2>2. QED
    <3>1. n - L + i \in Int
      BY <1>2, Places
    <3>2. raw[i] \in Seqs
      BY <1>3
    <3>3. QED
      BY ONLY <2>1, <3>1, <3>2
<1>6. i < L
  <2>1. raw[L] = n
    BY <1>1, <1>2
  <2>2. i # L
    BY <1>4, <2>1
  <2>3. QED
    BY <1>2, <2>2
<1>7. raw[i] < n
  BY <1>2, <1>5, <1>6
<1>8. ASSUME NEW k \in (raw[i] + 1) .. (n - 1)
      PROVE  kind[k] = "pressure"
  <2> DEFINE j == k - n + L
  <2>1. /\ j \in 1 .. L /\ j \in 1 .. (L - 1) /\ ~(j <= i)
        /\ k = n - L + j
    <3>1. k \in (n - L + i + 1) .. (n - 1)
      BY <1>5
    <3>2. n \in Int /\ L \in Int
      BY <1>2
    <3>3. QED
      BY <3>1, <3>2, Places
  <2> HIDE DEF j
  <2>2. raw[j] = k
    BY <1>1, <2>1
  <2>3. kind[k] \notin {"end", "missing"}
    BY <1>1, <1>2, <2>1, <2>2
  <2>4. kind[k] # "start"
    BY <1>4, <2>1, <2>2
  <2>5. k \in 1 .. Len(kind) /\ kind \in Seq(Kind)
    <3>1. k \in Seqs
      BY <1>3, <2>1, <2>2
    <3>2. QED
      BY <3>1, KindIsSeq
  <2>6. kind[k] \in Kind
    BY <2>5
  <2>7. QED
    BY <2>3, <2>4, <2>6 DEF Kind
<1>9. QED
  BY <1>4, <1>5, <1>7, <1>8 DEF CompleteSet

(* If the buffer reaches back to the start of the set that n ends, the     *)
(* file is written.                                                        *)
LEMMA SetIsFile ==
  ASSUME TypeOK, NEW l \in Loop, BufferKnown(l), NEW n \in Seqs,
         n = l.seq + 1, NEW r \in CompleteSet, r[2] = n,
         Len(l.raw) > l.seq - r[1]
  PROVE  ItemsOf(r) \in FormatData(Append(l.raw, n))
<1> DEFINE raw == Append(l.raw, n)
           L == Len(l.raw) + 1
           i == L - (n - r[1])
<1>1. /\ raw \in Seq(Seqs) /\ Len(raw) = L
      /\ \A k \in 1 .. L : raw[k] = n - L + k
  BY BufferGrows
<1>2. /\ L \in Nat /\ n \in Nat /\ r[1] \in Nat /\ r[1] < n
      /\ r = << r[1], n >> /\ kind[r[1]] = "start" /\ kind[n] = "end"
      /\ \A k \in (r[1] + 1) .. (n - 1) : kind[k] = "pressure"
  <2>1. L \in Nat
    BY DEF Loop
  <2>2. /\ r[1] \in Nat /\ r[2] \in Nat /\ r[1] < r[2]
        /\ kind[r[1]] = "start" /\ kind[r[2]] = "end"
    BY SetItems
  <2>3. /\ r = << r[1], r[2] >>
        /\ \A k \in (r[1] + 1) .. (r[2] - 1) : kind[k] = "pressure"
    BY DEF CompleteSet
  <2>4. QED
    BY <2>1, <2>2, <2>3, Zenon
<1>3. L > n - r[1]
  <2>1. Len(l.raw) \in Nat /\ l.seq \in Nat
    BY KindIsSeq DEF Loop
  <2>2. \A a, b, c \in Nat : a > b - c => a + 1 > (b + 1) - c
    BY ONLY TRUE
  <2>3. Len(l.raw) + 1 > (l.seq + 1) - r[1]
    BY <1>2, <2>1, <2>2
  <2>4. QED
    BY <2>3
<1>4. \A k \in 1 .. L : SubSeq(raw, k, Len(raw)) = ItemsOf(<< raw[k], n >>)
  BY FileItems
<1> HIDE DEF raw, L
<1>5. /\ i \in 1 .. L /\ n - L + i = r[1]
      /\ \A k \in 1 .. L : k > i =>
           n - L + k = n \/ n - L + k \in (r[1] + 1) .. (n - 1)
  <2>1. n \in Int /\ L \in Int /\ r[1] \in Int /\ r[1] < n
    BY <1>2
  <2>2. QED
    BY <1>3, <2>1, PlaceOfStart
<1>6. raw[i] = r[1]
  BY <1>1, <1>5
<1>7. ASSUME NEW k \in 1 .. L, kind[raw[k]] = "start" PROVE k <= i
  <2>1. SUFFICES ASSUME k > i PROVE FALSE
    BY <1>2, <1>5
  <2>2. raw[k] = n - L + k
    BY <1>1
  <2>3. raw[k] = n \/ raw[k] \in (r[1] + 1) .. (n - 1)
    BY <1>5, <2>1, <2>2
  <2>4. QED
    BY <1>2, <1>7, <2>3
<1>8. ItemsOf(r) = SubSeq(raw, i, Len(raw))
  BY <1>2, <1>4, <1>5, <1>6
<1>9. DOMAIN raw = 1 .. L
  BY <1>1
<1> HIDE DEF i
<1>10. ItemsOf(r) \in FormatData(raw)
  BY <1>2, <1>5, <1>6, <1>7, <1>8, <1>9 DEF FormatData
<1>11. QED
  BY <1>10 DEF raw

LEMMA SavedStep ==
  TypeOK /\ MessagesKnown /\ LoopsKnown /\ SavedSetsAreComplete /\ [Next]_vars
    => SavedSetsAreComplete'
<1> SUFFICES ASSUME TypeOK, MessagesKnown, LoopsKnown, SavedSetsAreComplete,
                    [Next]_vars
             PROVE  SavedSetsAreComplete'
  OBVIOUS
<1>1. CompleteSet' = CompleteSet
  BY ReceivedGrows DEF CompleteSet, Seqs
<1>2. CASE Deliver
  <2> DEFINE m == Head(toApp)
  <2>1. ASSUME NEW d \in Dialog, CompletesSet(d, m)
        PROVE  FormatData(Append(loop[d].raw, m.seq))
                 \subseteq {ItemsOf(r) : r \in CompleteSet}
    <3>1. m.type = "data" /\ m.seq = loop[d].seq + 1 /\ kind[m.seq] = "end"
      BY <2>1 DEF CompletesSet, Consumes, Expected
    <3>2. m.seq \in Seqs
      BY <1>2, <3>1, NextMessage DEF Deliver
    <3>3. loop[d] \in Loop /\ BufferKnown(loop[d])
      BY DEF TypeOK, LoopsKnown
    <3> HIDE DEF m
    <3>4. QED
      BY <3>1, <3>2, <3>3, FileIsSet
  <2>2. HandedOver' = HandedOver \cup UNION
          {FormatData(Append(loop[d].raw, m.seq)) :
             d \in {e \in Dialog : CompletesSet(e, m)}}
    BY <1>2, HandedByDeliver DEF NewSets
  <2>3. HandedOver' \subseteq {ItemsOf(r) : r \in CompleteSet}
    <3>1. SUFFICES ASSUME NEW f \in HandedOver', f \notin HandedOver
                   PROVE  f \in {ItemsOf(r) : r \in CompleteSet}
      BY DEF SavedSetsAreComplete
    <3>2. PICK d \in Dialog : CompletesSet(d, m)
                              /\ f \in FormatData(Append(loop[d].raw, m.seq))
      BY <2>2, <3>1
    <3>3. QED
      BY <2>1, <3>2
  <2>4. \A r \in CompleteSet : ItemsOf(r)' = ItemsOf(r)
    BY DEF ItemsOf
  <2>5. QED
    BY <1>1, <2>3, <2>4 DEF SavedSetsAreComplete, ItemsOf
<1>3. CASE ~Deliver
  BY <1>1, <1>3, HandedOtherwise DEF SavedSetsAreComplete, ItemsOf
<1>4. QED
  BY <1>2, <1>3

LEMMA KnownInitially ==
  Init => MessagesKnown /\ LoopsKnown /\ SavedSetsAreComplete
BY DEF Init, MessagesKnown, LoopsKnown, BufferKnown, NoLoop, SavedSetsAreComplete,
       HandedOver

(* What is handed to FileStorage is one complete set of the device, no     *)
(* item missing, doubled or out of order.                                  *)
THEOREM FilesAreCompleteSets == Spec => []SavedSetsAreComplete
<1>1. QED
  BY InitTyped, StepTyped, KnownInitially, MessagesKnownStep, LoopsKnownStep,
     SavedStep, PTL DEF Spec

-----------------------------------------------------------------------------
(* Every set that is read is handed over *)

(* A loop inside a set that it was started before holds it from its start. *)
HoldsOpenSet(l) ==
  \A r \in CompleteSet :
    l.first \in 1 .. r[1] /\ r[1] <= l.seq /\ l.seq < r[2]
      => Len(l.raw) > l.seq - r[1]

OpenSetsAreHeld == \A d \in Dialog : HoldsOpenSet(loop[d])

(* The position of a loop that takes an item, and that item.               *)
LEMMA TakenItem ==
  ASSUME TypeOK, NEW d \in Dialog, toApp # << >>, Consumes(d, Head(toApp))
  PROVE  /\ Head(toApp).type = "data" /\ loop[d].alive
         /\ Head(toApp).seq = loop[d].seq + 1
         /\ Head(toApp).seq \in Seqs /\ Head(toApp).seq \in Nat
         /\ loop[d].seq \in Nat /\ Len(loop[d].raw) \in Nat
<1>1. /\ Head(toApp).type = "data" /\ loop[d].alive
      /\ Head(toApp).seq = loop[d].seq + 1
  BY DEF Consumes, Expected
<1>2. loop[d] \in Loop
  BY DEF TypeOK
<1>3. QED
  BY <1>1, <1>2, NextMessage, KindIsSeq DEF Loop

(* The end of a set is saved if the buffer has the set from its start.     *)
LEMMA EndSaves ==
  ASSUME TypeOK, Deliver, NEW d \in Dialog, BufferKnown(loop[d]),
         CompletesSet(d, Head(toApp)),
         NEW r \in CompleteSet, r[2] = Head(toApp).seq,
         Len(loop[d].raw) > loop[d].seq - r[1]
  PROVE  ItemsOf(r) \in HandedOver'
<1> DEFINE n == Head(toApp).seq
<1>1. toApp # << >> /\ Consumes(d, Head(toApp))
  BY DEF Deliver, CompletesSet
<1>2. n \in Seqs /\ n = loop[d].seq + 1 /\ loop[d] \in Loop /\ r[2] = n
  BY <1>1, TakenItem DEF TypeOK
<1>3. FormatData(Append(loop[d].raw, n)) \subseteq HandedOver'
  BY HandedByDeliver DEF NewSets
<1> HIDE DEF n
<1>4. ItemsOf(r) \in FormatData(Append(loop[d].raw, n))
  BY <1>2, SetIsFile
<1>5. QED
  BY <1>3, <1>4

LEMMA DeliverKeepsRead ==
  ASSUME TypeOK, MessagesKnown, LoopsKnown, OpenSetsAreHeld, ReadSetsAreSaved,
         Deliver, NEW d \in Dialog, NEW r \in CompleteSet,
         loop'[d].first \in 1 .. r[1]
  PROVE  /\ r[1] <= loop'[d].seq /\ loop'[d].seq < r[2]
              => Len(loop'[d].raw) > loop'[d].seq - r[1]
         /\ r[2] <= loop'[d].seq => ItemsOf(r) \in HandedOver'
<1> DEFINE m == Head(toApp)
<1>1. /\ toApp # << >> /\ HandedOver \subseteq HandedOver' /\ m \in Message
      /\ BufferKnown(loop[d]) /\ HoldsOpenSet(loop[d]) /\ loop[d] \in Loop
  BY HeadMessage, HandedByDeliver DEF Deliver, LoopsKnown, OpenSetsAreHeld, TypeOK
<1>2. /\ r[1] \in Nat /\ r[2] \in Nat /\ r[1] < r[2]
      /\ kind[r[1]] = "start" /\ kind[r[2]] = "end"
      /\ \A n \in Int : r[1] < n /\ n < r[2] => kind[n] = "pressure"
  BY SetItems
<1>3. CASE LoopBegins(d, m)
  <2>1. loop'[d].first = m.seq /\ loop'[d].seq = m.seq - 1 /\ m.seq \in Nat
    BY <1>1, <1>3, NextMessage, KindIsSeq DEF LoopBegins, Begins
  <2>2. ~(r[1] <= loop'[d].seq)
    BY <1>2, <2>1
  <2>3. ~(r[2] <= loop'[d].seq)
    BY <1>2, <2>1
  <2>4. QED
    BY <2>2, <2>3
<1>4. CASE LoopStays(d, m)
  BY <1>1, <1>4 DEF LoopStays, HoldsOpenSet, ReadSetsAreSaved
<1>5. CASE Consumes(d, m) /\ loop'[d].first = loop[d].first
           /\ loop'[d].seq = m.seq /\ ~LoopStays(d, m) /\ ~LoopBegins(d, m)
  <2> DEFINE n == m.seq
             p == loop[d].seq
  <2>1. /\ n \in Nat /\ p \in Nat /\ n = p + 1 /\ Len(loop[d].raw) \in Nat
        /\ loop'[d].seq = n
    BY <1>1, <1>5, TakenItem
  <2>2. /\ loop[d].first \in 1 .. r[1]
        /\ r[1] <= p /\ p < r[2] => Len(loop[d].raw) > p - r[1]
        /\ r[2] <= p => ItemsOf(r) \in HandedOver'
    BY <1>1, <1>5 DEF HoldsOpenSet, ReadSetsAreSaved
  <2>3. /\ r[1] <= p /\ p < r[2] => Collecting(d, m)
        /\ n = r[1] => Collecting(d, m)
    <3>1. CASE n = r[1]
      <4>1. kind[m.seq] = "start"
        BY <1>2, <3>1
      <4>2. Collecting(d, m) /\ ~(r[1] <= p)
        BY <2>1, <3>1, <4>1 DEF Collecting
      <4>3. QED
        BY <4>2
    <3>2. CASE n # r[1]
      <4>1. SUFFICES ASSUME r[1] <= p, p < r[2] PROVE Collecting(d, m)
        BY <3>2
      <4>2. Len(loop[d].raw) > 0
        BY <1>2, <2>1, <2>2, <4>1
      <4>3. loop[d].raw # << >>
        BY <4>2
      <4>4. QED
        BY <1>1, <4>3 DEF BufferKnown, Collecting
    <3>3. QED
      BY <3>1, <3>2
  <2>4. CASE r[2] = n
    <3>1. r[1] <= p /\ p < r[2]
      BY <1>2, <2>1, <2>4
    <3>2. kind[m.seq] = "end"
      BY <1>2, <2>4
    <3>3. CompletesSet(d, m)
      BY <1>5, <2>3, <3>1, <3>2 DEF CompletesSet
    <3>4. ItemsOf(r) \in HandedOver'
      BY <1>1, <2>2, <2>4, <3>1, <3>3, EndSaves
    <3>5. ~(loop'[d].seq < r[2])
      BY <1>2, <2>1, <2>4
    <3>6. QED
      BY <3>4, <3>5
  <2>5. CASE r[2] < n
    <3>1. r[2] <= p /\ ~(loop'[d].seq < r[2])
      BY <1>2, <2>1, <2>5
    <3>2. QED
      BY <2>2, <3>1
  <2>6. CASE n < r[1]
    <3>1. ~(r[1] <= loop'[d].seq) /\ ~(r[2] <= loop'[d].seq)
      BY <1>2, <2>1, <2>6
    <3>2. QED
      BY <3>1
  <2>7. CASE r[1] <= n /\ n < r[2]
    <3>1. kind[n] = "start" \/ kind[n] = "pressure"
      <4>1. CASE n = r[1]
        BY <1>2, <4>1
      <4>2. CASE n # r[1]
        <5>1. n \in Int /\ r[1] < n /\ n < r[2]
          BY <1>2, <2>1, <2>7, <4>2
        <5>2. QED
          BY <1>2, <5>1
      <4>3. QED
        BY <4>1, <4>2
    <3>2. (r[1] <= p /\ p < r[2]) \/ n = r[1]
      BY <1>2, <2>1, <2>7
    <3>3. LoopCollects(d, m)
      <4>1. Collecting(d, m) /\ ~CompletesSet(d, m)
        BY <2>3, <3>1, <3>2 DEF CompletesSet
      <4>2. QED
        BY <1>5, <4>1, LoopStep DEF LoopEndsSet, LoopSkips
    <3>4. Len(loop'[d].raw) = Len(loop[d].raw) + 1
      <4>1. loop'[d].raw = Append(loop[d].raw, n)
        BY <3>3 DEF LoopCollects
      <4>2. n \in Seqs /\ n = loop[d].seq + 1
        BY <1>1, <1>5, TakenItem
      <4> HIDE DEF n
      <4>3. QED
        BY <1>1, <4>1, <4>2, BufferGrows
    <3>5. Len(loop'[d].raw) > n - r[1]
      <4>1. n = r[1] \/ Len(loop[d].raw) > p - r[1]
        BY <2>2, <3>2
      <4>2. \A a, b, c \in Nat : (b + 1 = c \/ a > b - c)
              => a + 1 > b + 1 - c
        BY ONLY TRUE
      <4>3. p + 1 = r[1] \/ Len(loop[d].raw) > p - r[1]
        BY <2>1, <4>1
      <4> HIDE DEF n, p
      <4>4. QED
        BY <1>2, <2>1, <3>4, <4>2, <4>3
    <3>6. ~(r[2] <= loop'[d].seq)
      BY <1>2, <2>1, <2>7
    <3>7. QED
      BY <2>1, <3>5, <3>6
  <2>8. QED
    BY <1>2, <2>1, <2>4, <2>5, <2>6, <2>7
<1>6. QED
  BY <1>3, <1>4, <1>5, LoopStep
     DEF LoopEndsSet, LoopCollects, LoopSkips, CompletesSet

LEMMA ReadSetsStep ==
  TypeOK /\ MessagesKnown /\ LoopsKnown /\ OpenSetsAreHeld /\ ReadSetsAreSaved
         /\ [Next]_vars
    => OpenSetsAreHeld' /\ ReadSetsAreSaved'
<1> SUFFICES ASSUME TypeOK, MessagesKnown, LoopsKnown, OpenSetsAreHeld,
                    ReadSetsAreSaved, [Next]_vars
             PROVE  OpenSetsAreHeld' /\ ReadSetsAreSaved'
  OBVIOUS
<1>1. CompleteSet' = CompleteSet
  BY ReceivedGrows DEF CompleteSet, Seqs
<1>2. SUFFICES ASSUME NEW d \in Dialog, NEW r \in CompleteSet,
                      loop'[d].first \in 1 .. r[1]
               PROVE  /\ r[1] <= loop'[d].seq /\ loop'[d].seq < r[2]
                           => Len(loop'[d].raw) > loop'[d].seq - r[1]
                      /\ r[2] <= loop'[d].seq => ItemsOf(r) \in HandedOver'
  BY <1>1 DEF OpenSetsAreHeld, HoldsOpenSet, ReadSetsAreSaved, ItemsOf
<1>3. CASE Deliver
  BY <1>2, <1>3, DeliverKeepsRead
<1>4. CASE /\ loop'[d].first = loop[d].first /\ loop'[d].seq = loop[d].seq
           /\ loop'[d].raw = loop[d].raw /\ HandedOver' = HandedOver
  BY <1>2, <1>4 DEF OpenSetsAreHeld, HoldsOpenSet, ReadSetsAreSaved
<1>5. CASE Restart
  <2>1. loop[d] \in Loop
    BY DEF TypeOK
  <2>2. ~Deliver => HandedOver' = HandedOver
    BY HandedOtherwise
  <2>3. QED
    BY <1>3, <1>4, <1>5, <2>1, <2>2 DEF Restart, Loop
<1>6. (Record \/ Answer \/ SendEvent \/ Lose \/ OpenDialog \/ PressStart
         \/ CloseDialog \/ Write \/ UNCHANGED vars \/ \E e \in Dialog : Retry(e))
        => UNCHANGED loop
  BY WriteKeeps DEF Record, Answer, SendEvent, Lose, OpenDialog, PressStart,
         CloseDialog, Retry, vars, appVars
<1>7. QED
  BY <1>3, <1>4, <1>5, <1>6, HandedOtherwise DEF Next

LEMMA ReadSetsInitially == Init => OpenSetsAreHeld /\ ReadSetsAreSaved
<1> SUFFICES ASSUME Init, NEW d \in Dialog, NEW r \in CompleteSet
             PROVE  ~(loop[d].first \in 1 .. r[1])
  BY DEF OpenSetsAreHeld, HoldsOpenSet, ReadSetsAreSaved
<1>1. loop[d].first = 0
  BY DEF Init, NoLoop
<1>2. QED
  BY <1>1

(* A loop that has moved past a whole set it was started before has handed *)
(* that set to FileStorage.                                                *)
THEOREM EverySetReadIsSaved == Spec => []ReadSetsAreSaved
<1>1. QED
  BY InitTyped, StepTyped, KnownInitially, MessagesKnownStep, LoopsKnownStep,
     ReadSetsInitially, ReadSetsStep, PTL DEF Spec

-----------------------------------------------------------------------------
(* What is deleted was handed over, or is held by a loop that still listens *)

(* Loop l is inside the set r and holds all of it so far.                  *)
Covers(l, r) ==
  l.alive /\ r[1] <= l.seq /\ l.seq < r[2] /\ Len(l.raw) > l.seq - r[1]

KeptTo(r, c) ==
  r[1] <= c => \/ ItemsOf(r) \in HandedOver
               \/ \E d \in Dialog : Covers(loop[d], r) /\ c <= loop[d].seq

ToldIsKept ==
  restarts = 0 => \A c \in Told : \A r \in CompleteSet : KeptTo(r, c)

(* A covered set is in the buffer.                                         *)
LEMMA CoverHolds ==
  ASSUME TypeOK, NEW l \in Loop, BufferKnown(l), NEW r \in CompleteSet,
         Covers(l, r), NEW n \in r[1] .. r[2], n <= l.seq
  PROVE  \E i \in DOMAIN l.raw : l.raw[i] = n
<1>1. /\ l.seq \in Nat /\ Len(l.raw) \in Nat /\ DOMAIN l.raw = 1 .. Len(l.raw)
      /\ r[1] \in Nat /\ n \in Nat /\ r[1] <= n
  BY SetItems, KindIsSeq DEF Loop
<1>2. Len(l.raw) > l.seq - r[1]
  BY DEF Covers
<1>3. \A s, L, a \in Nat : \A k \in Nat : L > s - a /\ a <= k /\ k <= s
        => k - s + L \in 1 .. L /\ s - L + (k - s + L) = k
  BY ONLY TRUE
<1>4. /\ n - l.seq + Len(l.raw) \in 1 .. Len(l.raw)
      /\ l.seq - Len(l.raw) + (n - l.seq + Len(l.raw)) = n
  BY <1>1, <1>2, <1>3
<1>5. QED
  BY <1>1, <1>4 DEF BufferKnown

LEMMA DeliverKeepsCover ==
  ASSUME TypeOK, MessagesKnown, LoopsKnown, Deliver, NEW d \in Dialog,
         NEW r \in CompleteSet, Covers(loop[d], r)
  PROVE  \/ ItemsOf(r) \in HandedOver'
         \/ /\ Covers(loop'[d], r) /\ loop'[d].seq >= loop[d].seq
            /\ (/\ Head(toApp).type = "data"
                /\ Head(toApp).seq = loop[d].seq + 1)
                 => loop'[d].seq = Head(toApp).seq
<1> DEFINE m == Head(toApp)
           p == loop[d].seq
<1>1. /\ toApp # << >> /\ m \in Message /\ loop[d].alive
      /\ BufferKnown(loop[d]) /\ loop[d] \in Loop
      /\ r[1] <= p /\ p < r[2] /\ Len(loop[d].raw) > p - r[1]
  BY HeadMessage DEF Deliver, LoopsKnown, TypeOK, Covers
<1>2. /\ r[1] \in Nat /\ r[2] \in Nat /\ r[1] < r[2]
      /\ kind[r[1]] = "start" /\ kind[r[2]] = "end"
      /\ \A n \in Int : r[1] < n /\ n < r[2] => kind[n] = "pressure"
  BY SetItems
<1>3. p \in Nat /\ Len(loop[d].raw) \in Nat
  BY <1>1, KindIsSeq DEF Loop
<1>4. loop[d].startSetFound
  <2>1. Len(loop[d].raw) > 0
    BY <1>1, <1>2, <1>3
  <2>2. QED
    BY <1>1, <2>1 DEF BufferKnown
<1>5. ~Begins(d, m) /\ ~Finishes(d, m) /\ Collecting(d, m)
  BY <1>1, <1>4 DEF Begins, Finishes, Collecting, LoopsKnown
<1>6. /\ p + 1 = r[2] => kind[p + 1] = "end"
      /\ p + 1 # r[2] => kind[p + 1] = "pressure" /\ p + 1 < r[2]
  <2>1. p + 1 \in Int /\ r[1] < p + 1
    BY <1>1, <1>2, <1>3
  <2>2. p + 1 # r[2] => p + 1 < r[2]
    BY <1>1, <1>2, <1>3
  <2>3. QED
    BY <1>2, <2>1, <2>2
<1>7. CASE LoopEndsSet(d, m)
  <2>1. Consumes(d, m) /\ CompletesSet(d, m) /\ kind[m.seq] = "end"
    BY <1>7 DEF LoopEndsSet, CompletesSet
  <2>2. m.seq = p + 1
    BY <2>1 DEF Consumes, Expected
  <2>3. r[2] = m.seq
    BY <1>6, <2>1, <2>2
  <2>4. ItemsOf(r) \in HandedOver'
    BY <1>1, <2>1, <2>3, EndSaves
  <2>5. QED
    BY <2>4
<1>8. CASE LoopCollects(d, m)
  <2>1. m.seq = p + 1 /\ m.type = "data" /\ m.seq \in Seqs
    BY <1>1, <1>8, TakenItem DEF LoopCollects
  <2>2. /\ loop'[d].alive /\ loop'[d].seq = p + 1
        /\ Len(loop'[d].raw) = Len(loop[d].raw) + 1
    <3>1. loop'[d].raw = Append(loop[d].raw, m.seq)
      BY <1>8 DEF LoopCollects
    <3>2. loop'[d].alive /\ loop'[d].seq = m.seq
      BY <1>8 DEF LoopCollects
    <3> HIDE DEF m
    <3>3. QED
      BY <1>1, <2>1, <3>1, <3>2, BufferGrows
  <2>3. p + 1 < r[2]
    BY <1>6, <1>8, <2>1 DEF LoopCollects
  <2>4. Covers(loop'[d], r) /\ loop'[d].seq >= loop[d].seq
    <3>1. r[1] <= p + 1 /\ Len(loop[d].raw) + 1 > (p + 1) - r[1] /\ p + 1 >= p
      BY <1>1, <1>2, <1>3
    <3>2. Covers(loop'[d], r)
      <4>1. loop'[d].seq = p + 1 /\ Len(loop'[d].raw) = Len(loop[d].raw) + 1
        BY <2>2
      <4>2. r[1] <= loop'[d].seq
        BY <3>1, <4>1, Zenon
      <4>3. loop'[d].seq < r[2]
        BY <2>3, <4>1, Zenon
      <4>4. Len(loop'[d].raw) > loop'[d].seq - r[1]
        BY <3>1, <4>1, Zenon
      <4>5. QED
        BY <2>2, <4>2, <4>3, <4>4, Zenon DEF Covers
    <3>3. loop'[d].seq >= loop[d].seq
      BY <2>2, <3>1, Zenon
    <3>4. QED
      BY <3>2, <3>3
  <2>5. QED
    BY <2>1, <2>2, <2>4
<1>9. CASE LoopStays(d, m)
  <2>1. ~(m.type = "data" /\ m.seq = p + 1)
    <3>1. SUFFICES ASSUME m.type = "data", m.seq = p + 1 PROVE FALSE
      OBVIOUS
    <3>2. kind[m.seq] # "start"
      BY <1>6, <3>1
    <3>3. Consumes(d, m)
      BY <1>1, <3>1, <3>2 DEF Consumes, Expected, Throws
    <3>4. QED
      BY <1>9, <3>3 DEF LoopStays
  <2>2. /\ loop'[d].alive /\ loop'[d].seq = p /\ loop'[d].raw = loop[d].raw
    BY <1>1, <1>5, <1>9 DEF LoopStays
  <2>3. Covers(loop'[d], r) /\ loop'[d].seq >= loop[d].seq
    BY <1>1, <1>3, <2>2 DEF Covers
  <2>4. QED
    BY <2>1, <2>3
<1>10. QED
  BY <1>5, <1>7, <1>8, <1>9, LoopStep DEF LoopBegins, LoopSkips

(* A covered set stays covered, or is saved, unless the app is restarted.  *)
LEMMA CoverStep ==
  ASSUME TypeOK, MessagesKnown, LoopsKnown, [Next]_vars, ~Restart,
         NEW d \in Dialog, NEW r \in CompleteSet, Covers(loop[d], r)
  PROVE  \/ ItemsOf(r) \in HandedOver'
         \/ /\ Covers(loop'[d], r) /\ loop'[d].seq >= loop[d].seq
            /\ loop'[d].seq \in Int
<1>1. CASE Deliver
  <2>1. loop'[d].seq \in Int
    BY <1>1, LoopStep, KindIsSeq DEF Loop
  <2>2. QED
    BY <1>1, <2>1, DeliverKeepsCover
<1>2. CASE UNCHANGED loop
  <2>1. loop[d].seq \in Int
    BY KindIsSeq DEF TypeOK, Loop
  <2>2. QED
    BY <1>2, <2>1
<1>3. (Record \/ Answer \/ SendEvent \/ Lose \/ OpenDialog \/ PressStart
         \/ CloseDialog \/ Write \/ UNCHANGED vars \/ \E e \in Dialog : Retry(e))
        => UNCHANGED loop
  BY WriteKeeps DEF Record, Answer, SendEvent, Lose, OpenDialog, PressStart, CloseDialog,
         Retry, vars, appVars
<1>4. QED
  BY <1>1, <1>2, <1>3 DEF Next

(* When a loop takes an item of a set, the set is covered up to it or      *)
(* saved.                                                                  *)
LEMMA TakenIsKept ==
  ASSUME TypeOK, MessagesKnown, LoopsKnown, [Next]_vars, ~Restart,
         NEW c, Taken(c), NEW r \in CompleteSet, r[1] <= c, KeptTo(r, c - 1),
         HandedOver \subseteq HandedOver'
  PROVE  \/ ItemsOf(r) \in HandedOver'
         \/ \E d \in Dialog : Covers(loop'[d], r) /\ c <= loop'[d].seq
<1> DEFINE m == Head(toApp)
<1>1. PICK t \in Dialog : Deliver /\ Consumes(t, m) /\ c = m.seq
  BY DEF Taken
<1>2. /\ toApp # << >> /\ m.type = "data" /\ c \in Nat /\ c \in Seqs
      /\ loop[t].alive /\ loop[t].seq + 1 = c /\ BufferKnown(loop[t])
      /\ loop[t] \in Loop /\ Len(loop[t].raw) \in Nat
  BY <1>1, TakenItem DEF Deliver, LoopsKnown, TypeOK
<1>3. r[1] \in Nat /\ r[2] \in Nat /\ r[1] < r[2] /\ kind[r[1]] = "start"
  BY SetItems
<1>4. CASE r[1] = c
  <2>1. ~Begins(t, m)
    BY <1>2 DEF LoopsKnown, Begins
  <2>2. kind[m.seq] = "start"
    BY <1>1, <1>3, <1>4
  <2>3. LoopCollects(t, m)
    BY <1>1, <2>1, <2>2, LoopStep
       DEF LoopBegins, LoopEndsSet, LoopSkips, LoopStays, CompletesSet, Collecting
  <2>4. /\ loop'[t].alive /\ loop'[t].seq = c
        /\ loop'[t].raw = Append(loop[t].raw, c)
    BY <1>1, <2>3 DEF LoopCollects
  <2>5. Len(loop'[t].raw) = Len(loop[t].raw) + 1
    BY <1>2, <2>4, BufferGrows
  <2>6. Len(loop[t].raw) + 1 > c - r[1] /\ c < r[2] /\ c <= c
    BY <1>2, <1>3, <1>4
  <2>7. Covers(loop'[t], r) /\ c <= loop'[t].seq
    BY <1>4, <2>4, <2>5, <2>6 DEF Covers
  <2>8. QED
    BY <2>7
<1>5. CASE r[1] # c
  <2>1. r[1] <= c - 1
    BY <1>2, <1>3, <1>5
  <2>2. CASE ItemsOf(r) \in HandedOver
    BY <2>2
  <2>3. ASSUME NEW d \in Dialog, Covers(loop[d], r), c - 1 <= loop[d].seq
        PROVE  \/ ItemsOf(r) \in HandedOver'
               \/ Covers(loop'[d], r) /\ c <= loop'[d].seq
    <3>1. loop[d].seq \in Nat
      BY KindIsSeq DEF TypeOK, Loop
    <3>2. SUFFICES ASSUME Covers(loop'[d], r), loop'[d].seq >= loop[d].seq,
                          c = loop[d].seq + 1 => loop'[d].seq = c
                   PROVE  c <= loop'[d].seq
      BY <1>1, <1>2, <2>3, DeliverKeepsCover
    <3>3. loop'[d].seq \in Nat
      BY <1>1, LoopStep, KindIsSeq DEF Loop
    <3>4. QED
      BY <1>2, <2>3, <3>1, <3>2, <3>3
  <2>4. QED
    BY <2>1, <2>2, <2>3 DEF KeptTo
<1>6. QED
  BY <1>4, <1>5

(* Skipped numbers are no items of a set.                                  *)
LEMMA GapIsKept ==
  ASSUME TypeOK, NEW g \in Nat, NEW c \in Int, OnlyGap(g, c),
         NEW r \in CompleteSet, r[1] <= c, KeptTo(r, g)
  PROVE  \/ ItemsOf(r) \in HandedOver
         \/ \E d \in Dialog : Covers(loop[d], r) /\ c <= loop[d].seq
<1>1. /\ r[1] \in Nat /\ r[2] \in Nat /\ kind[r[1]] = "start"
      /\ kind[r[2]] = "end"
      /\ \A n \in Int : r[1] < n /\ n < r[2] => kind[n] = "pressure"
  BY SetItems
<1>2. r[1] <= g
  <2>1. CASE r[1] \in (g + 1) .. c
    BY <1>1, <2>1 DEF OnlyGap
  <2>2. CASE r[1] \notin (g + 1) .. c
    BY <1>1, <2>2
  <2>3. QED
    BY <2>1, <2>2
<1>3. ASSUME NEW d \in Dialog, Covers(loop[d], r), g <= loop[d].seq
      PROVE  c <= loop[d].seq
  <2>1. loop[d].seq \in Nat /\ loop[d].seq < r[2]
    BY <1>3, KindIsSeq DEF TypeOK, Loop, Covers
  <2>2. CASE c <= g
    BY <1>3, <2>1, <2>2
  <2>3. CASE ~(c <= g)
    <3>1. g + 1 \in (g + 1) .. c
      BY <2>3
    <3>2. kind[g + 1] = "missing"
      BY <3>1 DEF OnlyGap
    <3>3. g + 1 = r[2] \/ (r[1] < g + 1 /\ g + 1 < r[2])
      BY <1>1, <1>2, <1>3, <2>1
    <3>4. g + 1 \in Int
      OBVIOUS
    <3>5. QED
      BY <1>1, <3>2, <3>3, <3>4
  <2>4. QED
    BY <2>2, <2>3
<1>4. QED
  BY <1>2, <1>3 DEF KeptTo

LEMMA ToldIsKeptStep ==
  TypeOK /\ MessagesKnown /\ LoopsKnown /\ ToldIsKept /\ [Next]_vars
    => ToldIsKept'
<1>1. SUFFICES ASSUME TypeOK, MessagesKnown, LoopsKnown, ToldIsKept,
                      [Next]_vars, restarts' = 0
               PROVE  \A c \in Told' : \A r \in CompleteSet : KeptTo(r, c)'
  <2>1. CompleteSet' = CompleteSet \/ ~[Next]_vars \/ ~TypeOK
    BY ReceivedGrows DEF CompleteSet, Seqs
  <2>2. QED
    BY <2>1 DEF ToldIsKept, KeptTo
<1>2. ~Restart /\ restarts = 0
  <2>1. restarts \in Nat
    BY <1>1 DEF TypeOK
  <2>2. (Record \/ Answer \/ SendEvent \/ Lose \/ OpenDialog \/ PressStart
           \/ CloseDialog \/ Deliver \/ Write \/ UNCHANGED vars
           \/ \E e \in Dialog : Retry(e))
          => restarts' = restarts
    BY WriteKeeps DEF Record, Answer, SendEvent, Lose, OpenDialog, PressStart, CloseDialog,
           Deliver, Retry, vars, bounds
  <2>3. Restart => restarts' = restarts + 1
    BY DEF Restart
  <2>4. ~Restart
    BY <1>1, <2>1, <2>3
  <2>5. QED
    BY <1>1, <2>2, <2>4 DEF Next
<1>3. HandedOver \subseteq HandedOver'
  BY <1>1, HandedGrows
<1>4. \A c \in Told : \A r \in CompleteSet : KeptTo(r, c)
  BY <1>1, <1>2 DEF ToldIsKept
<1>5. SUFFICES ASSUME NEW c \in Told', NEW r \in CompleteSet, r[1] <= c
               PROVE  \/ ItemsOf(r) \in HandedOver'
                      \/ \E d \in Dialog : Covers(loop'[d], r)
                                           /\ c <= loop'[d].seq
  BY DEF KeptTo, Covers, ItemsOf
<1>6. r[1] \in Nat \ {0} /\ c \in Int
  <2>1. r[1] \in Nat \ {0}
    BY <1>1, SetItems, KindIsSeq
  <2>2. Told \subseteq Int /\ (Taken(c) => c \in Int)
    BY <1>1, ToldIsSeq, ReceivedGrows
  <2>3. \A g \in Told : OnlyGap(g, c) => c \in Int
    BY DEF OnlyGap
  <2>4. 0 \in Int
    OBVIOUS
  <2>5. c \in Told \/ c = 0 \/ Taken(c) \/ \E g \in Told : OnlyGap(g, c)
    BY <1>1, NewTold
  <2>6. c \in Int
    BY <2>2, <2>3, <2>4, <2>5, Zenon
  <2>7. QED
    BY <2>1, <2>6
<1>7. ASSUME NEW d \in Dialog, Covers(loop[d], r), c <= loop[d].seq
      PROVE  \/ ItemsOf(r) \in HandedOver'
             \/ Covers(loop'[d], r) /\ c <= loop'[d].seq
  <2>1. SUFFICES ASSUME Covers(loop'[d], r), loop'[d].seq >= loop[d].seq,
                        loop'[d].seq \in Int
                 PROVE  c <= loop'[d].seq
    BY <1>1, <1>2, <1>7, CoverStep
  <2>2. loop[d].seq \in Int
    BY <1>1, KindIsSeq DEF TypeOK, Loop
  <2>3. QED
    BY <1>6, <1>7, <2>1, <2>2
<1>8. ASSUME ItemsOf(r) \in HandedOver \/ \E d \in Dialog : Covers(loop[d], r)
                                                       /\ c <= loop[d].seq
      PROVE  \/ ItemsOf(r) \in HandedOver'
             \/ \E d \in Dialog : Covers(loop'[d], r) /\ c <= loop'[d].seq
  BY <1>3, <1>7, <1>8
<1>9. CASE c \in Told
  <2>1. KeptTo(r, c)
    BY <1>4, <1>9
  <2>2. QED
    BY <1>5, <1>8, <2>1 DEF KeptTo
<1>10. CASE c = 0
  BY <1>5, <1>6, <1>10
<1>11. CASE Taken(c)
  <2>1. c - 1 \in Told
    BY <1>1, <1>11, ReceivedGrows
  <2>2. KeptTo(r, c - 1)
    BY <1>4, <2>1
  <2>3. QED
    BY <1>1, <1>2, <1>3, <1>5, <1>11, <2>2, TakenIsKept
<1>12. ASSUME NEW g \in Told, OnlyGap(g, c)
       PROVE  \/ ItemsOf(r) \in HandedOver'
              \/ \E d \in Dialog : Covers(loop'[d], r) /\ c <= loop'[d].seq
  <2>1. g \in Nat
    BY <1>1, ToldIsSeq
  <2>2. KeptTo(r, g)
    BY <1>4
  <2>3. QED
    BY <1>1, <1>5, <1>6, <1>8, <1>12, <2>1, <2>2, GapIsKept
<1>13. QED
  BY <1>1, <1>9, <1>10, <1>11, <1>12, NewTold

LEMMA ToldIsKeptInitially == Init => ToldIsKept
<1> SUFFICES ASSUME Init, NEW r \in CompleteSet PROVE ~(r[1] <= 0)
  BY ToldInitially DEF ToldIsKept, KeptTo
<1>1. r[1] \in Nat \ {0}
  BY InitTyped, SetItems, KindIsSeq
<1>2. QED
  BY <1>1

LEMMA KeptIsHeld ==
  TypeOK /\ LoopsKnown /\ ToldIsKept => DeletedIsSavedOrHeld
<1> SUFFICES ASSUME TypeOK, LoopsKnown, ToldIsKept, restarts = 0,
                    NEW r \in CompleteSet, r[1] <= deleted,
                    NEW d \in Dialog, Covers(loop[d], r),
                    deleted <= loop[d].seq, NEW n \in r[1] .. r[2],
                    n <= deleted
             PROVE  \E i \in DOMAIN loop[d].raw : loop[d].raw[i] = n
  <2>1. ASSUME TypeOK, LoopsKnown, ToldIsKept, restarts = 0,
               NEW r \in CompleteSet, r[1] <= deleted
        PROVE  \/ ItemsOf(r) \in HandedOver
               \/ \E d \in Dialog : Covers(loop[d], r) /\ deleted <= loop[d].seq
    BY <2>1 DEF ToldIsKept, KeptTo, Told
  <2>2. QED
    BY <2>1 DEF DeletedIsSavedOrHeld, Covers, Held, HandedOver
<1>1. loop[d] \in Loop /\ BufferKnown(loop[d])
  BY DEF TypeOK, LoopsKnown
<1>2. n <= loop[d].seq
  <2>1. deleted \in Nat /\ loop[d].seq \in Nat /\ n \in Int
    BY <1>1, SetItems, KindIsSeq DEF TypeOK, Loop
  <2>2. QED
    BY <2>1
<1>3. QED
  BY <1>1, <1>2, CoverHolds

(* An item of a set that the device was told to delete is in a file, on    *)
(* its way into one, or in the buffer of a loop that still listens, unless *)
(* a write of its set failed, as long as the app runs.                     *)
THEOREM WhatIsDeletedIsKept == Spec => []DeletedIsSavedOrHeld
<1>1. QED
  BY InitTyped, StepTyped, KnownInitially, MessagesKnownStep, LoopsKnownStep,
     ToldIsKeptInitially, ToldIsKeptStep, KeptIsHeld, PTL DEF Spec

=============================================================================
