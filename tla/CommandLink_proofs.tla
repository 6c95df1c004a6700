--------------------------- MODULE CommandLink_proofs ---------------------------
(***************************************************************************)
(* Proofs about CommandWriter and CommandLink, for any number and sizes of *)
(* commands, messages, MTUs, connections, refused writes and losses.       *)
(*                                                                         *)
(* WriterInv tells what is on its way to the device, and what the device   *)
(* has stacked up, relative to the calls: packets with a first byte are in *)
(* the order of the calls (OpenedInOrder), and the packets of a call that  *)
(* is not broken follow each other from the buffer of the device to what   *)
(* is written next (PacketsFollow, WritingIsSent).  What one packet does   *)
(* to that buffer is PacketDecoded.  CommandLink is then shown to be both  *)
(* a CommandWriter and a NotificationDecoder; the queue of the device that *)
(* links them is in QueuesInv.                                             *)
(***************************************************************************)
EXTENDS CommandLink, NotificationDecoder_proofs

-----------------------------------------------------------------------------
(* Packets *)

CommandLetters == FrameLetters(CommandSize)
CommandByte == FrameBytes(CommandSize)

AnyPacket == [of : Command, at : Nat, data : Seq(CommandByte)]

CommandLength(m) == Len(EncodedCommand(m))
Completes(p) == End(p) = CommandLength(p.of)

(* The first packet of a call holds the delimiter and the first byte of    *)
(* the body; no other packet holds one of them.                            *)
IsPacket(p) ==
  /\ p.at # 1
  /\ p.at = 0 => Len(p.data) >= 2
  /\ End(p) <= CommandLength(p.of)
  /\ \A j \in 1 .. Len(p.data) : p.data[j] = EncodedCommand(p.of)[p.at + j]

PacketTypes ==
  /\ WriterTypeOK
  /\ packets \in Seq(AnyPacket)
  /\ \A j \in 1 .. Len(packets) : IsPacket(packets[j])
  /\ deviceRaw \in Seq(CommandLetters)
  /\ received \in Seq(Command)

-----------------------------------------------------------------------------
(* Order *)

Started(m) == call[m].state # "idle"

CallsInOrder ==
  /\ \A m, k \in Command : k < m /\ Started(m) => Started(k)
  /\ \A j \in 1 .. Len(packets) : Started(packets[j].of)
  /\ \A j \in 1 .. Len(received) : Started(received[j])

(* The device has stacked up bytes of command m, from the first.           *)
OpensWith(raw, m) == raw # << >> /\ raw[1][2] = 1 /\ raw[1][1] = m
Opened(m) == OpensWith(deviceRaw, m)

OpenedInOrder ==
  /\ ReceivedInOrder
  /\ \A m \in Command : Opened(m) =>
       Started(m) /\ \A i \in 1 .. Len(received) : received[i] < m
  /\ \A j \in 1 .. Len(packets) : packets[j].at = 0 =>
       /\ \A i \in 1 .. j - 1 : packets[i].at = 0 => packets[i].of < packets[j].of
       /\ \A i \in 1 .. Len(received) : received[i] < packets[j].of
       /\ \A m \in Command : Opened(m) => m < packets[j].of

-----------------------------------------------------------------------------
(* Calls whose packets stay together *)

Sent(m) == payload * (call[m].i + 1)

(* A call goes on with the _mtu it began with, and alone.                  *)
WritesOn ==
  \A m \in Writing \ broken :
    /\ payload > 0
    /\ call[m].total = totalPackets(m)
    /\ call[m].i < call[m].total - 1
    /\ \A k \in Writing \ broken : k = m

(* A packet continues the one before it, the first what the device has.    *)
PacketsFollow ==
  \A j \in 1 .. Len(packets) : packets[j].of \notin broken =>
    /\ Len(packets[j].data) > 0
    /\ packets[j].at > 0 =>
         IF j = 1
         THEN deviceRaw = SubSeq(EncodedCommand(packets[j].of), 2, packets[j].at)
         ELSE /\ packets[j - 1].of = packets[j].of
              /\ End(packets[j - 1]) = packets[j].at

(* What was written last ends where the next packet will begin.            *)
WritingIsSent ==
  \A m \in Writing \ broken :
    IF packets = << >>
    THEN deviceRaw = SubSeq(EncodedCommand(m), 2, Sent(m))
    ELSE /\ packets[Len(packets)].of = m
         /\ End(packets[Len(packets)]) = Sent(m)

(* What ends a command is received after all of its other packets.         *)
DoneIsSent ==
  \A m \in Command : call[m].state = "done" /\ m \notin broken =>
    \/ \E j \in 1 .. Len(received) : received[j] = m
    \/ \E j \in 1 .. Len(packets) : packets[j].of = m /\ Completes(packets[j])

WriterInv ==
  /\ PacketTypes
  /\ CallsInOrder
  /\ OpenedInOrder
  /\ WritesOn
  /\ PacketsFollow
  /\ WritingIsSent
  /\ DoneIsSent

-----------------------------------------------------------------------------
(* Commands and packets *)

(* Commands are numbered from 1; with its delimiters each has at least     *)
(* three bytes.                                                            *)
LEMMA CommandFacts ==
  /\ Command = 1 .. Len(CommandSize) /\ Len(CommandSize) \in Nat
  /\ CommandSize \in Seq(Nat \ {0})
  /\ \A m \in Command :
       /\ m \in Nat /\ m >= 1
       /\ CommandLength(m) \in Nat /\ CommandLength(m) > 2
       /\ CommandLength(m) = CommandSize[m] + 2
<1>1. ASSUME NEW m \in Command
      PROVE  /\ CommandLength(m) = CommandSize[m] + 2
             /\ CommandSize[m] \in Nat \ {0}
  <2>1. m \in DOMAIN CommandSize
    BY DEF Command
  <2>2. CommandSize[m] \in Nat \ {0}
    BY <2>1, CommandSizeAssumption, SizesArePositive
  <2>3. Len(encoder(m, CommandSize[m])) = CommandSize[m] + 2
    BY <2>1, CommandSizeAssumption, FrameEncodedFacts
  <2>4. QED
    BY <2>2, <2>3 DEF CommandLength, EncodedCommand
<1>2. Command = 1 .. Len(CommandSize) /\ Len(CommandSize) \in Nat
  BY CommandSizeAssumption, LenProperties DEF Command
<1>3. ASSUME NEW m \in Command
      PROVE  /\ m \in Nat /\ m >= 1
             /\ CommandLength(m) \in Nat /\ CommandLength(m) > 2
  BY ONLY <1>1, <1>2, m \in Command
<1>4. QED
  BY <1>1, <1>2, <1>3, CommandSizeAssumption

(* An encoded command begins and ends with a delimiter.                    *)
LEMMA CommandBytes ==
  ASSUME NEW m \in Command
  PROVE  /\ EncodedCommand(m) \in Seq(CommandByte)
         /\ EncodedCommand(m)[1] = Delimiter
         /\ EncodedCommand(m)[CommandLength(m)] = Delimiter
<1>1. m \in DOMAIN CommandSize
  BY DEF Command
<1>2. /\ encoder(m, CommandSize[m]) \in Seq(FrameBytes(CommandSize))
      /\ encoder(m, CommandSize[m])[1] = Delimiter
      /\ encoder(m, CommandSize[m])[CommandSize[m] + 2] = Delimiter
  BY <1>1, CommandSizeAssumption, FrameEncodedFacts
<1>3. CommandLength(m) = CommandSize[m] + 2
  BY CommandFacts
<1>4. QED
  BY <1>2, <1>3 DEF EncodedCommand, CommandByte

(* A packet lies within its command.                                       *)
LEMMA PacketFacts ==
  ASSUME NEW p \in AnyPacket, IsPacket(p)
  PROVE  /\ p.of \in Command /\ p.at \in Nat /\ p.at # 1
         /\ Len(p.data) \in Nat
         /\ p.at = 0 => Len(p.data) >= 2
         /\ End(p) = p.at + Len(p.data) /\ End(p) \in Nat
         /\ CommandLength(p.of) \in Nat /\ CommandLength(p.of) > 2
         /\ End(p) <= CommandLength(p.of)
<1>1. p.of \in Command /\ p.at \in Nat /\ Len(p.data) \in Nat
  BY LenProperties DEF AnyPacket
<1>2. p.at # 1 /\ (p.at = 0 => Len(p.data) >= 2) /\ End(p) <= CommandLength(p.of)
  BY DEF IsPacket
<1>3. CommandLength(p.of) \in Nat /\ CommandLength(p.of) > 2
  BY <1>1, CommandFacts
<1>4. End(p) = p.at + Len(p.data) /\ End(p) \in Nat
  BY ONLY <1>1 DEF End
<1>5. QED
  BY <1>1, <1>2, <1>3, <1>4

-----------------------------------------------------------------------------
(* What the device makes of a packet *)

(* The device's loop over the bytes of a packet: if u follows deviceByte   *)
(* from one byte to the next, decodeAll gives the last element of u.       *)
LEMMA DeviceInduction ==
  ASSUME NEW raw, NEW data, Len(data) \in Nat, NEW u,
         u[0] = [raw |-> raw, got |-> << >>],
         \A i \in 1 .. Len(data) : u[i] = deviceByte(u[i - 1], data[i])
  PROVE  decodeAll(raw, data) = u[Len(data)]
<1> DEFINE start == [raw |-> raw, got |-> << >>]
           Turns(t) == t = [i \in 0 .. Len(data) |->
                              IF i = 0 THEN start
                                       ELSE deviceByte(t[i - 1], data[i])]
<1>1. PICK t : Turns(t) /\ decodeAll(raw, data) = t[Len(data)]
  <2>1. PICK t : t = CHOOSE v : Turns(v)
    OBVIOUS
  <2>2. PICK w : w = [i \in 0 .. Len(data) |-> u[i]]
    OBVIOUS
  <2>3. decodeAll(raw, data) = t[Len(data)]
    BY <2>1 DEF decodeAll
  <2> HIDE DEF start
  <2>4. ASSUME NEW i \in 0 .. Len(data)
        PROVE  w[i] = IF i = 0 THEN start ELSE deviceByte(w[i - 1], data[i])
    <3>1. CASE i = 0
      BY <2>2, <3>1 DEF start
    <3>2. CASE i # 0
      <4>1. i \in 1 .. Len(data) /\ i - 1 \in 0 .. Len(data)
        BY <3>2
      <4>2. w[i] = u[i] /\ w[i - 1] = u[i - 1]
        BY <2>2, <4>1
      <4>3. u[i] = deviceByte(u[i - 1], data[i])
        BY <4>1
      <4>4. QED
        BY <3>2, <4>2, <4>3
    <3>3. QED
      BY <3>1, <3>2
  <2>5. w = [i \in 0 .. Len(data) |-> w[i]]
    BY <2>2
  <2>6. Turns(w)
    BY <2>4, <2>5
  <2> HIDE DEF Turns
  <2>7. Turns(t)
    BY <2>1, <2>6
  <2>8. QED
    BY <2>3, <2>7
<1>2. t[0] = start
  <2>1. 0 \in 0 .. Len(data)
    OBVIOUS
  <2>2. QED
    BY <1>1, <2>1
<1>3. ASSUME NEW i \in 1 .. Len(data)
      PROVE  t[i] = deviceByte(t[i - 1], data[i])
  <2>1. i \in 0 .. Len(data) /\ i # 0
    OBVIOUS
  <2> HIDE DEF start
  <2>2. QED
    BY <1>1, <2>1
<1> DEFINE S == {i \in Nat : i <= Len(data) => t[i] = u[i]}
<1>4. 0 \in S
  BY <1>2
<1> HIDE DEF Turns, start
<1>5. ASSUME NEW n \in Nat, n \in S
      PROVE  n + 1 \in S
  <2>1. SUFFICES ASSUME n + 1 <= Len(data)
                 PROVE  t[n + 1] = u[n + 1]
    OBVIOUS
  <2>2. n + 1 \in 1 .. Len(data) /\ (n + 1) - 1 = n
    BY <2>1
  <2>3. t[n] = u[n]
    BY <1>5, <2>1
  <2>4. t[n + 1] = deviceByte(t[(n + 1) - 1], data[n + 1])
    BY <1>3, <2>2
  <2>5. u[n + 1] = deviceByte(u[(n + 1) - 1], data[n + 1])
    BY <2>2
  <2>6. QED
    BY <2>2, <2>3, <2>4, <2>5
<1>6. Len(data) \in S
  <2> HIDE DEF S
  <2>1. QED
    BY <1>4, <1>5, Induct
<1>7. QED
  BY <1>1, <1>6

Device(raw, got) == [raw |-> raw, got |-> got]

DeviceStacked(raw, p, i) == FrameStacked(CommandSize, p.of, raw, p.at, i)

(* The command that is complete when a delimiter follows raw.              *)
Complete(raw) ==
  IF decode(raw) = Nothing THEN << >> ELSE Append(<< >>, decode(raw))

DeviceAs(raw, p, i) ==
  IF i = 0 THEN Device(raw, << >>)
  ELSE IF p.at = 0
  THEN IF p.at + i < CommandLength(p.of)
       THEN Device(DeviceStacked(raw, p, i), Complete(raw))
       ELSE Device(<< >>, Append(Complete(raw), p.of))
  ELSE IF p.at + i < CommandLength(p.of)
  THEN Device(DeviceStacked(raw, p, i), << >>)
  ELSE Device(<< >>, Complete(DeviceStacked(raw, p, i - 1)))

(* The device stacks up a byte that is no delimiter.                       *)
LEMMA DeviceByteLetter ==
  ASSUME NEW raw, NEW got, NEW byte, byte # Delimiter
  PROVE  deviceByte(Device(raw, got), byte) = Device(Append(raw, byte), got)
  BY DEF deviceByte, Device

(* A delimiter empties the buffer of the device; what decodes is given     *)
(* on.                                                                     *)
LEMMA DeviceByteDelimiter ==
  ASSUME NEW raw, NEW got
  PROVE  deviceByte(Device(raw, got), Delimiter) =
              Device(<< >>, IF decode(raw) = Nothing THEN got
                            ELSE Append(got, decode(raw)))
  BY DEF deviceByte, Device

(* All that lies between the delimiters of a command decodes to it.        *)
LEMMA StackedCommand ==
  ASSUME NEW m \in Command
  PROVE  decode(SubSeq(EncodedCommand(m), 2, CommandLength(m) - 1)) = m
<1>1. m \in DOMAIN CommandSize
  BY DEF Command
<1>2. PICK B : B = Body(m, CommandSize[m])
  OBVIOUS
<1>3. SubSeq(EncodedCommand(m), 2, CommandLength(m) - 1) = B
  BY <1>1, <1>2, CommandSizeAssumption, FrameMiddleIsBody
     DEF EncodedCommand, CommandLength
<1>4. CommandSize[m] \in Nat \ {0}
  BY <1>1, CommandSizeAssumption, SizesArePositive
<1>5. /\ B \in Seq(FrameLetters(CommandSize)) /\ Len(B) = CommandSize[m]
      /\ \A i \in 1 .. CommandSize[m] : B[i] = << m, i, CommandSize[m] >>
  BY <1>1, <1>2, CommandSizeAssumption, FrameBodyFacts
<1>6. B[1] = << m, 1, CommandSize[m] >>
  <2>1. 1 \in 1 .. CommandSize[m]
    BY <1>4
  <2>2. QED
    BY <1>5, <2>1
<1>7. B # << >> /\ B[1][1] = m /\ B[1][3] = CommandSize[m]
  BY <1>4, <1>5, <1>6, EmptySeq
<1>8. decode(B) = m
  BY <1>2, <1>7 DEF decode
<1>9. QED
  BY <1>3, <1>8

(* A byte of a command that is no delimiter is stacked up.                 *)
LEMMA DeviceStackedNext ==
  ASSUME NEW p \in AnyPacket, IsPacket(p), NEW raw \in Seq(CommandLetters),
         NEW i \in 1 .. Len(p.data), p.at + i < CommandLength(p.of),
         p.at + i > 1
  PROVE  /\ p.data[i] # Delimiter
         /\ Append(IF i = 1 THEN raw ELSE DeviceStacked(raw, p, i - 1), p.data[i])
              = DeviceStacked(raw, p, i)
         /\ i = 1 => p.at # 0
<1>1. p.of \in Command /\ p.at \in Nat /\ Len(p.data) \in Nat
  BY PacketFacts
<1>2. i \in Nat /\ i >= 1
  BY <1>1
<1>3. p.data[i] = EncodedCommand(p.of)[p.at + i]
  BY DEF IsPacket
<1>4. PICK m, at, size : m = p.of /\ at = p.at /\ size = CommandSize
  OBVIOUS
<1>5. /\ size \in Seq(Nat \ {0}) /\ m \in DOMAIN size /\ at \in Nat
      /\ raw \in Seq(FrameLetters(size))
      /\ at + i < Len(encoder(m, size[m])) /\ at + i > 1
  BY <1>1, <1>4, CommandSizeAssumption
     DEF Command, CommandLength, EncodedCommand, CommandLetters
<1>6. /\ encoder(m, size[m])[at + i] \in FrameLetters(size)
      /\ Append(IF i = 1 THEN raw ELSE FrameStacked(size, m, raw, at, i - 1),
                encoder(m, size[m])[at + i])
           = FrameStacked(size, m, raw, at, i)
      /\ i = 1 => at # 0
  BY <1>2, <1>5, FrameStackedNext
<1>7. p.data[i] = encoder(m, size[m])[at + i]
  BY <1>3, <1>4 DEF EncodedCommand
<1>8. p.data[i] # Delimiter
  BY <1>5, <1>6, <1>7, FrameLetterFacts
<1>9. QED
  BY <1>4, <1>6, <1>7, <1>8 DEF DeviceStacked

(* What the device makes of a packet, whatever is in its buffer.           *)
LEMMA DeviceOnPacket ==
  ASSUME NEW p \in AnyPacket, IsPacket(p), NEW raw \in Seq(CommandLetters)
  PROVE  decodeAll(raw, p.data) = DeviceAs(raw, p, Len(p.data))
<1> DEFINE n == Len(p.data)
           L == CommandLength(p.of)
           stk(i) == DeviceStacked(raw, p, i)
<1>1. /\ p.of \in Command /\ p.at \in Nat /\ p.at # 1 /\ n \in Nat
      /\ L \in Nat /\ L > 2 /\ p.at + n <= L
  BY PacketFacts
<1>2. \A i \in 1 .. n : p.data[i] = EncodedCommand(p.of)[p.at + i]
  BY DEF IsPacket
<1>3. ASSUME NEW i \in 1 .. n
      PROVE  DeviceAs(raw, p, i) = deviceByte(DeviceAs(raw, p, i - 1), p.data[i])
  <2>1. i \in Nat /\ i - 1 \in Nat /\ i >= 1 /\ i <= n /\ p.at + i <= L
        /\ i # 0 /\ (i = 1 <=> i - 1 = 0)
    BY ONLY <1>1, i \in 1 .. n
  <2>2. p.at + i = 1 \/ p.at + i = L => p.data[i] = Delimiter
    BY <1>1, <1>2, CommandBytes
  <2>3. p.at + i < L /\ p.at + i > 1 =>
          /\ p.data[i] # Delimiter
          /\ Append(IF i = 1 THEN raw ELSE stk(i - 1), p.data[i]) = stk(i)
    BY DeviceStackedNext
  <2> HIDE DEF stk, L, n
  <2>4. CASE p.at = 0 /\ i = 1
    <3>1. p.data[i] = Delimiter /\ i - 1 = 0 /\ p.at + i < L
      BY <1>1, <2>2, <2>4
    <3>2. DeviceAs(raw, p, i - 1) = Device(raw, << >>)
      BY <3>1, Zenon DEF DeviceAs
    <3>3. stk(i) = << >>
      <4>1. SubSeq(encoder(p.of, CommandSize[p.of]), 2, 1) = << >>
        BY SubSeqEmpty
      <4>2. QED
        BY <4>1, <2>4 DEF stk, DeviceStacked, FrameStacked
    <3>4. DeviceAs(raw, p, i) = Device(<< >>, Complete(raw))
      BY <2>1, <2>4, <3>1, <3>3, Zenon DEF DeviceAs, stk, L
    <3>5. deviceByte(Device(raw, << >>), Delimiter) = Device(<< >>, Complete(raw))
      BY DeviceByteDelimiter DEF Complete
    <3>6. QED
      BY <3>1, <3>2, <3>4, <3>5
  <2>5. CASE p.at = 0 /\ i # 1 /\ p.at + i < L
    <3>1. p.at + i > 1 /\ i - 1 # 0 /\ p.at + (i - 1) < L
      BY <1>1, <2>1, <2>5
    <3>2. DeviceAs(raw, p, i - 1) = Device(stk(i - 1), Complete(raw))
      BY <2>5, <3>1, Zenon DEF DeviceAs, stk, L
    <3>3. DeviceAs(raw, p, i) = Device(stk(i), Complete(raw))
      BY <2>1, <2>5, Zenon DEF DeviceAs, stk, L
    <3>4. p.data[i] # Delimiter /\ Append(stk(i - 1), p.data[i]) = stk(i)
      BY <2>3, <2>5, <3>1
    <3>5. deviceByte(Device(stk(i - 1), Complete(raw)), p.data[i])
            = Device(Append(stk(i - 1), p.data[i]), Complete(raw))
      BY <3>4, DeviceByteLetter
    <3>6. QED
      BY <3>2, <3>3, <3>4, <3>5
  <2>6. CASE p.at = 0 /\ i # 1 /\ ~(p.at + i < L)
    <3>1. p.at + i = L /\ i = L /\ i - 1 # 0 /\ p.at + (i - 1) < L
      BY <1>1, <2>1, <2>6
    <3>2. DeviceAs(raw, p, i - 1) = Device(stk(i - 1), Complete(raw))
      BY <2>6, <3>1, Zenon DEF DeviceAs, stk, L
    <3>3. DeviceAs(raw, p, i) = Device(<< >>, Append(Complete(raw), p.of))
      BY <2>1, <2>6, Zenon DEF DeviceAs, L
    <3>4. decode(stk(i - 1)) = p.of
      <4>1. stk(i - 1) = SubSeq(EncodedCommand(p.of), 2, CommandLength(p.of) - 1)
        BY <2>6, <3>1 DEF stk, L, DeviceStacked, FrameStacked, EncodedCommand
      <4>2. QED
        BY <1>1, <4>1, StackedCommand
    <3>5. p.of # Nothing
      BY <1>1, CommandFacts DEF Nothing
    <3>6. deviceByte(Device(stk(i - 1), Complete(raw)), Delimiter)
            = Device(<< >>, Append(Complete(raw), p.of))
      BY <3>4, <3>5, DeviceByteDelimiter
    <3>7. QED
      BY <2>2, <3>1, <3>2, <3>3, <3>6
  <2>7. CASE p.at # 0
    <3>1. p.at + i > 1 /\ p.at + (i - 1) < L
      BY <1>1, <2>1, <2>7
    <3>2. i - 1 = 0 => stk(i - 1) = raw
      <4>1. SUFFICES stk(0) = raw
        OBVIOUS
      <4>2. SubSeq(encoder(p.of, CommandSize[p.of]), p.at + 1, p.at + 0) = << >>
        BY <1>1, SubSeqEmpty
      <4>3. raw \o << >> = raw
        BY ConcatEmptySeq
      <4>4. QED
        BY <4>2, <4>3, <2>7 DEF stk, DeviceStacked, FrameStacked
    <3>3. DeviceAs(raw, p, i - 1) = Device(stk(i - 1), << >>)
      <4>1. CASE i - 1 = 0
        BY <3>2, <4>1, Zenon DEF DeviceAs
      <4>2. CASE i - 1 # 0
        BY <2>7, <3>1, <4>2, Zenon DEF DeviceAs, stk, L
      <4>3. QED
        BY <4>1, <4>2
    <3>4. CASE p.at + i < L
      <4>1. DeviceAs(raw, p, i) = Device(stk(i), << >>)
        BY <2>1, <2>7, <3>4, Zenon DEF DeviceAs, stk, L
      <4>2. p.data[i] # Delimiter /\ Append(stk(i - 1), p.data[i]) = stk(i)
        <5>1. CASE i = 1
          <6>1. stk(i - 1) = raw
            BY <2>1, <3>2, <5>1
          <6>2. QED
            BY <2>3, <3>1, <3>4, <5>1, <6>1
        <5>2. CASE i # 1
          BY <2>3, <3>1, <3>4, <5>2
        <5>3. QED
          BY <5>1, <5>2
      <4>3. deviceByte(Device(stk(i - 1), << >>), p.data[i])
              = Device(Append(stk(i - 1), p.data[i]), << >>)
        BY <4>2, DeviceByteLetter
      <4>4. QED
        BY <3>3, <4>1, <4>2, <4>3
    <3>5. CASE ~(p.at + i < L)
      <4>1. DeviceAs(raw, p, i) = Device(<< >>, Complete(stk(i - 1)))
        BY <2>1, <2>7, <3>5, Zenon DEF DeviceAs, stk, L
      <4>2. p.at + i = L
        BY <1>1, <2>1, <3>5
      <4>3. deviceByte(Device(stk(i - 1), << >>), Delimiter)
              = Device(<< >>, Complete(stk(i - 1)))
        BY DeviceByteDelimiter DEF Complete
      <4>4. QED
        BY <2>2, <3>3, <4>1, <4>2, <4>3
    <3>6. QED
      BY <3>4, <3>5
  <2>8. QED
    BY <2>4, <2>5, <2>6, <2>7
<1>4. DeviceAs(raw, p, 0) = [raw |-> raw, got |-> << >>]
  BY Zenon DEF DeviceAs, Device
<1> DEFINE u == [i \in 0 .. n |-> DeviceAs(raw, p, i)]
<1>5. /\ u[0] = [raw |-> raw, got |-> << >>]
      /\ \A i \in 1 .. n : u[i] = deviceByte(u[i - 1], p.data[i])
  <2>1. u[0] = [raw |-> raw, got |-> << >>]
    <3>1. 0 \in 0 .. n
      BY <1>1
    <3>2. QED
      BY <1>4, <3>1
  <2>2. ASSUME NEW i \in 1 .. n
        PROVE  u[i] = deviceByte(u[i - 1], p.data[i])
    <3>1. i \in 0 .. n /\ i - 1 \in 0 .. n
      BY ONLY <1>1, i \in 1 .. n
    <3>2. u[i - 1] = DeviceAs(raw, p, i - 1) /\ u[i] = DeviceAs(raw, p, i)
      BY <3>1
    <3>3. QED
      BY <1>3, <3>2
  <2>3. QED
    BY <2>1, <2>2
<1>6. decodeAll(raw, p.data) = u[n]
  <2> HIDE DEF u
  <2>1. QED
    BY <1>1, <1>5, DeviceInduction
<1>7. QED
  BY <1>1, <1>6

(* What is decoded begins with the first byte of a command.                *)
LEMMA CompleteFacts ==
  ASSUME NEW raw \in Seq(CommandLetters)
  PROVE  /\ Complete(raw) \in Seq(Command)
         /\ \/ Complete(raw) = << >>
            \/ /\ decode(raw) \in Command /\ OpensWith(raw, decode(raw))
               /\ Complete(raw) = Append(<< >>, decode(raw))
               /\ Len(Complete(raw)) = 1 /\ Complete(raw)[1] = decode(raw)
<1>1. CASE decode(raw) = Nothing
  BY <1>1, EmptySeq DEF Complete
<1>2. CASE decode(raw) # Nothing
  <2>1. PICK x : x = decode(raw)
    OBVIOUS
  <2>2. raw \in Seq(FrameLetters(CommandSize))
    BY DEF CommandLetters
  <2>3. /\ raw # << >> /\ x \in DOMAIN CommandSize
        /\ \A i \in 1 .. Len(raw) : raw[i][1] = x
        /\ raw[1][2] = 1
    BY <1>2, <2>1, <2>2, CommandSizeAssumption, FrameDecodeLetters
  <2>4. 1 \in 1 .. Len(raw)
    BY <2>3, EmptySeq
  <2>5. x \in Command /\ OpensWith(raw, x)
    BY <2>3, <2>4 DEF Command, OpensWith
  <2>6. Complete(raw) = Append(<< >>, x)
    BY <1>2, <2>1 DEF Complete
  <2>7. << >> \in Seq(Command) /\ Len(<< >>) = 0
    BY EmptySeq
  <2>8. /\ Append(<< >>, x) \in Seq(Command)
        /\ Len(Append(<< >>, x)) = 1
        /\ Append(<< >>, x)[1] = x
    BY <2>5, <2>7, AppendProperties
  <2>9. QED
    BY <2>1, <2>5, <2>6, <2>8
<1>3. QED
  BY <1>1, <1>2

(* What is stacked up begins a command only if it began it before, or if   *)
(* this is the packet with the first byte of the command.                  *)
LEMMA DeviceStackedFacts ==
  ASSUME NEW p \in AnyPacket, IsPacket(p), NEW raw \in Seq(CommandLetters),
         NEW i \in Nat, p.at + i < CommandLength(p.of)
  PROVE  /\ DeviceStacked(raw, p, i) \in Seq(CommandLetters)
         /\ \A m : OpensWith(DeviceStacked(raw, p, i), m) =>
              IF p.at = 0 THEN m = p.of ELSE OpensWith(raw, m)
         /\ p.at = 0 \/ raw = SubSeq(EncodedCommand(p.of), 2, p.at) =>
              DeviceStacked(raw, p, i) = SubSeq(EncodedCommand(p.of), 2, p.at + i)
<1>1. PICK m, at, size : m = p.of /\ at = p.at /\ size = CommandSize
  OBVIOUS
<1>2. /\ size \in Seq(Nat \ {0}) /\ m \in DOMAIN size /\ at \in Nat /\ at # 1
      /\ raw \in Seq(FrameLetters(size)) /\ at + i < Len(encoder(m, size[m]))
  BY <1>1, PacketFacts, CommandSizeAssumption
     DEF Command, CommandLength, EncodedCommand, CommandLetters
<1>3. FrameStacked(size, m, raw, at, i) \in Seq(FrameLetters(size))
  BY <1>2, FrameStackedFacts
<1>4. FrameStacked(size, m, raw, at, i) # << >> =>
        IF at = 0 THEN FrameStacked(size, m, raw, at, i)[1][1] = m
        ELSE \/ raw # << >> /\ FrameStacked(size, m, raw, at, i)[1] = raw[1]
             \/ FrameStacked(size, m, raw, at, i)[1][2] = at
  BY <1>2, FrameStackedFacts
<1>5. at = 0 \/ raw = SubSeq(encoder(m, size[m]), 2, at) =>
        FrameStacked(size, m, raw, at, i)
          = SubSeq(encoder(m, size[m]), 2, at + i)
  BY <1>2, FrameStackedOwn
<1>6. FrameStacked(size, m, raw, at, i) = DeviceStacked(raw, p, i)
  BY <1>1 DEF DeviceStacked
<1>7. ASSUME NEW k, OpensWith(DeviceStacked(raw, p, i), k)
      PROVE  IF p.at = 0 THEN k = p.of ELSE OpensWith(raw, k)
  <2>1. PICK T : T = DeviceStacked(raw, p, i)
    OBVIOUS
  <2>2. T # << >> /\ T[1][2] = 1 /\ T[1][1] = k
    BY <1>7, <2>1 DEF OpensWith
  <2>3. CASE at = 0
    BY <1>1, <1>4, <1>6, <2>1, <2>2, <2>3
  <2>4. CASE at # 0
    <3>1. raw # << >> /\ T[1] = raw[1]
      BY <1>2, <1>4, <1>6, <2>1, <2>2, <2>4
    <3>2. OpensWith(raw, k)
      BY <2>2, <3>1 DEF OpensWith
    <3>3. QED
      BY <1>1, <2>4, <3>2
  <2>5. QED
    BY <2>3, <2>4
<1>8. DeviceStacked(raw, p, i) \in Seq(CommandLetters)
  BY <1>1, <1>3, <1>6 DEF CommandLetters
<1>9. p.at = 0 \/ raw = SubSeq(EncodedCommand(p.of), 2, p.at) =>
        DeviceStacked(raw, p, i) = SubSeq(EncodedCommand(p.of), 2, p.at + i)
  BY <1>1, <1>5, <1>6 DEF EncodedCommand
<1>10. QED
  BY <1>7, <1>8, <1>9

(* What a packet with raw stacked up before it leaves, and what it gives.  *)
DeviceWell(d, raw, p) ==
  /\ d.raw \in Seq(CommandLetters) /\ d.got \in Seq(Command)
  /\ \A m : OpensWith(d.raw, m) => IF p.at = 0 THEN m = p.of
                                   ELSE OpensWith(raw, m) /\ d.got = << >>
  /\ \/ d.got = << >>
     \/ Len(d.got) = 1 /\ OpensWith(raw, d.got[1])
     \/ p.at = 0 /\ d.raw = << >> /\ Len(d.got) = 1 /\ d.got[1] = p.of
     \/ /\ p.at = 0 /\ d.raw = << >>
        /\ Len(d.got) = 2 /\ OpensWith(raw, d.got[1]) /\ d.got[2] = p.of
  /\ Len(p.data) > 0
       /\ (p.at = 0 \/ raw = SubSeq(EncodedCommand(p.of), 2, p.at)) =>
     IF Completes(p) THEN \E i \in 1 .. Len(d.got) : d.got[i] = p.of
                     ELSE d.raw = SubSeq(EncodedCommand(p.of), 2, End(p))

(* A packet completes at most the command that the buffer begins and, if   *)
(* it is the only packet, its own; its own in any case, if all of the      *)
(* command before the packet was there.                                    *)
LEMMA PacketDecoded ==
  ASSUME NEW p \in AnyPacket, IsPacket(p), NEW raw \in Seq(CommandLetters)
  PROVE  DeviceWell(decodeAll(raw, p.data), raw, p)
<1> DEFINE n == Len(p.data)
           L == CommandLength(p.of)
           d == DeviceAs(raw, p, n)
<1>1. decodeAll(raw, p.data) = d
  BY DeviceOnPacket
<1>2. /\ p.of \in Command /\ p.at \in Nat /\ p.at # 1 /\ n \in Nat
      /\ L \in Nat /\ L > 2 /\ End(p) = p.at + n /\ p.at + n <= L
      /\ p.at = 0 => n >= 2
      /\ Completes(p) <=> p.at + n = L
  BY PacketFacts DEF Completes
<1>3. \A r, g : Device(r, g).raw = r /\ Device(r, g).got = g
  BY DEF Device
<1>4. << >> \in Seq(Command) /\ << >> \in Seq(CommandLetters) /\ Len(<< >>) = 0
  BY EmptySeq
<1>5. \A m : ~OpensWith(<< >>, m)
  BY DEF OpensWith
<1>6. CASE n = 0
  <2>1. d = Device(raw, << >>) /\ p.at # 0
    BY <1>2, <1>6 DEF DeviceAs
  <2> HIDE DEF d, n, L
  <2>2. d.raw = raw /\ d.got = << >>
    BY <2>1, <1>3
  <2>3. ~(Len(p.data) > 0)
    BY <1>6 DEF n
  <2>4. PICK w : w = d
    OBVIOUS
  <2>5. DeviceWell(w, raw, p)
    <3>1. w.raw = raw /\ w.got = << >>
      BY <2>2, <2>4
    <3>2. w.raw \in Seq(CommandLetters) /\ w.got \in Seq(Command)
      BY <3>1, <1>4
    <3>3. \A m : OpensWith(w.raw, m) => IF p.at = 0 THEN m = p.of
                                   ELSE OpensWith(raw, m) /\ w.got = << >>
      BY <3>1, <2>1
    <3>4. QED
      BY <2>3, <3>1, <3>2, <3>3 DEF DeviceWell
  <2>6. QED
    BY <1>1, <2>4, <2>5
<1>7. CASE n # 0 /\ p.at = 0 /\ ~Completes(p)
  <2>1. n # 0 /\ p.at + n < L /\ n \in Nat
    BY <1>2, <1>7
  <2>2. d = Device(DeviceStacked(raw, p, n), Complete(raw))
    BY <1>7, <2>1, Zenon DEF DeviceAs
  <2>3. /\ DeviceStacked(raw, p, n) \in Seq(CommandLetters)
        /\ \A m : OpensWith(DeviceStacked(raw, p, n), m) => m = p.of
        /\ DeviceStacked(raw, p, n) = SubSeq(EncodedCommand(p.of), 2, p.at + n)
    BY <1>7, <2>1, DeviceStackedFacts
  <2> HIDE DEF d, n, L
  <2>4. d.raw = DeviceStacked(raw, p, n) /\ d.got = Complete(raw)
    BY <2>2, <1>3
  <2>5. /\ d.got \in Seq(Command)
        /\ d.got = << >> \/ (Len(d.got) = 1 /\ OpensWith(raw, d.got[1]))
    BY <2>4, CompleteFacts
  <2>6. QED
    BY <1>1, <1>2, <1>7, <2>3, <2>4, <2>5 DEF DeviceWell
<1>8. CASE n # 0 /\ p.at = 0 /\ Completes(p)
  <2>1. n # 0 /\ ~(p.at + n < L)
    BY <1>2, <1>8
  <2>2. d = Device(<< >>, Append(Complete(raw), p.of))
    BY <1>8, <2>1, Zenon DEF DeviceAs
  <2> HIDE DEF d, n, L
  <2>3. d.raw = << >> /\ d.got = Append(Complete(raw), p.of)
    BY <2>2, <1>3
  <2>4. PICK g : g = Complete(raw)
    OBVIOUS
  <2>5. /\ g \in Seq(Command)
        /\ g = << >> \/ (Len(g) = 1 /\ OpensWith(raw, g[1]))
    BY <2>4, CompleteFacts
  <2>6. /\ d.got \in Seq(Command) /\ Len(d.got) = Len(g) + 1
        /\ \A i \in 1 .. Len(g) : d.got[i] = g[i]
        /\ d.got[Len(g) + 1] = p.of
    BY <1>2, <2>3, <2>4, <2>5, AppendProperties
  <2>7. CASE g = << >>
    <3>1. Len(d.got) = 1 /\ d.got[1] = p.of /\ 1 \in 1 .. Len(d.got)
      BY <1>4, <2>6, <2>7
    <3>2. QED
      BY <1>1, <1>4, <1>5, <1>8, <2>3, <2>6, <3>1 DEF DeviceWell
  <2>8. CASE Len(g) = 1 /\ OpensWith(raw, g[1])
    <3>1. Len(d.got) = 2 /\ d.got[2] = p.of /\ d.got[1] = g[1]
          /\ 2 \in 1 .. Len(d.got)
      BY <2>6, <2>8
    <3>2. QED
      BY <1>1, <1>4, <1>5, <1>8, <2>3, <2>6, <2>8, <3>1 DEF DeviceWell
  <2>9. QED
    BY <2>5, <2>7, <2>8
<1>9. CASE n # 0 /\ p.at # 0 /\ ~Completes(p)
  <2>1. n # 0 /\ p.at + n < L /\ n \in Nat
    BY <1>2, <1>9
  <2>2. d = Device(DeviceStacked(raw, p, n), << >>)
    BY <1>9, <2>1, Zenon DEF DeviceAs
  <2>3. /\ DeviceStacked(raw, p, n) \in Seq(CommandLetters)
        /\ \A m : OpensWith(DeviceStacked(raw, p, n), m) => OpensWith(raw, m)
        /\ raw = SubSeq(EncodedCommand(p.of), 2, p.at) =>
             DeviceStacked(raw, p, n) = SubSeq(EncodedCommand(p.of), 2, p.at + n)
    BY <1>9, <2>1, DeviceStackedFacts
  <2> HIDE DEF d, n, L
  <2>4. d.raw = DeviceStacked(raw, p, n) /\ d.got = << >>
    BY <2>2, <1>3
  <2>5. QED
    BY <1>1, <1>2, <1>4, <1>9, <2>3, <2>4 DEF DeviceWell
<1>10. CASE n # 0 /\ p.at # 0 /\ Completes(p)
  <2>1. n # 0 /\ ~(p.at + n < L) /\ n - 1 \in Nat /\ p.at + (n - 1) < L
        /\ p.at + (n - 1) = L - 1
    BY <1>2, <1>10
  <2>2. d = Device(<< >>, Complete(DeviceStacked(raw, p, n - 1)))
    BY <1>10, <2>1, Zenon DEF DeviceAs
  <2>3. PICK i \in Nat : i = n - 1
    BY <2>1
  <2>4. PICK T : T = DeviceStacked(raw, p, i)
    OBVIOUS
  <2>5. /\ T \in Seq(CommandLetters)
        /\ \A m : OpensWith(T, m) => OpensWith(raw, m)
        /\ raw = SubSeq(EncodedCommand(p.of), 2, p.at) =>
             T = SubSeq(EncodedCommand(p.of), 2, p.at + i)
    <3>1. p.at + i < CommandLength(p.of)
      BY <2>1, <2>3
    <3>2. QED
      BY <1>10, <2>4, <3>1, DeviceStackedFacts
  <2> HIDE DEF d, n, L
  <2>6. d.raw = << >> /\ d.got = Complete(T)
    BY <2>2, <2>3, <2>4, <1>3
  <2>7. /\ d.got \in Seq(Command)
        /\ d.got = << >> \/ (Len(d.got) = 1 /\ OpensWith(raw, d.got[1]))
    BY <2>5, <2>6, CompleteFacts
  <2>8. ASSUME raw = SubSeq(EncodedCommand(p.of), 2, p.at)
        PROVE  \E j \in 1 .. Len(d.got) : d.got[j] = p.of
    <3>1. T = SubSeq(EncodedCommand(p.of), 2, CommandLength(p.of) - 1)
      BY <2>1, <2>3, <2>5, <2>8 DEF L
    <3>2. decode(T) = p.of
      BY <1>2, <3>1, StackedCommand
    <3>3. p.of # Nothing
      BY <1>2, CommandFacts DEF Nothing
    <3>4. Complete(T) # << >>
      <4>1. Len(Append(<< >>, p.of)) = Len(<< >>) + 1
        BY <1>2, <1>4, AppendProperties
      <4>2. QED
        BY <1>4, <3>2, <3>3, <4>1 DEF Complete
    <3>5. Len(Complete(T)) = 1 /\ Complete(T)[1] = p.of
      BY <2>5, <3>2, <3>4, CompleteFacts
    <3>6. 1 \in 1 .. Len(d.got) /\ d.got[1] = p.of
      BY <2>6, <3>5
    <3>7. QED
      BY <3>6
  <2>9. QED
    BY <1>1, <1>4, <1>5, <1>10, <2>6, <2>7, <2>8 DEF DeviceWell
<1>11. QED
  BY <1>6, <1>7, <1>8, <1>9, <1>10

-----------------------------------------------------------------------------
(* The steps of the writer *)

(* Before the first connection nothing was called, written or received.    *)
LEMMA WriterInitInv ==
  ASSUME WriterInit
  PROVE  WriterInv
<1>1. /\ packets = << >> /\ deviceRaw = << >> /\ received = << >>
      /\ broken = {} /\ Len(packets) = 0 /\ Len(received) = 0
      /\ \A m \in Command : call[m].state = "idle"
  BY EmptySeq DEF WriterInit
<1>2. WriterTypeOK
  <2>1. [state |-> "idle", total |-> 0, i |-> 0] \in Call
    BY DEF Call
  <2>2. call \in [Command -> Call]
    BY <2>1 DEF WriterInit
  <2>3. links \in 0 .. MaxLinks /\ refusals \in 0 .. MaxRefusals
    BY WriterBoundsAssumption DEF WriterInit
  <2>4. QED
    BY <2>2, <2>3 DEF WriterInit, WriterTypeOK
<1>3. PacketTypes
  BY <1>1, <1>2, EmptySeq DEF PacketTypes
<1>4. CallsInOrder
  BY <1>1 DEF CallsInOrder, Started
<1>5. OpenedInOrder
  BY <1>1 DEF OpenedInOrder, ReceivedInOrder, Opened, OpensWith
<1>6. WritesOn /\ WritingIsSent /\ DoneIsSent
  BY <1>1 DEF WritesOn, WritingIsSent, DoneIsSent, Writing
<1>7. PacketsFollow
  BY <1>1 DEF PacketsFollow
<1>8. QED
  BY <1>3, <1>4, <1>5, <1>6, <1>7 DEF WriterInv

(* The elements of the queues have the types of the queues.                *)
LEMMA QueueFacts ==
  ASSUME PacketTypes
  PROVE  /\ Len(packets) \in Nat /\ Len(received) \in Nat
         /\ \A j \in 1 .. Len(packets) :
              /\ packets[j] \in AnyPacket /\ IsPacket(packets[j])
              /\ packets[j].of \in Command /\ packets[j].at \in Nat
         /\ \A j \in 1 .. Len(received) : received[j] \in Command
<1>1. packets \in Seq(AnyPacket) /\ received \in Seq(Command)
      /\ \A j \in 1 .. Len(packets) : IsPacket(packets[j])
  BY DEF PacketTypes
<1>2. Len(packets) \in Nat /\ Len(received) \in Nat
  BY <1>1, LenProperties
<1>3. ASSUME NEW j \in 1 .. Len(packets)
      PROVE  packets[j] \in AnyPacket
  BY <1>1
<1>4. \A p \in AnyPacket : p.of \in Command /\ p.at \in Nat
  BY DEF AnyPacket
<1>5. \A j \in 1 .. Len(received) : received[j] \in Command
  BY <1>1
<1>6. QED
  BY <1>1, <1>2, <1>3, <1>4, <1>5

(* What the invariant is about does not change.                            *)
LEMMA WriterIdles ==
  ASSUME WriterInv, WriterTypeOK',
         UNCHANGED << mtu, call, packets, deviceRaw, received, broken >>
  PROVE  WriterInv'
<1>1. PacketTypes'
  BY DEF WriterInv, PacketTypes
<1>2. CallsInOrder'
  BY DEF WriterInv, CallsInOrder, Started
<1>3. OpenedInOrder'
  BY DEF WriterInv, OpenedInOrder, ReceivedInOrder, Opened, Started
<1>4. WritesOn'
  BY DEF WriterInv, WritesOn, Writing, payload, totalPackets
<1>5. PacketsFollow'
  BY DEF WriterInv, PacketsFollow
<1>6. WritingIsSent'
  BY DEF WriterInv, WritingIsSent, Writing, Sent, payload
<1>7. DoneIsSent'
  BY DEF WriterInv, DoneIsSent
<1>8. QED
  BY <1>1, <1>2, <1>3, <1>4, <1>5, <1>6, <1>7 DEF WriterInv

(* A link that ends or is replaced breaks every call that is not done, and *)
(* every call with a packet under way.                                     *)
LEMMA LinkGoneKeepsInv ==
  ASSUME WriterInv, WriterTypeOK', packets' = << >>,
         broken' = broken \cup Writing \cup {packets[i].of : i \in DOMAIN packets},
         UNCHANGED << call, deviceRaw, received >>
  PROVE  WriterInv'
<1>1. Len(packets') = 0 /\ packets' \in Seq(AnyPacket)
  BY EmptySeq
<1>2. packets \in Seq(AnyPacket) /\ DOMAIN packets = 1 .. Len(packets)
  BY DEF WriterInv, PacketTypes
<1>3. Writing' = Writing /\ Writing \subseteq broken'
  BY DEF Writing
<1>4. PacketTypes'
  BY <1>1 DEF WriterInv, PacketTypes
<1>5. CallsInOrder'
  BY <1>1 DEF WriterInv, CallsInOrder, Started
<1>6. OpenedInOrder'
  BY <1>1 DEF WriterInv, OpenedInOrder, ReceivedInOrder, Opened, Started
<1>7. WritesOn' /\ WritingIsSent'
  BY <1>3 DEF WritesOn, WritingIsSent
<1>8. PacketsFollow'
  BY <1>1 DEF PacketsFollow
<1>9. DoneIsSent'
  BY <1>2 DEF WriterInv, DoneIsSent
<1>10. QED
  BY <1>4, <1>5, <1>6, <1>7, <1>8, <1>9 DEF WriterInv

(* A new MTU breaks every call that still has packets to write.            *)
LEMMA NegotiatedKeepsInv ==
  ASSUME WriterInv, WriterTypeOK', Negotiated
  PROVE  WriterInv'
<1>1. CASE mtu' = mtu
  BY <1>1, WriterIdles DEF Negotiated, deviceSide
<1>2. CASE mtu' # mtu
  <2>1. /\ broken' = broken \cup Writing
        /\ UNCHANGED << call, packets, deviceRaw, received >>
    BY <1>2 DEF Negotiated, deviceSide
  <2>2. Writing' = Writing /\ Writing \subseteq broken'
    BY <2>1 DEF Writing
  <2>3. PacketTypes'
    BY <2>1 DEF WriterInv, PacketTypes
  <2>4. CallsInOrder'
    BY <2>1 DEF WriterInv, CallsInOrder, Started
  <2>5. OpenedInOrder'
    BY <2>1 DEF WriterInv, OpenedInOrder, ReceivedInOrder, Opened, Started
  <2>6. WritesOn' /\ WritingIsSent'
    BY <2>2 DEF WritesOn, WritingIsSent
  <2>7. PacketsFollow'
    BY <2>1 DEF WriterInv, PacketsFollow
  <2>8. DoneIsSent'
    BY <2>1 DEF WriterInv, DoneIsSent
  <2>9. QED
    BY <2>3, <2>4, <2>5, <2>6, <2>7, <2>8 DEF WriterInv
<1>3. QED
  BY <1>1, <1>2

(* A call that throws is over; no other call is touched.                   *)
LEMMA ThrowKeepsInv ==
  ASSUME WriterInv, WriterTypeOK', NEW m \in Command, Throw(m),
         \A k \in Command : k < m => Started(k),
         UNCHANGED << mtu, deviceRaw, received >>
  PROVE  WriterInv'
<1>1. /\ call \in [Command -> Call] /\ packets' = packets /\ broken' = broken
      /\ call' = [call EXCEPT ![m].state = "failed"]
  BY DEF WriterInv, PacketTypes, WriterTypeOK, Throw
<1>2. /\ call'[m].state = "failed"
      /\ \A k \in Command : k # m => call'[k] = call[k]
  BY <1>1 DEF Call
<1>3. \A k \in Command : Started(k)' <=> (Started(k) \/ k = m)
  BY <1>2 DEF Started
<1>4. Writing' \subseteq Writing /\ \A k \in Writing' : call'[k] = call[k]
  BY <1>2 DEF Writing
<1>5. payload' = payload /\ \A k \in Command : totalPackets(k)' = totalPackets(k)
  BY DEF payload, totalPackets
<1>6. PacketTypes'
  BY <1>1 DEF WriterInv, PacketTypes
<1>7. CallsInOrder'
  <2>1. \A j \in 1 .. Len(packets) : packets[j].of \in Command
    BY QueueFacts DEF WriterInv
  <2>2. \A j \in 1 .. Len(received) : received[j] \in Command
    BY QueueFacts DEF WriterInv
  <2>3. /\ \A a, k \in Command : k < a /\ Started(a) => Started(k)
        /\ \A j \in 1 .. Len(packets) : Started(packets[j].of)
        /\ \A j \in 1 .. Len(received) : Started(received[j])
    BY DEF WriterInv, CallsInOrder
  <2>4. \A k \in Command : Started(k) => call'[k].state # "idle"
    BY <1>2 DEF Started
  <2>5. \A a, k \in Command : k < a /\ call'[a].state # "idle"
                                => call'[k].state # "idle"
    BY <1>2, <2>3, <2>4 DEF Started
  <2>6. \A j \in 1 .. Len(packets') : call'[packets'[j].of].state # "idle"
    BY <1>1, <2>1, <2>3, <2>4
  <2>7. \A j \in 1 .. Len(received') : call'[received'[j]].state # "idle"
    BY <2>2, <2>3, <2>4
  <2>8. QED
    BY <2>5, <2>6, <2>7 DEF CallsInOrder, Started
<1>8. OpenedInOrder'
  BY <1>1, <1>3 DEF WriterInv, OpenedInOrder, ReceivedInOrder, Opened
<1>9. WritesOn'
  BY <1>1, <1>4, <1>5 DEF WriterInv, WritesOn, Writing
<1>10. PacketsFollow'
  BY <1>1 DEF WriterInv, PacketsFollow
<1>11. WritingIsSent'
  BY <1>1, <1>4, <1>5 DEF WriterInv, WritingIsSent, Sent, Writing
<1>12. DoneIsSent'
  BY <1>1, <1>2 DEF WriterInv, DoneIsSent
<1>13. QED
  BY <1>6, <1>7, <1>8, <1>9, <1>10, <1>11, <1>12 DEF WriterInv

-----------------------------------------------------------------------------
(* One packet *)

(* Without an MTU the payload is negative; with one it holds two bytes.    *)
LEMMA PayloadFacts ==
  ASSUME WriterTypeOK
  PROVE  /\ \/ mtu = 0 /\ payload = -3
            \/ payload \in Nat /\ payload >= 2
         /\ linkMtu # 0 => /\ linkMtu - BLE_ATT_HEADER_BYTES \in Nat
                           /\ linkMtu - BLE_ATT_HEADER_BYTES >= 2
<1>1. mtu \in Mtus \cup {0} /\ linkMtu \in Mtus \cup {0, DefaultMtu}
  BY DEF WriterTypeOK
<1>2. \A n \in Mtus \cup {DefaultMtu} : n \in Nat /\ n > 4
  BY MtuAssumption DEF BLE_ATT_HEADER_BYTES
<1>3. \A n \in Nat : n > 4 => n - 3 \in Nat /\ n - 3 >= 2
  OBVIOUS
<1>4. 0 - 3 = -3
  OBVIOUS
<1>5. QED
  BY ONLY <1>1, <1>2, <1>3, <1>4 DEF payload, BLE_ATT_HEADER_BYTES

(* totalPackets is 0 or less without an MTU; with one it is the number of  *)
(* payloads that the command fills, the last perhaps in part.              *)
LEMMA TotalFacts ==
  ASSUME WriterTypeOK, NEW m \in Command
  PROVE  /\ totalPackets(m) \in Int
         /\ payload < 0 => totalPackets(m) <= 0
         /\ payload > 0 =>
              /\ totalPackets(m) > 0
              /\ payload * (totalPackets(m) - 1) < CommandLength(m)
              /\ CommandLength(m) <= payload * totalPackets(m)
<1>1. PICK L, P, t : L = CommandLength(m) /\ P = payload /\ t = totalPackets(m)
  OBVIOUS
<1>2. L \in Nat /\ L > 2
  BY <1>1, CommandFacts
<1>3. t = IF P > 0 THEN (L + P - 1) \div P ELSE -(L \div (0 - P))
  BY <1>1 DEF totalPackets, CommandLength
<1>4. P = -3 \/ (P \in Nat /\ P >= 2)
  BY <1>1, PayloadFacts
<1>5. CASE P = -3
  <2>1. t = -(L \div 3)
    BY <1>3, <1>5
  <2>2. L \div 3 \in Nat
    BY <1>2, DivFacts
  <2>3. t \in Int /\ t <= 0 /\ P < 0 /\ ~(P > 0)
    BY <2>1, <2>2, <1>5
  <2>4. QED
    BY <1>1, <2>3
<1>6. CASE P \in Nat /\ P >= 2
  <2>1. t = (L + P - 1) \div P /\ L + P - 1 \in Nat /\ P \in Nat \ {0}
    BY <1>2, <1>3, <1>6
  <2>2. t \in Nat /\ P * t <= L + P - 1 /\ L + P - 1 < P * t + P
    BY <2>1, DivFacts
  <2>3. t # 0
    BY ONLY <1>2, <2>1, <2>2, <1>6
  <2>4. P * t = P * (t - 1) + P /\ P * t \in Nat /\ P * (t - 1) \in Nat
    BY <2>1, <2>2, <2>3, TimesPred
  <2>5. /\ t \in Int /\ t > 0 /\ ~(P < 0)
        /\ P * (t - 1) < L /\ L <= P * t
    BY ONLY <1>2, <1>6, <2>2, <2>3, <2>4
  <2>6. QED
    BY <1>1, <2>5
<1>7. QED
  BY <1>4, <1>5, <1>6

(* The next packet of a call whose packets stayed together begins within   *)
(* the command and is neither empty nor longer than the payload.           *)
LEMMA NextIsSized ==
  ASSUME WriterTypeOK, WritesOn, NEW m \in Writing, m \notin broken
  PROVE  LET i == call[m].i + 1
             total == call[m].total
         IN  /\ i \in Nat /\ i >= 1 /\ total \in Int /\ i <= total - 1
             /\ payload \in Nat /\ payload >= 2
             /\ From(m, total, i) = Sent(m)
             /\ Sent(m) \in Nat /\ Sent(m) >= 2 /\ Sent(m) < CommandLength(m)
             /\ Sent(m) < To(m, total, i)
             /\ To(m, total, i) - Sent(m) <= payload
             /\ To(m, total, i) \in Nat
             /\ To(m, total, i) <= CommandLength(m)
             /\ i < total - 1 => To(m, total, i) = payload * (i + 1)
<1>1. PICK L, P, i, t : /\ L = CommandLength(m) /\ P = payload
                        /\ i = call[m].i + 1 /\ t = call[m].total
  OBVIOUS
<1>2. m \in Command /\ call[m] \in Call
  BY DEF Writing, WriterTypeOK
<1>3. i \in Nat \ {0} /\ t \in Int
  BY <1>1, <1>2 DEF Call
<1>4. P > 0 /\ t = totalPackets(m) /\ call[m].i < t - 1
  BY <1>1 DEF WritesOn
<1>5. L \in Nat
  BY <1>1, <1>2, CommandFacts
<1>6. P \in Nat /\ P >= 2
  BY <1>1, <1>4, PayloadFacts
<1>7. P * (t - 1) < L /\ L <= P * t
  BY <1>1, <1>2, <1>4, TotalFacts
<1>8. i <= t - 1 /\ t - 1 \in Nat /\ t \in Nat \ {0}
  <2>1. call[m].i \in Nat
    BY <1>2 DEF Call
  <2>2. QED
    BY ONLY <1>1, <1>3, <1>4, <2>1
<1>9. P * i \in Nat /\ P * i <= P * (t - 1) /\ P * 1 <= P * i
  BY <1>3, <1>6, <1>8, TimesMonotonic
<1>10. PICK x : x = (IF i < t - 1 THEN P * (i + 1) ELSE L)
  OBVIOUS
<1>11. x \in Nat /\ P * i < x /\ x - P * i <= P /\ x <= L
       /\ (i < t - 1 => x = P * (i + 1))
  <2>1. CASE i < t - 1
    <3>1. i + 1 \in Nat \ {0} /\ i + 1 <= t - 1 /\ (i + 1) - 1 = i
      BY <1>3, <1>8, <2>1
    <3>2. P * (i + 1) = P * ((i + 1) - 1) + P /\ P * (i + 1) \in Nat
      BY <1>6, <3>1, TimesPred
    <3>3. P * (i + 1) <= P * (t - 1) /\ P * (t - 1) \in Nat
      BY <1>6, <1>8, <3>1, TimesMonotonic
    <3>4. P * (i + 1) = P * i + P
      BY <3>1, <3>2
    <3>5. QED
      BY ONLY <1>5, <1>6, <1>7, <1>9, <1>10, <2>1, <3>2, <3>3, <3>4
  <2>2. CASE ~(i < t - 1)
    <3>1. i = t - 1
      BY <1>3, <1>8, <2>2
    <3>2. P * t = P * (t - 1) + P /\ P * t \in Nat /\ P * (t - 1) \in Nat
      BY <1>6, <1>8, TimesPred
    <3>3. P * i = P * (t - 1)
      BY <3>1
    <3>4. QED
      BY ONLY <1>5, <1>6, <1>7, <1>9, <1>10, <2>2, <3>2, <3>3
  <2>3. QED
    BY <2>1, <2>2
<1>12. To(m, t, i) = x
  BY <1>1, <1>10 DEF To, CommandLength
<1>13. From(m, t, i) = P * i /\ Sent(m) = P * i
  BY <1>1 DEF From, Sent
<1>14. P * i >= 2 /\ P * i < L
  BY ONLY <1>5, <1>6, <1>7, <1>9, <1>11
<1>15. QED
  BY <1>1, <1>3, <1>6, <1>8, <1>9, <1>11, <1>12, <1>13, <1>14

(* The first packet of a call holds at least two bytes.                    *)
LEMMA FirstIsSized ==
  ASSUME WriterTypeOK, NEW m \in Command
  PROVE  LET total == totalPackets(m)
         IN  /\ total \in Int
             /\ From(m, total, 0) = 0
             /\ To(m, total, 0) \in Nat /\ To(m, total, 0) >= 2
             /\ To(m, total, 0) <= CommandLength(m)
             /\ 0 < total - 1 => payload > 0 /\ To(m, total, 0) = payload * (0 + 1)
<1>1. PICK L, P, t : L = CommandLength(m) /\ P = payload /\ t = totalPackets(m)
  OBVIOUS
<1>2. L \in Nat /\ L > 2
  BY <1>1, CommandFacts
<1>3. P = -3 \/ (P \in Nat /\ P >= 2)
  BY <1>1, PayloadFacts
<1>4. /\ t \in Int
      /\ P < 0 => t <= 0
      /\ P > 0 => P * (t - 1) < L /\ t > 0
  BY <1>1, TotalFacts
<1>5. From(m, t, 0) = 0
  BY <1>1, <1>3 DEF From
<1>6. To(m, t, 0) = IF 0 < t - 1 THEN P * (0 + 1) ELSE L
  BY <1>1 DEF To, CommandLength
<1>7. CASE 0 < t - 1
  <2>1. P \in Nat /\ P >= 2 /\ P > 0
    BY <1>3, <1>4, <1>7
  <2>2. 1 <= t - 1 /\ t - 1 \in Nat
    BY <1>4, <1>7
  <2>3. P * 1 <= P * (t - 1) /\ P * (t - 1) \in Nat
    BY <2>1, <2>2, TimesMonotonic
  <2>4. P * (0 + 1) = P /\ P * 1 = P
    BY <2>1
  <2>5. P <= L
    BY ONLY <1>2, <1>4, <2>1, <2>3, <2>4
  <2>6. QED
    BY <1>1, <1>4, <1>5, <1>6, <1>7, <2>1, <2>4, <2>5
<1>8. CASE ~(0 < t - 1)
  BY <1>1, <1>2, <1>4, <1>5, <1>6, <1>8
<1>9. QED
  BY <1>7, <1>8

(* What is written of a command, cut off where the link does not take it.  *)
LEMMA PacketShape ==
  ASSUME WriterTypeOK, NEW m \in Command, NEW total, NEW i,
         linkMtu # 0, From(m, total, i) \in Nat, To(m, total, i) \in Nat,
         InRange(m, total, i)
  PROVE  LET p == Packet(m, total, i)
         IN  /\ p \in AnyPacket /\ p.of = m /\ p.at = From(m, total, i)
             /\ Len(p.data) \in Nat
             /\ Length(m, total, i) >= 1 => Len(p.data) > 0
             /\ Length(m, total, i) >= 2 => Len(p.data) >= 2
             /\ End(p) <= CommandLength(m)
             /\ Fits(m, total, i) => End(p) = To(m, total, i)
             /\ \A j \in 1 .. Len(p.data) : p.data[j] = EncodedCommand(m)[p.at + j]
<1>1. PICK a, b, c, x, E : /\ a = From(m, total, i) /\ b = To(m, total, i)
                           /\ c = linkMtu - BLE_ATT_HEADER_BYTES
                           /\ E = EncodedCommand(m)
                           /\ x = IF b - a <= c THEN b - a ELSE c
  OBVIOUS
<1>2. c \in Nat /\ c >= 2
  BY <1>1, PayloadFacts
<1>3. a \in Nat /\ b \in Nat /\ a <= b /\ b <= CommandLength(m)
  BY <1>1 DEF InRange, CommandLength
<1>4. x \in Nat /\ a + x <= b /\ x <= c
      /\ (b - a >= 1 => x > 0) /\ (b - a >= 2 => x >= 2)
      /\ (b - a <= c => a + x = b)
  BY ONLY <1>1, <1>2, <1>3
<1>5. Length(m, total, i) = b - a
  BY <1>1 DEF Length
<1>6. Min({Length(m, total, i), c}) = x
  BY <1>1, <1>2, <1>3, <1>5, MinOfTwo
<1>7. PICK s : s = SubSeq(E, a + 1, a + x)
  OBVIOUS
<1>8. /\ s \in Seq(CommandByte) /\ Len(s) = x
      /\ \A j \in 1 .. x : s[j] = E[a + j]
  <2>1. E \in Seq(CommandByte) /\ Len(E) = CommandLength(m)
    BY <1>1, CommandBytes DEF CommandLength
  <2>2. \A j \in a + 1 .. a + x : j \in 1 .. Len(E)
    BY ONLY <1>3, <1>4, <2>1
  <2>3. \A j \in a + 1 .. a + x : E[j] \in CommandByte
    BY <2>1, <2>2, ElementOfSeq
  <2>4. /\ SubSeq(E, a + 1, a + x) \in Seq(CommandByte)
        /\ Len(SubSeq(E, a + 1, a + x)) =
             IF a + 1 <= a + x THEN (a + x) - (a + 1) + 1 ELSE 0
        /\ \A j \in 1 .. (a + x) - (a + 1) + 1 :
             SubSeq(E, a + 1, a + x)[j] = E[(a + 1) + j - 1]
    BY <1>3, <1>4, <2>3, SubSeqProperties
  <2>5. /\ (a + x) - (a + 1) + 1 = x
        /\ \A j \in 1 .. x : (a + 1) + j - 1 = a + j
        /\ (IF a + 1 <= a + x THEN (a + x) - (a + 1) + 1 ELSE 0) = x
    BY ONLY <1>3, <1>4
  <2>6. QED
    BY <1>7, <2>4, <2>5
<1>9. Packet(m, total, i) = [of |-> m, at |-> a, data |-> s]
  BY <1>1, <1>6, <1>7 DEF Packet
<1>10. PICK p : p = Packet(m, total, i)
  OBVIOUS
<1>11. p \in AnyPacket /\ p.of = m /\ p.at = a /\ p.data = s
  BY <1>3, <1>8, <1>9, <1>10 DEF AnyPacket
<1>12. End(p) = a + x
  BY <1>8, <1>11 DEF End
<1>13. Fits(m, total, i) => b - a <= c
  BY <1>1, <1>5 DEF Fits
<1>14. CommandLength(m) \in Nat
  BY CommandFacts
<1>15. a + x <= CommandLength(m)
  BY ONLY <1>3, <1>4, <1>14
<1>16. QED
  BY <1>1, <1>4, <1>5, <1>8, <1>10, <1>11, <1>12, <1>13, <1>15

(* The packets of a call that begins, and those of one that goes on.       *)
Begins(m, total, i) == i = 0 /\ ~Started(m) /\ total = totalPackets(m)
GoesOn(m, total, i) ==
  m \in Writing /\ total = call[m].total /\ i = call[m].i + 1

(* What a call writes is a packet of its command: the first one holds two  *)
(* bytes or more, and no later one begins at the delimiter or the byte     *)
(* after it.                                                               *)
LEMMA PacketIsPacket ==
  ASSUME WriterTypeOK, NEW m \in Command, NEW total, NEW i,
         Begins(m, total, i) \/ GoesOn(m, total, i),
         linkMtu # 0, InRange(m, total, i)
  PROVE  LET p == Packet(m, total, i)
         IN  /\ total \in Int /\ i \in Nat
             /\ p \in AnyPacket /\ IsPacket(p) /\ p.of = m
             /\ p.at = From(m, total, i)
             /\ p.at = 0 => Begins(m, total, i)
             /\ Begins(m, total, i) => p.at = 0 /\ Len(p.data) > 0
             /\ To(m, total, i) > From(m, total, i) => Len(p.data) > 0
             /\ Fits(m, total, i) => End(p) = To(m, total, i)
<1>1. total \in Int /\ i \in Nat
  <2>1. CASE Begins(m, total, i)
    BY <2>1, TotalFacts DEF Begins
  <2>2. CASE GoesOn(m, total, i)
    <3>1. call[m] \in Call
      BY DEF WriterTypeOK
    <3>2. call[m].i \in Nat /\ call[m].total \in Int
      BY <3>1 DEF Call
    <3>3. QED
      BY <2>2, <3>2 DEF GoesOn
  <2>3. QED
    BY <2>1, <2>2
<1>2. PICK P, a, b, L : /\ P = payload /\ L = CommandLength(m)
                        /\ a = From(m, total, i) /\ b = To(m, total, i)
  OBVIOUS
<1>3. (P = -3 \/ (P \in Nat /\ P >= 2)) /\ L \in Nat
  BY <1>2, PayloadFacts, CommandFacts
<1>4. a = P * i /\ b = IF i < total - 1 THEN P * (i + 1) ELSE L
  BY <1>2 DEF From, To, CommandLength
<1>5. 0 <= a /\ a <= b /\ b <= L
  BY <1>2 DEF InRange, CommandLength
<1>6. a \in Int /\ b \in Int /\ P \in Int
  <2>1. P \in Int /\ i + 1 \in Int
    BY <1>1, <1>3
  <2>2. P * i \in Int /\ P * (i + 1) \in Int
    BY <1>1, <2>1
  <2>3. QED
    BY <1>3, <1>4, <2>1, <2>2
<1>7. a \in Nat /\ b \in Nat
  BY ONLY <1>5, <1>6
<1>8. i # 0 => a >= 2
  <2>1. ASSUME i # 0
        PROVE  a >= 2
    <3>1. CASE P = -3
      <4>1. a = (-3) * i
        BY <1>4, <3>1
      <4>2. QED
        BY ONLY <1>1, <1>5, <2>1, <4>1
    <3>2. CASE P \in Nat /\ P >= 2
      <4>1. P * 1 <= P * i /\ P * i \in Nat /\ P * 1 \in Nat
        BY <1>1, <2>1, <3>2, TimesMonotonic
      <4>2. P * 1 = P
        BY <3>2
      <4>3. QED
        BY ONLY <1>4, <3>2, <4>1, <4>2
    <3>3. QED
      BY <1>3, <3>1, <3>2
  <2>2. QED
    BY <2>1
<1>9. Begins(m, total, i) => a = 0 /\ b >= 2
  BY <1>2, FirstIsSized DEF Begins
<1>10. GoesOn(m, total, i) => i # 0
  <2>1. call[m] \in Call
    BY DEF WriterTypeOK
  <2>2. call[m].i \in Nat
    BY <2>1 DEF Call
  <2>3. QED
    BY <2>2 DEF GoesOn
<1>11. PICK p : p = Packet(m, total, i)
  OBVIOUS
<1>12. Length(m, total, i) = b - a
  BY <1>2 DEF Length
<1>13. /\ p \in AnyPacket /\ p.of = m /\ p.at = a
       /\ Len(p.data) \in Nat
       /\ b - a >= 1 => Len(p.data) > 0
       /\ b - a >= 2 => Len(p.data) >= 2
       /\ End(p) <= L
       /\ Fits(m, total, i) => End(p) = b
       /\ \A j \in 1 .. Len(p.data) : p.data[j] = EncodedCommand(m)[p.at + j]
  BY <1>2, <1>7, <1>11, <1>12, PacketShape
<1>14. Begins(m, total, i) => a = 0 /\ Len(p.data) >= 2 /\ Len(p.data) > 0
  <2>1. ASSUME Begins(m, total, i)
        PROVE  a = 0 /\ b - a >= 2
    BY <1>7, <1>9, <2>1
  <2>2. \A n \in Nat : n >= 2 => n > 0
    OBVIOUS
  <2>3. QED
    BY <1>13, <2>1, <2>2
<1>15. a = 0 => Begins(m, total, i)
  BY <1>8, <1>10
<1>16. a # 1
  BY <1>8, <1>14, <1>15, <1>10
<1>17. IsPacket(p)
  BY <1>2, <1>13, <1>14, <1>15, <1>16 DEF IsPacket
<1>18. b > a => Len(p.data) > 0
  BY <1>7, <1>13
<1>19. QED
  BY <1>1, <1>2, <1>11, <1>13, <1>14, <1>15, <1>17, <1>18

(* A packet is passed to the link.                                         *)
LEMMA TransmitKeepsInv ==
  ASSUME WriterInv, WriterTypeOK', NEW m \in Command, NEW total, NEW i,
         Begins(m, total, i) \/ GoesOn(m, total, i),
         \A k \in Command : k < m => Started(k),
         InRange(m, total, i), Transmit(m, total, i),
         UNCHANGED << mtu, deviceRaw, received >>
  PROVE  WriterInv'
<1>1. /\ WriterTypeOK /\ PacketTypes /\ CallsInOrder /\ OpenedInOrder
      /\ WritesOn /\ PacketsFollow /\ WritingIsSent /\ DoneIsSent
  BY DEF WriterInv, PacketTypes
<1>2. PICK p : p = Packet(m, total, i)
  OBVIOUS
<1>3. linkMtu # 0
  BY DEF Transmit
<1>4. /\ total \in Int /\ i \in Nat
      /\ p \in AnyPacket /\ IsPacket(p) /\ p.of = m
      /\ p.at = From(m, total, i)
      /\ p.at = 0 => Begins(m, total, i)
      /\ Begins(m, total, i) => p.at = 0 /\ Len(p.data) > 0
      /\ To(m, total, i) > From(m, total, i) => Len(p.data) > 0
      /\ Fits(m, total, i) => End(p) = To(m, total, i)
  BY <1>1, <1>2, <1>3, PacketIsPacket
<1>5. /\ call'[m].state = IF i < total - 1 THEN "writing" ELSE "done"
      /\ call'[m].total = total /\ call'[m].i = i
      /\ \A k \in Command : k # m => call'[k] = call[k]
  BY <1>1 DEF Transmit, WriterTypeOK
<1>6. packets' = Append(packets, p)
  BY <1>2 DEF Transmit
<1>7. /\ broken \subseteq broken' /\ Writing \ {m} \subseteq broken'
      /\ m \notin broken' => Fits(m, total, i)
  BY DEF Transmit
<1>8. PICK n : n = Len(packets)
  OBVIOUS
<1>9. /\ n \in Nat /\ packets' \in Seq(AnyPacket) /\ Len(packets') = n + 1
      /\ \A j \in 1 .. n : packets'[j] = packets[j]
      /\ packets'[n + 1] = p
  BY <1>1, <1>4, <1>6, <1>8, QueueFacts, AppendProperties DEF PacketTypes
<1>10. \A j \in 1 .. n + 1 : j \in 1 .. n \/ j = n + 1
  BY <1>9
<1>11. /\ \A j \in 1 .. n : packets[j] \in AnyPacket /\ IsPacket(packets[j])
                            /\ packets[j].of \in Command
       /\ \A j \in 1 .. Len(received) : received[j] \in Command
       /\ Len(received) \in Nat
  BY <1>1, <1>8, QueueFacts
<1>12. /\ payload' = payload
       /\ \A k \in Command : totalPackets(k)' = totalPackets(k)
  BY DEF payload, totalPackets
<1>13. \A k \in Command : (call'[k].state # "idle") <=> (Started(k) \/ k = m)
  BY <1>5 DEF Started
<1>14. \A k \in Writing' \ broken' : k = m /\ i < total - 1
  BY <1>5, <1>7 DEF Writing
<1>15. PacketTypes'
  BY <1>1, <1>4, <1>8, <1>9, <1>10 DEF PacketTypes
<1>16. CallsInOrder'
  <2>1. \A a, k \in Command : k < a /\ call'[a].state # "idle"
                                => call'[k].state # "idle"
    BY <1>1, <1>13 DEF CallsInOrder
  <2>2. \A j \in 1 .. Len(packets') : call'[packets'[j].of].state # "idle"
    BY <1>1, <1>4, <1>8, <1>9, <1>10, <1>11, <1>13 DEF CallsInOrder
  <2>3. \A j \in 1 .. Len(received') : call'[received'[j]].state # "idle"
    BY <1>1, <1>11, <1>13 DEF CallsInOrder
  <2>4. QED
    BY <2>1, <2>2, <2>3 DEF CallsInOrder, Started
<1>17. OpenedInOrder'
  <2>1. \A x : x \in Command /\ Started(x) /\ ~Started(m) => x < m
    BY <1>1, CommandFacts DEF CallsInOrder
  <2>2. ASSUME p.at = 0
        PROVE  /\ \A j \in 1 .. n : packets[j].of < m
               /\ \A j \in 1 .. Len(received) : received[j] < m
               /\ \A k \in Command : Opened(k) => k < m
    BY <1>1, <1>4, <1>8, <1>11, <2>1, <2>2
       DEF Begins, CallsInOrder, OpenedInOrder
  <2>3. ReceivedInOrder'
    BY <1>1 DEF OpenedInOrder, ReceivedInOrder
  <2>4. \A k \in Command : Opened(k)' => Opened(k)
    BY DEF Opened
  <2>5. \A k \in Command : Opened(k)' =>
          Started(k)' /\ \A j \in 1 .. Len(received') : received'[j] < k
    BY <1>1, <1>13, <2>4 DEF OpenedInOrder, Started
  <2>6. ASSUME NEW j \in 1 .. Len(packets'), packets'[j].at = 0
        PROVE  /\ \A l \in 1 .. j - 1 : packets'[l].at = 0 =>
                    packets'[l].of < packets'[j].of
               /\ \A l \in 1 .. Len(received') : received'[l] < packets'[j].of
               /\ \A k \in Command : Opened(k)' => k < packets'[j].of
    <3>1. CASE j \in 1 .. n
      <4>1. packets'[j] = packets[j] /\ \A l \in 1 .. j - 1 : packets'[l] = packets[l]
        BY <1>9, <3>1
      <4>2. QED
        BY <1>1, <1>8, <2>4, <2>6, <3>1, <4>1 DEF OpenedInOrder
    <3>2. CASE j = n + 1
      <4>1. packets'[j] = p /\ \A l \in 1 .. j - 1 : l \in 1 .. n /\ packets'[l] = packets[l]
        BY <1>9, <3>2
      <4>2. QED
        BY <1>4, <2>2, <2>4, <2>6, <4>1
    <3>3. QED
      BY <1>9, <1>10, <2>6, <3>1, <3>2
  <2>7. QED
    BY <2>3, <2>5, <2>6 DEF OpenedInOrder
<1>18. GoesOn(m, total, i) /\ m \notin broken =>
         /\ payload > 0 /\ total = totalPackets(m)
         /\ From(m, total, i) = Sent(m) /\ Sent(m) > 0
         /\ To(m, total, i) > From(m, total, i)
         /\ i < total - 1 => To(m, total, i) = payload * (i + 1)
  <2>1. ASSUME GoesOn(m, total, i), m \notin broken
        PROVE  /\ payload > 0 /\ total = totalPackets(m)
               /\ From(m, total, i) = Sent(m) /\ Sent(m) > 0
               /\ To(m, total, i) > From(m, total, i)
               /\ i < total - 1 => To(m, total, i) = payload * (i + 1)
    <3>1. m \in Writing /\ total = call[m].total /\ i = call[m].i + 1
      BY <2>1 DEF GoesOn
    <3>2. /\ payload > 0 /\ total = totalPackets(m)
      BY <1>1, <2>1, <3>1 DEF WritesOn
    <3>3. /\ From(m, total, i) = Sent(m)
          /\ Sent(m) \in Nat /\ Sent(m) >= 2
          /\ Sent(m) < To(m, total, i) /\ To(m, total, i) \in Nat
          /\ i < total - 1 => To(m, total, i) = payload * (i + 1)
      BY <1>1, <2>1, <3>1, NextIsSized
    <3>4. QED
      BY <3>2, <3>3
  <2>2. QED
    BY <2>1
<1>19. Begins(m, total, i) =>
         /\ total = totalPackets(m)
         /\ i < total - 1 => payload > 0 /\ To(m, total, i) = payload * (i + 1)
  BY <1>1, FirstIsSized DEF Begins
<1>20. WritesOn'
  <2>1. ASSUME NEW k \in Writing' \ broken'
        PROVE  /\ payload' > 0
               /\ call'[k].total = totalPackets(k)'
               /\ call'[k].i < call'[k].total - 1
               /\ \A l \in Writing' \ broken' : l = k
    <3>1. k = m /\ i < total - 1 /\ m \notin broken
      BY <1>7, <1>14
    <3>2. payload > 0 /\ total = totalPackets(m)
      BY <1>18, <1>19, <3>1
    <3>3. QED
      BY <1>5, <1>12, <1>14, <3>1, <3>2
  <2>2. QED
    BY <2>1 DEF WritesOn
<1>21. PacketsFollow'
  <2>1. ASSUME NEW j \in 1 .. Len(packets'), packets'[j].of \notin broken'
        PROVE  /\ Len(packets'[j].data) > 0
               /\ packets'[j].at > 0 =>
                    IF j = 1
                    THEN deviceRaw = SubSeq(EncodedCommand(packets'[j].of), 2,
                                            packets'[j].at)
                    ELSE /\ packets'[j - 1].of = packets'[j].of
                         /\ End(packets'[j - 1]) = packets'[j].at
    <3>1. CASE j \in 1 .. n
      <4>1. packets'[j] = packets[j] /\ (j # 1 => packets'[j - 1] = packets[j - 1])
        BY <1>9, <3>1
      <4>2. QED
        BY <1>1, <1>7, <1>8, <2>1, <3>1, <4>1 DEF PacketsFollow
    <3>2. CASE j = n + 1
      <4>1. packets'[j] = p /\ p.of = m /\ m \notin broken
        BY <1>4, <1>7, <1>9, <2>1, <3>2
      <4>2. Len(p.data) > 0
        BY <1>4, <1>18, <4>1
      <4>3. ASSUME p.at > 0
            PROVE  IF j = 1
                   THEN deviceRaw = SubSeq(EncodedCommand(m), 2, p.at)
                   ELSE /\ packets'[j - 1].of = m
                        /\ End(packets'[j - 1]) = p.at
        <5>1. GoesOn(m, total, i) /\ p.at = Sent(m)
          BY <1>4, <1>18, <4>1, <4>3
        <5>2. m \in Writing \ broken
          BY <4>1, <5>1 DEF GoesOn
        <5>3. CASE n = 0
          <6>1. packets = << >> /\ j = 1
            <7>1. packets \in Seq(AnyPacket) /\ Len(packets) = 0
              BY <1>1, <1>8, <5>3 DEF PacketTypes
            <7>2. QED
              BY <3>2, <5>3, <7>1, EmptySeq
          <6>2. QED
            BY <1>1, <5>1, <5>2, <6>1 DEF WritingIsSent
        <5>4. CASE n # 0
          <6>1. packets # << >> /\ j # 1 /\ j - 1 = n /\ n \in 1 .. n
            BY <1>8, <1>9, <3>2, <5>4, EmptySeq
          <6>2. packets[n].of = m /\ End(packets[n]) = Sent(m)
            BY <1>1, <1>8, <5>2, <6>1 DEF WritingIsSent
          <6>3. QED
            BY <1>9, <5>1, <6>1, <6>2
        <5>5. QED
          BY <5>3, <5>4
      <4>4. QED
        BY <4>1, <4>2, <4>3
    <3>3. QED
      BY <1>9, <1>10, <2>1, <3>1, <3>2
  <2>2. QED
    BY <2>1 DEF PacketsFollow
<1>22. WritingIsSent'
  <2>1. ASSUME NEW k \in Writing' \ broken'
        PROVE  /\ packets' # << >>
               /\ packets'[Len(packets')].of = k
               /\ End(packets'[Len(packets')]) = payload' * (call'[k].i + 1)
    <3>1. k = m /\ i < total - 1 /\ m \notin broken /\ Fits(m, total, i)
      BY <1>7, <1>14
    <3>2. To(m, total, i) = payload * (i + 1)
      BY <1>18, <1>19, <3>1
    <3>3. packets' # << >>
      BY <1>9, EmptySeq
    <3>4. QED
      BY <1>4, <1>5, <1>9, <1>12, <3>1, <3>2, <3>3
  <2>2. QED
    BY <2>1 DEF WritingIsSent, Sent
<1>23. DoneIsSent'
  <2>1. ASSUME NEW k \in Command, call'[k].state = "done", k \notin broken'
        PROVE  \/ \E j \in 1 .. Len(received') : received'[j] = k
               \/ \E j \in 1 .. Len(packets') :
                    packets'[j].of = k /\ Completes(packets'[j])
    <3>1. CASE k = m
      <4>1. ~(i < total - 1) /\ Fits(m, total, i)
        BY <1>5, <1>7, <2>1, <3>1
      <4>2. To(m, total, i) = CommandLength(m)
        BY <4>1 DEF To, CommandLength
      <4>3. Completes(p)
        BY <1>4, <4>1, <4>2 DEF Completes
      <4>4. n + 1 \in 1 .. Len(packets')
        BY <1>9
      <4>5. QED
        BY <1>4, <1>9, <3>1, <4>3, <4>4
    <3>2. CASE k # m
      <4>1. call[k].state = "done" /\ k \notin broken
        BY <1>5, <1>7, <2>1, <3>2
      <4>2. \A j \in 1 .. n : j \in 1 .. Len(packets')
        BY <1>9
      <4>3. QED
        BY <1>1, <1>8, <1>9, <4>1, <4>2 DEF DoneIsSent
    <3>3. QED
      BY <3>1, <3>2
  <2>2. QED
    BY <2>1 DEF DoneIsSent
<1>24. QED
  BY <1>15, <1>16, <1>17, <1>20, <1>21, <1>22, <1>23 DEF WriterInv

(* What the device makes of the packet that comes to it.                   *)
LEMMA HeadDecoded ==
  ASSUME WriterInv, packets # << >>,
         NEW d, d = decodeAll(deviceRaw, Head(packets).data)
  PROVE  LET p == packets[1]
         IN  /\ p \in AnyPacket /\ IsPacket(p) /\ p.of \in Command
             /\ 1 \in 1 .. Len(packets)
             /\ DeviceWell(d, deviceRaw, p)
             /\ p.of \notin broken =>
                  IF Completes(p) THEN \E i \in 1 .. Len(d.got) : d.got[i] = p.of
                  ELSE d.raw = SubSeq(EncodedCommand(p.of), 2, End(p))
<1>1. PacketTypes /\ PacketsFollow
  BY DEF WriterInv
<1>2. packets \in Seq(AnyPacket) /\ deviceRaw \in Seq(CommandLetters)
  BY <1>1 DEF PacketTypes
<1>3. Head(packets) = packets[1] /\ 1 \in 1 .. Len(packets)
  BY <1>2, HeadTailProperties, EmptySeq, LenProperties
<1>4. PICK p : p = packets[1]
  OBVIOUS
<1>5. p \in AnyPacket /\ IsPacket(p) /\ p.of \in Command /\ p.at \in Nat
  BY <1>1, <1>3, <1>4, QueueFacts
<1>6. DeviceWell(d, deviceRaw, p)
  <2>1. DeviceWell(decodeAll(deviceRaw, p.data), deviceRaw, p)
    BY <1>2, <1>5, PacketDecoded
  <2>2. QED
    BY <1>3, <1>4, <2>1
<1>7. ASSUME p.of \notin broken
      PROVE  /\ Len(p.data) > 0
             /\ p.at = 0 \/ deviceRaw = SubSeq(EncodedCommand(p.of), 2, p.at)
  BY <1>1, <1>3, <1>4, <1>5, <1>7 DEF PacketsFollow
<1>8. QED
  BY <1>3, <1>4, <1>5, <1>6, <1>7 DEF DeviceWell

(* What is decoded was opened, or comes with its first packet.             *)
LEMMA GotFacts ==
  ASSUME NEW p, NEW raw, NEW d, DeviceWell(d, raw, p)
  PROVE  /\ d.got \in Seq(Command) /\ Len(d.got) \in Nat
         /\ \A i \in 1 .. Len(d.got) :
              OpensWith(raw, d.got[i]) \/ (p.at = 0 /\ d.got[i] = p.of)
         /\ \A i, j \in 1 .. Len(d.got) : i < j =>
              OpensWith(raw, d.got[i]) /\ p.at = 0 /\ d.got[j] = p.of
         /\ \A m : OpensWith(d.raw, m) =>
              \/ /\ p.at = 0 /\ m = p.of
                 /\ \A i \in 1 .. Len(d.got) : OpensWith(raw, d.got[i])
              \/ p.at # 0 /\ OpensWith(raw, m) /\ d.got = << >>
<1>1. d.got \in Seq(Command) /\ Len(d.got) \in Nat
  BY LenProperties DEF DeviceWell
<1>2. \A m : OpensWith(d.raw, m) => d.raw # << >>
  BY DEF OpensWith
<1>3. \A m : OpensWith(d.raw, m) => IF p.at = 0 THEN m = p.of
                                   ELSE OpensWith(raw, m) /\ d.got = << >>
  BY DEF DeviceWell
<1>4. \/ d.got = << >>
      \/ Len(d.got) = 1 /\ OpensWith(raw, d.got[1])
      \/ p.at = 0 /\ d.raw = << >> /\ Len(d.got) = 1 /\ d.got[1] = p.of
      \/ /\ p.at = 0 /\ d.raw = << >>
         /\ Len(d.got) = 2 /\ OpensWith(raw, d.got[1]) /\ d.got[2] = p.of
  BY DEF DeviceWell
<1>5. PICK g : g = d.got
  OBVIOUS
<1>6. CASE g = << >>
  <2>1. Len(g) = 0
    BY <1>6, EmptySeq
  <2>2. \A i \in 1 .. Len(g) : FALSE
    BY <2>1
  <2>3. QED
    BY <1>1, <1>3, <1>5, <1>6, <2>2
<1>7. CASE Len(g) = 1 /\ OpensWith(raw, g[1])
  <2>1. \A i \in 1 .. Len(g) : i = 1
    BY <1>7
  <2>2. \A i, j \in 1 .. Len(g) : ~(i < j)
    BY <1>7
  <2>3. \A i \in 1 .. Len(g) : OpensWith(raw, g[i])
    BY <1>7, <2>1
  <2>4. QED
    BY <1>1, <1>3, <1>5, <2>2, <2>3
<1>8. CASE p.at = 0 /\ d.raw = << >> /\ Len(g) = 1 /\ g[1] = p.of
  <2>1. \A i \in 1 .. Len(g) : i = 1
    BY <1>8
  <2>2. \A i, j \in 1 .. Len(g) : ~(i < j)
    BY <1>8
  <2>3. \A i \in 1 .. Len(g) : g[i] = p.of
    BY <1>8, <2>1
  <2>4. QED
    BY <1>1, <1>2, <1>5, <1>8, <2>2, <2>3
<1>9. CASE /\ p.at = 0 /\ d.raw = << >>
           /\ Len(g) = 2 /\ OpensWith(raw, g[1]) /\ g[2] = p.of
  <2>1. \A i \in 1 .. Len(g) : i = 1 \/ i = 2
    BY <1>9
  <2>2. \A i, j \in 1 .. Len(g) : i < j => i = 1 /\ j = 2
    BY <1>9
  <2>3. QED
    BY <1>1, <1>2, <1>5, <1>9, <2>1, <2>2
<1>10. QED
  BY <1>4, <1>5, <1>6, <1>7, <1>8, <1>9

(* The device takes a packet.                                              *)
LEMMA ReceiveKeepsInv ==
  ASSUME WriterInv, WriterTypeOK', Receive
  PROVE  WriterInv'
<1>1. /\ PacketTypes /\ CallsInOrder /\ OpenedInOrder
      /\ WritesOn /\ PacketsFollow /\ WritingIsSent /\ DoneIsSent
  BY DEF WriterInv
<1>2. /\ packets # << >> /\ packets' = Tail(packets)
      /\ UNCHANGED << mtu, call, broken >>
  BY DEF Receive, linkVars
<1>3. PICK d : /\ d = decodeAll(deviceRaw, Head(packets).data)
               /\ deviceRaw' = d.raw /\ received' = received \o d.got
  BY DEF Receive
<1>4. PICK p, n, r : p = packets[1] /\ n = Len(packets) /\ r = Len(received)
  OBVIOUS
<1>5. /\ p \in AnyPacket /\ IsPacket(p) /\ p.of \in Command
      /\ 1 \in 1 .. n
      /\ DeviceWell(d, deviceRaw, p)
      /\ p.of \notin broken =>
           IF Completes(p) THEN \E i \in 1 .. Len(d.got) : d.got[i] = p.of
           ELSE d.raw = SubSeq(EncodedCommand(p.of), 2, End(p))
  BY <1>2, <1>3, <1>4, HeadDecoded
<1>6. PICK g : g = Len(d.got)
  OBVIOUS
<1>7. /\ d.got \in Seq(Command) /\ g \in Nat
      /\ \A i \in 1 .. g : Opened(d.got[i]) \/ (p.at = 0 /\ d.got[i] = p.of)
      /\ \A i, j \in 1 .. g : i < j =>
           Opened(d.got[i]) /\ p.at = 0 /\ d.got[j] = p.of
      /\ \A m : Opened(m)' =>
           \/ /\ p.at = 0 /\ m = p.of
              /\ \A i \in 1 .. g : Opened(d.got[i])
           \/ p.at # 0 /\ Opened(m) /\ g = 0
  <2>1. Len(<< >>) = 0
    BY EmptySeq
  <2>2. PICK raw : raw = deviceRaw
    OBVIOUS
  <2>3. /\ d.got \in Seq(Command) /\ Len(d.got) \in Nat
        /\ \A i \in 1 .. Len(d.got) :
             OpensWith(raw, d.got[i]) \/ (p.at = 0 /\ d.got[i] = p.of)
        /\ \A i, j \in 1 .. Len(d.got) : i < j =>
             OpensWith(raw, d.got[i]) /\ p.at = 0 /\ d.got[j] = p.of
        /\ \A m : OpensWith(d.raw, m) =>
             \/ /\ p.at = 0 /\ m = p.of
                /\ \A i \in 1 .. Len(d.got) : OpensWith(raw, d.got[i])
             \/ p.at # 0 /\ OpensWith(raw, m) /\ d.got = << >>
    <3>1. DeviceWell(d, raw, p)
      BY <1>5, <2>2
    <3>2. QED
      BY <3>1, GotFacts
  <2>4. \A m : /\ Opened(m) <=> OpensWith(raw, m)
               /\ Opened(m)' <=> OpensWith(d.raw, m)
    BY <1>3, <2>2 DEF Opened
  <2>5. d.got = << >> => g = 0
    BY <1>6, <2>1
  <2>6. QED
    BY <1>6, <2>3, <2>4, <2>5
<1>8. /\ packets \in Seq(AnyPacket) /\ received \in Seq(Command)
      /\ n \in Nat /\ n >= 1 /\ r \in Nat
      /\ \A j \in 1 .. n : IsPacket(packets[j]) /\ packets[j] \in AnyPacket
                           /\ packets[j].of \in Command /\ packets[j].at \in Nat
      /\ \A j \in 1 .. r : received[j] \in Command
  BY <1>1, <1>4, <1>5, QueueFacts DEF PacketTypes
<1>9. /\ packets' \in Seq(AnyPacket) /\ Len(packets') = n - 1
      /\ \A j \in 1 .. n - 1 : packets'[j] = packets[j + 1]
  BY <1>2, <1>4, <1>8, HeadTailProperties
<1>10. \A j \in 1 .. n - 1 : j + 1 \in 1 .. n /\ j + 1 # 1
  BY <1>8
<1>11. /\ received' \in Seq(Command) /\ Len(received') = r + g
       /\ \A i \in 1 .. r : received'[i] = received[i]
       /\ \A i \in 1 .. g : received'[r + i] = d.got[i]
  BY <1>3, <1>4, <1>6, <1>7, <1>8, ConcatFacts
<1>12. \A i \in 1 .. r + g : i \in 1 .. r \/ \E k \in 1 .. g : i = r + k
  <2>1. ASSUME NEW i \in 1 .. r + g, i \notin 1 .. r
        PROVE  i - r \in 1 .. g /\ i = r + (i - r)
    BY <1>7, <1>8, <2>1
  <2>2. QED
    BY <2>1
<1>13. \A i \in 1 .. g : d.got[i] \in Command
  BY <1>6, <1>7
<1>14. /\ payload' = payload /\ Writing' = Writing
       /\ \A k \in Command : Started(k)' = Started(k)
       /\ \A k \in Command : totalPackets(k)' = totalPackets(k)
  BY <1>2 DEF payload, Writing, totalPackets, Started
<1>15. PacketTypes'
  <2>1. deviceRaw' \in Seq(CommandLetters)
    BY <1>3, <1>5 DEF DeviceWell
  <2>2. \A j \in 1 .. Len(packets') : IsPacket(packets'[j])
    BY <1>8, <1>9, <1>10
  <2>3. QED
    BY <1>9, <1>11, <2>1, <2>2 DEF PacketTypes
<1>16. p.at = 0 => /\ \A i \in 1 .. r : received[i] < p.of
                   /\ \A m \in Command : Opened(m) => m < p.of
                   /\ \A j \in 1 .. n : j # 1 /\ packets[j].at = 0
                                          => p.of < packets[j].of
  <2>1. ASSUME p.at = 0, NEW j \in 1 .. n, j # 1, packets[j].at = 0
        PROVE  p.of < packets[j].of
    <3>1. 1 \in 1 .. j - 1
      BY <1>8, <2>1
    <3>2. QED
      BY <1>1, <1>4, <2>1, <3>1 DEF OpenedInOrder
  <2>2. QED
    BY <1>1, <1>4, <1>5, <2>1 DEF OpenedInOrder
<1>17. \A m \in Command : Opened(m) =>
         Started(m) /\ \A i \in 1 .. r : received[i] < m
  BY <1>1, <1>4 DEF OpenedInOrder
<1>18. Started(p.of)
  BY <1>1, <1>4, <1>5 DEF CallsInOrder
<1>19. CallsInOrder'
  <2>1. \A a, k \in Command : k < a /\ Started(a) => Started(k)
    BY <1>1 DEF CallsInOrder
  <2>2. \A j \in 1 .. Len(packets') : Started(packets'[j].of)
    BY <1>1, <1>4, <1>9, <1>10 DEF CallsInOrder
  <2>3. ASSUME NEW j \in 1 .. Len(received')
        PROVE  Started(received'[j])
    <3>1. CASE j \in 1 .. r
      BY <1>1, <1>4, <1>11, <3>1 DEF CallsInOrder
    <3>2. CASE j \notin 1 .. r
      <4>1. PICK k \in 1 .. g : j = r + k
        BY <1>11, <1>12, <3>2
      <4>2. QED
        BY <1>7, <1>11, <1>13, <1>17, <1>18, <4>1
    <3>3. QED
      BY <3>1, <3>2
  <2>4. QED
    BY <1>2, <2>1, <2>2, <2>3 DEF CallsInOrder, Started
<1>20. \A i \in 1 .. r, k \in 1 .. g : received[i] < d.got[k]
  BY <1>7, <1>13, <1>16, <1>17
<1>21. OpenedInOrder'
  <2>1. ASSUME NEW i \in 1 .. r + g, NEW j \in 1 .. r + g, i < j
        PROVE  received'[i] < received'[j]
    <3>1. CASE j \in 1 .. r
      <4>1. i \in 1 .. r
        BY <1>8, <1>7, <2>1, <3>1
      <4>2. QED
        <5>1. DOMAIN received = 1 .. r
          BY <1>4, <1>8, LenProperties
        <5>2. received[i] < received[j]
          BY <1>1, <2>1, <3>1, <4>1, <5>1 DEF OpenedInOrder, ReceivedInOrder
        <5>3. QED
          BY <1>11, <3>1, <4>1, <5>2
    <3>2. CASE i \in 1 .. r /\ j \notin 1 .. r
      BY <1>11, <1>12, <1>20, <2>1, <3>2
    <3>3. CASE i \notin 1 .. r /\ j \notin 1 .. r
      <4>1. PICK k \in 1 .. g, l \in 1 .. g : i = r + k /\ j = r + l
        BY <1>12, <3>3
      <4>2. k < l
        BY <1>7, <1>8, <2>1, <4>1
      <4>3. Opened(d.got[k]) /\ p.at = 0 /\ d.got[l] = p.of
        BY <1>7, <4>2
      <4>4. QED
        BY <1>11, <1>13, <1>16, <4>1, <4>3
    <3>4. CASE i \notin 1 .. r /\ j \in 1 .. r
      BY <1>7, <1>8, <2>1, <3>4
    <3>5. QED
      BY <3>1, <3>2, <3>3, <3>4
  <2>2. ReceivedInOrder'
    <3>1. DOMAIN received' = 1 .. r + g
      BY <1>11
    <3>2. QED
      BY <2>1, <3>1 DEF ReceivedInOrder
  <2>3. ASSUME NEW m \in Command, Opened(m)'
        PROVE  /\ Started(m)'
               /\ \A i \in 1 .. Len(received') : received'[i] < m
    <3>1. \A i \in 1 .. r : received[i] < m
      BY <1>7, <1>16, <1>17, <2>3
    <3>2. \A i \in 1 .. g : d.got[i] < m
      <4>1. CASE p.at = 0 /\ m = p.of /\ \A i \in 1 .. g : Opened(d.got[i])
        BY <1>13, <1>16, <4>1
      <4>2. CASE g = 0
        BY <4>2
      <4>3. QED
        BY <1>7, <2>3, <4>1, <4>2
    <3>3. Started(m)
      BY <1>7, <1>17, <1>18, <2>3
    <3>4. QED
      BY <1>11, <1>12, <1>14, <3>1, <3>2, <3>3
  <2>4. ASSUME NEW j \in 1 .. Len(packets'), packets'[j].at = 0
        PROVE  /\ \A i \in 1 .. j - 1 : packets'[i].at = 0 =>
                    packets'[i].of < packets'[j].of
               /\ \A i \in 1 .. Len(received') : received'[i] < packets'[j].of
               /\ \A m \in Command : Opened(m)' => m < packets'[j].of
    <3>1. PICK q, k : q = packets[k] /\ k = j + 1
      OBVIOUS
    <3>2. k \in 1 .. n /\ k # 1 /\ packets'[j] = q /\ q.at = 0
      BY <1>9, <1>10, <2>4, <3>1
    <3>3. /\ \A i \in 1 .. k - 1 : packets[i].at = 0 => packets[i].of < q.of
          /\ \A i \in 1 .. r : received[i] < q.of
          /\ \A m \in Command : Opened(m) => m < q.of
      BY <1>1, <1>4, <3>1, <3>2 DEF OpenedInOrder
    <3>4. p.at = 0 => p.of < q.of
      BY <1>16, <3>1, <3>2
    <3>5. ASSUME NEW i \in 1 .. j - 1
          PROVE  packets'[i] = packets[i + 1] /\ i + 1 \in 1 .. k - 1
      <4>1. i \in 1 .. n - 1 /\ i + 1 \in 1 .. k - 1
        <5>1. Len(packets') = n - 1
          BY <1>9
        <5>2. QED
          BY ONLY <1>8, <3>1, <5>1, j \in 1 .. Len(packets'), i \in 1 .. j - 1
      <4>2. QED
        BY <1>9, <4>1
    <3>6. \A i \in 1 .. g : d.got[i] < q.of
      BY <1>7, <1>13, <3>3, <3>4
    <3>7. \A m \in Command : Opened(m)' => m < q.of
      BY <1>7, <3>3, <3>4
    <3>8. \A i \in 1 .. Len(received') : received'[i] < q.of
      BY <1>11, <1>12, <3>3, <3>6
    <3>9. QED
      BY <3>2, <3>3, <3>5, <3>7, <3>8
  <2>5. QED
    BY <2>2, <2>3, <2>4 DEF OpenedInOrder
<1>22. WritesOn'
  BY <1>1, <1>2, <1>14 DEF WritesOn, Writing
<1>23. PacketsFollow'
  <2>1. ASSUME NEW j \in 1 .. Len(packets'), packets'[j].of \notin broken'
        PROVE  /\ Len(packets'[j].data) > 0
               /\ packets'[j].at > 0 =>
                    IF j = 1
                    THEN deviceRaw' = SubSeq(EncodedCommand(packets'[j].of), 2,
                                             packets'[j].at)
                    ELSE /\ packets'[j - 1].of = packets'[j].of
                         /\ End(packets'[j - 1]) = packets'[j].at
    <3>1. PICK q, k : q = packets[k] /\ k = j + 1
      OBVIOUS
    <3>2. k \in 1 .. n /\ k # 1 /\ packets'[j] = q /\ q.of \notin broken
      BY <1>2, <1>9, <1>10, <2>1, <3>1
    <3>3. /\ Len(q.data) > 0
          /\ q.at > 0 => /\ packets[k - 1].of = q.of
                         /\ End(packets[k - 1]) = q.at
      BY <1>1, <1>4, <3>1, <3>2 DEF PacketsFollow
    <3>4. CASE j = 1
      <4>1. k - 1 = 1
        BY <3>1, <3>4
      <4>2. ASSUME q.at > 0
            PROVE  deviceRaw' = SubSeq(EncodedCommand(q.of), 2, q.at)
        <5>1. p.of = q.of /\ End(p) = q.at
          BY <1>4, <3>3, <4>1, <4>2
        <5>2. /\ End(q) = q.at + Len(q.data) /\ Len(q.data) \in Nat
              /\ End(q) <= CommandLength(q.of) /\ CommandLength(q.of) \in Nat
              /\ q.at \in Nat
          BY <1>8, <3>1, <3>2, PacketFacts
        <5>3. q.at < CommandLength(q.of)
          BY ONLY <3>3, <5>2
        <5>4. ~Completes(p)
          BY <5>1, <5>2, <5>3 DEF Completes
        <5>5. QED
          BY <1>3, <1>5, <3>2, <5>1, <5>4
      <4>3. QED
        BY <3>2, <3>3, <3>4, <4>2
    <3>5. CASE j # 1
      <4>1. j - 1 \in 1 .. n - 1 /\ (j - 1) + 1 = k - 1
        BY ONLY <1>8, <1>9, <3>1, <3>5, j \in 1 .. Len(packets')
      <4>2. packets'[j - 1] = packets[k - 1]
        BY <1>9, <4>1
      <4>3. QED
        BY <3>2, <3>3, <3>5, <4>2
    <3>6. QED
      BY <3>4, <3>5
  <2>2. QED
    BY <2>1 DEF PacketsFollow
<1>24. WritingIsSent'
  <2>1. ASSUME NEW m \in Writing, m \notin broken
        PROVE  IF packets' = << >>
               THEN deviceRaw' = SubSeq(EncodedCommand(m), 2, Sent(m))
               ELSE /\ packets'[Len(packets')].of = m
                    /\ End(packets'[Len(packets')]) = Sent(m)
    <3>1. packets[n].of = m /\ End(packets[n]) = Sent(m)
      BY <1>1, <1>2, <1>4, <2>1 DEF WritingIsSent
    <3>2. CASE packets' = << >>
      <4>1. n = 1
        BY <1>8, <1>9, <3>2, EmptySeq
      <4>2. p.of = m /\ End(p) = Sent(m)
        BY <1>4, <3>1, <4>1
      <4>3. Sent(m) < CommandLength(m) /\ Sent(m) \in Nat /\ CommandLength(m) \in Nat
        BY <1>1, <2>1, <4>2, <1>5, NextIsSized, CommandFacts DEF PacketTypes
      <4>4. ~Completes(p)
        BY <4>2, <4>3 DEF Completes
      <4>5. QED
        BY <1>3, <1>5, <2>1, <3>2, <4>2, <4>4
    <3>3. CASE packets' # << >>
      <4>1. Len(packets') \in Nat /\ Len(packets') # 0
        BY <1>9, <3>3, EmptySeq, LenProperties
      <4>2. n - 1 \in 1 .. n - 1 /\ (n - 1) + 1 = n
        BY <1>8, <1>9, <4>1
      <4>3. packets'[Len(packets')] = packets[n]
        BY <1>9, <4>2
      <4>4. QED
        BY <3>1, <3>3, <4>3
    <3>4. QED
      BY <3>2, <3>3
  <2>2. \A m \in Writing : Sent(m)' = Sent(m)
    BY <1>2, <1>14 DEF Sent
  <2>3. QED
    BY <1>2, <1>14, <2>1, <2>2 DEF WritingIsSent
<1>25. DoneIsSent'
  <2>1. ASSUME NEW m \in Command, call[m].state = "done", m \notin broken
        PROVE  \/ \E j \in 1 .. Len(received') : received'[j] = m
               \/ \E j \in 1 .. Len(packets') :
                    packets'[j].of = m /\ Completes(packets'[j])
    <3>1. CASE \E j \in 1 .. Len(received) : received[j] = m
      <4>1. PICK j \in 1 .. r : received[j] = m
        BY <1>4, <3>1
      <4>2. j \in 1 .. r + g
        BY <1>7, <1>8
      <4>3. QED
        BY <1>11, <4>1, <4>2
    <3>2. CASE \E j \in 1 .. Len(packets) :
                 packets[j].of = m /\ Completes(packets[j])
      <4>1. PICK j \in 1 .. n : packets[j].of = m /\ Completes(packets[j])
        BY <1>4, <3>2
      <4>2. CASE j = 1
        <5>1. PICK i \in 1 .. g : d.got[i] = m
          BY <1>4, <1>5, <1>6, <2>1, <4>1, <4>2
        <5>2. r + i \in 1 .. r + g
          BY <1>7, <1>8
        <5>3. QED
          BY <1>11, <5>1, <5>2
      <4>3. CASE j # 1
        <5>1. j - 1 \in 1 .. n - 1 /\ (j - 1) + 1 = j
          BY <1>8, <4>3
        <5>2. packets'[j - 1] = packets[j]
          BY <1>9, <5>1
        <5>3. QED
          BY <1>9, <4>1, <5>1, <5>2
      <4>4. QED
        BY <4>2, <4>3
    <3>3. QED
      BY <1>1, <2>1, <3>1, <3>2 DEF DoneIsSent
  <2>2. QED
    BY <1>2, <2>1 DEF DoneIsSent
<1>26. QED
  BY <1>15, <1>19, <1>21, <1>22, <1>23, <1>24, <1>25 DEF WriterInv

(* A write, the first of a call or a later one.                            *)
LEMMA WriteKeepsInv ==
  ASSUME WriterInv, NEW m \in Command, NEW total, NEW i,
         Begins(m, total, i) \/ GoesOn(m, total, i),
         \A k \in Command : k < m => Started(k),
         Write(m, total, i), unsized' \subseteq Command,
         UNCHANGED << linkVars, deviceSide >>
  PROVE  WriterInv'
<1>1. WriterTypeOK
  BY DEF WriterInv, PacketTypes
<1>2. refusals' \in 0 .. MaxRefusals
  <2>1. refusals \in 0 .. MaxRefusals /\ MaxRefusals \in Nat
    BY <1>1, WriterBoundsAssumption DEF WriterTypeOK
  <2>2. \/ refusals' = refusals
        \/ refusals < MaxRefusals /\ refusals' = refusals + 1
    BY DEF Write, Refuse, Transmit
  <2>3. QED
    BY <2>1, <2>2
<1>3. UNCHANGED << links, linkMtu, negotiating, mtu, deviceRaw, received >>
  BY DEF linkVars, deviceSide
<1>4. call \in [Command -> Call] /\ call[m] \in Call /\ broken \subseteq Command
  BY <1>1 DEF WriterTypeOK
<1>5. CASE Throw(m)
  <2>1. call' \in [Command -> Call]
    BY <1>4, <1>5 DEF Throw, Call
  <2>2. WriterTypeOK'
    BY <1>1, <1>2, <1>3, <1>5, <2>1 DEF WriterTypeOK, Throw
  <2>3. QED
    BY <1>3, <1>5, <2>2, ThrowKeepsInv
<1>6. CASE InRange(m, total, i) /\ Transmit(m, total, i)
  <2>1. total \in Int /\ i \in Nat
    BY <1>1, <1>6, PacketIsPacket DEF Transmit
  <2>2. [state |-> IF i < total - 1 THEN "writing" ELSE "done",
         total |-> total, i |-> i] \in Call
    BY <2>1 DEF Call
  <2>3. call' \in [Command -> Call]
    BY <1>4, <1>6, <2>2 DEF Transmit
  <2>4. broken' \subseteq Command
    BY <1>4, <1>6 DEF Transmit, Writing
  <2>5. WriterTypeOK'
    BY <1>1, <1>2, <1>3, <2>3, <2>4 DEF WriterTypeOK
  <2>6. QED
    BY <1>3, <1>6, <2>5, TransmitKeepsInv
<1>7. QED
  BY <1>5, <1>6 DEF Write, Refuse

(* The device takes commands in the order of the calls and each at most    *)
(* once, and knows the beginning of every command whose packets stayed     *)
(* together so far.                                                        *)
THEOREM DeviceKnowsTheFront == WriterSpec => []WriterInv
<1>1. WriterInit => WriterInv
  BY WriterInitInv
<1>2. WriterInv /\ [WriterNext]_writerVars => WriterInv'
  <2> SUFFICES ASSUME WriterInv, [WriterNext]_writerVars
               PROVE  WriterInv'
    OBVIOUS
  <2>1. WriterTypeOK /\ PacketTypes
    BY DEF WriterInv, PacketTypes
  <2>2. Writing \subseteq Command
        /\ {packets[i].of : i \in DOMAIN packets} \subseteq Command
    BY <2>1, QueueFacts DEF Writing, PacketTypes
  <2>3. CASE Connected
    <3>1. links' \in 0 .. MaxLinks
      BY <2>1, <2>3, WriterBoundsAssumption DEF Connected, WriterTypeOK
    <3>2. WriterTypeOK'
      BY <2>1, <2>2, <2>3, <3>1 DEF Connected, WriterTypeOK
    <3>3. QED
      BY <2>3, <3>2, LinkGoneKeepsInv DEF Connected, deviceSide
  <2>4. CASE Negotiated
    <3>1. WriterTypeOK'
      BY <2>1, <2>2, <2>4 DEF Negotiated, WriterTypeOK
    <3>2. QED
      BY <2>4, <3>1, NegotiatedKeepsInv
  <2>5. CASE Disconnected
    <3>1. WriterTypeOK'
      BY <2>1, <2>2, <2>5 DEF Disconnected, WriterTypeOK
    <3>2. QED
      BY <2>5, <3>1, LinkGoneKeepsInv DEF Disconnected, deviceSide
  <2>6. ASSUME NEW m \in Command, writeCborWithoutResponse(m)
        PROVE  WriterInv'
    <3>1. /\ call[m].state = "idle"
          /\ \A k \in 1 .. (m - 1) : call[k].state # "idle"
          /\ Write(m, totalPackets(m), 0)
          /\ UNCHANGED << linkVars, deviceSide >>
      BY <2>6 DEF writeCborWithoutResponse
    <3>2. Begins(m, totalPackets(m), 0)
      BY <3>1 DEF Begins, Started
    <3>3. \A k \in Command : k < m => k \in 1 .. (m - 1)
      BY CommandFacts
    <3>4. \A k \in Command : k < m => Started(k)
      BY <3>1, <3>3 DEF Started
    <3>5. unsized' \subseteq Command
      BY <2>1, <2>6 DEF writeCborWithoutResponse, WriterTypeOK
    <3>6. QED
      BY <3>1, <3>2, <3>4, <3>5, WriteKeepsInv
  <2>7. ASSUME NEW m \in Command, NextPacket(m)
        PROVE  WriterInv'
    <3>1. /\ call[m].state = "writing"
          /\ Write(m, call[m].total, call[m].i + 1)
          /\ UNCHANGED << linkVars, deviceSide >>
      BY <2>7 DEF NextPacket
    <3>2. GoesOn(m, call[m].total, call[m].i + 1)
      BY <3>1 DEF GoesOn, Writing
    <3>3. \A k \in Command : k < m => Started(k)
      BY <3>1 DEF WriterInv, CallsInOrder, Started
    <3>4. unsized' \subseteq Command
      BY <2>1, <2>7 DEF NextPacket, WriterTypeOK
    <3>5. QED
      BY <3>1, <3>2, <3>3, <3>4, WriteKeepsInv
  <2>8. CASE Receive
    <3>1. WriterTypeOK'
      BY <2>1, <2>8 DEF Receive, linkVars, WriterTypeOK
    <3>2. QED
      BY <2>8, <3>1, ReceiveKeepsInv
  <2>9. CASE UNCHANGED writerVars
    <3>1. WriterTypeOK'
      BY <2>1, <2>9 DEF writerVars, linkVars, WriterTypeOK
    <3>2. QED
      BY <2>9, <3>1, WriterIdles DEF writerVars, linkVars, deviceSide
  <2>10. QED
    BY <2>3, <2>4, <2>5, <2>6, <2>7, <2>8, <2>9 DEF WriterNext
<1>3. QED
  BY <1>1, <1>2, PTL DEF WriterSpec

-----------------------------------------------------------------------------
(* What the invariant says of the properties *)

(* The invariant implies the writer's properties.                          *)
LEMMA WriterHolds ==
  ASSUME WriterInv
  PROVE  ReceivedInOrder /\ UnbrokenIsReceived /\ SizedCallsFit
<1>1. PacketTypes /\ WriterTypeOK /\ WritesOn
  BY DEF WriterInv, PacketTypes
<1>2. DOMAIN received = 1 .. Len(received) /\ DOMAIN packets = 1 .. Len(packets)
  BY <1>1 DEF PacketTypes
<1>3. ReceivedInOrder
  BY DEF WriterInv, OpenedInOrder
<1>4. UnbrokenIsReceived
  BY <1>2 DEF WriterInv, DoneIsSent, UnbrokenIsReceived
<1>5. SizedCallsFit
  <2>1. ASSUME NEW m \in Writing, m \notin broken
        PROVE  LET c == call[m]
               IN  /\ InRange(m, c.total, c.i + 1)
                   /\ To(m, c.total, c.i + 1) - From(m, c.total, c.i + 1)
                        \in 1 .. payload
    <3>1. PICK i, total : i = call[m].i + 1 /\ total = call[m].total
      OBVIOUS
    <3>2. PICK a, b, P, L : /\ a = From(m, total, i) /\ b = To(m, total, i)
                            /\ P = payload /\ L = CommandLength(m)
      OBVIOUS
    <3>3. /\ a \in Nat /\ b \in Nat /\ P \in Nat
          /\ a < b /\ b - a <= P /\ b <= L
      BY <1>1, <2>1, <3>1, <3>2, NextIsSized
    <3>4. 0 <= a /\ a <= b /\ b - a \in 1 .. P
      BY ONLY <3>3
    <3>5. InRange(m, total, i)
      BY <3>2, <3>3, <3>4 DEF InRange, CommandLength
    <3>6. QED
      BY <3>1, <3>2, <3>4, <3>5
  <2>2. QED
    BY <2>1 DEF SizedCallsFit
<1>6. QED
  BY <1>3, <1>4, <1>5

-----------------------------------------------------------------------------
(* Both sides *)

(* The link is a writer, whatever the decoder does.                        *)
THEOREM LinkImplementsWriter == LinkSpec => WriterSpec
<1>1. LinkInit => WriterInit
  BY DEF LinkInit
<1>2. [LinkNext]_linkStateVars => [WriterNext]_writerVars
  <2> SUFFICES ASSUME [LinkNext]_linkStateVars
               PROVE  WriterNext \/ UNCHANGED writerVars
    OBVIOUS
  <2>1. CASE LinkUp \/ LinkSized \/ LinkDown
    BY <2>1 DEF LinkUp, LinkSized, LinkDown, WriterNext
  <2>2. ASSUME NEW m \in Command, Issue(m) \/ Continue(m)
        PROVE  WriterNext
    BY <2>2 DEF Issue, Continue, WriterNext
  <2>3. CASE Accept
    BY <2>3 DEF Accept, WriterNext
  <2>4. CASE Disable \/ Subscribe \/ Answer \/ Event \/ Notify \/ Drop
    BY <2>4 DEF Disable, Subscribe, Answer, Event, Notify, Drop
  <2>5. CASE UNCHANGED linkStateVars
    BY <2>5 DEF linkStateVars
  <2>6. QED
    BY <2>1, <2>2, <2>3, <2>4, <2>5 DEF LinkNext
<1>3. QED
  BY <1>1, <1>2, PTL DEF LinkSpec, WriterSpec

(* The writer's invariant holds of the link.                               *)
LEMMA LinkWrites == LinkSpec => []WriterInv
  BY LinkImplementsWriter, DeviceKnowsTheFront, PTL

(* What fits into a notification of the present link.                      *)
LEMMA LinkPayload ==
  ASSUME WriterInv, linkMtu # 0
  PROVE  linkMtu - BLE_ATT_HEADER_BYTES \in Payloads
<1>1. linkMtu \in Mtus \cup {DefaultMtu}
  BY DEF WriterInv, PacketTypes, WriterTypeOK
<1>2. QED
  BY <1>1, LinkAssumption

(* Only a stream that is held hears anything, and only while there is a    *)
(* link.                                                                   *)
StreamInv ==
  /\ subscribed \in BOOLEAN /\ listening \in BOOLEAN
  /\ listening => subscribed /\ linkMtu # 0

LEMMA LinkStreams == LinkSpec => []StreamInv
<1>1. LinkInit => StreamInv
  BY DEF LinkInit, Init, StreamInv
<1>2. StreamInv /\ [LinkNext]_linkStateVars => StreamInv'
  <2> SUFFICES ASSUME StreamInv, [LinkNext]_linkStateVars
               PROVE  StreamInv'
    OBVIOUS
  <2> USE DEF StreamInv
  <2>1. CASE UNCHANGED << subscribed, listening, linkMtu >>
    BY <2>1
  <2>2. CASE LinkUp
    BY <2>2 DEF LinkUp, vars, appVars
  <2>3. CASE LinkSized
    <3>1. linkMtu # 0 /\ UNCHANGED << subscribed, listening >>
          /\ (linkMtu' = linkMtu \/ linkMtu' \in Mtus)
      BY <2>3 DEF LinkSized, Negotiated, vars, appVars
    <3>2. \A n \in Mtus : n # 0
      BY MtuAssumption DEF BLE_ATT_HEADER_BYTES
    <3>3. QED
      BY <3>1, <3>2
  <2>4. CASE LinkDown
    BY <2>4 DEF LinkDown, LinkLost, disableNotification
  <2>5. CASE Disable
    BY <2>5 DEF Disable, disableNotification
  <2>6. CASE Subscribe
    BY <2>6 DEF Subscribe, enableNotification, vars, appVars, writerVars, linkVars
  <2>7. ASSUME NEW m \in Command, Issue(m) \/ Continue(m)
        PROVE  StreamInv'
    BY <2>1, <2>7 DEF Issue, Continue, writeCborWithoutResponse, NextPacket,
                      vars, appVars, linkVars
  <2>8. CASE Accept
    BY <2>1, <2>8 DEF Accept, Receive, vars, appVars, linkVars
  <2>9. CASE Answer \/ Event
    BY <2>1, <2>9 DEF Answer, Event, Send, writerVars, linkVars, appVars
  <2>10. CASE Notify \/ Drop
    BY <2>1, <2>10 DEF Notify, Drop, Deliver, Miss, Lose, writerVars, linkVars,
                       appVars
  <2>11. CASE UNCHANGED linkStateVars
    BY <2>1, <2>11 DEF linkStateVars, writerVars, linkVars, vars, appVars
  <2>12. QED
    BY <2>2, <2>3, <2>4, <2>5, <2>6, <2>7, <2>8, <2>9, <2>10, <2>11 DEF LinkNext
<1>3. QED
  BY <1>1, <1>2, PTL DEF LinkSpec

(* The link is a decoder, whatever the writer does: the device cuts its    *)
(* messages to what the writer's link takes.                               *)
THEOREM LinkImplementsDecoder == LinkSpec => Spec
<1>1. LinkInit => Init
  BY DEF LinkInit
<1>2. WriterInv /\ StreamInv /\ [LinkNext]_linkStateVars => [Next]_vars
  <2> SUFFICES ASSUME WriterInv, StreamInv, [LinkNext]_linkStateVars
               PROVE  Next \/ UNCHANGED vars
    OBVIOUS
  <2>1. CASE LinkUp \/ LinkSized \/ Accept
    BY <2>1 DEF LinkUp, LinkSized, Accept
  <2>2. ASSUME NEW m \in Command, Issue(m) \/ Continue(m)
        PROVE  UNCHANGED vars
    BY <2>2 DEF Issue, Continue
  <2>3. CASE LinkDown
    BY <2>3 DEF LinkDown, Next
  <2>4. CASE Subscribe
    BY <2>4 DEF Subscribe, Next
  <2>9. CASE Disable
    <3>1. CASE listening
      BY <2>9, <3>1 DEF Disable, Unsubscribe, Next
    <3>2. CASE listening = FALSE
      BY <2>9, <3>2 DEF Disable, disableNotification, vars, deviceVars, appVars
    <3>3. listening \in BOOLEAN
      BY DEF StreamInv
    <3>4. QED
      BY <3>1, <3>2, <3>3
  <2>5. CASE Answer \/ Event
    <3>1. linkMtu # 0 /\ Send(linkMtu - BLE_ATT_HEADER_BYTES)
      BY <2>5 DEF Answer, Event
    <3>2. QED
      BY <3>1, LinkPayload DEF Next
  <2>6. CASE Notify \/ Drop
    BY <2>6 DEF Notify, Drop, Next
  <2>7. CASE UNCHANGED linkStateVars
    BY <2>7 DEF linkStateVars
  <2>8. QED
    BY <2>1, <2>2, <2>3, <2>4, <2>5, <2>6, <2>7, <2>9 DEF LinkNext
<1>3. QED
  BY <1>1, <1>2, LinkWrites, LinkStreams, PTL DEF LinkSpec, Spec

(* The device's queues: it answers in the order it decoded.                *)
QueuesAreTyped ==
  /\ unanswered \in Seq(Command)
  /\ answers \in Seq(Command \cup {Nothing})
  /\ Len(answers) = sent

Took(m) == \E k \in 1 .. Len(received) : received[k] = m

QueuesFollow ==
  /\ \A i \in 1 .. Len(unanswered) : Took(unanswered[i])
  /\ \A i \in 1 .. Len(answers) : answers[i] # Nothing => Took(answers[i])
  /\ \A i, j \in 1 .. Len(unanswered) : i < j => unanswered[i] < unanswered[j]
  /\ \A i \in 1 .. Len(answers), j \in 1 .. Len(unanswered) :
       answers[i] # Nothing => answers[i] < unanswered[j]
  /\ \A i, j \in 1 .. Len(answers) :
       i < j /\ answers[i] # Nothing /\ answers[j] # Nothing
         => answers[i] < answers[j]

QueuesInv == QueuesAreTyped /\ QueuesFollow

(* At first the device has nothing to answer.                              *)
LEMMA QueuesInit ==
  ASSUME LinkInit
  PROVE  QueuesInv
<1>1. answers = << >> /\ unanswered = << >> /\ sent = 0
  BY DEF LinkInit, Init
<1>2. Len(answers) = 0 /\ Len(unanswered) = 0
  BY <1>1, EmptySeq
<1>3. QueuesAreTyped
  BY <1>1, <1>2, EmptySeq DEF QueuesAreTyped
<1>4. QueuesFollow
  BY <1>2 DEF QueuesFollow
<1>5. QED
  BY <1>3, <1>4 DEF QueuesInv

(* The device takes a packet: what it decodes is later than all it took.   *)
LEMMA AcceptKeepsQueues ==
  ASSUME QueuesInv, WriterInv, WriterInv', Accept
  PROVE  QueuesInv'
<1>1. QueuesAreTyped /\ QueuesFollow
  BY DEF QueuesInv
<1>2. /\ UNCHANGED << sent, answers >>
      /\ unanswered' =
           unanswered \o SubSeq(received', Len(received) + 1, Len(received'))
  BY DEF Accept, vars, deviceVars
<1>3. PICK d : received' = received \o d.got /\ d.got \in Seq(Command)
  <2>1. packets # << >> /\ \E d \in {decodeAll(deviceRaw, Head(packets).data)} :
                             received' = received \o d.got
    BY DEF Accept, Receive
  <2>2. PICK d : /\ d = decodeAll(deviceRaw, Head(packets).data)
                 /\ received' = received \o d.got
    BY <2>1
  <2>3. d.got \in Seq(Command)
    BY <2>1, <2>2, HeadDecoded DEF DeviceWell
  <2>4. QED
    BY <2>2, <2>3
<1>4. received \in Seq(Command) /\ received' \in Seq(Command)
      /\ ReceivedInOrder'
  BY WriterHolds DEF WriterInv, PacketTypes, OpenedInOrder
<1>5. PICK r, g, u : r = Len(received) /\ g = Len(d.got) /\ u = Len(unanswered)
  OBVIOUS
<1>6. /\ r \in Nat /\ g \in Nat /\ u \in Nat /\ Len(received') = r + g
      /\ \A i \in 1 .. r : received'[i] = received[i]
  BY <1>1, <1>3, <1>4, <1>5, ConcatFacts, LenProperties DEF QueuesAreTyped
<1>7. \A i, j \in 1 .. r + g : i < j => received'[i] < received'[j]
  <2>1. DOMAIN received' = 1 .. r + g
    BY <1>4, <1>6, LenProperties
  <2>2. QED
    BY <1>4, <2>1 DEF ReceivedInOrder
<1>8. PICK s : s = SubSeq(received', r + 1, r + g)
  OBVIOUS
<1>9. /\ s \in Seq(Command) /\ Len(s) = g
      /\ \A i \in 1 .. g : s[i] = received'[r + i]
  <2>1. \A i \in r + 1 .. r + g : i \in 1 .. Len(received')
    BY <1>6
  <2>2. \A i \in r + 1 .. r + g : received'[i] \in Command
    BY <1>4, <2>1, ElementOfSeq
  <2>3. r + 1 \in Int /\ r + g \in Int
    BY <1>6
  <2>4. /\ SubSeq(received', r + 1, r + g) \in Seq(Command)
        /\ Len(SubSeq(received', r + 1, r + g)) =
             IF r + 1 <= r + g THEN (r + g) - (r + 1) + 1 ELSE 0
        /\ \A i \in 1 .. (r + g) - (r + 1) + 1 :
             SubSeq(received', r + 1, r + g)[i] = received'[(r + 1) + i - 1]
    BY <2>2, <2>3, SubSeqProperties
  <2>5. /\ (r + g) - (r + 1) + 1 = g
        /\ (IF r + 1 <= r + g THEN (r + g) - (r + 1) + 1 ELSE 0) = g
        /\ \A i \in 1 .. g : (r + 1) + i - 1 = r + i
    BY ONLY <1>6
  <2>6. QED
    BY <1>8, <2>4, <2>5
<1>10. /\ unanswered' \in Seq(Command) /\ Len(unanswered') = u + g
       /\ \A i \in 1 .. u : unanswered'[i] = unanswered[i]
       /\ \A i \in 1 .. g : unanswered'[u + i] = received'[r + i]
  <2>1. unanswered' = unanswered \o s /\ unanswered \in Seq(Command)
    BY <1>1, <1>2, <1>5, <1>6, <1>8 DEF QueuesAreTyped
  <2>2. QED
    <3>1. /\ unanswered \o s \in Seq(Command)
          /\ Len(unanswered \o s) = Len(unanswered) + Len(s)
          /\ \A i \in 1 .. Len(unanswered) : (unanswered \o s)[i] = unanswered[i]
          /\ \A i \in 1 .. Len(s) : (unanswered \o s)[Len(unanswered) + i] = s[i]
      <4>1. PICK S, x : S = Command /\ x = unanswered
        OBVIOUS
      <4>2. x \in Seq(S) /\ s \in Seq(S)
        BY <1>9, <2>1, <4>1
      <4>3. /\ x \o s \in Seq(S)
            /\ Len(x \o s) = Len(x) + Len(s)
            /\ \A i \in 1 .. Len(x) : (x \o s)[i] = x[i]
            /\ \A i \in 1 .. Len(s) : (x \o s)[Len(x) + i] = s[i]
        BY ONLY <4>2, ConcatFacts
      <4>4. QED
        BY <4>1, <4>3
    <3>2. QED
      BY <1>5, <1>9, <2>1, <3>1
<1>11. \A i \in 1 .. u + g : i \in 1 .. u \/ \E k \in 1 .. g : i = u + k
  <2>1. ASSUME NEW i \in 1 .. u + g, i \notin 1 .. u
        PROVE  i - u \in 1 .. g /\ i = u + (i - u)
    BY <1>6, <2>1
  <2>2. QED
    BY <2>1
<1>12. \A i \in 1 .. g : r + i \in 1 .. r + g
  BY <1>6
<1>13. ASSUME NEW m, Took(m)
       PROVE  /\ \E k \in 1 .. Len(received') : received'[k] = m
              /\ \A i \in 1 .. g : m < received'[r + i]
  <2>1. PICK k \in 1 .. r : received[k] = m
    BY <1>5, <1>13 DEF Took
  <2>2. k \in 1 .. r + g /\ received'[k] = m
    BY <1>6, <2>1
  <2>3. \A i \in 1 .. g : k < r + i
    BY <1>6, <2>1
  <2>4. QED
    BY <1>6, <1>7, <1>12, <2>2, <2>3
<1>14. QueuesAreTyped'
  BY <1>1, <1>2, <1>10 DEF QueuesAreTyped
<1>15. \A i \in 1 .. Len(unanswered') :
         \E k \in 1 .. Len(received') : received'[k] = unanswered'[i]
  <2>1. ASSUME NEW i \in 1 .. u
        PROVE  \E k \in 1 .. Len(received') : received'[k] = unanswered'[i]
    BY <1>1, <1>5, <1>10, <1>13 DEF QueuesFollow
  <2>2. ASSUME NEW i \in 1 .. g
        PROVE  \E k \in 1 .. Len(received') : received'[k] = unanswered'[u + i]
    BY <1>6, <1>10, <1>12
  <2>3. QED
    BY <1>10, <1>11, <2>1, <2>2
<1>16. \A i \in 1 .. Len(answers') : answers'[i] # Nothing =>
         \E k \in 1 .. Len(received') : received'[k] = answers'[i]
  BY <1>1, <1>2, <1>13 DEF QueuesFollow
<1>17. \A i, j \in 1 .. Len(unanswered') :
         i < j => unanswered'[i] < unanswered'[j]
  <2>1. ASSUME NEW i \in 1 .. u, NEW j \in 1 .. u, i < j
        PROVE  unanswered'[i] < unanswered'[j]
    BY <1>1, <1>5, <1>10, <2>1 DEF QueuesFollow
  <2>2. ASSUME NEW i \in 1 .. u, NEW k \in 1 .. g
        PROVE  unanswered'[i] < unanswered'[u + k]
    BY <1>1, <1>5, <1>10, <1>13 DEF QueuesFollow
  <2>3. ASSUME NEW i \in 1 .. g, NEW k \in 1 .. g, u + i < u + k
        PROVE  unanswered'[u + i] < unanswered'[u + k]
    <3>1. r + i < r + k
      BY <1>6, <2>3
    <3>2. QED
      BY <1>7, <1>10, <1>12, <3>1
  <2>4. ASSUME NEW i \in 1 .. u, NEW k \in 1 .. g
        PROVE  ~(u + k < i)
    BY <1>6
  <2>5. QED
    BY <1>10, <1>11, <2>1, <2>2, <2>3, <2>4
<1>18. \A i \in 1 .. Len(answers'), j \in 1 .. Len(unanswered') :
         answers'[i] # Nothing => answers'[i] < unanswered'[j]
  <2>1. ASSUME NEW i \in 1 .. Len(answers), answers[i] # Nothing,
               NEW j \in 1 .. u
        PROVE  answers[i] < unanswered'[j]
    BY <1>1, <1>5, <1>10, <2>1 DEF QueuesFollow
  <2>2. ASSUME NEW i \in 1 .. Len(answers), answers[i] # Nothing,
               NEW k \in 1 .. g
        PROVE  answers[i] < unanswered'[u + k]
    BY <1>1, <1>10, <1>13, <2>2 DEF QueuesFollow
  <2>3. ASSUME NEW i \in 1 .. Len(answers'), answers'[i] # Nothing,
               NEW j \in 1 .. Len(unanswered')
        PROVE  answers'[i] < unanswered'[j]
    <3>1. i \in 1 .. Len(answers) /\ answers'[i] = answers[i] /\ answers[i] # Nothing
      BY <1>2, <2>3
    <3>2. j \in 1 .. u \/ \E k \in 1 .. g : j = u + k
      BY <1>10, <1>11, <2>3
    <3>3. CASE j \in 1 .. u
      BY <2>1, <3>1, <3>3
    <3>4. CASE \E k \in 1 .. g : j = u + k
      <4>1. PICK k \in 1 .. g : j = u + k
        BY <3>4
      <4>2. answers[i] < unanswered'[u + k]
        BY <2>2, <3>1
      <4>3. QED
        BY <3>1, <4>1, <4>2
    <3>5. QED
      BY <3>2, <3>3, <3>4
  <2>4. QED
    BY <2>3
<1>19. QueuesFollow'
  BY <1>1, <1>2, <1>15, <1>16, <1>17, <1>18 DEF QueuesFollow, Took
<1>20. QED
  BY <1>14, <1>19 DEF QueuesInv

(* The device sends a message: the answer to the command it has waited     *)
(* with longest, or an event.                                              *)
LEMMA SendKeepsQueues ==
  ASSUME QueuesInv, WriterInv, DecoderInv, NEW n, Send(n), received' = received,
         NEW m, answers' = Append(answers, m),
         \/ m = Nothing /\ unanswered' = unanswered
         \/ /\ unanswered # << >> /\ m = Head(unanswered)
            /\ unanswered' = Tail(unanswered)
  PROVE  QueuesInv'
<1>1. /\ unanswered \in Seq(Command) /\ answers \in Seq(Command \cup {Nothing})
      /\ Len(answers) = sent /\ QueuesFollow /\ sent' = sent + 1
  BY DEF QueuesInv, QueuesAreTyped, Send
<1>2. PICK a, u : a = Len(answers) /\ u = Len(unanswered)
  OBVIOUS
<1>3. a \in Nat /\ u \in Nat
  BY <1>1, <1>2, LenProperties
<1>4. /\ m = Nothing \/ (u >= 1 /\ m = unanswered[1] /\ m \in Command)
      /\ unanswered' \in Seq(Command)
      /\ \/ m = Nothing /\ unanswered' = unanswered /\ Len(unanswered') = u
         \/ /\ u >= 1 /\ m = unanswered[1] /\ Len(unanswered') = u - 1
            /\ \A i \in 1 .. u - 1 : unanswered'[i] = unanswered[i + 1]
  <2>1. CASE m = Nothing /\ unanswered' = unanswered
    BY <1>1, <1>2, <2>1
  <2>2. CASE /\ unanswered # << >> /\ m = Head(unanswered)
             /\ unanswered' = Tail(unanswered)
    <3>1. /\ Head(unanswered) \in Command
          /\ Tail(unanswered) \in Seq(Command)
          /\ Len(Tail(unanswered)) = Len(unanswered) - 1
          /\ \A i \in 1 .. Len(Tail(unanswered)) :
               Tail(unanswered)[i] = unanswered[i + 1]
      BY <1>1, <2>2, HeadTailProperties
    <3>2. Head(unanswered) = unanswered[1] /\ u >= 1
      BY <1>1, <1>2, <1>3, <2>2, EmptySeq
    <3>3. QED
      BY <1>2, <2>2, <3>1, <3>2
  <2>3. QED
    BY <2>1, <2>2
<1>5. /\ answers' \in Seq(Command \cup {Nothing}) /\ Len(answers') = a + 1
      /\ \A i \in 1 .. a : answers'[i] = answers[i]
      /\ answers'[a + 1] = m
  BY <1>1, <1>2, <1>4, AppendProperties
<1>6. \A i \in 1 .. a + 1 : i \in 1 .. a \/ i = a + 1
  BY <1>3
<1>7. QueuesAreTyped'
  BY <1>1, <1>2, <1>4, <1>5 DEF QueuesAreTyped
<1>8. m # Nothing => Took(m)
  <2>1. ASSUME m # Nothing
        PROVE  1 \in 1 .. u /\ m = unanswered[1]
    BY <1>3, <1>4, <2>1
  <2>2. QED
    BY <1>1, <1>2, <2>1 DEF QueuesFollow
<1>9. \A i \in 1 .. Len(answers) : answers[i] # Nothing /\ m # Nothing
                                     => answers[i] < m
  <2>1. ASSUME m # Nothing
        PROVE  1 \in 1 .. u /\ m = unanswered[1]
    BY <1>3, <1>4, <2>1
  <2>2. QED
    BY <1>1, <1>2, <2>1 DEF QueuesFollow
<1>10. ASSUME NEW j \in 1 .. Len(unanswered')
       PROVE  \E k \in 1 .. u :
                /\ unanswered'[j] = unanswered[k]
                /\ j <= k
                /\ m # Nothing => 1 < k /\ k = j + 1
                /\ m = Nothing => k = j
  <2>1. CASE m = Nothing /\ unanswered' = unanswered /\ Len(unanswered') = u
    BY <1>3, <2>1
  <2>2. CASE /\ u >= 1 /\ m = unanswered[1] /\ Len(unanswered') = u - 1
             /\ \A i \in 1 .. u - 1 : unanswered'[i] = unanswered[i + 1]
    <3>1. j \in 1 .. u - 1 /\ j + 1 \in 1 .. u /\ j <= j + 1 /\ 1 < j + 1
      BY <1>3, <2>2
    <3>2. m # Nothing
      <4>1. 1 \in 1 .. u
        BY <1>3, <2>2
      <4>2. unanswered[1] \in Command
        BY <1>1, <1>2, <4>1
      <4>3. QED
        BY <2>2, <4>2, CommandFacts DEF Nothing
    <3>3. QED
      BY <2>2, <3>1, <3>2
  <2>3. QED
    BY <1>4, <2>1, <2>2
<1>11. \A j \in 1 .. Len(unanswered') : Took(unanswered'[j])
  BY <1>1, <1>2, <1>10 DEF QueuesFollow
<1>12. \A i \in 1 .. Len(answers') : answers'[i] # Nothing => Took(answers'[i])
  BY <1>1, <1>2, <1>5, <1>6, <1>8 DEF QueuesFollow
<1>13. ASSUME NEW i \in 1 .. Len(unanswered'), NEW j \in 1 .. Len(unanswered'),
              i < j
       PROVE  unanswered'[i] < unanswered'[j]
  <2>1. PICK k \in 1 .. u, l \in 1 .. u :
          /\ unanswered'[i] = unanswered[k] /\ unanswered'[j] = unanswered[l]
          /\ (m # Nothing => k = i + 1 /\ l = j + 1)
          /\ (m = Nothing => k = i /\ l = j)
    BY <1>10
  <2>2. k < l
    BY <1>13, <2>1
  <2>3. QED
    BY <1>1, <1>2, <2>1, <2>2 DEF QueuesFollow
<1>14. ASSUME NEW i \in 1 .. Len(answers'), NEW j \in 1 .. Len(unanswered'),
              answers'[i] # Nothing
       PROVE  answers'[i] < unanswered'[j]
  <2>1. PICK k \in 1 .. u : /\ unanswered'[j] = unanswered[k]
                            /\ m # Nothing => 1 < k
    BY <1>10
  <2>2. CASE i \in 1 .. a
    BY <1>1, <1>2, <1>5, <1>14, <2>1, <2>2 DEF QueuesFollow
  <2>3. CASE i = a + 1
    <3>1. m # Nothing /\ answers'[i] = m
      BY <1>5, <1>14, <2>3
    <3>2. m = unanswered[1] /\ 1 \in 1 .. u /\ 1 < k
      BY <1>3, <1>4, <2>1, <3>1
    <3>3. unanswered[1] < unanswered[k]
      BY <1>1, <1>2, <3>2 DEF QueuesFollow
    <3>4. QED
      BY <2>1, <3>1, <3>2, <3>3
  <2>4. QED
    BY <1>5, <1>6, <1>14, <2>2, <2>3
<1>15. ASSUME NEW i \in 1 .. Len(answers'), NEW j \in 1 .. Len(answers'),
              i < j, answers'[i] # Nothing, answers'[j] # Nothing
       PROVE  answers'[i] < answers'[j]
  <2>1. CASE j \in 1 .. a
    <3>1. i \in 1 .. a
      BY <1>3, <1>5, <1>15, <2>1
    <3>2. QED
      BY <1>1, <1>2, <1>5, <1>15, <2>1, <3>1 DEF QueuesFollow
  <2>2. CASE j = a + 1
    <3>1. i \in 1 .. a
      BY <1>3, <1>5, <1>15, <2>2
    <3>2. QED
      BY <1>2, <1>5, <1>9, <1>15, <2>2, <3>1
  <2>3. QED
    BY <1>5, <1>6, <1>15, <2>1, <2>2
<1>16. QueuesFollow'
  BY <1>11, <1>12, <1>13, <1>14, <1>15 DEF QueuesFollow, Took
<1>17. QED
  BY <1>7, <1>16 DEF QueuesInv

(* The decoder's invariant holds of the link.                              *)
LEMMA LinkDecodes == LinkSpec => []DecoderInv
  BY LinkImplementsDecoder, ListenerKnowsTheFront, PTL

(* Answers are sent in the order of the commands, at most one for each,    *)
(* and only for what was decoded.                                          *)
LEMMA LinkQueues == LinkSpec => []QueuesInv
<1>1. LinkInit => QueuesInv
  BY QueuesInit
<1>2. QueuesInv /\ WriterInv /\ WriterInv' /\ DecoderInv /\ [LinkNext]_linkStateVars
        => QueuesInv'
  <2> SUFFICES ASSUME QueuesInv, WriterInv, WriterInv', DecoderInv,
                      [LinkNext]_linkStateVars
               PROVE  QueuesInv'
    OBVIOUS
  <2>1. ASSUME UNCHANGED << sent, answers, unanswered, received >>
        PROVE  QueuesInv'
    BY <2>1 DEF QueuesInv, QueuesAreTyped, QueuesFollow, Took
  <2>2. CASE LinkUp \/ LinkSized
    BY <2>1, <2>2
       DEF LinkUp, LinkSized, Connected, Negotiated, vars, deviceVars, deviceSide,
           device
  <2>3. CASE LinkDown
    <3>1. /\ unanswered' = << >> /\ Len(<< >>) = 0 /\ << >> \in Seq(Command)
          /\ UNCHANGED << sent, answers, received >>
      BY <2>3, EmptySeq DEF LinkDown, Disconnected, LinkLost,
                            disableNotification, deviceVars, deviceSide
    <3>2. QED
      BY <3>1 DEF QueuesInv, QueuesAreTyped, QueuesFollow, Took
  <2>4. CASE Disable \/ Subscribe
    BY <2>1, <2>4 DEF Disable, Subscribe, enableNotification,
                      disableNotification, vars, writerVars, deviceVars,
                      deviceSide, device
  <2>5. ASSUME NEW m \in Command, Issue(m) \/ Continue(m)
        PROVE  QueuesInv'
    BY <2>1, <2>5 DEF Issue, Continue, writeCborWithoutResponse, NextPacket,
                      vars, deviceVars, deviceSide, device
  <2>6. CASE Accept
    BY <2>6, AcceptKeepsQueues
  <2>7. CASE Answer
    <3>1. /\ unanswered # << >> /\ unanswered' = Tail(unanswered)
          /\ Send(linkMtu - BLE_ATT_HEADER_BYTES)
          /\ answers' = Append(answers, Head(unanswered))
          /\ received' = received
      BY <2>7 DEF Answer, writerVars, deviceSide
    <3>2. QED
      BY <3>1, SendKeepsQueues
  <2>8. CASE Event
    <3>1. /\ unanswered' = unanswered
          /\ Send(linkMtu - BLE_ATT_HEADER_BYTES)
          /\ answers' = Append(answers, Nothing)
          /\ received' = received
      BY <2>8 DEF Event, writerVars, deviceSide
    <3>2. QED
      BY <3>1, SendKeepsQueues
  <2>9. CASE Notify \/ Drop
    BY <2>1, <2>9 DEF Notify, Drop, Deliver, Miss, Lose, writerVars, deviceVars,
                      deviceSide, device
  <2>10. CASE UNCHANGED linkStateVars
    BY <2>1, <2>10 DEF linkStateVars, writerVars, vars, deviceVars, deviceSide,
                       device
  <2>11. QED
    BY <2>2, <2>3, <2>4, <2>5, <2>6, <2>7, <2>8, <2>9, <2>10 DEF LinkNext
<1>3. QED
  BY <1>1, <1>2, LinkWrites, LinkDecodes, PTL DEF LinkSpec

-----------------------------------------------------------------------------
(* Theorems *)

(* Writes to the device, however they mix: commands are decoded in the     *)
(* order of the calls of writeCborWithoutResponse, each at most once.      *)
THEOREM CommandsDecodedOnce == WriterSpec => []ReceivedInOrder
<1>1. WriterInv => ReceivedInOrder
  BY WriterHolds
<1>2. QED
  BY <1>1, DeviceKnowsTheFront, PTL

(* A call of writeCborWithoutResponse that ends normally has reached the   *)
(* device once its packets have, unless a packet was lost or another       *)
(* call's packet or another _mtu came between.                             *)
THEOREM UnbrokenCallsArrive == WriterSpec => []UnbrokenIsReceived
<1>1. WriterInv => UnbrokenIsReceived
  BY WriterHolds
<1>2. QED
  BY <1>1, DeviceKnowsTheFront, PTL

(* While _mtu stays what it was, the totalPackets packets of a call cut    *)
(* the command into ranges getRange accepts, none of them empty and none   *)
(* longer than the payload.                                                *)
THEOREM SizedCallsNeverThrow == WriterSpec => []SizedCallsFit
<1>1. WriterInv => SizedCallsFit
  BY WriterHolds
<1>2. QED
  BY <1>1, DeviceKnowsTheFront, PTL

(* The state of both sides keeps its types: the device has answered or     *)
(* remembers only what it has decoded.                                     *)
THEOREM LinkTypeCorrect == LinkSpec => []LinkTypeOK
<1>1. WriterInv /\ StreamInv /\ DecoderInv /\ QueuesInv => LinkTypeOK
  <2> SUFFICES ASSUME WriterInv, StreamInv, DecoderInv, QueuesInv
               PROVE  LinkTypeOK
    OBVIOUS
  <2>1. WriterTypeOK /\ TypeOK /\ Len(answers) = sent
    BY DecoderTypes DEF WriterInv, PacketTypes, QueuesInv, QueuesAreTyped
  <2>2. ToSet(unanswered) \subseteq ToSet(received)
    <3>1. unanswered \in Seq(Command) /\ received \in Seq(Command)
      BY DEF QueuesInv, QueuesAreTyped, WriterInv, PacketTypes
    <3>2. \A i \in 1 .. Len(unanswered) :
            \E k \in 1 .. Len(received) : received[k] = unanswered[i]
      BY DEF QueuesInv, QueuesFollow, Took
    <3>3. QED
      BY <3>1, <3>2 DEF ToSet
  <2>3. QED
    BY <2>1, <2>2 DEF LinkTypeOK, StreamInv
<1>2. QED
  BY <1>1, LinkWrites, LinkStreams, LinkDecodes, LinkQueues, PTL

(* On either side of any number of links, commands and messages are        *)
(* decoded in the order they were given to the other side and at most      *)
(* once, and the answers on the response stream come in the order of the   *)
(* calls.                                                                  *)
THEOREM BothSidesInOrder == LinkSpec => []DecodedInOrder
<1>1. WriterInv /\ DecoderInv /\ QueuesInv => DecodedInOrder
  <2> SUFFICES ASSUME WriterInv, DecoderInv, QueuesInv
               PROVE  DecodedInOrder
    OBVIOUS
  <2>1. ReceivedInOrder /\ HeardInOrder
    BY WriterHolds, DecoderHears
  <2>2. heard \in Seq(Message) /\ sent \in Nat /\ Len(answers) = sent
    BY SizeAssumption, LenProperties
       DEF DecoderInv, Types, QueuesInv, QueuesAreTyped
  <2>3. \A j \in 1 .. Len(heard) : heard[j] < FrontOf(air, sent)
    BY DEF DecoderInv, ListenerInv, HeardBefore
  <2>4. FrontOf(air, sent) <= sent + 1 /\ FrontOf(air, sent) \in Nat
    <3>1. InOrder(air, sent)
      BY DEF DecoderInv
    <3>2. CASE air = << >>
      BY <2>2, <3>2 DEF FrontOf
    <3>3. CASE air # << >>
      <4>1. air \in Seq(Notification)
            /\ \A i \in 1 .. Len(air) : air[i].of <= sent
        BY <3>1 DEF InOrder
      <4>2. 1 \in 1 .. Len(air)
        BY <3>3, <4>1, EmptySeq, LenProperties
      <4>3. air[1].of \in Message /\ air[1].of <= sent
        <5>1. air[1] \in Notification
          BY <4>1, <4>2, ElementOfSeq
        <5>2. QED
          BY <4>1, <4>2, <5>1 DEF Notification
      <4>4. FrontOf(air, sent) = air[1].of /\ air[1].of \in Nat
        BY <3>3, <4>3, MessageFacts DEF FrontOf
      <4>5. QED
        BY <2>2, <4>3, <4>4
    <3>4. QED
      BY <3>2, <3>3
  <2>5. ASSUME NEW j \in 1 .. Len(heard)
        PROVE  heard[j] \in 1 .. Len(answers)
    <3>1. heard[j] \in Nat /\ heard[j] >= 1
      BY <2>2, MessageFacts
    <3>2. QED
      BY <2>2, <2>3, <2>4, <3>1
  <2>6. DOMAIN heard = 1 .. Len(heard)
    BY <2>2
  <2>7. AnswersInOrder
    <3>1. ASSUME NEW i \in 1 .. Len(heard), NEW j \in 1 .. Len(heard), i < j,
                 answers[heard[i]] # Nothing, answers[heard[j]] # Nothing
          PROVE  answers[heard[i]] < answers[heard[j]]
      <4>1. heard[i] < heard[j]
        BY <2>1, <2>6, <3>1 DEF HeardInOrder
      <4>2. QED
        BY <2>5, <3>1, <4>1 DEF QueuesInv, QueuesFollow
    <3>2. QED
      BY <2>6, <3>1 DEF AnswersInOrder
  <2>8. QED
    BY <2>1, <2>7 DEF DecodedInOrder
<1>2. QED
  BY <1>1, LinkWrites, LinkDecodes, LinkQueues, PTL

(* What is proved of each side by itself holds of the link.                *)
THEOREM LinkKeepsPromises ==
  LinkSpec => [](UnbrokenIsReceived /\ SizedCallsFit /\ ArrivedIsHeard /\ BytesAreOwn)
<1>1. WriterInv => UnbrokenIsReceived /\ SizedCallsFit
  BY WriterHolds
<1>2. DecoderInv => ArrivedIsHeard /\ BytesAreOwn
  BY DecoderHears
<1>3. QED
  BY <1>1, <1>2, LinkWrites, LinkDecodes, PTL

=============================================================================
