----------------------------- MODULE CommandWriter -----------------------------
(***************************************************************************)
(* From commands to packets: writeCborWithoutResponse, which the command   *)
(* functions of BleSopepInteractor call without awaiting it.               *)
(*                                                                         *)
(* A call fixes the number of its packets when it starts, but awaits every *)
(* write but the last and reads the shared field _mtu anew for each        *)
(* packet.  Meanwhile other calls write their packets, and a new           *)
(* connection clears _mtu and negotiates another one.                      *)
(*                                                                         *)
(* The device is external: it stacks up bytes until a delimiter as the app *)
(* does.  Calls are numbered in the order they are made.                   *)
(***************************************************************************)
EXTENDS Frames

CONSTANTS
  CommandSize,  \* the length of the body of each command, in bytes
  DefaultMtu,   \* the ATT MTU of a link before it is negotiated
  Mtus,         \* the sizes requestMtu may answer
  MaxLinks,     \* bound: number of connections
  MaxRefusals   \* bound: writes that throw though there is a link

BLE_ATT_HEADER_BYTES == 3

Command == DOMAIN CommandSize
EncodedCommand(m) == encoder(m, CommandSize[m])

ASSUME CommandSizeAssumption == CommandSize \in Seq(Nat \ {0})
(* An ATT MTU is never below 23.  That a payload holds two bytes, the      *)
(* delimiter and one byte of the body, is enough.                          *)
ASSUME MtuAssumption ==
  \A n \in Mtus \cup {DefaultMtu} : n \in Nat /\ n > BLE_ATT_HEADER_BYTES + 1
ASSUME WriterBoundsAssumption == MaxLinks \in Nat /\ MaxRefusals \in Nat

VARIABLES
  links,       \* number of connections so far
  linkMtu,     \* the ATT MTU of the present link, 0 without one
  negotiating, \* requestMtu is pending
  mtu,         \* _mtu
  call,        \* per call: its state, totalPackets and i
  packets,     \* packets on their way to the device
  deviceRaw,   \* device: bytes stacked up since the last delimiter
  received,    \* device: the commands decoded
  broken,      \* history: calls with a packet lost, or another call's
               \* packet or a change of _mtu between their own packets
  unsized,     \* history: calls begun while _mtu was 0
  refusals     \* use of the bound

linkVars == << links, linkMtu, negotiating, mtu >>
deviceSide == << deviceRaw, received >>
writerVars == << linkVars, call, packets, deviceSide, broken, unsized, refusals >>

Call == [state : {"idle", "writing", "done", "failed"}, total : Int, i : Nat]

WriterTypeOK ==
  /\ links \in 0 .. MaxLinks
  /\ linkMtu \in Mtus \cup {0, DefaultMtu}
  /\ negotiating \in BOOLEAN
  /\ mtu \in Mtus \cup {0}
  /\ call \in [Command -> Call]
  /\ broken \subseteq Command
  /\ unsized \subseteq Command
  /\ refusals \in 0 .. MaxRefusals

WriterInit ==
  /\ links = 0
  /\ linkMtu = 0
  /\ negotiating = FALSE
  /\ mtu = 0
  /\ call = [m \in Command |-> [state |-> "idle", total |-> 0, i |-> 0]]
  /\ packets = << >>
  /\ deviceRaw = << >>
  /\ received = << >>
  /\ broken = {}
  /\ unsized = {}
  /\ refusals = 0

Writing == {m \in Command : call[m].state = "writing"}

-----------------------------------------------------------------------------
(* Connections *)

(* A link comes up in place of the one before; getMtuSize clears _mtu and  *)
(* asks.  What was under way is lost.                                      *)
Connected ==
  /\ links < MaxLinks
  /\ links' = links + 1
  /\ linkMtu' = DefaultMtu
  /\ negotiating' = TRUE
  /\ mtu' = 0
  /\ packets' = << >>
  /\ broken' = broken \cup Writing \cup {packets[i].of : i \in DOMAIN packets}
  /\ UNCHANGED << call, deviceSide, unsized, refusals >>

(* requestMtu answers, or throws and leaves _mtu at 0.                     *)
Negotiated ==
  /\ negotiating
  /\ linkMtu # 0
  /\ negotiating' = FALSE
  /\ \/ \E n \in Mtus : mtu' = n /\ linkMtu' = n
     \/ UNCHANGED << mtu, linkMtu >>
  /\ broken' = IF mtu' = mtu THEN broken ELSE broken \cup Writing
  /\ UNCHANGED << links, call, packets, deviceSide, unsized, refusals >>

Disconnected ==
  /\ linkMtu # 0
  /\ linkMtu' = 0
  /\ packets' = << >>
  /\ broken' = broken \cup Writing \cup {packets[i].of : i \in DOMAIN packets}
  /\ UNCHANGED << links, negotiating, mtu, call, deviceSide, unsized, refusals >>

-----------------------------------------------------------------------------
(* The packets of call m *)

payload == mtu - BLE_ATT_HEADER_BYTES

(* Mutant: the number of packets is rounded down.                          *)
totalPackets_Floor(m) == Len(EncodedCommand(m)) \div payload

(* (encoded.length / payload).ceil(); a negative payload gives 0 or less.  *)
totalPackets(m) ==
  LET length == Len(EncodedCommand(m))
  IN  IF payload > 0 THEN (length + payload - 1) \div payload
                     ELSE -(length \div (0 - payload))

(* Mutant: the last packet starts one packet late.                         *)
From_Late(m, total, i) == IF i = total - 1 THEN payload * i + 1 ELSE payload * i

From(m, total, i) == payload * i

To(m, total, i) ==
  IF i < total - 1 THEN payload * (i + 1) ELSE Len(EncodedCommand(m))

(* getRange checks its arguments.                                          *)
InRange(m, total, i) ==
  0 <= From(m, total, i) /\ From(m, total, i) <= To(m, total, i)
    /\ To(m, total, i) <= Len(EncodedCommand(m))

Length(m, total, i) == To(m, total, i) - From(m, total, i)
Fits(m, total, i) == Length(m, total, i) <= linkMtu - BLE_ATT_HEADER_BYTES

(* What the link takes: a packet that does not fit into its MTU is cut off.*)
(* `at` bytes of the command come before the packet.                       *)
Packet(m, total, i) ==
  [of |-> m,
   at |-> From(m, total, i),
   data |-> SubSeq(EncodedCommand(m), From(m, total, i) + 1,
                   From(m, total, i) + Min({Length(m, total, i),
                                            linkMtu - BLE_ATT_HEADER_BYTES}))]

(* Mutant: a command that failed is written again.                         *)
Throw_Retries(m) ==
  /\ call' = [call EXCEPT ![m].state = "idle"]
  /\ UNCHANGED << packets, broken >>

(* The call ends: an Exception is caught and printed, an Error is not.     *)
Throw(m) ==
  /\ call' = [call EXCEPT ![m].state = "failed"]
  /\ UNCHANGED << packets, broken >>

(* The plugin throws without a link, when the packet does not fit, or when *)
(* its queue is full.                                                      *)
Refuse(m, total, i) ==
  \/ /\ linkMtu = 0 \/ ~Fits(m, total, i)
     /\ Throw(m)
     /\ UNCHANGED refusals
  \/ /\ linkMtu # 0
     /\ refusals < MaxRefusals
     /\ refusals' = refusals + 1
     /\ Throw(m)

Transmit(m, total, i) ==
  /\ linkMtu # 0
  /\ call' = [call EXCEPT ![m] =
                [state |-> IF i < total - 1 THEN "writing" ELSE "done",
                 total |-> total, i |-> i]]
  /\ packets' = Append(packets, Packet(m, total, i))
  /\ broken' = broken \cup (Writing \ {m})
                      \cup (IF Fits(m, total, i) THEN {} ELSE {m})
  /\ UNCHANGED refusals

(* The write of one packet.                                                *)
Write(m, total, i) ==
  \/ ~InRange(m, total, i) /\ Throw(m) /\ UNCHANGED refusals
  \/ InRange(m, total, i) /\ Refuse(m, total, i)
  \/ InRange(m, total, i) /\ Transmit(m, total, i)

(* A command function is called: the first packet is written at once.      *)
writeCborWithoutResponse(m) ==
  /\ call[m].state = "idle"
  /\ \A k \in 1 .. (m - 1) : call[k].state # "idle"
  /\ links > 0
  /\ Write(m, totalPackets(m), 0)
  /\ unsized' = IF mtu = 0 THEN unsized \cup {m} ELSE unsized
  /\ UNCHANGED << linkVars, deviceSide >>

(* The awaited write of the packet before completes.                       *)
NextPacket(m) ==
  /\ call[m].state = "writing"
  /\ Write(m, call[m].total, call[m].i + 1)
  /\ UNCHANGED << linkVars, deviceSide, unsized >>

-----------------------------------------------------------------------------
(* The device *)

deviceByte(s, byte) ==
  IF byte # Delimiter THEN [s EXCEPT !.raw = Append(@, byte)]
  ELSE [raw |-> << >>,
        got |-> IF decode(s.raw) = Nothing THEN s.got
                ELSE Append(s.got, decode(s.raw))]

(* All messages that the bytes of data complete.                           *)
decodeAll(raw, data) ==
  LET turn[i \in 0 .. Len(data)] ==
        IF i = 0 THEN [raw |-> raw, got |-> << >>]
                 ELSE deviceByte(turn[i - 1], data[i])
  IN  turn[Len(data)]

Receive ==
  /\ packets # << >>
  /\ packets' = Tail(packets)
  /\ \E d \in {decodeAll(deviceRaw, Head(packets).data)} :
       deviceRaw' = d.raw /\ received' = received \o d.got
  /\ UNCHANGED << linkVars, call, broken, unsized, refusals >>

-----------------------------------------------------------------------------
WriterNext ==
  \/ Connected \/ Negotiated \/ Disconnected
  \/ \E m \in Command : writeCborWithoutResponse(m) \/ NextPacket(m)
  \/ Receive

WriterSpec == WriterInit /\ [][WriterNext]_writerVars

-----------------------------------------------------------------------------
(* Properties *)

(* The device decodes commands in the order of the calls and each at most  *)
(* once, however the packets of several calls and several links mix.       *)
ReceivedInOrder ==
  \A i, j \in DOMAIN received : i < j => received[i] < received[j]

(* A call that ends normally has reached the device once its packets have, *)
(* unless another call's packet or another MTU came between its packets,   *)
(* or a packet was lost.  Packets of a call that was broken do not spoil   *)
(* the next one; a command of one packet is spoilt by no other.            *)
UnbrokenIsReceived ==
  \A m \in Command :
    call[m].state = "done" /\ m \notin broken =>
      \/ \E i \in DOMAIN received : received[i] = m
      \/ \E i \in DOMAIN packets : packets[i].of = m

(* BLE-Protocol.pdf, page 1, chunks of at most the link's MTU - 3: so it   *)
(* is for every call begun with a negotiated MTU that did not change, and  *)
(* getRange never throws in such a call: it only fails when the plugin     *)
(* does.                                                                   *)
SizedCallsFit ==
  \A m \in Writing \ (broken \cup unsized) :
    LET c == call[m] IN
    linkMtu = mtu /\ mtu # 0 =>
      /\ InRange(m, c.total, c.i + 1)
      /\ To(m, c.total, c.i + 1) - From(m, c.total, c.i + 1) \in 1 .. payload

=============================================================================
