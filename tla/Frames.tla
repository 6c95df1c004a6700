-------------------------------- MODULE Frames --------------------------------
(***************************************************************************)
(* What EncoderDecoder makes of messages and bytes.  A message is encoded  *)
(* as a delimiter (the byte 0), its COBS body (no byte of which is 0) and  *)
(* a delimiter; both ends stack up bytes until a delimiter and decode what *)
(* they have.  CBOR, COBS and CRC32C are abstracted to their effect: a     *)
(* buffer decodes to a message exactly when it is that message's body.     *)
(*                                                                         *)
(* Messages are numbered, from 1, in the order they are sent.              *)
(***************************************************************************)
EXTENDS Integers, SequencesExt

Nothing == 0       \* in place of a message

(* The body of message m, of n bytes.  A byte other than the delimiter is  *)
(* << message, position, length of the message's body >>.                  *)
Delimiter == << >>
Body(m, n) == [i \in 1 .. n |-> << m, i, n >>]
encoder(m, n) == << Delimiter >> \o Body(m, n) \o << Delimiter >>

decode(raw) ==
  IF raw # << >> /\ raw = Body(raw[1][1], raw[1][3]) THEN raw[1][1]
                                                     ELSE Nothing

(* The pieces of at most n bytes that s is cut into.                       *)
Chunks(s, n) ==
  [i \in 1 .. (Len(s) + n - 1) \div n |->
     SubSeq(s, n * (i - 1) + 1, Min({n * i, Len(s)}))]

(* Mutant: a buffer that does not decode is kept.                          *)
decodeByte_KeepsBad(brittle, s, byte) ==
  IF s.thrown \/ (byte = Delimiter /\ s.raw = << >>) THEN s
  ELSE IF byte # Delimiter THEN [s EXCEPT !.raw = Append(@, byte)]
  ELSE IF s.raw \in brittle THEN [s EXCEPT !.thrown = TRUE]
  ELSE [raw |-> IF decode(s.raw) = Nothing THEN s.raw ELSE << >>,
        map |-> decode(s.raw), thrown |-> FALSE]

(* Mutant: delimiters are stacked up, too, while the buffer is empty.      *)
decodeByte_StacksAll(brittle, s, byte) ==
  IF s.thrown THEN s
  ELSE IF byte # Delimiter \/ s.raw = << >>
  THEN [s EXCEPT !.raw = Append(@, byte)]
  ELSE IF s.raw \in brittle THEN [s EXCEPT !.thrown = TRUE]
  ELSE [raw |-> << >>, map |-> decode(s.raw), thrown |-> FALSE]

(* One turn of decoder's loop.  A buffer in `brittle` passes COBS but      *)
(* yields less than the four bytes of a CRC: decode's index error ends     *)
(* the loop before _dataRaw is cleared.                                    *)
decodeByte(brittle, s, byte) ==
  IF s.thrown \/ (byte = Delimiter /\ s.raw = << >>) THEN s
  ELSE IF byte # Delimiter THEN [s EXCEPT !.raw = Append(@, byte)]
  ELSE IF s.raw \in brittle THEN [s EXCEPT !.thrown = TRUE]
  ELSE [raw |-> << >>, map |-> decode(s.raw), thrown |-> FALSE]

(* decoder(data) with _dataRaw = raw: the buffer it leaves, the last       *)
(* message it decoded, and whether it threw.                               *)
decoder(brittle, raw, data) ==
  LET turn[i \in 0 .. Len(data)] ==
        IF i = 0 THEN [raw |-> raw, map |-> Nothing, thrown |-> FALSE]
                 ELSE decodeByte(brittle, turn[i - 1], data[i])
  IN  turn[Len(data)]

=============================================================================
