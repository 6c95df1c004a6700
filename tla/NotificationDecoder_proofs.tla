----------------------- MODULE NotificationDecoder_proofs -----------------------
(***************************************************************************)
(* Proofs about NotificationDecoder, for any number and sizes of messages, *)
(* of payloads and of losses.                                              *)
(*                                                                         *)
(* The air holds what follows some byte of some message, up to the end of  *)
(* the last message sent (InOrder); the listener's state is told relative  *)
(* to that front (ListenerInv).  What one notification does to the         *)
(* decoder's buffer is PieceDecoded; it is found by induction over the     *)
(* turns of decoder's loop (DecoderInduction), with sets in the place of   *)
(* predicates.                                                             *)
(***************************************************************************)
EXTENDS NotificationDecoder, SequenceTheorems, WellFoundedInduction, TLAPS

FrameLetters(size) ==
  UNION {{<< m, p, size[m] >> : p \in 1 .. size[m]} : m \in DOMAIN size}
FrameBytes(size) == FrameLetters(size) \cup {Delimiter}

Letters == FrameLetters(Size)
Byte == FrameBytes(Size)

-----------------------------------------------------------------------------
(* Notifications *)

Notification == [of : Message, at : Nat, data : Seq(Byte)]

End(p) == p.at + Len(p.data)
IsLast(p) == End(p) = Len(Encoded(p.of))

IsPiece(p) ==
  /\ p.data # << >>
  /\ End(p) <= Len(Encoded(p.of))
  /\ \A j \in 1 .. Len(p.data) : p.data[j] = Encoded(p.of)[p.at + j]
  /\ \E n \in Payloads : Len(p.data) <= n

Follows(q, p) ==
  IF IsLast(p) THEN q.of = p.of + 1 /\ q.at = 0
               ELSE q.of = p.of /\ q.at = End(p)

(* q holds what follows some byte of message FrontOf(q, k), up to the end  *)
(* of message k.                                                           *)
InOrder(q, k) ==
  /\ q \in Seq(Notification)
  /\ \A i \in 1 .. Len(q) : IsPiece(q[i]) /\ q[i].of <= k
  /\ \A i \in 1 .. Len(q) - 1 : Follows(q[i + 1], q[i])
  /\ q # << >> => q[Len(q)].of = k /\ IsLast(q[Len(q)])

FrontOf(q, k) == IF q = << >> THEN k + 1 ELSE q[1].of
FrontAt(q) == IF q = << >> THEN 0 ELSE q[1].at

-----------------------------------------------------------------------------
(* The listener, where the next byte to come is byte a + 1 of message c.   *)

Heard(m) == \E i \in DOMAIN heard : heard[i] = m

Types ==
  /\ sent \in 0 .. Len(Size)
  /\ unlucky \subseteq ShortEnds
  /\ listening \in BOOLEAN
  /\ dataRaw \in Seq(Letters)
  /\ dataMapBytes \in Nat
  /\ heard \in Seq(Message)
  /\ reported \in Seq(Nat \ {0})
  /\ Len(reported) = Len(heard)
  /\ arrived \in [Message -> Nat]
  /\ aborted \subseteq Message
  /\ faults \in 0 .. MaxFaults

ArrivedBefore(c, a) ==
  \A m \in Message :
    /\ m < c => arrived[m] <= Len(Encoded(m))
    /\ m = c => arrived[m] <= a
    /\ m > c => arrived[m] = 0

RawBefore(c, a) ==
  \A i \in 1 .. Len(dataRaw) :
    /\ dataRaw[i][1] <= c /\ (a = 0 => dataRaw[i][1] < c)
    /\ \A j \in 1 .. Len(heard) : heard[j] < dataRaw[i][1]

HeardBefore(c) ==
  /\ \A j \in 1 .. Len(heard) : heard[j] < c
  /\ HeardInOrder

RawIsOwn(c, a) ==
  c \in Message /\ a > 0 /\ arrived[c] = a /\ c \notin aborted =>
    dataRaw = SubSeq(Encoded(c), 2, a)

WholeIsHeard(c) ==
  \A m \in Message : m < c /\ Whole(m) /\ m \notin aborted => Heard(m)

Perfect(c, a) ==
  /\ \A m \in Message : m < c => Whole(m)
  /\ c \in Message => arrived[c] = a

PerfectIsCounted(c, a) ==
  Perfect(c, a) =>
    /\ dataMapBytes = a
    /\ dataRaw = IF c \in Message THEN SubSeq(Encoded(c), 2, a) ELSE << >>

PerfectIsHeard(c) ==
  \A m \in Message : m < c /\ (\A k \in 1 .. m : Whole(k)) => Heard(m)

ListenerInv(c, a) ==
  /\ ArrivedBefore(c, a)
  /\ RawBefore(c, a)
  /\ HeardBefore(c)
  /\ RawIsOwn(c, a)
  /\ WholeIsHeard(c)
  /\ PerfectIsCounted(c, a)
  /\ PerfectIsHeard(c)
  /\ BytesAreOwn

DecoderInv ==
  /\ Types
  /\ InOrder(air, sent)
  /\ ListenerInv(FrontOf(air, sent), FrontAt(air))

-----------------------------------------------------------------------------
(* Every set of numbers that is not empty has a least one.                 *)
LEMMA Least ==
  ASSUME NEW T, T \subseteq Nat, T # {}
  PROVE  \E x \in T : \A y \in T : x <= y
<1> DEFINE R == OpToRel(<, Nat)
<1>1. IsWellFoundedOn(R, Nat)
  BY NatLessThanWellFounded
<1> HIDE DEF R
<1>2. PICK x \in T : \A y \in T : ~(<< y, x >> \in R)
  BY <1>1, WFMin
<1>3. \A y \in T : y < x => << y, x >> \in R
  BY DEF R, OpToRel
<1>4. \A y \in T : ~(y < x)
  BY <1>2, <1>3
<1>5. x \in Nat /\ \A y \in T : y \in Nat
  OBVIOUS
<1>6. QED
  BY <1>4, <1>5

(* A set that holds 0 and is closed under successor holds all numbers.     *)
LEMMA Induct ==
  ASSUME NEW S, 0 \in S, \A n \in Nat : n \in S => n + 1 \in S
  PROVE  \A n \in Nat : n \in S
<1> DEFINE T == Nat \ S
<1>1. SUFFICES ASSUME T # {} PROVE FALSE
  OBVIOUS
<1>2. PICK x \in T : \A y \in T : x <= y
  BY <1>1, Least
<1>3. x - 1 \in Nat /\ x - 1 \notin T
  BY <1>2
<1>4. QED
  BY <1>2, <1>3

(* t holds the states of decoder's loop before and after each turn.        *)
AreTurns(t, brittle, raw, data) ==
  t = [i \in 0 .. Len(data) |->
         IF i = 0 THEN [raw |-> raw, map |-> Nothing, thrown |-> FALSE]
                  ELSE decodeByte(brittle, t[i - 1], data[i])]

(* decoder's loop has a state after each of its turns.                     *)
LEMMA TurnsExist ==
  ASSUME NEW brittle, NEW raw, NEW data, Len(data) \in Nat
  PROVE  \E t : AreTurns(t, brittle, raw, data)
<1> DEFINE start == [raw |-> raw, map |-> Nothing, thrown |-> FALSE]
           step(s, i) == decodeByte(brittle, s, data[i])
           Turns(t, n) == t = [i \in 0 .. n |->
                                IF i = 0 THEN start ELSE step(t[i - 1], i)]
           S == {n \in Nat : \E t : Turns(t, n)}
<1> HIDE DEF start, step
<1>1. 0 \in S
  <2>1. Turns([i \in 0 .. 0 |-> start], 0)
    OBVIOUS
  <2>2. QED
    BY <2>1
<1>2. ASSUME NEW n \in Nat, n \in S
      PROVE  n + 1 \in S
  <2>1. PICK t : Turns(t, n)
    BY <1>2
  <2> DEFINE u == [i \in 0 .. n + 1 |->
                     IF i = n + 1 THEN step(t[n], n + 1) ELSE t[i]]
  <2>2. ASSUME NEW i \in 0 .. n + 1
        PROVE  u[i] = IF i = 0 THEN start ELSE step(u[i - 1], i)
    <3>1. CASE i = n + 1
      BY <3>1
    <3>2. CASE i # n + 1
      <4>1. i \in 0 .. n /\ (i # 0 => i - 1 \in 0 .. n)
        BY <3>2
      <4>2. u[i] = t[i] /\ (i # 0 => u[i - 1] = t[i - 1])
        BY <4>1
      <4>3. t[i] = IF i = 0 THEN start ELSE step(t[i - 1], i)
        BY <2>1, <4>1
      <4>4. QED
        BY <4>2, <4>3
    <3>3. QED
      BY <3>1, <3>2
  <2>3. u = [i \in 0 .. n + 1 |-> IF i = 0 THEN start ELSE step(u[i - 1], i)]
    <3>1. u = [i \in 0 .. n + 1 |-> u[i]]
      OBVIOUS
    <3> HIDE DEF u
    <3>2. QED
      BY <2>2, <3>1
  <2>4. Turns(u, n + 1)
    BY <2>3
  <2> HIDE DEF u, Turns
  <2>5. QED
    BY <2>4
<1>3. Len(data) \in S
  <2> HIDE DEF S
  <2>1. QED
    BY <1>1, <1>2, Induct
<1>4. QED
  BY <1>3 DEF start, step, AreTurns

(* What holds before decoder's loop and is kept by each of its turns holds *)
(* after it: J is the set of the pairs of a turn and a state in which it   *)
(* holds.                                                                  *)
LEMMA DecoderInduction ==
  ASSUME NEW brittle, NEW raw, NEW data, Len(data) \in Nat,
         NEW J,
         << 0, [raw |-> raw, map |-> Nothing, thrown |-> FALSE] >> \in J,
         \A i \in 1 .. Len(data) : \A s :
           << i - 1, s >> \in J => << i, decodeByte(brittle, s, data[i]) >> \in J
  PROVE  << Len(data), decoder(brittle, raw, data) >> \in J
<1> DEFINE Turn(t) == AreTurns(t, brittle, raw, data)
<1>1. PICK t : Turn(t) /\ decoder(brittle, raw, data) = t[Len(data)]
  <2>1. PICK t : t = CHOOSE u : Turn(u)
    OBVIOUS
  <2>2. Turn(t)
    BY <2>1, TurnsExist
  <2>3. decoder(brittle, raw, data) = t[Len(data)]
    BY <2>1 DEF decoder, AreTurns
  <2>4. QED
    BY <2>2, <2>3
<1> DEFINE S == {i \in Nat : i <= Len(data) => << i, t[i] >> \in J}
<1>2. 0 \in S
  BY <1>1 DEF AreTurns
<1>3. ASSUME NEW n \in Nat, n \in S
      PROVE  n + 1 \in S
  <2>1. SUFFICES ASSUME n + 1 <= Len(data)
                 PROVE  << n + 1, t[n + 1] >> \in J
    OBVIOUS
  <2>2. << n, t[n] >> \in J
    BY <1>3, <2>1
  <2>3. t[n + 1] = decodeByte(brittle, t[n], data[n + 1])
    <3>1. n + 1 \in 0 .. Len(data) /\ n + 1 # 0 /\ (n + 1) - 1 = n
      BY <2>1
    <3> HIDE DEF Turn
    <3>2. t[n + 1] = decodeByte(brittle, t[(n + 1) - 1], data[n + 1])
      BY <1>1, <3>1 DEF Turn, AreTurns
    <3>3. QED
      BY <3>1, <3>2
  <2>4. n + 1 \in 1 .. Len(data) /\ (n + 1) - 1 = n
    BY <2>1
  <2>5. QED
    BY <2>2, <2>3, <2>4
<1>4. Len(data) \in S
  <2> HIDE DEF S
  <2>1. QED
    BY <1>2, <1>3, Induct
<1>5. QED
  BY <1>1, <1>4

-----------------------------------------------------------------------------
(* Two sequences put together.                                             *)
LEMMA ConcatFacts ==
  ASSUME NEW S, NEW s \in Seq(S), NEW t \in Seq(S)
  PROVE  /\ s \o t \in Seq(S)
         /\ Len(s \o t) = Len(s) + Len(t)
         /\ \A i \in 1 .. Len(s) : (s \o t)[i] = s[i]
         /\ \A i \in 1 .. Len(t) : (s \o t)[Len(s) + i] = t[i]
<1>1. Len(s) \in Nat /\ Len(t) \in Nat
  BY LenProperties
<1>2. /\ s \o t \in Seq(S)
      /\ Len(s \o t) = Len(s) + Len(t)
      /\ \A i \in 1 .. Len(s) + Len(t) :
           (s \o t)[i] = IF i <= Len(s) THEN s[i] ELSE t[i - Len(s)]
  BY ConcatProperties
<1>3. ASSUME NEW i \in 1 .. Len(t)
      PROVE  (s \o t)[Len(s) + i] = t[i]
  <2>1. Len(s) + i \in 1 .. Len(s) + Len(t) /\ ~(Len(s) + i <= Len(s))
        /\ Len(s) + i - Len(s) = i
    BY <1>1
  <2>2. QED
    BY <2>1, <1>2
<1>4. QED
  BY <1>1, <1>2, <1>3

-----------------------------------------------------------------------------
(* Encoded messages, whatever their sizes *)

(* The sizes of bodies.                                                    *)
LEMMA SizesArePositive ==
  ASSUME NEW size \in Seq(Nat \ {0}), NEW m \in DOMAIN size
  PROVE  size[m] \in Nat \ {0}
  OBVIOUS

(* A byte that is no delimiter tells its message and the length of that.   *)
LEMMA FrameLetterFacts ==
  ASSUME NEW size \in Seq(Nat \ {0}),
         NEW x \in FrameLetters(size)
  PROVE  /\ x # Delimiter
         /\ x[1] \in DOMAIN size
         /\ x[3] = size[x[1]]
  <1>1. PICK m \in DOMAIN size : \E p \in 1 .. size[m] : x = << m, p, size[m] >>
    BY DEF FrameLetters
  <1>2. x # Delimiter
    BY <1>1 DEF Delimiter
  <1>3. QED
    BY <1>1, <1>2

(* The bytes of a body.                                                    *)
LEMMA FrameBodyFacts ==
  ASSUME NEW size \in Seq(Nat \ {0}),
         NEW m \in DOMAIN size
  PROVE  /\ Body(m, size[m]) \in Seq(FrameLetters(size))
         /\ Len(Body(m, size[m])) = size[m]
         /\ \A i \in 1 .. size[m] : Body(m, size[m])[i] = << m, i, size[m] >>
<1>1. size[m] \in Nat
  BY SizesArePositive
<1>2. \A i \in 1 .. size[m] : << m, i, size[m] >> \in FrameLetters(size)
  BY DEF FrameLetters
<1>3. Body(m, size[m]) \in [1 .. size[m] -> FrameLetters(size)]
  BY <1>2 DEF Body
<1>4. Body(m, size[m]) \in Seq(FrameLetters(size))
  BY <1>1, <1>3, SeqDef
<1>5. QED
  BY <1>1, <1>3, <1>4, LenProperties DEF Body

(* An encoded message is a body between two delimiters.                    *)
LEMMA FrameEncodedFacts ==
  ASSUME NEW size \in Seq(Nat \ {0}),
         NEW m \in DOMAIN size
  PROVE  /\ encoder(m, size[m]) \in Seq(FrameBytes(size))
         /\ Len(encoder(m, size[m])) = size[m] + 2
         /\ encoder(m, size[m])[1] = Delimiter
         /\ encoder(m, size[m])[size[m] + 2] = Delimiter
         /\ \A i \in 1 .. size[m] : encoder(m, size[m])[i + 1] = << m, i, size[m] >>
         /\ \A i \in 1 .. size[m] : encoder(m, size[m])[i + 1] \in FrameLetters(size)
<1> DEFINE B == Body(m, size[m])
           D == << Delimiter >>
<1>1. size[m] \in Nat \ {0}
  BY SizesArePositive
<1>2. D \in Seq(FrameBytes(size)) /\ Len(D) = 1 /\ D[1] = Delimiter
  BY DEF FrameBytes
<1>3. B \in Seq(FrameBytes(size)) /\ Len(B) = size[m]
      /\ \A i \in 1 .. size[m] : B[i] = << m, i, size[m] >>
  <2>1. FrameLetters(size) \subseteq FrameBytes(size)
    BY DEF FrameBytes
  <2> HIDE DEF B
  <2>2. QED
    BY <2>1, FrameBodyFacts, SeqMonotonic DEF B
<1>4. encoder(m, size[m]) = (D \o B) \o D
  BY DEF encoder
<1> HIDE DEF B, D
<1>5. /\ D \o B \in Seq(FrameBytes(size))
      /\ Len(D \o B) = Len(D) + Len(B)
      /\ \A i \in 1 .. Len(D) : (D \o B)[i] = D[i]
      /\ \A i \in 1 .. Len(B) : (D \o B)[Len(D) + i] = B[i]
  <2>1. D \in Seq(FrameBytes(size)) /\ B \in Seq(FrameBytes(size))
    BY <1>2, <1>3
  <2>2. QED
    BY <2>1, ConcatFacts
<1>6. /\ encoder(m, size[m]) \in Seq(FrameBytes(size))
      /\ Len(encoder(m, size[m])) = Len(D \o B) + Len(D)
      /\ \A i \in 1 .. Len(D \o B) : encoder(m, size[m])[i] = (D \o B)[i]
      /\ \A i \in 1 .. Len(D) : encoder(m, size[m])[Len(D \o B) + i] = D[i]
  BY <1>2, <1>4, <1>5, ConcatFacts
<1>7. ASSUME NEW i \in 1 .. size[m]
      PROVE  encoder(m, size[m])[i + 1] = << m, i, size[m] >>
  <2>1. i \in 1 .. Len(B) /\ Len(D) + i \in 1 .. Len(D \o B)
        /\ Len(D) + i = i + 1
    BY <1>1, <1>2, <1>3, <1>5
  <2>2. QED
    BY <2>1, <1>5, <1>6, <1>3
<1>8. encoder(m, size[m])[1] = Delimiter
  <2>1. 1 \in 1 .. Len(D) /\ 1 \in 1 .. Len(D \o B)
    BY <1>1, <1>2, <1>3, <1>5
  <2>2. QED
    BY <2>1, <1>2, <1>5, <1>6
<1>9. encoder(m, size[m])[size[m] + 2] = Delimiter
  <2>1. 1 \in 1 .. Len(D) /\ Len(D \o B) + 1 = size[m] + 2
    BY <1>1, <1>2, <1>3, <1>5
  <2>2. QED
    BY <2>1, <1>2, <1>6
<1>10. \A i \in 1 .. size[m] : << m, i, size[m] >> \in FrameLetters(size)
  BY DEF FrameLetters
<1>11. Len(encoder(m, size[m])) = size[m] + 2
  BY <1>1, <1>2, <1>3, <1>5, <1>6
<1>12. QED
  BY <1>6, <1>7, <1>8, <1>9, <1>10, <1>11

FrameMiddle(size, m, a, q) == SubSeq(encoder(m, size[m]), a, q)

(* What lies between the delimiters of a message is letters of it, in      *)
(* their order.                                                            *)
LEMMA FrameMiddleIsLetters ==
  ASSUME NEW size \in Seq(Nat \ {0}),
         NEW m \in DOMAIN size, NEW a \in Nat, NEW q \in Nat,
         a >= 2, q < Len(encoder(m, size[m]))
  PROVE  /\ FrameMiddle(size, m, a, q) \in Seq(FrameLetters(size))
         /\ \A i \in 1 .. Len(FrameMiddle(size, m, a, q)) :
              /\ FrameMiddle(size, m, a, q)[i][1] = m
              /\ FrameMiddle(size, m, a, q)[i][2] = a + i - 2
         /\ Len(FrameMiddle(size, m, a, q)) = IF a <= q THEN q - a + 1 ELSE 0
<1> DEFINE E == encoder(m, size[m])
<1>1. size[m] \in Nat /\ Len(E) = size[m] + 2
  BY SizesArePositive, FrameEncodedFacts
<1>2. ASSUME NEW i \in a .. q
      PROVE  E[i] \in FrameLetters(size) /\ E[i][1] = m /\ E[i][2] = i - 1
  <2>1. i - 1 \in 1 .. size[m] /\ (i - 1) + 1 = i
    BY <1>1
  <2>2. E[(i - 1) + 1] = << m, i - 1, size[m] >> /\ E[(i - 1) + 1] \in FrameLetters(size)
    BY <2>1, FrameEncodedFacts
  <2> HIDE DEF E
  <2>3. E[i] = << m, i - 1, size[m] >> /\ E[i] \in FrameLetters(size)
    BY <2>1, <2>2
  <2>4. QED
    BY <2>3
<1> HIDE DEF E
<1>3. /\ SubSeq(E, a, q) \in Seq(FrameLetters(size))
      /\ Len(SubSeq(E, a, q)) = IF a <= q THEN q - a + 1 ELSE 0
      /\ \A i \in 1 .. q - a + 1 : SubSeq(E, a, q)[i] = E[a + i - 1]
  <2>1. \A i \in a .. q : E[i] \in FrameLetters(size)
    BY <1>2
  <2>2. QED
    BY <2>1, SubSeqProperties
<1>4. ASSUME NEW i \in 1 .. Len(SubSeq(E, a, q))
      PROVE  SubSeq(E, a, q)[i][1] = m /\ SubSeq(E, a, q)[i][2] = a + i - 2
  <2>1. i \in 1 .. q - a + 1 /\ a + i - 1 \in a .. q
        /\ (a + i - 1) - 1 = a + i - 2
    BY <1>3
  <2>2. QED
    BY <2>1, <1>3, <1>2
<1>5. QED
  BY <1>3, <1>4 DEF E, FrameMiddle

(* It is the body of the message.                                          *)
LEMMA FrameMiddleIsBody ==
  ASSUME NEW size \in Seq(Nat \ {0}),
         NEW m \in DOMAIN size
  PROVE  SubSeq(encoder(m, size[m]), 2, Len(encoder(m, size[m])) - 1)
           = Body(m, size[m])
<1> DEFINE E == encoder(m, size[m])
           B == Body(m, size[m])
           M == SubSeq(E, 2, Len(E) - 1)
<1>1. size[m] \in Nat \ {0} /\ Len(E) = size[m] + 2
  BY SizesArePositive, FrameEncodedFacts
<1>2. M \in Seq(FrameLetters(size)) /\ Len(M) = size[m]
  <2>1. Len(E) - 1 \in Nat /\ Len(E) - 1 < Len(E) /\ Len(E) - 1 >= 2
        /\ (Len(E) - 1) - 2 + 1 = size[m]
    BY <1>1
  <2>2. ASSUME NEW q \in Nat, q < Len(E), 2 <= q
        PROVE  /\ SubSeq(E, 2, q) \in Seq(FrameLetters(size))
               /\ Len(SubSeq(E, 2, q)) = q - 2 + 1
    <3>1. /\ SubSeq(E, 2, q) \in Seq(FrameLetters(size))
          /\ Len(SubSeq(E, 2, q)) = IF 2 <= q THEN q - 2 + 1 ELSE 0
      BY <2>2, FrameMiddleIsLetters DEF FrameMiddle
    <3> HIDE DEF E
    <3>2. QED
      BY <2>2, <3>1
  <2> HIDE DEF E
  <2>3. QED
    BY <2>1, <2>2
<1>3. B \in Seq(FrameLetters(size)) /\ Len(B) = size[m]
  BY FrameBodyFacts
<1>4. ASSUME NEW i \in 1 .. size[m]
      PROVE  M[i] = B[i]
  <2>1. M[i] = E[i + 1]
    <3>1. \A j \in 2 .. Len(E) - 1 : E[j] \in FrameBytes(size)
      <4>1. E \in Seq(FrameBytes(size))
        BY FrameEncodedFacts
      <4> HIDE DEF E
      <4>2. QED
        BY <4>1, <1>1, ElementOfSeq
    <3> HIDE DEF E
    <3>2. \A j \in 1 .. (Len(E) - 1) - 2 + 1 : M[j] = E[2 + j - 1]
      BY <3>1, <1>1, SubSeqProperties
    <3>3. i \in 1 .. (Len(E) - 1) - 2 + 1 /\ 2 + i - 1 = i + 1
      BY <1>1
    <3> HIDE DEF M
    <3>4. QED
      BY <3>2, <3>3
  <2>2. E[i + 1] = << m, i, size[m] >> /\ B[i] = << m, i, size[m] >>
    BY FrameEncodedFacts, FrameBodyFacts
  <2>3. QED
    BY <2>1, <2>2
<1> HIDE DEF M, B
<1>5. M = B
  BY <1>2, <1>3, <1>4, SeqEqual
<1>6. QED
  BY <1>5 DEF M, B

(* What decode makes of letters.                                           *)
LEMMA FrameDecodeLetters ==
  ASSUME NEW size \in Seq(Nat \ {0}),
         NEW raw \in Seq(FrameLetters(size)), decode(raw) # Nothing
  PROVE  /\ raw # << >>
         /\ decode(raw) \in DOMAIN size
         /\ \A i \in 1 .. Len(raw) : raw[i][1] = decode(raw)
         /\ raw[1][2] = 1
<1>1. /\ raw # << >>
      /\ raw = Body(raw[1][1], raw[1][3])
      /\ decode(raw) = raw[1][1]
  BY DEF decode
<1>2. raw[1] \in FrameLetters(size)
  BY <1>1, EmptySeq, ElementOfSeq
<1>3. raw[1][1] \in DOMAIN size /\ raw[1][3] = size[raw[1][1]]
  BY <1>2, FrameLetterFacts
<1> DEFINE m == raw[1][1]
<1>4. raw = Body(m, size[m]) /\ m \in DOMAIN size
  BY <1>1, <1>3
<1> HIDE DEF m
<1>5. \A i \in 1 .. Len(raw) : raw[i][1] = m
  <2>1. /\ Len(Body(m, size[m])) = size[m]
        /\ \A i \in 1 .. size[m] : Body(m, size[m])[i] = << m, i, size[m] >>
    BY <1>4, FrameBodyFacts
  <2>2. \A i \in 1 .. size[m] : Body(m, size[m])[i][1] = m
    BY <2>1
  <2>3. QED
    BY <1>4, <2>1, <2>2
<1>6. raw[1][2] = 1
  <2>1. 1 \in 1 .. size[m]
    BY <1>4, SizesArePositive
  <2>2. Body(m, size[m])[1] = << m, 1, size[m] >>
    BY <1>4, <2>1, FrameBodyFacts
  <2>3. QED
    BY <1>4, <2>2
<1>7. QED
  BY <1>1, <1>3, <1>5, <1>6 DEF m

(* A part of a sequence and the element after it.                          *)
LEMMA AppendNext ==
  ASSUME NEW S, NEW r \in Seq(S), NEW s \in Seq(S),
         NEW a \in 1 .. Len(s), NEW q \in a .. Len(s)
  PROVE  Append(r \o SubSeq(s, a, q - 1), s[q]) = r \o SubSeq(s, a, q)
<1>1. Len(s) \in Nat
  BY LenProperties
<1>2. s[q] \in S
  BY <1>1, ElementOfSeq
<1>3. SubSeq(s, a, q - 1) \in Seq(S)
  <2>1. \A i \in a .. q - 1 : s[i] \in S
    BY <1>1, ElementOfSeq
  <2>2. QED
    BY <1>1, <2>1, SubSeqProperties
<1>4. SubSeq(s, a, q) = SubSeq(s, a, q - 1) \o << s[q] >>
  BY <1>1, SubSeqRecursiveSecond
<1>5. SubSeq(s, a, q) = Append(SubSeq(s, a, q - 1), s[q])
  BY <1>2, <1>3, <1>4, AppendIsConcat
<1>6. QED
  <2>1. PICK u \in Seq(S) : u = SubSeq(s, a, q - 1)
    BY <1>3
  <2>2. PICK e \in S : e = s[q]
    BY <1>2
  <2>3. Append(r \o u, e) = r \o Append(u, e)
    BY SMTT(30)
  <2>4. QED
    BY <2>1, <2>2, <2>3, <1>5

(* What is stacked up of the first i bytes after byte `at` of a message,   *)
(* but its delimiters.                                                     *)
FrameStacked(size, m, raw, at, i) ==
  IF at = 0 THEN SubSeq(encoder(m, size[m]), 2, i)
            ELSE raw \o SubSeq(encoder(m, size[m]), at + 1, at + i)

(* A byte that is no delimiter is stacked up.                              *)
LEMMA FrameStackedNext ==
  ASSUME NEW size \in Seq(Nat \ {0}), NEW m \in DOMAIN size,
         NEW raw \in Seq(FrameLetters(size)), NEW at \in Nat, NEW i \in Nat,
         i >= 1, at + i < Len(encoder(m, size[m])), at + i > 1
  PROVE  /\ encoder(m, size[m])[at + i] \in FrameLetters(size)
         /\ Append(IF i = 1 THEN raw ELSE FrameStacked(size, m, raw, at, i - 1),
                   encoder(m, size[m])[at + i])
              = FrameStacked(size, m, raw, at, i)
         /\ i = 1 => at # 0
<1> DEFINE E == encoder(m, size[m])
<1>1. i \in Nat /\ i >= 1 /\ at \in Nat
  OBVIOUS
<1>2. /\ E \in Seq(FrameBytes(size))
      /\ Len(E) = size[m] + 2
      /\ size[m] \in Nat
      /\ \A j \in 1 .. size[m] : E[j + 1] \in FrameLetters(size)
  BY SizesArePositive, FrameEncodedFacts
<1>3. at + i < Len(E) /\ at + i > 1
  OBVIOUS
<1> HIDE DEF E
<1>4. Len(E) \in Nat
  BY <1>2
<1>5. E[at + i] \in FrameLetters(size)
  <2>1. at + i - 1 \in 1 .. size[m] /\ (at + i - 1) + 1 = at + i
    BY ONLY <1>1, <1>2, <1>3, SMTT(30)
  <2>2. QED
    BY <2>1, <1>2
<1>6. raw \in Seq(FrameBytes(size)) /\ << >> \in Seq(FrameBytes(size))
  <2>1. FrameLetters(size) \subseteq FrameBytes(size)
    BY DEF FrameBytes
  <2>2. QED
    BY <2>1, SeqMonotonic
<1>7. CASE at = 0
  <2>1. i > 1 /\ i <= Len(E)
    BY ONLY <1>1, <1>3, <1>4, <1>7
  <2>2. Append(<< >> \o SubSeq(E, 2, i - 1), E[i]) = << >> \o SubSeq(E, 2, i)
    BY <2>1, <1>1, <1>2, <1>4, <1>6, AppendNext
  <2>3. SubSeq(E, 2, i - 1) \in Seq(FrameBytes(size))
        /\ SubSeq(E, 2, i) \in Seq(FrameBytes(size))
    <3>1. \A j \in 2 .. i : E[j] \in FrameBytes(size)
      BY <2>1, <1>1, <1>2, <1>4, ElementOfSeq
    <3>2. \A j \in 2 .. i - 1 : E[j] \in FrameBytes(size)
      BY <3>1, <1>1
    <3>3. QED
      BY <3>1, <3>2, <1>1, SubSeqProperties
  <2>4. Append(SubSeq(E, 2, i - 1), E[i]) = SubSeq(E, 2, i)
    BY <2>2, <2>3, ConcatEmptySeq
  <2>5. i # 1 /\ at + i = i
    BY ONLY <1>1, <1>7, <2>1
  <2>6. QED
    BY <1>5, <1>7, <2>4, <2>5 DEF FrameStacked, E
<1>8. CASE at # 0
  <2> DEFINE a == at + 1
             q == at + i
  <2>1. a \in 1 .. Len(E) /\ q \in a .. Len(E) /\ q - 1 = at + (i - 1)
    BY ONLY <1>1, <1>3, <1>4, SMTT(30)
  <2>2. Append(raw \o SubSeq(E, a, q - 1), E[q]) = raw \o SubSeq(E, a, q)
    <3> HIDE DEF a, q
    <3>1. QED
      BY <2>1, <1>2, <1>6, AppendNext
  <2>3. Append(FrameStacked(size, m, raw, at, i - 1), E[q])
          = FrameStacked(size, m, raw, at, i)
    BY <2>1, <2>2, <1>8 DEF FrameStacked, E
  <2>4. i = 1 => FrameStacked(size, m, raw, at, i - 1) = raw
    <3>1. SUFFICES ASSUME i = 1
                   PROVE  FrameStacked(size, m, raw, at, 0) = raw
      OBVIOUS
    <3>2. SubSeq(E, at + 1, at + 0) = << >>
      <4>1. at + 1 \in Int /\ at + 0 \in Int /\ at + 0 < at + 1
        BY <1>1
      <4>2. QED
        BY <4>1, SubSeqEmpty
    <3>3. QED
      BY <3>2, <1>6, <1>8, ConcatEmptySeq DEF FrameStacked, E
  <2>5. QED
    BY <2>3, <2>4, <1>5, <1>8 DEF E
<1>9. QED
  BY <1>7, <1>8

(* What is stacked up before the last delimiter: letters of the message    *)
(* and, where they continue it, of what was in the buffer.                 *)
LEMMA FrameStackedFacts ==
  ASSUME NEW size \in Seq(Nat \ {0}), NEW m \in DOMAIN size,
         NEW raw \in Seq(FrameLetters(size)), NEW at \in Nat, NEW i \in Nat,
         at + i < Len(encoder(m, size[m]))
  PROVE  LET T == FrameStacked(size, m, raw, at, i)
         IN  /\ T \in Seq(FrameLetters(size))
             /\ \A j \in 1 .. Len(T) :
                  \/ T[j][1] = m
                  \/ at # 0 /\ \E k \in 1 .. Len(raw) : T[j][1] = raw[k][1]
             /\ T # << >> =>
                  IF at = 0 THEN T[1][1] = m
                  ELSE \/ raw # << >> /\ T[1] = raw[1]
                       \/ T[1][2] = at
<1> DEFINE E == encoder(m, size[m])
           T == FrameStacked(size, m, raw, at, i)
<1>1. /\ at \in Nat /\ i \in Nat /\ Len(E) \in Nat
      /\ at + i < Len(E)
      /\ E \in Seq(FrameBytes(size))
  BY SizesArePositive, FrameEncodedFacts
<1>2. CASE at = 0
  <2>1. T = SubSeq(E, 2, i) /\ at + i = i
    BY <1>2 DEF FrameStacked
  <2>2. /\ FrameMiddle(size, m, 2, i) \in Seq(FrameLetters(size))
        /\ \A j \in 1 .. Len(FrameMiddle(size, m, 2, i)) :
             FrameMiddle(size, m, 2, i)[j][1] = m
    <3>1. i < Len(encoder(m, size[m])) /\ 2 \in Nat /\ 2 >= 2
      BY <1>1, <1>2
    <3>2. QED
      BY <3>1, FrameMiddleIsLetters
  <2>3. T = FrameMiddle(size, m, 2, i)
    BY <2>1 DEF FrameMiddle
  <2> HIDE DEF T, E
  <2>4. T # << >> => T[1][1] = m
    <3>1. T # << >> => 1 \in 1 .. Len(T)
      BY <2>2, <2>3, EmptySeq
    <3>2. QED
      BY <2>2, <2>3, <3>1
  <2>5. QED
    BY <1>2, <2>1, <2>2, <2>3, <2>4 DEF T, E
<1>3. CASE at # 0
  <2> DEFINE M == FrameMiddle(size, m, at + 1, at + i)
  <2>1. T = raw \o M
    BY <1>3 DEF FrameStacked, FrameMiddle
  <2>2. /\ M \in Seq(FrameLetters(size))
        /\ \A j \in 1 .. Len(M) : M[j][1] = m /\ M[j][2] = at + 1 + j - 2
    <3>1. PICK a, q : a = at + 1 /\ q = at + i
      OBVIOUS
    <3>2. a \in Nat /\ q \in Nat /\ a >= 2 /\ q < Len(encoder(m, size[m]))
      BY <1>1, <1>3, <3>1
    <3>3. /\ FrameMiddle(size, m, a, q) \in Seq(FrameLetters(size))
          /\ \A j \in 1 .. Len(FrameMiddle(size, m, a, q)) :
               /\ FrameMiddle(size, m, a, q)[j][1] = m
               /\ FrameMiddle(size, m, a, q)[j][2] = a + j - 2
      BY <3>2, FrameMiddleIsLetters
    <3>4. QED
      BY <3>1, <3>3
  <2> HIDE DEF M
  <2>4. /\ raw \o M \in Seq(FrameLetters(size))
        /\ Len(raw \o M) = Len(raw) + Len(M)
        /\ \A j \in 1 .. Len(raw) : (raw \o M)[j] = raw[j]
        /\ \A j \in 1 .. Len(M) : (raw \o M)[Len(raw) + j] = M[j]
    <3>1. PICK S : S = FrameLetters(size)
      OBVIOUS
    <3>2. raw \in Seq(S) /\ M \in Seq(S)
      BY <2>2, <3>1
    <3>3. QED
      BY ONLY <3>1, <3>2, ConcatFacts
  <2>a. Len(raw) \in Nat /\ Len(M) \in Nat
    BY <2>2, LenProperties
  <2>5. ASSUME NEW j \in 1 .. Len(raw \o M)
        PROVE  \/ (raw \o M)[j][1] = m
               \/ \E k \in 1 .. Len(raw) : (raw \o M)[j][1] = raw[k][1]
    <3>1. CASE j <= Len(raw)
      <4>1. j \in 1 .. Len(raw)
        BY <2>a, <3>1, <2>4
      <4>2. QED
        BY <4>1, <2>4
    <3>2. CASE ~(j <= Len(raw))
      <4>1. j - Len(raw) \in 1 .. Len(M) /\ Len(raw) + (j - Len(raw)) = j
        BY <2>a, <3>2, <2>4
      <4>2. (raw \o M)[j] = M[j - Len(raw)]
        BY <4>1, <2>4
      <4>3. QED
        BY <4>1, <4>2, <2>2
    <3>3. QED
      BY <3>1, <3>2
  <2>6. ASSUME raw \o M # << >>
        PROVE  \/ raw # << >> /\ (raw \o M)[1] = raw[1]
               \/ (raw \o M)[1][2] = at
    <3>1. CASE raw # << >>
      <4>1. 1 \in 1 .. Len(raw)
        BY <3>1, EmptySeq
      <4>2. QED
        BY <4>1, <3>1, <2>4
    <3>2. CASE raw = << >>
      <4>1. raw \o M = M
        BY <2>2, <3>2, ConcatEmptySeq
      <4>2. 1 \in 1 .. Len(M)
        BY <2>2, <2>6, <4>1, EmptySeq
      <4>3. M[1][2] = at + 1 + 1 - 2
        BY <2>2, <4>2
      <4>4. QED
        BY <4>1, <4>3, <1>1
    <3>3. QED
      BY <3>1, <3>2
  <2> HIDE DEF T, E
  <2>7. /\ T \in Seq(FrameLetters(size))
        /\ \A j \in 1 .. Len(T) :
             \/ T[j][1] = m
             \/ \E k \in 1 .. Len(raw) : T[j][1] = raw[k][1]
        /\ T # << >> => \/ raw # << >> /\ T[1] = raw[1]
                        \/ T[1][2] = at
    BY <2>1, <2>4, <2>5, <2>6
  <2>8. QED
    BY <1>3, <2>7 DEF T, E
<1>4. QED
  BY <1>2, <1>3

(* It is the message, if what was in the buffer is.                        *)
LEMMA FrameStackedOwn ==
  ASSUME NEW size \in Seq(Nat \ {0}), NEW m \in DOMAIN size,
         NEW raw, NEW at \in Nat, NEW i \in Nat,
         at + i < Len(encoder(m, size[m])),
         at = 0 \/ raw = SubSeq(encoder(m, size[m]), 2, at)
  PROVE  FrameStacked(size, m, raw, at, i)
           = SubSeq(encoder(m, size[m]), 2, at + i)
<1>1. PICK E : E = encoder(m, size[m])
  OBVIOUS
<1>2. /\ at \in Nat /\ i \in Nat /\ Len(E) \in Nat /\ at + i < Len(E)
      /\ E \in Seq(FrameBytes(size))
  BY <1>1, SizesArePositive, FrameEncodedFacts
<1>3. CASE at = 0
  <2>1. at + i = i
    BY <1>2, <1>3
  <2>2. QED
    BY <1>3, <2>1 DEF FrameStacked
<1>4. CASE at # 0
  <2>1. raw = SubSeq(E, 2, at)
    BY <1>1, <1>4
  <2>2. 2 \in 1 .. Len(E) + 1 /\ at \in 2 - 1 .. Len(E)
        /\ at + i \in at .. Len(E)
    BY ONLY <1>2, <1>4
  <2>3. SubSeq(E, 2, at) \o SubSeq(E, at + 1, at + i) = SubSeq(E, 2, at + i)
    BY ONLY <1>2, <2>2, ConcatAdjacentSubSeq
  <2>4. QED
    BY <1>1, <1>4, <2>1, <2>3 DEF FrameStacked
<1>5. QED
  BY <1>3, <1>4

-----------------------------------------------------------------------------
(* The messages of the device *)

(* Messages are numbered from 1 and have bodies longer than MaxShort.      *)
LEMMA MessageFacts ==
  /\ Message = 1 .. Len(Size)
  /\ Len(Size) \in Nat
  /\ \A m \in Message : Size[m] \in Nat \ {0} /\ Size[m] > MaxShort
  BY SizeAssumption, ShortAssumption DEF Message

(* Letters of a message: the frame lemmas for the messages of the device.  *)
LEMMA LetterFacts ==
  ASSUME NEW x \in Letters
  PROVE  /\ x # Delimiter
         /\ x[1] \in Message
         /\ x[3] = Size[x[1]]
  BY SizeAssumption, FrameLetterFacts DEF Letters, Message

(* The bytes of a message's body.                                          *)
LEMMA BodyFacts ==
  ASSUME NEW m \in Message
  PROVE  /\ Body(m, Size[m]) \in Seq(Letters)
         /\ Len(Body(m, Size[m])) = Size[m]
         /\ \A i \in 1 .. Size[m] : Body(m, Size[m])[i] = << m, i, Size[m] >>
  BY SizeAssumption, FrameBodyFacts DEF Letters, Message

(* An encoded message is its body between two delimiters.                  *)
LEMMA EncodedFacts ==
  ASSUME NEW m \in Message
  PROVE  /\ Encoded(m) \in Seq(Byte)
         /\ Len(Encoded(m)) = Size[m] + 2
         /\ Encoded(m)[1] = Delimiter
         /\ Encoded(m)[Size[m] + 2] = Delimiter
         /\ \A i \in 1 .. Size[m] : Encoded(m)[i + 1] = << m, i, Size[m] >>
         /\ \A i \in 1 .. Size[m] : Encoded(m)[i + 1] \in Letters
  BY SizeAssumption, FrameEncodedFacts DEF Letters, Byte, Message, Encoded

(* What lies between the delimiters of a message of the device is letters  *)
(* of it.                                                                  *)
LEMMA MiddleIsLetters ==
  ASSUME NEW m \in Message, NEW a \in Nat, NEW q \in Nat,
         a >= 2, q < Len(Encoded(m))
  PROVE  /\ SubSeq(Encoded(m), a, q) \in Seq(Letters)
         /\ \A i \in 1 .. Len(SubSeq(Encoded(m), a, q)) :
              SubSeq(Encoded(m), a, q)[i][1] = m
         /\ Len(SubSeq(Encoded(m), a, q)) = IF a <= q THEN q - a + 1 ELSE 0
<1>1. PICK size : size = Size
  OBVIOUS
<1>2. /\ size \in Seq(Nat \ {0}) /\ m \in DOMAIN size
      /\ q < Len(encoder(m, size[m]))
  BY <1>1, SizeAssumption DEF Message, Encoded
<1>3. /\ FrameMiddle(size, m, a, q) \in Seq(FrameLetters(size))
      /\ \A i \in 1 .. Len(FrameMiddle(size, m, a, q)) :
           FrameMiddle(size, m, a, q)[i][1] = m
      /\ Len(FrameMiddle(size, m, a, q)) = IF a <= q THEN q - a + 1 ELSE 0
  BY <1>2, FrameMiddleIsLetters
<1>4. FrameMiddle(size, m, a, q) = SubSeq(Encoded(m), a, q)
  BY <1>1 DEF FrameMiddle, Encoded
<1>5. QED
  BY <1>1, <1>3, <1>4 DEF Letters

(* From delimiter to delimiter it is the body.                             *)
LEMMA MiddleIsBody ==
  ASSUME NEW m \in Message
  PROVE  SubSeq(Encoded(m), 2, Len(Encoded(m)) - 1) = Body(m, Size[m])
  BY SizeAssumption, FrameMiddleIsBody DEF Message, Encoded

(* Letters that decode to a message of the device are letters of it        *)
(* alone.                                                                  *)
LEMMA DecodeLetters ==
  ASSUME NEW raw \in Seq(Letters), decode(raw) # Nothing
  PROVE  /\ raw # << >>
         /\ decode(raw) \in Message
         /\ \A i \in 1 .. Len(raw) : raw[i][1] = decode(raw)
  BY SizeAssumption, FrameDecodeLetters DEF Letters, Message

(* A body decodes to its message.                                          *)
LEMMA DecodeBody ==
  ASSUME NEW m \in Message
  PROVE  /\ decode(Body(m, Size[m])) = m
         /\ Body(m, Size[m]) # << >>
         /\ Body(m, Size[m]) \notin ShortEnds
<1> DEFINE B == Body(m, Size[m])
<1>1. Size[m] \in Nat \ {0} /\ Size[m] > MaxShort
  BY MessageFacts
<1>2. Len(B) = Size[m] /\ B[1] = << m, 1, Size[m] >>
  <2>1. 1 \in 1 .. Size[m]
    BY <1>1
  <2>2. QED
    BY <2>1, BodyFacts
<1>3. B # << >>
  BY <1>1, <1>2, EmptySeq
<1>4. B[1][1] = m /\ B[1][3] = Size[m]
  BY <1>2
<1>5. decode(B) = m
  <2> HIDE DEF B
  <2>1. B = Body(B[1][1], B[1][3])
    BY <1>4 DEF B
  <2>2. QED
    BY <2>1, <1>3, <1>4 DEF decode
<1>6. ASSUME B \in ShortEnds PROVE FALSE
  <2>1. PICK k \in Message, n \in 1 .. MaxShort :
          B = SubSeq(Body(k, Size[k]), Size[k] - n + 1, Size[k])
    BY <1>6 DEF ShortEnds
  <2>2. Size[k] \in Nat /\ MaxShort \in Nat /\ n <= Size[k]
    BY MessageFacts, ShortAssumption
  <2> DEFINE C == Body(k, Size[k])
  <2>3. C \in Seq(Letters) /\ Len(C) = Size[k]
    BY BodyFacts
  <2> HIDE DEF C
  <2>4. Len(SubSeq(C, Size[k] - n + 1, Size[k])) = n
    <3>1. \A i \in Size[k] - n + 1 .. Size[k] : C[i] \in Letters
      BY <2>2, <2>3, ElementOfSeq
    <3>2. Len(SubSeq(C, Size[k] - n + 1, Size[k]))
            = IF Size[k] - n + 1 <= Size[k]
              THEN Size[k] - (Size[k] - n + 1) + 1 ELSE 0
      BY <2>2, <3>1, SubSeqProperties
    <3>3. QED
      BY <2>2, <3>2
  <2>5. Len(B) = n
    BY <2>1, <2>4 DEF C
  <2>6. QED
    BY <2>2, <2>5, <1>1, <1>2
<1>7. QED
  BY <1>3, <1>5, <1>6

-----------------------------------------------------------------------------
(* What decoder makes of the first i bytes of notification p.              *)

(* Within the body.                                                        *)
Stacked(raw, p, i) ==
  IF p.at = 0 THEN SubSeq(Encoded(p.of), 2, i)
              ELSE raw \o SubSeq(Encoded(p.of), p.at + 1, p.at + i)

Decoded(raw, map, thrown) == [raw |-> raw, map |-> map, thrown |-> thrown]

DecodedAs(raw, p, i) ==
  IF i = 0 THEN Decoded(raw, Nothing, FALSE)
  ELSE IF p.at = 0
  THEN IF raw # << >> /\ raw \in unlucky THEN Decoded(raw, Nothing, TRUE)
       ELSE IF p.at + i < Len(Encoded(p.of))
       THEN Decoded(Stacked(raw, p, i),
                    IF raw = << >> THEN Nothing ELSE decode(raw), FALSE)
       ELSE Decoded(<< >>, p.of, FALSE)
  ELSE IF p.at + i < Len(Encoded(p.of))
  THEN Decoded(Stacked(raw, p, i), Nothing, FALSE)
  ELSE IF Stacked(raw, p, i - 1) = << >> THEN Decoded(<< >>, Nothing, FALSE)
  ELSE IF Stacked(raw, p, i - 1) \in unlucky
  THEN Decoded(Stacked(raw, p, i - 1), Nothing, TRUE)
  ELSE Decoded(<< >>, decode(Stacked(raw, p, i - 1)), FALSE)

(* Once decode has thrown, the rest of a notification is not looked at.    *)
LEMMA DecodeByteThrown ==
  ASSUME NEW b, NEW r, NEW map, NEW byte
  PROVE  decodeByte(b, Decoded(r, map, TRUE), byte) = Decoded(r, map, TRUE)
  BY DEF decodeByte, Decoded

(* A delimiter empties the buffer, unless decode throws on it.             *)
LEMMA DecodeByteDelimiter ==
  ASSUME NEW b, NEW r, NEW map
  PROVE  decodeByte(b, Decoded(r, map, FALSE), Delimiter) =
           IF r = << >> THEN Decoded(<< >>, map, FALSE)
           ELSE IF r \in b THEN Decoded(r, map, TRUE)
           ELSE Decoded(<< >>, decode(r), FALSE)
<1>1. CASE r = << >>
  BY <1>1 DEF decodeByte, Decoded
<1>2. CASE r # << >> /\ r \in b
  <2>1. decodeByte(b, Decoded(r, map, FALSE), Delimiter) = Decoded(r, map, TRUE)
    BY <1>2 DEF decodeByte, Decoded
  <2>2. QED
    BY <1>2, <2>1, Zenon
<1>3. CASE r # << >> /\ r \notin b
  BY <1>3 DEF decodeByte, Decoded
<1>4. QED
  BY <1>1, <1>2, <1>3, Zenon

(* A byte of a message that is no delimiter is stacked up.                 *)
LEMMA StackedNext ==
  ASSUME NEW p \in Notification, IsPiece(p), NEW raw \in Seq(Letters),
         NEW i \in 1 .. Len(p.data), p.at + i < Len(Encoded(p.of)), p.at + i > 1
  PROVE  /\ p.data[i] # Delimiter
         /\ Append(IF i = 1 THEN raw ELSE Stacked(raw, p, i - 1), p.data[i])
              = Stacked(raw, p, i)
         /\ i = 1 => p.at # 0
<1>1. p.of \in Message /\ p.at \in Nat /\ Len(p.data) \in Nat
  BY LenProperties DEF Notification
<1>2. i \in Nat /\ i >= 1
  BY <1>1
<1>3. p.data[i] = Encoded(p.of)[p.at + i]
  BY DEF IsPiece
<1>4. PICK m, at : m = p.of /\ at = p.at
  OBVIOUS
<1>5. /\ m \in DOMAIN Size /\ at \in Nat /\ raw \in Seq(FrameLetters(Size))
      /\ at + i < Len(encoder(m, Size[m])) /\ at + i > 1
  BY <1>1, <1>4 DEF Message, Encoded, Letters
<1>6. /\ encoder(m, Size[m])[at + i] \in FrameLetters(Size)
      /\ Append(IF i = 1 THEN raw ELSE FrameStacked(Size, m, raw, at, i - 1),
                encoder(m, Size[m])[at + i])
           = FrameStacked(Size, m, raw, at, i)
      /\ i = 1 => at # 0
  BY <1>2, <1>5, SizeAssumption, FrameStackedNext
<1>7. \A j : FrameStacked(Size, m, raw, at, j) = Stacked(raw, p, j)
  BY <1>4 DEF FrameStacked, Stacked, Encoded
<1>8. p.data[i] = encoder(m, Size[m])[at + i]
  BY <1>3, <1>4 DEF Encoded
<1>9. p.data[i] \in Letters
  BY <1>6, <1>8 DEF Letters
<1>10. QED
  BY <1>4, <1>6, <1>7, <1>8, <1>9, LetterFacts

(* What decoder makes of a notification, whatever is in the buffer.        *)
LEMMA DecoderOnPiece ==
  ASSUME NEW p \in Notification, IsPiece(p), NEW raw \in Seq(Letters),
         unlucky \subseteq ShortEnds
  PROVE  decoder(unlucky, raw, p.data) = DecodedAs(raw, p, Len(p.data))
<1> DEFINE n == Len(p.data)
           L == Len(Encoded(p.of))
           J == {<< i, DecodedAs(raw, p, i) >> : i \in 0 .. n}
           mp == IF raw = << >> THEN Nothing ELSE decode(raw)
<1>1. p.of \in Message /\ p.at \in Nat /\ n \in Nat /\ L \in Nat /\ L > 2
      /\ p.at + n <= L
  <2>1. p.of \in Message /\ p.at \in Nat /\ p.data \in Seq(Byte)
    BY DEF Notification
  <2>2. L = Size[p.of] + 2 /\ Size[p.of] \in Nat \ {0}
    BY <2>1, EncodedFacts, MessageFacts
  <2>3. n \in Nat
    BY <2>1, LenProperties
  <2>4. p.at + n <= L
    BY DEF IsPiece, End
  <2>5. QED
    BY <2>1, <2>2, <2>3, <2>4
<1>2. << 0, [raw |-> raw, map |-> Nothing, thrown |-> FALSE] >> \in J
  <2>1. DecodedAs(raw, p, 0) = [raw |-> raw, map |-> Nothing, thrown |-> FALSE]
    BY Zenon DEF DecodedAs, Decoded
  <2>2. 0 \in 0 .. n
    BY <1>1
  <2> HIDE DEF n
  <2>3. QED
    BY <2>1, <2>2, Zenon
<1>3. ASSUME NEW i \in 1 .. n
      PROVE  decodeByte(unlucky, DecodedAs(raw, p, i - 1), p.data[i])
               = DecodedAs(raw, p, i)
  <2>1. i \in Nat /\ i - 1 \in Nat /\ i >= 1 /\ i <= n /\ p.at + i <= L
    BY ONLY <1>1, i \in 1 .. n
  <2>2. p.data[i] = Encoded(p.of)[p.at + i]
    BY DEF IsPiece
  <2>3. p.at + i = 1 \/ p.at + i = L => p.data[i] = Delimiter
    BY <1>1, <2>2, EncodedFacts
  <2> HIDE DEF mp, L, n
  <2>4. CASE p.at = 0 /\ i = 1
    <3>1. p.data[i] = Delimiter /\ DecodedAs(raw, p, i - 1) = Decoded(raw, Nothing, FALSE)
      <4>1. i - 1 = 0 /\ p.at + i = 1
        BY <2>4
      <4>2. QED
        BY <2>3, <4>1, Zenon DEF DecodedAs
    <3>2. DecodedAs(raw, p, 1) =
            IF raw # << >> /\ raw \in unlucky THEN Decoded(raw, Nothing, TRUE)
            ELSE Decoded(<< >>, mp, FALSE)
      <4>1. Stacked(raw, p, 1) = << >>
        BY <2>4, SubSeqEmpty DEF Stacked
      <4>2. p.at + 1 < Len(Encoded(p.of))
        BY <1>1, <2>4 DEF L
      <4>3. QED
        BY <2>4, <4>1, <4>2, 1 # 0, Zenon DEF DecodedAs, mp
    <3>3. QED
      <4>1. decodeByte(unlucky, Decoded(raw, Nothing, FALSE), Delimiter) =
              IF raw = << >> THEN Decoded(<< >>, Nothing, FALSE)
              ELSE IF raw \in unlucky THEN Decoded(raw, Nothing, TRUE)
              ELSE Decoded(<< >>, decode(raw), FALSE)
        BY DecodeByteDelimiter
      <4>2. decodeByte(unlucky, Decoded(raw, Nothing, FALSE), Delimiter)
              = DecodedAs(raw, p, 1)
        <5>1. CASE raw = << >>
          BY <4>1, <3>2, <5>1, Zenon DEF mp
        <5>2. CASE raw # << >>
          <6>1. mp = decode(raw)
            BY <5>2 DEF mp
          <6>2. CASE raw \in unlucky
            BY <4>1, <3>2, <5>2, <6>2, Zenon
          <6>3. CASE raw \notin unlucky
            BY <4>1, <3>2, <5>2, <6>1, <6>3, Zenon
          <6>4. QED
            BY <6>2, <6>3
        <5>3. QED
          BY <5>1, <5>2
      <4>3. QED
        BY <2>4, <3>1, <4>2
  <2>5. CASE p.at = 0 /\ i > 1 /\ raw # << >> /\ raw \in unlucky
    <3>1. /\ DecodedAs(raw, p, i - 1) = Decoded(raw, Nothing, TRUE)
          /\ DecodedAs(raw, p, i) = Decoded(raw, Nothing, TRUE)
      <4>1. i # 0 /\ i - 1 # 0
        BY <2>1, <2>5
      <4>2. QED
        BY <2>5, <4>1, Zenon DEF DecodedAs
    <3>2. QED
      BY <3>1, DecodeByteThrown, Zenon
  <2>6. CASE p.at = 0 /\ i > 1 /\ ~(raw # << >> /\ raw \in unlucky) /\ i < L
    <3>a. i # 0 /\ i - 1 # 0 /\ p.at + i < L /\ p.at + (i - 1) < L
      BY <1>1, <2>1, <2>6
    <3>1. DecodedAs(raw, p, i - 1) = Decoded(Stacked(raw, p, i - 1), mp, FALSE)
      BY <2>6, <3>a, Zenon DEF DecodedAs, mp, L
    <3>2. DecodedAs(raw, p, i) = Decoded(Stacked(raw, p, i), mp, FALSE)
      BY <2>6, <3>a, Zenon DEF DecodedAs, mp, L
    <3>3. p.data[i] # Delimiter
          /\ Append(Stacked(raw, p, i - 1), p.data[i]) = Stacked(raw, p, i)
      BY <1>1, <2>1, <2>6, StackedNext DEF L, n
    <3>4. QED
      <4>1. \A x : x # Delimiter =>
              decodeByte(unlucky, Decoded(Stacked(raw, p, i - 1), mp, FALSE), x)
                = Decoded(Append(Stacked(raw, p, i - 1), x), mp, FALSE)
        BY DEF decodeByte, Decoded
      <4>2. QED
        BY <3>1, <3>2, <3>3, <4>1
  <2>7. CASE p.at = 0 /\ i > 1 /\ ~(raw # << >> /\ raw \in unlucky) /\ i = L
    <3> DEFINE B == Body(p.of, Size[p.of])
    <3>1. Stacked(raw, p, i - 1) = B
      BY <1>1, <2>7, MiddleIsBody DEF Stacked, L
    <3> HIDE DEF B
    <3>a. i # 0 /\ i - 1 # 0 /\ ~(p.at + i < L) /\ p.at + (i - 1) < L
      BY <1>1, <2>1, <2>7
    <3>2. DecodedAs(raw, p, i - 1) = Decoded(B, mp, FALSE)
      BY <2>7, <3>a, <3>1, Zenon DEF DecodedAs, mp, L
    <3>3. DecodedAs(raw, p, i) = Decoded(<< >>, p.of, FALSE)
      BY <2>7, <3>a, Zenon DEF DecodedAs, L
    <3>4. decode(B) = p.of /\ B # << >> /\ B \notin unlucky
      BY <1>1, DecodeBody DEF B
    <3>5. p.data[i] = Delimiter
      BY <1>1, <2>3, <2>7
    <3>6. QED
      <4>1. decodeByte(unlucky, Decoded(B, mp, FALSE), Delimiter)
              = Decoded(<< >>, p.of, FALSE)
        BY <3>4, DecodeByteDelimiter
      <4>2. QED
        BY <3>2, <3>3, <3>5, <4>1
  <2>8. CASE p.at # 0
    <3>1. i = 1 => Stacked(raw, p, i - 1) = raw
      <4>1. SUFFICES Stacked(raw, p, 0) = raw
        OBVIOUS
      <4>2. SubSeq(Encoded(p.of), p.at + 1, p.at + 0) = << >>
        BY <1>1, SubSeqEmpty
      <4>3. raw \o << >> = raw
        BY ConcatEmptySeq
      <4>4. QED
        BY <4>2, <4>3, <2>8 DEF Stacked
    <3> DEFINE r == Stacked(raw, p, i - 1)
    <3>2. DecodedAs(raw, p, i - 1) = Decoded(r, Nothing, FALSE)
      <4>1. p.at + (i - 1) < L /\ (i = 1 <=> i - 1 = 0)
        BY <1>1, <2>1
      <4> HIDE DEF r
      <4>2. CASE i - 1 = 0
        BY <3>1, <4>1, <4>2, Zenon DEF DecodedAs, r
      <4>3. CASE i - 1 # 0
        BY <2>8, <4>1, <4>3, Zenon DEF DecodedAs, L, r
      <4>4. QED
        BY <4>2, <4>3
    <3>a. i # 0
      BY <2>1
    <3>3. CASE p.at + i < L
      <4>1. DecodedAs(raw, p, i) = Decoded(Stacked(raw, p, i), Nothing, FALSE)
        BY <2>8, <3>3, <3>a, Zenon DEF DecodedAs, L
      <4>2. p.data[i] # Delimiter /\ Append(r, p.data[i]) = Stacked(raw, p, i)
        <5>1. p.at + i > 1 /\ p.at + i < Len(Encoded(p.of)) /\ i \in 1 .. Len(p.data)
          BY <1>1, <2>1, <2>8, <3>3 DEF L, n
        <5>2. /\ p.data[i] # Delimiter
              /\ Append(IF i = 1 THEN raw ELSE Stacked(raw, p, i - 1), p.data[i])
                   = Stacked(raw, p, i)
          BY <5>1, StackedNext
        <5> HIDE DEF r
        <5>3. (IF i = 1 THEN raw ELSE Stacked(raw, p, i - 1)) = r
          BY <3>1, Zenon DEF r
        <5>4. QED
          BY <5>2, <5>3
      <4> HIDE DEF r
      <4>3. QED
        <5>1. \A x : x # Delimiter =>
                decodeByte(unlucky, Decoded(r, Nothing, FALSE), x)
                  = Decoded(Append(r, x), Nothing, FALSE)
          BY DEF decodeByte, Decoded
        <5>2. QED
          BY <3>2, <4>1, <4>2, <5>1
    <3>4. CASE p.at + i = L
      <4>1. DecodedAs(raw, p, i) =
              IF r = << >> THEN Decoded(<< >>, Nothing, FALSE)
              ELSE IF r \in unlucky THEN Decoded(r, Nothing, TRUE)
              ELSE Decoded(<< >>, decode(r), FALSE)
        <5>1. ~(p.at + i < L)
          BY <1>1, <3>4
        <5>2. QED
          BY <2>8, <3>a, <5>1, Zenon DEF DecodedAs, L
      <4>2. p.data[i] = Delimiter
        BY <2>3, <3>4
      <4> HIDE DEF r
      <4>3. QED
        <5>1. decodeByte(unlucky, Decoded(r, Nothing, FALSE), Delimiter) =
                IF r = << >> THEN Decoded(<< >>, Nothing, FALSE)
                ELSE IF r \in unlucky THEN Decoded(r, Nothing, TRUE)
                ELSE Decoded(<< >>, decode(r), FALSE)
          BY DecodeByteDelimiter
        <5>2. QED
          BY <3>2, <4>1, <4>2, <5>1
    <3>5. QED
      BY <1>1, <2>1, <3>3, <3>4
  <2>9. QED
    BY <1>1, <2>1, <2>4, <2>5, <2>6, <2>7, <2>8
<1>4. << n, decoder(unlucky, raw, p.data) >> \in J
  <2>1. ASSUME NEW i \in 1 .. n, NEW s, << i - 1, s >> \in J
        PROVE  << i, decodeByte(unlucky, s, p.data[i]) >> \in J
    <3>1. s = DecodedAs(raw, p, i - 1)
      BY <2>1
    <3>2. i \in 0 .. n
      BY <1>1
    <3>3. QED
      BY <3>1, <3>2, <1>3
  <2> HIDE DEF J
  <2>2. QED
    BY <1>1, <1>2, <2>1, DecoderInduction
<1>5. QED
  BY <1>4

-----------------------------------------------------------------------------
(* A notification lies within its message.                                 *)
LEMMA PieceTypes ==
  ASSUME NEW p \in Notification, IsPiece(p)
  PROVE  /\ p.of \in Message /\ p.at \in Nat /\ p.data \in Seq(Byte)
         /\ Len(p.data) \in Nat \ {0}
         /\ End(p) = p.at + Len(p.data) /\ End(p) \in Nat
         /\ Len(Encoded(p.of)) \in Nat /\ Len(Encoded(p.of)) > 2
         /\ End(p) <= Len(Encoded(p.of))
<1>1. p.of \in Message /\ p.at \in Nat /\ p.data \in Seq(Byte)
  BY DEF Notification
<1>2. Len(p.data) \in Nat \ {0}
  BY <1>1, EmptySeq DEF IsPiece
<1>3. Len(Encoded(p.of)) = Size[p.of] + 2 /\ Size[p.of] \in Nat \ {0}
  BY <1>1, EncodedFacts, MessageFacts
<1>4. End(p) <= Len(Encoded(p.of))
  BY DEF IsPiece
<1>5. End(p) = p.at + Len(p.data) /\ End(p) \in Nat
  BY ONLY <1>1, <1>2 DEF End
<1>6. QED
  BY ONLY <1>1, <1>2, <1>3, <1>4, <1>5

(* What is stacked up before the last delimiter: letters of the message    *)
(* and, where it continues one, of what was in the buffer.                 *)
LEMMA StackedFacts ==
  ASSUME NEW p \in Notification, IsPiece(p), NEW raw \in Seq(Letters),
         NEW i \in Nat, p.at + i < Len(Encoded(p.of))
  PROVE  /\ Stacked(raw, p, i) \in Seq(Letters)
         /\ \A j \in 1 .. Len(Stacked(raw, p, i)) :
              \/ Stacked(raw, p, i)[j][1] = p.of
              \/ /\ p.at # 0
                 /\ \E k \in 1 .. Len(raw) : Stacked(raw, p, i)[j][1] = raw[k][1]
         /\ p.at = 0 \/ raw = SubSeq(Encoded(p.of), 2, p.at) =>
              Stacked(raw, p, i) = SubSeq(Encoded(p.of), 2, p.at + i)
<1>1. PICK m, at : m = p.of /\ at = p.at
  OBVIOUS
<1>2. /\ m \in DOMAIN Size /\ at \in Nat /\ raw \in Seq(FrameLetters(Size))
      /\ at + i < Len(encoder(m, Size[m]))
  BY <1>1, PieceTypes DEF Message, Encoded, Letters
<1>3. PICK T : T = FrameStacked(Size, m, raw, at, i)
  OBVIOUS
<1>4. /\ T \in Seq(FrameLetters(Size))
      /\ \A j \in 1 .. Len(T) :
           \/ T[j][1] = m
           \/ at # 0 /\ \E k \in 1 .. Len(raw) : T[j][1] = raw[k][1]
      /\ at = 0 \/ raw = SubSeq(encoder(m, Size[m]), 2, at) =>
           T = SubSeq(encoder(m, Size[m]), 2, at + i)
  <2>1. PICK size : size = Size
    OBVIOUS
  <2>2. size \in Seq(Nat \ {0}) /\ m \in DOMAIN size /\ at \in Nat
        /\ raw \in Seq(FrameLetters(size)) /\ at + i < Len(encoder(m, size[m]))
    BY <1>2, <2>1, SizeAssumption
  <2>3. FrameStacked(size, m, raw, at, i) \in Seq(FrameLetters(size))
    BY <2>2, FrameStackedFacts
  <2>4. \A j \in 1 .. Len(FrameStacked(size, m, raw, at, i)) :
          \/ FrameStacked(size, m, raw, at, i)[j][1] = m
          \/ /\ at # 0
             /\ \E k \in 1 .. Len(raw) :
                  FrameStacked(size, m, raw, at, i)[j][1] = raw[k][1]
    BY <2>2, FrameStackedFacts
  <2>5. at = 0 \/ raw = SubSeq(encoder(m, size[m]), 2, at) =>
          FrameStacked(size, m, raw, at, i)
            = SubSeq(encoder(m, size[m]), 2, at + i)
    BY <2>2, FrameStackedOwn
  <2>6. QED
    BY <1>3, <2>1, <2>3, <2>4, <2>5
<1>5. T = Stacked(raw, p, i)
  BY <1>1, <1>3 DEF FrameStacked, Stacked, Encoded
<1>6. QED
  BY <1>1, <1>4, <1>5 DEF Letters, Encoded

(* What the listener makes of notification p with raw in the buffer.       *)
DecodedWell(d, raw, p) ==
  /\ d.thrown \in BOOLEAN
  /\ d.raw \in Seq(Letters)
  /\ d.map \in Message \cup {Nothing}
  /\ \A j \in 1 .. Len(d.raw) :
       \/ d.raw[j][1] = p.of
       \/ \E k \in 1 .. Len(raw) : d.raw[j][1] = raw[k][1]
  /\ ~d.thrown /\ d.map # Nothing =>
       \/ IsLast(p) /\ d.raw = << >> /\ d.map = p.of
       \/ /\ \E k \in 1 .. Len(raw) : raw[k][1] = d.map
          /\ \/ IsLast(p) /\ d.raw = << >>
             \/ p.at = 0 /\ \A j \in 1 .. Len(d.raw) : d.raw[j][1] = p.of
  /\ ~d.thrown /\ (p.at = 0 \/ raw = SubSeq(Encoded(p.of), 2, p.at)) =>
       IF IsLast(p) THEN d.raw = << >> /\ d.map = p.of
                    ELSE d.raw = SubSeq(Encoded(p.of), 2, End(p))
  /\ raw = SubSeq(Encoded(p.of), 2, p.at) =>
       ~d.thrown /\ (~IsLast(p) => d.map = Nothing)

(* Letters that decode to a message are letters of that message.           *)
LEMMA MapOfLetters ==
  ASSUME NEW raw \in Seq(Letters), decode(raw) # Nothing
  PROVE  /\ decode(raw) \in Message
         /\ \E k \in 1 .. Len(raw) : raw[k][1] = decode(raw)
<1>1. raw # << >> /\ decode(raw) \in Message
      /\ \A i \in 1 .. Len(raw) : raw[i][1] = decode(raw)
  BY DecodeLetters
<1>2. 1 \in 1 .. Len(raw)
  BY <1>1, EmptySeq
<1>3. QED
  BY <1>1, <1>2

(* A notification leaves in the buffer nothing but letters of its own      *)
(* message and of what was there; what it decodes is one of these          *)
(* messages; its own, if all of it was there.                              *)
LEMMA PieceDecoded ==
  ASSUME NEW p \in Notification, IsPiece(p), NEW raw \in Seq(Letters),
         unlucky \subseteq ShortEnds
  PROVE  DecodedWell(decoder(unlucky, raw, p.data), raw, p)
<1> DEFINE n == Len(p.data)
           L == Len(Encoded(p.of))
           d == DecodedAs(raw, p, n)
           S == Stacked(raw, p, n)
           r == Stacked(raw, p, n - 1)
<1>1. /\ p.of \in Message /\ p.at \in Nat /\ n \in Nat /\ n # 0
      /\ L \in Nat /\ L > 2 /\ p.at + n <= L
      /\ End(p) = p.at + n
      /\ IsLast(p) <=> p.at + n = L
  BY PieceTypes DEF IsLast
<1>2. decoder(unlucky, raw, p.data) = d
  BY DecoderOnPiece
<1>3. << >> \in Seq(Letters) /\ \A j \in 1 .. Len(<< >>) : FALSE
  BY EmptySeq
<1>4. p.at = 0 /\ raw = SubSeq(Encoded(p.of), 2, p.at) => raw = << >>
  <2>1. SubSeq(Encoded(p.of), 2, 0) = << >>
    BY SubSeqEmpty
  <2>2. QED
    BY <2>1
<1>5. CASE p.at = 0 /\ raw # << >> /\ raw \in unlucky
  <2>1. d = Decoded(raw, Nothing, TRUE)
    BY <1>1, <1>5, Zenon DEF DecodedAs
  <2>2. d.raw = raw /\ d.map = Nothing /\ d.thrown = TRUE
    BY <2>1 DEF Decoded
  <2> HIDE DEF d
  <2>3. QED
    BY <2>2, <1>2, <1>4, <1>5 DEF DecodedWell
<1>6. CASE p.at = 0 /\ ~(raw # << >> /\ raw \in unlucky) /\ ~IsLast(p)
  <2> DEFINE mp == IF raw = << >> THEN Nothing ELSE decode(raw)
  <2>1. p.at + n < L
    BY <1>1, <1>6
  <2>2. d = Decoded(S, mp, FALSE)
    BY <1>1, <1>6, <2>1, Zenon DEF DecodedAs
  <2>3. d.raw = S /\ d.map = mp /\ d.thrown = FALSE
    BY <2>2 DEF Decoded
  <2>4. /\ S \in Seq(Letters)
        /\ \A j \in 1 .. Len(S) : S[j][1] = p.of
        /\ S = SubSeq(Encoded(p.of), 2, End(p))
    <3>1. /\ Stacked(raw, p, n) \in Seq(Letters)
          /\ \A j \in 1 .. Len(Stacked(raw, p, n)) :
               \/ Stacked(raw, p, n)[j][1] = p.of
               \/ /\ p.at # 0
                  /\ \E k \in 1 .. Len(raw) : Stacked(raw, p, n)[j][1] = raw[k][1]
          /\ p.at = 0 \/ raw = SubSeq(Encoded(p.of), 2, p.at) =>
               Stacked(raw, p, n) = SubSeq(Encoded(p.of), 2, p.at + n)
      <4> HIDE DEF n
      <4>1. QED
        BY <1>1, <2>1, StackedFacts
    <3> HIDE DEF n
    <3>2. QED
      BY <3>1, <1>1, <1>6
  <2>5. mp # Nothing => /\ mp \in Message
                        /\ \E k \in 1 .. Len(raw) : raw[k][1] = mp
    BY MapOfLetters
  <2>6. raw = << >> => mp = Nothing
    OBVIOUS
  <2> HIDE DEF d, S, mp
  <2>7. QED
    BY <2>3, <2>4, <2>5, <2>6, <1>2, <1>4, <1>6 DEF DecodedWell
<1>7. CASE p.at = 0 /\ ~(raw # << >> /\ raw \in unlucky) /\ IsLast(p)
  <2>1. ~(p.at + n < L)
    BY <1>1, <1>7
  <2>2. d = Decoded(<< >>, p.of, FALSE)
    BY <1>1, <1>7, <2>1, Zenon DEF DecodedAs
  <2>3. d.raw = << >> /\ d.map = p.of /\ d.thrown = FALSE
    BY <2>2 DEF Decoded
  <2> HIDE DEF d
  <2>4. QED
    <3>1. p.of \in Message
      BY <1>1
    <3>2. QED
      BY <3>1, <2>3, <1>2, <1>3, <1>7 DEF DecodedWell
<1>8. CASE p.at # 0 /\ ~IsLast(p)
  <2>1. p.at + n < L
    BY <1>1, <1>8
  <2>2. d = Decoded(S, Nothing, FALSE)
    BY <1>1, <1>8, <2>1, Zenon DEF DecodedAs
  <2>3. d.raw = S /\ d.map = Nothing /\ d.thrown = FALSE
    BY <2>2 DEF Decoded
  <2>4. /\ S \in Seq(Letters)
        /\ \A j \in 1 .. Len(S) :
             \/ S[j][1] = p.of
             \/ \E k \in 1 .. Len(raw) : S[j][1] = raw[k][1]
        /\ raw = SubSeq(Encoded(p.of), 2, p.at) =>
             S = SubSeq(Encoded(p.of), 2, End(p))
    <3>1. /\ Stacked(raw, p, n) \in Seq(Letters)
          /\ \A j \in 1 .. Len(Stacked(raw, p, n)) :
               \/ Stacked(raw, p, n)[j][1] = p.of
               \/ /\ p.at # 0
                  /\ \E k \in 1 .. Len(raw) : Stacked(raw, p, n)[j][1] = raw[k][1]
          /\ p.at = 0 \/ raw = SubSeq(Encoded(p.of), 2, p.at) =>
               Stacked(raw, p, n) = SubSeq(Encoded(p.of), 2, p.at + n)
      <4> HIDE DEF n
      <4>1. QED
        BY <1>1, <2>1, StackedFacts
    <3> HIDE DEF n
    <3>2. QED
      BY <3>1, <1>1
  <2> HIDE DEF d, S
  <2>5. QED
    BY <2>3, <2>4, <1>2, <1>8 DEF DecodedWell
<1>9. CASE p.at # 0 /\ IsLast(p)
  <2>1. ~(p.at + n < L) /\ n - 1 \in Nat /\ p.at + (n - 1) < L
        /\ p.at + (n - 1) = L - 1
    BY <1>1, <1>9
  <2>2. /\ r \in Seq(Letters)
        /\ \A j \in 1 .. Len(r) :
             \/ r[j][1] = p.of
             \/ \E k \in 1 .. Len(raw) : r[j][1] = raw[k][1]
        /\ raw = SubSeq(Encoded(p.of), 2, p.at) =>
             r = SubSeq(Encoded(p.of), 2, L - 1)
    <3> DEFINE k == n - 1
    <3>1. /\ Stacked(raw, p, k) \in Seq(Letters)
          /\ \A j \in 1 .. Len(Stacked(raw, p, k)) :
               \/ Stacked(raw, p, k)[j][1] = p.of
               \/ /\ p.at # 0
                  /\ \E l \in 1 .. Len(raw) : Stacked(raw, p, k)[j][1] = raw[l][1]
          /\ p.at = 0 \/ raw = SubSeq(Encoded(p.of), 2, p.at) =>
               Stacked(raw, p, k) = SubSeq(Encoded(p.of), 2, p.at + k)
      <4>1. k \in Nat /\ p.at + k < Len(Encoded(p.of))
        BY <2>1
      <4> HIDE DEF k
      <4>2. QED
        BY <4>1, StackedFacts
    <3>2. p.at + k = L - 1
      BY <2>1
    <3>3. r = Stacked(raw, p, k)
      OBVIOUS
    <3> HIDE DEF r, k
    <3>4. QED
      BY <3>1, <3>2, <3>3
  <2>3. raw = SubSeq(Encoded(p.of), 2, p.at) =>
          r # << >> /\ r \notin unlucky /\ decode(r) = p.of
    BY <1>1, <2>2, MiddleIsBody, DecodeBody
  <2>4. CASE r = << >>
    <3>1. d = Decoded(<< >>, Nothing, FALSE)
      BY <1>1, <1>9, <2>1, <2>4, Zenon DEF DecodedAs
    <3>2. d.raw = << >> /\ d.map = Nothing /\ d.thrown = FALSE
      BY <3>1 DEF Decoded
    <3> HIDE DEF d, r
    <3>3. QED
      BY <3>2, <2>3, <2>4, <1>2, <1>3, <1>9 DEF DecodedWell
  <2>5. CASE r # << >> /\ r \in unlucky
    <3>1. d = Decoded(r, Nothing, TRUE)
      BY <1>1, <1>9, <2>1, <2>5, Zenon DEF DecodedAs
    <3>2. d.raw = r /\ d.map = Nothing /\ d.thrown = TRUE
      BY <3>1 DEF Decoded
    <3> HIDE DEF d, r
    <3>3. QED
      BY <3>2, <2>2, <2>3, <2>5, <1>2, <1>9 DEF DecodedWell
  <2>6. CASE r # << >> /\ r \notin unlucky
    <3>1. d = Decoded(<< >>, decode(r), FALSE)
      BY <1>1, <1>9, <2>1, <2>6, Zenon DEF DecodedAs
    <3>2. d.raw = << >> /\ d.map = decode(r) /\ d.thrown = FALSE
      BY <3>1 DEF Decoded
    <3>3. decode(r) # Nothing =>
            /\ decode(r) \in Message
            /\ \E k \in 1 .. Len(r) : r[k][1] = decode(r)
      BY <2>2, MapOfLetters
    <3>4. decode(r) # Nothing =>
            \/ decode(r) = p.of
            \/ \E k \in 1 .. Len(raw) : raw[k][1] = decode(r)
      BY <3>3, <2>2
    <3> HIDE DEF d, r
    <3>5. QED
      BY <3>2, <3>3, <3>4, <2>3, <1>2, <1>3, <1>9 DEF DecodedWell
  <2>7. QED
    BY <2>4, <2>5, <2>6
<1>10. QED
  BY <1>5, <1>6, <1>7, <1>8, <1>9

-----------------------------------------------------------------------------
(* The smaller of two numbers.                                             *)
LEMMA MinOfTwo ==
  ASSUME NEW x \in Int, NEW y \in Int
  PROVE  Min({x, y}) = IF x <= y THEN x ELSE y
<1> DEFINE m == IF x <= y THEN x ELSE y
<1>1. m \in {x, y} /\ \A z \in {x, y} : m <= z
  OBVIOUS
<1>2. \A u \in {x, y} : (\A z \in {x, y} : u <= z) => u = m
  OBVIOUS
<1>3. Min({x, y}) = CHOOSE u \in {x, y} : \A z \in {x, y} : u <= z
  BY DEF Min
<1> HIDE DEF m
<1>4. QED
  BY <1>1, <1>2, <1>3 DEF m

(* What \div gives: the largest multiple of n that is not above a.         *)
LEMMA DivFacts ==
  ASSUME NEW a \in Nat, NEW n \in Nat \ {0}
  PROVE  a \div n \in Nat /\ n * (a \div n) <= a /\ a < n * (a \div n) + n
  OBVIOUS

(* Multiplication is monotonic.                                            *)
LEMMA TimesMonotonic ==
  ASSUME NEW n \in Nat, NEW x \in Nat, NEW y \in Nat, x <= y
  PROVE  n * x \in Nat /\ n * y \in Nat /\ n * x <= n * y
  OBVIOUS

(* Multiplication by the number before i.                                  *)
LEMMA TimesPred ==
  ASSUME NEW n \in Nat, NEW i \in Nat \ {0}
  PROVE  n * i = n * (i - 1) + n /\ n * i \in Nat /\ n * (i - 1) \in Nat
  OBVIOUS

(* The notifications of a message follow each other from its first byte to *)
(* its last.                                                               *)
LEMMA NotificationsFollow ==
  ASSUME NEW m \in Message, NEW n \in Payloads
  PROVE  LET N == Notifications(m, n)
         IN  /\ N \in Seq(Notification)
             /\ Len(N) \in Nat \ {0}
             /\ N[1].at = 0
             /\ \A i \in 1 .. Len(N) : IsPiece(N[i]) /\ N[i].of = m
             /\ \A i \in 1 .. Len(N) - 1 : Follows(N[i + 1], N[i])
             /\ IsLast(N[Len(N)])
<1> DEFINE E == Encoded(m)
           L == Len(E)
           c == (L + n - 1) \div n
           N == Notifications(m, n)
           to(i) == IF n * i <= L THEN n * i ELSE L
           piece(i) == [of |-> m, at |-> n * (i - 1),
                        data |-> SubSeq(E, n * (i - 1) + 1, to(i))]
<1>1. n \in Nat \ {0} /\ L \in Nat /\ L > 2 /\ E \in Seq(Byte)
  <2>1. L = Size[m] + 2 /\ Size[m] \in Nat \ {0} /\ E \in Seq(Byte)
    BY EncodedFacts, MessageFacts
  <2>2. QED
    BY <2>1, PayloadAssumption
<1> HIDE DEF E, L
<1>2. c \in Nat \ {0} /\ n * (c - 1) < L /\ L <= n * c /\ n * (c - 1) \in Nat
  <2>1. L + n - 1 \in Nat
    BY <1>1
  <2>2. c \in Nat /\ n * c <= L + n - 1 /\ L + n - 1 < n * c + n
    BY <1>1, <2>1, DivFacts
  <2> HIDE DEF c
  <2>3. c # 0
    BY <1>1, <2>2
  <2>4. n * c = n * (c - 1) + n /\ n * c \in Nat /\ n * (c - 1) \in Nat
    BY <1>1, <2>2, <2>3, TimesPred
  <2>5. QED
    BY <1>1, <2>2, <2>3, <2>4
<1>3. ASSUME NEW i \in 1 .. c
      PROVE  /\ n * i \in Nat /\ n * (i - 1) \in Nat
             /\ n * i = n * (i - 1) + n
             /\ n * (i - 1) < L
             /\ i < c => n * i < L
  <2> HIDE DEF c
  <2>1. i \in Nat \ {0} /\ i - 1 \in Nat /\ i - 1 <= c - 1 /\ c - 1 \in Nat
        /\ (i < c => i <= c - 1)
    BY <1>2
  <2>2. n * i = n * (i - 1) + n /\ n * i \in Nat /\ n * (i - 1) \in Nat
    BY <1>1, <2>1, TimesPred
  <2>3. n * (i - 1) <= n * (c - 1)
    BY <1>1, <2>1, TimesMonotonic
  <2>4. i < c => n * i <= n * (c - 1)
    BY <1>1, <2>1, TimesMonotonic
  <2>5. QED
    BY <1>1, <1>2, <2>2, <2>3, <2>4
<1>4. ASSUME NEW i \in 1 .. c
      PROVE  /\ to(i) \in Nat /\ n * (i - 1) < to(i) /\ to(i) <= L
             /\ to(i) - n * (i - 1) <= n
             /\ i < c => to(i) = n * i /\ to(i) < L
             /\ i = c => to(i) = L
             /\ Min({n * i, L}) = to(i)
  <2> HIDE DEF c
  <2>1. Min({n * i, L}) = to(i)
    BY <1>1, <1>3, MinOfTwo
  <2>2. i = c => L <= n * i
    BY <1>2
  <2>3. QED
    BY <1>1, <1>3, <2>1, <2>2
<1>5. /\ DOMAIN N = 1 .. c
      /\ \A i \in 1 .. c : N[i] = piece(i)
  <2>1. Chunks(E, n) = [i \in 1 .. c |-> SubSeq(E, n * (i - 1) + 1, Min({n * i, L}))]
    BY DEF Chunks, L
  <2>2. DOMAIN Chunks(E, n) = 1 .. c
    BY <2>1
  <2>3. N = [i \in 1 .. c |-> [of |-> m, at |-> n * (i - 1), data |-> Chunks(E, n)[i]]]
    BY <2>2 DEF Notifications, E
  <2>4. ASSUME NEW i \in 1 .. c
        PROVE  N[i] = piece(i)
    <3>1. N[i] = [of |-> m, at |-> n * (i - 1), data |-> Chunks(E, n)[i]]
      BY <2>3
    <3>2. Chunks(E, n)[i] = SubSeq(E, n * (i - 1) + 1, to(i))
      BY <2>1, <1>4
    <3>3. QED
      BY <3>1, <3>2
  <2>5. QED
    BY <2>3, <2>4
<1> HIDE DEF N
<1>6. ASSUME NEW i \in 1 .. c
      PROVE  /\ piece(i) \in Notification
             /\ IsPiece(piece(i))
             /\ piece(i).of = m
             /\ piece(i).at = n * (i - 1)
             /\ End(piece(i)) = to(i)
  <2> DEFINE a == n * (i - 1)
             b == to(i)
             s == SubSeq(E, a + 1, b)
             p == piece(i)
  <2>1. a \in Nat /\ b \in Nat /\ a < b /\ b <= L /\ b - a <= n
    BY <1>3, <1>4
  <2>2. p.of = m /\ p.at = a /\ p.data = s
    OBVIOUS
  <2>3. p \in Notification <=> s \in Seq(Byte)
    BY <2>1, <2>2 DEF Notification
  <2> HIDE DEF a, b, to
  <2>4. /\ s \in Seq(Byte)
        /\ Len(s) = b - a
        /\ \A j \in 1 .. b - a : s[j] = E[a + j]
    <3>1. \A j \in a + 1 .. b : E[j] \in Byte
      BY <1>1, <2>1, ElementOfSeq DEF L
    <3>2. /\ s \in Seq(Byte)
          /\ Len(s) = IF a + 1 <= b THEN b - (a + 1) + 1 ELSE 0
          /\ \A j \in 1 .. b - (a + 1) + 1 : s[j] = E[(a + 1) + j - 1]
      BY <2>1, <3>1, SubSeqProperties
    <3>3. b - (a + 1) + 1 = b - a /\ a + 1 <= b
          /\ \A j \in 1 .. b - a : (a + 1) + j - 1 = a + j
      BY <2>1
    <3> HIDE DEF s
    <3>4. QED
      BY <3>2, <3>3
  <2> HIDE DEF s, p
  <2>5. s # << >> /\ Len(s) <= n /\ Len(s) \in Nat /\ a + Len(s) = b
    BY <2>1, <2>4, EmptySeq
  <2>6. IsPiece(p)
    BY <1>1, <2>1, <2>2, <2>4, <2>5 DEF IsPiece, End, E, L
  <2>7. End(p) = b
    BY <2>2, <2>5 DEF End
  <2>8. QED
    BY <2>2, <2>3, <2>4, <2>6, <2>7 DEF p, a, b
<1>7. N \in Seq(Notification) /\ Len(N) = c
  <2> HIDE DEF c, piece
  <2>1. N \in [1 .. c -> Notification]
    <3>1. N = [i \in 1 .. c |-> N[i]]
      BY <1>5 DEF N, Notifications, Chunks, c, L, E
    <3>2. \A i \in 1 .. c : N[i] \in Notification
      BY <1>5, <1>6
    <3>3. QED
      BY <3>1, <3>2
  <2>2. N \in Seq(Notification)
    BY <1>2, <2>1, SeqDef
  <2>3. QED
    BY <1>2, <1>5, <2>2, LenProperties
<1>8. \A i \in 1 .. c : IsLast(piece(i)) <=> to(i) = L
  BY <1>6 DEF IsLast, E, L
<1>9. ASSUME NEW i \in 1 .. Len(N) - 1
      PROVE  Follows(N[i + 1], N[i])
  <2> HIDE DEF c, to, piece
  <2>1. i \in 1 .. c /\ i + 1 \in 1 .. c /\ i < c /\ (i + 1) - 1 = i
    BY <1>2, <1>7
  <2>2. ~IsLast(piece(i)) /\ End(piece(i)) = n * i /\ piece(i).of = m
    <3>1. to(i) = n * i /\ to(i) < L
      BY <2>1, <1>4
    <3>2. QED
      BY <2>1, <1>1, <3>1, <1>6, <1>8
  <2>3. piece(i + 1).of = m /\ piece(i + 1).at = n * i
    BY <2>1, <1>6
  <2>4. QED
    BY <2>1, <2>2, <2>3, <1>5 DEF Follows
<1>10. IsLast(N[Len(N)])
  <2> HIDE DEF c, to, piece
  <2>1. c \in 1 .. c
    BY <1>2
  <2>2. QED
    BY <2>1, <1>4, <1>5, <1>7, <1>8
<1>11. N[1].at = 0
  <2> HIDE DEF c, to, piece
  <2>1. 1 \in 1 .. c /\ n * (1 - 1) = 0
    BY <1>1, <1>2
  <2>2. QED
    BY <2>1, <1>5, <1>6
<1>12. QED
  <2> HIDE DEF c, to, piece
  <2>1. \A i \in 1 .. Len(N) : IsPiece(N[i]) /\ N[i].of = m
    BY <1>5, <1>6, <1>7
  <2>2. QED
    BY <2>1, <1>2, <1>7, <1>9, <1>10, <1>11 DEF N

-----------------------------------------------------------------------------
(* Without its first notification, what is under way is still in order;    *)
(* its front is behind that notification.                                  *)
LEMMA InOrderTail ==
  ASSUME NEW k \in Nat, NEW q, InOrder(q, k), q # << >>
  PROVE  /\ Head(q) = q[1] /\ Head(q) \in Notification
         /\ IsPiece(Head(q)) /\ Head(q).of <= k
         /\ InOrder(Tail(q), k)
         /\ FrontOf(Tail(q), k) =
              IF IsLast(Head(q)) THEN Head(q).of + 1 ELSE Head(q).of
         /\ FrontAt(Tail(q)) = IF IsLast(Head(q)) THEN 0 ELSE End(Head(q))
<1> DEFINE r == Tail(q)
           n == Len(q)
<1>1. /\ q \in Seq(Notification)
      /\ \A i \in 1 .. n : IsPiece(q[i]) /\ q[i].of <= k
      /\ \A i \in 1 .. n - 1 : Follows(q[i + 1], q[i])
      /\ q[n].of = k /\ IsLast(q[n])
  BY DEF InOrder
<1>2. n \in Nat /\ n >= 1 /\ Head(q) = q[1]
  BY <1>1, EmptySeq
<1>3. /\ r \in Seq(Notification) /\ Len(r) = n - 1
      /\ \A i \in 1 .. n - 1 : r[i] = q[i + 1]
  BY <1>1, HeadTailProperties
<1> HIDE DEF r, n
<1>4. r = << >> <=> n = 1
  BY <1>2, <1>3, EmptySeq
<1>5. q[1] \in Notification /\ IsPiece(q[1]) /\ q[1].of <= k
  BY <1>1, <1>2, ElementOfSeq DEF n
<1>6. ASSUME NEW i \in 1 .. n - 1
      PROVE  IsPiece(r[i]) /\ r[i].of <= k
  <2>1. i + 1 \in 1 .. n
    BY <1>2
  <2>2. QED
    BY <2>1, <1>1, <1>3
<1>7. ASSUME NEW i \in 1 .. (n - 1) - 1
      PROVE  Follows(r[i + 1], r[i])
  <2>1. i \in 1 .. n - 1 /\ i + 1 \in 1 .. n - 1
    BY <1>2
  <2>2. QED
    BY <2>1, <1>1, <1>3
<1>8. r # << >> => r[n - 1].of = k /\ IsLast(r[n - 1])
  <2>1. SUFFICES ASSUME n # 1
                 PROVE  r[n - 1] = q[n]
    BY <1>1, <1>4
  <2>2. n - 1 \in 1 .. n - 1 /\ (n - 1) + 1 = n
    BY <1>2, <2>1
  <2>3. QED
    BY <2>2, <1>3
<1>9. InOrder(r, k)
  BY <1>3, <1>6, <1>7, <1>8 DEF InOrder, n
<1>10. /\ FrontOf(r, k) = IF IsLast(q[1]) THEN q[1].of + 1 ELSE q[1].of
       /\ FrontAt(r) = IF IsLast(q[1]) THEN 0 ELSE End(q[1])
  <2>1. CASE n = 1
    BY <2>1, <1>1, <1>4 DEF FrontOf, FrontAt
  <2>2. CASE n # 1
    <3>1. 1 \in 1 .. n - 1 /\ r # << >>
      BY <2>2, <1>2, <1>4
    <3>2. r[1] = q[1 + 1] /\ Follows(q[1 + 1], q[1])
      BY <3>1, <1>1, <1>3
    <3>3. QED
      BY <3>1, <3>2 DEF FrontOf, FrontAt, Follows
  <2>3. QED
    BY <2>1, <2>2
<1>11. QED
  BY <1>2, <1>5, <1>9, <1>10 DEF r

(* A message sent behind what is under way leaves it in order, and its     *)
(* front as it was.                                                        *)
LEMMA InOrderSend ==
  ASSUME NEW k \in Nat, k + 1 \in Message, NEW q, InOrder(q, k),
         NEW n \in Payloads
  PROVE  /\ InOrder(q \o Notifications(k + 1, n), k + 1)
         /\ FrontOf(q \o Notifications(k + 1, n), k + 1) = FrontOf(q, k)
         /\ FrontAt(q \o Notifications(k + 1, n)) = FrontAt(q)
<1>1. PICK N : N = Notifications(k + 1, n)
  OBVIOUS
<1>2. /\ N \in Seq(Notification)
      /\ Len(N) \in Nat \ {0}
      /\ N[1].at = 0
      /\ \A i \in 1 .. Len(N) : IsPiece(N[i]) /\ N[i].of = k + 1
      /\ \A i \in 1 .. Len(N) - 1 : Follows(N[i + 1], N[i])
      /\ IsLast(N[Len(N)])
  BY <1>1, NotificationsFollow
<1>3. /\ q \in Seq(Notification) /\ Len(q) \in Nat
      /\ \A i \in 1 .. Len(q) : IsPiece(q[i]) /\ q[i].of <= k
      /\ \A i \in 1 .. Len(q) - 1 : Follows(q[i + 1], q[i])
      /\ q # << >> => q[Len(q)].of = k /\ IsLast(q[Len(q)])
  BY LenProperties DEF InOrder
<1>4. PICK s : s = q \o N
  OBVIOUS
<1>5. /\ s \in Seq(Notification)
      /\ Len(s) = Len(q) + Len(N)
      /\ \A i \in 1 .. Len(q) : s[i] = q[i]
      /\ \A i \in 1 .. Len(N) : s[Len(q) + i] = N[i]
  BY <1>2, <1>3, <1>4, ConcatFacts
<1>6. ASSUME NEW i \in 1 .. Len(s)
      PROVE  \/ i \in 1 .. Len(q) /\ s[i] = q[i]
             \/ i - Len(q) \in 1 .. Len(N) /\ s[i] = N[i - Len(q)]
  <2>1. CASE i <= Len(q)
    BY <2>1, <1>2, <1>3, <1>5
  <2>2. CASE ~(i <= Len(q))
    <3>1. i - Len(q) \in 1 .. Len(N) /\ Len(q) + (i - Len(q)) = i
      BY <2>2, <1>2, <1>3, <1>5
    <3>2. QED
      BY <3>1, <1>5
  <2>3. QED
    BY <2>1, <2>2
<1>7. ASSUME NEW i \in 1 .. Len(s)
      PROVE  IsPiece(s[i]) /\ s[i].of <= k + 1
  <2>1. CASE i \in 1 .. Len(q) /\ s[i] = q[i]
    <3>1. q[i] \in Notification /\ q[i].of <= k /\ IsPiece(q[i])
      BY <2>1, <1>3, ElementOfSeq
    <3>2. q[i].of \in Nat
      BY <3>1, MessageFacts DEF Notification
    <3>3. QED
      BY <2>1, <3>1, <3>2
  <2>2. CASE i - Len(q) \in 1 .. Len(N) /\ s[i] = N[i - Len(q)]
    BY <2>2, <1>2
  <2>3. QED
    BY <2>1, <2>2, <1>6
<1>8. ASSUME NEW i \in 1 .. Len(s) - 1
      PROVE  Follows(s[i + 1], s[i])
  <2>1. CASE i < Len(q)
    <3>1. i \in 1 .. Len(q) - 1 /\ i \in 1 .. Len(q) /\ i + 1 \in 1 .. Len(q)
      BY <2>1, <1>2, <1>3, <1>5
    <3>2. QED
      BY <3>1, <1>3, <1>5
  <2>2. CASE i = Len(q)
    <3>1. i \in 1 .. Len(q) /\ q # << >> /\ 1 \in 1 .. Len(N) /\ i + 1 = Len(q) + 1
      BY <2>2, <1>2, <1>3, <1>5, EmptySeq
    <3>2. s[i] = q[Len(q)] /\ s[i + 1] = N[1]
      BY <3>1, <2>2, <1>5
    <3>3. QED
      BY <3>1, <3>2, <1>2, <1>3 DEF Follows
  <2>3. CASE i > Len(q)
    <3>1. i - Len(q) \in 1 .. Len(N) - 1 /\ i - Len(q) \in 1 .. Len(N)
          /\ i - Len(q) + 1 \in 1 .. Len(N)
          /\ Len(q) + (i - Len(q)) = i /\ Len(q) + (i - Len(q) + 1) = i + 1
      BY <2>3, <1>2, <1>3, <1>5
    <3>2. PICK j : j = i - Len(q)
      OBVIOUS
    <3>3. s[Len(q) + j] = N[j] /\ s[Len(q) + (j + 1)] = N[j + 1]
      BY <3>1, <3>2, <1>5
    <3>4. Follows(N[j + 1], N[j])
      BY <3>1, <3>2, <1>2
    <3>5. QED
      BY <3>1, <3>2, <3>3, <3>4
  <2>4. QED
    BY <2>1, <2>2, <2>3, <1>2, <1>3, <1>5
<1>9. s[Len(s)].of = k + 1 /\ IsLast(s[Len(s)])
  <2>1. Len(N) \in 1 .. Len(N)
    BY <1>2
  <2>2. QED
    BY <2>1, <1>2, <1>5
<1>10. InOrder(s, k + 1)
  BY <1>5, <1>7, <1>8, <1>9 DEF InOrder
<1>11. s # << >>
  BY <1>2, <1>3, <1>5, EmptySeq
<1>12. FrontOf(s, k + 1) = FrontOf(q, k) /\ FrontAt(s) = FrontAt(q)
  <2>1. CASE q = << >>
    <3>1. 1 \in 1 .. Len(N) /\ Len(q) + 1 = 1
      BY <2>1, <1>2, EmptySeq
    <3>2. s[1] = N[1]
      BY <3>1, <1>5
    <3>3. QED
      BY <3>1, <3>2, <2>1, <1>2, <1>11 DEF FrontOf, FrontAt
  <2>2. CASE q # << >>
    <3>1. 1 \in 1 .. Len(q)
      BY <2>2, <1>3, EmptySeq
    <3>2. s[1] = q[1]
      BY <3>1, <1>5
    <3>3. QED
      BY <3>2, <2>2, <1>11 DEF FrontOf, FrontAt
  <2>3. QED
    BY <2>1, <2>2
<1>13. QED
  BY <1>1, <1>4, <1>10, <1>12

-----------------------------------------------------------------------------
(* The length of an encoded message.                                       *)
LEMMA EncodedLength ==
  /\ Message = 1 .. Len(Size) /\ Len(Size) \in Nat
  /\ \A m \in Message : Len(Encoded(m)) \in Nat /\ Len(Encoded(m)) > 2
<1>1. ASSUME NEW m \in Message
      PROVE  Len(Encoded(m)) \in Nat /\ Len(Encoded(m)) > 2
  <2>1. Len(Encoded(m)) = Size[m] + 2 /\ Size[m] \in Nat \ {0}
    BY EncodedFacts, MessageFacts
  <2>2. QED
    BY ONLY <2>1
<1>2. QED
  BY <1>1, MessageFacts

(* What is lost or missed is behind the front: of message c, the listener  *)
(* has not been given all, and it has been given nothing of later ones.    *)
LEMMA FrontMoves ==
  ASSUME Types, NEW c \in Message, NEW a \in Nat, ListenerInv(c, a),
         a < Len(Encoded(c)),
         NEW c2 \in Nat, NEW a2 \in Nat,
         \/ c2 = c /\ a2 > a
         \/ c2 > c /\ a2 = 0
  PROVE  ListenerInv(c2, a2)
<1>1. /\ Message = 1 .. Len(Size) /\ Len(Size) \in Nat
      /\ \A m \in Message : Len(Encoded(m)) \in Nat /\ Len(Encoded(m)) > 2
  BY EncodedLength
<1>2. \A m \in Message : arrived[m] \in Nat
  BY DEF Types
<1>3. ArrivedBefore(c, a) /\ c \in Nat
  BY <1>1 DEF ListenerInv
<1>4. \A m \in Message : c <= m => ~Whole(m)
  BY <1>1, <1>2, <1>3 DEF ArrivedBefore, Whole
<1>5. ArrivedBefore(c2, a2)
  BY <1>1, <1>2, <1>3 DEF ArrivedBefore
<1>6. RawBefore(c2, a2)
  <2>1. ASSUME NEW i \in 1 .. Len(dataRaw)
        PROVE  dataRaw[i][1] \in Nat
    <3>1. dataRaw[i] \in Letters
      BY ElementOfSeq DEF Types
    <3>2. QED
      BY <3>1, <1>1, LetterFacts
  <2>2. RawBefore(c, a)
    BY DEF ListenerInv
  <2>3. QED
    BY <2>1, <2>2, <1>3 DEF RawBefore
<1>7. HeardBefore(c2)
  <2>1. HeardBefore(c)
    BY DEF ListenerInv
  <2>2. \A j \in 1 .. Len(heard) : heard[j] \in Nat
    BY <1>1, ElementOfSeq DEF Types
  <2>3. QED
    BY <2>1, <2>2, <1>3 DEF HeardBefore
<1>8. RawIsOwn(c2, a2)
  <2>1. c2 \in Message => arrived[c2] # a2 \/ a2 = 0
    BY <1>2, <1>3 DEF ArrivedBefore
  <2>2. QED
    BY <2>1 DEF RawIsOwn
<1>9. WholeIsHeard(c2)
  BY <1>1, <1>3, <1>4 DEF WholeIsHeard, ListenerInv
<1>10. ~Perfect(c2, a2)
  <2>1. CASE c2 = c /\ a2 > a
    BY <2>1, <1>2, <1>3 DEF Perfect, ArrivedBefore
  <2>2. CASE c2 > c
    BY <2>2, <1>3, <1>4 DEF Perfect
  <2>3. QED
    BY <2>1, <2>2
<1>11. PerfectIsHeard(c2)
  <2>1. ASSUME NEW m \in Message, \A k \in 1 .. m : Whole(k), c <= m
        PROVE  FALSE
    <3>1. c \in 1 .. m
      BY <2>1, <1>1
    <3>2. QED
      BY <3>1, <2>1, <1>3, <1>4
  <2>2. QED
    BY <2>1, <1>1, <1>3 DEF PerfectIsHeard, ListenerInv
<1>12. PerfectIsCounted(c2, a2)
  BY <1>10 DEF PerfectIsCounted
<1>13. QED
  BY <1>5, <1>6, <1>7, <1>8, <1>9, <1>11, <1>12 DEF ListenerInv

-----------------------------------------------------------------------------
(* The listener is given notification p, which continues message c after   *)
(* a bytes.                                                                *)
LEMMA ListenKeepsInv ==
  ASSUME Types, NEW p \in Notification, IsPiece(p),
         ListenerInv(p.of, p.at), Listen(p),
         arrived' = [arrived EXCEPT ![p.of] = @ + Len(p.data)],
         NEW c2 \in Nat, NEW a2 \in Nat,
         c2 = IF IsLast(p) THEN p.of + 1 ELSE p.of,
         a2 = IF IsLast(p) THEN 0 ELSE End(p)
  PROVE  /\ ListenerInv(c2, a2)'
         /\ dataRaw' \in Seq(Letters)
         /\ dataMapBytes' \in Nat
         /\ heard' \in Seq(Message)
         /\ reported' \in Seq(Nat \ {0})
         /\ Len(reported') = Len(heard')
         /\ arrived' \in [Message -> Nat]
         /\ aborted' \subseteq Message
<1> DEFINE c == p.of
           a == p.at
           n == Len(p.data)
           L == Len(Encoded(c))
<1>1. PICK d : d = decoder(unlucky, dataRaw, p.data)
  OBVIOUS
<1>2. DecodedWell(d, dataRaw, p)
  BY <1>1, PieceDecoded DEF Types
<1>3. /\ dataRaw' = d.raw
      /\ \/ /\ d.thrown
            /\ aborted' = aborted \cup {c}
            /\ dataMapBytes' = dataMapBytes /\ heard' = heard /\ reported' = reported
         \/ /\ ~d.thrown /\ d.map = Nothing
            /\ dataMapBytes' = dataMapBytes + n
            /\ heard' = heard /\ reported' = reported /\ aborted' = aborted
         \/ /\ ~d.thrown /\ d.map # Nothing
            /\ heard' = Append(heard, d.map)
            /\ reported' = Append(reported, dataMapBytes + n)
            /\ dataMapBytes' = 0
            /\ aborted' = aborted
  BY <1>1 DEF Listen
<1>4. /\ c \in Message /\ c \in Nat /\ a \in Nat /\ n \in Nat \ {0}
      /\ L \in Nat /\ L > 2 /\ End(p) = a + n /\ a + n <= L /\ a + n \in Nat
      /\ IsLast(p) <=> a + n = L
      /\ Message = 1 .. Len(Size) /\ Len(Size) \in Nat
  BY PieceTypes, EncodedLength DEF IsLast
<1>5. /\ arrived \in [Message -> Nat]
      /\ heard \in Seq(Message) /\ Len(heard) \in Nat
      /\ reported \in Seq(Nat \ {0}) /\ Len(reported) = Len(heard)
      /\ dataMapBytes \in Nat /\ aborted \subseteq Message
      /\ dataRaw \in Seq(Letters)
  BY LenProperties DEF Types
<1>6. /\ arrived' \in [Message -> Nat]
      /\ arrived'[c] = arrived[c] + n
      /\ \A m \in Message : m # c => arrived'[m] = arrived[m]
  <2>1. arrived' = [arrived EXCEPT ![c] = arrived[c] + n]
    OBVIOUS
  <2>2. c \in Message /\ n \in Nat /\ arrived \in [Message -> Nat]
    BY ONLY <1>4, <1>5
  <2> HIDE DEF c, n
  <2>3. arrived[c] + n \in Nat
    BY ONLY <2>2
  <2>4. QED
    BY ONLY <2>1, <2>2, <2>3
<1>7. /\ c2 = IF IsLast(p) THEN c + 1 ELSE c
      /\ a2 = IF IsLast(p) THEN 0 ELSE a + n
  BY <1>4
<1>8. /\ \A j \in 1 .. Len(heard) : heard[j] \in Message /\ heard[j] < c
      /\ HeardInOrder
  <2>1. \A j \in 1 .. Len(heard) : heard[j] \in Message
    BY <1>5, ElementOfSeq
  <2>2. QED
    BY <2>1 DEF ListenerInv, HeardBefore
<1>9. \A i \in 1 .. Len(dataRaw) :
        /\ dataRaw[i][1] \in Message
        /\ dataRaw[i][1] <= c /\ (a = 0 => dataRaw[i][1] < c)
        /\ \A j \in 1 .. Len(heard) : heard[j] < dataRaw[i][1]
  <2>1. \A i \in 1 .. Len(dataRaw) : dataRaw[i] \in Letters
    BY <1>5, ElementOfSeq
  <2>2. QED
    BY <2>1, LetterFacts DEF ListenerInv, RawBefore
<1>10. /\ ~d.thrown /\ d.map # Nothing => d.map \in Message
       /\ d.raw \in Seq(Letters)
       /\ d.thrown \in BOOLEAN
  BY <1>2 DEF DecodedWell
<1> HIDE DEF c, a, n, L
(* The message decoded now.                                                *)
<1>11. ASSUME ~d.thrown, d.map # Nothing
       PROVE  /\ d.map < c2 /\ d.map <= c
              /\ \A j \in 1 .. Len(heard) : heard[j] < d.map
              /\ \A j \in 1 .. Len(d.raw) : d.map < d.raw[j][1]
              /\ \/ IsLast(p) /\ d.map = c
                 \/ \E k \in 1 .. Len(dataRaw) : dataRaw[k][1] = d.map
              /\ d.map = c => IsLast(p)
  <2>1. \/ IsLast(p) /\ d.raw = << >> /\ d.map = c
        \/ /\ \E k \in 1 .. Len(dataRaw) : dataRaw[k][1] = d.map
           /\ \/ IsLast(p) /\ d.raw = << >>
              \/ a = 0 /\ \A j \in 1 .. Len(d.raw) : d.raw[j][1] = c
    BY <1>2, <1>11 DEF DecodedWell, c, a
  <2>2. d.map \in Nat
    BY <1>4, <1>10, <1>11
  <2>3. \A j \in 1 .. Len(<< >>) : FALSE
    BY EmptySeq
  <2>4. CASE IsLast(p) /\ d.raw = << >> /\ d.map = c
    BY <2>3, <2>4, <1>4, <1>7, <1>8
  <2>5. CASE /\ \E k \in 1 .. Len(dataRaw) : dataRaw[k][1] = d.map
             /\ IsLast(p) /\ d.raw = << >>
    BY <2>2, <2>3, <2>5, <1>4, <1>7, <1>9
  <2>6. CASE /\ \E k \in 1 .. Len(dataRaw) : dataRaw[k][1] = d.map
             /\ a = 0 /\ \A j \in 1 .. Len(d.raw) : d.raw[j][1] = c
    <3>1. d.map < c /\ \A j \in 1 .. Len(heard) : heard[j] < d.map
      BY <2>6, <1>9
    <3>2. QED
      BY <3>1, <2>2, <2>6, <1>4, <1>7
  <2>7. QED
    BY <2>1, <2>4, <2>5, <2>6
<1>12. /\ heard' \in Seq(Message) /\ Len(heard') \in Nat
       /\ reported' \in Seq(Nat \ {0}) /\ Len(reported') = Len(heard')
       /\ Len(heard) <= Len(heard')
       /\ \A j \in 1 .. Len(heard) : heard'[j] = heard[j] /\ reported'[j] = reported[j]
       /\ \A j \in 1 .. Len(heard') :
            \/ j \in 1 .. Len(heard)
            \/ /\ ~d.thrown /\ d.map # Nothing
               /\ j = Len(heard) + 1
               /\ heard'[j] = d.map
               /\ reported'[j] = dataMapBytes + n
       /\ ~d.thrown /\ d.map # Nothing =>
            /\ Len(heard) + 1 \in 1 .. Len(heard')
            /\ heard'[Len(heard) + 1] = d.map
  <2>1. CASE heard' = heard /\ reported' = reported /\ ~(~d.thrown /\ d.map # Nothing)
    BY <2>1, <1>5
  <2>2. CASE /\ ~d.thrown /\ d.map # Nothing
             /\ heard' = Append(heard, d.map)
             /\ reported' = Append(reported, dataMapBytes + n)
    <3>1. d.map \in Message /\ dataMapBytes + n \in Nat \ {0}
      BY <2>2, <1>4, <1>5, <1>10
    <3>2. /\ heard' \in Seq(Message) /\ Len(heard') = Len(heard) + 1
          /\ \A j \in 1 .. Len(heard) : heard'[j] = heard[j]
          /\ heard'[Len(heard) + 1] = d.map
      BY <2>2, <3>1, <1>5, AppendProperties
    <3>3. /\ reported' \in Seq(Nat \ {0}) /\ Len(reported') = Len(reported) + 1
          /\ \A j \in 1 .. Len(reported) : reported'[j] = reported[j]
          /\ reported'[Len(reported) + 1] = dataMapBytes + n
      <4>1. PICK S : S = Nat \ {0}
        OBVIOUS
      <4>2. QED
        BY <4>1, <2>2, <3>1, <1>5, AppendProperties
    <3>4. QED
      BY <2>2, <3>2, <3>3, <1>5
  <2>3. QED
    BY <2>1, <2>2, <1>3
<1>13. /\ \A m : Heard(m) => Heard(m)'
       /\ ~d.thrown /\ d.map # Nothing => Heard(d.map)'
  <2>1. DOMAIN heard = 1 .. Len(heard) /\ DOMAIN heard' = 1 .. Len(heard')
    BY <1>5, <1>12, LenProperties
  <2>2. ASSUME NEW m, Heard(m)
        PROVE  Heard(m)'
    <3>1. PICK j \in 1 .. Len(heard) : heard[j] = m
      BY <2>1, <2>2 DEF Heard
    <3>2. j \in 1 .. Len(heard') /\ heard'[j] = m
      <4>1. j \in 1 .. Len(heard')
        BY ONLY j \in 1 .. Len(heard), <1>5, <1>12
      <4>2. QED
        BY <3>1, <4>1, <1>12
    <3>3. QED
      BY <2>1, <3>2 DEF Heard
  <2>3. ~d.thrown /\ d.map # Nothing => Heard(d.map)'
    BY <2>1, <1>12 DEF Heard
  <2>4. QED
    BY <2>2, <2>3
<1>14. /\ aborted \subseteq aborted' /\ aborted' \subseteq Message
       /\ d.thrown => c \in aborted'
  BY <1>3, <1>4, <1>5
<1>15. dataRaw' \in Seq(Letters) /\ dataMapBytes' \in Nat
  BY <1>3, <1>4, <1>5, <1>10
<1>16. \A m \in Message : m # c => (Whole(m)' <=> Whole(m))
  BY <1>6 DEF Whole
(* If the message is whole so far, so it was before.                       *)
<1>17. /\ Perfect(c2, a2)' => Perfect(c, a)
       /\ IsLast(p) /\ (\A k \in 1 .. c : Whole(k)') => Perfect(c, a)
  <2>1. \A m \in Message : m < c /\ Whole(m)' => Whole(m)
    BY <1>4, <1>16
  <2>2. arrived'[c] = a + n => arrived[c] = a
    BY <1>4, <1>5, <1>6
  <2>3. IsLast(p) /\ Whole(c)' => arrived[c] = a
    BY <2>2, <1>4 DEF Whole, L
  <2>4. ASSUME IsLast(p), \A k \in 1 .. c : Whole(k)'
        PROVE  Perfect(c, a)
    <3>1. c \in 1 .. c /\ \A m \in Message : m < c => m \in 1 .. c
      BY <1>4
    <3>2. QED
      BY <2>1, <2>3, <2>4, <3>1 DEF Perfect
  <2>5. ASSUME Perfect(c2, a2)'
        PROVE  Perfect(c, a)
    <3>1. CASE IsLast(p)
      <4>1. \A m \in Message : m <= c => Whole(m)'
        BY <2>5, <3>1, <1>4, <1>7 DEF Perfect
      <4>2. QED
        BY <4>1, <2>1, <2>3, <3>1, <1>4 DEF Perfect
    <3>2. CASE ~IsLast(p)
      <4>1. c2 = c /\ a2 = a + n
        BY <3>2, <1>7
      <4>2. QED
        BY <4>1, <2>1, <2>2, <2>5, <1>4 DEF Perfect
    <3>3. QED
      BY <3>1, <3>2
  <2>6. QED
    BY <2>4, <2>5
<1>18. ASSUME Perfect(c, a)
       PROVE  /\ dataMapBytes = a
              /\ ~d.thrown
              /\ IsLast(p) => d.map = c /\ d.raw = << >>
              /\ ~IsLast(p) => d.map = Nothing /\ d.raw = SubSeq(Encoded(c), 2, a + n)
  <2>1. dataMapBytes = a /\ dataRaw = SubSeq(Encoded(c), 2, a)
    BY <1>4, <1>18 DEF ListenerInv, PerfectIsCounted, c, a
  <2>2. QED
    BY <2>1, <1>2, <1>4 DEF DecodedWell, c, a

<1>19. ArrivedBefore(c2, a2)'
  <2>1. \A m \in Message : /\ m < c => arrived[m] <= Len(Encoded(m))
                           /\ m = c => arrived[m] <= a
                           /\ m > c => arrived[m] = 0
    BY DEF ListenerInv, ArrivedBefore, c, a
  <2>2. ASSUME NEW m \in Message
        PROVE  /\ m < c2 => arrived'[m] <= Len(Encoded(m))
               /\ m = c2 => arrived'[m] <= a2
               /\ m > c2 => arrived'[m] = 0
    <3>1. m \in Nat /\ arrived[m] \in Nat /\ Len(Encoded(m)) \in Nat
      <4>1. m \in Nat
        BY EncodedLength
      <4>2. arrived[m] \in Nat
        BY <1>5
      <4>3. Len(Encoded(m)) \in Nat
        BY EncodedLength
      <4>4. QED
        BY <4>1, <4>2, <4>3
    <3>2. CASE m = c
      <4>1. arrived'[m] <= a + n
        BY <3>2, <2>1, <1>4, <1>5, <1>6
      <4>2. Len(Encoded(m)) = L
        BY <3>2 DEF L
      <4>3. QED
        BY <4>1, <4>2, <3>1, <3>2, <1>4, <1>7
    <3>3. CASE m # c
      <4>1. arrived'[m] = arrived[m]
        BY <3>3, <1>6
      <4>2. m < c => m < c2
        BY <3>1, <1>4, <1>7
      <4>3. m > c => arrived[m] = 0
        BY <2>1
      <4>4. m = c2 => m > c /\ a2 = 0
        BY <3>1, <3>3, <1>4, <1>7
      <4>5. QED
        BY <4>1, <4>2, <4>3, <4>4, <3>1, <3>3, <2>1, <1>4, <1>7
    <3>4. QED
      BY <3>2, <3>3
  <2>3. QED
    BY <2>2 DEF ArrivedBefore
<1>20. \A i \in 1 .. Len(dataRaw') :
         /\ dataRaw'[i][1] \in Message
         /\ dataRaw'[i][1] <= c2 /\ (a2 = 0 => dataRaw'[i][1] < c2)
         /\ \A j \in 1 .. Len(heard') : heard'[j] < dataRaw'[i][1]
  <2>1. SUFFICES ASSUME NEW i \in 1 .. Len(d.raw)
        PROVE  /\ d.raw[i][1] \in Message
               /\ d.raw[i][1] <= c2 /\ (a2 = 0 => d.raw[i][1] < c2)
               /\ \A j \in 1 .. Len(heard') : heard'[j] < d.raw[i][1]
    BY <1>3
  <2>2. d.raw[i][1] = c \/ \E k \in 1 .. Len(dataRaw) : d.raw[i][1] = dataRaw[k][1]
    BY <1>2 DEF DecodedWell, c
  <2>3. d.raw[i][1] \in Message /\ d.raw[i][1] <= c
    BY <2>2, <1>4, <1>9
  <2>4. a2 = 0 => c < c2
    BY <1>4, <1>7
  <2>5. \A j \in 1 .. Len(heard) : heard[j] < d.raw[i][1]
    BY <2>2, <1>8, <1>9
  <2>6. \A j \in 1 .. Len(heard') : heard'[j] < d.raw[i][1]
    BY <2>5, <1>11, <1>12
  <2>7. QED
    BY <2>3, <2>4, <2>6, <1>4, <1>7
<1>21. RawBefore(c2, a2)'
  BY <1>20 DEF RawBefore
<1>22. /\ \A j \in 1 .. Len(heard') : heard'[j] \in Message /\ heard'[j] < c2
       /\ HeardInOrder'
  <2>1. ASSUME NEW j \in 1 .. Len(heard')
        PROVE  heard'[j] \in Message /\ heard'[j] < c2
    <3>1. CASE j \in 1 .. Len(heard)
      <4>1. heard'[j] \in Message /\ heard'[j] < c
        BY <3>1, <1>8, <1>12
      <4>2. QED
        BY <4>1, <1>4, <1>7
    <3>2. CASE ~d.thrown /\ d.map # Nothing /\ heard'[j] = d.map
      BY <3>2, <1>10, <1>11
    <3>3. QED
      BY <3>1, <3>2, <1>12
  <2>2. DOMAIN heard = 1 .. Len(heard) /\ DOMAIN heard' = 1 .. Len(heard')
    BY <1>5, <1>12, LenProperties
  <2>3. ASSUME NEW i \in 1 .. Len(heard'), NEW j \in 1 .. Len(heard'), i < j
        PROVE  heard'[i] < heard'[j]
    <3>1. i \in 1 .. Len(heard)
      <4>1. i \in 1 .. Len(heard) \/ i = Len(heard) + 1
        BY <1>12
      <4>2. j \in 1 .. Len(heard) \/ j = Len(heard) + 1
        BY <1>12
      <4>3. Len(heard) \in Nat
        BY <1>5
      <4>4. QED
        BY ONLY <2>3, <4>1, <4>2, <4>3
    <3>2. CASE j \in 1 .. Len(heard)
      BY <2>2, <2>3, <3>1, <3>2, <1>8, <1>12 DEF HeardInOrder
    <3>3. CASE ~d.thrown /\ d.map # Nothing /\ heard'[j] = d.map
      BY <3>1, <3>3, <1>11, <1>12
    <3>4. QED
      BY <3>2, <3>3, <1>12
  <2>4. QED
    BY <2>1, <2>2, <2>3 DEF HeardInOrder
<1>23. HeardBefore(c2)'
  BY <1>22 DEF HeardBefore

(* What the buffer holds of a message that was given in full.              *)
<1>24. ASSUME arrived[c] = a, c \notin aborted, ~d.thrown
       PROVE  IF IsLast(p) THEN d.raw = << >> /\ d.map = c
                           ELSE d.raw = SubSeq(Encoded(c), 2, a + n)
  <2>1. a > 0 => dataRaw = SubSeq(Encoded(c), 2, a)
    BY <1>24, <1>4 DEF ListenerInv, RawIsOwn, c, a
  <2>2. a = 0 \/ dataRaw = SubSeq(Encoded(c), 2, a)
    BY <2>1, <1>4
  <2>3. QED
    BY <2>2, <1>24, <1>2, <1>4 DEF DecodedWell, c, a
<1>25. RawIsOwn(c2, a2)'
  <2>1. SUFFICES ASSUME c2 \in Message, a2 > 0, arrived'[c2] = a2,
                        c2 \notin aborted'
                 PROVE  dataRaw' = SubSeq(Encoded(c2), 2, a2)
    BY DEF RawIsOwn
  <2>2. ~IsLast(p) /\ c2 = c /\ a2 = a + n
    BY <2>1, <1>7
  <2>3. arrived[c] = a
    BY <2>1, <2>2, <1>4, <1>5, <1>6
  <2>4. c \notin aborted /\ ~d.thrown
    BY <2>1, <2>2, <1>10, <1>14
  <2>5. QED
    BY <2>2, <2>3, <2>4, <1>3, <1>24
<1>26. WholeIsHeard(c2)'
  <2>1. SUFFICES ASSUME NEW m \in Message, m < c2, Whole(m)', m \notin aborted'
                 PROVE  Heard(m)'
    BY DEF WholeIsHeard
  <2>2. m \notin aborted /\ m \in Nat
    BY <2>1, <1>4, <1>14
  <2>3. CASE m # c
    <3>1. m < c
      BY <2>1, <2>2, <2>3, <1>4, <1>7
    <3>2. Heard(m)
      BY <2>1, <2>2, <2>3, <3>1, <1>16 DEF ListenerInv, WholeIsHeard, c
    <3>3. QED
      BY <3>2, <1>13
  <2>4. CASE m = c
    <3>1. IsLast(p)
      BY <2>1, <2>4, <1>4, <1>7
    <3>2. arrived[c] = a
      BY <2>1, <2>4, <3>1, <1>4, <1>5, <1>6 DEF Whole, L
    <3>3. ~d.thrown
      BY <2>1, <2>4, <1>10, <1>14
    <3>4. d.map = c /\ d.map # Nothing
      BY <2>2, <2>4, <3>1, <3>2, <3>3, <1>4, <1>24 DEF Nothing
    <3>5. QED
      BY <2>4, <3>3, <3>4, <1>13
  <2>5. QED
    BY <2>3, <2>4
<1>27. PerfectIsCounted(c2, a2)'
  <2>1. SUFFICES ASSUME Perfect(c2, a2)'
                 PROVE  /\ dataMapBytes' = a2
                        /\ dataRaw' = IF c2 \in Message
                                      THEN SubSeq(Encoded(c2), 2, a2) ELSE << >>
    BY DEF PerfectIsCounted
  <2>2. /\ dataMapBytes = a
        /\ ~d.thrown
        /\ IsLast(p) => d.map = c /\ d.raw = << >>
        /\ ~IsLast(p) => d.map = Nothing /\ d.raw = SubSeq(Encoded(c), 2, a + n)
    BY <2>1, <1>17, <1>18
  <2>3. CASE IsLast(p)
    <3>1. d.map # Nothing /\ a2 = 0
      BY <2>2, <2>3, <1>4, <1>7 DEF Nothing
    <3>2. dataMapBytes' = 0 /\ dataRaw' = << >>
      BY <2>2, <2>3, <3>1, <1>3
    <3>3. c2 \in Message => SubSeq(Encoded(c2), 2, 0) = << >>
      BY EncodedFacts, SubSeqEmpty
    <3>4. QED
      BY <3>1, <3>2, <3>3
  <2>4. CASE ~IsLast(p)
    BY <2>2, <2>4, <1>3, <1>4, <1>7
  <2>5. QED
    BY <2>3, <2>4
<1>28. PerfectIsHeard(c2)'
  <2>1. SUFFICES ASSUME NEW m \in Message, m < c2, \A k \in 1 .. m : Whole(k)'
                 PROVE  Heard(m)'
    BY DEF PerfectIsHeard
  <2>2. CASE m # c
    <3>1. m < c
      BY <2>1, <2>2, <1>4, <1>7
    <3>2. \A k \in 1 .. m : k \in Message /\ k # c
      BY <3>1, <1>4
    <3>3. \A k \in 1 .. m : Whole(k)
      BY <2>1, <3>2, <1>16
    <3>4. QED
      BY <3>1, <3>3, <1>13 DEF ListenerInv, PerfectIsHeard, c
  <2>3. CASE m = c
    <3>1. IsLast(p)
      BY <2>1, <2>3, <1>4, <1>7
    <3>2. ~d.thrown /\ d.map = c /\ c # Nothing
      BY <2>1, <2>3, <3>1, <1>4, <1>17, <1>18 DEF Nothing
    <3>3. QED
      BY <2>3, <3>2, <1>13
  <2>4. QED
    BY <2>2, <2>3
<1>29. BytesAreOwn'
  <2>1. DOMAIN heard = 1 .. Len(heard) /\ DOMAIN heard' = 1 .. Len(heard')
    BY <1>5, <1>12, LenProperties
  <2>2. SUFFICES ASSUME NEW j \in 1 .. Len(heard'),
                        \A m \in 1 .. heard'[j] : Whole(m)'
                 PROVE  reported'[j] = Len(Encoded(heard'[j]))
    BY <2>1 DEF BytesAreOwn
  <2>3. CASE j \in 1 .. Len(heard)
    <3>1. heard'[j] = heard[j] /\ reported'[j] = reported[j] /\ heard[j] \in Message
          /\ heard[j] < c
      BY <2>3, <1>8, <1>12
    <3>2. \A m \in 1 .. heard[j] : m \in Message /\ m # c
      BY <3>1, <1>4
    <3>3. \A m \in 1 .. heard[j] : Whole(m)
      BY <2>2, <3>1, <3>2, <1>16
    <3>4. QED
      BY <2>1, <2>3, <3>1, <3>3 DEF ListenerInv, BytesAreOwn
  <2>4. CASE /\ ~d.thrown /\ d.map # Nothing
             /\ heard'[j] = d.map
             /\ reported'[j] = dataMapBytes + n
    <3>1. d.map <= c /\ d.map \in Message /\ d.map \in Nat
      BY <2>4, <1>4, <1>10, <1>11
    <3>2. CASE d.map = c
      <4>1. IsLast(p)
        BY <2>4, <3>2, <1>11
      <4>2. dataMapBytes = a
        BY <2>2, <2>4, <3>2, <4>1, <1>17, <1>18
      <4>3. QED
        BY <2>4, <3>2, <4>1, <4>2, <1>4 DEF L
    <3>3. CASE d.map # c
      <4>1. PICK k \in 1 .. Len(dataRaw) : dataRaw[k][1] = d.map
        BY <2>4, <3>3, <1>11
      <4>2. \A m \in 1 .. d.map : m \in Message /\ m # c
        BY <3>1, <3>3, <1>4
      <4>3. \A m \in 1 .. d.map : Whole(m)
        BY <2>2, <2>4, <4>2, <1>16
      <4>4. d.map < c
        BY <3>1, <3>3, <1>4
      <4>5. Heard(d.map)
        BY <3>1, <4>3, <4>4 DEF ListenerInv, PerfectIsHeard, c
      <4>6. PICK i \in 1 .. Len(heard) : heard[i] = d.map
        BY <2>1, <4>5 DEF Heard
      <4>7. heard[i] < dataRaw[k][1]
        BY <1>9
      <4>8. QED
        BY <4>1, <4>6, <4>7, <3>1
    <3>4. QED
      BY <3>2, <3>3
  <2>5. QED
    BY <2>3, <2>4, <1>12
<1>30. QED
  BY <1>6, <1>12, <1>14, <1>15, <1>19, <1>21, <1>23, <1>25, <1>26, <1>27,
     <1>28, <1>29 DEF ListenerInv

-----------------------------------------------------------------------------
(* The steps *)

(* Nothing is sent, under way or heard at first.                           *)
LEMMA InitInv ==
  ASSUME Init
  PROVE  DecoderInv
<1>1. Len(Size) \in Nat
  BY MessageFacts
<1>2. /\ sent = 0 /\ air = << >> /\ dataRaw = << >> /\ heard = << >>
      /\ reported = << >> /\ dataMapBytes = 0 /\ aborted = {} /\ faults = 0
      /\ unlucky \subseteq ShortEnds /\ listening = FALSE
      /\ arrived = [m \in Message |-> 0]
  BY DEF Init
<1>3. /\ << >> \in Seq(Letters) /\ << >> \in Seq(Message)
      /\ << >> \in Seq(Nat \ {0}) /\ << >> \in Seq(Notification)
      /\ Len(<< >>) = 0 /\ DOMAIN << >> = 1 .. 0
  BY EmptySeq
<1>4. Types
  <2>1. sent \in 0 .. Len(Size) /\ faults \in 0 .. MaxFaults
    BY <1>1, <1>2, FaultsAssumption
  <2>2. QED
    BY <2>1, <1>2, <1>3 DEF Types
<1>5. InOrder(air, sent)
  BY <1>2, <1>3 DEF InOrder
<1>6. FrontOf(air, sent) = 1 /\ FrontAt(air) = 0
  BY <1>2 DEF FrontOf, FrontAt
<1>7. \A m \in Message : arrived[m] = 0 /\ m \in Nat /\ m >= 1
                         /\ Len(Encoded(m)) \in Nat /\ Len(Encoded(m)) > 2
  BY <1>2, EncodedLength
<1>8. \A i \in 1 .. 0 : FALSE
  OBVIOUS
<1>9. ArrivedBefore(1, 0)
  BY <1>7 DEF ArrivedBefore
<1>10. RawBefore(1, 0) /\ HeardBefore(1) /\ BytesAreOwn
  BY <1>2, <1>3, <1>8 DEF RawBefore, HeardBefore, HeardInOrder, BytesAreOwn
<1>11. RawIsOwn(1, 0)
  BY DEF RawIsOwn
<1>12. WholeIsHeard(1) /\ PerfectIsHeard(1)
  BY <1>7 DEF WholeIsHeard, PerfectIsHeard
<1>13. PerfectIsCounted(1, 0)
  <2>1. 1 \in Message => SubSeq(Encoded(1), 2, 0) = << >>
    BY EncodedFacts, SubSeqEmpty
  <2>2. QED
    BY <2>1, <1>2 DEF PerfectIsCounted
<1>14. QED
  BY <1>4, <1>5, <1>6, <1>9, <1>10, <1>11, <1>12, <1>13 DEF DecoderInv, ListenerInv

(* What the invariant says of the listener depends only on its variables.  *)
LEMMA ListenerUnchanged ==
  ASSUME NEW c, NEW a, ListenerInv(c, a),
         UNCHANGED << dataRaw, dataMapBytes, heard, reported, arrived, aborted >>
  PROVE  ListenerInv(c, a)'
<1>1. /\ dataRaw' = dataRaw /\ dataMapBytes' = dataMapBytes /\ heard' = heard
      /\ reported' = reported /\ arrived' = arrived /\ aborted' = aborted
  OBVIOUS
<1>2. ArrivedBefore(c, a)' /\ RawBefore(c, a)' /\ HeardBefore(c)' /\ RawIsOwn(c, a)'
  BY <1>1 DEF ListenerInv, ArrivedBefore, RawBefore, HeardBefore, HeardInOrder,
              RawIsOwn
<1>3. WholeIsHeard(c)' /\ PerfectIsCounted(c, a)' /\ PerfectIsHeard(c)'
  BY <1>1 DEF ListenerInv, WholeIsHeard, PerfectIsCounted, PerfectIsHeard,
              Perfect, Whole, Heard
<1>4. BytesAreOwn'
  BY <1>1 DEF ListenerInv, BytesAreOwn, Whole
<1>5. QED
  BY <1>2, <1>3, <1>4 DEF ListenerInv

(* The front of what is under way, and why it can move past its head.      *)
LEMMA FrontFacts ==
  ASSUME DecoderInv
  PROVE  /\ sent \in Nat /\ FrontOf(air, sent) \in Nat /\ FrontAt(air) \in Nat
         /\ air = << >> => FrontOf(air, sent) = sent + 1 /\ FrontAt(air) = 0
         /\ air # << >> =>
              /\ FrontOf(air, sent) = Head(air).of
              /\ FrontOf(air, sent) \in Message /\ FrontOf(air, sent) <= sent
              /\ FrontAt(air) = Head(air).at
              /\ FrontAt(air) < End(Head(air))
              /\ FrontAt(air) < Len(Encoded(FrontOf(air, sent)))
<1>1. sent \in Nat /\ InOrder(air, sent)
  BY MessageFacts DEF DecoderInv, Types
<1>2. CASE air = << >>
  BY <1>1, <1>2 DEF FrontOf, FrontAt
<1>3. CASE air # << >>
  <2>1. PICK p : p = Head(air)
    OBVIOUS
  <2>2. /\ p = air[1] /\ p \in Notification /\ IsPiece(p) /\ p.of <= sent
    BY <1>1, <1>3, <2>1, InOrderTail
  <2>3. FrontOf(air, sent) = p.of /\ FrontAt(air) = p.at
    BY <1>3, <2>2 DEF FrontOf, FrontAt
  <2>4. /\ p.of \in Message /\ p.at \in Nat /\ Len(p.data) \in Nat \ {0}
        /\ End(p) = p.at + Len(p.data) /\ End(p) <= Len(Encoded(p.of))
        /\ Len(Encoded(p.of)) \in Nat
    BY <2>2, PieceTypes
  <2>5. p.at < End(p) /\ p.at < Len(Encoded(p.of)) /\ p.of \in Nat
    <3>1. p.of \in Nat
      BY <2>4, EncodedLength
    <3>2. QED
      BY ONLY <3>1, <2>4
  <2>6. QED
    BY <1>1, <1>3, <2>1, <2>2, <2>3, <2>4, <2>5
<1>4. QED
  BY <1>2, <1>3

(* What is under way loses its head, and the listener is not given it.     *)
LEMMA HeadIsGone ==
  ASSUME DecoderInv, air # << >>, air' = Tail(air),
         UNCHANGED << unlucky, sent, arrived, dataRaw, dataMapBytes, heard,
                      reported, aborted >>,
         listening' \in BOOLEAN, faults' \in 0 .. MaxFaults
  PROVE  DecoderInv'
<1> DEFINE c == FrontOf(air, sent)
           a == FrontAt(air)
<1>1. PICK p : p = Head(air)
  OBVIOUS
<1>2. /\ p \in Notification /\ IsPiece(p)
      /\ InOrder(air', sent)
      /\ FrontOf(air', sent) = IF IsLast(p) THEN p.of + 1 ELSE p.of
      /\ FrontAt(air') = IF IsLast(p) THEN 0 ELSE End(p)
  BY <1>1, FrontFacts, InOrderTail DEF DecoderInv
<1>3. /\ c \in Message /\ c \in Nat /\ a \in Nat /\ c = p.of /\ a < End(p)
      /\ a < Len(Encoded(c))
  BY <1>1, FrontFacts
<1>4. End(p) \in Nat
  BY <1>2, PieceTypes
<1>5. Types /\ ListenerInv(c, a)
  BY DEF DecoderInv
<1> HIDE DEF c, a
<1>6. PICK c2, a2 : c2 = FrontOf(air', sent) /\ a2 = FrontAt(air')
  OBVIOUS
<1>7. /\ c2 \in Nat /\ a2 \in Nat
      /\ \/ c2 = c /\ a2 > a
         \/ c2 > c /\ a2 = 0
  <2>1. CASE IsLast(p)
    BY <2>1, <1>2, <1>3, <1>6
  <2>2. CASE ~IsLast(p)
    BY <2>2, <1>2, <1>3, <1>4, <1>6
  <2>3. QED
    BY <2>1, <2>2
<1>8. ListenerInv(c2, a2)
  BY <1>3, <1>5, <1>7, FrontMoves
<1>9. ListenerInv(c2, a2)'
  BY <1>8, ListenerUnchanged
<1>10. Types'
  BY <1>5 DEF Types
<1>11. /\ FrontOf(air, sent)' = c2 /\ FrontAt(air)' = a2
       /\ InOrder(air, sent)'
  BY <1>2, <1>6
<1>12. QED
  BY <1>9, <1>10, <1>11 DEF DecoderInv

(* Everything under way is lost with the link.                             *)
LEMMA LinkLostKeepsInv ==
  ASSUME DecoderInv, LinkLost
  PROVE  DecoderInv'
<1>1. /\ air' = << >> /\ listening' = FALSE
      /\ unlucky' = unlucky /\ sent' = sent /\ arrived' = arrived
      /\ dataRaw' = dataRaw /\ dataMapBytes' = dataMapBytes /\ heard' = heard
      /\ reported' = reported /\ aborted' = aborted /\ faults' = faults
  BY DEF LinkLost, disableNotification, deviceVars
<1>2. Types'
  BY <1>1 DEF DecoderInv, Types
<1>3. sent \in Nat /\ ListenerInv(FrontOf(air, sent), FrontAt(air))
  BY FrontFacts DEF DecoderInv
<1>4. ListenerInv(sent + 1, 0)
  <2>1. CASE air = << >>
    BY <2>1, <1>3, FrontFacts
  <2>2. CASE air # << >>
    <3>1. PICK c, a : c = FrontOf(air, sent) /\ a = FrontAt(air)
      OBVIOUS
    <3>2. /\ c \in Message /\ c \in Nat /\ c <= sent
          /\ a \in Nat /\ a < Len(Encoded(c))
      BY <2>2, <3>1, FrontFacts
    <3>3. sent + 1 \in Nat /\ 0 \in Nat /\ sent + 1 > c
      BY <1>3, <3>2
    <3>4. Types /\ ListenerInv(c, a)
      BY <1>3, <3>1 DEF DecoderInv
    <3>5. QED
      BY <3>2, <3>3, <3>4, FrontMoves
  <2>3. QED
    BY <2>1, <2>2
<1>5. ListenerInv(sent + 1, 0)'
  <2>1. PICK c : c = sent + 1
    OBVIOUS
  <2>2. ListenerInv(c, 0)'
    BY <2>1, <1>1, <1>4, ListenerUnchanged
  <2>3. QED
    BY <2>1, <2>2, <1>1
<1>6. << >> \in Seq(Notification) /\ Len(<< >>) = 0
  BY EmptySeq
<1>7. InOrder(air, sent)'
  <2>1. \A i \in 1 .. 0 : FALSE
    OBVIOUS
  <2>2. \A i \in 1 .. 0 - 1 : FALSE
    OBVIOUS
  <2>3. QED
    BY <2>1, <2>2, <1>1, <1>6 DEF InOrder
<1>8. FrontOf(air, sent)' = sent' + 1 /\ FrontAt(air)' = 0
  BY <1>1 DEF FrontOf, FrontAt
<1>9. QED
  BY <1>2, <1>5, <1>7, <1>8 DEF DecoderInv

(* A message is sent.                                                      *)
LEMMA SendKeepsInv ==
  ASSUME DecoderInv, NEW n \in Payloads, Send(n)
  PROVE  DecoderInv'
<1>1. /\ sent < Len(Size) /\ sent' = sent + 1
      /\ air' = air \o Notifications(sent + 1, n)
      /\ unlucky' = unlucky /\ arrived' = arrived /\ listening' = listening
      /\ dataRaw' = dataRaw /\ dataMapBytes' = dataMapBytes /\ heard' = heard
      /\ reported' = reported /\ aborted' = aborted /\ faults' = faults
  BY DEF Send, appVars
<1>2. /\ sent \in Nat /\ sent' \in 0 .. Len(Size) /\ sent + 1 \in Message
  <2>1. sent \in 0 .. Len(Size)
    BY DEF DecoderInv, Types
  <2>2. QED
    BY <2>1, <1>1, MessageFacts
<1>3. Types'
  BY <1>1, <1>2 DEF DecoderInv, Types
<1>4. /\ InOrder(air', sent + 1)
      /\ FrontOf(air', sent + 1) = FrontOf(air, sent)
      /\ FrontAt(air') = FrontAt(air)
  BY <1>1, <1>2, InOrderSend DEF DecoderInv
<1>5. PICK c, a : c = FrontOf(air, sent) /\ a = FrontAt(air)
  OBVIOUS
<1>6. ListenerInv(c, a)'
  BY <1>1, <1>5, ListenerUnchanged DEF DecoderInv
<1>7. /\ InOrder(air, sent)' /\ FrontOf(air, sent)' = c /\ FrontAt(air)' = a
  BY <1>1, <1>4, <1>5
<1>8. QED
  BY <1>3, <1>6, <1>7 DEF DecoderInv

(* A notification is given to the listener.                                *)
LEMMA DeliverKeepsInv ==
  ASSUME DecoderInv, Deliver
  PROVE  DecoderInv'
<1>1. PICK p : p = Head(air)
  OBVIOUS
<1>2. /\ air # << >> /\ air' = Tail(air) /\ Listen(p)
      /\ arrived' = [arrived EXCEPT ![p.of] = @ + Len(p.data)]
      /\ unlucky' = unlucky /\ sent' = sent /\ listening' = listening
      /\ faults' = faults
  BY <1>1 DEF Deliver, deviceVars
<1>3. /\ p \in Notification /\ IsPiece(p)
      /\ InOrder(air', sent)
      /\ FrontOf(air', sent) = IF IsLast(p) THEN p.of + 1 ELSE p.of
      /\ FrontAt(air') = IF IsLast(p) THEN 0 ELSE End(p)
  BY <1>1, <1>2, FrontFacts, InOrderTail DEF DecoderInv
<1>4. Types /\ ListenerInv(p.of, p.at)
  BY <1>1, <1>2, FrontFacts DEF DecoderInv
<1>5. PICK c2, a2 : c2 = FrontOf(air', sent) /\ a2 = FrontAt(air')
  OBVIOUS
<1>6. /\ c2 \in Nat /\ a2 \in Nat
      /\ c2 = IF IsLast(p) THEN p.of + 1 ELSE p.of
      /\ a2 = IF IsLast(p) THEN 0 ELSE End(p)
  <2>1. p.of \in Message /\ End(p) \in Nat
    BY <1>3, PieceTypes
  <2>2. p.of \in Nat
    BY <2>1, EncodedLength
  <2>3. QED
    BY <2>1, <2>2, <1>3, <1>5
<1>7. /\ ListenerInv(c2, a2)'
      /\ dataRaw' \in Seq(Letters)
      /\ dataMapBytes' \in Nat
      /\ heard' \in Seq(Message)
      /\ reported' \in Seq(Nat \ {0})
      /\ Len(reported') = Len(heard')
      /\ arrived' \in [Message -> Nat]
      /\ aborted' \subseteq Message
  BY <1>2, <1>3, <1>4, <1>6, ListenKeepsInv
<1>8. Types'
  BY <1>2, <1>4, <1>7 DEF Types
<1>9. /\ FrontOf(air, sent)' = c2 /\ FrontAt(air)' = a2
      /\ InOrder(air, sent)'
  BY <1>2, <1>3, <1>5
<1>10. QED
  BY <1>7, <1>8, <1>9 DEF DecoderInv

(* The subscription starts or ends, or nothing happens.                    *)
LEMMA IdleKeepsInv ==
  ASSUME DecoderInv, listening' \in BOOLEAN,
         UNCHANGED << unlucky, sent, air, arrived, dataRaw, dataMapBytes,
                      heard, reported, aborted, faults >>
  PROVE  DecoderInv'
<1>1. PICK c, a : c = FrontOf(air, sent) /\ a = FrontAt(air)
  OBVIOUS
<1>2. ListenerInv(c, a)'
  BY <1>1, ListenerUnchanged DEF DecoderInv
<1>3. Types'
  BY DEF DecoderInv, Types
<1>4. InOrder(air, sent)' /\ FrontOf(air, sent)' = c /\ FrontAt(air)' = a
  BY <1>1 DEF DecoderInv
<1>5. QED
  BY <1>2, <1>3, <1>4 DEF DecoderInv

(* Whatever is sent, lost, missed and given to the listener, the buffer,   *)
(* the count of bytes and the response stream are what the bytes given     *)
(* since the last whole message leave there: enableNotification and        *)
(* disableNotification never reset them.                                   *)
THEOREM ListenerKnowsTheFront == Spec => []DecoderInv
<1>1. Init => DecoderInv
  BY InitInv
<1>2. DecoderInv /\ [Next]_vars => DecoderInv'
  <2> SUFFICES ASSUME DecoderInv, [Next]_vars
               PROVE  DecoderInv'
    OBVIOUS
  <2>1. listening \in BOOLEAN /\ faults \in 0 .. MaxFaults /\ MaxFaults \in Nat
    BY FaultsAssumption DEF DecoderInv, Types
  <2>2. ASSUME NEW n \in Payloads, Send(n)
        PROVE  DecoderInv'
    BY <2>2, SendKeepsInv
  <2>3. CASE Lose
    <3>1. faults' \in 0 .. MaxFaults
      BY <2>1, <2>3 DEF Lose
    <3>2. QED
      BY <2>1, <2>3, <3>1, HeadIsGone DEF Lose, deviceVars, appVars
  <2>4. CASE Miss
    BY <2>1, <2>4, HeadIsGone DEF Miss, deviceVars, appVars
  <2>5. CASE enableNotification
    BY <2>5, IdleKeepsInv DEF enableNotification, deviceVars
  <2>6. CASE Unsubscribe
    BY <2>6, IdleKeepsInv DEF Unsubscribe, disableNotification, deviceVars
  <2>7. CASE LinkLost
    BY <2>7, LinkLostKeepsInv
  <2>8. CASE Deliver
    BY <2>8, DeliverKeepsInv
  <2>9. CASE UNCHANGED vars
    BY <2>1, <2>9, IdleKeepsInv DEF vars, deviceVars, appVars
  <2>10. QED
    BY <2>2, <2>3, <2>4, <2>5, <2>6, <2>7, <2>8, <2>9 DEF Next
<1>3. QED
  BY <1>1, <1>2, PTL DEF Spec

-----------------------------------------------------------------------------
(* What the invariant says of the properties *)

(* The invariant implies the types.                                        *)
LEMMA DecoderTypes ==
  ASSUME DecoderInv
  PROVE  TypeOK
<1>1. Types /\ InOrder(air, sent)
  BY DEF DecoderInv
<1>2. ArrivedBefore(FrontOf(air, sent), FrontAt(air))
  BY DEF DecoderInv, ListenerInv
<1>3. ASSUME NEW i \in DOMAIN air
      PROVE  \E n \in Payloads : Len(air[i].data) \in 1 .. n
  <2>1. i \in 1 .. Len(air) /\ air \in Seq(Notification)
    BY <1>1, <1>3, LenProperties DEF InOrder
  <2>2. air[i] \in Notification /\ IsPiece(air[i])
    BY <1>1, <2>1, ElementOfSeq DEF InOrder
  <2>3. Len(air[i].data) \in Nat \ {0}
    BY <2>2, PieceTypes
  <2>4. PICK n \in Payloads : Len(air[i].data) <= n
    BY <2>2 DEF IsPiece
  <2>5. n \in Nat
    BY PayloadAssumption
  <2>6. Len(air[i].data) \in 1 .. n
    BY ONLY <2>3, <2>4, <2>5
  <2>7. QED
    BY <2>6
<1>4. \A i \in DOMAIN dataRaw : dataRaw[i] # Delimiter
  <2>1. dataRaw \in Seq(Letters) /\ DOMAIN dataRaw = 1 .. Len(dataRaw)
    BY <1>1, LenProperties DEF Types
  <2>2. \A i \in DOMAIN dataRaw : dataRaw[i] \in Letters
    BY <2>1, ElementOfSeq
  <2>3. QED
    BY <2>2, LetterFacts
<1>5. ASSUME NEW m \in Message
      PROVE  arrived[m] \in 0 .. Len(Encoded(m))
  <2>1. PICK c, a : c = FrontOf(air, sent) /\ a = FrontAt(air)
    OBVIOUS
  <2>2. /\ c \in Nat /\ a \in Nat
        /\ \/ c \in Message /\ a < Len(Encoded(c))
           \/ c = sent + 1 /\ a = 0
    BY <2>1, FrontFacts
  <2>3. /\ m < c => arrived[m] <= Len(Encoded(m))
        /\ m = c => arrived[m] <= a
        /\ m > c => arrived[m] = 0
    BY <1>2, <2>1 DEF ArrivedBefore
  <2>4. arrived[m] \in Nat
    BY <1>1 DEF Types
  <2>5. m \in Nat /\ Len(Encoded(m)) \in Nat
    BY EncodedLength
  <2>6. m = c => a <= Len(Encoded(m))
    <3>1. CASE c \in Message /\ a < Len(Encoded(c))
      <4>1. Len(Encoded(c)) \in Nat
        BY <3>1, EncodedLength
      <4>2. a <= Len(Encoded(c))
        BY ONLY <2>2, <3>1, <4>1
      <4>3. QED
        BY <4>2
    <3>2. CASE a = 0
      BY <3>2, <2>5
    <3>3. QED
      BY <2>2, <3>1, <3>2
  <2>7. arrived[m] <= Len(Encoded(m))
    BY ONLY <2>2, <2>3, <2>4, <2>5, <2>6
  <2>8. QED
    BY ONLY <2>4, <2>5, <2>7
<1>6. QED
  BY <1>1, <1>3, <1>4, <1>5 DEF Types, TypeOK

(* The invariant implies what the response stream promises: a message that *)
(* was given in full is before the front.                                  *)
LEMMA DecoderHears ==
  ASSUME DecoderInv
  PROVE  HeardInOrder /\ ArrivedIsHeard /\ BytesAreOwn
<1>1. PICK c, a : c = FrontOf(air, sent) /\ a = FrontAt(air)
  OBVIOUS
<1>2. ListenerInv(c, a) /\ Types
  BY <1>1 DEF DecoderInv
<1>3. HeardInOrder /\ BytesAreOwn
  BY <1>2 DEF ListenerInv, HeardBefore
<1>4. ASSUME NEW m \in Message, Whole(m)
      PROVE  m < c
  <2>1. /\ m \in Nat /\ Len(Encoded(m)) \in Nat /\ Len(Encoded(m)) > 2
    BY EncodedLength
  <2>2. arrived[m] = Len(Encoded(m))
    BY <1>4 DEF Whole
  <2>3. /\ m = c => arrived[m] <= a
        /\ m > c => arrived[m] = 0
    BY <1>2 DEF ListenerInv, ArrivedBefore
  <2>4. /\ c \in Nat /\ a \in Nat
        /\ a < Len(Encoded(c)) \/ a = 0
    BY <1>1, FrontFacts
  <2>5. m # c
    BY <2>1, <2>2, <2>3, <2>4
  <2>6. QED
    BY ONLY <2>1, <2>2, <2>3, <2>4, <2>5
<1>5. ArrivedIsHeard
  BY <1>2, <1>4 DEF ArrivedIsHeard, ListenerInv, WholeIsHeard, Heard
<1>6. QED
  BY <1>3, <1>5

(* The state variables of the decoder, the listener and the air keep their *)
(* types; no delimiter stays in _dataRaw, and the listener is never given  *)
(* more of a message than the device made of it.                           *)
THEOREM TypeCorrect == Spec => []TypeOK
<1>1. DecoderInv => TypeOK
  BY DecoderTypes
<1>2. QED
  BY <1>1, ListenerKnowsTheFront, PTL

(* Whatever notifications are lost or missed, and however often the link   *)
(* and the subscription end with a part of a message in _dataRaw, the      *)
(* response stream carries messages in the order they were sent, and none  *)
(* twice.                                                                  *)
THEOREM DecodedOnce == Spec => []HeardInOrder
<1>1. DecoderInv => HeardInOrder
  BY DecoderHears
<1>2. QED
  BY <1>1, ListenerKnowsTheFront, PTL

(* Whatever an earlier message, link or subscription left in _dataRaw, a   *)
(* message that is given to the listener from its first byte to its last   *)
(* is put on the response stream, unless decode threw in between.          *)
THEOREM GivenIsHeard == Spec => []ArrivedIsHeard
<1>1. DecoderInv => ArrivedIsHeard
  BY DecoderHears
<1>2. QED
  BY <1>1, ListenerKnowsTheFront, PTL

(* As long as no notification is lost or missed, _dataMapBytes counts the  *)
(* bytes of the notifications of each message, and of no other.            *)
THEOREM CountedAlone == Spec => []BytesAreOwn
<1>1. DecoderInv => BytesAreOwn
  BY DecoderHears
<1>2. QED
  BY <1>1, ListenerKnowsTheFront, PTL

=============================================================================
