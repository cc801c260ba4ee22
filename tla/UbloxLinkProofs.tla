-------------------------- MODULE UbloxLinkProofs --------------------------
(* What holds of the receive interrupt for every size of a byte, of the    *)
(* buffer and of the counter and for every set of messages: it never reads *)
(* more of a message than its buffer holds, whatever is lost or changed on *)
(* the wire, and on a clean wire it announces every message that fits, no  *)
(* other, and the task reads what was announced.                           *)
(*                                                                         *)
(* Both follow the parser.  The first says what it has stored when it      *)
(* comes to the length, and that the two bytes of the length are left      *)
(* alone while the body is read, by the interrupt and by the driver, which *)
(* writes into the same buffer.  The second says where in a message the    *)
(* parser is when so many of its bytes have come, and that the receiver    *)
(* owes one answer at most until the driver has written into the buffer.   *)
(* What a recursive function computes, the checksum, takes an induction    *)
(* over a set of numbers.                                                  *)
(***************************************************************************)
EXTENDS UbloxLink, TLAPS, WellFoundedInduction

-----------------------------------------------------------------------------
(* Numbers.                                                                *)

\* A set that has 0, and n + 1 with each n, has all natural numbers.
LEMMA SetInduction ==
  ASSUME NEW S, 0 \in S, \A n \in Nat : n \in S => n + 1 \in S
  PROVE  Nat \subseteq S
<1> SUFFICES ASSUME Nat \ S # {} PROVE FALSE
  OBVIOUS
<1>1. PICK m \in Nat \ S : \A k \in Nat \ S : <<k, m>> \notin OpToRel(<, Nat)
  BY WFMin, NatLessThanWellFounded, Zenon
<1>2. \A k \in Nat \ S : ~(k < m)
  BY <1>1 DEF OpToRel
<1>3. m # 0 /\ m - 1 \in Nat /\ m - 1 < m
  OBVIOUS
<1>4. m - 1 \in S
  BY <1>2, <1>3
<1>5. QED
  BY <1>3, <1>4

\* A byte has a value at least, and what is reduced to a byte is one.
LEMMA BaseIsPositive == Base \in Nat /\ Base > 0
  BY WireAssumption DEF Byte

\* A sum reduced to a byte is one.
LEMMA ReducedIsByte == ASSUME NEW n \in Nat PROVE n % Base \in Byte
  BY BaseIsPositive DEF Byte

\* The high byte of a length of two bytes.
LEMMA HighIsByte ==
  ASSUME NEW n \in Nat, n < Base * Base
  PROVE  n \div Base \in Byte
<1>1. n \div Base < Base /\ n \div Base >= 0
  BY BaseIsPositive
<1>2. QED
  BY <1>1, BaseIsPositive DEF Byte

-----------------------------------------------------------------------------
(* The checksum of a message.                                              *)

CheckPair == Byte \X Byte

\* Both sums of the Fletcher checksum stay bytes.
LEMMA FletcherType ==
  ASSUME NEW ck \in CheckPair, NEW byte \in Byte
  PROVE  Fletcher(ck, byte) \in CheckPair
<1> DEFINE a == (ck[1] + byte) % Base
<1>1. ck[1] \in Nat /\ ck[2] \in Nat /\ byte \in Nat
  BY BaseIsPositive DEF CheckPair, Byte
<1>2. a \in Byte
  BY <1>1, ReducedIsByte
<1>3. (ck[2] + a) % Base \in Byte
  BY <1>1, <1>2, ReducedIsByte DEF Byte
<1>4. QED
  BY <1>2, <1>3 DEF Fletcher, CheckPair

\* The sums up to each place of a sequence of bytes.
SumsTo(bytes, k, g) ==
  /\ g \in [0 .. k -> CheckPair]
  /\ g[0] = <<0, 0>>
  /\ \A i \in 1 .. k : g[i] = Fletcher(g[i - 1], bytes[i])

\* They exist: one more place is one more step of the checksum.
LEMMA SumsExist ==
  ASSUME NEW bytes \in Seq(Byte)
  PROVE  \E g : SumsTo(bytes, Len(bytes), g)
<1> DEFINE S == {k \in Nat : k <= Len(bytes) => \E g : SumsTo(bytes, k, g)}
<1>1. 0 \in S
  <2> DEFINE g == [i \in 0 .. 0 |-> <<0, 0>>]
  <2>1. SumsTo(bytes, 0, g)
    BY BaseIsPositive DEF SumsTo, CheckPair, Byte
  <2>2. QED
    BY <2>1
<1>2. ASSUME NEW n \in Nat, n \in S PROVE n + 1 \in S
  <2>1. SUFFICES ASSUME n + 1 <= Len(bytes)
                 PROVE  \E g : SumsTo(bytes, n + 1, g)
    OBVIOUS
  <2>2. PICK f : SumsTo(bytes, n, f)
    BY <1>2, <2>1
  <2> DEFINE next == Fletcher(f[n], bytes[n + 1])
  <2> DEFINE g == [i \in 0 .. n + 1 |-> IF i = n + 1 THEN next ELSE f[i]]
  <2>3. next \in CheckPair
    BY <2>1, <2>2, FletcherType DEF SumsTo
  <2>4. g \in [0 .. n + 1 -> CheckPair] /\ g[0] = <<0, 0>>
    BY <2>2, <2>3 DEF SumsTo
  <2>5. ASSUME NEW i \in 1 .. n + 1 PROVE g[i] = Fletcher(g[i - 1], bytes[i])
    <3>1. CASE i = n + 1
      BY <3>1
    <3>2. CASE i # n + 1
      <4>1. i \in 1 .. n /\ g[i] = f[i] /\ g[i - 1] = f[i - 1]
        BY <3>2
      <4>2. QED
        BY <2>2, <4>1 DEF SumsTo
    <3>3. QED
      BY <3>1, <3>2
  <2>6. SumsTo(bytes, n + 1, g)
    BY <2>4, <2>5 DEF SumsTo
  <2>7. QED
    BY <2>6
<1>3. Nat \subseteq S
  <2> HIDE DEF S
  <2>1. QED
    BY <1>1, <1>2, SetInduction
<1>4. Len(bytes) \in Nat
  OBVIOUS
<1>5. QED
  BY <1>3, <1>4

\* The sums that a receiver of these bytes comes to, byte by byte.
RunningSums(bytes) ==
  LET sum[i \in 0 .. Len(bytes)] == IF i = 0 THEN <<0, 0>> ELSE Fletcher(sum[i - 1], bytes[i])
  IN  sum

\* What this recursive function is equal to; CheckSum is its last value.
LEMMA SumsRun ==
  ASSUME NEW bytes \in Seq(Byte)
  PROVE  /\ RunningSums(bytes)[0] = <<0, 0>>
         /\ \A i \in 1 .. Len(bytes) :
              RunningSums(bytes)[i] = Fletcher(RunningSums(bytes)[i - 1], bytes[i])
         /\ CheckSum(bytes) = RunningSums(bytes)[Len(bytes)]
<1> DEFINE n == Len(bytes)
<1> DEFINE Sums(f) == [i \in 0 .. n |-> IF i = 0 THEN <<0, 0>>
                                       ELSE Fletcher(f[i - 1], bytes[i])]
<1> DEFINE sum == CHOOSE f : f = Sums(f)
<1>1. PICK g : SumsTo(bytes, n, g)
  BY SumsExist
<1>2. g = Sums(g)
  <2>1. g = [i \in 0 .. n |-> g[i]]
    BY <1>1 DEF SumsTo
  <2>2. ASSUME NEW i \in 0 .. n
        PROVE  g[i] = IF i = 0 THEN <<0, 0>> ELSE Fletcher(g[i - 1], bytes[i])
    <3>1. i = 0 \/ i \in 1 .. n
      OBVIOUS
    <3>2. QED
      BY <1>1, <3>1 DEF SumsTo
  <2>3. QED
    BY <2>1, <2>2
<1>3. sum = Sums(sum)
  <2> HIDE DEF Sums
  <2>1. QED
    BY <1>2
<1>4. n \in Nat
  OBVIOUS
<1>5. RunningSums(bytes) = sum /\ CheckSum(bytes) = sum[n]
  BY DEF RunningSums, CheckSum
<1>6. QED
  <2> HIDE DEF sum
  <2>1. sum[0] = <<0, 0>> /\ \A i \in 1 .. n : sum[i] = Fletcher(sum[i - 1], bytes[i])
    <3>1. sum = [i \in 0 .. n |-> sum[i]]
      BY <1>3
    <3>2. ASSUME NEW i \in 0 .. n
          PROVE  sum[i] = IF i = 0 THEN <<0, 0>> ELSE Fletcher(sum[i - 1], bytes[i])
      BY <1>3
    <3>3. QED
      BY <1>4, <3>2
  <2>2. QED
    BY <1>5, <2>1

\* They are pairs of bytes, and so is the checksum.
LEMMA CheckSumType ==
  ASSUME NEW bytes \in Seq(Byte)
  PROVE  CheckSum(bytes) \in CheckPair
<1> DEFINE n == Len(bytes)
<1>1. PICK sum : /\ sum = RunningSums(bytes) /\ sum[0] = <<0, 0>>
                 /\ \A i \in 1 .. n : sum[i] = Fletcher(sum[i - 1], bytes[i])
                 /\ CheckSum(bytes) = sum[n]
  BY SumsRun
<1>2. n \in Nat
  OBVIOUS
<1>3. \A k \in Nat : k <= n => sum[k] \in CheckPair
  <2> DEFINE T == {k \in Nat : k <= n => sum[k] \in CheckPair}
  <2>1. 0 \in T
    <3>1. <<0, 0>> \in CheckPair
      BY BaseIsPositive DEF CheckPair, Byte
    <3>2. QED
      BY <1>1, <3>1
  <2>2. ASSUME NEW k \in Nat, k \in T PROVE k + 1 \in T
    <3>1. CASE k + 1 <= n
      <4>1. sum[k + 1] = Fletcher(sum[k], bytes[k + 1])
        BY <1>1, <1>2, <3>1
      <4>2. sum[k] \in CheckPair /\ bytes[k + 1] \in Byte
        BY <1>2, <2>2, <3>1
      <4>3. QED
        BY <4>1, <4>2, FletcherType
    <3>2. CASE ~(k + 1 <= n)
      BY <3>2
    <3>3. QED
      BY <3>1, <3>2
  <2>3. Nat \subseteq T
    <3> HIDE DEF T
    <3>1. QED
      BY <2>1, <2>2, SetInduction
  <2>4. QED
    BY <2>3
<1>4. QED
  BY <1>1, <1>2, <1>3

\* What goes on the wire are bytes.
LEMMA MessageType == ASSUME NEW k \in Kind PROVE Message(k) \in Seq(Byte)
<1>1. /\ Body[k] \in Seq(Byte) /\ Len(Body[k]) \in Nat
      /\ Len(Body[k]) < Base * Base
      /\ ClassId[k][1] \in Byte /\ ClassId[k][2] \in Byte
  BY MessageAssumption, BaseIsPositive
<1>2. Len(Body[k]) % Base \in Byte /\ Len(Body[k]) \div Base \in Byte
  BY <1>1, ReducedIsByte, HighIsByte
<1>3. Content(k) \in Seq(Byte)
  BY <1>1, <1>2 DEF Content
<1>4. PICK a \in Byte, b \in Byte : CheckSum(Content(k)) = <<a, b>>
  BY <1>3, CheckSumType DEF CheckPair
<1>5. QED
  BY <1>3, <1>4, WireAssumption DEF Message

-----------------------------------------------------------------------------
(* The interrupt.                                                          *)

IsrType ==
  [state : ParserState, buffer : [0 .. BufferLen - 1 -> Byte],
   write : 0 .. BufferLen, remaining : Int, ck : CheckPair]

LengthIsZero(s) == s.buffer[2] = 0 /\ s.buffer[3] = 0

\* What the parser has stored, state by state: the length is complete when the
\* body begins, and it lies below everything that is written from then on.
Parsed(s) ==
  /\ s.state = "class" => s.write = 1
  /\ s.state = "id" => s.write = 2
  /\ s.state = "lsb_len" => s.write = 3 /\ s.remaining = s.buffer[2]
  /\ s.state = "reading" =>
       s.write >= 4 /\ (s.remaining \in 1 .. BufferLen \/ LengthIsZero(s))

IsrInv == isr \in IsrType /\ Parsed(isr)

\* The inductive invariant: beside the interrupt, what comes to it are bytes.
LinkInv ==
  /\ IsrInv
  /\ wire \in Seq(Byte)
  /\ receiver \in [owed : Seq(Kind), reports : BOOLEAN]

\* The fields that the tail of the handler changes.
LEMMA UpdateType ==
  ASSUME NEW s \in IsrType, NEW sum \in CheckPair, NEW place \in 0 .. BufferLen,
         NEW buffer \in [0 .. BufferLen - 1 -> Byte]
  PROVE  [s EXCEPT !.ck = sum, !.buffer = buffer, !.write = place] \in IsrType
BY DEF IsrType

\* The tail of the handler stores a byte where there is room, and nowhere else.
LEMMA SavedType ==
  ASSUME NEW s \in IsrType, NEW byte \in Byte
  PROVE  /\ Saved(s, byte) \in IsrType
         /\ Saved(s, byte).state = s.state
         /\ Saved(s, byte).remaining = s.remaining
         /\ s.write < BufferLen => /\ Saved(s, byte).write = s.write + 1
                                   /\ Saved(s, byte).buffer[s.write] = byte
         /\ Saved(s, byte).write >= s.write
         /\ \A i \in 0 .. BufferLen - 1 :
              i # s.write => Saved(s, byte).buffer[i] = s.buffer[i]
<1>1. BufferLen \in Nat /\ s.write \in 0 .. BufferLen
      /\ s.buffer \in [0 .. BufferLen - 1 -> Byte]
  BY WireAssumption DEF IsrType
<1>2. Fletcher(s.ck, byte) \in CheckPair
  BY FletcherType DEF IsrType
<1>3. CASE s.write < BufferLen
  <2> DEFINE t == [s EXCEPT !.ck = Fletcher(s.ck, byte),
                            !.buffer = [s.buffer EXCEPT ![s.write] = byte],
                            !.write = s.write + 1]
  <2>1. Saved(s, byte) = t
    BY <1>3 DEF Saved, IsrType
  <2>2. t \in IsrType
    <3>1. [s.buffer EXCEPT ![s.write] = byte] \in [0 .. BufferLen - 1 -> Byte]
      BY <1>1
    <3>2. s.write + 1 \in 0 .. BufferLen
      BY <1>1, <1>3
    <3>3. QED
      BY <1>2, <3>1, <3>2, UpdateType
  <2>3. QED
    BY <1>1, <1>3, <2>1, <2>2 DEF IsrType
<1>4. CASE ~(s.write < BufferLen)
  <2> DEFINE t == [s EXCEPT !.ck = Fletcher(s.ck, byte)]
  <2>1. Saved(s, byte) = t
    BY <1>4 DEF Saved, IsrType
  <2>2. t \in IsrType
    BY <1>2 DEF IsrType
  <2>3. QED
    BY <1>1, <1>4, <2>1, <2>2 DEF IsrType
<1>5. QED
  BY <1>3, <1>4

\* One state of the parser after the other; the buffer has room for more than
\* the four bytes before the body.
LEMMA InterruptStep ==
  ASSUME IsrInv, NEW byte \in Byte, Interrupt(byte)
  PROVE  IsrInv'
<1> USE DEF IsrInv
<1>1. /\ BufferLen \in Nat /\ BufferLen > 4 /\ BufferLen < Word
      /\ Base \in Nat /\ Word \in Nat /\ Base > 0
  BY WireAssumption, BaseIsPositive
<1>2. /\ isr \in IsrType /\ isr.write \in 0 .. BufferLen /\ isr.remaining \in Int
      /\ isr.state \in ParserState /\ byte \in Nat
      /\ \A i \in 0 .. BufferLen - 1 : isr.buffer[i] \in Nat
  BY <1>1 DEF IsrType, Byte
<1>2a. /\ {"waiting", "sync1", "sync2", "class", "id", "lsb_len", "reading", "ck1",
           "ck2"} \subseteq ParserState
       /\ <<0, 0>> \in CheckPair
  BY <1>1 DEF ParserState, Header, CheckPair, Byte
<1>3. CASE TakeSync(byte)
  BY <1>2, <1>2a, <1>3 DEF TakeSync, IsrType, Parsed
<1>4. CASE TakeClass(byte)
  <2> DEFINE s == [isr EXCEPT !.state = "class", !.ck = <<0, 0>>, !.write = 0]
  <2>1. s \in IsrType /\ s.state = "class" /\ s.write = 0
    <3>1. "class" \in ParserState /\ 0 \in 0 .. BufferLen /\ <<0, 0>> \in CheckPair
      BY <1>1, <1>2a
    <3>2. QED
      BY <1>2, <3>1, Zenon DEF IsrType
  <2>2. isr' = Saved(s, byte)
    BY <1>4 DEF TakeClass
  <2> HIDE DEF s
  <2>3. QED
    BY <1>1, <2>1, <2>2, SavedType DEF Parsed
<1>5. CASE TakeId(byte)
  <2> DEFINE s == [isr EXCEPT !.state = "id"]
  <2>1. s \in IsrType /\ s.state = "id" /\ s.write = 1
    BY <1>2, <1>2a, <1>5 DEF TakeId, IsrType, Parsed
  <2>2. isr' = Saved(s, byte)
    BY <1>5 DEF TakeId
  <2> HIDE DEF s
  <2>3. QED
    BY <1>1, <2>1, <2>2, SavedType DEF Parsed
<1>6. CASE TakeLsb(byte)
  <2> DEFINE s == [isr EXCEPT !.state = "lsb_len", !.remaining = byte]
  <2>1. s \in IsrType /\ s.state = "lsb_len" /\ s.write = 2 /\ s.remaining = byte
    <3>1. "lsb_len" \in ParserState /\ byte \in Int
      BY <1>2, <1>2a
    <3>2. isr.write = 2
      BY <1>6 DEF TakeLsb, Parsed
    <3>3. s \in IsrType
      BY <1>2, <3>1 DEF IsrType
    <3>4. s.state = "lsb_len" /\ s.write = 2 /\ s.remaining = byte
      BY <1>2, <3>2 DEF IsrType
    <3>5. QED
      BY <3>3, <3>4
  <2>2. isr' = Saved(s, byte)
    BY <1>6 DEF TakeLsb
  <2> HIDE DEF s
  <2>3. QED
    BY <1>1, <2>1, <2>2, SavedType DEF Parsed
<1>7. CASE TakeMsb(byte)
  <2> DEFINE length == isr.remaining + byte * Base
  <2>1. isr.state = "lsb_len" /\ isr.write = 3 /\ isr.remaining = isr.buffer[2]
    BY <1>7 DEF TakeMsb, Parsed
  <2>2. length \in Nat /\ (length = 0 => isr.buffer[2] = 0 /\ byte = 0)
    <3>1. isr.remaining \in Nat
      BY <1>1, <1>2, <2>1
    <3>2. byte * Base \in Nat /\ (byte > 0 => byte * Base > 0)
      BY <1>1, <1>2
    <3>3. QED
      BY <1>2, <2>1, <3>1, <3>2
  <2>3. CASE length > BufferLen
    <3>1. isr' = [isr EXCEPT !.state = "waiting", !.remaining = length]
      BY <1>7, <2>3 DEF TakeMsb
    <3>2. "waiting" \in ParserState /\ length \in Int
      BY <1>2a, <2>2
    <3> HIDE DEF length
    <3>3. isr' \in IsrType
      BY <1>2, <3>1, <3>2 DEF IsrType
    <3>4. isr'.state = "waiting"
      BY <1>2, <3>1 DEF IsrType
    <3>5. QED
      BY <3>3, <3>4 DEF Parsed
  <2>4. CASE ~(length > BufferLen)
    <3> DEFINE s == [isr EXCEPT !.state = "reading", !.remaining = length]
    <3>1. /\ s \in IsrType /\ s.state = "reading" /\ s.write = 3
          /\ s.remaining = length /\ s.buffer = isr.buffer
      <4>1. "reading" \in ParserState /\ length \in Int
        BY <1>2a, <2>2
      <4> HIDE DEF length
      <4>2. s \in IsrType
        BY <1>2, <4>1 DEF IsrType
      <4>3. /\ s.state = "reading" /\ s.write = 3
            /\ s.remaining = length /\ s.buffer = isr.buffer
        BY <1>2, <2>1 DEF IsrType
      <4>4. QED
        BY <4>2, <4>3
    <3>2. isr' = Saved(s, byte)
      BY <1>7, <2>4 DEF TakeMsb
    <3> HIDE DEF s
    <3>3. isr' \in IsrType /\ isr'.state = "reading" /\ isr'.write = 4
          /\ isr'.remaining = length
      BY <1>1, <3>1, <3>2, SavedType
    <3>4. isr'.buffer[3] = byte /\ isr'.buffer[2] = isr.buffer[2]
      BY <1>1, <3>1, <3>2, SavedType
    <3>5. length \in 1 .. BufferLen \/ LengthIsZero(isr')
      BY <1>1, <2>2, <2>4, <3>4 DEF LengthIsZero
    <3>6. QED
      BY <3>3, <3>5 DEF Parsed
  <2>5. QED
    BY <2>3, <2>4
<1>8. CASE TakeBody(byte)
  <2> DEFINE left == (isr.remaining - 1) % Word
  <2> DEFINE s == [isr EXCEPT !.remaining = left,
                              !.state = IF left = 0 THEN "ck1" ELSE isr.state]
  <2>1. isr.state = "reading" /\ isr.write >= 4
        /\ (isr.remaining \in 1 .. BufferLen \/ LengthIsZero(isr))
    BY <1>8 DEF TakeBody, Parsed
  <2>2. left \in Int /\ (isr.remaining \in 1 .. BufferLen => left = isr.remaining - 1)
    BY <1>1, <1>2
  <2>3. /\ s \in IsrType /\ s.state = (IF left = 0 THEN "ck1" ELSE "reading")
        /\ s.write = isr.write /\ s.remaining = left /\ s.buffer = isr.buffer
    BY <1>2, <1>2a, <2>1, <2>2 DEF IsrType
  <2>4. isr' = Saved(s, byte)
    BY <1>8 DEF TakeBody
  <2> HIDE DEF s
  <2>5. /\ isr' \in IsrType /\ isr'.state = s.state /\ isr'.remaining = left
        /\ isr'.write >= isr.write
    BY <1>2, <2>3, <2>4, SavedType DEF IsrType
  <2>6. isr'.buffer[2] = isr.buffer[2] /\ isr'.buffer[3] = isr.buffer[3]
    BY <1>1, <2>1, <2>3, <2>4, SavedType
  <2>7. isr'.write >= 4
    BY <1>2, <2>1, <2>5 DEF IsrType
  <2>8. left # 0 => left \in 1 .. BufferLen \/ LengthIsZero(isr')
    BY <1>1, <2>1, <2>2, <2>6 DEF LengthIsZero
  <2>9. QED
    BY <2>3, <2>5, <2>7, <2>8 DEF Parsed
<1>9. CASE TakeCk1(byte) \/ TakeCk2(byte)
  BY <1>2, <1>2a, <1>9 DEF TakeCk1, TakeCk2, IsrType, Parsed
<1>10. QED
  BY <1>3, <1>4, <1>5, <1>6, <1>7, <1>8, <1>9 DEF Interrupt

-----------------------------------------------------------------------------
(* The whole link.                                                         *)

\* The link as it starts satisfies the invariant.
LEMMA LinkInit == Init => LinkInv
<1> SUFFICES ASSUME Init PROVE LinkInv
  OBVIOUS
<1>1. BufferLen \in Nat /\ 0 \in Byte
  BY WireAssumption, BaseIsPositive DEF Byte
<1>2. QED
  BY <1>1 DEF Init, IsrReset, LinkInv, IsrInv, IsrType, CheckPair, ParserState, Header,
              Parsed

\* The bytes of the messages come out of the wire, some of them changed.
LEMMA WireStep == LinkInv /\ Wire => LinkInv'
<1> SUFFICES ASSUME LinkInv, Wire PROVE LinkInv'
  OBVIOUS
<1> USE DEF LinkInv
<1>1. CASE ByteArrives
  <2>1. Head(wire) \in Byte /\ Tail(wire) \in Seq(Byte)
    BY <1>1 DEF ByteArrives
  <2>2. QED
    BY <1>1, <2>1, InterruptStep DEF ByteArrives
<1>2. CASE ByteLost
  BY <1>2 DEF ByteLost, IsrInv
<1>3. CASE ByteChanged
  <2>1. PICK byte \in Byte : Interrupt(byte)
    BY <1>3 DEF ByteChanged
  <2>2. Tail(wire) \in Seq(Byte)
    BY <1>3 DEF ByteChanged
  <2>3. QED
    BY <1>3, <2>1, <2>2, InterruptStep DEF ByteChanged
<1>4. CASE ReceiverAnswers
  <2>1. Head(receiver.owed) \in Kind /\ Tail(receiver.owed) \in Seq(Kind)
    BY <1>4 DEF ReceiverAnswers
  <2>2. receiver' \in [owed : Seq(Kind), reports : BOOLEAN]
    BY <1>4, <2>1 DEF ReceiverAnswers
  <2>3. wire' \in Seq(Byte)
    BY <1>4, <2>1, MessageType DEF ReceiverAnswers, Begins
  <2>4. QED
    BY <1>4, <2>2, <2>3 DEF ReceiverAnswers, IsrInv
<1>5. CASE ReceiverReports
  BY <1>5, MessageType DEF ReceiverReports, Begins, IsrInv
<1>6. QED
  BY <1>1, <1>2, <1>3, <1>4, <1>5 DEF Wire

\* What a request makes the receiver owe.
LEMMA RequestType ==
  ASSUME NEW r \in [owed : Seq(Kind), reports : BOOLEAN], NEW k \in Kind
  PROVE  /\ Owes(r, <<k>>) \in [owed : Seq(Kind), reports : BOOLEAN]
         /\ [r EXCEPT !.reports = FALSE] \in [owed : Seq(Kind), reports : BOOLEAN]
         /\ [r EXCEPT !.reports = TRUE] \in [owed : Seq(Kind), reports : BOOLEAN]
<1>1. r.owed \o <<k>> \in Seq(Kind)
  OBVIOUS
<1>2. QED
  BY <1>1 DEF Owes

\* The driver leaves the parser and the length alone: it writes into the buffer
\* only what lies behind the four bytes (ublox_update_port_settings).
LEMMA TaskStep == LinkInv /\ Task => LinkInv'
<1> SUFFICES ASSUME LinkInv, Task PROVE LinkInv'
  OBVIOUS
<1> USE DEF LinkInv
<1>1. "prt" \in Kind /\ "ver" \in Kind /\ "ack" \in Kind
  BY MessageAssumption
<1>2. ASSUME UNCHANGED <<isr, wire, receiver>> PROVE LinkInv'
  BY <1>2 DEF IsrInv
<1>3. CASE ResetReceiver
  BY <1>1, <1>3, RequestType DEF ResetReceiver, ublox_reset, IsrInv, wirevars
<1>4. CASE PollPort
  BY <1>1, <1>4, RequestType DEF PollPort, IsrInv, wirevars
<1>5. CASE Expect \/ Match \/ PortRefused \/ Pong \/ Version
  BY <1>2, <1>5 DEF Expect, Match, PortRefused, Pong, Version, wirevars
<1>6. CASE PortSet
  <2>1. 4 \in 0 .. BufferLen - 1 /\ isr.buffer[4] \in Byte
    BY WireAssumption DEF IsrInv, IsrType
  <2>2. (isr.buffer[4] + 1) % Base \in Byte
    <3>1. isr.buffer[4] + 1 \in Nat
      BY <2>1, BaseIsPositive DEF Byte
    <3>2. QED
      BY <3>1, ReducedIsByte
  <2>3. isr' = [isr EXCEPT !.buffer[4] = (isr.buffer[4] + 1) % Base]
    BY <1>6 DEF PortSet
  <2>4. isr' \in IsrType
    BY <2>1, <2>2, <2>3 DEF IsrInv, IsrType
  <2>5. Parsed(isr')
    BY <2>1, <2>3 DEF IsrInv, IsrType, Parsed, LengthIsZero
  <2>6. QED
    BY <1>1, <1>6, <2>4, <2>5, RequestType DEF PortSet, IsrInv, wirevars
<1>7. CASE Ping
  BY <1>1, <1>7, RequestType DEF Ping, IsrInv, wirevars
<1>8. CASE Start
  BY <1>1, <1>8, RequestType
     DEF Start, ublox_start_updates, ublox_reset, ublox_set_measuring_rate, IsrInv, wirevars
<1>9. CASE Sleep
  BY <1>1, <1>9, RequestType DEF Sleep, ublox_sleep, ublox_reset, IsrInv, wirevars
<1>10. CASE Take \/ Classify \/ Check \/ Copy \/ SendPosition
  BY <1>2, <1>10 DEF Take, Classify, Check, Copy, SendPosition, wirevars
<1>11. QED
  BY <1>3, <1>4, <1>5, <1>6, <1>7, <1>8, <1>9, <1>10 DEF Task, Setup

\* No step of the link leaves the invariant.
LEMMA LinkStep == LinkInv /\ [Next]_vars => LinkInv'
<1> SUFFICES ASSUME LinkInv, [Next]_vars PROVE LinkInv'
  OBVIOUS
<1>1. CASE Main
  BY <1>1 DEF Main, Commands, Command, MainTakes, LinkInv, IsrInv, wirevars
<1>2. CASE UNCHANGED vars
  BY <1>2 DEF vars, wirevars, LinkInv, IsrInv
<1>3. QED
  BY <1>1, <1>2, WireStep, TaskStep DEF Next

\* Whatever bytes are lost or changed, whatever the driver does to the buffer:
\* no more is read for a message than the buffer holds, but for a length of
\* zero ("cap the message size", ublox_isr.c:87).
THEOREM LinkReadsWithinCap == Spec => []ReadsWithinCap
<1>1. LinkInv => ReadsWithinCap
  BY DEF LinkInv, IsrInv, Parsed, ReadsWithinCap, LengthIsZero
<1>2. QED
  BY LinkInit, LinkStep, <1>1, PTL DEF Spec

-----------------------------------------------------------------------------
(* A clean wire: where each byte of a message is.                          *)

\* The two bytes of a length are that length again.
LEMMA DividedAgain ==
  ASSUME NEW n \in Nat, NEW b \in Nat, b > 0
  PROVE  (n % b) + (n \div b) * b = n
<1>1. n % b = n - b * (n \div b)
  OBVIOUS
<1>2. n \div b \in Nat
  OBVIOUS
<1>3. QED
  BY <1>1, <1>2

\* The head of a message tells its class, its id and its length.
LEMMA ContentAt ==
  ASSUME NEW k \in Kind
  PROVE  /\ Len(Body[k]) \in Nat /\ Len(Body[k]) >= 1 /\ Len(Body[k]) < Base * Base
         /\ Content(k) \in Seq(Byte) /\ Len(Content(k)) = Len(Body[k]) + 4
         /\ Content(k)[1] = ClassId[k][1] /\ Content(k)[2] = ClassId[k][2]
         /\ Content(k)[3] + Content(k)[4] * Base = Len(Body[k])
         /\ \A i \in 1 .. Len(Body[k]) : Content(k)[i + 4] = Body[k][i]
<1>0. /\ Body[k] \in Seq(Byte) /\ Len(Body[k]) \in Nat /\ Len(Body[k]) >= 1
      /\ Len(Body[k]) < Base * Base
      /\ ClassId[k][1] \in Byte /\ ClassId[k][2] \in Byte
  BY MessageAssumption, BaseIsPositive
<1>1. PICK n : /\ n = Len(Body[k]) /\ n \in Nat /\ n >= 1 /\ n < Base * Base
               /\ Body[k] \in Seq(Byte)
               /\ ClassId[k][1] \in Byte /\ ClassId[k][2] \in Byte
  BY <1>0
<1>2. n % Base \in Byte /\ n \div Base \in Byte
  BY <1>1, ReducedIsByte, HighIsByte
<1>3. (n % Base) + (n \div Base) * Base = n
  BY <1>1, BaseIsPositive, DividedAgain
<1>4. PICK low \in Byte, high \in Byte : low = n % Base /\ high = n \div Base
  BY <1>2
<1>5. Content(k) = <<ClassId[k][1], ClassId[k][2], low, high>> \o Body[k]
  BY <1>1, <1>4 DEF Content
<1>6. low + high * Base = n
  BY <1>3, <1>4
<1>7. /\ Content(k) \in Seq(Byte) /\ Len(Content(k)) = n + 4
      /\ Content(k)[1] = ClassId[k][1] /\ Content(k)[2] = ClassId[k][2]
      /\ Content(k)[3] = low /\ Content(k)[4] = high
      /\ \A i \in 1 .. n : Content(k)[i + 4] = Body[k][i]
  BY <1>1, <1>4, <1>5
<1>8. QED
  BY <1>1, <1>6, <1>7

\* Two sync bytes, the content, its checksum.
LEMMA MessageAt ==
  ASSUME NEW k \in Kind
  PROVE  /\ Message(k) \in Seq(Byte) /\ Len(Message(k)) = Len(Body[k]) + 8
         /\ Message(k)[1] = Sync1 /\ Message(k)[2] = Sync2
         /\ \A i \in 1 .. Len(Body[k]) + 4 : Message(k)[i + 2] = Content(k)[i]
         /\ Message(k)[Len(Body[k]) + 7] = CheckSum(Content(k))[1]
         /\ Message(k)[Len(Body[k]) + 8] = CheckSum(Content(k))[2]
<1>0. Len(Body[k]) \in Nat /\ Content(k) \in Seq(Byte) /\ Len(Content(k)) = Len(Body[k]) + 4
  BY ContentAt
<1>1. PICK n, c : /\ n = Len(Body[k]) /\ n \in Nat
                  /\ c = Content(k) /\ c \in Seq(Byte) /\ Len(c) = n + 4
  BY <1>0
<1>2. PICK a \in Byte, b \in Byte : CheckSum(Content(k)) = <<a, b>>
  BY <1>1, CheckSumType DEF CheckPair
<1>3. Message(k) = (<<Sync1, Sync2>> \o c) \o <<a, b>>
  BY <1>1, <1>2 DEF Message
<1>4. PICK front \in Seq(Byte) : front = <<Sync1, Sync2>> \o c
  <2>1. <<Sync1, Sync2>> \o c \in Seq(Byte)
    BY <1>1, WireAssumption
  <2>2. QED
    BY <2>1
<1>5. /\ Len(front) = n + 6 /\ front[1] = Sync1 /\ front[2] = Sync2
      /\ \A i \in 1 .. n + 4 : front[i + 2] = c[i]
  BY <1>1, <1>4
<1>6. Message(k) = front \o <<a, b>>
  BY <1>3, <1>4
<1>7. /\ Message(k) \in Seq(Byte) /\ Len(Message(k)) = n + 8
      /\ \A i \in 1 .. n + 6 : Message(k)[i] = front[i]
      /\ Message(k)[n + 7] = a /\ Message(k)[n + 8] = b
  BY <1>1, <1>4, <1>5, <1>6
<1>8. /\ Message(k)[1] = Sync1 /\ Message(k)[2] = Sync2
      /\ \A i \in 1 .. n + 4 : Message(k)[i + 2] = c[i]
  <2>1. Message(k)[1] = front[1] /\ Message(k)[2] = front[2]
    <3>1. 1 \in 1 .. n + 6 /\ 2 \in 1 .. n + 6
      BY <1>1
    <3>2. QED
      BY <1>7, <3>1
  <2>2. ASSUME NEW i \in 1 .. n + 4 PROVE Message(k)[i + 2] = c[i]
    <3>1. i + 2 \in 1 .. n + 6
      BY <1>1
    <3>2. Message(k)[i + 2] = front[i + 2]
      BY <1>7, <3>1
    <3>3. QED
      BY <1>5, <3>2
  <2>3. QED
    BY <1>5, <2>1, <2>2
<1>9. CheckSum(Content(k))[1] = a /\ CheckSum(Content(k))[2] = b
  BY <1>2
<1>10. QED
  BY <1>1, <1>7, <1>8, <1>9, Zenon

\* What is too long for the buffer has nothing behind its length that could be
\* taken for the beginning of a message.
LEMMA LongIsPlain ==
  ASSUME NEW k \in Kind, ~Fits(k), NEW p \in 7 .. Len(Body[k]) + 8, Message(k)[p] = Sync1
  PROVE  p < Len(Body[k]) + 8 /\ Message(k)[p + 1] # Sync2
<1>1. PICK n, body, m : /\ n = Len(Body[k]) /\ n \in Nat /\ n >= 1
                        /\ body = Body[k] /\ body \in Seq(Byte) /\ m = Message(k)
  BY ContentAt, MessageAssumption
<1>2. PICK a \in Byte, b \in Byte : CheckSum(Content(k)) = <<a, b>>
  BY ContentAt, CheckSumType DEF CheckPair
<1>3. /\ \A i \in 1 .. n : m[i + 6] = body[i]
      /\ m[n + 7] = a /\ m[n + 8] = b
  <2>1. ASSUME NEW i \in 1 .. n PROVE m[i + 6] = body[i]
    <3>1. i + 4 \in 1 .. n + 4 /\ (i + 4) + 2 = i + 6
      BY <1>1
    <3>2. m[(i + 4) + 2] = Content(k)[i + 4]
      BY <1>1, <3>1, MessageAt
    <3>3. Content(k)[i + 4] = body[i]
      BY <1>1, ContentAt
    <3>4. QED
      BY <3>1, <3>2, <3>3
  <2>2. QED
    BY <1>1, <1>2, <2>1, MessageAt
<1>4. PICK rest \in Seq(Byte) : rest = Rest(k) /\ rest = body \o <<a, b>>
  <2>1. Rest(k) = body \o <<a, b>> /\ body \o <<a, b>> \in Seq(Byte)
    BY <1>1, <1>2 DEF Rest
  <2>2. QED
    BY <2>1
<1>5. /\ Len(rest) = n + 2 /\ DOMAIN rest = 1 .. n + 2
      /\ \A i \in 1 .. n : rest[i] = body[i]
      /\ rest[n + 1] = a /\ rest[n + 2] = b
  BY <1>1, <1>4
<1>6. \A i \in 1 .. n + 2 : rest[i] = m[i + 6]
  BY <1>1, <1>3, <1>5, SMTT(30)
<1>7. \A i \in 1 .. n + 2 : rest[i] = Sync1 => i # n + 2 /\ rest[i + 1] # Sync2
  <2>1. ~\E i \in DOMAIN rest : rest[i] = Sync1 /\ (i = Len(rest) \/ rest[i + 1] = Sync2)
    BY <1>4, ContentAssumption, Zenon DEF LooksLikeSync
  <2>2. QED
    BY <1>5, <2>1
<1>8. p - 6 \in 1 .. n + 2 /\ rest[p - 6] = Sync1
  BY <1>1, <1>6
<1>9. p - 6 # n + 2 /\ rest[(p - 6) + 1] # Sync2
  BY <1>7, <1>8
<1>10. (p - 6) + 1 \in 1 .. n + 2 /\ m[((p - 6) + 1) + 6] # Sync2
  BY <1>1, <1>6, <1>8, <1>9, SMTT(30)
<1>11. QED
  BY <1>1, <1>9, <1>10

-----------------------------------------------------------------------------
(* A clean wire: where the parser is in a message.                         *)

\* The parser has taken the first n bytes of the content of message k.
Has(s, k, n) ==
  /\ s.write = (IF n <= BufferLen THEN n ELSE BufferLen)
  /\ \A i \in 0 .. s.write - 1 : s.buffer[i] = Content(k)[i + 1]
  /\ s.ck = RunningSums(Content(k))[n]

\* Its places when p bytes of message k have come: nothing is stored yet ...
Before(s, p) ==
  \/ p = 0 /\ s.state = "waiting"
  \/ p = 1 /\ s.state = "sync1"
  \/ p = 2 /\ s.state = "sync2"

\* ... it takes class, id and length ...
Heading(s, k, p) ==
  /\ \/ p = 3 /\ s.state = "class"
     \/ p = 4 /\ s.state = "id"
     \/ p = 5 /\ s.state = "lsb_len" /\ s.remaining = Content(k)[3]
  /\ Has(s, k, p - 2)

\* ... it counts the body down ...
InBody(s, k, p) ==
  /\ Fits(k) /\ p \in 6 .. Len(Body[k]) + 5
  /\ s.state = "reading" /\ s.remaining = Len(Body[k]) + 6 - p
  /\ Has(s, k, p - 2)

\* ... it compares the checksum ...
Behind(s, k, p) ==
  /\ Fits(k) /\ Has(s, k, Len(Body[k]) + 4)
  /\ \/ p = Len(Body[k]) + 6 /\ s.state = "ck1"
     \/ p = Len(Body[k]) + 7 /\ s.state = "ck2"

\* ... or it has given the message up because of its length.
GivenUp(s, k, p) ==
  /\ ~Fits(k) /\ p >= 6
  /\ s.state = "waiting" \/ (s.state = "sync1" /\ p >= 7 /\ Message(k)[p] = Sync1)

InMessage(s, k, p) ==
  Heading(s, k, p) \/ InBody(s, k, p) \/ Behind(s, k, p) \/ GivenUp(s, k, p)

\* Storing the next byte.
LEMMA SavedHas ==
  ASSUME NEW s \in IsrType, NEW k \in Kind, NEW n \in 0 .. Len(Body[k]) + 3, Has(s, k, n)
  PROVE  Has(Saved(s, Content(k)[n + 1]), k, n + 1)
<1>1. PICK c : /\ c = Content(k) /\ c \in Seq(Byte) /\ Len(c) = Len(Body[k]) + 4
               /\ Len(Body[k]) \in Nat
  <2>1. Content(k) \in Seq(Byte) /\ Len(Content(k)) = Len(Body[k]) + 4 /\ Len(Body[k]) \in Nat
    BY ContentAt
  <2>2. QED
    BY <2>1
<1>2. n + 1 \in 1 .. Len(c) /\ n \in Nat
  BY <1>1
<1>3. PICK byte \in Byte : byte = c[n + 1]
  BY <1>1, <1>2
<1>4. PICK t : t = Saved(s, byte)
  OBVIOUS
<1>5. /\ t.state = s.state
      /\ s.write < BufferLen => t.write = s.write + 1 /\ t.buffer[s.write] = byte
      /\ t.write >= s.write
      /\ \A i \in 0 .. BufferLen - 1 : i # s.write => t.buffer[i] = s.buffer[i]
      /\ t \in IsrType
  BY <1>4, SavedType
<1>6. t.ck = Fletcher(s.ck, byte)
  BY <1>4 DEF Saved, IsrType
<1>7. BufferLen \in Nat /\ s.write \in 0 .. BufferLen /\ t.write \in 0 .. BufferLen
  BY <1>5, WireAssumption DEF IsrType
<1>8. t.ck = RunningSums(c)[n + 1]
  <2>1. RunningSums(c)[n + 1] = Fletcher(RunningSums(c)[(n + 1) - 1], c[n + 1])
    BY <1>1, <1>2, SumsRun
  <2>2. (n + 1) - 1 = n
    BY <1>2
  <2>3. s.ck = RunningSums(c)[n]
    BY <1>1 DEF Has
  <2>4. QED
    BY <1>3, <1>6, <2>1, <2>2, <2>3
<1>9. /\ s.write = (IF n <= BufferLen THEN n ELSE BufferLen)
      /\ \A i \in 0 .. s.write - 1 : s.buffer[i] = c[i + 1]
  BY <1>1 DEF Has
<1>10. CASE n < BufferLen
  <2>1. s.write = n /\ t.write = n + 1 /\ t.buffer[n] = c[n + 1]
    BY <1>2, <1>3, <1>5, <1>7, <1>9, <1>10
  <2>2. \A i \in 0 .. n : t.buffer[i] = c[i + 1]
    BY <1>2, <1>5, <1>7, <1>9, <1>10, <2>1
  <2>3. QED
    BY <1>1, <1>2, <1>3, <1>4, <1>7, <1>8, <1>10, <2>1, <2>2 DEF Has
<1>11. CASE ~(n < BufferLen)
  <2>1. s.write = BufferLen /\ t.write = BufferLen
    BY <1>2, <1>5, <1>7, <1>9, <1>11
  <2>2. \A i \in 0 .. BufferLen - 1 : t.buffer[i] = c[i + 1]
    BY <1>5, <1>7, <1>9, <2>1
  <2>3. QED
    BY <1>1, <1>2, <1>3, <1>4, <1>7, <1>8, <1>11, <2>1, <2>2 DEF Has
<1>12. QED
  BY <1>2, <1>7, <1>10, <1>11

\* In each state of the parser there is one thing it can do.
LEMMA ByState ==
  ASSUME NEW byte, Interrupt(byte)
  PROVE  /\ isr.state \in {"waiting", "sync1"} => TakeSync(byte)
         /\ isr.state = "sync2" => TakeClass(byte)
         /\ isr.state = "class" => TakeId(byte)
         /\ isr.state = "id" => TakeLsb(byte)
         /\ isr.state = "lsb_len" => TakeMsb(byte)
         /\ isr.state = "reading" => TakeBody(byte)
         /\ isr.state = "ck1" => TakeCk1(byte)
         /\ isr.state = "ck2" => TakeCk2(byte)
<1>1. /\ TakeSync(byte) => isr.state \in {"waiting", "sync1"}
      /\ TakeClass(byte) => isr.state = "sync2"
      /\ TakeId(byte) => isr.state = "class"
      /\ TakeLsb(byte) => isr.state = "id"
      /\ TakeMsb(byte) => isr.state = "lsb_len"
      /\ TakeBody(byte) => isr.state = "reading"
      /\ TakeCk1(byte) => isr.state = "ck1"
      /\ TakeCk2(byte) => isr.state = "ck2"
  BY DEF TakeSync, TakeClass, TakeId, TakeLsb, TakeMsb, TakeBody, TakeCk1, TakeCk2
<1>2. QED
  BY <1>1 DEF Interrupt

\* Before the content: the sync bytes, and the class is the first that is stored.
LEMMA BeforeStep ==
  ASSUME IsrInv, NEW k \in Kind, NEW p \in Nat, Before(isr, p), Interrupt(Message(k)[p + 1])
  PROVE  \/ Quietly /\ isr'.buffer = isr.buffer /\ Before(isr', p + 1)
         \/ Writes /\ InMessage(isr', k, p + 1)
<1>1. isr \in IsrType
  BY DEF IsrInv
<1>2. CASE p = 0 /\ isr.state = "waiting"
  <2>1. TakeSync(Sync1)
    BY <1>2, ByState, MessageAt
  <2>2. isr' = [isr EXCEPT !.state = "sync1"] /\ Quietly
    BY <1>2, <2>1 DEF TakeSync
  <2>3. QED
    BY <1>1, <1>2, <2>2 DEF Before, IsrType
<1>3. CASE p = 1 /\ isr.state = "sync1"
  <2>1. TakeSync(Sync2)
    BY <1>3, ByState, MessageAt
  <2>2. isr' = [isr EXCEPT !.state = "sync2"] /\ Quietly
    BY <1>3, <2>1 DEF TakeSync
  <2>3. QED
    BY <1>1, <1>3, <2>2 DEF Before, IsrType
<1>4. CASE p = 2 /\ isr.state = "sync2"
  <2>1. PICK byte \in Byte : byte = Message(k)[3] /\ byte = Content(k)[1]
    <3>1. Content(k) \in Seq(Byte) /\ 1 \in 1 .. Len(Content(k)) /\ 1 \in 1 .. Len(Body[k]) + 4
      BY ContentAt
    <3>2. Content(k)[1] \in Byte /\ Message(k)[1 + 2] = Content(k)[1]
      BY <3>1, MessageAt
    <3>3. QED
      BY <3>2
  <2>2. TakeClass(byte)
    <3>1. p + 1 = 3
      BY <1>4
    <3>2. byte = Message(k)[p + 1]
      BY <2>1, <3>1
    <3>3. QED
      BY <1>4, <3>2, ByState
  <2>3. PICK s : s = [isr EXCEPT !.state = "class", !.ck = <<0, 0>>, !.write = 0]
    OBVIOUS
  <2>4. s \in IsrType /\ s.state = "class" /\ s.write = 0 /\ s.ck = <<0, 0>>
    <3>1. /\ "class" \in ParserState /\ 0 \in 0 .. BufferLen /\ <<0, 0>> \in CheckPair
      BY WireAssumption, BaseIsPositive DEF ParserState, Header, CheckPair, Byte
    <3>2. s \in IsrType
      BY <1>1, <2>3, <3>1, Zenon DEF IsrType
    <3>3. QED
      BY <1>1, <2>3, <3>2 DEF IsrType
  <2>5. isr' = Saved(s, byte) /\ Writes
    BY <2>2, <2>3 DEF TakeClass
  <2>6. Has(s, k, 0)
    <3>1. RunningSums(Content(k))[0] = <<0, 0>>
      BY ContentAt, SumsRun
    <3>2. QED
      BY <2>4, <3>1, WireAssumption DEF Has
  <2>7. Has(isr', k, 0 + 1)
    <3>1. 0 \in 0 .. Len(Body[k]) + 3 /\ byte = Content(k)[0 + 1]
      BY <2>1, ContentAt
    <3>2. QED
      BY <2>4, <2>5, <2>6, <3>1, SavedHas
  <2>8. isr'.state = "class"
    BY <2>4, <2>5, SavedType
  <2>9. Heading(isr', k, 3)
    BY <2>7, <2>8 DEF Heading
  <2>10. QED
    BY <1>4, <2>5, <2>9 DEF InMessage
<1>5. QED
  BY <1>2, <1>3, <1>4 DEF Before

\* A byte of the content, n of which are stored.
LEMMA NextOfContent ==
  ASSUME NEW k \in Kind, NEW n \in 0 .. Len(Body[k]) + 3
  PROVE  /\ Message(k)[n + 3] = Content(k)[n + 1] /\ Content(k)[n + 1] \in Byte
<1>1. PICK c, l : /\ c = Content(k) /\ l = Len(Body[k]) /\ c \in Seq(Byte) /\ Len(c) = l + 4
                  /\ l \in Nat
  <2>1. Content(k) \in Seq(Byte) /\ Len(Content(k)) = Len(Body[k]) + 4 /\ Len(Body[k]) \in Nat
    BY ContentAt
  <2>2. QED
    BY <2>1
<1>2. n + 1 \in 1 .. l + 4 /\ (n + 1) + 2 = n + 3
  BY <1>1
<1>3. Message(k)[(n + 1) + 2] = c[n + 1]
  BY <1>1, <1>2, MessageAt
<1>4. QED
  BY <1>1, <1>2, <1>3

\* The class is stored, the id comes; then the length.
LEMMA HeadingStep ==
  ASSUME IsrInv, NEW k \in Kind, NEW p \in Nat, Heading(isr, k, p), Interrupt(Message(k)[p + 1])
  PROVE  /\ InMessage(isr', k, p + 1) /\ p + 1 < Len(Message(k))
         /\ Writes \/ (Quietly /\ isr'.buffer = isr.buffer)
<1>1. isr \in IsrType /\ Has(isr, k, p - 2) /\ p \in 3 .. 5
  BY DEF IsrInv, Heading
<1>2. PICK l : /\ l = Len(Body[k]) /\ l \in Nat /\ l >= 1 /\ l < Base * Base
               /\ Len(Message(k)) = l + 8
               /\ Content(k)[3] + Content(k)[4] * Base = l
  <2>1. /\ Len(Body[k]) \in Nat /\ Len(Body[k]) >= 1 /\ Len(Body[k]) < Base * Base
        /\ Len(Message(k)) = Len(Body[k]) + 8
        /\ Content(k)[3] + Content(k)[4] * Base = Len(Body[k])
    BY ContentAt, MessageAt
  <2>2. QED
    BY <2>1
<1>3. PICK n \in 0 .. l + 3 : n = p - 2 /\ n + 3 = p + 1 /\ n + 1 = (p + 1) - 2
  BY <1>1, <1>2
<1>4. PICK byte \in Byte : byte = Message(k)[p + 1] /\ byte = Content(k)[n + 1]
  BY <1>2, <1>3, NextOfContent
<1>5. ASSUME NEW s \in IsrType, s.write = isr.write, s.buffer = isr.buffer, s.ck = isr.ck,
             isr' = Saved(s, byte)
      PROVE  /\ Has(isr', k, (p + 1) - 2)
             /\ isr'.state = s.state /\ isr'.remaining = s.remaining
  <2>1. Has(s, k, n)
    BY <1>1, <1>3, <1>5 DEF Has
  <2>2. Has(Saved(s, byte), k, n + 1)
    BY <1>2, <1>4, <1>5, <2>1, SavedHas
  <2>3. QED
    BY <1>3, <1>5, <2>2, SavedType
<1>6. CASE isr.state = "class" /\ p = 3
  <2>1. TakeId(byte)
    BY <1>4, <1>6, ByState
  <2>2. PICK s : s = [isr EXCEPT !.state = "id"]
    OBVIOUS
  <2>3. /\ s \in IsrType /\ s.write = isr.write /\ s.buffer = isr.buffer /\ s.ck = isr.ck
        /\ s.state = "id"
    BY <1>1, <2>2 DEF IsrType, ParserState, Header
  <2>4. isr' = Saved(s, byte) /\ Writes
    BY <2>1, <2>2 DEF TakeId
  <2>5. Heading(isr', k, p + 1)
    BY <1>5, <1>6, <2>3, <2>4 DEF Heading
  <2>6. QED
    BY <1>2, <1>6, <2>4, <2>5 DEF InMessage
<1>7. CASE isr.state = "id" /\ p = 4
  <2>1. TakeLsb(byte)
    BY <1>4, <1>7, ByState
  <2>2. PICK s : s = [isr EXCEPT !.state = "lsb_len", !.remaining = byte]
    OBVIOUS
  <2>3. /\ s \in IsrType /\ s.write = isr.write /\ s.buffer = isr.buffer /\ s.ck = isr.ck
        /\ s.state = "lsb_len" /\ s.remaining = byte
    <3>1. byte \in Int
      BY BaseIsPositive DEF Byte
    <3>2. QED
      BY <1>1, <2>2, <3>1 DEF IsrType, ParserState, Header
  <2>4. isr' = Saved(s, byte) /\ Writes
    BY <2>1, <2>2 DEF TakeLsb
  <2>5. byte = Content(k)[3]
    BY <1>3, <1>4, <1>7
  <2>6. Heading(isr', k, p + 1)
    BY <1>5, <1>7, <2>3, <2>4, <2>5 DEF Heading
  <2>7. QED
    BY <1>2, <1>7, <2>4, <2>6 DEF InMessage
<1>8. CASE isr.state = "lsb_len" /\ p = 5 /\ isr.remaining = Content(k)[3]
  <2>1. TakeMsb(byte)
    BY <1>4, <1>8, ByState
  <2>2. isr.remaining + byte * Base = l
    BY <1>2, <1>3, <1>4, <1>8
  <2>3. CASE l > BufferLen
    <3>1. isr' = [isr EXCEPT !.state = "waiting", !.remaining = l] /\ Quietly
      BY <2>1, <2>2, <2>3 DEF TakeMsb
    <3>2. isr'.state = "waiting" /\ isr'.buffer = isr.buffer
      BY <1>1, <3>1 DEF IsrType
    <3>3. ~Fits(k)
      BY <1>2, <2>3, WireAssumption DEF Fits
    <3>4. GivenUp(isr', k, p + 1)
      BY <1>8, <3>2, <3>3 DEF GivenUp
    <3>5. QED
      BY <1>2, <1>8, <3>1, <3>2, <3>4 DEF InMessage
  <2>4. CASE ~(l > BufferLen)
    <3>1. PICK s : s = [isr EXCEPT !.state = "reading", !.remaining = l]
      OBVIOUS
    <3>2. /\ s \in IsrType /\ s.write = isr.write /\ s.buffer = isr.buffer /\ s.ck = isr.ck
          /\ s.state = "reading" /\ s.remaining = l
      <4>1. "reading" \in ParserState /\ l \in Int
        BY <1>2 DEF ParserState
      <4>2. s \in IsrType
        BY <1>1, <3>1, <4>1 DEF IsrType
      <4>3. QED
        BY <1>1, <3>1, <4>1, <4>2 DEF IsrType
    <3>3. isr' = Saved(s, byte) /\ Writes
      BY <2>1, <2>2, <2>4, <3>1 DEF TakeMsb
    <3>4. /\ Has(isr', k, (p + 1) - 2) /\ isr'.state = "reading" /\ isr'.remaining = l
      BY <1>5, <3>2, <3>3
    <3>5. Fits(k)
      BY <1>2, <2>4, WireAssumption DEF Fits
    <3>6. p + 1 \in 6 .. l + 5 /\ l = l + 6 - (p + 1)
      BY <1>2, <1>8
    <3>7. InBody(isr', k, p + 1)
      BY <1>2, <3>4, <3>5, <3>6 DEF InBody
    <3>8. QED
      BY <1>2, <1>8, <3>3, <3>7 DEF InMessage
  <2>5. QED
    BY <2>3, <2>4
<1>9. QED
  BY <1>6, <1>7, <1>8 DEF Heading

\* The body is counted down.
LEMMA BodyStep ==
  ASSUME IsrInv, NEW k \in Kind, NEW p \in Nat, InBody(isr, k, p), Interrupt(Message(k)[p + 1])
  PROVE  InMessage(isr', k, p + 1) /\ p + 1 < Len(Message(k)) /\ Writes
<1>1. /\ isr \in IsrType /\ Fits(k) /\ isr.state = "reading" /\ Has(isr, k, p - 2)
      /\ isr.remaining = Len(Body[k]) + 6 - p
  BY DEF IsrInv, InBody
<1>2. PICK l : /\ l = Len(Body[k]) /\ l \in Nat /\ l >= 1 /\ l < Word
               /\ Len(Message(k)) = l + 8 /\ p \in 6 .. l + 5
  <2>1. /\ Len(Body[k]) \in Nat /\ Len(Body[k]) >= 1 /\ Len(Body[k]) < Base * Base
        /\ Len(Message(k)) = Len(Body[k]) + 8
    BY ContentAt, MessageAt
  <2>2. Len(Body[k]) < Word
    BY <2>1, WireAssumption
  <2>3. QED
    BY <2>1, <2>2 DEF InBody
<1>3. PICK n \in 0 .. l + 3 : n = p - 2 /\ n + 3 = p + 1 /\ n + 1 = (p + 1) - 2
  BY <1>2
<1>4. PICK byte \in Byte : byte = Message(k)[p + 1] /\ byte = Content(k)[n + 1]
  BY <1>2, <1>3, NextOfContent
<1>5. TakeBody(byte)
  BY <1>1, <1>4, ByState
<1>6. PICK left : left = l + 5 - p /\ left \in 0 .. l - 1 /\ left = (isr.remaining - 1) % Word
  <2>1. isr.remaining - 1 = l + 5 - p /\ l + 5 - p \in 0 .. Word - 1
    BY <1>1, <1>2, WireAssumption
  <2>2. Word \in Nat
    BY WireAssumption
  <2>3. (l + 5 - p) % Word = l + 5 - p
    BY <2>1, <2>2
  <2>4. QED
    BY <1>2, <2>1, <2>3
<1>7. PICK state, s : /\ state = IF left = 0 THEN "ck1" ELSE isr.state
                      /\ s = [isr EXCEPT !.remaining = left, !.state = state]
  OBVIOUS
<1>8. /\ s \in IsrType /\ s.write = isr.write /\ s.buffer = isr.buffer /\ s.ck = isr.ck
      /\ s.state = (IF left = 0 THEN "ck1" ELSE "reading") /\ s.remaining = left
  <2>1. state \in ParserState /\ state = (IF left = 0 THEN "ck1" ELSE "reading")
    BY <1>1, <1>7 DEF ParserState
  <2>2. s = [isr EXCEPT !.remaining = left, !.state = state]
    BY <1>7, Zenon
  <2>2a. left \in Int
    BY <1>2, <1>6
  <2>3. s \in IsrType
    BY <1>1, <2>1, <2>2, <2>2a DEF IsrType
  <2>4. s.write = isr.write /\ s.buffer = isr.buffer /\ s.ck = isr.ck
        /\ s.state = state /\ s.remaining = left
    BY <1>1, <2>2 DEF IsrType
  <2>5. QED
    BY <2>1, <2>3, <2>4
<1>9. isr' = Saved(s, byte) /\ Writes
  <2>1. isr' = Saved([isr EXCEPT !.remaining = left,
                                 !.state = IF left = 0 THEN "ck1" ELSE isr.state], byte)
        /\ Writes
    BY <1>5, <1>6, Zenon DEF TakeBody
  <2>2. QED
    BY <1>7, <2>1, Zenon
<1>10. Has(s, k, n)
  BY <1>1, <1>3, <1>8 DEF Has
<1>11. Has(Saved(s, byte), k, n + 1)
  BY <1>2, <1>4, <1>8, <1>10, SavedHas
<1>12. /\ Has(isr', k, (p + 1) - 2) /\ isr'.remaining = left
       /\ isr'.state = (IF left = 0 THEN "ck1" ELSE "reading")
  BY <1>3, <1>8, <1>9, <1>11, SavedType
<1>13. CASE left = 0
  <2>1. (p + 1) - 2 = l + 4 /\ p + 1 = l + 6
    BY <1>2, <1>6, <1>13
  <2>2. Behind(isr', k, p + 1)
    BY <1>1, <1>2, <1>12, <1>13, <2>1 DEF Behind
  <2>3. QED
    BY <1>2, <1>9, <2>1, <2>2 DEF InMessage
<1>14. CASE left # 0
  <2>1. p + 1 \in 6 .. l + 5 /\ left = l + 6 - (p + 1)
    BY <1>2, <1>6, <1>14
  <2>2. InBody(isr', k, p + 1)
    BY <1>1, <1>2, <1>12, <1>14, <2>1 DEF InBody
  <2>3. QED
    BY <1>2, <1>9, <2>1, <2>2 DEF InMessage
<1>15. QED
  BY <1>13, <1>14

\* The message is announced behind the second byte of its checksum.
Announces(k) ==
  /\ gpsq' = Announced
  /\ stored' = sending /\ accepted' = accepted + 1 /\ verified' = TRUE /\ torn' = torn
  /\ isr'.state = "waiting" /\ Has(isr, k, Len(Body[k]) + 4)

\* Both bytes of the checksum are those that were computed.
LEMMA BehindStep ==
  ASSUME IsrInv, NEW k \in Kind, NEW p \in Nat, Behind(isr, k, p), Interrupt(Message(k)[p + 1])
  PROVE  /\ isr'.buffer = isr.buffer
         /\ IF p + 1 < Len(Message(k)) THEN InMessage(isr', k, p + 1) /\ Quietly
            ELSE p + 1 = Len(Message(k)) /\ Fits(k) /\ Announces(k)
<1>1. isr \in IsrType /\ Fits(k) /\ Has(isr, k, Len(Body[k]) + 4)
  BY DEF IsrInv, Behind
<1>2. PICK l : /\ l = Len(Body[k]) /\ l \in Nat /\ Len(Message(k)) = l + 8
               /\ Message(k)[l + 7] = CheckSum(Content(k))[1]
               /\ Message(k)[l + 8] = CheckSum(Content(k))[2]
  <2>1. /\ Len(Body[k]) \in Nat /\ Len(Message(k)) = Len(Body[k]) + 8
        /\ Message(k)[Len(Body[k]) + 7] = CheckSum(Content(k))[1]
        /\ Message(k)[Len(Body[k]) + 8] = CheckSum(Content(k))[2]
    BY ContentAt, MessageAt
  <2>2. QED
    BY <2>1
<1>3. isr.ck = CheckSum(Content(k))
  <2>1. Content(k) \in Seq(Byte) /\ Len(Content(k)) = l + 4
    BY <1>2, ContentAt
  <2>2. CheckSum(Content(k)) = RunningSums(Content(k))[l + 4]
    BY <2>1, SumsRun
  <2>3. QED
    BY <1>1, <1>2, <2>2 DEF Has
<1>4. CASE p = l + 6 /\ isr.state = "ck1"
  <2>1. p + 1 = l + 7 /\ p + 1 < l + 8
    BY <1>2, <1>4
  <2>2. TakeCk1(isr.ck[1])
    BY <1>2, <1>3, <1>4, <2>1, ByState
  <2>3. isr' = [isr EXCEPT !.state = "ck2"] /\ Quietly
    BY <2>2 DEF TakeCk1
  <2>4. /\ isr'.state = "ck2" /\ isr'.write = isr.write /\ isr'.buffer = isr.buffer
        /\ isr'.ck = isr.ck
    BY <1>1, <2>3 DEF IsrType
  <2>5. Has(isr', k, Len(Body[k]) + 4)
    BY <1>1, <2>4 DEF Has
  <2>6. Behind(isr', k, p + 1)
    BY <1>1, <1>2, <2>1, <2>4, <2>5 DEF Behind
  <2>7. QED
    BY <1>2, <2>1, <2>3, <2>4, <2>6 DEF InMessage
<1>5. CASE p = l + 7 /\ isr.state = "ck2"
  <2>1. p + 1 = l + 8
    BY <1>2, <1>5
  <2>2. TakeCk2(isr.ck[2])
    BY <1>2, <1>3, <1>5, <2>1, ByState
  <2>3. isr' = [isr EXCEPT !.state = "waiting"]
    BY <2>2 DEF TakeCk2
  <2>4. /\ gpsq' = Announced
        /\ stored' = sending /\ accepted' = accepted + 1 /\ verified' = TRUE /\ torn' = torn
    BY <2>2 DEF TakeCk2
  <2>5. isr'.state = "waiting" /\ isr'.buffer = isr.buffer
    BY <1>1, <2>3 DEF IsrType
  <2>6. ~(p + 1 < Len(Message(k))) /\ p + 1 = Len(Message(k))
    BY <1>2, <2>1
  <2>7. QED
    BY <1>1, <2>4, <2>5, <2>6 DEF Announces
<1>6. QED
  BY <1>2, <1>4, <1>5 DEF Behind

\* What was given up is passed over to its end.
LEMMA GivenUpStep ==
  ASSUME IsrInv, NEW k \in Kind, NEW p \in Nat, p < Len(Message(k)), GivenUp(isr, k, p),
         Interrupt(Message(k)[p + 1])
  PROVE  /\ isr'.buffer = isr.buffer /\ Quietly
         /\ IF p + 1 < Len(Message(k)) THEN InMessage(isr', k, p + 1)
            ELSE p + 1 = Len(Message(k)) /\ ~Fits(k) /\ isr'.state = "waiting"
<1>1. isr \in IsrType /\ ~Fits(k) /\ p >= 6
  BY DEF IsrInv, GivenUp
<1>2. PICK l, m : /\ l = Len(Body[k]) /\ l \in Nat /\ m = Message(k) /\ Len(m) = l + 8
                  /\ p \in 6 .. l + 7
  <2>1. Len(Body[k]) \in Nat /\ Len(Message(k)) = Len(Body[k]) + 8
    BY ContentAt, MessageAt
  <2>2. p \in 6 .. Len(Body[k]) + 7
    BY <1>1, <2>1
  <2>3. QED
    BY <2>1, <2>2
<1>3. \A q \in 7 .. l + 8 : m[q] = Sync1 => q < l + 8 /\ m[q + 1] # Sync2
  BY <1>1, <1>2, LongIsPlain
<1>4. p + 1 \in 7 .. l + 8
  BY <1>2
<1>5. TakeSync(m[p + 1])
  BY <1>2, ByState DEF GivenUp
<1>6. Quietly
  BY <1>5 DEF TakeSync
<1>7. PICK state : isr' = [isr EXCEPT !.state = state]
                   /\ state = IF isr.state = "waiting"
                              THEN (IF m[p + 1] = Sync1 THEN "sync1" ELSE "waiting")
                              ELSE IF m[p + 1] = Sync2 THEN "sync2" ELSE "waiting"
  BY <1>5 DEF TakeSync
<1>8. isr'.state = state /\ isr'.buffer = isr.buffer
  BY <1>1, <1>7 DEF IsrType
<1>9. \/ state = "waiting"
      \/ state = "sync1" /\ m[p + 1] = Sync1 /\ p + 1 < l + 8
  <2>1. CASE isr.state = "waiting"
    BY <1>3, <1>4, <1>7, <2>1
  <2>2. CASE isr.state = "sync1" /\ p >= 7 /\ m[p] = Sync1
    <3>1. p \in 7 .. l + 8
      BY <1>2, <2>2
    <3>2. m[p + 1] # Sync2
      BY <1>3, <2>2, <3>1
    <3>3. QED
      BY <1>7, <2>2, <3>2
  <2>3. QED
    BY <1>2, <2>1, <2>2 DEF GivenUp
<1>10. GivenUp(isr', k, p + 1)
  <2>1. p + 1 >= 6 /\ p + 1 >= 7
    BY <1>2
  <2>2. QED
    BY <1>1, <1>2, <1>8, <1>9, <2>1 DEF GivenUp
<1>11. QED
  <2>1. ~(p + 1 < l + 8) => p + 1 = l + 8
    BY <1>2
  <2>2. QED
    BY <1>1, <1>2, <1>6, <1>8, <1>9, <1>10, <2>1 DEF InMessage

-----------------------------------------------------------------------------
(* A clean wire: the invariant.                                            *)

Place(k, p) == Before(isr, p) \/ (verified = FALSE /\ InMessage(isr, k, p))

\* p bytes of message k have come, the others are on the wire.
Come(k, p) ==
  /\ Len(wire) = Len(Message(k)) - p
  /\ \A i \in 1 .. Len(wire) : wire[i] = Message(k)[p + i]

\* All that fits was announced when the wire is empty, and all but the message
\* on the wire otherwise.
Follows ==
  \/ wire = <<>> /\ isr.state = "waiting" /\ accepted = offered
  \/ /\ wire # <<>> /\ sending \in Kind
     /\ offered = (IF Fits(sending) THEN accepted + 1 ELSE accepted)
     /\ \E p \in Nat : Come(sending, p) /\ Place(sending, p)

\* The queue holds an announcement.
Tells(queue) == \E i \in 1 .. Len(queue) : queue[i] = "waiting"

\* In the setup the receiver sends what it is asked for only: up to the change
\* of the port, one answer.
Asked ==
  /\ at \in Boot => receiver.reports = FALSE
  /\ at \in {"reset", "poll", "match", "port"} =>
       receiver.owed = <<>> /\ wire = <<>> /\ ~Tells(gpsq)
  /\ at = "expect" =>
       \/ Len(receiver.owed) = 1 /\ wire = <<>> /\ ~Tells(gpsq)
       \/ receiver.owed = <<>> /\ ~Tells(gpsq)
       \/ receiver.owed = <<>> /\ wire = <<>> /\ gpsq # <<>> /\ ~Tells(Tail(gpsq))

\* The buffer holds what was announced last as long as nothing was stored since,
\* but for the byte the driver writes there to change the port: from then on
\* until the next announcement.
Intact ==
  verified = TRUE =>
    stored \in Kind /\ (BufferHolds(stored) \/ (at \in {"ping", "pong"} /\ ~Tells(gpsq)))

\* The task reads what was announced last, or it was written over.
Reads ==
  /\ at \in Reading => verified = TRUE \/ torn = TRUE
  /\ at \in {"check", "copy"} => stored = "pvt" \/ torn = TRUE
  /\ at = "halted" => torn = TRUE

CleanType ==
  /\ accepted \in Nat /\ offered \in Nat
  /\ verified \in BOOLEAN /\ torn \in BOOLEAN
  /\ gpsq \in Seq({"waiting", "start", "sleep"})

Clean == CleanType /\ Follows /\ Asked /\ Intact /\ Reads

\* The inductive invariant: with the first lost or changed byte nothing is
\* promised any more.
MainType == main \in [room : BOOLEAN, command : {"start", "sleep", None}]

CleanInv ==
  /\ LinkInv /\ MainType
  /\ spent \in [reports : Nat, commands : Nat, noise : Nat]
  /\ spent.noise = 0 => Clean

-----------------------------------------------------------------------------
(* A clean wire: the bytes.                                                *)

\* A byte of a message comes: the parser goes on, or the message is over.
LEMMA ParserStep ==
  ASSUME IsrInv, NEW k \in Kind, NEW p \in Nat, p < Len(Message(k)), Place(k, p),
         Interrupt(Message(k)[p + 1])
  PROVE  \/ /\ p + 1 < Len(Message(k))
            /\ Before(isr', p + 1) \/ (verified' = FALSE /\ InMessage(isr', k, p + 1))
            /\ Writes \/ (Quietly /\ isr'.buffer = isr.buffer)
         \/ /\ p + 1 = Len(Message(k)) /\ ~Fits(k)
            /\ isr'.state = "waiting" /\ isr'.buffer = isr.buffer /\ Quietly
         \/ /\ p + 1 = Len(Message(k)) /\ Fits(k)
            /\ verified = FALSE /\ Announces(k) /\ isr'.buffer = isr.buffer
<1>1. CASE Before(isr, p)
  <2>1. p <= 2
    BY <1>1 DEF Before
  <2>2. p + 1 < Len(Message(k))
    BY <2>1, MessageAt, ContentAt
  <2>3. CASE Quietly /\ isr'.buffer = isr.buffer /\ Before(isr', p + 1)
    BY <2>2, <2>3
  <2>4. CASE Writes /\ InMessage(isr', k, p + 1)
    BY <2>2, <2>4 DEF Writes
  <2>5. QED
    BY <1>1, <2>3, <2>4, BeforeStep
<1>2. CASE verified = FALSE /\ InMessage(isr, k, p)
  <2>1. Quietly => verified' = FALSE
    BY <1>2 DEF Quietly
  <2>2. Writes => verified' = FALSE
    BY DEF Writes
  <2>3. CASE Heading(isr, k, p)
    BY <2>1, <2>2, <2>3, HeadingStep
  <2>4. CASE InBody(isr, k, p)
    BY <2>2, <2>4, BodyStep
  <2>5. CASE Behind(isr, k, p)
    BY <1>2, <2>1, <2>5, BehindStep
  <2>6. CASE GivenUp(isr, k, p)
    BY <2>1, <2>6, GivenUpStep
  <2>7. QED
    BY <1>2, <2>3, <2>4, <2>5, <2>6 DEF InMessage
<1>3. QED
  BY <1>1, <1>2 DEF Place

\* One byte less is on the wire.
LEMMA ComesOn ==
  ASSUME NEW k \in Kind, NEW p \in Nat, wire \in Seq(Byte), wire # <<>>, Come(k, p)
  PROVE  /\ p < Len(Message(k)) /\ Head(wire) = Message(k)[p + 1]
         /\ Len(Tail(wire)) = Len(Message(k)) - (p + 1)
         /\ \A i \in 1 .. Len(Tail(wire)) : Tail(wire)[i] = Message(k)[(p + 1) + i]
<1>1. PICK w, n : /\ w = wire /\ w \in Seq(Byte) /\ w # <<>>
                  /\ n = Len(Message(k)) /\ n \in Nat
  <2>1. Len(Message(k)) \in Nat
    BY MessageAt
  <2>2. QED
    BY <2>1
<1>2. Len(w) = n - p /\ \A i \in 1 .. Len(w) : w[i] = Message(k)[p + i]
  BY <1>1 DEF Come
<1>3. /\ Len(w) \in Nat /\ Len(w) >= 1 /\ Head(w) = w[1] /\ Len(Tail(w)) = Len(w) - 1
      /\ \A i \in 1 .. Len(w) - 1 : Tail(w)[i] = w[i + 1]
  BY <1>1
<1>4. ASSUME NEW i \in 1 .. Len(Tail(w)) PROVE Tail(w)[i] = Message(k)[(p + 1) + i]
  <2>1. i + 1 \in 1 .. Len(w) /\ Tail(w)[i] = w[i + 1] /\ p + (i + 1) = (p + 1) + i
    BY <1>3
  <2>2. w[i + 1] = Message(k)[p + (i + 1)]
    BY <1>2, <2>1
  <2>3. QED
    BY <2>1, <2>2
<1>5. Head(w) = Message(k)[p + 1] /\ p < n /\ Len(Tail(w)) = n - (p + 1)
  <2>1. 1 \in 1 .. Len(w)
    BY <1>3
  <2>2. Head(w) = Message(k)[p + 1]
    BY <1>2, <1>3, <2>1
  <2>3. p < n /\ Len(Tail(w)) = n - (p + 1)
    <3>1. PICK a : a = Len(w) /\ a \in Nat /\ a >= 1 /\ a = n - p /\ Len(Tail(w)) = a - 1
      BY <1>1, <1>2, <1>3
    <3>2. QED
      BY <1>1, <3>1
  <2>4. QED
    BY <2>2, <2>3
<1>6. QED
  BY <1>1, <1>4, <1>5

\* What the parser has taken of the content is what the buffer holds of it.
LEMMA HasHolds ==
  ASSUME NEW k \in Kind, Has(isr, k, Len(Body[k]) + 4)
  PROVE  BufferHolds(k)
<1>1. PICK c, n : /\ c = Content(k) /\ c \in Seq(Byte) /\ n = Len(Body[k]) + 4 /\ Len(c) = n
                  /\ n \in Nat
  <2>1. Content(k) \in Seq(Byte) /\ Len(Content(k)) = Len(Body[k]) + 4 /\ Len(Body[k]) \in Nat
    BY ContentAt
  <2>2. QED
    BY <2>1
<1>2. PICK m : m \in 0 .. n /\ m = IF n > BufferLen THEN BufferLen ELSE n
  <2>1. BufferLen \in Nat
    BY WireAssumption
  <2>2. CASE n > BufferLen
    BY <1>1, <2>1, <2>2
  <2>3. CASE ~(n > BufferLen)
    BY <1>1, <2>1, <2>3
  <2>4. QED
    BY <2>2, <2>3
<1>3. isr.write = m /\ \A i \in 0 .. m - 1 : isr.buffer[i] = c[i + 1]
  BY <1>1, <1>2, WireAssumption, SMTT(30) DEF Has
<1>4. Image(k) = SubSeq(c, 1, m)
  BY <1>1, <1>2 DEF Image
<1>5. DOMAIN SubSeq(c, 1, m) = 1 .. m /\ \A i \in 1 .. m : SubSeq(c, 1, m)[i] = c[i]
  BY <1>1, <1>2
<1>6. \A i \in 1 .. m : isr.buffer[i - 1] = c[i]
  <2>1. ASSUME NEW i \in 1 .. m PROVE isr.buffer[i - 1] = c[i]
    <3>1. i - 1 \in 0 .. m - 1 /\ (i - 1) + 1 = i
      BY <1>2
    <3>2. isr.buffer[i - 1] = c[(i - 1) + 1]
      BY <1>3, <3>1
    <3>3. QED
      BY <3>1, <3>2
  <2>2. QED
    BY <2>1
<1>7. QED
  BY <1>4, <1>5, <1>6 DEF BufferHolds

\* What the buffer holds it holds until something is stored.
LEMMA StillHolds ==
  ASSUME NEW k, BufferHolds(k), isr'.buffer = isr.buffer, stored' = k
  PROVE  BufferHolds(stored)'
BY DEF BufferHolds

\* Neither the tasks nor the receiver are concerned.
LEMMA QuietIsClean ==
  ASSUME Clean, Quietly, isr'.buffer = isr.buffer,
         at' = at, receiver' = receiver, offered' = offered,
         wire # <<>>, Follows'
  PROVE  Clean'
<1>1. /\ gpsq' = gpsq /\ stored' = stored /\ accepted' = accepted /\ verified' = verified
      /\ torn' = torn
  BY DEF Quietly
<1>2. CleanType' /\ Reads'
  BY <1>1 DEF Clean, CleanType, Reads
<1>3. Asked'
  BY <1>1 DEF Clean, Asked, Tells
<1>4. Intact'
  <2>1. SUFFICES ASSUME verified = TRUE
                 PROVE  /\ stored \in Kind
                        /\ BufferHolds(stored)' \/ (at \in {"ping", "pong"} /\ ~Tells(gpsq))
    BY <1>1 DEF Intact, Tells
  <2>2. stored \in Kind /\ (BufferHolds(stored) \/ (at \in {"ping", "pong"} /\ ~Tells(gpsq)))
    BY <2>1 DEF Clean, Intact
  <2>3. BufferHolds(stored) => BufferHolds(stored)'
    BY <1>1, StillHolds
  <2>4. QED
    BY <2>2, <2>3
<1>5. QED
  BY <1>2, <1>3, <1>4 DEF Clean

\* An announcement goes in front of the commands, or is lost.
LEMMA AnnouncedQueue ==
  ASSUME gpsq \in Seq({"waiting", "start", "sleep"})
  PROVE  /\ Announced \in Seq({"waiting", "start", "sleep"})
         /\ Announced = gpsq \/ (Announced # <<>> /\ Tail(Announced) = gpsq)
<1>1. PICK q, r : q = gpsq /\ q \in Seq({"waiting", "start", "sleep"}) /\ r = <<"waiting">> \o q
  OBVIOUS
<1>2. r \in Seq({"waiting", "start", "sleep"}) /\ r # <<>> /\ Tail(r) = q
  BY <1>1
<1>3. QED
  BY <1>1, <1>2 DEF Announced

\* A byte comes, and nothing is lost on the way.
LEMMA ArrivesClean == LinkInv /\ Clean /\ ByteArrives => Clean'
<1> SUFFICES ASSUME LinkInv, Clean, ByteArrives PROVE Clean'
  OBVIOUS
<1>1. PICK k \in Kind, p \in Nat :
        /\ sending = k /\ Come(k, p) /\ Place(k, p)
        /\ offered = (IF Fits(k) THEN accepted + 1 ELSE accepted)
  BY DEF Clean, Follows, ByteArrives
<1>2. /\ wire # <<>> /\ Interrupt(Head(wire)) /\ wire' = Tail(wire)
      /\ at' = at /\ sending' = sending /\ offered' = offered /\ receiver' = receiver
  BY DEF ByteArrives, taskvars
<1>3. IsrInv /\ wire \in Seq(Byte)
  BY DEF LinkInv
<1>4. /\ p < Len(Message(k)) /\ Interrupt(Message(k)[p + 1])
      /\ Len(wire') = Len(Message(k)) - (p + 1)
      /\ \A i \in 1 .. Len(wire') : wire'[i] = Message(k)[(p + 1) + i]
  BY <1>1, <1>2, <1>3, ComesOn
<1>5. Len(Message(k)) \in Nat /\ wire' \in Seq(Byte)
  BY <1>2, <1>3, MessageAt
<1>6. CleanType
  BY DEF Clean
<1>7. CASE /\ p + 1 < Len(Message(k))
           /\ Before(isr', p + 1) \/ (verified' = FALSE /\ InMessage(isr', k, p + 1))
           /\ Writes \/ (Quietly /\ isr'.buffer = isr.buffer)
  <2>1. wire' # <<>>
    BY <1>4, <1>5, <1>7
  <2>2. Come(k, p + 1)' /\ Place(k, p + 1)'
    BY <1>4, <1>7 DEF Come, Place
  <2>3. accepted' = accepted /\ gpsq' = gpsq /\ stored' = stored
    BY <1>7 DEF Writes, Quietly
  <2>4. Follows'
    <3>1. PICK q \in Nat : q = p + 1
      OBVIOUS
    <3>2. Come(k, q)' /\ Place(k, q)'
      BY <2>2, <3>1
    <3>3. sending' = k /\ offered' = (IF Fits(k) THEN accepted' + 1 ELSE accepted')
      BY <1>1, <1>2, <2>3
    <3>4. \E r \in Nat : Come(sending, r)' /\ Place(sending, r)'
      BY <3>2, <3>3
    <3>5. QED
      BY <2>1, <3>3, <3>4 DEF Follows
  <2>5. CASE Quietly /\ isr'.buffer = isr.buffer
    BY <1>2, <2>4, <2>5, QuietIsClean
  <2>6. CASE Writes
    <3>1. verified' = FALSE /\ (at \in Reading => torn' = TRUE) /\ (torn = TRUE => torn' = TRUE)
          /\ torn' \in BOOLEAN
      BY <1>6, <2>6 DEF Writes, CleanType
    <3>2. CleanType'
      BY <1>2, <1>6, <2>3, <3>1 DEF CleanType
    <3>3. Intact'
      BY <3>1 DEF Intact
    <3>4. Reads'
      BY <1>2, <2>3, <3>1 DEF Clean, Reads, Reading
    <3>5. Asked'
      BY <1>2, <2>3 DEF Clean, Asked, Tells
    <3>6. QED
      BY <2>4, <3>2, <3>3, <3>4, <3>5 DEF Clean
  <2>7. QED
    BY <1>7, <2>5, <2>6
<1>8. CASE /\ p + 1 = Len(Message(k)) /\ ~Fits(k)
           /\ isr'.state = "waiting" /\ isr'.buffer = isr.buffer /\ Quietly
  <2>1. wire' = <<>>
    BY <1>4, <1>5, <1>8
  <2>2. accepted' = offered'
    BY <1>1, <1>2, <1>8 DEF Quietly
  <2>3. Follows'
    BY <1>8, <2>1, <2>2 DEF Follows
  <2>4. QED
    BY <1>2, <1>8, <2>3, QuietIsClean
<1>9. CASE /\ p + 1 = Len(Message(k)) /\ Fits(k)
           /\ verified = FALSE /\ Announces(k) /\ isr'.buffer = isr.buffer
  <2>1. wire' = <<>>
    BY <1>4, <1>5, <1>9
  <2>2. /\ gpsq' = Announced /\ stored' = k /\ accepted' = accepted + 1
        /\ verified' = TRUE /\ torn' = torn /\ isr'.state = "waiting"
        /\ Has(isr, k, Len(Body[k]) + 4)
    BY <1>1, <1>9 DEF Announces
  <2>3. Follows'
    <3>1. accepted' = offered'
      BY <1>1, <1>2, <1>9, <2>2
    <3>2. QED
      BY <2>1, <2>2, <3>1 DEF Follows
  <2>4. gpsq \in Seq({"waiting", "start", "sleep"})
    BY <1>6 DEF CleanType
  <2>5. /\ gpsq' \in Seq({"waiting", "start", "sleep"})
        /\ gpsq' = gpsq \/ (gpsq' # <<>> /\ Tail(gpsq') = gpsq)
    BY <2>2, <2>4, AnnouncedQueue
  <2>6. CleanType'
    BY <1>2, <1>6, <2>2, <2>5 DEF CleanType
  <2>7. BufferHolds(stored)'
    BY <1>9, <2>2, HasHolds, StillHolds
  <2>8. Intact'
    BY <2>2, <2>7 DEF Intact
  <2>9. Reads'
    <3>1. at \in Reading => torn = TRUE
      BY <1>9 DEF Clean, Reads
    <3>2. QED
      BY <1>2, <2>2, <3>1 DEF Clean, Reads, Reading
  <2>10. Asked'
    <3>1. /\ at \notin {"reset", "poll", "match", "port"}
          /\ at = "expect" => receiver.owed = <<>> /\ ~Tells(gpsq)
      BY <1>2 DEF Clean, Asked
    <3>2. ~Tells(gpsq) => ~Tells(gpsq)' \/ (gpsq' # <<>> /\ ~Tells(Tail(gpsq))')
      BY <2>5 DEF Tells
    <3>3. QED
      BY <1>2, <2>1, <3>1, <3>2 DEF Clean, Asked
  <2>11. QED
    BY <2>3, <2>6, <2>8, <2>9, <2>10 DEF Clean
<1>10. QED
  BY <1>1, <1>3, <1>4, <1>7, <1>8, <1>9, ParserStep

\* A message begins where the one before it has ended.
LEMMA BeginsClean ==
  ASSUME Clean, NEW k \in Kind, Begins(k), UNCHANGED <<isr, gpsq, taskvars, history>>,
         Asked'
  PROVE  Clean'
<1>1. /\ wire = <<>> /\ wire' = Message(k) /\ sending' = k
      /\ offered' = IF Fits(k) THEN offered + 1 ELSE offered
  BY DEF Begins
<1>2. isr.state = "waiting" /\ accepted = offered
  BY <1>1 DEF Clean, Follows
<1>3. /\ isr' = isr /\ gpsq' = gpsq /\ at' = at /\ stored' = stored /\ accepted' = accepted
      /\ verified' = verified /\ torn' = torn
  BY DEF taskvars, history
<1>4. Len(Message(k)) \in Nat /\ Message(k) # <<>>
  BY MessageAt, ContentAt
<1>5. Come(k, 0)' /\ Place(k, 0)'
  <2>1. /\ Len(Message(k)) = Len(Message(k)) - 0
        /\ \A i \in 1 .. Len(Message(k)) : Message(k)[i] = Message(k)[0 + i]
    BY <1>4
  <2>2. Come(k, 0)'
    BY <1>1, <2>1 DEF Come
  <2>3. Place(k, 0)'
    BY <1>2, <1>3 DEF Place, Before
  <2>4. QED
    BY <2>2, <2>3
<1>6. Follows'
  <2>1. PICK q \in Nat : q = 0
    OBVIOUS
  <2>2. Come(k, q)' /\ Place(k, q)'
    BY <1>5, <2>1
  <2>3. offered' = (IF Fits(k) THEN accepted' + 1 ELSE accepted')
    BY <1>1, <1>2, <1>3
  <2>4. wire' # <<>> /\ sending' = k
    BY <1>1, <1>4
  <2>5. \E r \in Nat : Come(sending, r)' /\ Place(sending, r)'
    BY <2>2, <2>4
  <2>6. QED
    BY <2>3, <2>4, <2>5 DEF Follows
<1>7. CleanType'
  BY <1>1, <1>3 DEF Clean, CleanType
<1>8. Intact' /\ Reads'
  <2>1. BufferHolds(stored)' <=> BufferHolds(stored)
    BY <1>3 DEF BufferHolds
  <2>2. QED
    BY <1>3, <2>1 DEF Clean, Intact, Reads, Tells
<1>9. QED
  BY <1>6, <1>7, <1>8 DEF Clean

\* In the setup there is one answer to come, and no report.
LEMMA ReceiverClean ==
  ASSUME LinkInv, Clean, ReceiverAnswers \/ ReceiverReports
  PROVE  Clean'
<1>1. CASE ReceiverAnswers
  <2>1. /\ receiver.owed # <<>> /\ Begins(Head(receiver.owed))
        /\ receiver' = [receiver EXCEPT !.owed = Tail(receiver.owed)]
        /\ UNCHANGED <<isr, gpsq, taskvars, history>>
    BY <1>1 DEF ReceiverAnswers
  <2>2. PICK owed : owed = receiver.owed /\ owed \in Seq(Kind) /\ owed # <<>>
    BY <2>1 DEF LinkInv
  <2>3. PICK k \in Kind : k = Head(receiver.owed)
    BY <2>2
  <2>4. Begins(k)
    BY <2>1, <2>3
  <2>5. /\ receiver'.owed = Tail(owed) /\ receiver'.reports = receiver.reports
        /\ Len(owed) = 1 => Tail(owed) = <<>>
    BY <2>1, <2>2 DEF LinkInv
  <2>6. at' = at /\ gpsq' = gpsq
    BY <2>1 DEF taskvars
  <2>7. Asked'
    <3>1. at \notin {"reset", "poll", "match", "port"}
      BY <2>2 DEF Clean, Asked
    <3>2. at = "expect" => Len(owed) = 1 /\ ~Tells(gpsq)
      BY <2>2 DEF Clean, Asked
    <3>3. at \in Boot => receiver.reports = FALSE
      BY DEF Clean, Asked
    <3>4. QED
      BY <2>5, <2>6, <3>1, <3>2, <3>3 DEF Asked, Tells
  <2>8. QED
    BY <2>1, <2>4, <2>7, BeginsClean
<1>2. CASE ReceiverReports
  <2>1. /\ receiver.reports /\ receiver' = receiver
        /\ UNCHANGED <<isr, gpsq, taskvars, history>>
    BY <1>2 DEF ReceiverReports
  <2>2. PICK k \in Kind : Begins(k)
    BY <1>2 DEF ReceiverReports
  <2>3. at \notin Boot /\ at' = at
    BY <2>1 DEF Clean, Asked, taskvars
  <2>4. Asked'
    BY <2>3 DEF Asked, Boot
  <2>5. QED
    BY <2>1, <2>2, <2>4, BeginsClean
<1>3. QED
  BY <1>1, <1>2

-----------------------------------------------------------------------------
(* A clean wire: the tasks.                                                *)

\* Class, id and length are read from the buffer as they were sent.
LEMMA HoldsHead ==
  ASSUME NEW k \in Kind, BufferHolds(k)
  PROVE  (BufferIs("pvt") => k = "pvt") /\ Length = Len(Body[k])
<1>1. PICK c, n : /\ c = Content(k) /\ c \in Seq(Byte) /\ n = Len(Body[k]) /\ n >= 1
                  /\ Len(c) = n + 4 /\ n \in Nat
                  /\ c[1] = ClassId[k][1] /\ c[2] = ClassId[k][2] /\ c[3] + c[4] * Base = n
  <2>1. /\ Content(k) \in Seq(Byte) /\ Len(Content(k)) = Len(Body[k]) + 4
        /\ Len(Body[k]) \in Nat /\ Len(Body[k]) >= 1
        /\ Content(k)[1] = ClassId[k][1] /\ Content(k)[2] = ClassId[k][2]
        /\ Content(k)[3] + Content(k)[4] * Base = Len(Body[k])
    BY ContentAt
  <2>2. QED
    BY <2>1
<1>2. PICK m : m \in 4 .. n + 4 /\ m = IF n + 4 > BufferLen THEN BufferLen ELSE n + 4
  <2>1. BufferLen \in Nat /\ BufferLen > 4
    BY WireAssumption
  <2>2. CASE n + 4 > BufferLen
    BY <1>1, <2>1, <2>2
  <2>3. CASE ~(n + 4 > BufferLen)
    BY <1>1, <2>1, <2>3
  <2>4. QED
    BY <2>2, <2>3
<1>3. Image(k) = SubSeq(c, 1, m)
  BY <1>1, <1>2 DEF Image
<1>4. DOMAIN SubSeq(c, 1, m) = 1 .. m /\ \A i \in 1 .. m : SubSeq(c, 1, m)[i] = c[i]
  BY <1>1, <1>2
<1>5. \A i \in 1 .. m : isr.buffer[i - 1] = c[i]
  BY <1>3, <1>4 DEF BufferHolds
<1>6. /\ isr.buffer[0] = c[1] /\ isr.buffer[1] = c[2]
      /\ isr.buffer[2] = c[3] /\ isr.buffer[3] = c[4]
  <2>1. 1 \in 1 .. m /\ 2 \in 1 .. m /\ 3 \in 1 .. m /\ 4 \in 1 .. m
    BY <1>2
  <2>2. /\ isr.buffer[1 - 1] = c[1] /\ isr.buffer[2 - 1] = c[2]
        /\ isr.buffer[3 - 1] = c[3] /\ isr.buffer[4 - 1] = c[4]
    BY <1>5, <2>1
  <2>3. QED
    BY <2>2
<1>7. Length = Len(Body[k])
  BY <1>1, <1>6 DEF Length
<1>8. ASSUME BufferIs("pvt") PROVE k = "pvt"
  <2>1. <<ClassId[k][1], ClassId[k][2]>> = ClassId["pvt"]
    BY <1>1, <1>6, <1>8 DEF BufferIs
  <2>2. ClassId[k] = <<ClassId[k][1], ClassId[k][2]>>
    BY MessageAssumption
  <2>3. QED
    BY <2>1, <2>2, ContentAssumption
<1>9. QED
  BY <1>7, <1>8

\* What the task is told of first is gone from the queue.
LEMMA ReceivesTold ==
  ASSUME Clean, gpsq # <<>>, Head(gpsq) = "waiting"
  PROVE  Tells(gpsq) /\ Tail(gpsq) \in Seq({"waiting", "start", "sleep"})
<1>1. gpsq \in Seq({"waiting", "start", "sleep"})
  BY DEF Clean, CleanType
<1>2. 1 \in 1 .. Len(gpsq) /\ gpsq[1] = "waiting"
  BY <1>1
<1>3. QED
  BY <1>1, <1>2 DEF Tells

\* A step that leaves the interrupt and the wire alone.
LEMMA TaskKeeps ==
  ASSUME Clean, UNCHANGED <<isr, wirevars, stored, accepted, verified>>,
         torn' \in BOOLEAN, gpsq' \in Seq({"waiting", "start", "sleep"}), Asked', Reads',
         at \in {"ping", "pong"} /\ ~Tells(gpsq) => at' \in {"ping", "pong"} /\ ~Tells(gpsq)'
  PROVE  Clean'
<1>1. /\ isr' = isr /\ wire' = wire /\ sending' = sending /\ offered' = offered
      /\ stored' = stored /\ accepted' = accepted /\ verified' = verified
  BY DEF wirevars
<1>2. CleanType'
  BY <1>1 DEF Clean, CleanType
<1>3. Follows'
  BY <1>1 DEF Clean, Follows, Come, Place
<1>4. Intact'
  <2>1. BufferHolds(stored)' <=> BufferHolds(stored)
    BY <1>1 DEF BufferHolds
  <2>2. QED
    BY <1>1, <2>1 DEF Clean, Intact
<1>5. QED
  BY <1>2, <1>3, <1>4 DEF Clean

\* ublox_update_port_settings writes one byte of the answer it has just read.
LEMMA PortSetClean == LinkInv /\ Clean /\ PortSet => Clean'
<1> SUFFICES ASSUME LinkInv, Clean, PortSet PROVE Clean'
  OBVIOUS
<1>1. /\ at = "port" /\ at' = "ping" /\ gpsq' = gpsq /\ wire' = wire /\ sending' = sending
      /\ offered' = offered /\ stored' = stored /\ accepted' = accepted
      /\ verified' = verified /\ torn' = torn
      /\ isr' = [isr EXCEPT !.buffer[4] = (isr.buffer[4] + 1) % Base]
      /\ receiver' = Owes(receiver, <<"ack">>)
  BY DEF PortSet, Goto, wirevars, history
<1>2. isr'.state = isr.state
  BY <1>1 DEF LinkInv, IsrInv, IsrType
<1>3. receiver'.reports = receiver.reports
  BY <1>1 DEF LinkInv, Owes
<1>4. wire = <<>> /\ ~Tells(gpsq) /\ receiver.reports = FALSE
  BY <1>1 DEF Clean, Asked, Boot
<1>5. CleanType'
  BY <1>1 DEF Clean, CleanType
<1>6. Follows'
  BY <1>1, <1>2, <1>4 DEF Clean, Follows
<1>7. Asked'
  BY <1>1, <1>3, <1>4 DEF Asked
<1>8. Intact'
  BY <1>1, <1>4 DEF Clean, Intact, Tells
<1>9. Reads'
  BY <1>1 DEF Reads, Reading
<1>10. QED
  BY <1>5, <1>6, <1>7, <1>8, <1>9 DEF Clean

\* The setup asks for one message after the other and takes each from the queue.
LEMMA SetupClean == LinkInv /\ Clean /\ Setup => Clean'
<1> SUFFICES ASSUME LinkInv, Clean, Setup PROVE Clean'
  OBVIOUS
<1>1. /\ gpsq \in Seq({"waiting", "start", "sleep"}) /\ torn \in BOOLEAN
      /\ receiver \in [owed : Seq(Kind), reports : BOOLEAN]
  BY DEF LinkInv, Clean, CleanType
<1>2. ASSUME UNCHANGED <<isr, wirevars, history>>, gpsq' \in Seq({"waiting", "start", "sleep"}),
             at' \in Boot \cup {"serve"}, Asked',
             at \in {"ping", "pong"} /\ ~Tells(gpsq)
               => at' \in {"ping", "pong"} /\ ~Tells(gpsq)'
      PROVE  Clean'
  <2>1. Reads'
    BY <1>2 DEF Reads, Reading, Boot
  <2>2. torn' \in BOOLEAN /\ UNCHANGED <<isr, wirevars, stored, accepted, verified>>
    BY <1>1, <1>2 DEF history
  <2>3. QED
    BY <1>2, <2>1, <2>2, TaskKeeps
<1>3. CASE ResetReceiver
  <2>1. /\ at = "reset" /\ at' = "poll" /\ receiver' = receiver /\ gpsq' = gpsq
        /\ wire' = wire /\ UNCHANGED <<isr, wirevars, history>>
    BY <1>3 DEF ResetReceiver, Goto, ublox_reset, wirevars
  <2>2. Asked'
    BY <2>1 DEF Clean, Asked, Boot, Tells
  <2>3. QED
    BY <1>1, <1>2, <2>1, <2>2 DEF Boot
<1>4. CASE PollPort
  <2>1. /\ at = "poll" /\ at' = "expect" /\ receiver' = Owes(receiver, <<"prt">>)
        /\ gpsq' = gpsq /\ wire' = wire /\ UNCHANGED <<isr, wirevars, history>>
    BY <1>4 DEF PollPort, Goto, wirevars
  <2>2. receiver.owed = <<>> /\ wire = <<>> /\ ~Tells(gpsq) /\ receiver.reports = FALSE
    BY <2>1 DEF Clean, Asked, Boot
  <2>3. receiver'.owed = receiver.owed \o <<"prt">> /\ receiver'.reports = receiver.reports
    BY <1>1, <2>1 DEF Owes
  <2>4. Len(receiver'.owed) = 1
    BY <2>2, <2>3
  <2>5. Asked'
    BY <2>1, <2>2, <2>3, <2>4 DEF Asked, Tells
  <2>6. QED
    BY <1>1, <1>2, <2>1, <2>5 DEF Boot
<1>5. CASE Expect
  <2>1. /\ at = "expect" /\ at' = "match" /\ receiver' = receiver /\ gpsq # <<>>
        /\ Head(gpsq) = "waiting" /\ gpsq' = Tail(gpsq) /\ wire' = wire
        /\ UNCHANGED <<isr, wirevars, history>>
    BY <1>5 DEF Expect, Receives, Goto, wirevars
  <2>2. Tells(gpsq) /\ gpsq' \in Seq({"waiting", "start", "sleep"})
    BY <2>1, ReceivesTold
  <2>3. receiver.owed = <<>> /\ wire = <<>> /\ ~Tells(Tail(gpsq)) /\ receiver.reports = FALSE
    BY <2>1, <2>2 DEF Clean, Asked, Boot
  <2>4. ~Tells(gpsq)'
    BY <2>1, <2>3 DEF Tells
  <2>5. Asked'
    BY <2>1, <2>3, <2>4 DEF Asked
  <2>6. QED
    BY <1>2, <2>1, <2>2, <2>5 DEF Boot
<1>6. CASE Match
  <2>1. /\ at = "match" /\ at' \in {"port", "expect"} /\ receiver' = receiver
        /\ gpsq' = gpsq /\ wire' = wire /\ UNCHANGED <<isr, wirevars, history>>
    BY <1>6 DEF Match, Goto, wirevars
  <2>2. Asked'
    BY <2>1 DEF Clean, Asked, Boot, Tells
  <2>3. QED
    BY <1>1, <1>2, <2>1, <2>2 DEF Boot
<1>7. CASE PortRefused
  <2>1. /\ at = "port" /\ at' = "serve" /\ gpsq' = gpsq /\ UNCHANGED <<isr, wirevars, history>>
    BY <1>7 DEF PortRefused, Goto
  <2>2. Asked'
    BY <2>1 DEF Asked, Boot
  <2>3. QED
    BY <1>1, <1>2, <2>1, <2>2
<1>8. CASE PortSet
  BY <1>8, PortSetClean
<1>9. CASE Ping
  <2>1. /\ at = "ping" /\ at' = "pong" /\ receiver' = Owes(receiver, <<"ver">>)
        /\ gpsq' = gpsq /\ UNCHANGED <<isr, wirevars, history>>
    BY <1>9 DEF Ping, Goto
  <2>2. receiver'.reports = FALSE
    BY <1>1, <2>1 DEF Clean, Asked, Boot, Owes
  <2>3. Asked'
    BY <2>1, <2>2 DEF Asked
  <2>4. QED
    BY <1>1, <1>2, <2>1, <2>3 DEF Boot, Tells
<1>10. CASE Pong
  <2>1. /\ at = "pong" /\ at' = "version" /\ receiver' = receiver /\ gpsq # <<>>
        /\ Head(gpsq) = "waiting" /\ gpsq' = Tail(gpsq) /\ UNCHANGED <<isr, wirevars, history>>
    BY <1>10 DEF Pong, Receives, Goto
  <2>2. Tells(gpsq) /\ gpsq' \in Seq({"waiting", "start", "sleep"})
    BY <2>1, ReceivesTold
  <2>3. Asked'
    BY <2>1 DEF Clean, Asked, Boot
  <2>4. QED
    BY <1>2, <2>1, <2>2, <2>3 DEF Boot
<1>11. CASE Version
  <2>1. /\ at = "version" /\ at' \in {"serve", "ping"} /\ receiver' = receiver
        /\ gpsq' = gpsq /\ UNCHANGED <<isr, wirevars, history>>
    BY <1>11 DEF Version, Goto
  <2>2. Asked'
    BY <2>1 DEF Clean, Asked, Boot
  <2>3. QED
    BY <1>1, <1>2, <2>1, <2>2 DEF Boot
<1>12. QED
  BY <1>3, <1>4, <1>5, <1>6, <1>7, <1>8, <1>9, <1>10, <1>11 DEF Setup

\* What the task reads is what it was told of, or it was written over.
LEMMA ServeClean ==
  ASSUME LinkInv, Clean,
         Start \/ Sleep \/ Take \/ Classify \/ Check \/ Copy \/ SendPosition
  PROVE  Clean'
<1>1. /\ gpsq \in Seq({"waiting", "start", "sleep"}) /\ torn \in BOOLEAN
      /\ verified \in BOOLEAN
  BY DEF Clean, CleanType
<1>2. ASSUME at = "serve", gpsq # <<>> PROVE Tail(gpsq) \in Seq({"waiting", "start", "sleep"})
  BY <1>1, <1>2
<1>3. at' \in {"serve", "classify", "check", "copy", "send", "halted"} => Asked'
  BY DEF Asked, Boot
<1>4. CASE Start \/ Sleep
  <2>1. /\ at = "serve" /\ at' = "serve" /\ gpsq # <<>> /\ gpsq' = Tail(gpsq)
        /\ UNCHANGED <<isr, wirevars, history>>
    BY <1>4 DEF Start, Sleep, Serves
  <2>2. Reads'
    BY <2>1 DEF Reads, Reading
  <2>3. QED
    BY <1>1, <1>2, <1>3, <2>1, <2>2, TaskKeeps DEF history
<1>5. CASE Take
  <2>1. /\ at = "serve" /\ at' = "classify" /\ gpsq # <<>> /\ gpsq' = Tail(gpsq)
        /\ torn' = ~verified /\ UNCHANGED <<isr, wirevars, stored, accepted, verified>>
    BY <1>5 DEF Take, Serves, Goto
  <2>2. torn' \in BOOLEAN /\ (verified' = TRUE \/ torn' = TRUE)
    BY <1>1, <2>1
  <2>3. Reads'
    BY <2>1, <2>2 DEF Reads
  <2>4. QED
    BY <1>2, <1>3, <2>1, <2>2, <2>3, TaskKeeps
<1>6. ASSUME at \in Reading, torn # TRUE
      PROVE  /\ stored \in Kind /\ verified = TRUE /\ BufferHolds(stored)
             /\ at \in {"check", "copy"} => stored = "pvt"
  BY <1>6 DEF Clean, Reads, Intact, Reading
<1>7. CASE Classify
  <2>1. /\ at = "classify" /\ (at' = "serve" \/ (at' = "check" /\ BufferIs("pvt")))
        /\ gpsq' = gpsq /\ UNCHANGED <<isr, wirevars, history>>
    BY <1>7 DEF Classify, Goto
  <2>2. ASSUME at' = "check", torn # TRUE PROVE verified = TRUE /\ stored = "pvt"
    <3>1. PICK k \in Kind : k = stored /\ BufferHolds(k) /\ verified = TRUE
      BY <1>6, <2>1, <2>2 DEF Reading
    <3>2. QED
      BY <2>1, <2>2, <3>1, HoldsHead
  <2>3. Reads'
    BY <1>1, <2>1, <2>2 DEF Reads, Reading, history
  <2>4. QED
    BY <1>1, <1>3, <2>1, <2>3, TaskKeeps DEF history
<1>8. CASE Check
  <2>1. /\ at = "check" /\ at' = (IF Length = Len(Body["pvt"]) THEN "copy" ELSE "halted")
        /\ gpsq' = gpsq /\ UNCHANGED <<isr, wirevars, history>>
    BY <1>8 DEF Check, Goto
  <2>2. ASSUME torn # TRUE PROVE at' = "copy" /\ verified = TRUE /\ stored = "pvt"
    <3>1. PICK k \in Kind : k = stored /\ BufferHolds(k) /\ verified = TRUE /\ k = "pvt"
      BY <1>6, <2>1, <2>2 DEF Reading
    <3>2. Length = Len(Body["pvt"])
      BY <3>1, HoldsHead
    <3>3. QED
      BY <2>1, <3>1, <3>2
  <2>3. Reads'
    BY <1>1, <2>1, <2>2 DEF Reads, Reading, history
  <2>4. QED
    BY <1>1, <1>3, <2>1, <2>3, TaskKeeps DEF history
<1>9. CASE Copy \/ SendPosition
  <2>1. /\ at \in {"copy", "send"} /\ at' \in {"serve", "send"} /\ gpsq' = gpsq
        /\ UNCHANGED <<isr, wirevars, history>>
    BY <1>9 DEF Copy, SendPosition, Goto
  <2>2. at' \notin Reading \cup {"halted"}
    BY <2>1 DEF Reading
  <2>3. Reads'
    BY <2>2 DEF Reads, Reading
  <2>4. QED
    BY <1>1, <1>3, <2>1, <2>3, TaskKeeps DEF history
<1>10. QED
  BY <1>4, <1>5, <1>7, <1>8, <1>9

\* A command joins the queue; it announces nothing.
LEMMA CommandClean == Clean /\ MainType /\ Command => Clean'
<1> SUFFICES ASSUME Clean, MainType, Command PROVE Clean'
  OBVIOUS
<1>1. PICK event \in {"start", "sleep"} : gpsq' = Append(gpsq, event)
  BY DEF Command, MainType
<1>2. /\ at' = at /\ receiver' = receiver /\ wire' = wire
      /\ UNCHANGED <<isr, wirevars, history>>
  BY DEF Command, taskvars, wirevars
<1>3. PICK q : q = gpsq /\ q \in Seq({"waiting", "start", "sleep"}) /\ torn \in BOOLEAN
  BY DEF Clean, CleanType
<1>4. /\ Append(q, event) \in Seq({"waiting", "start", "sleep"})
      /\ Len(Append(q, event)) = Len(q) + 1 /\ Len(q) \in Nat
      /\ \A i \in 1 .. Len(q) : Append(q, event)[i] = q[i]
      /\ Append(q, event)[Len(q) + 1] = event /\ event # "waiting"
  BY <1>3
<1>5. ~Tells(q) => ~Tells(Append(q, event))
  BY <1>4 DEF Tells
<1>6. q # <<>> /\ ~Tells(Tail(q)) => Append(q, event) # <<>> /\ ~Tells(Tail(Append(q, event)))
  <2> SUFFICES ASSUME q # <<>>, ~Tells(Tail(q))
               PROVE  Append(q, event) # <<>> /\ ~Tells(Tail(Append(q, event)))
    OBVIOUS
  <2>1. /\ Len(Tail(q)) = Len(q) - 1 /\ \A i \in 1 .. Len(q) - 1 : Tail(q)[i] = q[i + 1]
        /\ Len(q) >= 1
    BY <1>3
  <2>2. /\ Append(q, event) # <<>> /\ Len(Tail(Append(q, event))) = Len(q)
        /\ \A i \in 1 .. Len(q) : Tail(Append(q, event))[i] = Append(q, event)[i + 1]
    BY <1>3, <1>4
  <2>3. ASSUME NEW i \in 1 .. Len(q) PROVE Tail(Append(q, event))[i] # "waiting"
    <3>1. CASE i = Len(q)
      BY <1>4, <2>2, <3>1
    <3>2. CASE i # Len(q)
      <4>1. i \in 1 .. Len(q) - 1 /\ i + 1 \in 1 .. Len(q)
        BY <1>4, <3>2
      <4>2. Tail(Append(q, event))[i] = Tail(q)[i]
        BY <1>4, <2>1, <2>2, <4>1
      <4>3. Tail(q)[i] # "waiting"
        BY <2>1, <4>1 DEF Tells
      <4>4. QED
        BY <4>2, <4>3
    <3>3. QED
      BY <3>1, <3>2
  <2>4. QED
    BY <2>2, <2>3 DEF Tells
<1>7. (Tells(gpsq)' <=> Tells(Append(q, event)))
      /\ (Tells(Tail(gpsq))' <=> Tells(Tail(Append(q, event))))
  BY <1>1, <1>3 DEF Tells
<1>8. Asked'
  BY <1>1, <1>2, <1>3, <1>5, <1>6, <1>7 DEF Clean, Asked
<1>9. Reads'
  BY <1>2 DEF Clean, Reads, history
<1>10. QED
  BY <1>1, <1>2, <1>3, <1>4, <1>5, <1>7, <1>8, <1>9, TaskKeeps DEF history

\* For every buffer, queue and set of messages, as long as no byte is lost or
\* changed: every message that fits is announced and no other is, and what the
\* task reads is what it was told of, or was written over while it read.
THEOREM LinkParsesEveryMessage == Spec => []ParsesEveryMessage
<1>1. Init => CleanInv
  <2> SUFFICES ASSUME Init PROVE CleanInv
    OBVIOUS
  <2>1. /\ gpsq = <<>> /\ at = "reset" /\ wire = <<>> /\ accepted = 0 /\ offered = 0
        /\ verified = FALSE /\ torn = FALSE /\ isr.state = "waiting"
        /\ receiver = [owed |-> <<>>, reports |-> FALSE]
        /\ spent = [reports |-> 0, commands |-> 0, noise |-> 0]
    BY DEF Init, IsrReset
  <2>2. ~Tells(gpsq)
    BY <2>1 DEF Tells
  <2>3. CleanType /\ Follows /\ Intact
    <3>1. <<>> \in Seq({"waiting", "start", "sleep"})
      OBVIOUS
    <3>2. CleanType
      BY <2>1, <3>1 DEF CleanType
    <3>3. Follows
      BY <2>1 DEF Follows
    <3>4. Intact
      BY <2>1 DEF Intact
    <3>5. QED
      BY <3>2, <3>3, <3>4
  <2>4. Asked
    BY <2>1, <2>2 DEF Asked
  <2>5. Reads
    BY <2>1 DEF Reads, Reading
  <2>6. QED
    <3>1. MainType
      BY DEF Init, MainType
    <3>2. QED
      BY <2>1, <2>3, <2>4, <2>5, <3>1, LinkInit DEF CleanInv, Clean
<1>2. CleanInv /\ [Next]_vars => CleanInv'
  <2> SUFFICES ASSUME CleanInv, [Next]_vars PROVE CleanInv'
    OBVIOUS
  <2>1. LinkInv /\ LinkInv'
    BY LinkStep DEF CleanInv
  <2>2. spent \in [reports : Nat, commands : Nat, noise : Nat] /\ MainType
    BY DEF CleanInv
  <2>10. MainType'
    <3>1. CASE \/ UNCHANGED main \/ Copy \/ Main
      BY <2>2, <3>1 DEF MainType, Copy, Main, Commands, Command, MainTakes
    <3>2. CASE Wire
      BY <2>2, <3>2 DEF MainType, Wire, ByteArrives, ByteLost, ByteChanged, ReceiverAnswers,
                        ReceiverReports
    <3>3. CASE Task /\ ~Copy
      BY <2>2, <3>3 DEF MainType, Task, Setup, ResetReceiver, PollPort, Expect, Match,
           PortRefused, PortSet, Ping, Pong, Version, Start, Sleep, Take, Classify, Check,
           SendPosition
    <3>4. QED
      BY <3>1, <3>2, <3>3 DEF Next, vars
  <2>3. CASE ByteLost \/ ByteChanged
    <3>1. spent' = [spent EXCEPT !.noise = spent.noise + 1]
      BY <2>3 DEF ByteLost, ByteChanged, Noise
    <3>2. spent' \in [reports : Nat, commands : Nat, noise : Nat] /\ spent'.noise # 0
      BY <2>2, <3>1
    <3>3. QED
      BY <2>1, <2>10, <3>2 DEF CleanInv
  <2>4. ASSUME spent' \in [reports : Nat, commands : Nat, noise : Nat],
               spent'.noise = spent.noise, Clean => Clean'
        PROVE  CleanInv'
    BY <2>1, <2>4, <2>10 DEF CleanInv
  <2>5. CASE ByteArrives
    <3>1. spent' = spent
      BY <2>5 DEF ByteArrives
    <3>2. QED
      BY <2>1, <2>2, <2>4, <2>5, <3>1, ArrivesClean
  <2>6. CASE ReceiverAnswers \/ ReceiverReports
    <3>1. spent' = spent \/ spent' = [spent EXCEPT !.reports = spent.reports + 1]
      BY <2>6 DEF ReceiverAnswers, ReceiverReports
    <3>2. /\ spent' \in [reports : Nat, commands : Nat, noise : Nat]
          /\ spent'.noise = spent.noise
      BY <2>2, <3>1
    <3>3. QED
      BY <2>1, <2>4, <2>6, <3>2, ReceiverClean
  <2>7. CASE Task
    <3>1. spent' = spent
      BY <2>7 DEF Task, Setup, ResetReceiver, PollPort, Expect, Match, PortRefused, PortSet,
                  Ping, Pong, Version, Start, Sleep, Take, Classify, Check, Copy,
                  SendPosition
    <3>2. Clean => Clean'
      BY <2>1, <2>7, SetupClean, ServeClean DEF Task
    <3>3. QED
      BY <2>2, <2>4, <3>1, <3>2
  <2>8. CASE Main
    <3>1. spent' = spent \/ spent' = [spent EXCEPT !.commands = spent.commands + 1]
      BY <2>8 DEF Main, Commands, Command, MainTakes
    <3>2. /\ spent' \in [reports : Nat, commands : Nat, noise : Nat]
          /\ spent'.noise = spent.noise
      BY <2>2, <3>1
    <3>3. Clean => Clean'
      <4>1. CASE Command
        BY <2>2, <4>1, CommandClean
      <4>2. CASE Commands \/ MainTakes
        BY <4>2 DEF Commands, MainTakes, taskvars, wirevars, history, Clean, CleanType, Follows,
             Come, Place, Asked, Intact, Reads, Tells, BufferHolds
      <4>3. QED
        BY <2>8, <4>1, <4>2 DEF Main
    <3>4. QED
      BY <2>4, <3>2, <3>3
  <2>9. CASE UNCHANGED vars
    <3>1. Clean => Clean'
      BY <2>9 DEF vars, taskvars, wirevars, history, Clean, CleanType, Follows, Come, Place,
                  Asked, Intact, Reads, Tells, BufferHolds
    <3>2. spent' = spent
      BY <2>9 DEF vars
    <3>3. QED
      BY <2>2, <2>4, <3>1, <3>2
  <2>11. QED
    BY <2>3, <2>5, <2>6, <2>7, <2>8, <2>9 DEF Next, Wire
<1>3. CleanInv => ParsesEveryMessage
  <2> SUFFICES ASSUME CleanInv, spent.noise = 0
               PROVE  /\ wire = <<>> => accepted = offered /\ isr.state = "waiting"
                      /\ verified /\ at \notin {"ping", "pong", "version"} => BufferHolds(stored)
                      /\ ~torn => at # "halted" /\ (at \in {"check", "copy"} => BufferHolds("pvt"))
    BY DEF ParsesEveryMessage
  <2>1. CleanType /\ Follows /\ Intact /\ Reads
    BY DEF CleanInv, Clean
  <2>2. wire = <<>> => accepted = offered /\ isr.state = "waiting"
    BY <2>1 DEF Follows
  <2>3. verified /\ at \notin {"ping", "pong", "version"} => BufferHolds(stored)
    BY <2>1 DEF Intact
  <2>4. ASSUME ~torn PROVE at # "halted" /\ (at \in {"check", "copy"} => BufferHolds("pvt"))
    <3>1. torn # TRUE
      BY <2>4
    <3>2. at # "halted"
      BY <2>1, <3>1 DEF Reads
    <3>3. ASSUME at \in {"check", "copy"} PROVE BufferHolds("pvt")
      <4>1. verified = TRUE /\ stored = "pvt"
        BY <2>1, <3>1, <3>3 DEF Reads, Reading
      <4>2. BufferHolds(stored)
        BY <2>1, <3>3, <4>1 DEF Intact
      <4>3. QED
        BY <4>1, <4>2
    <3>4. QED
      BY <3>2, <3>3
  <2>5. QED
    BY <2>2, <2>3, <2>4
<1>4. QED
  BY <1>1, <1>2, <1>3, PTL DEF Spec
=============================================================================
